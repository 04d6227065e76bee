-------------------------- MODULE SearchRouteProofs --------------------------
(***************************************************************************)
(* The types of the search route, and that it answers every request and    *)
(* fills every cache entry with the results of the right page, for any     *)
(* number of requests, pages and levels, whatever fails, expires or is     *)
(* restarted.                                                              *)
(***************************************************************************)
EXTENDS SearchRoute, TLAPS, SequenceTheorems, NaturalsInduction, WellFoundedInduction

\* The value comes from what its key names.
ResultsOf(value, k) == KeyOf(value) = k

\* Vectors that lost entries: fetch_results keeps the places of PagesAround.
Lists(S) == UNION {[places -> S] : places \in SUBSET (1 .. 3)}

WorldTyped == config_level \in ConfigLevels /\ listed \in BOOLEAN /\ mishap \in BOOLEAN

\* What is cached, or is about to be, is results of the page its key names.
StoreRight ==
    /\ cache \in [Keys -> Value \cup {NotCached}]
    /\ writes \subseteq [key: Keys, value: Value]
    /\ \A k \in Keys : Cached(k) => ResultsOf(cache[k], k)
    /\ \A w \in writes : ResultsOf(w.value, w.key)

RequestsTyped ==
    /\ at \in [Requests -> {"idle", "reading", "fetching", "checking", "prefetching"}]
    /\ asked \in [Requests -> Settings \cup {NothingAsked}]
    /\ current \in [Requests -> Value \cup {NotCached}]
    /\ wanted \in [Requests -> Lists(AllPages)]
    /\ keyed \in [Requests -> Lists(AllPages)]
    /\ fetched \in [Requests -> Lists(Value \cup {NotCached})]
    /\ gone \in [Requests -> SUBSET Keys]

\* What a request under way is for: some url asked for its page, and its level is
\* what the config file demands.
AskedRight(x) ==
    /\ x \in Settings
    /\ \E q \in PageParams : x.page = PageOf(q)
    /\ config_level >= 3 => x.level = config_level

\* What a request fetches around its page: at every place where there is a key
\* it is the key of the page there, and the results there are of that page.
NeighboursRight(r) ==
    \A i \in DOMAIN wanted[r] :
        /\ fetched[r][i] # NotCached =>
             ResultsOf(fetched[r][i], KeyAt(r, wanted[r][i]))
        /\ i \in DOMAIN keyed[r] => keyed[r][i] = wanted[r][i]

RequestRight(r) ==
    /\ DOMAIN fetched[r] = DOMAIN wanted[r]
    /\ at[r] # "idle" => AskedRight(asked[r])
    /\ at[r] \in {"checking", "prefetching"} =>
         current[r] \in Value /\ ResultsOf(current[r], KeyOf(asked[r]))
    /\ at[r] = "prefetching" => NeighboursRight(r)

ReplyRight ==
    /\ reply.kind \in {"none", "ok", "error"}
    /\ reply.kind = "ok" =>
         /\ reply.value \in Value /\ reply.asked \in Settings
         /\ ResultsOf(reply.value, KeyOf(reply.asked))
         /\ config_level >= 3 => reply.value.level = config_level

\* The inductive invariant.
RouteInvariant ==
    /\ WorldTyped /\ StoreRight /\ RequestsTyped
    /\ \A r \in Requests : RequestRight(r)
    /\ ReplyRight

-----------------------------------------------------------------------------
(* The names of engines in a key.                                          *)

\* A set of numbers that is not empty has a smallest one.
LEMMA SmallestNat ==
  ASSUME NEW S \in SUBSET Nat, S # {}
  PROVE  \E i \in S : \A j \in S : i <= j
<1> DEFINE Less == OpToRel(<, Nat)
<1>1. IsWellFoundedOn(Less, Nat)
  BY NatLessThanWellFounded
<1>2. \A i, j \in Nat : i < j => <<i, j>> \in Less
  BY DEF OpToRel
<1> HIDE DEF Less
<1>3. PICK i \in S : \A j \in S : ~(<<j, i>> \in Less)
  BY <1>1, WFMin
<1>4. \A j \in S : i \in Nat /\ j \in Nat /\ ~(j < i)
  BY <1>2, <1>3
<1> QED
  BY <1>4

\* Induction up to a bound, over a set of numbers.
LEMMA UpToBound ==
  ASSUME NEW N \in Nat, NEW S, 0 \in S, \A n \in 0 .. N - 1 : n \in S => n + 1 \in S
  PROVE  \A n \in 0 .. N : n \in S
<1> SUFFICES ASSUME (0 .. N) \ S # {}
       PROVE  FALSE
  OBVIOUS
<1>1. PICK n \in (0 .. N) \ S : \A k \in (0 .. N) \ S : n <= k
  <2>1. (0 .. N) \ S \in SUBSET Nat
    OBVIOUS
  <2> QED
    BY <2>1, SmallestNat
<1>2. n # 0 /\ n - 1 \in 0 .. N - 1 /\ ~(n <= n - 1) /\ (n - 1) + 1 = n
  BY <1>1
<1>3. n - 1 \in S
  BY <1>1, <1>2
<1> QED
  BY <1>1, <1>2, <1>3

\* A function over the numbers up to a bound is a list of that length.
LEMMA FunctionIsList ==
  ASSUME NEW S, NEW n \in Nat, NEW f \in [1 .. n -> S]
  PROVE  f \in Seq(S) /\ Len(f) = n
<1>1. f \in Seq(S)
  BY SeqDef
<1>2. Len(f) \in Nat /\ DOMAIN f = 1 .. Len(f)
  BY <1>1, LenProperties
<1>3. 1 .. n = 1 .. Len(f)
  BY <1>2
<1>4. QED
  BY <1>1, <1>2, <1>3

\* The parts that the names of a list begin with.
Parts(list, i) == [j \in 1 .. i |-> list[j][1]]

\* Names without a comma.
OfOnePart(S, N, list) ==
    list \in [1 .. N -> Seq(S)] /\ \A i \in 1 .. N : Len(list[i]) = 1

\* What a list begins with is a list, and goes on with the next name.
PartsAre(S, N, list) ==
    \A i \in 1 .. N :
      /\ Parts(list, i) \in Seq(S) /\ Len(Parts(list, i)) = i
      /\ i = 1 => Parts(list, i) = list[i]
      /\ i # 1 => Parts(list, i) = Parts(list, i - 1) \o list[i]

\* A list of plain names, put together, is that of their only parts.
LEMMA PartsJoin ==
  ASSUME NEW S, NEW N \in Nat, NEW list, OfOnePart(S, N, list)
  PROVE  PartsAre(S, N, list)
<1> SUFFICES ASSUME NEW i \in 1 .. N
             PROVE  /\ Parts(list, i) \in Seq(S) /\ Len(Parts(list, i)) = i
                    /\ i = 1 => Parts(list, i) = list[i]
                    /\ i # 1 => Parts(list, i) = Parts(list, i - 1) \o list[i]
  BY DEF PartsAre
<1>1. ASSUME NEW j \in 1 .. N
      PROVE  list[j] \in Seq(S) /\ Len(list[j]) = 1 /\ list[j][1] \in S
  <2>1. list[j] \in Seq(S) /\ Len(list[j]) = 1
    BY DEF OfOnePart
  <2>2. 1 \in 1 .. Len(list[j])
    BY <2>1
  <2>3. QED
    BY <2>1, <2>2, ElementOfSeq
<1>2. ASSUME NEW k \in 0 .. N
      PROVE  /\ Parts(list, k) \in Seq(S) /\ Len(Parts(list, k)) = k
             /\ \A j \in 1 .. k : Parts(list, k)[j] = list[j][1]
  <2>1. Parts(list, k) \in [1 .. k -> S]
    BY <1>1 DEF Parts
  <2>2. QED
    BY <2>1, FunctionIsList DEF Parts
<1>3. ASSUME i = 1
      PROVE  Parts(list, i) = list[i]
  <2>1. Len(Parts(list, i)) = 1 /\ Len(list[i]) = 1 /\ i \in 0 .. N
    BY <1>1, <1>2, <1>3
  <2>2. \A j \in 1 .. Len(Parts(list, i)) : Parts(list, i)[j] = list[i][j]
    BY <1>2, <1>3, <2>1
  <2>3. Parts(list, i) \in Seq(S) /\ list[i] \in Seq(S)
    BY <1>1, <1>2, <2>1
  <2>4. QED
    BY <2>1, <2>2, <2>3, SeqEqual
<1>4. ASSUME i # 1
      PROVE  Parts(list, i) = Parts(list, i - 1) \o list[i]
  <2> DEFINE left == Parts(list, i - 1)
             right == list[i]
  <2>1. i - 1 \in 0 .. N
    OBVIOUS
  <2>2. /\ left \in Seq(S) /\ Len(left) = i - 1
        /\ \A j \in 1 .. i - 1 : left[j] = list[j][1]
    BY <1>2, <2>1
  <2>3. right \in Seq(S) /\ Len(right) = 1 /\ right[1] = list[i][1]
    BY <1>1
  <2> HIDE DEF left, right
  <2>4. /\ left \o right \in Seq(S) /\ Len(left \o right) = i
        /\ \A j \in 1 .. i :
             (left \o right)[j] = IF j <= i - 1 THEN left[j] ELSE right[j - (i - 1)]
    <3>1. /\ left \o right \in Seq(S) /\ Len(left \o right) = Len(left) + Len(right)
          /\ \A j \in 1 .. Len(left) + Len(right) :
               (left \o right)[j] = IF j <= Len(left) THEN left[j] ELSE right[j - Len(left)]
      BY <2>2, <2>3, ConcatProperties
    <3>2. Len(left) = i - 1 /\ Len(left) + Len(right) = i
      BY <2>2, <2>3
    <3>3. QED
      BY <3>1, <3>2
  <2>5. ASSUME NEW j \in 1 .. i
        PROVE  (left \o right)[j] = list[j][1]
    <3>1. CASE j <= i - 1
      BY <2>2, <2>4, <3>1
    <3>2. CASE j = i
      <4>1. j - (i - 1) = 1 /\ ~(j <= i - 1)
        BY <3>2
      <4>2. (left \o right)[j] = right[1]
        BY <2>4, <4>1
      <4>3. QED
        BY <2>3, <3>2, <4>2
    <3>3. j <= i - 1 \/ j = i
      OBVIOUS
    <3>4. QED
      BY <3>1, <3>2, <3>3
  <2>6. Parts(list, i) = left \o right
    <3>1. /\ Parts(list, i) \in Seq(S) /\ Len(Parts(list, i)) = i
          /\ \A j \in 1 .. i : Parts(list, i)[j] = list[j][1]
      BY <1>2
    <3>2. \A j \in 1 .. i : Parts(list, i)[j] = (left \o right)[j]
      BY <2>5, <3>1
    <3>3. QED
      BY <2>4, <3>1, <3>2, SeqEqual
  <2>7. QED
    BY <2>6 DEF left, right
<1>5. Parts(list, i) \in Seq(S) /\ Len(Parts(list, i)) = i
  BY <1>2
<1>6. QED
  BY <1>3, <1>4, <1>5, Zenon

\* FlattenSeq over lists of one part: its recursion has one solution.
LEMMA PlainJoined ==
  ASSUME NEW S, NEW N \in Nat \ {0}, NEW list \in Seq(Seq(S)), Len(list) = N,
         \A i \in 1 .. N : Len(list[i]) = 1
  PROVE  Joined(list) = Parts(list, N)
<1> DEFINE Turn(g, i) == IF i = 1 THEN list[i] ELSE g[i - 1] \o list[i]
           Solution == [i \in 1 .. N |-> Parts(list, i)]
<1>1. OfOnePart(S, N, list)
  BY LenProperties DEF OfOnePart
<1>2. \A i \in 1 .. N : /\ i = 1 => Parts(list, i) = list[i]
                        /\ i # 1 => Parts(list, i) = Parts(list, i - 1) \o list[i]
  <2>1. N \in Nat
    OBVIOUS
  <2>2. PartsAre(S, N, list)
    BY <1>1, <2>1, PartsJoin
  <2>3. QED
    BY <2>2 DEF PartsAre
<1>3. \A i \in 1 .. N : Parts(list, i) = Turn(Solution, i)
  <2>1. SUFFICES ASSUME NEW i \in 1 .. N PROVE Parts(list, i) = Turn(Solution, i)
    OBVIOUS
  <2>2. CASE i = 1
    BY <1>2, <2>2
  <2>3. CASE i # 1
    <3>1. i - 1 \in 1 .. N
      BY <2>3
    <3>2. Solution[i - 1] = Parts(list, i - 1)
      BY <3>1
    <3>3. QED
      BY <1>2, <2>3, <3>2
  <2>4. QED
    BY <2>2, <2>3
<1>4. Solution = [i \in 1 .. N |-> Turn(Solution, i)]
  <2> HIDE DEF Turn
  <2>1. QED
    BY <1>3
<1>5. ASSUME NEW g, g = [i \in 1 .. N |-> Turn(g, i)]
      PROVE  g = Solution
  <2> DEFINE Alike == {n \in 0 .. N : n # 0 => g[n] = Parts(list, n)}
  <2>1. 0 \in Alike
    OBVIOUS
  <2>2. ASSUME NEW n \in 0 .. N - 1, n \in Alike
        PROVE  n + 1 \in Alike
    <3>1. n + 1 \in 1 .. N /\ (n + 1) - 1 = n
      OBVIOUS
    <3>2. g[n + 1] = Turn(g, n + 1)
      <4> HIDE DEF Turn
      <4>1. QED
        BY <1>5, <3>1
    <3>3. CASE n = 0
      <4>1. g[n + 1] = list[1] /\ Parts(list, n + 1) = list[1]
        BY <1>2, <3>1, <3>2, <3>3
      <4>2. QED
        BY <3>1, <4>1
    <3>4. CASE n # 0
      <4>1. g[n + 1] = g[n] \o list[n + 1] /\ g[n] = Parts(list, n)
        <5>1. n + 1 # 1
          BY <3>4
        <5>2. Turn(g, n + 1) = g[n] \o list[n + 1]
          BY <3>1, <5>1
        <5>3. g[n] = Parts(list, n)
          BY <2>2, <3>4
        <5>4. QED
          <6> HIDE DEF Turn
          <6>1. QED
            BY <3>2, <5>2, <5>3
      <4>2. Parts(list, n + 1) = Parts(list, n) \o list[n + 1]
        <5>1. n + 1 # 1
          BY <3>4
        <5>2. QED
          BY <1>2, <3>1, <5>1
      <4>3. g[n + 1] = Parts(list, n + 1)
        BY <4>1, <4>2, Zenon
      <4>4. QED
        BY <3>1, <4>3
    <3>5. QED
      BY <3>3, <3>4
  <2>3. \A n \in 0 .. N : n \in Alike
    <3> HIDE DEF Alike
    <3>1. QED
      BY <2>1, <2>2, UpToBound
  <2>4. \A n \in 1 .. N : g[n] = Parts(list, n)
    BY <2>3
  <2>5. g = [i \in 1 .. N |-> g[i]]
    <3> HIDE DEF Turn
    <3>1. QED
      BY <1>5
  <2>6. QED
    BY <2>4, <2>5
<1>6. (CHOOSE g : g = [i \in 1 .. N |-> Turn(g, i)]) = Solution
  <2> HIDE DEF Turn, Solution
  <2>1. QED
    BY <1>4, <1>5
<1>7. Solution[N] = Parts(list, N)
  OBVIOUS
<1>8. Len(list) # 0 /\ list # <<>>
  BY EmptySeq
<1>9. Joined(list) = (CHOOSE g : g = [i \in 1 .. N |-> Turn(g, i)])[N]
  BY <1>8 DEF Joined, FlattenSeq
<1>10. QED
  <2> HIDE DEF Turn, Solution
  <2>1. QED
    BY <1>6, <1>7, <1>9

\* Lists of plain names are the same if their names, joined, are.
LEMMA PlainListsDiffer ==
  ASSUME NEW a \in EngineLists, NEW b \in EngineLists, Plain(a), Plain(b),
         Joined(a) = Joined(b)
  PROVE  a = b
<1>1. ASSUME NEW list \in EngineLists, Plain(list)
      PROVE  /\ list \in Seq(Seq(STRING)) /\ Len(list) \in Nat
             /\ \A i \in 1 .. Len(list) :
                  /\ list[i] \in Seq(STRING) /\ Len(list[i]) = 1
                  /\ list[i][1] # ""
             /\ list # <<>> =>
                  /\ Len(list) # 0
                  /\ Joined(list) = Parts(list, Len(list))
                  /\ Parts(list, Len(list)) \in Seq(STRING)
                  /\ Len(Parts(list, Len(list))) = Len(list)
  <2>1. Seq(STRING) \ {<<>>} \subseteq Seq(STRING)
    OBVIOUS
  <2>2. list \in Seq(Seq(STRING))
    BY <2>1, EnginesAssumption, SeqMonotonic
  <2>3. Len(list) \in Nat /\ list \in [1 .. Len(list) -> Seq(STRING)]
        /\ DOMAIN list = 1 .. Len(list)
    BY <2>2, LenProperties
  <2>4. ASSUME NEW i \in 1 .. Len(list)
        PROVE  list[i] \in Seq(STRING) /\ Len(list[i]) = 1 /\ list[i][1] # ""
    BY <1>1, <2>3 DEF Plain
  <2>5. ASSUME list # <<>>
        PROVE  /\ Len(list) # 0 /\ Joined(list) = Parts(list, Len(list))
               /\ Parts(list, Len(list)) \in Seq(STRING)
               /\ Len(Parts(list, Len(list))) = Len(list)
    <3>1. Len(list) \in Nat \ {0}
      BY <2>2, <2>5, EmptySeq
    <3>2. Len(list) \in 1 .. Len(list)
      BY <3>1
    <3>3. \A i \in 1 .. Len(list) : Len(list[i]) = 1
      BY <2>4
    <3>4. Joined(list) = Parts(list, Len(list))
      BY <2>2, <3>1, <3>3, PlainJoined
    <3>5. /\ Parts(list, Len(list)) \in Seq(STRING)
          /\ Len(Parts(list, Len(list))) = Len(list)
      <4>1. PICK n : n = Len(list)
        OBVIOUS
      <4>2. n \in Nat /\ n \in 1 .. n /\ OfOnePart(STRING, n, list)
        BY <2>3, <3>2, <3>3, <4>1 DEF OfOnePart
      <4>3. Parts(list, n) \in Seq(STRING) /\ Len(Parts(list, n)) = n
        <5>1. PartsAre(STRING, n, list)
          BY <4>2, PartsJoin
        <5>2. QED
          BY <4>2, <5>1 DEF PartsAre
      <4>4. QED
        BY <4>1, <4>3
    <3>6. QED
      BY <3>1, <3>4, <3>5
  <2>6. QED
    BY <2>2, <2>3, <2>4, <2>5
<1>2. ASSUME NEW list \in EngineLists, Plain(list), list # <<>>
      PROVE  Joined(list) # Joined(<<>>)
  <2>1. Len(list) \in Nat /\ Len(list) # 0 /\ Joined(list) = Parts(list, Len(list))
    BY <1>1, <1>2
  <2>2. 1 \in 1 .. Len(list)
    BY <2>1
  <2>3. Joined(list)[1] = list[1][1] /\ list[1][1] # ""
    BY <1>1, <1>2, <2>1, <2>2 DEF Parts
  <2>4. Joined(<<>>)[1] = ""
    BY DEF Joined
  <2>5. QED
    BY <2>3, <2>4
<1>3. CASE a = <<>> \/ b = <<>>
  BY <1>2, <1>3
<1>4. CASE a # <<>> /\ b # <<>>
  <2>1. /\ a \in Seq(Seq(STRING)) /\ Len(a) \in Nat
        /\ b \in Seq(Seq(STRING)) /\ Len(b) \in Nat
    BY <1>1
  <2>2. Len(a) = Len(b)
    BY <1>1, <1>4
  <2>3. ASSUME NEW i \in 1 .. Len(a)
        PROVE  a[i] = b[i]
    <3>1. a[i] \in Seq(STRING) /\ Len(a[i]) = 1 /\ b[i] \in Seq(STRING) /\ Len(b[i]) = 1
      BY <1>1, <2>2
    <3>2. Parts(a, Len(a)) = Parts(b, Len(a))
      BY <1>1, <1>4, <2>2
    <3>3. a[i][1] = b[i][1]
      BY <3>2 DEF Parts
    <3>4. \A j \in 1 .. Len(a[i]) : a[i][j] = b[i][j]
      BY <3>1, <3>3
    <3>5. QED
      BY <3>1, <3>4, SeqEqual
  <2>4. QED
    BY <2>1, <2>2, <2>3, SeqEqual
<1>5. QED
  BY <1>3, <1>4

-----------------------------------------------------------------------------
(* The operators.                                                          *)

\* get_safesearch_level: the config file binds from level 3 on.
LEMMA LevelBinds ==
    ASSUME NEW url \in UrlLevels, NEW cookie \in CookieLevels, NEW config \in ConfigLevels
    PROVE  /\ get_safesearch_level(url, cookie, config) \in AllLevels
           /\ config >= 3 => get_safesearch_level(url, cookie, config) = config
BY DEF AllLevels, get_safesearch_level

LEMMA LevelType == AllLevels \subseteq Levels
<1>1. SUFFICES ASSUME NEW url \in UrlLevels, NEW cookie \in CookieLevels,
                      NEW config \in ConfigLevels
               PROVE  get_safesearch_level(url, cookie, config) \in Levels
  BY DEF AllLevels
<1>2. QED
  BY LevelsAssumption DEF get_safesearch_level

LEMMA ListsAre ==
    ASSUME NEW S, NEW f
    PROVE  f \in Lists(S) <=> DOMAIN f \subseteq 1 .. 3 /\ f \in [DOMAIN f -> S]
BY DEF Lists

LEMMA EmptyList == ASSUME NEW S PROVE <<>> \in Lists(S)
<1>1. DOMAIN <<>> = {} /\ <<>> \in [{} -> S]
  OBVIOUS
<1>2. QED
  BY <1>1, ListsAre

\* A place of a list is filled.
LEMMA FillPlace ==
    ASSUME NEW S, NEW f \in Lists(S), NEW i \in DOMAIN f, NEW v \in S
    PROVE  /\ [f EXCEPT ![i] = v] \in Lists(S)
           /\ DOMAIN [f EXCEPT ![i] = v] = DOMAIN f
<1>1. DOMAIN f \subseteq 1 .. 3 /\ f \in [DOMAIN f -> S]
  BY ListsAre
<1>2. DOMAIN [f EXCEPT ![i] = v] = DOMAIN f
  OBVIOUS
<1>3. [f EXCEPT ![i] = v] \in [DOMAIN f -> S]
  BY <1>1
<1>4. QED
  BY <1>1, <1>2, <1>3, ListsAre

\* PagesAround: the pages, the place of the current one and the others' places.
LEMMA PagesAroundType ==
    ASSUME NEW q \in PageParams
    PROVE  /\ PagesAround(PageOf(q)) \in Lists(AllPages)
           /\ Neighbours(PageOf(q)) \in Lists(AllPages)
           /\ LastPage(PageOf(q)) = PageOf(q)
           /\ PageOf(q) \in AllPages
           /\ \A i \in DOMAIN Neighbours(PageOf(q)) :
                /\ i \in DOMAIN PagesAround(PageOf(q))
                /\ Neighbours(PageOf(q))[i] = PagesAround(PageOf(q))[i]
<1> DEFINE page == PageOf(q)
           pages == PagesAround(page)
<1>1. page \in Nat
  BY PagesAssumption DEF PageOf
<1>2. \A i \in DOMAIN pages : pages[i] \in AllPages
  BY DEF AllPages
<1>3. /\ Len(pages) \in {2, 3} /\ DOMAIN pages = 1 .. Len(pages)
      /\ pages[Len(pages)] = page
  <2>1. CASE page = 0
    BY <2>1 DEF PagesAround
  <2>2. CASE page # 0
    BY <2>2 DEF PagesAround
  <2>3. QED
    BY <2>1, <2>2
<1>4. pages \in [DOMAIN pages -> AllPages]
  <2>1. pages = [i \in DOMAIN pages |-> pages[i]]
    BY DEF PagesAround
  <2>2. QED
    BY <1>2, <2>1
<1>5. LastPage(page) = page /\ page \in AllPages
  BY <1>2, <1>3 DEF LastPage
<1>6. DOMAIN Neighbours(page) = 1 .. Len(pages) - 1
      /\ \A i \in DOMAIN Neighbours(page) : Neighbours(page)[i] = pages[i]
      /\ Neighbours(page) \in [DOMAIN Neighbours(page) -> AllPages]
  BY <1>2, <1>3 DEF Neighbours
<1>7. 1 .. Len(pages) \subseteq 1 .. 3 /\ 1 .. Len(pages) - 1 \subseteq 1 .. Len(pages)
  BY <1>3
<1> HIDE DEF page
<1>8. pages \in Lists(AllPages) /\ Neighbours(page) \in Lists(AllPages)
  BY <1>3, <1>4, <1>6, <1>7, ListsAre
<1>9. QED
  BY <1>3, <1>5, <1>6, <1>7, <1>8 DEF page

\* results: a value is of the page, level and engines it was called with.
LEMMA ResultsRight ==
    ASSUME NEW page \in AllPages, NEW level \in AllLevels,
           NEW engines \in EngineLists, NEW blocked \in BOOLEAN,
           NEW value \in results(page, level, engines, blocked), value # Error
    PROVE  /\ value \in Value
           /\ ResultsOf(value, KeyFor(page, level, engines))
<1> DEFINE base == Results(page, level, engines)
<1>1. level \in Levels
  BY LevelType
<1>2. \/ value = [base EXCEPT !.disallowed = TRUE]
      \/ value = [base EXCEPT !.no_engines_selected = TRUE]
      \/ \E a \in Aggregated : value = Found(base, a)
  BY DEF results
<1>3. CASE value = [base EXCEPT !.disallowed = TRUE]
  BY <1>1, <1>3 DEF Results, Value, ResultsOf, KeyOf
<1>4. CASE value = [base EXCEPT !.no_engines_selected = TRUE]
  BY <1>1, <1>4 DEF Results, Value, ResultsOf, KeyOf
<1>5. ASSUME NEW a \in Aggregated, value = Found(base, a)
      PROVE  value \in Value /\ ResultsOf(value, KeyFor(page, level, engines))
  <2>1. a.hits \in BOOLEAN /\ a.failed \in BOOLEAN
    BY <1>5, AggregatedAssumption
  <2>2. QED
    BY <1>1, <1>5, <2>1 DEF Found, Results, Value, ResultsOf, KeyOf
<1>6. QED
  BY <1>2, <1>3, <1>4, <1>5

-----------------------------------------------------------------------------
(* The steps.                                                              *)

\* A request that a step leaves alone.
LEMMA OtherRequest ==
    ASSUME NEW s \in Requests, RequestRight(s), config_level' = config_level,
           at'[s] = at[s], asked'[s] = asked[s], current'[s] = current[s],
           wanted'[s] = wanted[s], keyed'[s] = keyed[s], fetched'[s] = fetched[s]
    PROVE  RequestRight(s)'
BY DEF RequestRight, NeighboursRight, AskedRight, KeyAt

\* The pages, levels and engines there are give the keys there are.
LEMMA KeyType ==
    ASSUME NEW page \in AllPages, NEW level \in AllLevels, NEW engines \in EngineLists
    PROVE  KeyFor(page, level, engines) \in Keys
<1> DEFINE x == [page |-> page, level |-> level, engines |-> engines]
<1>1. x \in Settings /\ KeyOf(x) = KeyFor(page, level, engines)
  BY DEF Settings, KeyOf
<1>2. QED
  BY <1>1 DEF Keys

\* The key of the current page is the request's.
LEMMA CurrentKeyIs ==
    ASSUME NEW r \in Requests, AskedRight(asked[r])
    PROVE  /\ asked[r] \in Settings /\ KeyOf(asked[r]) \in Keys /\ CurrentKey(r) = KeyOf(asked[r])
           /\ asked[r].page \in AllPages /\ asked[r].level \in AllLevels
           /\ asked[r].engines \in EngineLists
           /\ KeyAt(r, asked[r].page) = KeyOf(asked[r])
<1>1. asked[r] \in Settings /\ KeyOf(asked[r]) \in Keys
  BY DEF AskedRight, Keys
<1>2. PICK q \in PageParams : asked[r].page = PageOf(q)
  BY DEF AskedRight
<1>3. LastPage(asked[r].page) = asked[r].page
  BY <1>2, PagesAroundType
<1>4. KeyAt(r, asked[r].page) = KeyOf(asked[r])
  BY DEF KeyAt, KeyOf
<1>5. QED
  BY <1>1, <1>3, <1>4 DEF CurrentKey, Settings

\* A request is answered: it holds nothing any more.
LEMMA Answering ==
    ASSUME RouteInvariant, NEW r \in Requests, NEW answer, Answer(r, answer),
           config_level' = config_level
    PROVE  RequestsTyped' /\ \A s \in Requests : RequestRight(s)'
<1>1. RequestsTyped'
  <2>1. <<>> \in Lists(AllPages) /\ <<>> \in Lists(Value \cup {NotCached})
    BY EmptyList
  <2>2. at' \in [Requests -> {"idle", "reading", "fetching", "checking", "prefetching"}]
    BY DEF Answer, RouteInvariant, RequestsTyped
  <2>3. /\ asked' \in [Requests -> Settings \cup {NothingAsked}]
        /\ current' \in [Requests -> Value \cup {NotCached}]
        /\ gone' \in [Requests -> SUBSET Keys]
    BY DEF Answer, RouteInvariant, RequestsTyped
  <2>4. /\ wanted' \in [Requests -> Lists(AllPages)]
        /\ keyed' \in [Requests -> Lists(AllPages)]
        /\ fetched' \in [Requests -> Lists(Value \cup {NotCached})]
    BY <2>1 DEF Answer, RouteInvariant, RequestsTyped
  <2>5. QED
    BY <2>2, <2>3, <2>4 DEF RequestsTyped
<1>2. ASSUME NEW s \in Requests PROVE RequestRight(s)'
  <2>1. CASE s = r
    BY <2>1 DEF Answer, RequestRight, RouteInvariant, RequestsTyped
  <2>2. CASE s # r
    <3>1. /\ at'[s] = at[s] /\ asked'[s] = asked[s] /\ current'[s] = current[s]
          /\ wanted'[s] = wanted[s] /\ keyed'[s] = keyed[s]
          /\ fetched'[s] = fetched[s]
      BY <2>2 DEF Answer, RouteInvariant, RequestsTyped
    <3>2. QED
      BY <3>1, OtherRequest DEF RouteInvariant
  <2>3. QED
    BY <2>1, <2>2
<1>3. QED
  BY <1>1, <1>2

\* A request that holds its results is answered with them.
LEMMA AnsweringCurrent ==
    ASSUME RouteInvariant, NEW r \in Requests, at[r] \in {"checking", "prefetching"},
           AnswerCurrent(r), config_level' = config_level
    PROVE  RequestsTyped' /\ (\A s \in Requests : RequestRight(s)') /\ ReplyRight'
<1>1. RequestsTyped' /\ \A s \in Requests : RequestRight(s)'
  BY Answering DEF AnswerCurrent
<1>2. reply' = [kind |-> "ok", asked |-> asked[r], value |-> current[r]]
  BY DEF AnswerCurrent, Answer
<1>3. ResultsOf(current[r], KeyOf(asked[r])) /\ AskedRight(asked[r])
  BY DEF RouteInvariant, RequestRight
<1>4. current[r] \in Value /\ current[r].level = asked[r].level
  BY <1>3 DEF RouteInvariant, RequestRight, ResultsOf, KeyOf, KeyFor
<1>6. ReplyRight'
  BY <1>2, <1>3, <1>4 DEF ReplyRight, ResultsOf, AskedRight
<1>7. QED
  BY <1>1, <1>6

LEMMA BeginRight ==
    ASSUME RouteInvariant, NEW r \in Requests, Begin(r)
    PROVE  RouteInvariant'
<1>1. PICK param \in PageParams, url \in UrlLevels, cookie \in CookieLevels,
           engines \in EngineLists :
        asked' = [asked EXCEPT ![r] =
                  [page |-> PageOf(param),
                   level |-> get_safesearch_level(url, cookie, config_level),
                   engines |-> engines]]
  BY DEF Begin
<1> DEFINE k == [page |-> PageOf(param),
                 level |-> get_safesearch_level(url, cookie, config_level),
                 engines |-> engines]
<1>2. config_level \in ConfigLevels
  BY DEF RouteInvariant, WorldTyped
<1>3. AskedRight(k)
  <2>1. PageOf(param) \in AllPages
    BY PagesAroundType
  <2>2. /\ k.level \in AllLevels
        /\ config_level >= 3 => k.level = config_level
    BY <1>2, LevelBinds
  <2>3. QED
    BY <2>1, <2>2 DEF AskedRight, Settings
<1>4. RequestsTyped'
  BY <1>1, <1>3 DEF Begin, RouteInvariant, RequestsTyped, AskedRight
<1>5. ASSUME NEW s \in Requests PROVE RequestRight(s)'
  <2>1. CASE s = r
    <3>1. asked'[r] = k /\ at'[r] = "reading" /\ wanted' = wanted /\ fetched' = fetched
          /\ config_level' = config_level
      BY <1>1 DEF Begin, world, RouteInvariant, RequestsTyped
    <3>2. AskedRight(asked[r])'
      BY <1>3, <3>1 DEF AskedRight
    <3>3. QED
      BY <2>1, <3>1, <3>2 DEF RequestRight, RouteInvariant
  <2>2. CASE s # r
    <3>1. /\ at'[s] = at[s] /\ asked'[s] = asked[s] /\ current' = current
          /\ wanted' = wanted /\ keyed' = keyed /\ fetched' = fetched
          /\ config_level' = config_level
      BY <1>1, <2>2 DEF Begin, world, RouteInvariant, RequestsTyped
    <3>2. QED
      BY <3>1, OtherRequest DEF RouteInvariant
  <2>3. QED
    BY <2>1, <2>2
<1>6. WorldTyped' /\ StoreRight' /\ ReplyRight'
  BY DEF Begin, world, RouteInvariant, WorldTyped, StoreRight, ReplyRight, NoReply, Cached
<1>7. QED
  BY <1>4, <1>5, <1>6 DEF RouteInvariant

LEMMA ReadCacheRight ==
    ASSUME RouteInvariant, NEW r \in Requests, ReadCache(r)
    PROVE  RouteInvariant'
<1>1. at[r] = "reading" /\ RequestRight(r) /\ AskedRight(asked[r])
  BY DEF ReadCache, RouteInvariant, RequestRight
<1>2. CurrentKey(r) = KeyOf(asked[r]) /\ KeyOf(asked[r]) \in Keys
  BY <1>1, CurrentKeyIs
<1>3. \/ /\ at' = [at EXCEPT ![r] = "checking"]
         /\ current' = [current EXCEPT ![r] = cache[KeyOf(asked[r])]]
         /\ Cached(KeyOf(asked[r]))
      \/ at' = [at EXCEPT ![r] = "fetching"] /\ current' = current
  BY <1>2 DEF ReadCache
<1>4. Cached(KeyOf(asked[r])) => cache[KeyOf(asked[r])] \in Value /\ ResultsOf(cache[KeyOf(asked[r])], KeyOf(asked[r]))
  BY <1>2 DEF RouteInvariant, StoreRight, Cached
<1>5. RequestsTyped'
  BY <1>3, <1>4 DEF ReadCache, RouteInvariant, RequestsTyped
<1>6. ASSUME NEW s \in Requests PROVE RequestRight(s)'
  <2>1. /\ wanted' = wanted /\ keyed' = keyed /\ fetched' = fetched /\ asked' = asked
        /\ config_level' = config_level
    BY DEF ReadCache, world
  <2>2. CASE s = r
    <3>1. AskedRight(asked[r])'
      BY <1>1, <2>1 DEF AskedRight
    <3>2. \/ at'[r] = "checking" /\ current'[r] = cache[KeyOf(asked[r])] /\ Cached(KeyOf(asked[r]))
          \/ at'[r] = "fetching"
      BY <1>3 DEF RouteInvariant, RequestsTyped
    <3>3. QED
      BY <1>1, <1>4, <2>1, <2>2, <3>1, <3>2 DEF RequestRight
  <2>3. CASE s # r
    <3>1. at'[s] = at[s] /\ current'[s] = current[s]
      BY <1>3, <2>3 DEF RouteInvariant, RequestsTyped
    <3>2. QED
      BY <2>1, <3>1, OtherRequest DEF RouteInvariant
  <2>4. QED
    BY <2>2, <2>3
<1>7. WorldTyped' /\ StoreRight' /\ ReplyRight'
  BY DEF ReadCache, world, RouteInvariant, WorldTyped, StoreRight, ReplyRight, NoReply, Cached
<1>8. QED
  BY <1>5, <1>6, <1>7 DEF RouteInvariant

\* A page fetched upstream is what its key names.
LEMMA FetchedRight ==
    ASSUME RouteInvariant, NEW r \in Requests, AskedRight(asked[r]), NEW page \in AllPages,
           NEW value \in ResultsAt(r, page), value # Error
    PROVE  /\ value \in Value /\ ResultsOf(value, KeyAt(r, page))
           /\ KeyAt(r, page) \in Keys
<1>1. asked[r].level \in AllLevels /\ asked[r].engines \in EngineLists /\ listed \in BOOLEAN
  BY CurrentKeyIs DEF RouteInvariant, WorldTyped
<1>2. KeyAt(r, page) \in Keys
  BY <1>1, KeyType DEF KeyAt
<1>3. QED
  BY <1>1, <1>2, ResultsRight DEF ResultsAt, KeyAt

LEMMA FetchCurrentRight ==
    ASSUME RouteInvariant, NEW r \in Requests, FetchCurrent(r)
    PROVE  RouteInvariant'
<1>1. at[r] = "fetching" /\ RequestRight(r) /\ AskedRight(asked[r])
  BY DEF FetchCurrent, RouteInvariant, RequestRight
<1>2. CurrentKey(r) = KeyOf(asked[r]) /\ KeyOf(asked[r]) \in Keys /\ asked[r].page \in AllPages
      /\ KeyAt(r, asked[r].page) = KeyOf(asked[r])
  BY <1>1, CurrentKeyIs
<1>3. config_level' = config_level /\ listed' = listed /\ cache' = cache
  BY DEF FetchCurrent, world
<1>4. PICK value \in ResultsAt(r, asked[r].page) :
         IF value = Error THEN AnswerError(r) /\ mishap' = TRUE /\ writes' = writes
         ELSE /\ current' = [current EXCEPT ![r] = value]
              /\ at' = [at EXCEPT ![r] = "checking"]
              /\ writes' = writes \cup {[key |-> KeyOf(asked[r]), value |-> value]}
              /\ reply' = NoReply
              /\ UNCHANGED <<asked, wanted, keyed, fetched, mishap, gone>>
  BY <1>2 DEF FetchCurrent
<1>5. CASE value = Error
  <2>1. AnswerError(r) /\ mishap' = TRUE /\ writes' = writes
    BY <1>4, <1>5
  <2>2. RequestsTyped' /\ \A s \in Requests : RequestRight(s)'
    BY <1>3, <2>1, Answering DEF AnswerError
  <2>3. WorldTyped' /\ StoreRight' /\ ReplyRight'
    BY <1>3, <2>1 DEF RouteInvariant, WorldTyped, StoreRight, ReplyRight, AnswerError,
                      Answer, Cached
  <2>4. QED
    BY <2>2, <2>3 DEF RouteInvariant
<1>6. CASE value # Error
  <2>1. value \in Value /\ ResultsOf(value, KeyOf(asked[r]))
    BY <1>1, <1>2, <1>6, FetchedRight
  <2>2. /\ current' = [current EXCEPT ![r] = value]
        /\ at' = [at EXCEPT ![r] = "checking"]
        /\ writes' = writes \cup {[key |-> KeyOf(asked[r]), value |-> value]}
        /\ reply' = NoReply
        /\ asked' = asked /\ wanted' = wanted /\ keyed' = keyed /\ fetched' = fetched
        /\ mishap' = mishap /\ gone' = gone
    BY <1>4, <1>6
  <2>3. RequestsTyped'
    BY <2>1, <2>2 DEF RouteInvariant, RequestsTyped
  <2>4. ASSUME NEW s \in Requests PROVE RequestRight(s)'
    <3>1. CASE s = r
      <4>1. at'[r] = "checking" /\ current'[r] = value /\ AskedRight(asked[r])'
        BY <1>1, <1>3, <2>2 DEF AskedRight, RouteInvariant, RequestsTyped
      <4>2. QED
        BY <1>1, <2>1, <2>2, <3>1, <4>1 DEF RequestRight
    <3>2. CASE s # r
      <4>1. at'[s] = at[s] /\ current'[s] = current[s]
        BY <2>2, <3>2 DEF RouteInvariant, RequestsTyped
      <4>2. QED
        BY <1>3, <2>2, <4>1, OtherRequest DEF RouteInvariant
    <3>3. QED
      BY <3>1, <3>2
  <2>5. StoreRight'
    BY <1>2, <1>3, <2>1, <2>2 DEF RouteInvariant, StoreRight, Cached
  <2>6. WorldTyped' /\ ReplyRight'
    BY <1>3, <2>2 DEF RouteInvariant, WorldTyped, ReplyRight, NoReply
  <2>7. QED
    BY <2>3, <2>4, <2>5, <2>6 DEF RouteInvariant
<1>7. QED
  BY <1>5, <1>6

\* Both ways to fetch around the current page start with no results, and zip
\* keys of the same pages.
LEMMA FetchRight ==
    ASSUME RouteInvariant, NEW r \in Requests, at[r] = "checking",
           NEW pages \in Lists(AllPages), NEW keys \in Lists(AllPages),
           \A i \in DOMAIN pages \cap DOMAIN keys : keys[i] = pages[i],
           Fetch(r, pages, keys),
           UNCHANGED <<world, cache, writes, mishap>>
    PROVE  RouteInvariant'
<1>1. RequestRight(r) /\ AskedRight(asked[r]) /\ current[r] \in Value
      /\ ResultsOf(current[r], KeyOf(asked[r]))
  BY DEF RouteInvariant, RequestRight
<1> DEFINE none == [i \in DOMAIN pages |-> NotCached]
<1>2. none \in Lists(Value \cup {NotCached})
  BY ListsAre
<1>3. /\ at' = [at EXCEPT ![r] = "prefetching"]
      /\ wanted' = [wanted EXCEPT ![r] = pages]
      /\ keyed' = [keyed EXCEPT ![r] = keys]
      /\ fetched' = [fetched EXCEPT ![r] = none]
      /\ reply' = NoReply
      /\ asked' = asked /\ current' = current /\ gone' = gone
      /\ config_level' = config_level /\ listed' = listed /\ cache' = cache
      /\ writes' = writes /\ mishap' = mishap
  BY DEF Fetch, world
<1>4. RequestsTyped'
  BY <1>2, <1>3 DEF RouteInvariant, RequestsTyped
<1>5. ASSUME NEW s \in Requests PROVE RequestRight(s)'
  <2>1. CASE s = r
    <3>1. at'[r] = "prefetching" /\ wanted'[r] = pages /\ keyed'[r] = keys
          /\ fetched'[r] = none
      BY <1>3 DEF RouteInvariant, RequestsTyped
    <3>2. NeighboursRight(r)'
      BY <3>1 DEF NeighboursRight
    <3>3. AskedRight(asked[r])'
      BY <1>1, <1>3 DEF AskedRight
    <3>4. QED
      BY <1>1, <1>3, <2>1, <3>1, <3>2, <3>3 DEF RequestRight
  <2>2. CASE s # r
    <3>1. /\ at'[s] = at[s] /\ wanted'[s] = wanted[s] /\ keyed'[s] = keyed[s]
          /\ fetched'[s] = fetched[s]
      BY <1>3, <2>2 DEF RouteInvariant, RequestsTyped
    <3>2. QED
      BY <1>3, <3>1, OtherRequest DEF RouteInvariant
  <2>3. QED
    BY <2>1, <2>2
<1>6. WorldTyped' /\ StoreRight' /\ ReplyRight'
  BY <1>3 DEF RouteInvariant, WorldTyped, StoreRight, ReplyRight, NoReply, Cached
<1>7. QED
  BY <1>4, <1>5, <1>6 DEF RouteInvariant

LEMMA CheckNeighboursRight ==
    ASSUME RouteInvariant, NEW r \in Requests, CheckNeighbours(r)
    PROVE  RouteInvariant'
<1>1. at[r] = "checking" /\ AskedRight(asked[r])
  BY DEF CheckNeighbours, RouteInvariant, RequestRight
<1> DEFINE near == Neighbours(asked[r].page)
           pages == [i \in {j \in DOMAIN near : ~Cached(KeyAt(r, near[j]))} |-> near[i]]
<1>2. UNCHANGED <<world, cache, writes, mishap>>
  BY DEF CheckNeighbours
<1>3. near \in Lists(AllPages)
  BY <1>1, PagesAroundType DEF AskedRight
<1>4. pages \in Lists(AllPages)
  <2>1. DOMAIN near \subseteq 1 .. 3 /\ near \in [DOMAIN near -> AllPages]
    BY <1>3, ListsAre
  <2>2. DOMAIN pages \subseteq DOMAIN near
    OBVIOUS
  <2>3. pages \in [DOMAIN pages -> AllPages]
    BY <2>1
  <2>4. QED
    BY <2>1, <2>2, <2>3, ListsAre
<1>5. CASE DOMAIN pages = {}
  <2>1. AnswerCurrent(r)
    BY <1>5 DEF CheckNeighbours
  <2>2. config_level' = config_level /\ listed' = listed /\ cache' = cache
        /\ writes' = writes /\ mishap' = mishap
    BY <1>2 DEF world
  <2>3. RequestsTyped' /\ (\A s \in Requests : RequestRight(s)') /\ ReplyRight'
    BY <1>1, <2>1, <2>2, AnsweringCurrent
  <2>4. WorldTyped' /\ StoreRight'
    BY <2>2 DEF RouteInvariant, WorldTyped, StoreRight, Cached
  <2>5. QED
    BY <2>3, <2>4 DEF RouteInvariant
<1>6. CASE DOMAIN pages # {}
  <2>1. Fetch(r, pages, pages)
    BY <1>6 DEF CheckNeighbours
  <2>2. QED
    BY <1>1, <1>2, <1>4, <2>1, FetchRight
<1>7. QED
  BY <1>5, <1>6

LEMMA CheckFailsRight ==
    ASSUME RouteInvariant, NEW r \in Requests, CheckFails(r)
    PROVE  RouteInvariant'
<1>1. at[r] = "checking" /\ AskedRight(asked[r])
  BY DEF CheckFails, RouteInvariant, RequestRight
<1>2. /\ Fetch(r, PagesAround(asked[r].page), Neighbours(asked[r].page))
      /\ UNCHANGED <<world, cache, writes, mishap>>
  BY DEF CheckFails
<1>3. /\ PagesAround(asked[r].page) \in Lists(AllPages)
      /\ Neighbours(asked[r].page) \in Lists(AllPages)
      /\ \A i \in DOMAIN Neighbours(asked[r].page) :
            Neighbours(asked[r].page)[i] = PagesAround(asked[r].page)[i]
  BY <1>1, PagesAroundType DEF AskedRight
<1>4. QED
  BY <1>1, <1>2, <1>3, FetchRight

LEMMA FetchNeighbourRight ==
    ASSUME RouteInvariant, NEW r \in Requests, FetchNeighbour(r)
    PROVE  RouteInvariant'
<1>1. at[r] = "prefetching" /\ RequestRight(r) /\ AskedRight(asked[r]) /\ NeighboursRight(r)
      /\ DOMAIN fetched[r] = DOMAIN wanted[r]
  BY DEF FetchNeighbour, RouteInvariant, RequestRight
<1>2. config_level' = config_level /\ listed' = listed /\ cache' = cache
      /\ writes' = writes
  BY DEF FetchNeighbour, world
<1>3. PICK i \in DOMAIN wanted[r] :
         \E value \in ResultsAt(r, wanted[r][i]) :
           IF value = Error THEN AnswerCurrent(r) /\ mishap' = TRUE
           ELSE /\ fetched' = [fetched EXCEPT ![r][i] = value]
                /\ reply' = NoReply
                /\ UNCHANGED <<at, asked, current, wanted, keyed, mishap, gone>>
  BY DEF FetchNeighbour
<1>4. PICK value \in ResultsAt(r, wanted[r][i]) :
         IF value = Error THEN AnswerCurrent(r) /\ mishap' = TRUE
         ELSE /\ fetched' = [fetched EXCEPT ![r][i] = value]
              /\ reply' = NoReply
              /\ UNCHANGED <<at, asked, current, wanted, keyed, mishap, gone>>
  BY <1>3
<1>5. CASE value = Error
  <2>1. AnswerCurrent(r) /\ mishap' = TRUE
    BY <1>4, <1>5
  <2>2. RequestsTyped' /\ (\A s \in Requests : RequestRight(s)') /\ ReplyRight'
    BY <1>1, <1>2, <2>1, AnsweringCurrent
  <2>3. WorldTyped' /\ StoreRight'
    BY <1>2, <2>1 DEF RouteInvariant, WorldTyped, StoreRight, Cached
  <2>4. QED
    BY <2>2, <2>3 DEF RouteInvariant
<1>6. CASE value # Error
  <2>1. /\ fetched' = [fetched EXCEPT ![r][i] = value]
        /\ reply' = NoReply
        /\ at' = at /\ asked' = asked /\ current' = current /\ wanted' = wanted
        /\ keyed' = keyed /\ mishap' = mishap /\ gone' = gone
    BY <1>4, <1>6
  <2>2. wanted[r] \in Lists(AllPages) /\ fetched[r] \in Lists(Value \cup {NotCached})
    BY DEF RouteInvariant, RequestsTyped
  <2>3. wanted[r][i] \in AllPages
    BY <2>2, ListsAre
  <2>4. value \in Value /\ ResultsOf(value, KeyAt(r, wanted[r][i]))
    BY <1>1, <1>6, <2>3, FetchedRight
  <2> DEFINE filled == [fetched[r] EXCEPT ![i] = value]
  <2>5. filled \in Lists(Value \cup {NotCached}) /\ DOMAIN filled = DOMAIN fetched[r]
    BY <1>1, <2>2, <2>4, FillPlace
  <2>6. fetched' = [fetched EXCEPT ![r] = filled]
    BY <2>1
  <2>7. RequestsTyped'
    <3> HIDE DEF filled
    <3>1. fetched' \in [Requests -> Lists(Value \cup {NotCached})]
      BY <2>5, <2>6 DEF RouteInvariant, RequestsTyped
    <3>2. QED
      BY <2>1, <3>1 DEF RouteInvariant, RequestsTyped
  <2>8. ASSUME NEW s \in Requests PROVE RequestRight(s)'
    <3>1. CASE s = r
      <4>1. fetched'[r] = filled
        BY <2>6 DEF RouteInvariant, RequestsTyped
      <4>2. \A j \in DOMAIN wanted[r] :
               filled[j] = IF j = i THEN value ELSE fetched[r][j]
        BY <1>1
      <4> HIDE DEF filled
      <4>3. NeighboursRight(r)'
        BY <1>1, <2>1, <2>4, <4>1, <4>2 DEF NeighboursRight, KeyAt
      <4>4. AskedRight(asked[r])'
        BY <1>1, <1>2, <2>1 DEF AskedRight
      <4>5. QED
        BY <1>1, <2>1, <2>5, <3>1, <4>1, <4>3, <4>4 DEF RequestRight
    <3>2. CASE s # r
      <4>1. fetched'[s] = fetched[s]
        BY <2>6, <3>2 DEF RouteInvariant, RequestsTyped
      <4>2. QED
        BY <1>2, <2>1, <4>1, OtherRequest DEF RouteInvariant
    <3>3. QED
      BY <3>1, <3>2
  <2>9. WorldTyped' /\ StoreRight' /\ ReplyRight'
    BY <1>2, <2>1 DEF RouteInvariant, WorldTyped, StoreRight, ReplyRight, NoReply, Cached
  <2>10. QED
    BY <2>7, <2>8, <2>9 DEF RouteInvariant
<1>7. QED
  BY <1>5, <1>6

\* The zip of keys and results pairs each result with the key of its page.
LEMMA CacheNeighboursRight ==
    ASSUME RouteInvariant, NEW r \in Requests, CacheNeighbours(r)
    PROVE  RouteInvariant'
<1>1. at[r] = "prefetching" /\ AskedRight(asked[r]) /\ NeighboursRight(r)
      /\ DOMAIN fetched[r] = DOMAIN wanted[r]
  BY DEF CacheNeighbours, RouteInvariant, RequestRight
<1>2. config_level' = config_level /\ listed' = listed /\ cache' = cache
      /\ mishap' = mishap
  BY DEF CacheNeighbours, world
<1>3. \A i \in DOMAIN wanted[r] : fetched[r][i] # NotCached
  BY DEF CacheNeighbours
<1> DEFINE pair(i) == [key |-> KeyAt(r, keyed[r][i]), value |-> fetched[r][i]]
<1>4. writes' = writes \cup {pair(i) : i \in DOMAIN keyed[r] \cap DOMAIN fetched[r]}
  BY DEF CacheNeighbours
<1>5. ASSUME NEW i \in DOMAIN keyed[r] \cap DOMAIN fetched[r]
      PROVE  pair(i) \in [key: Keys, value: Value] /\ ResultsOf(pair(i).value, pair(i).key)
  <2>1. keyed[r] \in Lists(AllPages) /\ fetched[r] \in Lists(Value \cup {NotCached})
    BY DEF RouteInvariant, RequestsTyped
  <2>2. keyed[r][i] \in AllPages /\ fetched[r][i] \in Value \cup {NotCached}
    BY <2>1, ListsAre
  <2>3. fetched[r][i] \in Value
    BY <1>1, <1>3, <2>2
  <2>4. KeyAt(r, keyed[r][i]) \in Keys
    BY <1>1, <2>2, CurrentKeyIs, KeyType DEF KeyAt
  <2>5. ResultsOf(fetched[r][i], KeyAt(r, keyed[r][i]))
    BY <1>1, <1>3 DEF NeighboursRight
  <2>6. QED
    BY <2>3, <2>4, <2>5
<1>6. StoreRight'
  <2>1. writes' \subseteq [key: Keys, value: Value]
        /\ \A w \in writes' : ResultsOf(w.value, w.key)
    <3> HIDE DEF pair
    <3>1. QED
      BY <1>4, <1>5 DEF RouteInvariant, StoreRight
  <2>2. QED
    BY <1>2, <2>1 DEF RouteInvariant, StoreRight, Cached
<1>7. RequestsTyped' /\ (\A s \in Requests : RequestRight(s)') /\ ReplyRight'
  <2>1. AnswerCurrent(r)
    BY DEF CacheNeighbours
  <2>2. QED
    BY <1>1, <1>2, <2>1, AnsweringCurrent
<1>8. QED
  BY <1>2, <1>6, <1>7 DEF RouteInvariant, WorldTyped

\* The steps that leave requests alone.
LEMMA StoreStep ==
    ASSUME RouteInvariant, config_level' = config_level, listed' = listed,
           UNCHANGED request, gone' \in [Requests -> SUBSET Keys],
           mishap' \in BOOLEAN, StoreRight', reply' = NoReply
    PROVE  RouteInvariant'
<1>1. /\ at' = at /\ asked' = asked /\ current' = current
      /\ wanted' = wanted /\ keyed' = keyed /\ fetched' = fetched
  BY DEF request
<1>2. \A s \in Requests : RequestRight(s)'
  BY <1>1, OtherRequest DEF RouteInvariant
<1>3. RequestsTyped' /\ WorldTyped' /\ ReplyRight'
  BY <1>1 DEF RouteInvariant, RequestsTyped, WorldTyped, ReplyRight, NoReply
<1>4. QED
  BY <1>2, <1>3 DEF RouteInvariant

LEMMA WriteRight ==
    ASSUME RouteInvariant, NEW k \in Keys, Write(k)
    PROVE  RouteInvariant'
<1>1. PICK w \in writes :
        /\ w.key = k
        /\ writes' = writes \ {w}
        /\ \/ cache' = [cache EXCEPT ![k] = w.value] /\ mishap' = mishap
           \/ cache' = cache /\ mishap' \in BOOLEAN
  BY DEF Write, RouteInvariant, WorldTyped
<1>2. w.value \in Value /\ ResultsOf(w.value, k)
  BY <1>1 DEF RouteInvariant, StoreRight
<1>3. StoreRight'
  <2>1. cache' \in [Keys -> Value \cup {NotCached}]
        /\ \A x \in Keys : cache'[x] = IF cache' = cache \/ x # k THEN cache[x] ELSE w.value
    <3>1. cache \in [Keys -> Value \cup {NotCached}]
      BY DEF RouteInvariant, StoreRight
    <3>2. CASE cache' = [cache EXCEPT ![k] = w.value]
      BY <1>2, <3>1, <3>2
    <3>3. CASE cache' = cache
      BY <3>1, <3>3
    <3>4. QED
      BY <1>1, <3>2, <3>3
  <2>2. \A x \in Keys : Cached(x)' => ResultsOf(cache[x], x)'
    BY <1>2, <2>1 DEF RouteInvariant, StoreRight, Cached, ResultsOf
  <2>3. QED
    BY <1>1, <2>1, <2>2 DEF RouteInvariant, StoreRight
<1>4. QED
  BY <1>1, <1>3, StoreStep DEF Write, world, RouteInvariant, WorldTyped, RequestsTyped

LEMMA ExpireRight ==
    ASSUME RouteInvariant, Expire
    PROVE  RouteInvariant'
<1>1. PICK k \in Keys :
        /\ cache' = [cache EXCEPT ![k] = NotCached]
        /\ gone' = [r \in Requests |-> IF at[r] = "idle" THEN {} ELSE gone[r] \cup {k}]
  BY DEF Expire
<1>2. gone' \in [Requests -> SUBSET Keys]
  BY <1>1 DEF RouteInvariant, RequestsTyped
<1>3. StoreRight'
  BY <1>1 DEF Expire, RouteInvariant, StoreRight, Cached, ResultsOf
<1>4. QED
  BY <1>2, <1>3, StoreStep DEF Expire, world

LEMMA RestartRight ==
    ASSUME RouteInvariant, Restart
    PROVE  RouteInvariant'
<1>1. <<>> \in Lists(AllPages) /\ <<>> \in Lists(Value \cup {NotCached})
  BY EmptyList
<1>2. RequestsTyped'
  BY <1>1 DEF Restart, RequestsTyped
<1>3. \A s \in Requests : RequestRight(s)'
  BY DEF Restart, RequestRight
<1>4. StoreRight'
  BY DEF Restart, RouteInvariant, StoreRight, Cached
<1>5. WorldTyped' /\ ReplyRight'
  BY DEF Restart, RouteInvariant, WorldTyped, ReplyRight, NoReply
<1>6. QED
  BY <1>2, <1>3, <1>4, <1>5 DEF RouteInvariant

-----------------------------------------------------------------------------
LEMMA InitRight == Init => RouteInvariant
<1> SUFFICES ASSUME Init PROVE RouteInvariant
  OBVIOUS
<1>1. <<>> \in Lists(AllPages) /\ <<>> \in Lists(Value \cup {NotCached})
  BY EmptyList
<1>2. RequestsTyped
  BY <1>1 DEF Init, RequestsTyped
<1>3. \A s \in Requests : RequestRight(s)
  BY DEF Init, RequestRight
<1>4. StoreRight
  BY DEF Init, StoreRight, Cached
<1>5. WorldTyped /\ ReplyRight
  BY DEF Init, WorldTyped, ReplyRight, NoReply
<1>6. QED
  BY <1>2, <1>3, <1>4, <1>5 DEF RouteInvariant

LEMMA NextRight == RouteInvariant /\ [Next]_vars => RouteInvariant'
<1> SUFFICES ASSUME RouteInvariant, [Next]_vars PROVE RouteInvariant'
  OBVIOUS
<1>1. ASSUME NEW r \in Requests, Begin(r) \/ Step(r) PROVE RouteInvariant'
  BY <1>1, BeginRight, ReadCacheRight, FetchCurrentRight, CheckNeighboursRight,
     CheckFailsRight, FetchNeighbourRight, CacheNeighboursRight DEF Step
<1>2. ASSUME NEW k \in Keys, Write(k) PROVE RouteInvariant'
  BY <1>2, WriteRight
<1>3. CASE UNCHANGED vars
  <2>1. UNCHANGED <<request, config_level, listed, cache, writes, mishap, gone, reply>>
    BY <1>3 DEF vars, world
  <2>2. /\ at' = at /\ asked' = asked /\ current' = current
        /\ wanted' = wanted /\ keyed' = keyed /\ fetched' = fetched
    BY <2>1 DEF request
  <2>3. \A s \in Requests : RequestRight(s)'
    BY <2>1, <2>2, OtherRequest DEF RouteInvariant
  <2>4. WorldTyped' /\ StoreRight' /\ RequestsTyped' /\ ReplyRight'
    BY <2>1, <2>2 DEF RouteInvariant, WorldTyped, StoreRight, RequestsTyped, ReplyRight,
                      Cached
  <2>5. QED
    BY <2>3, <2>4 DEF RouteInvariant
<1>4. QED
  BY <1>1, <1>2, <1>3, ExpireRight, RestartRight DEF Next

LEMMA RouteInvariantHolds == Spec => []RouteInvariant
BY InitRight, NextRight, PTL DEF Spec

\* Every variable of the route has its type, whatever fails.
THEOREM RouteTyped == Spec => []TypeOK
<1>1. RouteInvariant => TypeOK
  <2> SUFFICES ASSUME RouteInvariant PROVE TypeOK
    OBVIOUS
  <2>1. ASSUME NEW r \in Requests
        PROVE  /\ \E places \in SUBSET (1 .. 3) :
                    /\ wanted[r] \in [places -> AllPages]
                    /\ fetched[r] \in [places -> Value \cup {NotCached}]
               /\ \E places \in SUBSET (1 .. 3) : keyed[r] \in [places -> AllPages]
    <3>1. /\ wanted[r] \in Lists(AllPages) /\ keyed[r] \in Lists(AllPages)
          /\ fetched[r] \in Lists(Value \cup {NotCached})
          /\ DOMAIN fetched[r] = DOMAIN wanted[r]
      BY DEF RouteInvariant, RequestsTyped, RequestRight
    <3>2. /\ DOMAIN wanted[r] \in SUBSET (1 .. 3)
          /\ wanted[r] \in [DOMAIN wanted[r] -> AllPages]
          /\ fetched[r] \in [DOMAIN wanted[r] -> Value \cup {NotCached}]
      BY <3>1, ListsAre
    <3>3. QED
      BY <3>1, <3>2 DEF Lists
  <2>2. QED
    BY <2>1 DEF RouteInvariant, WorldTyped, StoreRight, RequestsTyped, ReplyRight, TypeOK
<1>2. QED
  BY <1>1, RouteInvariantHolds, PTL

\* However the vectors of pages, keys and results are zipped, and whoever
\* fetched and cached a page, a request gets the results of its own page and level,
\* from engines whose names, joined, are its own: its own engines, unless a list has
\* an empty name or one with a comma in it.  Every key holds results that give it.
THEOREM AnswersAreRight == Spec => []RightResults
<1>1. RouteInvariant => RightResults
  <2> SUFFICES ASSUME RouteInvariant PROVE RightResults
    OBVIOUS
  <2>1. ASSUME reply.kind = "ok"
        PROVE  /\ reply.value.page = reply.asked.page
               /\ reply.value.level = reply.asked.level
               /\ Joined(reply.value.engines) = Joined(reply.asked.engines)
               /\ reply.value.engines \in EngineLists
               /\ reply.asked.engines \in EngineLists
    <3>1. /\ reply.value \in Value /\ reply.asked \in Settings
          /\ KeyOf(reply.value) = KeyOf(reply.asked)
      BY <2>1 DEF RouteInvariant, ReplyRight, ResultsOf
    <3>2. reply.value.engines \in EngineLists /\ reply.asked.engines \in EngineLists
      BY <3>1 DEF Value, Settings
    <3>3. QED
      BY <3>1, <3>2 DEF KeyOf, KeyFor
  <2>2. \A k \in Keys : Cached(k) => KeyOf(cache[k]) = k
    BY DEF RouteInvariant, StoreRight, ResultsOf
  <2>3. QED
    BY <2>1, <2>2, PlainListsDiffer DEF RightResults
<1>2. QED
  BY <1>1, RouteInvariantHolds, PTL

\* From level 3 on every answer has the level of the config file in force, cached
\* before a restart or not.
THEOREM ConfigFileBinds == Spec => []ConfigLevelBinds
<1>1. RouteInvariant => ConfigLevelBinds
  BY DEF RouteInvariant, ReplyRight, ConfigLevelBinds
<1>2. QED
  BY <1>1, RouteInvariantHolds, PTL

-----------------------------------------------------------------------------
(* Needless fetches.                                                       *)

\* All that is not cached has been so since the request began, and what it fetches
\* upstream was not cached at some time since.
GoneRight(r) ==
    at[r] # "idle" =>
        /\ \A k \in Keys : ~Cached(k) => k \in gone[r]
        /\ at[r] = "fetching" => KeyAt(r, asked[r].page) \in gone[r]
        /\ at[r] = "prefetching" => \A i \in DOMAIN wanted[r] : KeyAt(r, wanted[r][i]) \in gone[r]

GoneInvariant == \A r \in Requests : GoneRight(r)

LEMMA ValuesAreCached == ASSUME NEW v \in Value PROVE v # NotCached
<1>1. DOMAIN v # DOMAIN NotCached
  BY DEF Value, NotCached
<1>2. QED
  BY <1>1

\* A request that a step leaves alone, and that forgets no key that was gone, while
\* nothing disappears from the cache.
LEMMA OtherGone ==
    ASSUME NEW s \in Requests, GoneRight(s), at'[s] = at[s], asked'[s] = asked[s],
           wanted'[s] = wanted[s], gone'[s] = gone[s],
           \A k \in Keys : Cached(k) => Cached(k)'
    PROVE  GoneRight(s)'
BY DEF GoneRight, KeyAt

\* A step that leaves the cache and all other requests alone.
LEMMA RequestGone ==
    ASSUME RequestsTyped, NEW r \in Requests, \A s \in Requests : GoneRight(s), cache' = cache,
           NEW to, at' = [at EXCEPT ![r] = to],
           wanted' = wanted \/ \E pages : wanted' = [wanted EXCEPT ![r] = pages],
           asked' = asked \/ \E x : asked' = [asked EXCEPT ![r] = x],
           gone' = gone \/ \E ks : gone' = [gone EXCEPT ![r] = ks],
           GoneRight(r)'
    PROVE  \A s \in Requests : GoneRight(s)'
<1> SUFFICES ASSUME NEW s \in Requests PROVE GoneRight(s)'
  OBVIOUS
<1>1. CASE s = r
  BY <1>1
<1>2. CASE s # r
  <2>1. at'[s] = at[s] /\ wanted'[s] = wanted[s] /\ asked'[s] = asked[s] /\ gone'[s] = gone[s]
    BY <1>2 DEF RequestsTyped
  <2>2. \A k \in Keys : Cached(k) => Cached(k)'
    BY DEF Cached
  <2>3. QED
    BY <2>1, <2>2, OtherGone
<1>3. QED
  BY <1>1, <1>2

LEMMA AnsweredGone ==
    ASSUME RequestsTyped, NEW r \in Requests, \A s \in Requests : GoneRight(s), cache' = cache,
           NEW answer, Answer(r, answer)
    PROVE  \A s \in Requests : GoneRight(s)'
<1>1. at'[r] = "idle"
  BY DEF Answer, RequestsTyped
<1>2. GoneRight(r)'
  BY <1>1 DEF GoneRight
<1>3. QED
  BY <1>2, RequestGone DEF Answer

LEMMA BeginGone ==
    ASSUME RequestsTyped, NEW r \in Requests, \A s \in Requests : GoneRight(s), Begin(r)
    PROVE  \A s \in Requests : GoneRight(s)'
<1>1. /\ cache' = cache /\ wanted' = wanted /\ at' = [at EXCEPT ![r] = "reading"]
      /\ \E x : asked' = [asked EXCEPT ![r] = x]
      /\ gone' = [gone EXCEPT ![r] = {k \in Keys : ~Cached(k)}]
  BY DEF Begin
<1>2. at'[r] = "reading" /\ gone'[r] = {k \in Keys : ~Cached(k)}
  BY <1>1 DEF RequestsTyped
<1>3. GoneRight(r)'
  BY <1>1, <1>2 DEF GoneRight, Cached
<1>4. QED
  BY <1>1, <1>3, RequestGone

LEMMA ReadGone ==
    ASSUME RouteInvariant, ~CacheFails, NEW r \in Requests, \A s \in Requests : GoneRight(s),
           ReadCache(r)
    PROVE  \A s \in Requests : GoneRight(s)'
<1>1. RequestsTyped /\ AskedRight(asked[r]) /\ at[r] # "idle"
  BY DEF RouteInvariant, RequestRight, ReadCache
<1>2. cache' = cache /\ wanted' = wanted /\ asked' = asked /\ gone' = gone
  BY DEF ReadCache
<1>3. CurrentKey(r) = KeyAt(r, asked[r].page) /\ CurrentKey(r) \in Keys
  BY <1>1, CurrentKeyIs
<1>4. PICK to \in {"checking", "fetching"} :
        at' = [at EXCEPT ![r] = to] /\ (to = "fetching" => ~Cached(CurrentKey(r)))
  BY DEF ReadCache
<1>5. at'[r] = to
  BY <1>1, <1>4 DEF RequestsTyped
<1>6. GoneRight(r)'
  BY <1>1, <1>2, <1>3, <1>4, <1>5 DEF GoneRight, Cached, KeyAt
<1>7. QED
  BY <1>1, <1>2, <1>4, <1>6, RequestGone

LEMMA FetchCurrentGone ==
    ASSUME RequestsTyped, NEW r \in Requests, \A s \in Requests : GoneRight(s), FetchCurrent(r)
    PROVE  \A s \in Requests : GoneRight(s)'
<1>1. cache' = cache /\ at[r] = "fetching"
  BY DEF FetchCurrent
<1>2. CASE AnswerError(r)
  BY <1>1, <1>2, AnsweredGone DEF AnswerError
<1>3. CASE /\ at' = [at EXCEPT ![r] = "checking"]
           /\ wanted' = wanted /\ asked' = asked /\ gone' = gone
  <2>1. at'[r] = "checking"
    BY <1>3 DEF RequestsTyped
  <2>2. GoneRight(r)'
    BY <1>1, <1>3, <2>1 DEF GoneRight, Cached
  <2>3. QED
    BY <1>1, <1>3, <2>2, RequestGone
<1>4. QED
  BY <1>2, <1>3 DEF FetchCurrent

LEMMA CheckGone ==
    ASSUME RouteInvariant, NEW r \in Requests, \A s \in Requests : GoneRight(s),
           CheckNeighbours(r)
    PROVE  \A s \in Requests : GoneRight(s)'
<1> DEFINE near == Neighbours(asked[r].page)
           pages == [i \in {j \in DOMAIN near : ~Cached(KeyAt(r, near[j]))} |-> near[i]]
<1>1. RequestsTyped /\ at[r] = "checking" /\ AskedRight(asked[r]) /\ cache' = cache
  BY DEF RouteInvariant, RequestRight, CheckNeighbours
<1>2. CASE AnswerCurrent(r)
  BY <1>1, <1>2, AnsweredGone DEF AnswerCurrent
<1>3. CASE Fetch(r, pages, pages)
  <2>1. /\ at' = [at EXCEPT ![r] = "prefetching"] /\ wanted' = [wanted EXCEPT ![r] = pages]
        /\ asked' = asked /\ gone' = gone
    BY <1>3 DEF Fetch
  <2>2. at'[r] = "prefetching" /\ wanted'[r] = pages
    BY <1>1, <2>1 DEF RequestsTyped
  <2>3. ASSUME NEW i \in DOMAIN pages
        PROVE  KeyAt(r, pages[i]) \in gone[r]
    <3>1. pages[i] = near[i] /\ ~Cached(KeyAt(r, near[i])) /\ i \in DOMAIN near
      OBVIOUS
    <3>2. near \in Lists(AllPages)
      BY <1>1, PagesAroundType DEF AskedRight
    <3>3. near[i] \in AllPages
      BY <3>1, <3>2, ListsAre
    <3>4. KeyAt(r, near[i]) \in Keys
      BY <1>1, <3>3, CurrentKeyIs, KeyType DEF KeyAt
    <3>5. QED
      BY <1>1, <3>1, <3>4 DEF GoneRight
  <2>4. GoneRight(r)'
    <3> HIDE DEF pages
    <3>1. QED
      BY <1>1, <2>1, <2>2, <2>3 DEF GoneRight, Cached, KeyAt
  <2>5. QED
    BY <1>1, <2>1, <2>4, RequestGone
<1>4. QED
  BY <1>2, <1>3 DEF CheckNeighbours

LEMMA FetchNeighbourGone ==
    ASSUME RequestsTyped, NEW r \in Requests, \A s \in Requests : GoneRight(s),
           FetchNeighbour(r) \/ CacheNeighbours(r)
    PROVE  \A s \in Requests : GoneRight(s)'
<1>1. cache' = cache
  BY DEF FetchNeighbour, CacheNeighbours
<1>2. CASE AnswerCurrent(r)
  BY <1>1, <1>2, AnsweredGone DEF AnswerCurrent
<1>3. CASE at' = at /\ wanted' = wanted /\ asked' = asked /\ gone' = gone
  BY <1>1, <1>3 DEF GoneRight, KeyAt, Cached
<1>4. QED
  BY <1>2, <1>3 DEF FetchNeighbour, CacheNeighbours

LEMMA StoreGone ==
    ASSUME RouteInvariant, \A s \in Requests : GoneRight(s),
           Expire \/ Restart \/ (\E k \in Keys : Write(k))
    PROVE  \A s \in Requests : GoneRight(s)'
<1> SUFFICES ASSUME NEW s \in Requests PROVE GoneRight(s)'
  OBVIOUS
<1>1. CASE Restart
  BY <1>1 DEF Restart, GoneRight
<1>2. CASE Expire
  <2>1. PICK k \in Keys :
          /\ cache' = [cache EXCEPT ![k] = NotCached]
          /\ gone' = [r \in Requests |-> IF at[r] = "idle" THEN {} ELSE gone[r] \cup {k}]
    BY <1>2 DEF Expire
  <2>2. at' = at /\ asked' = asked /\ wanted' = wanted
    BY <1>2 DEF Expire, request
  <2>3. \A x \in Keys : ~Cached(x)' => ~Cached(x) \/ x = k
    BY <2>1 DEF RouteInvariant, StoreRight, Cached
  <2>4. at[s] # "idle" => gone'[s] = gone[s] \cup {k}
    BY <2>1
  <2>5. GoneRight(s)
    OBVIOUS
  <2>6. QED
    BY <2>2, <2>3, <2>4, <2>5 DEF GoneRight, KeyAt
<1>3. ASSUME NEW k \in Keys, Write(k) PROVE GoneRight(s)'
  <2>1. PICK w \in writes :
          w.key = k /\ cache' \in {cache, [cache EXCEPT ![k] = w.value]}
    BY <1>3 DEF Write
  <2>2. /\ at' = at /\ asked' = asked /\ wanted' = wanted /\ gone' = gone
    BY <1>3 DEF Write, request
  <2>3. w.value \in Value /\ cache \in [Keys -> Value \cup {NotCached}]
    BY <2>1 DEF RouteInvariant, StoreRight
  <2>4. w.value # NotCached
    BY <2>3, ValuesAreCached
  <2>5. \A x \in Keys : Cached(x) => Cached(x)'
    BY <2>1, <2>3, <2>4 DEF Cached
  <2>6. QED
    BY <2>2, <2>5, OtherGone
<1>4. QED
  BY <1>1, <1>2, <1>3

\* While the cache itself does not fail, no page is fetched upstream that was cached
\* all the time since its request began, whatever other requests and expiry do.
THEOREM FetchesAreNeeded ==
    ASSUME ~CacheFails
    PROVE  Spec => []NoNeedlessFetch
<1>1. Init => GoneInvariant
  BY DEF Init, GoneRight, GoneInvariant
<1>2. RouteInvariant /\ GoneInvariant /\ [Next]_vars => GoneInvariant'
  <2> SUFFICES ASSUME RouteInvariant, \A r \in Requests : GoneRight(r), [Next]_vars
               PROVE  \A r \in Requests : GoneRight(r)'
    BY DEF GoneInvariant
  <2>1. RequestsTyped
    BY DEF RouteInvariant
  <2>2. ASSUME NEW r \in Requests, Begin(r) \/ Step(r)
        PROVE  \A s \in Requests : GoneRight(s)'
    <3>1. ~CheckFails(r)
      BY DEF CheckFails
    <3>2. QED
      BY <2>1, <2>2, <3>1, BeginGone, ReadGone, FetchCurrentGone, CheckGone, FetchNeighbourGone
         DEF Step
  <2>3. CASE UNCHANGED vars
    BY <2>3 DEF vars, request, GoneRight, KeyAt, Cached
  <2>4. QED
    BY <2>2, <2>3, StoreGone DEF Next
<1>3. GoneInvariant => NoNeedlessFetch
  <2> SUFFICES ASSUME GoneInvariant, NEW r \in Requests
               PROVE  /\ at[r] = "fetching" => KeyAt(r, asked[r].page) \in gone[r]
                      /\ at[r] = "prefetching" =>
                           \A i \in DOMAIN wanted[r] : KeyAt(r, wanted[r][i]) \in gone[r]
    BY DEF NoNeedlessFetch
  <2>1. GoneRight(r)
    BY DEF GoneInvariant
  <2>2. QED
    BY <2>1 DEF GoneRight
<1>4. Spec => []GoneInvariant
  BY <1>1, <1>2, RouteInvariantHolds, PTL DEF Spec
<1>5. QED
  BY <1>3, <1>4, PTL
=============================================================================
