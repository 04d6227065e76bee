------------------------- MODULE SearchResultProofs -------------------------
(***************************************************************************)
(* What push and swap_remove do to vectors of entries, for every vector.   *)
(***************************************************************************)
EXTENDS SearchResult, TLAPS

\* swap_remove yields a vector shorter by one whose elements are elements of
\* the original at known places.
LEMMA SwapRemoveType ==
    ASSUME NEW S, NEW vec \in Seq(S), NEW i \in 1 .. Len(vec)
    PROVE  /\ SwapRemove(vec, i) \in Seq(S)
           /\ Len(SwapRemove(vec, i)) = Len(vec) - 1
           /\ DOMAIN SwapRemove(vec, i) = 1 .. Len(vec) - 1
           /\ \A j \in 1 .. Len(vec) - 1 :
                SwapRemove(vec, i)[j] = IF j = i THEN vec[Len(vec)] ELSE vec[j]
<1>1. Len(vec) \in Nat /\ Len(vec) - 1 \in Nat /\ DOMAIN vec = 1 .. Len(vec)
  OBVIOUS
<1>2. \A j \in 1 .. Len(vec) : vec[j] \in S
  OBVIOUS
<1>3. SwapRemove(vec, i) \in [1 .. Len(vec) - 1 -> S]
  BY <1>1, <1>2 DEF SwapRemove
<1>4. QED
  BY <1>1, <1>3 DEF SwapRemove

\* swap_remove takes exactly the chosen entry out of a vector of distinct
\* entries and leaves them distinct.
LEMMA SwapRemoveDistinct ==
    ASSUME NEW vec \in Seq(Entry), DistinctUrls(vec), NEW i \in 1 .. Len(vec)
    PROVE  /\ DistinctUrls(SwapRemove(vec, i))
           /\ Members(SwapRemove(vec, i)) = Members(vec) \ {vec[i]}
<1> DEFINE new == SwapRemove(vec, i)
<1>0. PICK n \in Nat : n = Len(vec)
  OBVIOUS
<1>1. n \in Nat /\ DOMAIN vec = 1 .. n /\ n \in DOMAIN vec /\ i \in 1 .. n
  BY <1>0
<1>2. /\ DOMAIN new = 1 .. n - 1
      /\ \A j \in 1 .. n - 1 : new[j] = IF j = i THEN vec[n] ELSE vec[j]
  BY <1>0, SwapRemoveType
<1> HIDE DEF new
<1>3. DistinctUrls(new)
  <2>1. SUFFICES ASSUME NEW j \in DOMAIN new, NEW k \in DOMAIN new, new[j].url = new[k].url
                 PROVE  j = k
    BY DEF DistinctUrls
  <2>2. j \in 1 .. n - 1 /\ k \in 1 .. n - 1
    BY <1>2
  <2>3. CASE j = i /\ k # i
    BY <1>1, <1>2, <2>1, <2>2, <2>3 DEF DistinctUrls
  <2>4. CASE j # i /\ k = i
    BY <1>1, <1>2, <2>1, <2>2, <2>4 DEF DistinctUrls
  <2>5. CASE j # i /\ k # i
    BY <1>1, <1>2, <2>1, <2>2, <2>5 DEF DistinctUrls
  <2>6. QED
    BY <2>3, <2>4, <2>5
<1>4. Members(new) \subseteq Members(vec) \ {vec[i]}
  <2>1. SUFFICES ASSUME NEW j \in 1 .. n - 1
                 PROVE  new[j] \in Members(vec) /\ new[j] # vec[i]
    BY <1>2 DEF Members
  <2>2. CASE j = i
    <3>1. new[j] = vec[n] /\ n # i
      <4>1. new[j] = vec[n]
        BY <1>2, <2>2
      <4>2. i \in 1 .. n - 1
        BY <2>2
      <4>3. n # i
        BY <1>1, <4>2
      <4>4. QED
        BY <4>1, <4>3
    <3>2. vec[n].url # vec[i].url
      BY <1>1, <3>1 DEF DistinctUrls
    <3>3. QED
      BY <1>1, <3>1, <3>2 DEF Members
  <2>3. CASE j # i
    <3>1. new[j] = vec[j] /\ j \in DOMAIN vec
      BY <1>1, <1>2, <2>3
    <3>2. vec[j].url # vec[i].url
      BY <1>1, <2>3, <3>1 DEF DistinctUrls
    <3>3. QED
      BY <1>1, <3>1, <3>2 DEF Members
  <2>4. QED
    BY <2>2, <2>3
<1>5. Members(vec) \ {vec[i]} \subseteq Members(new)
  <2>1. SUFFICES ASSUME NEW j \in 1 .. n, vec[j] # vec[i]
                 PROVE  \E k \in DOMAIN new : new[k] = vec[j]
    BY <1>1 DEF Members
  <2>2. CASE j = n
    <3>1. i \in 1 .. n - 1 /\ new[i] = vec[n]
      BY <1>1, <1>2, <2>1, <2>2
    <3>2. QED
      BY <1>2, <2>2, <3>1
  <2>3. CASE j # n
    <3>1. j \in 1 .. n - 1 /\ j # i
      <4>1. j # i
        BY <2>1
      <4>2. j \in 1 .. n - 1
        BY <1>1, <2>3
      <4>3. QED
        BY <4>1, <4>2
    <3>2. QED
      BY <1>2, <3>1
  <2>4. QED
    BY <2>2, <2>3
<1>6. QED
  BY <1>3, <1>4, <1>5 DEF new

\* Pushing an entry of a new url onto a vector of distinct entries.
LEMMA AppendDistinct ==
    ASSUME NEW vec \in Seq(Entry), DistinctUrls(vec), NEW e \in Entry,
           \A i \in DOMAIN vec : vec[i].url # e.url
    PROVE  DistinctUrls(Append(vec, e))
BY DEF DistinctUrls

\* Pushing adds exactly one member.
LEMMA AppendMembers ==
    ASSUME NEW S, NEW vec \in Seq(S), NEW e \in S
    PROVE  Members(Append(vec, e)) = Members(vec) \cup {e}
<1> DEFINE new == Append(vec, e)
<1>1. /\ DOMAIN new = 1 .. Len(vec) + 1
      /\ DOMAIN vec = 1 .. Len(vec) /\ Len(vec) \in Nat
      /\ \A i \in 1 .. Len(vec) : new[i] = vec[i]
      /\ new[Len(vec) + 1] = e
  OBVIOUS
<1> HIDE DEF new
<1>2. Members(new) \subseteq Members(vec) \cup {e}
  BY <1>1 DEF Members
<1>3. Members(vec) \subseteq Members(new)
  BY <1>1 DEF Members
<1>4. e \in Members(new)
  <2>1. Len(vec) + 1 \in DOMAIN new
    BY <1>1
  <2>2. QED
    BY <1>1, <2>1 DEF Members
<1>5. QED
  BY <1>2, <1>3, <1>4 DEF new

\* Moving an entry from one vector to the end of another keeps the two distinct
\* and disjoint.
LEMMA MoveDistinct ==
    ASSUME NEW v \in Seq(Entry), NEW w \in Seq(Entry), DistinctAcross(v, w),
           NEW i \in 1 .. Len(v)
    PROVE  DistinctAcross(SwapRemove(v, i), Append(w, v[i]))
<1> DEFINE e == v[i]
           vv == SwapRemove(v, i)
           ww == Append(w, e)
<1>1. e \in Entry /\ i \in DOMAIN v
  OBVIOUS
<1>2. /\ DistinctUrls(v) /\ DistinctUrls(w)
      /\ \A j \in DOMAIN v, k \in DOMAIN w : v[j].url # w[k].url
  BY DEF DistinctAcross
<1>3. DistinctUrls(vv)
  BY <1>2, SwapRemoveDistinct
<1>4. DistinctUrls(ww)
  BY <1>1, <1>2, AppendDistinct
<1>5. ASSUME NEW j \in DOMAIN vv, NEW k \in DOMAIN ww
      PROVE  vv[j].url # ww[k].url
  <2>0. Members(vv) = Members(v) \ {e}
    BY <1>2, SwapRemoveDistinct
  <2>1. vv[j] \in Members(v) /\ vv[j] # e
    <3>1. vv[j] \in Members(vv)
      BY DEF Members
    <3>2. QED
      BY <2>0, <3>1
  <2>2. PICK m \in DOMAIN v : v[m] = vv[j] /\ m # i
    BY <2>1 DEF Members
  <2>3. ww[k] = e \/ (k \in DOMAIN w /\ ww[k] = w[k])
    BY <1>1
  <2>4. CASE ww[k] = e
    BY <1>1, <1>2, <2>2, <2>4 DEF DistinctUrls
  <2>5. CASE k \in DOMAIN w /\ ww[k] = w[k]
    BY <1>2, <2>2, <2>5
  <2>6. QED
    BY <2>3, <2>4, <2>5
<1>6. QED
  BY <1>3, <1>4, <1>5 DEF DistinctAcross
=============================================================================
