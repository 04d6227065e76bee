---------------------------- MODULE EnginesProofs ---------------------------
(***************************************************************************)
(* What every engine asks for and what it reports, proved for every width  *)
(* of the page number, every page and every answer of upstream.            *)
(***************************************************************************)
EXTENDS Engines, TLAPS, WellFoundedInduction, SequenceTheorems

\* The request that was sent is the one of the task, and it was in reach.
RequestIsSent ==
    /\ engine \in DOMAIN Handlers
    /\ handler.checked => ~Overflows
    /\ sent = [page |-> PageParameter, safe |-> Safe(task.level)]

EnginesInvariant ==
    /\ task \in [engine: Names, page: Pages, level: Levels, query: {"plain", "hash"},
                 profile: Profiles]
    /\ at \in {"new", "request", "sent", "answered", "done"}
    /\ at # "done" => outcome = "none"
    /\ at = "request" => engine \in DOMAIN Handlers
    /\ WasSent => RequestIsSent

\* Upstream has answered since at is "answered", with one of its documents.
ReportsInvariant ==
    /\ engine \in Names
    /\ at \in {"new", "request", "sent", "answered", "done"}
    /\ at # "done" => outcome = "none" /\ results = <<>>
    /\ at \in {"new", "request", "sent"} => document = NoDocument
    /\ at \in {"request", "sent", "answered"} => engine \in DOMAIN Handlers
    /\ at = "answered" => document \in Documents(engine)
    /\ OutcomesAreTruthful
    /\ RedirectsAreUndone

-----------------------------------------------------------------------------
(* Induction.                                                              *)

\* A set of numbers that is not empty has a smallest one.
LEMMA SmallestNat ==
    ASSUME NEW S \in SUBSET Nat, S # {}
    PROVE  \E i \in S : \A j \in S : i <= j
<1> DEFINE Less == OpToRel(<, Nat)
<1>1. IsWellFoundedOn(Less, Nat)
    BY NatLessThanWellFounded
<1>2. \A i, j \in Nat : i < j => <<i, j>> \in Less
    BY DEF OpToRel
<1> HIDE DEF Less
<1>3. PICK i \in S : \A j \in S : ~(<<j, i>> \in Less)
    BY <1>1, WFMin
<1>4. \A j \in S : i \in Nat /\ j \in Nat /\ ~(j < i)
    BY <1>2, <1>3
<1> QED
    BY <1>4

\* Induction up to a bound, over a set of numbers.
LEMMA UpToBound ==
    ASSUME NEW N \in Nat, NEW S, 0 \in S, \A n \in 0 .. N - 1 : n \in S => n + 1 \in S
    PROVE  \A n \in 0 .. N : n \in S
<1> SUFFICES ASSUME (0 .. N) \ S # {}
             PROVE  FALSE
    OBVIOUS
<1>1. PICK n \in (0 .. N) \ S : \A k \in (0 .. N) \ S : n <= k
    <2>1. (0 .. N) \ S \in SUBSET Nat
        OBVIOUS
    <2> QED
        BY <2>1, SmallestNat
<1>2. n # 0 /\ n - 1 \in 0 .. N - 1 /\ ~(n <= n - 1) /\ (n - 1) + 1 = n
    BY <1>1
<1>3. n - 1 \in S
    BY <1>1, <1>2
<1> QED
    BY <1>1, <1>2, <1>3

-----------------------------------------------------------------------------
(* Yahoo's links.                                                          *)

\* The value of the two digits after i.
Escaped(input, i) == from_hex(input[i + 1]) * 16 + from_hex(input[i + 2])

\* The recursion of percent_decode, which goes on one or three bytes further, has a
\* solution for every text.
LEMMA Decoding ==
    ASSUME NEW input, NEW N \in Nat, Len(input) = N
    PROVE  \E output :
             /\ percent_decode(input) = output[1]
             /\ output[N + 1] = <<>>
             /\ \A i \in 1 .. N : output[i] = IF Escape(input, i)
                                                THEN <<Escaped(input, i)>> \o output[i + 3]
                                                ELSE <<input[i]>> \o output[i + 1]
<1> DEFINE Turn(g, i) == IF i > N THEN <<>>
                         ELSE IF Escape(input, i) THEN <<Escaped(input, i)>> \o g[i + 3]
                         ELSE <<input[i]>> \o g[i + 1]
           From(k) == N + 1 - k .. N + 1
           Solved == {k \in 0 .. N : \E g : g = [i \in From(k) |-> Turn(g, i)]}
<1>1. ASSUME NEW i \in 1 .. N + 1, NEW g, NEW h, \A j \in i + 1 .. N + 1 : g[j] = h[j]
      PROVE  Turn(g, i) = Turn(h, i)
    <2>1. CASE i <= N /\ Escape(input, i)
        <3>1. i + 3 \in i + 1 .. N + 1
            BY <2>1 DEF Escape
        <3> QED
            BY <1>1, <2>1, <3>1
    <2>2. CASE i <= N /\ ~Escape(input, i)
        <3>1. i + 1 \in i + 1 .. N + 1
            BY <2>2
        <3> QED
            BY <1>1, <2>2, <3>1
    <2> QED
        BY <2>1, <2>2
<1>2. 0 \in Solved
    <2> DEFINE g == [i \in From(0) |-> <<>>]
    <2>1. \A i \in From(0) : i > N
        OBVIOUS
    <2>2. g = [i \in From(0) |-> Turn(g, i)]
        BY <2>1
    <2> HIDE DEF g, Turn
    <2> QED
        BY <2>2
<1>3. ASSUME NEW k \in 0 .. N - 1, k \in Solved
      PROVE  k + 1 \in Solved
    <2>1. PICK g : g = [i \in From(k) |-> Turn(g, i)]
        BY <1>3
    <2> DEFINE h == [i \in From(k + 1) |-> IF i = N - k THEN Turn(g, i) ELSE g[i]]
    <2>2. \A i \in From(k + 1) : i \in 1 .. N + 1 /\ (i = N - k \/ i \in From(k))
        OBVIOUS
    <2>3. \A i \in From(k) : h[i] = g[i]
        OBVIOUS
    <2>4. ASSUME NEW i \in From(k + 1)
          PROVE  h[i] = Turn(h, i)
        <3>1. \A j \in i + 1 .. N + 1 : g[j] = h[j]
            BY <2>2, <2>3
        <3>2. Turn(g, i) = Turn(h, i)
            <4> HIDE DEF Turn, h
            <4> QED
                BY <1>1, <2>2, <3>1
        <3>3. h[i] = Turn(g, i)
            <4> HIDE DEF Turn
            <4>1. \A j \in From(k) : g[j] = Turn(g, j)
                BY <2>1
            <4> QED
                BY <2>2, <4>1
        <3> QED
            BY <3>2, <3>3
    <2>5. h = [i \in From(k + 1) |-> h[i]]
        OBVIOUS
    <2>6. h = [i \in From(k + 1) |-> Turn(h, i)]
        <3> HIDE DEF h, Turn
        <3> QED
            BY <2>4, <2>5
    <2>7. k + 1 \in 0 .. N
        OBVIOUS
    <2> HIDE DEF h, Turn, From
    <2> QED
        BY <2>6, <2>7
<1>4. N \in Solved
    <2>1. \A k \in 0 .. N - 1 : k \in Solved => k + 1 \in Solved
        BY <1>3
    <2>2. N \in 0 .. N
        OBVIOUS
    <2> HIDE DEF Solved
    <2>3. \A k \in 0 .. N : k \in Solved
        BY <1>2, <2>1, UpToBound
    <2> QED
        BY <2>2, <2>3
<1> DEFINE output == CHOOSE g : g = [i \in 1 .. N + 1 |-> Turn(g, i)]
<1>5. output = [i \in 1 .. N + 1 |-> Turn(output, i)]
    <2>1. From(N) = 1 .. N + 1
        OBVIOUS
    <2>2. \E g : g = [i \in 1 .. N + 1 |-> Turn(g, i)]
        <3> HIDE DEF Turn, From
        <3> QED
            BY <1>4, <2>1
    <2> HIDE DEF Turn
    <2> QED
        BY <2>2
<1>6. percent_decode(input) = output[1]
    BY DEF percent_decode, Escaped
<1> HIDE DEF output
<1>7. \A i \in 1 .. N + 1 : output[i] = Turn(output, i)
    <2> HIDE DEF Turn
    <2> QED
        BY <1>5
<1>8. output[N + 1] = <<>>
    <2>1. N + 1 \in 1 .. N + 1 /\ N + 1 > N
        OBVIOUS
    <2> QED
        BY <1>7, <2>1
<1>9. \A i \in 1 .. N : output[i] = IF Escape(input, i)
                                       THEN <<Escaped(input, i)>> \o output[i + 3]
                                       ELSE <<input[i]>> \o output[i + 1]
    <2>1. \A i \in 1 .. N : i \in 1 .. N + 1 /\ ~(i > N)
        OBVIOUS
    <2> QED
        BY <1>7, <2>1
<1> HIDE DEF Turn
<1> QED
    BY <1>6, <1>8, <1>9

LEMMA Division ==
    ASSUME NEW n \in Nat, NEW d \in Nat \ {0}
    PROVE  n = d * (n \div d) + (n % d) /\ n \div d \in Int /\ n % d \in 0 .. d - 1
OBVIOUS

\* A form of a byte is read as that byte.
LEMMA ReadsForm ==
    ASSUME NEW byte \in Byte, NEW high \in Digits(byte \div 16), NEW low \in Digits(byte % 16)
    PROVE  /\ from_hex(high) >= 0 /\ from_hex(low) >= 0
           /\ from_hex(high) * 16 + from_hex(low) = byte
<1> DEFINE q == byte \div 16
           r == byte % 16
<1>1. q \in 0 .. 15 /\ r \in 0 .. 15 /\ q * 16 + r = byte
    <2>1. byte \in Nat /\ byte <= 255
        BY DEF Byte
    <2>2. byte = 16 * q + r /\ q \in Int /\ r \in 0 .. 15
        <3>1. 16 \in Nat \ {0} /\ 16 - 1 = 15
            OBVIOUS
        <3> QED
            BY <2>1, <3>1, Division
    <2> HIDE DEF q, r
    <2> QED
        BY <2>1, <2>2
<1>2. ASSUME NEW d \in 0 .. 15, NEW c \in Digits(d)
      PROVE  from_hex(c) = d
    <2>1. c \in 48 .. 57 \/ c \in 97 .. 102 \/ c \in 65 .. 70
        BY <1>2 DEF Digits
    <2> QED
        BY <1>2, <2>1 DEF Digits, from_hex
<1>3. high \in Digits(q) /\ low \in Digits(r)
    OBVIOUS
<1> HIDE DEF q, r
<1>4. from_hex(high) = q /\ from_hex(low) = r
    BY <1>1, <1>2, <1>3
<1> QED
    BY <1>1, <1>4

\* What a piece of one or three symbols says of where it was cut out.
LEMMA CutOut ==
    ASSUME NEW S, NEW text \in Seq(S), NEW a \in 1 .. Len(text) + 1, NEW b \in 1 .. Len(text) + 1
    PROVE  /\ \A x : SubSeq(text, a, b - 1) = <<x>> => b = a + 1 /\ text[a] = x
           /\ \A x, y, z : SubSeq(text, a, b - 1) = <<x, y, z>> =>
                b = a + 3 /\ text[a] = x /\ text[a + 1] = y /\ text[a + 2] = z
<1> DEFINE cut == SubSeq(text, a, b - 1)
<1>0. Len(text) \in Nat /\ a \in Int /\ b \in Int
    OBVIOUS
<1>1. /\ Len(cut) = IF a <= b - 1 THEN b - 1 - a + 1 ELSE 0
      /\ \A i \in 1 .. b - 1 - a + 1 : cut[i] = text[a + i - 1]
    <2>1. b - 1 \in 0 .. Len(text) /\ a \in 1 .. Len(text) + 1
        BY <1>0
    <2> QED
        BY <1>0, <2>1, SubSeqProperties
<1> HIDE DEF cut
<1>2. ASSUME NEW x, cut = <<x>>
      PROVE  b = a + 1 /\ text[a] = x
    <2>1. Len(cut) = 1 /\ cut[1] = x
        BY <1>2
    <2>2. b = a + 1
        <3>1. 1 = IF a <= b - 1 THEN b - 1 - a + 1 ELSE 0
            BY <1>1, <2>1
        <3> QED
            BY <1>0, <3>1
    <2> QED
        BY <1>0, <1>1, <2>1, <2>2
<1>3. ASSUME NEW x, NEW y, NEW z, cut = <<x, y, z>>
      PROVE  b = a + 3 /\ text[a] = x /\ text[a + 1] = y /\ text[a + 2] = z
    <2>1. Len(cut) = 3 /\ cut[1] = x /\ cut[2] = y /\ cut[3] = z
        BY <1>3
    <2>2. b = a + 3
        <3>1. 3 = IF a <= b - 1 THEN b - 1 - a + 1 ELSE 0
            BY <1>1, <2>1
        <3> QED
            BY <1>0, <3>1
    <2> QED
        BY <1>0, <1>1, <2>1, <2>2
<1> QED
    BY <1>2, <1>3 DEF cut

\* percent_decode undoes every way in which Yahoo may encode a target.
LEMMA DecodesEncoding ==
    ASSUME NEW encoded \in Seq(Byte), NEW target \in Seq(Byte), Encodes(encoded, target)
    PROVE  percent_decode(encoded) = target
<1> DEFINE N == Len(encoded)
           m == Len(target)
<1>0. /\ N \in Nat /\ m \in Nat /\ DOMAIN target = 1 .. m
      /\ \A i \in 1 .. m : target[i] \in Byte
    OBVIOUS
<1>1. PICK cut \in [1 .. m + 1 -> 1 .. N + 1] :
         /\ cut[1] = 1 /\ cut[m + 1] = N + 1
         /\ \A i \in 1 .. m : SubSeq(encoded, cut[i], cut[i + 1] - 1) \in Forms(target[i])
    BY <1>0 DEF Encodes
<1>2. PICK output :
         /\ percent_decode(encoded) = output[1]
         /\ output[N + 1] = <<>>
         /\ \A i \in 1 .. N : output[i] = IF Escape(encoded, i)
                                             THEN <<Escaped(encoded, i)>> \o output[i + 3]
                                             ELSE <<encoded[i]>> \o output[i + 1]
    BY <1>0, Decoding
<1> DEFINE Decoded == {k \in 0 .. m : output[cut[m + 1 - k]] = SubSeq(target, m + 1 - k, m)}
<1>3. 0 \in Decoded
    <2>1. SubSeq(target, m + 1, m) = <<>>
        BY <1>0
    <2> QED
        <3>1. m + 1 - 0 = m + 1 /\ 0 \in 0 .. m
            BY <1>0
        <3> HIDE DEF m
        <3> QED
            BY <1>1, <1>2, <2>1, <3>1
<1>4. ASSUME NEW i \in 1 .. m, output[cut[i + 1]] = SubSeq(target, i + 1, m)
      PROVE  output[cut[i]] = SubSeq(target, i, m)
    <2> DEFINE c == cut[i]
               next == cut[i + 1]
               byte == target[i]
    <2>1. c \in 1 .. N + 1 /\ next \in 1 .. N + 1 /\ byte \in Byte
        <3>1. i + 1 \in 1 .. m + 1 /\ i \in 1 .. m + 1
            BY <1>0
        <3> HIDE DEF N, m
        <3> QED
            BY <1>0, <1>1, <3>1
    <2>2. SubSeq(encoded, c, next - 1) \in Forms(byte)
        BY <1>1
    <2>3. <<byte>> \o SubSeq(target, i + 1, m) = SubSeq(target, i, m)
        <3>1. m \in i .. m
            BY <1>0
        <3> QED
            BY <3>1, SubSeqRecursiveFirst
    <2> HIDE DEF c, next, byte
    <2>4. ASSUME NEW high \in Digits(byte \div 16), NEW low \in Digits(byte % 16),
                 SubSeq(encoded, c, next - 1) = <<Percent, high, low>>
          PROVE  output[c] = <<byte>> \o output[next]
        <3>1. /\ next = c + 3
              /\ encoded[c] = Percent /\ encoded[c + 1] = high /\ encoded[c + 2] = low
            <4> HIDE DEF N
            <4>1. c \in 1 .. Len(encoded) + 1 /\ next \in 1 .. Len(encoded) + 1
                BY <2>1 DEF N
            <4> QED
                BY <2>4, <4>1, CutOut
        <3>2. c \in 1 .. N /\ c + 2 <= N
            BY <1>0, <2>1, <3>1
        <3>3. /\ from_hex(high) >= 0 /\ from_hex(low) >= 0
              /\ from_hex(high) * 16 + from_hex(low) = byte
            BY <2>1, ReadsForm
        <3>4. Escape(encoded, c) /\ Escaped(encoded, c) = byte
            BY <3>1, <3>2, <3>3 DEF Escape, Escaped
        <3> QED
            BY <1>2, <3>1, <3>2, <3>4
    <2>5. ASSUME byte # Percent, SubSeq(encoded, c, next - 1) = <<byte>>
          PROVE  output[c] = <<byte>> \o output[next]
        <3>1. next = c + 1 /\ encoded[c] = byte
            <4> HIDE DEF N
            <4>1. c \in 1 .. Len(encoded) + 1 /\ next \in 1 .. Len(encoded) + 1
                BY <2>1 DEF N
            <4> QED
                BY <2>5, <4>1, CutOut
        <3>2. c \in 1 .. N /\ ~Escape(encoded, c)
            BY <1>0, <2>1, <2>5, <3>1 DEF Escape
        <3> QED
            BY <1>2, <3>1, <3>2
    <2>6. output[c] = <<byte>> \o output[next]
        <3>1. \/ \E high \in Digits(byte \div 16), low \in Digits(byte % 16) :
                   SubSeq(encoded, c, next - 1) = <<Percent, high, low>>
              \/ byte # Percent /\ SubSeq(encoded, c, next - 1) = <<byte>>
            <4> DEFINE piece == SubSeq(encoded, c, next - 1)
            <4> HIDE DEF piece
            <4>1. piece \in Forms(byte)
                BY <2>2 DEF piece
            <4>2. \/ \E high \in Digits(byte \div 16), low \in Digits(byte % 16) :
                       piece = <<Percent, high, low>>
                  \/ byte # Percent /\ piece = <<byte>>
                <5>1. \/ piece \in {<<Percent, high, low>> : high \in Digits(byte \div 16),
                                                          low \in Digits(byte % 16)}
                      \/ byte # Percent /\ piece \in {<<byte>>}
                    BY <4>1 DEF Forms
                <5> QED
                    BY <5>1
            <4> QED
                BY <4>2 DEF piece
        <3> QED
            BY <2>4, <2>5, <3>1
    <2> QED
        BY <1>4, <2>3, <2>6 DEF c, next
<1>5. ASSUME NEW k \in 0 .. m - 1, k \in Decoded
      PROVE  k + 1 \in Decoded
    <2>1. /\ m - k \in 1 .. m /\ m + 1 - k = (m - k) + 1 /\ m + 1 - (k + 1) = m - k
          /\ k + 1 \in 0 .. m
        <3> HIDE DEF m
        <3> QED
            BY <1>0
    <2>2. output[cut[(m - k) + 1]] = SubSeq(target, (m - k) + 1, m)
        BY <1>5, <2>1
    <2>3. output[cut[m - k]] = SubSeq(target, m - k, m)
        BY <1>4, <2>1, <2>2
    <2> QED
        BY <2>1, <2>3
<1>6. m \in Decoded
    <2>1. \A k \in 0 .. m - 1 : k \in Decoded => k + 1 \in Decoded
        BY <1>5
    <2>2. m \in 0 .. m
        BY <1>0
    <2> HIDE DEF Decoded
    <2>3. \A k \in 0 .. m : k \in Decoded
        BY <1>0, <1>3, <2>1, UpToBound
    <2> QED
        BY <2>2, <2>3
<1>7. output[cut[1]] = SubSeq(target, 1, m)
    <2>1. m + 1 - m = 1
        BY <1>0
    <2> QED
        BY <1>6, <2>1
<1> QED
    BY <1>1, <1>2, <1>7, SubSeqFull

LEMMA MarkersAreNoBytes == RU \notin Byte /\ RS \notin Byte /\ RK \notin Byte
BY DEF RU, RS, RK, Byte

\* The url of a link is its target, whichever of its bytes are encoded, if that is text.
LEMMA LinksAreFollowed ==
    ASSUME NEW link \in Links
    PROVE  parse_yahoo_redirect_url(link.raw) = IF Utf8(link.target) THEN link.target ELSE link.raw
<1> DEFINE raw == link.raw
           target == link.target
<1>1. /\ target \in Seq(Byte) /\ raw \in Seq(Byte \cup {RU, RS, RK})
      /\ raw = target \/ Redirects(raw, target)
    BY LinksAssumption
<1> HIDE DEF raw, target
<1>2. DOMAIN raw = 1 .. Len(raw) /\ Len(raw) \in Nat
    BY <1>1
<1>3. CASE raw = target
    <2>1. \A i \in DOMAIN raw : raw[i] \in Byte
        BY <1>1, <1>3
    <2>2. Places(raw, {RU}) = {}
        BY <2>1 DEF Places, RU, Byte
    <2> QED
        BY <1>3, <2>2 DEF parse_yahoo_redirect_url, raw, target
<1>4. CASE Redirects(raw, target)
    <2>1. PICK start \in DOMAIN raw, end \in DOMAIN raw \cup {Len(raw) + 1} :
             /\ raw[start] = RU /\ \A i \in 1 .. start - 1 : raw[i] # RU
             /\ start < end /\ \A i \in start + 1 .. end - 1 : raw[i] \in Byte
             /\ end \in DOMAIN raw => raw[end] \in {RS, RK}
             /\ Encodes(SubSeq(raw, start + 1, end - 1), target)
        BY <1>4 DEF Redirects
    <2> DEFINE rest == SubSeq(raw, start + 1, Len(raw))
               stop == Min(Places(rest, {RS, RK}) \cup {Len(rest) + 1})
    <2>4. /\ start \in 1 .. Len(raw) /\ end \in start + 1 .. Len(raw) + 1
        BY <1>2, <2>1
    <2>2. start \in Places(raw, {RU}) /\ \A i \in Places(raw, {RU}) : i \in Int /\ start <= i
        BY <1>2, <2>1 DEF Places
    <2>3. Min(Places(raw, {RU})) = start
        <3> DEFINE heads == Places(raw, {RU})
        <3> HIDE DEF heads
        <3>1. start \in heads /\ \A i \in heads : i \in Int /\ start <= i
            BY <2>2 DEF heads
        <3>2. Min(heads) = start
            BY <3>1, <2>4 DEF Min
        <3> QED
            BY <3>2 DEF heads
    <2>5. /\ rest \in Seq(Byte \cup {RU, RS, RK}) /\ Len(rest) = Len(raw) - start
          /\ \A i \in 1 .. Len(raw) - start : rest[i] = raw[start + i]
        <3>1. \A i \in start + 1 .. Len(raw) : raw[i] \in Byte \cup {RU, RS, RK}
            BY <1>1, <1>2, <2>4
        <3>2. start + 1 \in Int /\ Len(raw) \in Int
            BY <1>2, <2>4
        <3> HIDE DEF rest
        <3>3. /\ rest \in Seq(Byte \cup {RU, RS, RK})
              /\ Len(rest) = IF start + 1 <= Len(raw) THEN Len(raw) - (start + 1) + 1 ELSE 0
              /\ \A i \in 1 .. Len(raw) - (start + 1) + 1 : rest[i] = raw[(start + 1) + i - 1]
            BY <3>1, <3>2, SubSeqProperties DEF rest
        <3> QED
            BY <1>2, <2>4, <3>3
    <2>6. stop = end - start
        <3> DEFINE ends == Places(rest, {RS, RK}) \cup {Len(rest) + 1}
        <3> HIDE DEF rest
        <3>1. DOMAIN rest = 1 .. Len(raw) - start
            BY <2>5
        <3>2. \A i \in ends : i \in Int /\ end - start <= i
            <4> SUFFICES ASSUME NEW i \in ends
                         PROVE  i \in Int /\ end - start <= i
                OBVIOUS
            <4>1. CASE i \in Places(rest, {RS, RK})
                <5>1. i \in 1 .. Len(raw) - start /\ raw[start + i] \in {RS, RK}
                    BY <2>5, <3>1, <4>1 DEF Places
                <5>2. raw[start + i] \notin Byte
                    BY <5>1, MarkersAreNoBytes
                <5>3. ~(start + i \in start + 1 .. end - 1)
                    BY <2>1, <5>2
                <5> QED
                    BY <1>2, <2>4, <5>1, <5>3
            <4>2. CASE i = Len(rest) + 1
                BY <1>2, <2>4, <2>5, <4>2
            <4> QED
                BY <4>1, <4>2
        <3>3. end - start \in ends
            <4>1. CASE end = Len(raw) + 1
                BY <1>2, <2>4, <2>5, <4>1
            <4>2. CASE end # Len(raw) + 1
                <5>1. raw[end] \in {RS, RK} /\ end - start \in 1 .. Len(raw) - start
                    BY <1>2, <2>1, <2>4, <4>2
                <5>2. rest[end - start] = raw[start + (end - start)] /\ start + (end - start) = end
                    BY <1>2, <2>4, <2>5, <5>1
                <5> QED
                    BY <3>1, <5>1, <5>2 DEF Places
            <4> QED
                BY <4>1, <4>2
        <3> HIDE DEF ends
        <3>4. Min(ends) = end - start
            BY <3>2, <3>3 DEF Min
        <3> QED
            BY <3>4 DEF ends
    <2>7. SubSeq(rest, 1, stop - 1) = SubSeq(raw, start + 1, end - 1)
        <3> DEFINE Symbol == Byte \cup {RU, RS, RK}
                   n == end - start - 1
                   inner == SubSeq(rest, 1, n)
                   outer == SubSeq(raw, start + 1, end - 1)
        <3>1. /\ start \in Nat /\ end \in Int /\ n \in Nat /\ n <= Len(raw) - start
              /\ start + 1 \in Int /\ end - 1 \in Int /\ (end - 1) - (start + 1) + 1 = n
              /\ stop - 1 = n
            <4> HIDE DEF stop, rest
            <4> QED
                BY <1>2, <2>4, <2>6
        <3> HIDE DEF n, rest, stop
        <3>2. inner \in Seq(Symbol) /\ Len(inner) = n /\ \A i \in 1 .. n : inner[i] = raw[start + i]
            <4>1. \A i \in 1 .. n : rest[i] \in Symbol /\ rest[i] = raw[start + i]
                BY <1>2, <2>5, <3>1
            <4>2. n - 1 + 1 = n /\ \A i \in Int : 1 + i - 1 = i
                BY <3>1
            <4>3. /\ inner \in Seq(Symbol) /\ Len(inner) = IF 1 <= n THEN n - 1 + 1 ELSE 0
                  /\ \A i \in 1 .. n - 1 + 1 : inner[i] = rest[1 + i - 1]
                BY <3>1, <4>1, SubSeqProperties
            <4> QED
                BY <3>1, <4>1, <4>2, <4>3
        <3>3. outer \in Seq(Symbol) /\ Len(outer) = n /\ \A i \in 1 .. n : outer[i] = raw[start + i]
            <4>1. \A i \in start + 1 .. end - 1 : raw[i] \in Symbol
                BY <2>1
            <4> DEFINE first == start + 1
                       last == end - 1
            <4>2. first \in Int /\ last \in Int /\ last - first + 1 = n /\ (first <= last <=> n # 0)
                BY <3>1
            <4>3. \A i \in 1 .. n : first + i - 1 = start + i
                BY <3>1
            <4>4. outer = SubSeq(raw, first, last)
                OBVIOUS
            <4> HIDE DEF first, last, outer, Symbol
            <4>5. \A i \in first .. last : raw[i] \in Symbol
                BY <4>1 DEF first, last
            <4>6. /\ outer \in Seq(Symbol)
                  /\ Len(outer) = IF first <= last THEN last - first + 1 ELSE 0
                  /\ \A i \in 1 .. last - first + 1 : outer[i] = raw[first + i - 1]
                BY <4>2, <4>4, <4>5, SubSeqProperties
            <4> QED
                BY <3>1, <4>2, <4>3, <4>6
        <3> HIDE DEF inner, outer
        <3>4. inner = outer
            BY <3>1, <3>2, <3>3, SeqEqual
        <3> QED
            BY <3>1, <3>4 DEF inner, outer
    <2>8. SubSeq(raw, start + 1, end - 1) \in Seq(Byte)
        BY <1>2, <2>1, <2>4, SubSeqProperties
    <2>9. percent_decode(SubSeq(rest, 1, stop - 1)) = target
        BY <1>1, <2>1, <2>7, <2>8, DecodesEncoding
    <2>10. Places(raw, {RU}) # {}
        BY <2>2
    <2> QED
        BY <2>3, <2>9, <2>10 DEF parse_yahoo_redirect_url, raw, target
<1> QED
    BY <1>1, <1>3, <1>4
-----------------------------------------------------------------------------
(* What is scraped.                                                        *)

\* The recursion of Kept has a solution for all items.
LEMMA Keeping ==
    ASSUME NEW items, NEW N \in Nat, Len(items) = N
    PROVE  \E kept :
             /\ Kept(items) = kept[N]
             /\ kept[0] = <<>>
             /\ \A n \in 1 .. N : kept[n] = IF Scraped(items[n]) THEN Append(kept[n - 1], items[n])
                                                                 ELSE kept[n - 1]
<1> DEFINE Turn(g, n) == IF n = 0 THEN <<>>
                         ELSE IF Scraped(items[n]) THEN Append(g[n - 1], items[n]) ELSE g[n - 1]
           Solved == {k \in 0 .. N : \E g : g = [n \in 0 .. k |-> Turn(g, n)]}
<1>1. 0 \in Solved
    <2> DEFINE g == [n \in 0 .. 0 |-> <<>>]
    <2>1. g = [n \in 0 .. 0 |-> Turn(g, n)]
        OBVIOUS
    <2> HIDE DEF g, Turn
    <2> QED
        BY <2>1
<1>2. ASSUME NEW k \in 0 .. N - 1, k \in Solved
      PROVE  k + 1 \in Solved
    <2>1. PICK g : g = [n \in 0 .. k |-> Turn(g, n)]
        BY <1>2
    <2> DEFINE h == [n \in 0 .. k + 1 |-> IF n = k + 1 THEN Turn(g, n) ELSE g[n]]
    <2>2. \A n \in 0 .. k : h[n] = g[n]
        OBVIOUS
    <2>3. ASSUME NEW n \in 0 .. k + 1
          PROVE  h[n] = Turn(h, n)
        <3>1. n # 0 => n - 1 \in 0 .. k
            OBVIOUS
        <3>2. Turn(g, n) = Turn(h, n)
            <4> HIDE DEF h
            <4> QED
                BY <2>2, <3>1
        <3>3. \A j \in 0 .. k : g[j] = Turn(g, j)
            <4> HIDE DEF Turn
            <4> QED
                BY <2>1
        <3>4. n = k + 1 \/ (n \in 0 .. k /\ n # k + 1)
            OBVIOUS
        <3>5. h[n] = Turn(g, n)
            <4> HIDE DEF Turn
            <4> QED
                BY <3>3, <3>4
        <3> QED
            BY <3>2, <3>5
    <2>4. h = [n \in 0 .. k + 1 |-> h[n]]
        OBVIOUS
    <2>5. h = [n \in 0 .. k + 1 |-> Turn(h, n)]
        <3> HIDE DEF h, Turn
        <3> QED
            BY <2>3, <2>4
    <2>6. k + 1 \in 0 .. N
        OBVIOUS
    <2> HIDE DEF h, Turn
    <2> QED
        BY <2>5, <2>6
<1>3. N \in Solved
    <2>1. \A k \in 0 .. N - 1 : k \in Solved => k + 1 \in Solved
        BY <1>2
    <2>2. N \in 0 .. N
        OBVIOUS
    <2> HIDE DEF Solved
    <2>3. \A k \in 0 .. N : k \in Solved
        BY <1>1, <2>1, UpToBound
    <2> QED
        BY <2>2, <2>3
<1> DEFINE kept == CHOOSE g : g = [n \in 0 .. N |-> Turn(g, n)]
<1>4. kept = [n \in 0 .. N |-> Turn(kept, n)]
    <2>1. \E g : g = [n \in 0 .. N |-> Turn(g, n)]
        <3> HIDE DEF Turn
        <3> QED
            BY <1>3
    <2> HIDE DEF Turn
    <2> QED
        BY <2>1
<1>5. Kept(items) = kept[N]
    BY DEF Kept
<1> HIDE DEF kept
<1>6. \A n \in 0 .. N : kept[n] = Turn(kept, n)
    <2> HIDE DEF Turn
    <2> QED
        BY <1>4
<1>7. kept[0] = <<>>
    <2>1. 0 \in 0 .. N
        OBVIOUS
    <2> QED
        BY <1>6, <2>1
<1>8. \A n \in 1 .. N : kept[n] = IF Scraped(items[n]) THEN Append(kept[n - 1], items[n]) ELSE kept[n - 1]
    <2>1. \A n \in 1 .. N : n \in 0 .. N /\ n # 0
        OBVIOUS
    <2> QED
        BY <1>6, <2>1
<1> HIDE DEF Turn
<1> QED
    BY <1>5, <1>7, <1>8

\* The kept items, by the places they were at among the first n.
InOrder(kept, items, n) ==
    \E place \in [DOMAIN kept -> 1 .. n] :
        /\ \A i, j \in DOMAIN kept : i < j => place[i] < place[j]
        /\ \A i \in DOMAIN kept : kept[i] = items[place[i]] /\ Scraped(kept[i])
        /\ \A k \in 1 .. n : Scraped(items[k]) => \E i \in DOMAIN kept : place[i] = k

LEMMA KeptInOrder ==
    ASSUME NEW T, NEW items \in Seq(T)
    PROVE  Kept(items) \in Seq(T) /\ InOrder(Kept(items), items, Len(items))
<1> DEFINE N == Len(items)
<1>0. N \in Nat /\ \A n \in 1 .. N : items[n] \in T
    OBVIOUS
<1>1. PICK kept :
         /\ Kept(items) = kept[N]
         /\ kept[0] = <<>>
         /\ \A n \in 1 .. N : kept[n] = IF Scraped(items[n]) THEN Append(kept[n - 1], items[n])
                                                             ELSE kept[n - 1]
    BY <1>0, Keeping
<1> HIDE DEF N
<1> DEFINE Done == {n \in 0 .. N : kept[n] \in Seq(T) /\ InOrder(kept[n], items, n)}
<1>2. 0 \in Done
    <2>1. <<>> \in Seq(T) /\ DOMAIN <<>> = {} /\ 0 \in 0 .. N
        BY <1>0
    <2>2. InOrder(<<>>, items, 0)
        <3> DEFINE place == [i \in {} |-> 0]
        <3>1. place \in [DOMAIN <<>> -> 1 .. 0]
            BY <2>1
        <3>2. ~\E k \in 1 .. 0 : TRUE
            OBVIOUS
        <3> HIDE DEF place
        <3> QED
            BY <2>1, <3>1, <3>2 DEF InOrder
    <2> QED
        BY <1>1, <2>1, <2>2
<1>3. ASSUME NEW n \in 0 .. N - 1, n \in Done
      PROVE  n + 1 \in Done
    <2> DEFINE old == kept[n]
               new == kept[n + 1]
               item == items[n + 1]
    <2>0. n + 1 \in 1 .. N /\ n + 1 \in 0 .. N /\ (n + 1) - 1 = n /\ n \in Nat
        BY <1>0
    <2>1. old \in Seq(T) /\ InOrder(old, items, n) /\ item \in T
        BY <1>0, <1>3, <2>0
    <2>2. new = IF Scraped(item) THEN Append(old, item) ELSE old
        BY <1>1, <2>0
    <2> HIDE DEF old, new, item
    <2>3. PICK place \in [DOMAIN old -> 1 .. n] :
             /\ \A i, j \in DOMAIN old : i < j => place[i] < place[j]
             /\ \A i \in DOMAIN old : old[i] = items[place[i]] /\ Scraped(old[i])
             /\ \A k \in 1 .. n : Scraped(items[k]) => \E i \in DOMAIN old : place[i] = k
        BY <2>1 DEF InOrder
    <2>4. \A k \in 1 .. n + 1 : k \in 1 .. n \/ k = n + 1
        BY <2>0
    <2>5. ASSUME ~Scraped(item)
          PROVE  new \in Seq(T) /\ InOrder(new, items, n + 1)
        <3>1. place \in [DOMAIN old -> 1 .. n + 1]
            BY <2>0
        <3>2. \A k \in 1 .. n + 1 : Scraped(items[k]) => \E i \in DOMAIN old : place[i] = k
            BY <2>3, <2>4, <2>5 DEF item
        <3>3. new = old
            BY <2>2, <2>5
        <3>4. InOrder(old, items, n + 1)
            BY <2>3, <3>1, <3>2 DEF InOrder
        <3> QED
            BY <2>1, <3>3, <3>4
    <2>6. ASSUME Scraped(item)
          PROVE  new \in Seq(T) /\ InOrder(new, items, n + 1)
        <3> DEFINE m == Len(old)
                   more == [i \in 1 .. m + 1 |-> IF i = m + 1 THEN n + 1 ELSE place[i]]
        <3>0. new = Append(old, item)
            BY <2>2, <2>6
        <3>1. /\ m \in Nat /\ DOMAIN old = 1 .. m /\ new \in Seq(T) /\ DOMAIN new = 1 .. m + 1
              /\ new[m + 1] = item /\ \A i \in 1 .. m : new[i] = old[i]
            <4>1. m \in Nat /\ DOMAIN old = 1 .. m
                BY <2>1
            <4>2. /\ Append(old, item) \in Seq(T) /\ Len(Append(old, item)) = m + 1
                  /\ Append(old, item)[m + 1] = item
                  /\ \A i \in 1 .. m : Append(old, item)[i] = old[i]
                BY <2>1, AppendProperties
            <4>3. DOMAIN new = 1 .. Len(new)
                BY <3>0, <4>2
            <4> QED
                BY <3>0, <4>1, <4>2, <4>3
        <3> HIDE DEF m
        <3>2. \A i \in 1 .. m + 1 : i = m + 1 \/ (i \in 1 .. m /\ i # m + 1)
            BY <3>1
        <3>3. \A i \in 1 .. m : more[i] = place[i] /\ place[i] \in 1 .. n /\ i \in 1 .. m + 1
            BY <3>1
        <3>4. more[m + 1] = n + 1 /\ m + 1 \in 1 .. m + 1
            BY <3>1
        <3>5. more \in [DOMAIN new -> 1 .. n + 1]
            <4>1. ASSUME NEW i \in 1 .. m + 1
                  PROVE  more[i] \in 1 .. n + 1
                <5> HIDE DEF more
                <5>1. i = m + 1 \/ i \in 1 .. m
                    BY <3>2
                <5>2. n + 1 \in 1 .. n + 1 /\ \A j \in 1 .. n : j \in 1 .. n + 1
                    BY <2>0
                <5> QED
                    BY <3>3, <3>4, <5>1, <5>2
            <4>2. more = [i \in 1 .. m + 1 |-> more[i]]
                OBVIOUS
            <4> HIDE DEF more
            <4> QED
                BY <3>1, <4>1, <4>2
        <3> HIDE DEF more
        <3>6. ASSUME NEW i \in 1 .. m + 1, NEW j \in 1 .. m + 1, i < j
              PROVE  more[i] < more[j]
            <4>1. i \in 1 .. m
                BY <3>1, <3>6
            <4>2. CASE j = m + 1
                BY <2>0, <3>3, <3>4, <4>1, <4>2
            <4>3. CASE j \in 1 .. m
                BY <2>3, <3>1, <3>3, <3>6, <4>1, <4>3
            <4> QED
                BY <3>2, <4>2, <4>3
        <3>7. \A i \in 1 .. m + 1 : new[i] = items[more[i]] /\ Scraped(new[i])
            BY <2>3, <2>6, <3>1, <3>2, <3>3, <3>4 DEF item
        <3>8. ASSUME NEW k \in 1 .. n + 1, Scraped(items[k])
              PROVE  \E i \in 1 .. m + 1 : more[i] = k
            <4>1. CASE k \in 1 .. n
                BY <2>3, <3>1, <3>3, <3>8, <4>1
            <4>2. CASE k = n + 1
                BY <3>4, <4>2
            <4> QED
                BY <2>4, <4>1, <4>2
        <3>9. /\ \A i, j \in DOMAIN new : i < j => more[i] < more[j]
              /\ \A i \in DOMAIN new : new[i] = items[more[i]] /\ Scraped(new[i])
              /\ \A k \in 1 .. n + 1 : Scraped(items[k]) => \E i \in DOMAIN new : more[i] = k
            BY <3>1, <3>6, <3>7, <3>8
        <3>10. InOrder(new, items, n + 1)
            BY <3>5, <3>9 DEF InOrder
        <3> QED
            BY <3>1, <3>10
    <2>7. new \in Seq(T) /\ InOrder(new, items, n + 1)
        BY <2>5, <2>6
    <2> QED
        BY <2>0, <2>7 DEF new
<1>4. N \in Done
    <2>1. \A n \in 0 .. N - 1 : n \in Done => n + 1 \in Done
        BY <1>3
    <2>2. N \in 0 .. N
        BY <1>0
    <2> HIDE DEF Done
    <2>3. \A n \in 0 .. N : n \in Done
        BY <1>0, <1>2, <2>1, UpToBound
    <2> QED
        BY <2>2, <2>3
<1> QED
    BY <1>1, <1>4 DEF N

-----------------------------------------------------------------------------
(* The engines, one by one.                                                *)

\* Upstream counts either results or pages, from a first value of its own.
LEMMA CountsOfEngines ==
    ASSUME NEW e \in DOMAIN Handlers
    PROVE  LET h == Handlers[e]
           IN  /\ h.plus \in {0, 1} /\ h.first = h.plus
               /\ \/ h.unit = 1 /\ h.factor \in {10, 20, 30} /\ h.per_page = h.factor
                  \/ h.factor = 1 /\ h.unit = 10 /\ h.per_page = 10
<1>1. CASE e = "bing"
    <2>1. Handlers[e] = Bing
        BY <1>1 DEF Handlers
    <2> QED
        BY <2>1 DEF Bing
<1>2. CASE e = "brave"
    <2>1. Handlers[e] = Brave
        BY <1>2 DEF Handlers
    <2> QED
        BY <2>1 DEF Brave
<1>3. CASE e = "duckduckgo"
    <2>1. Handlers[e] = DuckDuckGo
        BY <1>3 DEF Handlers
    <2> QED
        BY <2>1 DEF DuckDuckGo
<1>4. CASE e = "librex"
    <2>1. Handlers[e] = LibreX
        BY <1>4 DEF Handlers
    <2> QED
        BY <2>1 DEF LibreX
<1>5. CASE e = "mojeek"
    <2>1. Handlers[e] = Mojeek
        BY <1>5 DEF Handlers
    <2> QED
        BY <2>1 DEF Mojeek
<1>6. CASE e = "qwant"
    <2>1. Handlers[e] = Qwant
        BY <1>6 DEF Handlers
    <2> QED
        BY <2>1 DEF Qwant
<1>7. CASE e = "searx"
    <2>1. Handlers[e] = Searx
        BY <1>7 DEF Handlers
    <2> QED
        BY <2>1 DEF Searx
<1>8. CASE e = "sepiasearch"
    <2>1. Handlers[e] = SepiaSearch
        BY <1>8 DEF Handlers
    <2> QED
        BY <2>1 DEF SepiaSearch
<1>9. CASE e = "startpage"
    <2>1. Handlers[e] = Startpage
        BY <1>9 DEF Handlers
    <2> QED
        BY <2>1 DEF Startpage
<1>10. CASE e = "wikipedia"
    <2>1. Handlers[e] = Wikipedia
        BY <1>10 DEF Handlers
    <2> QED
        BY <2>1 DEF Wikipedia
<1>11. CASE e = "yahoo"
    <2>1. Handlers[e] = Yahoo
        BY <1>11 DEF Handlers
    <2> QED
        BY <2>1 DEF Yahoo
<1> QED
    BY <1>1, <1>2, <1>3, <1>4, <1>5, <1>6,
       <1>7, <1>8, <1>9, <1>10, <1>11 DEF Handlers

\* A parameter of an engine, read back as upstream reads it, is where the page
\* starts; and page 0 starts at the first result.
LEMMA ParametersTile ==
    ASSUME NEW e \in DOMAIN Handlers, NEW h, h = Handlers[e],
           NEW p \in Nat, NEW start, start = h.factor * p + h.plus
    PROVE  /\ start \in Nat
           /\ (start - h.first) * h.unit = p * h.per_page
           /\ 0 * h.per_page = 0
<1>1. /\ h.plus \in {0, 1} /\ h.first = h.plus
      /\ \/ h.unit = 1 /\ h.factor \in {10, 20, 30} /\ h.per_page = h.factor
         \/ h.factor = 1 /\ h.unit = 10 /\ h.per_page = 10
    BY CountsOfEngines
<1>2. ASSUME NEW f \in {1, 10, 20, 30}, h.factor = f
      PROVE  start \in Nat /\ start - h.first = f * p
    <2>1. start = f * p + h.plus /\ f * p \in Nat
        BY <1>2
    <2> QED
        BY <1>1, <2>1
<1>3. ASSUME NEW f \in {10, 20, 30}, h.factor = f, h.unit = 1, h.per_page = f
      PROVE  /\ start \in Nat
             /\ (start - h.first) * h.unit = p * h.per_page
             /\ 0 * h.per_page = 0
    <2>1. start \in Nat /\ start - h.first = f * p
        BY <1>2, <1>3
    <2>2. (f * p) * 1 = p * f /\ 0 * f = 0
        BY <1>3
    <2> QED
        BY <1>3, <2>1, <2>2
<1>4. ASSUME h.factor = 1, h.unit = 10, h.per_page = 10
      PROVE  /\ start \in Nat
             /\ (start - h.first) * h.unit = p * h.per_page
             /\ 0 * h.per_page = 0
    <2>1. start \in Nat /\ start - h.first = 1 * p
        BY <1>2, <1>4
    <2>2. (1 * p) * 10 = p * 10 /\ 0 * 10 = 0
        OBVIOUS
    <2> QED
        BY <1>4, <2>1, <2>2
<1> QED
    BY <1>1, <1>3, <1>4

\* The value an engine is sent grows with the level; from level 3 on it is the
\* greatest strictness the engine is ever sent, or, with Qwant alone, may be none.
LEMMA StrictnessGrows ==
    ASSUME NEW e \in DOMAIN Handlers, NEW k \in Levels, NEW l \in Levels
    PROVE  /\ Handlers[e].safe[k] \in 0 .. 4
           /\ k <= l => Handlers[e].safe[k] <= Handlers[e].safe[l]
           /\ l >= 3 /\ e # "qwant" =>
                Handlers[e].safe[l] \in Strictness /\ Handlers[e].safe[k] <= Handlers[e].safe[l]
           /\ Handlers[e].safe[l] \notin Strictness => e = "qwant" /\ l >= 3
<1>1. CASE e = "bing"
    <2>1. Handlers[e] = Bing
        BY <1>1 DEF Handlers
    <2> QED
        BY <1>1, <2>1 DEF Bing, Levels, Strictness, Unrestricted, Fixed
<1>2. CASE e = "brave"
    <2>1. Handlers[e] = Brave
        BY <1>2 DEF Handlers
    <2> QED
        BY <1>2, <2>1 DEF Brave, Levels, Strictness, Unrestricted, Fixed
<1>3. CASE e = "duckduckgo"
    <2>1. Handlers[e] = DuckDuckGo
        BY <1>3 DEF Handlers
    <2> QED
        BY <1>3, <2>1 DEF DuckDuckGo, Levels, Strictness, Unrestricted, Fixed
<1>4. CASE e = "librex"
    <2>1. Handlers[e] = LibreX
        BY <1>4 DEF Handlers
    <2> QED
        BY <1>4, <2>1 DEF LibreX, Levels, Strictness, Unrestricted, Fixed
<1>5. CASE e = "mojeek"
    <2>1. Handlers[e] = Mojeek
        BY <1>5 DEF Handlers
    <2> QED
        BY <1>5, <2>1 DEF Mojeek, Levels, Strictness, Unrestricted, Fixed
<1>6. CASE e = "qwant"
    <2>1. Handlers[e] = Qwant
        BY <1>6 DEF Handlers
    <2> QED
        BY <1>6, <2>1 DEF Qwant, Levels, Strictness, Unrestricted, Fixed
<1>7. CASE e = "searx"
    <2>1. Handlers[e] = Searx
        BY <1>7 DEF Handlers
    <2> QED
        BY <1>7, <2>1 DEF Searx, Levels, Strictness, Unrestricted, Fixed
<1>8. CASE e = "sepiasearch"
    <2>1. Handlers[e] = SepiaSearch
        BY <1>8 DEF Handlers
    <2> QED
        BY <1>8, <2>1 DEF SepiaSearch, Levels, Strictness, Unrestricted, Fixed
<1>9. CASE e = "startpage"
    <2>1. Handlers[e] = Startpage
        BY <1>9 DEF Handlers
    <2> QED
        BY <1>9, <2>1 DEF Startpage, Levels, Strictness, Unrestricted, Fixed
<1>10. CASE e = "wikipedia"
    <2>1. Handlers[e] = Wikipedia
        BY <1>10 DEF Handlers
    <2> QED
        BY <1>10, <2>1 DEF Wikipedia, Levels, Strictness, Unrestricted, Fixed
<1>11. CASE e = "yahoo"
    <2>1. Handlers[e] = Yahoo
        BY <1>11 DEF Handlers
    <2> QED
        BY <1>11, <2>1 DEF Yahoo, Levels, Strictness, Unrestricted, Fixed
<1> QED
    BY <1>1, <1>2, <1>3, <1>4, <1>5, <1>6,
       <1>7, <1>8, <1>9, <1>10, <1>11 DEF Handlers

\* The formats, and the one engine that panics over a link without href.
LEMMA FormatsOfEngines ==
    ASSUME NEW e \in DOMAIN Handlers
    PROVE  /\ Handlers[e].format \in {"html", "json"}
           /\ e = "yahoo" => Handlers[e].format = "html"
           /\ Handlers[e].href = "unwrap" => e = "bing"
<1>1. CASE e = "bing"
    <2>1. Handlers[e] = Bing
        BY <1>1 DEF Handlers
    <2> QED
        BY <1>1, <2>1 DEF Bing
<1>2. CASE e = "brave"
    <2>1. Handlers[e] = Brave
        BY <1>2 DEF Handlers
    <2> QED
        BY <1>2, <2>1 DEF Brave
<1>3. CASE e = "duckduckgo"
    <2>1. Handlers[e] = DuckDuckGo
        BY <1>3 DEF Handlers
    <2> QED
        BY <1>3, <2>1 DEF DuckDuckGo
<1>4. CASE e = "librex"
    <2>1. Handlers[e] = LibreX
        BY <1>4 DEF Handlers
    <2> QED
        BY <1>4, <2>1 DEF LibreX
<1>5. CASE e = "mojeek"
    <2>1. Handlers[e] = Mojeek
        BY <1>5 DEF Handlers
    <2> QED
        BY <1>5, <2>1 DEF Mojeek
<1>6. CASE e = "qwant"
    <2>1. Handlers[e] = Qwant
        BY <1>6 DEF Handlers
    <2> QED
        BY <1>6, <2>1 DEF Qwant
<1>7. CASE e = "searx"
    <2>1. Handlers[e] = Searx
        BY <1>7 DEF Handlers
    <2> QED
        BY <1>7, <2>1 DEF Searx
<1>8. CASE e = "sepiasearch"
    <2>1. Handlers[e] = SepiaSearch
        BY <1>8 DEF Handlers
    <2> QED
        BY <1>8, <2>1 DEF SepiaSearch
<1>9. CASE e = "startpage"
    <2>1. Handlers[e] = Startpage
        BY <1>9 DEF Handlers
    <2> QED
        BY <1>9, <2>1 DEF Startpage
<1>10. CASE e = "wikipedia"
    <2>1. Handlers[e] = Wikipedia
        BY <1>10 DEF Handlers
    <2> QED
        BY <1>10, <2>1 DEF Wikipedia
<1>11. CASE e = "yahoo"
    <2>1. Handlers[e] = Yahoo
        BY <1>11 DEF Handlers
    <2> QED
        BY <1>11, <2>1 DEF Yahoo
<1> QED
    BY <1>1, <1>2, <1>3, <1>4, <1>5, <1>6,
       <1>7, <1>8, <1>9, <1>10, <1>11 DEF Handlers

\* An upstream page has the body of its engine's format and items of its own.
LEMMA DocumentsOfEngines ==
    ASSUME NEW e \in DOMAIN Handlers, NEW doc \in Documents(e)
    PROVE  /\ doc.body = "html" => Handlers[e].format = "html"
           /\ doc.body = "json" => Handlers[e].format = "json"
           /\ doc.items \in Seq(Items(e))
<1>1. ASSUME NEW S, NEW n \in Nat, NEW s \in UpTo(S, n)
      PROVE  s \in Seq(S)
    <2>1. PICK m \in 0 .. n : s \in [1 .. m -> S]
        BY DEF UpTo
    <2> QED
        BY <2>1
<1>2. MaxItems[e] \in Nat
    BY MaxItemsAssumption
<1>3. <<>> \in Seq(Items(e))
    OBVIOUS
<1>4. CASE Handlers[e].format = "html"
    <2>1. doc.body = "html" /\ doc.items \in UpTo(Items(e), MaxItems[e])
        BY <1>4 DEF Documents
    <2> QED
        BY <1>1, <1>2, <1>4, <2>1
<1>5. CASE Handlers[e].format # "html"
    <2>1. \/ doc.body = "json" /\ doc.items \in UpTo(Items(e), MaxItems[e])
          \/ doc.body \in {"unreadable", "error"} /\ doc.items = <<>>
        BY <1>5 DEF Documents
    <2>2. Handlers[e].format = "json"
        BY <1>5, FormatsOfEngines
    <2> QED
        BY <1>1, <1>2, <1>3, <2>1, <2>2
<1> QED
    BY <1>4, <1>5

\* The items of a json answer are results or of another kind; a whole item of
\* Yahoo's has one of its links.
LEMMA ItemsOfEngines ==
    ASSUME NEW e \in DOMAIN Handlers, NEW item \in Items(e)
    PROVE  /\ Handlers[e].format = "json" => item.kind \in {"whole", "other"}
           /\ Handlers[e].format = "html" => item.kind # "other"
           /\ e = "yahoo" /\ item.kind = "whole" => item.link \in Links
<1>1. e = "yahoo" => Handlers[e].format = "html"
    BY FormatsOfEngines
<1>2. CASE e = "yahoo"
    BY <1>1, <1>2 DEF Items
<1>3. CASE e # "yahoo"
    <2>1. item.kind \in ItemKinds(e)
        BY <1>3 DEF Items
    <2> QED
        BY <1>3, <2>1 DEF ItemKinds
<1> QED
    BY <1>2, <1>3
-----------------------------------------------------------------------------
(* The requests.                                                           *)

LEMMA InitHolds == Init => EnginesInvariant
BY DEF Init, EnginesInvariant, WasSent

LEMMA StepKeeps == EnginesInvariant /\ [Next]_vars => EnginesInvariant'
<1> SUFFICES ASSUME EnginesInvariant, [Next]_vars
             PROVE  EnginesInvariant'
    OBVIOUS
<1>1. task' = task
    BY DEF Next, vars, Create, Request, UpstreamAnswers, RequestFails, Parse
<1>2. (RequestIsSent /\ sent' = sent) => RequestIsSent'
    BY <1>1 DEF RequestIsSent, engine, handler, Overflows, Start, PageParameter, Cut, Safe
<1>3. CASE Create
    BY <1>1, <1>3 DEF EnginesInvariant, Create, End, WasSent, engine
<1>4. CASE Request
    <2>1. CASE at' = "sent"
        <3>1. sent' = [page |-> PageParameter, safe |-> Safe(task.level)] /\ outcome' = outcome
            BY <1>4, <2>1 DEF Request, End
        <3>2. handler.checked => ~Overflows
            BY <1>4, <2>1 DEF Request, End
        <3>3. RequestIsSent'
            BY <1>1, <1>4, <3>1, <3>2
               DEF EnginesInvariant, RequestIsSent, Request, engine, handler, Overflows, Start,
                   PageParameter, Cut, Safe
        <3> QED
            BY <1>1, <1>4, <2>1, <3>1, <3>3 DEF EnginesInvariant, Request
    <2>2. CASE at' # "sent"
        BY <1>1, <1>4, <2>2 DEF EnginesInvariant, Request, End, WasSent
    <2> QED
        BY <2>1, <2>2
<1>5. CASE UpstreamAnswers
    BY <1>1, <1>2, <1>5 DEF EnginesInvariant, UpstreamAnswers, WasSent
<1>6. CASE RequestFails
    BY <1>1, <1>2, <1>6 DEF EnginesInvariant, RequestFails, End, WasSent
<1>7. CASE Parse
    BY <1>1, <1>2, <1>7 DEF EnginesInvariant, Parse, End, WasSent
<1>8. CASE UNCHANGED vars
    BY <1>1, <1>2, <1>8 DEF EnginesInvariant, vars, WasSent, engine
<1> QED
    BY <1>3, <1>4, <1>5, <1>6, <1>7, <1>8 DEF Next

LEMMA InvariantHolds == Spec => []EnginesInvariant
BY InitHolds, StepKeeps, PTL DEF Spec

-----------------------------------------------------------------------------
(* The properties.                                                         *)

LEMMA InvariantTiles == EnginesInvariant => PagesTile
<1> SUFFICES ASSUME EnginesInvariant, WasSent, handler.checked \/ ~Overflows, ~Cut
             PROVE  FirstResult = task.page * handler.per_page
    BY DEF PagesTile
<1>0. RequestIsSent /\ task.page \in Pages
    BY DEF EnginesInvariant
<1>1. task.page \in Nat
    <2>1. task.page \in 0 .. Modulus - 1
        BY <1>0, PagesAssumption
    <2> QED
        BY <2>1
<1>2. ~Overflows
    BY <1>0 DEF RequestIsSent
<1>3. /\ Start \in Nat
      /\ (Start - handler.first) * handler.unit = task.page * handler.per_page
      /\ 0 * handler.per_page = 0
    <2>1. engine \in DOMAIN Handlers
        BY <1>0 DEF RequestIsSent
    <2>2. handler = Handlers[engine]
        BY DEF handler
    <2>3. Start = handler.factor * task.page + handler.plus
        BY DEF Start
    <2> QED
        BY <1>1, <2>1, <2>2, <2>3, ParametersTile
<1>4. Start % Modulus = Start
    BY <1>2, <1>3, ModulusAssumption DEF Overflows
<1>5. sent.page = IF handler.omitted /\ task.page = 0 THEN {} ELSE {Start}
    BY <1>0, <1>4 DEF RequestIsSent, PageParameter
<1>6. CASE sent.page = {}
    <2>1. task.page = 0
        BY <1>5, <1>6
    <2> QED
        BY <1>3, <1>6, <2>1 DEF FirstResult
<1>7. CASE sent.page = {Start}
    <2>1. (CHOOSE n \in {Start} : TRUE) = Start
        OBVIOUS
    <2> QED
        BY <1>3, <1>7, <2>1 DEF FirstResult
<1> QED
    BY <1>5, <1>6, <1>7

LEMMA InvariantStricter == EnginesInvariant => StricterLevels
<1> SUFFICES ASSUME EnginesInvariant, WasSent
             PROVE  /\ \A l \in task.level .. 4 : sent.safe <= Safe(l)
                    /\ task.level >= 3 /\ engine # "qwant" =>
                         sent.safe \in Strictness /\ \A l \in Levels : Safe(l) <= sent.safe
                    /\ sent.safe \notin Strictness => engine = "qwant" /\ task.level >= 3
    BY DEF StricterLevels
<1>1. sent.safe = Safe(task.level) /\ engine \in DOMAIN Handlers /\ task.level \in Levels
    BY DEF EnginesInvariant, RequestIsSent
<1>2. ASSUME NEW k \in Levels, NEW l \in Levels
      PROVE  /\ k <= l => Safe(k) <= Safe(l)
             /\ l >= 3 /\ engine # "qwant" => Safe(l) \in Strictness /\ Safe(k) <= Safe(l)
             /\ Safe(l) \notin Strictness => engine = "qwant" /\ l >= 3
    <2>1. CASE Cut /\ engine = "searx"
        BY <2>1 DEF Safe, Strictness
    <2>2. CASE ~(Cut /\ engine = "searx")
        <3>1. Safe(k) = handler.safe[k] /\ Safe(l) = handler.safe[l]
            BY <2>2 DEF Safe
        <3> QED
            BY <1>1, <3>1, StrictnessGrows DEF handler
    <2> QED
        BY <2>1, <2>2
<1>3. ASSUME NEW l \in task.level .. 4
      PROVE  l \in Levels /\ task.level <= l
    BY <1>1 DEF Levels
<1> QED
    BY <1>1, <1>2, <1>3

-----------------------------------------------------------------------------
(* The reports.                                                            *)

\* The results of a page whose items were scraped.
LEMMA ScrapedResults ==
    ASSUME NEW e \in DOMAIN Handlers, NEW doc \in Documents(e), NEW found,
           found = [i \in DOMAIN Kept(doc.items) |->
                      [item |-> Kept(doc.items)[i], url |-> UrlOf(Kept(doc.items)[i])]]
    PROVE  /\ \E place \in [DOMAIN found -> DOMAIN doc.items] :
                /\ \A i, j \in DOMAIN found : i < j => place[i] < place[j]
                /\ \A i \in DOMAIN found : found[i].item = doc.items[place[i]]
                /\ \A n \in DOMAIN doc.items :
                     doc.items[n].kind = "whole" => \E i \in DOMAIN found : place[i] = n
           /\ \A i \in DOMAIN found :
                /\ found[i].item \in Items(e) /\ Scraped(found[i].item)
                /\ found[i].url = UrlOf(found[i].item)
<1> DEFINE items == doc.items
           kept == Kept(items)
<1>1. items \in Seq(Items(e)) /\ DOMAIN items = 1 .. Len(items)
    BY DocumentsOfEngines
<1>2. kept \in Seq(Items(e)) /\ InOrder(kept, items, Len(items))
    BY <1>1, KeptInOrder
<1>3. found = [i \in DOMAIN kept |-> [item |-> kept[i], url |-> UrlOf(kept[i])]]
    OBVIOUS
<1> HIDE DEF items, kept
<1>4. DOMAIN found = DOMAIN kept
    BY <1>3
<1>5. ASSUME NEW i \in DOMAIN kept
      PROVE  found[i].item = kept[i] /\ found[i].url = UrlOf(kept[i]) /\ kept[i] \in Items(e)
    <2>1. found[i] = [item |-> kept[i], url |-> UrlOf(kept[i])]
        BY <1>3
    <2>2. kept[i] \in Items(e)
        BY <1>2
    <2> QED
        BY <2>1, <2>2
<1>6. PICK place \in [DOMAIN kept -> 1 .. Len(items)] :
         /\ \A i, j \in DOMAIN kept : i < j => place[i] < place[j]
         /\ \A i \in DOMAIN kept : kept[i] = items[place[i]] /\ Scraped(kept[i])
         /\ \A k \in 1 .. Len(items) : Scraped(items[k]) => \E i \in DOMAIN kept : place[i] = k
    BY <1>2 DEF InOrder
<1>7. \A n \in DOMAIN items : items[n].kind = "whole" => Scraped(items[n])
    BY DEF Scraped
<1>8. /\ place \in [DOMAIN found -> DOMAIN items]
      /\ \A i, j \in DOMAIN found : i < j => place[i] < place[j]
      /\ \A i \in DOMAIN found : found[i].item = items[place[i]]
      /\ \A n \in DOMAIN items :
           items[n].kind = "whole" => \E i \in DOMAIN found : place[i] = n
    BY <1>1, <1>4, <1>5, <1>6, <1>7
<1>9. \A i \in DOMAIN found :
         /\ found[i].item \in Items(e) /\ Scraped(found[i].item)
         /\ found[i].url = UrlOf(found[i].item)
    BY <1>4, <1>5, <1>6
<1> QED
    BY <1>8, <1>9 DEF items

LEMMA ReportsInit == Init => ReportsInvariant
BY DEF Init, ReportsInvariant, OutcomesAreTruthful, RedirectsAreUndone, engine

LEMMA ReportsStep == ReportsInvariant /\ [Next]_vars => ReportsInvariant'
<1> SUFFICES ASSUME ReportsInvariant, [Next]_vars
             PROVE  ReportsInvariant'
    OBVIOUS
<1>1. task' = task /\ engine' = engine /\ handler' = handler
    BY DEF Next, vars, Create, Request, UpstreamAnswers, RequestFails, Parse, engine, handler
<1>2. ASSUME results' = <<>>
      PROVE  RedirectsAreUndone'
    BY <1>2 DEF RedirectsAreUndone
<1>3. ASSUME outcome' = "none"
      PROVE  OutcomesAreTruthful'
    BY <1>3 DEF OutcomesAreTruthful
<1>4. CASE Create
    <2>1. results' = <<>> /\ document' = document
        BY <1>4 DEF ReportsInvariant, Create
    <2>2. outcome' \in {"none", "NoSuchEngineFound"}
        BY <1>4 DEF ReportsInvariant, Create, End
    <2>3. OutcomesAreTruthful'
        BY <2>2 DEF OutcomesAreTruthful
    <2> QED
        BY <1>1, <1>2, <1>4, <2>1, <2>3 DEF ReportsInvariant, Create, End
<1>5. CASE Request
    <2>1. results' = <<>> /\ document' = NoDocument
        BY <1>5 DEF ReportsInvariant, Request
    <2>2. OutcomesAreTruthful'
        <3>1. CASE outcome' = "panic" /\ Overflows /\ task.profile = "dev"
            <4>1. Overflows'
                BY <1>1, <3>1 DEF Overflows, Start
            <4> QED
                BY <1>1, <2>1, <3>1, <4>1 DEF OutcomesAreTruthful
        <3>2. CASE outcome' = "UnexpectedError"
            BY <2>1, <3>2 DEF OutcomesAreTruthful, NoDocument
        <3>3. CASE outcome' = "none"
            BY <1>3, <3>3
        <3> QED
            BY <1>5, <3>1, <3>2, <3>3 DEF ReportsInvariant, Request, End
    <2> QED
        BY <1>1, <1>2, <1>5, <2>1, <2>2 DEF ReportsInvariant, Request, End
<1>6. CASE UpstreamAnswers
    <2>1. results' = <<>> /\ outcome' = "none" /\ document' \in Documents(engine)
        BY <1>6 DEF ReportsInvariant, UpstreamAnswers
    <2> QED
        BY <1>1, <1>2, <1>3, <1>6, <2>1 DEF ReportsInvariant, UpstreamAnswers
<1>7. CASE RequestFails
    <2>1. results' = <<>> /\ document' = NoDocument /\ outcome' \in {"UnexpectedError", "RequestError"}
        BY <1>7 DEF ReportsInvariant, RequestFails, End
    <2>2. OutcomesAreTruthful'
        BY <2>1 DEF OutcomesAreTruthful, NoDocument
    <2> QED
        BY <1>1, <1>2, <1>7, <2>1, <2>2 DEF ReportsInvariant, RequestFails, End
<1>8. CASE Parse
    <2>0. /\ engine \in DOMAIN Handlers /\ document \in Documents(engine) /\ document' = document
          /\ at' = "done"
        BY <1>8 DEF ReportsInvariant, Parse, End
    <2>1. /\ document.body = "html" => handler.format = "html"
          /\ document.body = "json" => handler.format = "json"
          /\ document.items \in Seq(Items(engine)) /\ DOMAIN document.items = 1 .. Len(document.items)
        BY <2>0, DocumentsOfEngines DEF handler
    <2>2. OutcomesAreTruthful' /\ RedirectsAreUndone'
        <3>1. CASE document.body \in {"unreadable", "error"} /\ End("UnexpectedError") /\ results' = results
            <4>1. results' = <<>> /\ outcome' = "UnexpectedError" /\ document'.body \notin {"html", "json"}
                BY <1>8, <2>0, <3>1 DEF ReportsInvariant, End, Parse
            <4> QED
                BY <1>2, <4>1 DEF OutcomesAreTruthful
        <3>2. CASE /\ document.body \in {"html", "json"} /\ NothingFound(document)
                   /\ End("EmptyResultSet") /\ results' = results
            <4>1. results' = <<>> /\ outcome' = "EmptyResultSet"
                BY <1>8, <3>2 DEF ReportsInvariant, End, Parse
            <4>2. CASE document.body = "html"
                <5>1. handler.format # "json"
                    BY <2>1, <4>2
                <5>2. document.notices # <<>>
                    BY <3>2, <5>1 DEF NothingFound
                <5> QED
                    BY <1>2, <2>0, <4>1, <4>2, <5>2 DEF OutcomesAreTruthful
            <4>3. CASE document.body = "json"
                <5>1. \A i \in DOMAIN document.items : document.items[i].kind # "whole"
                    BY <2>1, <3>2, <4>3 DEF NothingFound
                <5>2. \A i \in DOMAIN document.items : document.items[i].kind \in {"whole", "other"}
                    <6>1. \A i \in DOMAIN document.items : document.items[i] \in Items(engine)
                        BY <2>1
                    <6> QED
                        BY <2>0, <2>1, <4>3, <6>1, ItemsOfEngines DEF handler
                <5>3. \A i \in DOMAIN document'.items : document'.items[i].kind = "other"
                    BY <2>0, <5>1, <5>2
                <5> QED
                    BY <1>2, <2>0, <4>1, <4>3, <5>3 DEF OutcomesAreTruthful
            <4> QED
                BY <3>2, <4>2, <4>3
        <3>3. CASE Unwraps(document) /\ End("panic") /\ results' = results
            <4>1. results' = <<>> /\ outcome' = "panic"
                BY <1>8, <3>3 DEF ReportsInvariant, End, Parse
            <4>2. engine = "bing" /\ \E i \in DOMAIN document.items : document.items[i].kind = "no href"
                BY <2>0, <3>3, FormatsOfEngines DEF Unwraps, handler
            <4>3. engine' = "bing" /\ \E i \in DOMAIN document'.items : document'.items[i].kind = "no href"
                BY <1>1, <2>0, <4>2
            <4> QED
                BY <1>2, <4>1, <4>3 DEF OutcomesAreTruthful
        <3>4. CASE /\ document.body \in {"html", "json"} /\ ~NothingFound(document)
                   /\ End("results")
                   /\ LET kept == Kept(document.items)
                      IN  results' = [i \in DOMAIN kept |-> [item |-> kept[i], url |-> UrlOf(kept[i])]]
            <4>1. outcome' = "results"
                BY <3>4 DEF End
            <4>2. /\ \E place \in [DOMAIN results' -> DOMAIN document.items] :
                       /\ \A i, j \in DOMAIN results' : i < j => place[i] < place[j]
                       /\ \A i \in DOMAIN results' : results'[i].item = document.items[place[i]]
                       /\ \A n \in DOMAIN document.items :
                            document.items[n].kind = "whole" => \E i \in DOMAIN results' : place[i] = n
                  /\ \A i \in DOMAIN results' :
                       /\ results'[i].item \in Items(engine) /\ Scraped(results'[i].item)
                       /\ results'[i].url = UrlOf(results'[i].item)
                BY <2>0, <3>4, ScrapedResults
            <4>3. \A i \in DOMAIN results' : results'[i].item.kind \notin {"partial", "other"}
                BY <4>2 DEF Scraped
            <4>4. ASSUME handler.format = "json"
                  PROVE  results' # <<>>
                <5>1. PICK n \in DOMAIN document.items : document.items[n].kind = "whole"
                    BY <3>4, <4>4 DEF NothingFound
                <5>2. \E i \in DOMAIN results' : TRUE
                    BY <4>2, <5>1
                <5>3. DOMAIN <<>> = {}
                    OBVIOUS
                <5> QED
                    BY <5>2, <5>3
            <4>5. OutcomesAreTruthful'
                BY <1>1, <2>0, <3>4, <4>1, <4>2, <4>3, <4>4 DEF OutcomesAreTruthful
            <4>6. ASSUME engine = "yahoo", NEW i \in DOMAIN results', results'[i].item.kind = "whole"
                  PROVE  results'[i].url = IF Utf8(results'[i].item.link.target)
                                             THEN results'[i].item.link.target
                                             ELSE results'[i].item.link.raw
                <5>1. results'[i].item.link \in Links
                    BY <2>0, <4>2, <4>6, ItemsOfEngines
                <5>2. results'[i].url = parse_yahoo_redirect_url(results'[i].item.link.raw)
                    BY <4>2, <4>6 DEF UrlOf
                <5> QED
                    BY <5>1, <5>2, LinksAreFollowed
            <4>7. RedirectsAreUndone'
                BY <1>1, <4>6 DEF RedirectsAreUndone
            <4> QED
                BY <4>5, <4>7
        <3> QED
            BY <1>8, <3>1, <3>2, <3>3, <3>4 DEF Parse
    <2> QED
        BY <1>1, <1>8, <2>0, <2>2 DEF ReportsInvariant
<1>9. CASE UNCHANGED vars
    <2>1. OutcomesAreTruthful' /\ RedirectsAreUndone'
        BY <1>1, <1>9 DEF ReportsInvariant, OutcomesAreTruthful, RedirectsAreUndone, vars, Overflows, Start
    <2> QED
        BY <1>1, <1>9, <2>1 DEF ReportsInvariant, vars
<1> QED
    BY <1>4, <1>5, <1>6, <1>7, <1>8, <1>9 DEF Next

LEMMA ReportsHold == Spec => []ReportsInvariant
BY ReportsInit, ReportsStep, PTL DEF Spec

-----------------------------------------------------------------------------
\* Pages tile: whatever the width of the page number and whatever upstream
\* answered before, no engine of engines/ repeats or skips results from a page to
\* the next while its parameter does not overflow and no '#' cuts it off.
THEOREM PagesAlwaysTile == Spec => []PagesTile
BY InvariantHolds, InvariantTiles, PTL

\* Stricter levels: with every engine of engines/ a higher safe search level never
\* asks for less strictness, and levels 3 and 4 ask for the most the engine is ever
\* asked for, except that Qwant is sent at these two a number that is no strictness.
THEOREM LevelsAreMonotone == Spec => []StricterLevels
BY InvariantHolds, InvariantStricter, PTL

\* Outcomes: whatever upstream sends, in pages of any length, every engine of
\* engines/ reports results only with the items upstream sent, in order and none
\* left out, "no results" only when told so, and an error only when nothing was
\* read.
THEOREM OutcomesAreTrue == Spec => []OutcomesAreTruthful
BY ReportsHold, PTL DEF ReportsInvariant

\* Redirects: parse_yahoo_redirect_url finds the target of every redirect, of any
\* length and with any of its bytes encoded.
THEOREM RedirectsAreFollowed == Spec => []RedirectsAreUndone
BY ReportsHold, PTL DEF ReportsInvariant
=============================================================================
