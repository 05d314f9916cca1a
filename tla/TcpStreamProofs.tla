---------------------------- MODULE TcpStreamProofs ----------------------------
(****************************************************************************)
(* Proofs about TcpStream, for every buffer size, lengths and number of     *)
(* packages.  The loop of handle_qread_content and the bytes of several     *)
(* packages are recursive functions: what they compute is proved by the     *)
(* least number of which it would fail.  The stream is described place by   *)
(* place: which byte may follow which.                                      *)
(****************************************************************************)
EXTENDS TcpStream, TLAPS, SequenceTheorems, WellFoundedInduction

LEMMA QueueHasWriterInit == Init => QueueHasWriter
  BY DEF Init, QueueHasWriter

LEMMA QueueHasWriterStep ==
    ASSUME QueueHasWriter, [Next]_vars
    PROVE  QueueHasWriter'
  <1> USE DEF QueueHasWriter
  <1>1. CASE UNCHANGED vars
    BY <1>1 DEF vars, senderVars
  <1>2. ASSUME NEW len \in Lengths, Qsend(len) PROVE QueueHasWriter'
    BY <1>2 DEF Qsend, MustWait
  <1>3. CASE Transfer
    BY <1>3 DEF Transfer
  <1>4. CASE HandleQsentContent
    BY <1>4 DEF HandleQsentContent, AllSent
  <1>5. CASE SenderCloses
    BY <1>5 DEF SenderCloses
  <1>6. CASE ReadSome
    BY <1>6 DEF ReadSome, HandleQreadContent, senderVars
  <1>7. CASE ReaderCloses
    BY <1>7 DEF ReaderCloses, senderVars
  <1> QED
    BY <1>1, <1>2, <1>3, <1>4, <1>5, <1>6, <1>7 DEF Next

\* No package is left in the queue, and no part of one, without a write under way
\* whose completion goes on with it: however calls of qsend and completions follow
\* each other, the queue cannot stall.
THEOREM QueueHasWriterTheorem == Spec => []QueueHasWriter
  BY QueueHasWriterInit, QueueHasWriterStep, PTL DEF Spec

-----------------------------------------------------------------------------
(* Least numbers, and the rounds of the loop                                *)

LEMMA LeastNumber ==
    ASSUME NEW T, T \subseteq Nat, T # {}
    PROVE  Min(T) \in T /\ \A y \in T : Min(T) <= y
  <1> DEFINE R == OpToRel(<, Nat)
  <1>1. \A x, y \in Nat : x < y => <<x, y>> \in R
    BY DEF OpToRel
  <1>2. IsWellFoundedOn(R, Nat)
    BY NatLessThanWellFounded
  <1> HIDE DEF R
  <1>3. PICK x \in T : \A y \in T : ~(<<y, x>> \in R)
    BY <1>2, WFMin
  <1>4. \A y \in T : ~(y < x)
    BY <1>1, <1>3
  <1>5. \A y \in T : x <= y
    <2>1. x \in Nat /\ \A y \in T : y \in Nat
      OBVIOUS
    <2> QED
      BY <1>4, <2>1
  <1> QED
    BY <1>5 DEF Min

\* Of the numbers of which something fails, the least is 0 or comes after a number
\* of which it holds: induction over the numbers.
LEMMA FirstCounterexample ==
    ASSUME NEW T, T \subseteq Nat, T # {}
    PROVE  \E x \in T : x = 0 \/ (x - 1 \in Nat /\ x - 1 \notin T)
  <1>1. PICK x \in T : \A y \in T : x <= y
    BY LeastNumber
  <1>2. x \in Nat /\ (x # 0 => x - 1 \in Nat /\ ~(x <= x - 1))
    OBVIOUS
  <1> QED
    BY <1>1, <1>2

\* The start of the loop.
Start(buffer) == [buffer |-> buffer, handled |-> handled, loop |-> "on"]

\* rounds is a function as ReadPackages defines it, for m rounds.
AreRounds(rounds, buffer, m) ==
    rounds = [k \in 0 .. m |->
                 IF k = 0 THEN Start(buffer) ELSE ReadPackage(rounds[k - 1])]

LEMMA RoundsExist ==
    ASSUME NEW buffer, NEW n \in Nat
    PROVE  \E rounds : AreRounds(rounds, buffer, n)
  <1> DEFINE T == {m \in Nat : ~ \E rounds : AreRounds(rounds, buffer, m)}
  <1> SUFFICES ASSUME T # {} PROVE FALSE
    OBVIOUS
  <1>1. PICK x \in T : x = 0 \/ (x - 1 \in Nat /\ x - 1 \notin T)
    <2>1. T \subseteq Nat
      OBVIOUS
    <2> HIDE DEF T
    <2> QED
      BY <2>1, FirstCounterexample
  <1>2. x \in Nat /\ ~ \E rounds : AreRounds(rounds, buffer, x)
    OBVIOUS
  <1>3. CASE x = 0
    <2>1. AreRounds([k \in 0 .. 0 |-> Start(buffer)], buffer, 0)
      BY DEF AreRounds
    <2> QED
      BY <1>2, <1>3, <2>1
  <1>4. CASE x - 1 \in Nat /\ x - 1 \notin T
    <2>1. PICK rounds : AreRounds(rounds, buffer, x - 1)
      BY <1>4
    <2> DEFINE next == ReadPackage(rounds[x - 1])
               more == [k \in 0 .. x |-> IF k = x THEN next ELSE rounds[k]]
    <2>2. x # 0 /\ x - 1 < x
      BY <1>2, <1>4
    <2>3. more[x] = next /\ \A k \in 0 .. x - 1 : more[k] = rounds[k]
      BY <1>2, <2>2
    <2>4. \A k \in 0 .. x : more[k] = IF k = 0 THEN Start(buffer) ELSE ReadPackage(more[k - 1])
      <3> TAKE k \in 0 .. x
      <3>1. CASE k = x
        <4>1. more[x - 1] = rounds[x - 1]
          BY <1>4, <2>3
        <4> HIDE DEF more
        <4> QED
          BY <2>2, <2>3, <3>1, <4>1
      <3>2. CASE k # x
        <4>1. k \in 0 .. x - 1 /\ (k # 0 => k - 1 \in 0 .. x - 1)
          BY <1>2, <1>4, <3>2
        <4>2. rounds[k] = IF k = 0 THEN Start(buffer) ELSE ReadPackage(rounds[k - 1])
          BY <2>1, <4>1 DEF AreRounds
        <4>3. more[k] = rounds[k] /\ (k # 0 => more[k - 1] = rounds[k - 1])
          BY <2>3, <4>1
        <4> HIDE DEF more
        <4> QED
          BY <4>2, <4>3
      <3> QED
        BY <3>1, <3>2
    <2>5. AreRounds(more, buffer, x)
      <3>1. more = [k \in 0 .. x |-> more[k]]
        OBVIOUS
      <3> HIDE DEF more
      <3> QED
        BY <2>4, <3>1 DEF AreRounds
    <2> QED
      BY <1>2, <2>5
  <1> QED
    BY <1>1, <1>3, <1>4

\* What holds at the start of the loop and is kept by every round holds at its end.
LEMMA LoopInvariant ==
    ASSUME NEW buffer, Len(buffer) \in Nat, NEW I,
           Start(buffer) \in I, \A s \in I : ReadPackage(s) \in I
    PROVE  ReadPackages(buffer) \in I
  <1> DEFINE n == Len(buffer) \div 3 + 1
             P(r) == r = [k \in 0 .. n |->
                            IF k = 0 THEN [buffer |-> buffer, handled |-> handled, loop |-> "on"]
                            ELSE ReadPackage(r[k - 1])]
             rounds == CHOOSE r : P(r)
  <1>1. n \in Nat
    OBVIOUS
  <1>2. ReadPackages(buffer) = rounds[n]
    BY DEF ReadPackages
  <1>3. P(rounds)
    <2>1. \E r : P(r)
      <3> HIDE DEF n
      <3> QED
        BY <1>1, RoundsExist DEF AreRounds, Start
    <2> HIDE DEF P
    <2> QED
      BY <2>1
  <1> HIDE DEF rounds, n
  <1>4. \A k \in 0 .. n : rounds[k] = IF k = 0 THEN Start(buffer) ELSE ReadPackage(rounds[k - 1])
    BY <1>3 DEF Start
  <1> DEFINE T == {k \in Nat : k <= n /\ rounds[k] \notin I}
  <1>5. T = {}
    <2> SUFFICES ASSUME T # {} PROVE FALSE
      OBVIOUS
    <2>1. PICK x \in T : x = 0 \/ (x - 1 \in Nat /\ x - 1 \notin T)
      <3>1. T \subseteq Nat
        OBVIOUS
      <3> HIDE DEF T
      <3> QED
        BY <3>1, FirstCounterexample
    <2>2. x \in 0 .. n /\ rounds[x] \notin I
      BY <1>1
    <2>3. CASE x = 0
      BY <1>4, <2>2, <2>3
    <2>4. CASE x - 1 \in Nat /\ x - 1 \notin T
      <3>1. x - 1 <= n /\ x # 0
        BY <1>1, <2>2, <2>4
      <3>2. rounds[x - 1] \in I
        BY <2>4, <3>1
      <3> QED
        BY <1>4, <2>2, <3>1, <3>2
    <2> QED
      BY <2>1, <2>3, <2>4
  <1>6. n \in Nat /\ n <= n
    BY <1>1
  <1> QED
    BY <1>2, <1>5, <1>6

-----------------------------------------------------------------------------
(* extract_pkg                                                              *)

Byte == Nat \X Nat

\* p is the place of the first terminator of a buffer.
FirstEnd(buffer, p) ==
    /\ p \in 1 .. Len(buffer) - 1
    /\ buffer[p] = <<0, 1>> /\ buffer[p + 1] = <<0, 2>>
    /\ \A q \in 1 .. p - 1 : ~(buffer[q] = <<0, 1>> /\ buffer[q + 1] = <<0, 2>>)

LEMMA SubSeqOfBytes ==
    ASSUME NEW S, NEW s \in Seq(S), NEW m \in Nat \ {0}, NEW n \in 0 .. Len(s)
    PROVE  /\ SubSeq(s, m, n) \in Seq(S)
           /\ Len(SubSeq(s, m, n)) = IF m <= n THEN n - m + 1 ELSE 0
           /\ \A i \in 1 .. n - m + 1 : SubSeq(s, m, n)[i] = s[m + i - 1]
  <1>1. Len(s) \in Nat
    BY LenProperties
  <1>2. \A i \in m .. n : i \in 1 .. Len(s)
    BY <1>1
  <1>3. \A i \in m .. n : s[i] \in S
    BY <1>2, ElementOfSeq
  <1> QED
    BY <1>1, <1>3, SubSeqProperties

LEMMA TerminatorAt ==
    ASSUME NEW buffer \in Seq(Byte), NEW p \in 1 .. Len(buffer) - 1
    PROVE  SubSeq(buffer, p, p + 1) = Terminator <=>
               buffer[p] = <<0, 1>> /\ buffer[p + 1] = <<0, 2>>
  <1> DEFINE two == SubSeq(buffer, p, p + 1)
  <1>1. /\ Len(buffer) \in Nat /\ p \in Nat \ {0} /\ p + 1 \in 0 .. Len(buffer)
        /\ p + 1 - p + 1 = 2 /\ p + 1 - 1 = p /\ p + 2 - 1 = p + 1
    BY LenProperties
  <1>2. two \in Seq(Byte) /\ Len(two) = 2 /\ two[1] = buffer[p] /\ two[2] = buffer[p + 1]
    <2>1. /\ two \in Seq(Byte)
          /\ Len(two) = IF p <= p + 1 THEN p + 1 - p + 1 ELSE 0
          /\ \A i \in 1 .. p + 1 - p + 1 : two[i] = buffer[p + i - 1]
      BY <1>1, SubSeqOfBytes
    <2> HIDE DEF two
    <2>2. Len(two) = 2
      BY <1>1, <2>1
    <2>3. \A i \in 1 .. 2 : two[i] = buffer[p + i - 1]
      BY <1>1, <2>1
    <2>4. two[1] = buffer[p + 1 - 1] /\ two[2] = buffer[p + 2 - 1]
      BY <2>3
    <2> QED
      BY <1>1, <2>1, <2>2, <2>4
  <1>3. /\ Terminator \in Seq(Byte) /\ Len(Terminator) = 2
        /\ Terminator[1] = <<0, 1>> /\ Terminator[2] = <<0, 2>>
    BY DEF Terminator, Byte
  <1> HIDE DEF two
  <1>4. \A i \in 1 .. 2 : i = 1 \/ i = 2
    OBVIOUS
  <1>5. ASSUME two[1] = Terminator[1], two[2] = Terminator[2] PROVE two = Terminator
    BY <1>2, <1>3, <1>4, <1>5, SeqEqual
  <1> QED
    BY <1>2, <1>3, <1>5 DEF two

\* It cuts the buffer at its first terminator, if there is one.
LEMMA ExtractCuts ==
    ASSUME NEW buffer \in Seq(Byte)
    PROVE  LET cut == ExtractPkg(buffer)
           IN  /\ cut = [pkg |-> cut.pkg, rest |-> cut.rest]
               /\ cut.pkg \in Seq(Byte) /\ cut.rest \in Seq(Byte)
               /\ \/ cut.pkg = <<>> /\ cut.rest = buffer
                  \/ /\ \E p : /\ FirstEnd(buffer, p)
                               /\ cut.pkg = SubSeq(buffer, 1, p - 1)
                               /\ cut.rest = SubSeq(buffer, p + 2, Len(buffer))
                     /\ buffer = cut.pkg \o Terminator \o cut.rest
  <1> DEFINE ends == {p \in 1 .. Len(buffer) - 1 : SubSeq(buffer, p, p + 1) = Terminator}
             cut == ExtractPkg(buffer)
             m == Min(ends)
  <1>1. Len(buffer) \in Nat
    BY LenProperties
  <1>2. CASE ends = {}
    <2>1. cut = [pkg |-> <<>>, rest |-> buffer]
      BY <1>2 DEF ExtractPkg
    <2> QED
      BY <2>1, EmptySeq
  <1>3. CASE ends # {}
    <2>1. m \in ends /\ \A y \in ends : m <= y
      <3>1. ends \subseteq Nat
        OBVIOUS
      <3> HIDE DEF ends
      <3> QED
        BY <1>3, <3>1, LeastNumber
    <2>2. cut = [pkg |-> SubSeq(buffer, 1, m - 1), rest |-> SubSeq(buffer, m + 2, Len(buffer))]
      BY <1>3 DEF ExtractPkg
    <2> HIDE DEF m
    <2>3. FirstEnd(buffer, m)
      <3>1. m \in 1 .. Len(buffer) - 1 /\ SubSeq(buffer, m, m + 1) = Terminator
        BY <2>1
      <3>2. buffer[m] = <<0, 1>> /\ buffer[m + 1] = <<0, 2>>
        BY <3>1, TerminatorAt
      <3>3. ASSUME NEW q \in 1 .. m - 1, buffer[q] = <<0, 1>>, buffer[q + 1] = <<0, 2>>
            PROVE  FALSE
        <4>1. q \in 1 .. Len(buffer) - 1 /\ ~(m <= q)
          BY <1>1, <3>1
        <4>2. SubSeq(buffer, q, q + 1) = Terminator
          BY <3>3, <4>1, TerminatorAt
        <4> QED
          BY <2>1, <4>1, <4>2
      <3> QED
        BY <3>1, <3>2, <3>3 DEF FirstEnd
    <2>4. /\ m \in Nat \ {0} /\ m - 1 \in 0 .. Len(buffer) /\ m + 2 \in Nat \ {0}
          /\ m + 1 \in 0 .. Len(buffer) /\ Len(buffer) \in 0 .. Len(buffer)
      BY <1>1, <2>1
    <2> DEFINE a == SubSeq(buffer, 1, m - 1)
               b == SubSeq(buffer, m, m + 1)
               c == SubSeq(buffer, m + 2, Len(buffer))
    <2>5. a \in Seq(Byte) /\ c \in Seq(Byte)
      BY <2>4, SubSeqOfBytes
    <2>6. a \o b = SubSeq(buffer, 1, m + 1)
      <3>1. 1 \in 1 .. Len(buffer) + 1 /\ m - 1 \in 1 - 1 .. Len(buffer)
            /\ m + 1 \in m - 1 .. Len(buffer) /\ m - 1 + 1 = m
        BY <1>1, <2>4
      <3>2. SubSeq(buffer, 1, m - 1) \o SubSeq(buffer, m - 1 + 1, m + 1) = SubSeq(buffer, 1, m + 1)
        BY <3>1, ConcatAdjacentSubSeq
      <3> QED
        BY <3>1, <3>2
    <2>7. a \o b \o c = buffer
      <3>1. 1 \in 1 .. Len(buffer) + 1 /\ m + 1 \in 1 - 1 .. Len(buffer)
            /\ Len(buffer) \in m + 1 .. Len(buffer) /\ m + 1 + 1 = m + 2
        BY <1>1, <2>4
      <3>2. SubSeq(buffer, 1, m + 1) \o SubSeq(buffer, m + 1 + 1, Len(buffer)) =
                SubSeq(buffer, 1, Len(buffer))
        BY <3>1, ConcatAdjacentSubSeq
      <3> HIDE DEF a, b
      <3> QED
        BY <2>6, <3>1, <3>2, SubSeqFull
    <2>8. b = Terminator
      BY <2>1
    <2>9. cut = [pkg |-> a, rest |-> c]
      BY <2>2
    <2> HIDE DEF a, b, c, cut
    <2>10. cut.pkg = a /\ cut.rest = c
      BY <2>9
    <2>11. buffer = cut.pkg \o Terminator \o cut.rest
      BY <2>7, <2>8, <2>10
    <2>12. cut.pkg = SubSeq(buffer, 1, m - 1) /\ cut.rest = SubSeq(buffer, m + 2, Len(buffer))
      BY <2>10 DEF a, c
    <2> QED
      BY <2>3, <2>5, <2>9, <2>10, <2>11, <2>12 DEF cut
  <1> QED
    BY <1>2, <1>3

-----------------------------------------------------------------------------
(* The stream of bytes, place by place                                      *)

\* The place that follows place k of a package of len bytes in what the writes send;
\* none, 0, at the end of the package and where the end of it is lost.
After(len, k) ==
    IF k = len \/ (k = MaxBuffer /\ MaxBuffer < len /\ len <= 2 * MaxBuffer) THEN 0
    ELSE IF k = MaxBuffer THEN 2 * MaxBuffer + 1 ELSE k + 1

\* The byte that follows one of the packages acc.
Successor(byte, acc) ==
    LET next == After(Len(acc[byte[1]]), byte[2])
    IN  IF next = 0 THEN <<0, 1>> ELSE <<byte[1], next>>

\* What may follow the byte at p: the next that is sent of its package, or the
\* terminator; after the terminator the first byte of the next package.
FollowedBy(B, p, acc) ==
    \/ B[p][1] # 0 /\ B[p + 1] = Successor(B[p], acc)
    \/ B[p] = <<0, 1>> /\ B[p + 1] = <<0, 2>>
    \/ /\ p >= 3 /\ B[p] = <<0, 2>> /\ B[p - 1] = <<0, 1>> /\ B[p - 2][1] # 0
       /\ B[p + 1] = <<B[p - 2][1] + 1, 1>>

\* A byte of a package of acc, or of the terminator.
IsOf(byte, acc) == byte[1] \in 1 .. Len(acc) \/ byte = <<0, 1>> \/ byte = <<0, 2>>

\* B begins with package h + 1 of acc and goes on with those that follow it.
WellFormed(B, h, acc) ==
    /\ B # <<>> => B[1] = <<h + 1, 1>>
    /\ \A p \in 1 .. Len(B) : IsOf(B[p], acc)
    /\ \A p \in 1 .. Len(B) - 1 : FollowedBy(B, p, acc)

\* B ends with the terminator of package i, or with place k of package i.
EndsAfter(B, h, i) ==
    IF B = <<>> THEN h = i
    ELSE /\ i # 0
         /\ Len(B) >= 3
         /\ B[Len(B)] = <<0, 2>> /\ B[Len(B) - 1] = <<0, 1>> /\ B[Len(B) - 2][1] = i
EndsWithin(B, i, k) == B # <<>> /\ B[Len(B)] = <<i, k>> /\ i # 0

LEMMA NotEmpty ==
    ASSUME NEW S, NEW s \in Seq(S)
    PROVE  /\ Len(s) \in Nat
           /\ s # <<>> <=> Len(s) >= 1
  BY EmptySeq, LenProperties

\* One sequence after the other, place by place.
LEMMA Joined ==
    ASSUME NEW S, NEW s \in Seq(S), NEW t \in Seq(S)
    PROVE  /\ s \o t \in Seq(S) /\ Len(s) \in Nat /\ Len(t) \in Nat
           /\ Len(s \o t) = Len(s) + Len(t)
           /\ \A k \in 1 .. Len(s) : (s \o t)[k] = s[k]
           /\ \A k \in 1 .. Len(t) : (s \o t)[Len(s) + k] = t[k]
  BY ConcatProperties, LenProperties

\* What FollowedBy says of a place depends on that place, the two before it and the
\* one after it.
LEMMA FollowedBySame ==
    ASSUME NEW B, NEW C, NEW p \in Nat \ {0}, NEW acc, B[p] = C[p], B[p + 1] = C[p + 1],
           p >= 3 => B[p - 1] = C[p - 1] /\ B[p - 2] = C[p - 2], FollowedBy(B, p, acc)
    PROVE  FollowedBy(C, p, acc)
  BY DEF FollowedBy

LEMMA PrefixWellFormed ==
    ASSUME NEW B \in Seq(Byte), NEW C \in Seq(Byte), NEW h, NEW acc, WellFormed(B \o C, h, acc)
    PROVE  WellFormed(B, h, acc)
  <1> DEFINE D == B \o C
  <1>1. /\ Len(B) \in Nat /\ Len(C) \in Nat /\ Len(D) = Len(B) + Len(C) /\ D \in Seq(Byte)
        /\ \A k \in 1 .. Len(B) : D[k] = B[k]
    BY Joined
  <1>2. WellFormed(D, h, acc)
    OBVIOUS
  <1> HIDE DEF D
  <1>3. B # <<>> => B[1] = <<h + 1, 1>>
    <2>1. B # <<>> => Len(B) >= 1 /\ D # <<>> /\ 1 \in 1 .. Len(B)
      BY <1>1, NotEmpty
    <2> QED
      BY <1>1, <1>2, <2>1 DEF WellFormed
  <1>4. \A p \in 1 .. Len(B) : IsOf(B[p], acc)
    <2>1. \A p \in 1 .. Len(B) : p \in 1 .. Len(D)
      BY <1>1
    <2> QED
      BY <1>1, <1>2, <2>1 DEF WellFormed
  <1>5. ASSUME NEW p \in 1 .. Len(B) - 1 PROVE FollowedBy(B, p, acc)
    <2>1. /\ p \in 1 .. Len(D) - 1 /\ p \in Nat \ {0}
          /\ p \in 1 .. Len(B) /\ p + 1 \in 1 .. Len(B)
          /\ p >= 3 => p - 1 \in 1 .. Len(B) /\ p - 2 \in 1 .. Len(B)
      BY <1>1
    <2>2. FollowedBy(D, p, acc)
      BY <1>2, <2>1 DEF WellFormed
    <2> QED
      BY <1>1, <2>1, <2>2, FollowedBySame
  <1> QED
    BY <1>3, <1>4, <1>5 DEF WellFormed

\* Bytes are added to the stream: it is well-formed if they are, place by place.
LEMMA AddedWellFormed ==
    ASSUME NEW B \in Seq(Byte), NEW C \in Seq(Byte), NEW h, NEW acc, WellFormed(B, h, acc),
           B = <<>> /\ C # <<>> => C[1] = <<h + 1, 1>>,
           \A k \in 1 .. Len(C) : IsOf(C[k], acc),
           \A p \in 1 .. Len(B \o C) - 1 : p >= Len(B) => FollowedBy(B \o C, p, acc)
    PROVE  WellFormed(B \o C, h, acc)
  <1> DEFINE D == B \o C
  <1>1. /\ Len(B) \in Nat /\ Len(C) \in Nat /\ Len(D) = Len(B) + Len(C) /\ D \in Seq(Byte)
        /\ \A k \in 1 .. Len(B) : D[k] = B[k]
        /\ \A k \in 1 .. Len(C) : D[Len(B) + k] = C[k]
    BY Joined
  <1>2. \A p \in 1 .. Len(D) - 1 : p >= Len(B) => FollowedBy(D, p, acc)
    OBVIOUS
  <1> HIDE DEF D
  <1>3. D # <<>> => D[1] = <<h + 1, 1>>
    <2>1. CASE B # <<>>
      <3>1. 1 \in 1 .. Len(B)
        BY <1>1, <2>1, NotEmpty
      <3> QED
        BY <1>1, <2>1, <3>1 DEF WellFormed
    <2>2. CASE B = <<>> /\ D # <<>>
      <3>1. Len(B) = 0 /\ 1 \in 1 .. Len(C) /\ C # <<>> /\ Len(B) + 1 = 1
        BY <1>1, <2>2, NotEmpty, EmptySeq
      <3>2. D[Len(B) + 1] = C[1]
        BY <1>1, <3>1
      <3> QED
        BY <2>2, <3>1, <3>2
    <2> QED
      BY <2>1, <2>2
  <1>4. ASSUME NEW p \in 1 .. Len(D)
        PROVE  IsOf(D[p], acc)
    <2>1. CASE p <= Len(B)
      <3>1. p \in 1 .. Len(B)
        BY <1>1, <2>1
      <3> QED
        BY <1>1, <3>1 DEF WellFormed
    <2>2. CASE p > Len(B)
      <3> DEFINE k == p - Len(B)
      <3>1. k \in 1 .. Len(C) /\ Len(B) + k = p
        BY <1>1, <2>2
      <3> HIDE DEF k
      <3>2. D[p] = C[k]
        BY <1>1, <3>1
      <3> QED
        BY <3>1, <3>2
    <2> QED
      BY <1>1, <2>1, <2>2
  <1>5. ASSUME NEW p \in 1 .. Len(D) - 1 PROVE FollowedBy(D, p, acc)
    <2>1. CASE p >= Len(B)
      BY <1>2, <2>1
    <2>2. CASE ~(p >= Len(B))
      <3>1. /\ p \in 1 .. Len(B) - 1 /\ p \in Nat \ {0}
            /\ p \in 1 .. Len(B) /\ p + 1 \in 1 .. Len(B)
            /\ p >= 3 => p - 1 \in 1 .. Len(B) /\ p - 2 \in 1 .. Len(B)
        BY <1>1, <2>2
      <3>2. FollowedBy(B, p, acc)
        BY <3>1 DEF WellFormed
      <3> QED
        BY <1>1, <3>1, <3>2, FollowedBySame
    <2> QED
      BY <2>1, <2>2
  <1> QED
    BY <1>3, <1>4, <1>5 DEF WellFormed, D

\* More bytes of the package the stream ends within, from place c + 1 on.
LEMMA GoOn ==
    ASSUME NEW B \in Seq(Byte), NEW C \in Seq(Byte), NEW h, NEW i, NEW k, NEW c \in Nat,
           NEW acc, i \in 1 .. Len(acc),
           WellFormed(B, h, acc), EndsWithin(B, i, k), C # <<>>,
           After(Len(acc[i]), k) = c + 1,
           \A j \in 1 .. Len(C) : C[j] = <<i, c + j>>,
           \A j \in 1 .. Len(C) - 1 : After(Len(acc[i]), c + j) = c + j + 1
    PROVE  WellFormed(B \o C, h, acc) /\ EndsWithin(B \o C, i, c + Len(C))
  <1> DEFINE D == B \o C
  <1>1. /\ Len(B) \in Nat /\ Len(C) \in Nat /\ Len(D) = Len(B) + Len(C) /\ D \in Seq(Byte)
        /\ \A j \in 1 .. Len(B) : D[j] = B[j]
        /\ \A j \in 1 .. Len(C) : D[Len(B) + j] = C[j]
        /\ Len(B) >= 1 /\ Len(C) >= 1
    BY Joined, NotEmpty DEF EndsWithin
  <1> HIDE DEF D
  <1>2. i # 0 /\ D[Len(B)] = <<i, k>>
    <2>1. Len(B) \in 1 .. Len(B)
      BY <1>1
    <2> QED
      BY <1>1, <2>1 DEF EndsWithin
  <1>3. \A j \in 1 .. Len(C) : D[Len(B) + j] = <<i, c + j>>
    BY <1>1
  <1>4. \A p \in 1 .. Len(D) - 1 : p >= Len(B) => FollowedBy(D, p, acc)
    <2> SUFFICES ASSUME NEW p \in 1 .. Len(D) - 1, p >= Len(B) PROVE FollowedBy(D, p, acc)
      OBVIOUS
    <2>1. CASE p = Len(B)
      <3>1. 1 \in 1 .. Len(C)
        BY <1>1
      <3>2. D[p + 1] = <<i, c + 1>>
        BY <1>3, <2>1, <3>1
      <3>3. D[p][1] = i /\ D[p][2] = k
        BY <1>2, <2>1
      <3>4. Successor(D[p], acc) = <<i, c + 1>>
        BY <3>3 DEF Successor
      <3> QED
        BY <1>2, <3>2, <3>3, <3>4 DEF FollowedBy
    <2>2. CASE p # Len(B)
      <3> DEFINE j == p - Len(B)
      <3>1. /\ Len(B) \in Nat /\ Len(C) \in Nat /\ p \in Nat /\ p > Len(B)
            /\ p <= Len(B) + Len(C) - 1
        BY <1>1, <2>2
      <3>2. j \in 1 .. Len(C) - 1 /\ j \in 1 .. Len(C) /\ j + 1 \in 1 .. Len(C)
            /\ Len(B) + j = p /\ Len(B) + (j + 1) = p + 1 /\ c + (j + 1) = c + j + 1
            /\ c + j + 1 # 0
        BY <3>1
      <3> HIDE DEF j
      <3>3. D[p] = <<i, c + j>> /\ D[p + 1] = <<i, c + j + 1>>
        BY <1>3, <3>2
      <3>4. After(Len(acc[i]), c + j) = c + j + 1
        BY <3>2
      <3>5. D[p][1] = i /\ D[p][2] = c + j
        BY <3>3
      <3>6. Successor(D[p], acc) = <<i, c + j + 1>>
        BY <3>2, <3>4, <3>5 DEF Successor
      <3> QED
        BY <1>2, <3>3, <3>5, <3>6 DEF FollowedBy
    <2> QED
      BY <2>1, <2>2
  <1>5. WellFormed(D, h, acc)
    <2>1. B # <<>>
      BY DEF EndsWithin
    <2>2. \A j \in 1 .. Len(C) : IsOf(C[j], acc)
      BY DEF IsOf
    <2> QED
      BY <1>4, <2>1, <2>2, AddedWellFormed DEF D
  <1>6. EndsWithin(D, i, c + Len(C))
    <2>1. Len(C) \in 1 .. Len(C) /\ Len(D) = Len(B) + Len(C) /\ Len(D) >= 1
      BY <1>1
    <2>2. D[Len(D)] = <<i, c + Len(C)>>
      BY <1>3, <2>1
    <2> QED
      BY <1>1, <1>2, <2>1, <2>2, NotEmpty DEF EndsWithin
  <1> QED
    BY <1>5, <1>6 DEF D

LEMMA TerminatorType ==
    /\ Terminator \in Seq(Byte) /\ Len(Terminator) = 2
    /\ Terminator[1] = <<0, 1>> /\ Terminator[2] = <<0, 2>>
  BY DEF Terminator, Byte

\* The terminator of that package.
LEMMA Terminate ==
    ASSUME NEW B \in Seq(Byte), NEW h, NEW i, NEW k, NEW acc,
           WellFormed(B, h, acc), EndsWithin(B, i, k), After(Len(acc[i]), k) = 0
    PROVE  WellFormed(B \o Terminator, h, acc) /\ EndsAfter(B \o Terminator, h, i)
  <1> DEFINE D == B \o Terminator
  <1>1. /\ Len(B) \in Nat /\ Len(D) = Len(B) + 2 /\ D \in Seq(Byte) /\ Len(B) >= 1
        /\ \A j \in 1 .. Len(B) : D[j] = B[j]
        /\ \A j \in 1 .. 2 : D[Len(B) + j] = Terminator[j]
    <2>1. B # <<>> /\ Terminator \in Seq(Byte) /\ Len(Terminator) = 2
      BY TerminatorType DEF EndsWithin
    <2>2. Len(B) \in Nat /\ Len(B) >= 1
      BY <2>1, NotEmpty
    <2>3. /\ D \in Seq(Byte) /\ Len(D) = Len(B) + Len(Terminator)
          /\ \A j \in 1 .. Len(B) : D[j] = B[j]
          /\ \A j \in 1 .. Len(Terminator) : D[Len(B) + j] = Terminator[j]
      <3>1. B \in Seq(Byte) /\ Terminator \in Seq(Byte)
        BY <2>1
      <3> QED
        BY <3>1, Joined
    <2> HIDE DEF D
    <2> QED
      BY <2>1, <2>2, <2>3
  <1> HIDE DEF D
  <1>2. /\ D[Len(B)] = <<i, k>> /\ D[Len(B)][1] = i /\ D[Len(B)][2] = k /\ i # 0
        /\ D[Len(B) + 1] = <<0, 1>> /\ D[Len(B) + 2] = <<0, 2>>
    <2>1. Len(B) \in 1 .. Len(B) /\ 1 \in 1 .. 2 /\ 2 \in 1 .. 2
      BY <1>1
    <2>2. D[Len(B)] = <<i, k>> /\ i # 0
      BY <1>1, <2>1 DEF EndsWithin
    <2> QED
      BY <1>1, <2>1, <2>2, TerminatorType
  <1>3. \A p \in 1 .. Len(D) - 1 : p >= Len(B) => FollowedBy(D, p, acc)
    <2> SUFFICES ASSUME NEW p \in 1 .. Len(D) - 1, p >= Len(B) PROVE FollowedBy(D, p, acc)
      OBVIOUS
    <2>1. p = Len(B) \/ (p = Len(B) + 1 /\ p + 1 = Len(B) + 2)
      BY <1>1
    <2>2. Successor(D[Len(B)], acc) = <<0, 1>>
      BY <1>2 DEF Successor
    <2> QED
      BY <1>2, <2>1, <2>2 DEF FollowedBy
  <1>4. WellFormed(D, h, acc)
    <2>1. B # <<>>
      BY DEF EndsWithin
    <2>2. \A j \in 1 .. 2 : j = 1 \/ j = 2
      OBVIOUS
    <2>3. \A j \in 1 .. Len(Terminator) : IsOf(Terminator[j], acc)
      BY <2>2, TerminatorType DEF IsOf
    <2> QED
      BY <1>3, <2>1, <2>3, TerminatorType, AddedWellFormed DEF D
  <1>5. EndsAfter(D, h, i)
    <2>1. /\ D # <<>> /\ Len(D) >= 3 /\ Len(D) = Len(B) + 2 /\ Len(D) - 1 = Len(B) + 1
          /\ Len(D) - 2 = Len(B)
      BY <1>1, NotEmpty
    <2> QED
      BY <1>2, <2>1 DEF EndsAfter
  <1> QED
    BY <1>4, <1>5 DEF D

\* The first bytes of the next package.
LEMMA Begin ==
    ASSUME NEW B \in Seq(Byte), NEW C \in Seq(Byte), NEW h, NEW i \in Nat,
           NEW acc, i + 1 \in 1 .. Len(acc),
           WellFormed(B, h, acc), EndsAfter(B, h, i), C # <<>>,
           \A j \in 1 .. Len(C) : C[j] = <<i + 1, j>>,
           \A j \in 1 .. Len(C) - 1 : After(Len(acc[i + 1]), j) = j + 1
    PROVE  WellFormed(B \o C, h, acc) /\ EndsWithin(B \o C, i + 1, Len(C))
  <1> DEFINE D == B \o C
  <1>1. /\ Len(B) \in Nat /\ Len(C) \in Nat /\ Len(D) = Len(B) + Len(C) /\ D \in Seq(Byte)
        /\ \A j \in 1 .. Len(B) : D[j] = B[j]
        /\ \A j \in 1 .. Len(C) : D[Len(B) + j] = C[j]
        /\ Len(C) >= 1
    BY Joined, NotEmpty
  <1> HIDE DEF D
  <1>2. i + 1 # 0
    OBVIOUS
  <1>3. \A j \in 1 .. Len(C) : D[Len(B) + j] = <<i + 1, j>>
    BY <1>1
  <1>4. \A p \in 1 .. Len(D) - 1 : p >= Len(B) => FollowedBy(D, p, acc)
    <2> SUFFICES ASSUME NEW p \in 1 .. Len(D) - 1, p >= Len(B) PROVE FollowedBy(D, p, acc)
      OBVIOUS
    <2>1. CASE p > Len(B)
      <3> DEFINE j == p - Len(B)
      <3>1. j \in 1 .. Len(C) - 1 /\ j \in 1 .. Len(C) /\ j + 1 \in 1 .. Len(C)
            /\ Len(B) + j = p /\ Len(B) + (j + 1) = p + 1 /\ j + 1 # 0
        BY <1>1, <2>1
      <3> HIDE DEF j
      <3>2. D[p] = <<i + 1, j>> /\ D[p + 1] = <<i + 1, j + 1>>
        BY <1>3, <3>1
      <3>3. After(Len(acc[i + 1]), j) = j + 1
        BY <3>1
      <3>4. D[p][1] = i + 1 /\ D[p][2] = j
        BY <3>2
      <3>5. Successor(D[p], acc) = <<i + 1, j + 1>>
        BY <3>1, <3>3, <3>4 DEF Successor
      <3> QED
        BY <1>2, <3>2, <3>4, <3>5 DEF FollowedBy
    <2>2. CASE p = Len(B)
      <3>1. B # <<>> /\ p >= 1
        BY <1>1, <2>2, NotEmpty
      <3>2. /\ Len(B) >= 3 /\ B[p] = <<0, 2>> /\ B[p - 1] = <<0, 1>> /\ B[p - 2][1] = i
            /\ i # 0
        BY <2>2, <3>1 DEF EndsAfter
      <3>3. /\ p \in 1 .. Len(B) /\ p - 1 \in 1 .. Len(B) /\ p - 2 \in 1 .. Len(B)
            /\ 1 \in 1 .. Len(C)
        BY <1>1, <2>2, <3>2
      <3>4. /\ D[p] = <<0, 2>> /\ D[p - 1] = <<0, 1>> /\ D[p - 2][1] = i
            /\ D[p + 1] = <<i + 1, 1>>
        BY <1>1, <1>3, <2>2, <3>2, <3>3
      <3> QED
        BY <2>2, <3>1, <3>2, <3>4 DEF FollowedBy
    <2> QED
      BY <1>1, <2>1, <2>2
  <1>5. WellFormed(D, h, acc)
    <2>1. B = <<>> => C[1] = <<h + 1, 1>>
      <3>1. 1 \in 1 .. Len(C)
        BY <1>1
      <3> QED
        BY <3>1 DEF EndsAfter
    <2>2. \A j \in 1 .. Len(C) : IsOf(C[j], acc)
      BY DEF IsOf
    <2> QED
      BY <1>4, <2>1, <2>2, AddedWellFormed DEF D
  <1>6. EndsWithin(D, i + 1, Len(C))
    <2>1. Len(C) \in 1 .. Len(C) /\ Len(D) = Len(B) + Len(C) /\ Len(D) >= 1
      BY <1>1
    <2>2. D[Len(D)] = <<i + 1, Len(C)>>
      BY <1>3, <2>1
    <2> QED
      BY <1>1, <1>2, <2>1, <2>2, NotEmpty DEF EndsWithin
  <1> QED
    BY <1>5, <1>6 DEF D

\* Place q of what the writes send of a package is this place of the package.
PlaceOf(q) == IF q <= MaxBuffer THEN q ELSE q + MaxBuffer

LEMMA AfterPlace ==
    ASSUME NEW len \in Nat, NEW q \in Nat \ {0}
    PROVE  /\ After(len, PlaceOf(q)) = 0 \/ After(len, PlaceOf(q)) = PlaceOf(q + 1)
           /\ After(len, PlaceOf(q)) = 0 =>
                 \/ q = len /\ len <= MaxBuffer
                 \/ q = MaxBuffer /\ MaxBuffer < len /\ len <= 2 * MaxBuffer
                 \/ q + MaxBuffer = len /\ len > 2 * MaxBuffer
  BY MaxBufferAssumption DEF After, PlaceOf

\* The bytes before the first terminator are those that the writes send of the
\* package the stream begins with, to the last.
LEMMA FirstPackage ==
    ASSUME NEW B \in Seq(Byte), NEW h \in Nat, NEW acc, WellFormed(B, h, acc),
           NEW p, FirstEnd(B, p), \A i \in 1 .. Len(acc) : Len(acc[i]) \in Nat
    PROVE  /\ p >= 2 /\ h + 1 \in 1 .. Len(acc)
           /\ \A q \in 1 .. p - 1 : B[q] = <<h + 1, PlaceOf(q)>>
           /\ After(Len(acc[h + 1]), PlaceOf(p - 1)) = 0
  <1>1. /\ Len(B) \in Nat /\ p \in 1 .. Len(B) - 1 /\ B[p] = <<0, 1>>
        /\ \A q \in 1 .. p - 1 : ~(B[q] = <<0, 1>> /\ B[q + 1] = <<0, 2>>)
    BY LenProperties DEF FirstEnd
  <1>2. B[1] = <<h + 1, 1>>
    <2>1. Len(B) >= 1
      BY <1>1
    <2> QED
      BY <2>1, NotEmpty DEF WellFormed
  <1>3. h + 1 # 0 /\ B[1][1] = h + 1
    BY <1>2
  <1> DEFINE len == Len(acc[h + 1])
  <1>4. p >= 2 /\ h + 1 \in 1 .. Len(acc) /\ len \in Nat
    <2>1. p # 1
      BY <1>1, <1>3
    <2>2. h + 1 \in 1 .. Len(acc)
      <3>1. 1 \in 1 .. Len(B)
        BY <1>1
      <3>2. IsOf(B[1], acc)
        BY <3>1 DEF WellFormed
      <3> QED
        BY <1>2, <1>3, <3>2 DEF IsOf
    <2> QED
      BY <1>1, <2>1, <2>2
  <1> DEFINE T == {q \in Nat : q + 1 \in 1 .. p - 1 /\ B[q + 1] # <<h + 1, PlaceOf(q + 1)>>}
  <1>5. T = {}
    <2> SUFFICES ASSUME T # {} PROVE FALSE
      OBVIOUS
    <2>1. PICK x \in T : x = 0 \/ (x - 1 \in Nat /\ x - 1 \notin T)
      <3>1. T \subseteq Nat
        OBVIOUS
      <3> HIDE DEF T
      <3> QED
        BY <3>1, FirstCounterexample
    <2>2. x \in Nat /\ x + 1 \in 1 .. p - 1 /\ B[x + 1] # <<h + 1, PlaceOf(x + 1)>>
      OBVIOUS
    <2>3. x # 0
      <3>1. PlaceOf(1) = 1 /\ 0 + 1 = 1
        BY MaxBufferAssumption DEF PlaceOf
      <3> QED
        BY <1>2, <2>2, <3>1
    <2>4. x \in 1 .. Len(B) - 1 /\ x + 1 \in 1 .. Len(B) - 1 /\ x - 1 + 1 = x /\ x \in 1 .. p - 1
          /\ x \in Nat \ {0}
      BY <1>1, <2>2, <2>3
    <2>5. B[x] = <<h + 1, PlaceOf(x)>>
      BY <2>1, <2>3, <2>4
    <2>6. B[x + 1] = <<0, 1>>
      <3>1. FollowedBy(B, x, acc)
        BY <2>4 DEF WellFormed
      <3>2. B[x][1] = h + 1 /\ B[x][2] = PlaceOf(x)
        BY <2>5
      <3>3. B[x + 1] = Successor(B[x], acc)
        BY <1>3, <3>1, <3>2 DEF FollowedBy
      <3>4. After(len, PlaceOf(x)) = 0 \/ After(len, PlaceOf(x)) = PlaceOf(x + 1)
        <4> HIDE DEF len
        <4> QED
          BY <1>4, <2>4, AfterPlace
      <3> QED
        BY <2>2, <3>2, <3>3, <3>4 DEF Successor
    <2>7. B[x + 1 + 1] = <<0, 2>>
      <3>1. FollowedBy(B, x + 1, acc)
        BY <2>4 DEF WellFormed
      <3>2. B[x + 1][1] = 0 /\ B[x + 1][2] = 1
        BY <2>6
      <3> QED
        BY <2>6, <3>1, <3>2 DEF FollowedBy
    <2> QED
      BY <1>1, <2>2, <2>6, <2>7
  <1>6. ASSUME NEW q \in 1 .. p - 1 PROVE B[q] = <<h + 1, PlaceOf(q)>>
    <2>1. q - 1 \in Nat /\ q - 1 + 1 = q
      BY <1>1
    <2> HIDE DEF T
    <2>2. q - 1 \notin T
      BY <1>5
    <2> QED
      BY <2>1, <2>2 DEF T
  <1>7. After(len, PlaceOf(p - 1)) = 0
    <2>1. /\ p - 1 \in 1 .. Len(B) - 1 /\ p - 1 \in 1 .. p - 1 /\ p - 1 + 1 = p
          /\ p - 1 \in Nat \ {0}
      BY <1>1, <1>4
    <2>2. B[p - 1] = <<h + 1, PlaceOf(p - 1)>>
      BY <1>6, <2>1
    <2>3. B[p - 1][1] = h + 1 /\ B[p - 1][2] = PlaceOf(p - 1)
      BY <2>2
    <2>4. FollowedBy(B, p - 1, acc)
      BY <2>1 DEF WellFormed
    <2>5. <<0, 1>> = Successor(B[p - 1], acc)
      <3>1. B[p - 1] # <<0, 1>> /\ B[p - 1] # <<0, 2>> /\ B[p - 1 + 1] = <<0, 1>>
        BY <1>1, <1>3, <2>1, <2>3
      <3> QED
        BY <2>4, <3>1 DEF FollowedBy
    <2>6. \A a, b : <<0, 1>> = <<a, b>> => a = 0
      OBVIOUS
    <2> QED
      BY <1>3, <2>3, <2>5, <2>6 DEF Successor
  <1> QED
    BY <1>4, <1>6, <1>7

\* Behind the terminator of the package the stream begins with is a stream that
\* begins with the next one, and ends as before.
LEMMA BehindTerminator ==
    ASSUME NEW D \in Seq(Byte), NEW C \in Seq(Byte), NEW h \in Nat, NEW i, NEW last,
           NEW acc, WellFormed(D \o C, h, acc),
           Len(D) >= 3, D[Len(D)] = <<0, 2>>, D[Len(D) - 1] = <<0, 1>>, D[Len(D) - 2][1] = h + 1
    PROVE  /\ WellFormed(C, h + 1, acc)
           /\ EndsAfter(D \o C, h, i) => EndsAfter(C, h + 1, i)
           /\ EndsWithin(D \o C, i, last) => EndsWithin(C, i, last)
  <1> DEFINE B == D \o C
  <1>1. /\ Len(D) \in Nat /\ Len(C) \in Nat /\ Len(B) = Len(D) + Len(C) /\ B \in Seq(Byte)
        /\ \A k \in 1 .. Len(D) : B[k] = D[k]
        /\ \A k \in 1 .. Len(C) : B[Len(D) + k] = C[k]
    BY Joined
  <1>2. WellFormed(B, h, acc)
    OBVIOUS
  <1> HIDE DEF B
  <1>3. /\ Len(D) - 2 \in 1 .. Len(D) /\ Len(D) - 1 \in 1 .. Len(D) /\ Len(D) \in 1 .. Len(D)
        /\ B[Len(D)] = <<0, 2>> /\ B[Len(D) - 1] = <<0, 1>> /\ B[Len(D) - 2][1] = h + 1
    <2>1. \A n \in Nat : n >= 3 => n - 2 \in 1 .. n /\ n - 1 \in 1 .. n /\ n \in 1 .. n
      OBVIOUS
    <2>2. Len(D) - 2 \in 1 .. Len(D) /\ Len(D) - 1 \in 1 .. Len(D) /\ Len(D) \in 1 .. Len(D)
      BY <1>1, <2>1
    <2> QED
      BY <1>1, <2>2
  <1>4. h + 1 # 0 /\ h + 1 + 1 # 0
    OBVIOUS
  <1>5. C # <<>> => C[1] = <<h + 1 + 1, 1>> /\ Len(C) >= 1
    <2> SUFFICES ASSUME C # <<>> PROVE C[1] = <<h + 1 + 1, 1>> /\ Len(C) >= 1
      OBVIOUS
    <2>1. Len(C) >= 1 /\ 1 \in 1 .. Len(C) /\ Len(D) \in 1 .. Len(B) - 1
      BY <1>1, NotEmpty
    <2>2. FollowedBy(B, Len(D), acc) /\ B[Len(D) + 1] = C[1]
      BY <1>1, <1>2, <2>1 DEF WellFormed
    <2>3. B[Len(D) + 1] = <<B[Len(D) - 2][1] + 1, 1>>
      BY <1>3, <2>2 DEF FollowedBy
    <2> QED
      BY <1>3, <2>1, <2>2, <2>3
  <1>6. \A k \in 1 .. Len(C) : IsOf(C[k], acc)
    <2> SUFFICES ASSUME NEW k \in 1 .. Len(C)
                 PROVE  IsOf(C[k], acc)
      OBVIOUS
    <2>1. Len(D) + k \in 1 .. Len(B) /\ B[Len(D) + k] = C[k]
      BY <1>1
    <2>2. IsOf(B[Len(D) + k], acc)
      BY <1>2, <2>1 DEF WellFormed
    <2> QED
      BY <2>1, <2>2
  <1>7. ASSUME NEW k \in 1 .. Len(C) - 1 PROVE FollowedBy(C, k, acc)
    <2> DEFINE p == Len(D) + k
    <2>1. /\ p \in 1 .. Len(B) - 1 /\ p + 1 = Len(D) + (k + 1) /\ C # <<>>
          /\ k \in 1 .. Len(C) /\ k + 1 \in 1 .. Len(C) /\ k \in Nat \ {0} /\ Len(C) >= 1
          /\ 1 \in 1 .. Len(C)
      BY <1>1, NotEmpty
    <2>2. FollowedBy(B, p, acc)
      BY <1>2, <2>1 DEF WellFormed
    <2>3. B[p] = C[k] /\ B[p + 1] = C[k + 1] /\ C[1][1] # 0
      <3>1. B[p] = C[k] /\ B[p + 1] = C[k + 1]
        BY <1>1, <2>1
      <3>2. C[1] = <<h + 1 + 1, 1>>
        BY <1>5, <2>1
      <3> QED
        BY <1>4, <3>1, <3>2
    <2>4. CASE k >= 3
      <3>1. k - 1 \in 1 .. Len(C) /\ k - 2 \in 1 .. Len(C) /\ p - 1 = Len(D) + (k - 1)
            /\ p - 2 = Len(D) + (k - 2)
        <4>1. Len(D) \in Nat /\ Len(C) \in Nat
          BY <1>1
        <4>2. k \in 1 .. Len(C)
          BY <2>1
        <4>3. k - 1 \in 1 .. Len(C) /\ k - 2 \in 1 .. Len(C)
          BY <2>4, <4>1, <4>2
        <4>4. p - 1 = Len(D) + (k - 1) /\ p - 2 = Len(D) + (k - 2)
          BY <4>1, <4>2
        <4> QED
          BY <4>3, <4>4
      <3>2. B[p - 1] = C[k - 1] /\ B[p - 2] = C[k - 2]
        BY <1>1, <3>1
      <3> HIDE DEF p
      <3> QED
        BY <2>2, <2>3, <2>4, <3>2 DEF FollowedBy
    <2>5. CASE k = 1
      <3>1. B[p][1] # 0
        BY <2>3, <2>5
      <3> HIDE DEF p
      <3> QED
        BY <2>2, <2>3, <3>1 DEF FollowedBy
    <2>6. CASE k = 2
      <3>1. p - 1 = Len(D) + 1
        BY <1>1, <2>6
      <3>2. B[p - 1] = C[1]
        BY <1>1, <2>1, <3>1
      <3>3. B[p - 1][1] # 0
        BY <2>3, <3>2
      <3> HIDE DEF p
      <3> QED
        BY <2>2, <2>3, <3>3 DEF FollowedBy
    <2> QED
      <3>1. \A j \in Nat \ {0} : j >= 3 \/ j = 1 \/ j = 2
        OBVIOUS
      <3>2. k >= 3 \/ k = 1 \/ k = 2
        BY <2>1, <3>1
      <3> QED
        BY <2>4, <2>5, <2>6, <3>2
  <1>8. WellFormed(C, h + 1, acc)
    BY <1>5, <1>6, <1>7 DEF WellFormed
  <1>9. B # <<>>
    <2>1. Len(B) >= 1
      BY <1>1
    <2> QED
      BY <1>1, <2>1, NotEmpty
  <1>10. ASSUME EndsAfter(B, h, i) PROVE EndsAfter(C, h + 1, i)
    <2>1. /\ B[Len(B)] = <<0, 2>> /\ B[Len(B) - 1] = <<0, 1>> /\ B[Len(B) - 2][1] = i
          /\ i # 0
      BY <1>9, <1>10 DEF EndsAfter
    <2>2. CASE C = <<>>
      <3>1. Len(C) = 0
        BY <2>2, EmptySeq
      <3>2. Len(B) = Len(D)
        BY <1>1, <3>1
      <3>3. i = h + 1
        BY <1>3, <2>1, <3>2
      <3> QED
        BY <2>2, <3>3 DEF EndsAfter
    <2>3. CASE C # <<>>
      <3>1. Len(C) \in 1 .. Len(C) /\ Len(B) = Len(D) + Len(C) /\ 1 \in 1 .. Len(C)
        BY <1>1, <1>5, <2>3
      <3>2. C[Len(C)] = <<0, 2>>
        BY <1>1, <2>1, <3>1
      <3>3. Len(C) # 1
        BY <1>4, <1>5, <2>3, <3>2
      <3>4. Len(C) - 1 \in 1 .. Len(C) /\ Len(B) - 1 = Len(D) + (Len(C) - 1)
        <4>1. \A d \in Nat : \A c \in Nat \ {0} : c # 1 =>
                  c - 1 \in 1 .. c /\ d + c - 1 = d + (c - 1)
          OBVIOUS
        <4>2. Len(D) \in Nat /\ Len(C) \in Nat \ {0}
          BY <1>1, <3>1
        <4>3. Len(C) - 1 \in 1 .. Len(C) /\ Len(D) + Len(C) - 1 = Len(D) + (Len(C) - 1)
          BY <3>3, <4>1, <4>2
        <4> QED
          BY <3>1, <4>3
      <3>5. C[Len(C) - 1] = <<0, 1>>
        BY <1>1, <2>1, <3>4
      <3>6. Len(C) # 2
        <4> SUFFICES ASSUME Len(C) = 2 PROVE FALSE
          OBVIOUS
        <4>1. C[1] = <<0, 1>>
          BY <3>5
        <4> QED
          BY <1>4, <1>5, <2>3, <4>1
      <3>7. Len(C) - 2 \in 1 .. Len(C) /\ Len(B) - 2 = Len(D) + (Len(C) - 2) /\ Len(C) >= 3
        <4>1. \A d \in Nat : \A c \in Nat \ {0} : c # 1 /\ c # 2 =>
                  c - 2 \in 1 .. c /\ d + c - 2 = d + (c - 2) /\ c >= 3
          OBVIOUS
        <4>2. Len(D) \in Nat /\ Len(C) \in Nat \ {0}
          BY <1>1, <3>1
        <4>3. /\ Len(C) - 2 \in 1 .. Len(C) /\ Len(D) + Len(C) - 2 = Len(D) + (Len(C) - 2)
              /\ Len(C) >= 3
          BY <3>3, <3>6, <4>1, <4>2
        <4> QED
          BY <3>1, <4>3
      <3>8. C[Len(C) - 2][1] = i
        BY <1>1, <2>1, <3>7
      <3> QED
        BY <2>1, <2>3, <3>2, <3>5, <3>7, <3>8 DEF EndsAfter
    <2> QED
      BY <2>2, <2>3
  <1>11. ASSUME EndsWithin(B, i, last) PROVE EndsWithin(C, i, last)
    <2>1. B[Len(B)] = <<i, last>> /\ i # 0
      BY <1>11 DEF EndsWithin
    <2>2. C # <<>>
      <3> SUFFICES ASSUME C = <<>> PROVE FALSE
        OBVIOUS
      <3>1. Len(C) = 0
        BY EmptySeq
      <3>2. Len(B) = Len(D)
        BY <1>1, <3>1
      <3> QED
        BY <1>3, <2>1, <3>2
    <2>3. Len(C) \in 1 .. Len(C) /\ Len(B) = Len(D) + Len(C)
      BY <1>1, <1>5, <2>2
    <2>4. B[Len(B)] = C[Len(C)]
      BY <1>1, <2>3
    <2> QED
      BY <2>1, <2>2, <2>4 DEF EndsWithin
  <1> QED
    BY <1>8, <1>10, <1>11 DEF B

-----------------------------------------------------------------------------
(* Packages, prefixes and the bytes of several packages                     *)

LEMMA PackageType ==
    ASSUME NEW i \in Nat, NEW len \in Nat \ {0}
    PROVE  /\ Package(i, len) \in Seq(Byte) /\ Len(Package(i, len)) = len
           /\ \A k \in 1 .. len : Package(i, len)[k] = <<i, k>>
           /\ Package(i, len) # <<>>
  <1>1. Package(i, len) \in [1 .. len -> Byte]
    BY DEF Package, Byte
  <1>2. Package(i, len) \in Seq(Byte) /\ Len(Package(i, len)) = len
    <2>1. len \in Nat
      OBVIOUS
    <2>2. Package(i, len) \in Seq(Byte)
      BY <1>1, <2>1, SeqDef
    <2>3. DOMAIN Package(i, len) = 1 .. len
      BY DEF Package
    <2> QED
      BY <2>1, <2>2, <2>3, LenProperties
  <1>3. Package(i, len) # <<>>
    BY <1>2, NotEmpty
  <1> QED
    BY <1>2, <1>3 DEF Package

LEMMA PrefixPlaces ==
    ASSUME NEW S, NEW s \in Seq(S), NEW t \in Seq(S)
    PROVE  IsPrefix(s, t) <=> Len(s) <= Len(t) /\ \A k \in 1 .. Len(s) : s[k] = t[k]
  <1>1. Len(s) \in Nat /\ Len(t) \in Nat
    BY LenProperties
  <1>2. SubSeq(s, 1, Len(s)) = s
    BY SubSeqFull
  <1>3. ASSUME Len(s) <= Len(t)
        PROVE  SubSeq(t, 1, Len(s)) = s <=> \A k \in 1 .. Len(s) : s[k] = t[k]
    <2> DEFINE u == SubSeq(t, 1, Len(s))
    <2>1. 1 \in Nat \ {0} /\ Len(s) \in 0 .. Len(t) /\ \A k \in 1 .. Len(s) : 1 + k - 1 = k
          /\ Len(s) - 1 + 1 = Len(s)
      BY <1>1, <1>3
    <2>2. /\ u \in Seq(S) /\ Len(u) = IF 1 <= Len(s) THEN Len(s) - 1 + 1 ELSE 0
          /\ \A i \in 1 .. Len(s) - 1 + 1 : u[i] = t[1 + i - 1]
      BY <2>1, SubSeqOfBytes
    <2> HIDE DEF u
    <2>3. Len(u) = Len(s)
      BY <1>1, <2>2
    <2>4. \A i \in 1 .. Len(s) : u[i] = t[i]
      BY <2>1, <2>2
    <2>5. ASSUME \A k \in 1 .. Len(s) : s[k] = t[k] PROVE u = s
      BY <2>2, <2>3, <2>4, <2>5, SeqEqual
    <2> QED
      BY <2>4, <2>5 DEF u
  <1> QED
    BY <1>1, <1>2, <1>3 DEF IsPrefix

\* bytes is a function as Stream defines it, for the first m packages.
AreBytes(bytes, pkgs, m) ==
    bytes = [k \in 0 .. m |->
                IF k = 0 THEN <<>> ELSE bytes[k - 1] \o (pkgs[k] \o Terminator)]

LEMMA BytesExist ==
    ASSUME NEW pkgs, NEW n \in Nat
    PROVE  \E bytes : AreBytes(bytes, pkgs, n)
  <1> DEFINE T == {m \in Nat : ~ \E bytes : AreBytes(bytes, pkgs, m)}
  <1> SUFFICES ASSUME T # {} PROVE FALSE
    OBVIOUS
  <1>1. PICK x \in T : x = 0 \/ (x - 1 \in Nat /\ x - 1 \notin T)
    <2>1. T \subseteq Nat
      OBVIOUS
    <2> HIDE DEF T
    <2> QED
      BY <2>1, FirstCounterexample
  <1>2. x \in Nat /\ ~ \E bytes : AreBytes(bytes, pkgs, x)
    OBVIOUS
  <1>3. CASE x = 0
    <2>1. AreBytes([k \in 0 .. 0 |-> <<>>], pkgs, 0)
      BY DEF AreBytes
    <2> QED
      BY <1>2, <1>3, <2>1
  <1>4. CASE x - 1 \in Nat /\ x - 1 \notin T
    <2>1. PICK bytes : AreBytes(bytes, pkgs, x - 1)
      BY <1>4
    <2> DEFINE next == bytes[x - 1] \o (pkgs[x] \o Terminator)
               more == [k \in 0 .. x |-> IF k = x THEN next ELSE bytes[k]]
    <2>2. x # 0 /\ x - 1 < x
      BY <1>2, <1>4
    <2> HIDE DEF next
    <2>3. more[x] = next /\ \A k \in 0 .. x - 1 : more[k] = bytes[k]
      <3>1. x \in 0 .. x /\ \A k \in 0 .. x - 1 : k \in 0 .. x /\ k # x
        BY <1>2
      <3> QED
        BY <3>1
    <2>4. \A k \in 0 .. x :
            more[k] = IF k = 0 THEN <<>> ELSE more[k - 1] \o (pkgs[k] \o Terminator)
      <3> TAKE k \in 0 .. x
      <3>1. CASE k = x
        <4>1. more[x - 1] = bytes[x - 1]
          BY <1>4, <2>3
        <4> HIDE DEF more
        <4> QED
          BY <2>2, <2>3, <3>1, <4>1 DEF next
      <3>2. CASE k # x
        <4>1. k \in 0 .. x - 1 /\ (k # 0 => k - 1 \in 0 .. x - 1)
          BY <1>2, <1>4, <3>2
        <4>2. bytes[k] = IF k = 0 THEN <<>> ELSE bytes[k - 1] \o (pkgs[k] \o Terminator)
          BY <2>1, <4>1 DEF AreBytes
        <4>3. more[k] = bytes[k] /\ (k # 0 => more[k - 1] = bytes[k - 1])
          BY <2>3, <4>1
        <4> HIDE DEF more
        <4> QED
          BY <4>2, <4>3
      <3> QED
        BY <3>1, <3>2
    <2>5. AreBytes(more, pkgs, x)
      <3>1. more = [k \in 0 .. x |-> more[k]]
        OBVIOUS
      <3> HIDE DEF more
      <3> QED
        BY <2>4, <3>1 DEF AreBytes
    <2> QED
      BY <1>2, <2>5
  <1> QED
    BY <1>1, <1>3, <1>4

\* The steps of the recursion, and that all of them are sequences of bytes.
Steps(bytes, pkgs) ==
    /\ bytes[0] = <<>>
    /\ \A k \in 1 .. Len(pkgs) : bytes[k] = bytes[k - 1] \o (pkgs[k] \o Terminator)
    /\ \A k \in 0 .. Len(pkgs) : bytes[k] \in Seq(Byte)

LEMMA StreamSteps ==
    ASSUME NEW pkgs \in Seq(Seq(Byte))
    PROVE  \E bytes : Stream(pkgs) = bytes[Len(pkgs)] /\ Steps(bytes, pkgs)
  <1> DEFINE n == Len(pkgs)
             P(b) == b = [k \in 0 .. n |->
                            IF k = 0 THEN <<>> ELSE b[k - 1] \o (pkgs[k] \o Terminator)]
             bytes == CHOOSE b : P(b)
  <1>1. n \in Nat
    BY LenProperties
  <1>2. Stream(pkgs) = bytes[n]
    BY DEF Stream
  <1>3. P(bytes)
    <2>1. \E b : P(b)
      <3> HIDE DEF n
      <3> QED
        BY <1>1, BytesExist DEF AreBytes
    <2> HIDE DEF P
    <2> QED
      BY <2>1
  <1> HIDE DEF bytes
  <1>4. \A k \in 0 .. n :
          bytes[k] = IF k = 0 THEN <<>> ELSE bytes[k - 1] \o (pkgs[k] \o Terminator)
    <2> HIDE DEF n
    <2> QED
      BY <1>3
  <1>5. \A k \in 1 .. n : pkgs[k] \in Seq(Byte)
    BY ElementOfSeq
  <1> HIDE DEF n
  <1> DEFINE T == {k \in Nat : k <= n /\ bytes[k] \notin Seq(Byte)}
  <1>6. T = {}
    <2> SUFFICES ASSUME T # {} PROVE FALSE
      OBVIOUS
    <2>1. PICK x \in T : x = 0 \/ (x - 1 \in Nat /\ x - 1 \notin T)
      <3>1. T \subseteq Nat
        OBVIOUS
      <3> HIDE DEF T
      <3> QED
        BY <3>1, FirstCounterexample
    <2>2. x \in 0 .. n /\ bytes[x] \notin Seq(Byte)
      BY <1>1
    <2>3. CASE x = 0
      BY <1>4, <2>2, <2>3, EmptySeq
    <2>4. CASE x - 1 \in Nat /\ x - 1 \notin T
      <3>1. x - 1 <= n /\ x # 0 /\ x \in 1 .. n
        BY <1>1, <2>2, <2>4
      <3>2. bytes[x - 1] \in Seq(Byte)
        BY <2>4, <3>1
      <3>3. bytes[x] = bytes[x - 1] \o (pkgs[x] \o Terminator)
        BY <1>4, <2>2, <3>1
      <3>4. bytes[x] \in Seq(Byte)
        BY <1>5, <3>1, <3>2, <3>3, TerminatorType, ConcatProperties
      <3> QED
        BY <2>2, <3>4
    <2> QED
      BY <2>1, <2>3, <2>4
  <1>7. \A k \in 0 .. n : bytes[k] \in Seq(Byte)
    <2> SUFFICES ASSUME NEW k \in 0 .. n PROVE bytes[k] \in Seq(Byte)
      OBVIOUS
    <2>1. k \in Nat /\ k <= n
      BY <1>1
    <2> QED
      BY <1>6, <2>1
  <1>8. bytes[0] = <<>>
    <2>1. 0 \in 0 .. n
      BY <1>1
    <2> QED
      BY <1>4, <2>1
  <1>9. \A k \in 1 .. n : bytes[k] = bytes[k - 1] \o (pkgs[k] \o Terminator)
    <2>1. \A k \in 1 .. n : k \in 0 .. n /\ k # 0
      BY <1>1
    <2> QED
      BY <1>4, <2>1
  <1> QED
    BY <1>2, <1>7, <1>8, <1>9 DEF Steps, n

LEMMA Regroup == \A a, b, c \in Seq(Byte) : (a \o b) \o c = a \o (b \o c)
  BY ConcatAssociative

\* Functions of the steps of two sequences of packages agree as far as those do.
LEMMA StepsAgree ==
    ASSUME NEW pkgs, NEW more, NEW f, NEW g, Steps(f, pkgs), Steps(g, more), NEW n \in Nat,
           n <= Len(pkgs), n <= Len(more), Len(pkgs) \in Nat, Len(more) \in Nat,
           \A k \in 1 .. n : pkgs[k] = more[k]
    PROVE  \A k \in 0 .. n : f[k] = g[k]
  <1> DEFINE T == {k \in Nat : k <= n /\ f[k] # g[k]}
  <1>1. T = {}
    <2> SUFFICES ASSUME T # {} PROVE FALSE
      OBVIOUS
    <2>1. PICK x \in T : x = 0 \/ (x - 1 \in Nat /\ x - 1 \notin T)
      <3>1. T \subseteq Nat
        OBVIOUS
      <3> HIDE DEF T
      <3> QED
        BY <3>1, FirstCounterexample
    <2>2. x \in 0 .. n /\ f[x] # g[x]
      OBVIOUS
    <2>3. CASE x = 0
      BY <2>2, <2>3 DEF Steps
    <2>4. CASE x - 1 \in Nat /\ x - 1 \notin T
      <3>1. x - 1 <= n /\ x \in 1 .. n /\ x \in 1 .. Len(pkgs) /\ x \in 1 .. Len(more)
        BY <2>2, <2>4
      <3>2. f[x - 1] = g[x - 1]
        BY <2>4, <3>1
      <3>3. f[x] = g[x]
        BY <3>1, <3>2 DEF Steps
      <3> QED
        BY <2>2, <3>3
    <2> QED
      BY <2>1, <2>3, <2>4
  <1>2. \A k \in 0 .. n : k \in Nat /\ k <= n
    OBVIOUS
  <1> QED
    BY <1>1, <1>2

LEMMA StreamType ==
    ASSUME NEW pkgs \in Seq(Seq(Byte))
    PROVE  Stream(pkgs) \in Seq(Byte)
  <1>1. PICK f : Stream(pkgs) = f[Len(pkgs)] /\ Steps(f, pkgs)
    BY StreamSteps
  <1>2. Len(pkgs) \in 0 .. Len(pkgs)
    BY LenProperties
  <1> QED
    BY <1>1, <1>2 DEF Steps

LEMMA StreamOfNone == Stream(<<>>) = <<>>
  <1>1. <<>> \in Seq(Seq(Byte)) /\ Len(<<>>) = 0
    BY EmptySeq
  <1>2. PICK f : Stream(<<>>) = f[Len(<<>>)] /\ Steps(f, <<>>)
    BY <1>1, StreamSteps
  <1> QED
    BY <1>1, <1>2 DEF Steps

\* One more package: its bytes and a terminator are added.
LEMMA StreamOfAppend ==
    ASSUME NEW pkgs \in Seq(Seq(Byte)), NEW x \in Seq(Byte)
    PROVE  Stream(Append(pkgs, x)) = Stream(pkgs) \o (x \o Terminator)
  <1> DEFINE more == Append(pkgs, x)
             n == Len(pkgs)
  <1>1. /\ n \in Nat /\ more \in Seq(Seq(Byte)) /\ Len(more) = n + 1
        /\ more[n + 1] = x /\ \A k \in 1 .. n : more[k] = pkgs[k]
    BY AppendProperties, LenProperties
  <1>2. PICK f : Stream(pkgs) = f[n] /\ Steps(f, pkgs)
    BY StreamSteps
  <1> HIDE DEF more
  <1>3. PICK g : Stream(more) = g[Len(more)] /\ Steps(g, more)
    BY <1>1, StreamSteps
  <1> HIDE DEF n
  <1>4. n <= Len(pkgs) /\ n <= Len(more) /\ Len(pkgs) \in Nat /\ Len(more) \in Nat
    BY <1>1 DEF n
  <1>5. \A k \in 0 .. n : f[k] = g[k]
    <2>1. \A k \in 1 .. n : pkgs[k] = more[k]
      BY <1>1
    <2>2. Steps(f, pkgs) /\ Steps(g, more) /\ n \in Nat
      BY <1>1, <1>2, <1>3
    <2> QED
      BY <1>4, <2>1, <2>2, StepsAgree
  <1>6. PICK j \in Nat : j = n + 1 /\ j - 1 = n /\ j \in 1 .. Len(more) /\ n \in 0 .. n
    BY <1>1
  <1>7. g[j] = g[j - 1] \o (more[j] \o Terminator)
    BY <1>3, <1>6 DEF Steps
  <1>8. f[n] = g[n]
    BY <1>5, <1>6
  <1>9. Stream(more) = Stream(pkgs) \o (x \o Terminator)
    BY <1>1, <1>2, <1>3, <1>6, <1>7, <1>8
  <1> QED
    BY <1>9 DEF more

\* The first package comes first.
LEMMA StreamOfHead ==
    ASSUME NEW pkgs \in Seq(Seq(Byte)), pkgs # <<>>
    PROVE  Stream(pkgs) = (Head(pkgs) \o Terminator) \o Stream(Tail(pkgs))
  <1> DEFINE fewer == Tail(pkgs)
             n == Len(fewer)
             first == Head(pkgs) \o Terminator
  <1>1. /\ n \in Nat /\ fewer \in Seq(Seq(Byte)) /\ Len(pkgs) = n + 1
        /\ \A k \in 1 .. n : fewer[k] = pkgs[k + 1]
        /\ Head(pkgs) = pkgs[1] /\ Head(pkgs) \in Seq(Byte)
    BY HeadTailProperties, LenProperties
  <1>2. PICK f : Stream(pkgs) = f[Len(pkgs)] /\ Steps(f, pkgs)
    BY StreamSteps
  <1>3. first \in Seq(Byte)
    <2> HIDE DEF fewer
    <2> QED
      BY <1>1, TerminatorType, ConcatProperties
  <1> HIDE DEF fewer
  <1>4. PICK g : Stream(fewer) = g[n] /\ Steps(g, fewer)
    BY <1>1, StreamSteps
  <1>5. \A k \in 1 .. n : fewer[k] \in Seq(Byte)
    BY <1>1, ElementOfSeq
  <1> DEFINE T == {k \in Nat : k <= n /\ f[k + 1] # first \o g[k]}
  <1>6. T = {}
    <2> SUFFICES ASSUME T # {} PROVE FALSE
      OBVIOUS
    <2>1. PICK x \in T : x = 0 \/ (x - 1 \in Nat /\ x - 1 \notin T)
      <3>1. T \subseteq Nat
        OBVIOUS
      <3> HIDE DEF T
      <3> QED
        BY <3>1, FirstCounterexample
    <2>2. x \in 0 .. n /\ f[x + 1] # first \o g[x]
      <3> HIDE DEF n, first
      <3> QED
        BY <1>1
    <2> HIDE DEF T
    <2>3. CASE x = 0
      <3>1. 1 \in 1 .. Len(pkgs) /\ 1 - 1 = 0 /\ 0 + 1 = 1
        BY <1>1
      <3>2. f[1] = f[1 - 1] \o (pkgs[1] \o Terminator) /\ f[0] = <<>> /\ g[0] = <<>>
        BY <1>2, <1>4, <3>1 DEF Steps
      <3>3. f[1] = <<>> \o first
        BY <1>1, <3>1, <3>2
      <3> HIDE DEF first
      <3>4. f[1] = first /\ first \o g[0] = first
        BY <1>3, <3>2, <3>3, ConcatEmptySeq
      <3> QED
        BY <2>2, <2>3, <3>1, <3>4
    <2>4. CASE x - 1 \in Nat /\ x - 1 \notin T
      <3>0. PICK j \in Nat : j = x + 1 /\ j - 1 = x
        BY <2>2
      <3>1. /\ x - 1 <= n /\ x \in 1 .. n /\ j \in 1 .. Len(pkgs)
            /\ x - 1 + 1 = x /\ x - 1 \in 0 .. n
        <4> HIDE DEF n
        <4> QED
          BY <1>1, <2>2, <2>4, <3>0
      <3>2. f[x] = first \o g[x - 1]
        <4> HIDE DEF n, first
        <4> QED
          BY <2>4, <3>1 DEF T
      <3> HIDE DEF first
      <3>3. f[j] = f[j - 1] \o (pkgs[j] \o Terminator)
        BY <1>2, <3>1 DEF Steps
      <3>4. g[x] = g[x - 1] \o (fewer[x] \o Terminator) /\ g[x - 1] \in Seq(Byte)
        BY <1>4, <3>1 DEF Steps
      <3>5. fewer[x] = pkgs[x + 1] /\ fewer[x] \in Seq(Byte)
        BY <1>1, <1>5, <3>1
      <3>6. f[x + 1] = (first \o g[x - 1]) \o (fewer[x] \o Terminator)
        BY <3>0, <3>2, <3>3, <3>5
      <3>7. fewer[x] \o Terminator \in Seq(Byte)
        BY <3>5, TerminatorType, ConcatProperties
      <3>8. f[x + 1] = first \o (g[x - 1] \o (fewer[x] \o Terminator))
        BY <1>3, <3>4, <3>6, <3>7, Regroup
      <3> QED
        BY <2>2, <3>4, <3>8
    <2> QED
      BY <2>1, <2>3, <2>4
  <1>7. n \in Nat /\ n <= n
    BY <1>1
  <1>8. f[n + 1] = first \o g[n]
    <2> HIDE DEF n, first
    <2> QED
      BY <1>6, <1>7
  <1> QED
    BY <1>1, <1>2, <1>4, <1>8 DEF fewer

-----------------------------------------------------------------------------
(* A round of the loop of handle_qread_content                              *)

\* The package that is being written, or the last one that was; how much of it
\* _send has cut off and lost or written; the last place of it that was written.
Started == Len(accepted) - Len(pkg_queue)
Cut == Len(accepted[Started]) - Len(pending_data)
LastPlace(cut, len) ==
    IF cut = MaxBuffer THEN MaxBuffer
    ELSE IF cut + MaxBuffer <= len THEN cut + MaxBuffer ELSE len

ArePackages == \A k \in 1 .. Len(accepted) : \E len \in Lengths : accepted[k] = Package(k, len)

EndsAt(B, h) ==
    IF pending_data = <<>> THEN EndsAfter(B, h, Started)
    ELSE EndsWithin(B, Started, LastPlace(Cut, Len(accepted[Started])))

LEMMA PackagesTyped ==
    ASSUME accepted \in Seq(Seq(Byte)), ArePackages, NEW i \in 1 .. Len(accepted)
    PROVE  /\ accepted[i] \in Seq(Byte) /\ Len(accepted[i]) \in Nat \ {0}
           /\ \A k \in 1 .. Len(accepted[i]) : accepted[i][k] = <<i, k>>
  <1>1. PICK len \in Lengths : accepted[i] = Package(i, len)
    BY DEF ArePackages
  <1>2. len \in Nat \ {0} /\ i \in Nat
    BY LengthsAssumption, LenProperties
  <1>3. /\ Package(i, len) \in Seq(Byte) /\ Len(Package(i, len)) = len
        /\ \A k \in 1 .. len : Package(i, len)[k] = <<i, k>>
    BY <1>2, PackageType
  <1> QED
    BY <1>1, <1>2, <1>3

\* A package of more than two buffers without its second chunk, place by place.
LEMMA SplicedPlaces ==
    ASSUME NEW pkg \in Seq(Byte), Len(pkg) > 2 * MaxBuffer
    PROVE  /\ Spliced(pkg) \in Seq(Byte) /\ Len(Spliced(pkg)) = Len(pkg) - MaxBuffer
           /\ \A q \in 1 .. Len(pkg) - MaxBuffer : Spliced(pkg)[q] = pkg[PlaceOf(q)]
  <1> DEFINE m == MaxBuffer
             n == Len(pkg)
             a == SubSeq(pkg, 1, m)
             b == SubSeq(pkg, 2 * m + 1, n)
  <1>1. /\ m \in Nat \ {0} /\ n \in Nat /\ 1 \in Nat \ {0} /\ 2 * m + 1 \in Nat \ {0}
        /\ m \in 0 .. n /\ n \in 0 .. n /\ n > 2 * m
    BY MaxBufferAssumption, LenProperties
  <1>2. a \in Seq(Byte) /\ Len(a) = m /\ \A k \in 1 .. m : a[k] = pkg[k]
    <2>1. /\ a \in Seq(Byte) /\ Len(a) = IF 1 <= m THEN m - 1 + 1 ELSE 0
          /\ \A k \in 1 .. m - 1 + 1 : a[k] = pkg[1 + k - 1]
      BY <1>1, SubSeqOfBytes
    <2> HIDE DEF a, m
    <2>2. Len(a) = m /\ \A k \in 1 .. m : k \in 1 .. m - 1 + 1 /\ 1 + k - 1 = k
      BY <1>1, <2>1
    <2> QED
      BY <2>1, <2>2
  <1>3. /\ b \in Seq(Byte) /\ Len(b) = n - 2 * m
        /\ \A k \in 1 .. n - 2 * m : b[k] = pkg[2 * m + k]
    <2>1. /\ b \in Seq(Byte) /\ Len(b) = IF 2 * m + 1 <= n THEN n - (2 * m + 1) + 1 ELSE 0
          /\ \A k \in 1 .. n - (2 * m + 1) + 1 : b[k] = pkg[2 * m + 1 + k - 1]
      BY <1>1, SubSeqOfBytes
    <2> HIDE DEF b, m, n
    <2>2. /\ Len(b) = n - 2 * m
          /\ \A k \in 1 .. n - 2 * m :
                 k \in 1 .. n - (2 * m + 1) + 1 /\ 2 * m + 1 + k - 1 = 2 * m + k
      BY <1>1, <2>1
    <2> QED
      BY <2>1, <2>2
  <1>4. Spliced(pkg) = a \o b
    BY DEF Spliced
  <1> HIDE DEF a, b
  <1>5. /\ a \o b \in Seq(Byte) /\ Len(a \o b) = Len(a) + Len(b)
        /\ \A k \in 1 .. Len(a) : (a \o b)[k] = a[k]
        /\ \A k \in 1 .. Len(b) : (a \o b)[Len(a) + k] = b[k]
    <2>1. a \in Seq(Byte) /\ b \in Seq(Byte)
      BY <1>2, <1>3
    <2> QED
      BY <2>1, Joined
  <1> DEFINE c == a \o b
  <1>6. /\ c \in Seq(Byte) /\ Len(c) = n - m
        /\ \A k \in 1 .. m : c[k] = pkg[k]
        /\ \A k \in 1 .. n - 2 * m : c[m + k] = pkg[2 * m + k]
    <2> HIDE DEF m, n
    <2>1. Len(c) = n - m
      BY <1>1, <1>2, <1>3, <1>5
    <2> HIDE DEF c
    <2> QED
      BY <1>2, <1>3, <1>5, <2>1 DEF c
  <1> HIDE DEF c
  <1>7. ASSUME NEW q \in 1 .. n - m PROVE c[q] = pkg[PlaceOf(q)]
    <2>1. CASE q <= m
      <3>1. q \in 1 .. m /\ PlaceOf(q) = q
        BY <1>1, <2>1 DEF PlaceOf
      <3> QED
        BY <1>6, <3>1
    <2>2. CASE ~(q <= m)
      <3>1. PICK k \in 1 .. n - 2 * m : q = m + k
        <4>1. q - m \in 1 .. n - 2 * m /\ q = m + (q - m)
          BY <1>1, <2>2
        <4> QED
          BY <4>1
      <3>2. PlaceOf(q) = 2 * m + k
        BY <1>1, <2>2, <3>1 DEF PlaceOf
      <3> QED
        BY <1>6, <3>1, <3>2
    <2> QED
      BY <2>1, <2>2
  <1> QED
    BY <1>4, <1>6, <1>7 DEF c, n, m

\* What the receiver may handle as package k.
Handles(pkg, k) ==
    \/ pkg = accepted[k]
    \/ Len(accepted[k]) > 2 * MaxBuffer /\ pkg = Spliced(accepted[k])

\* pkg is not empty, of the bytes of package h + 1, and parses only as that one.
ComesNext(pkg, h) ==
    /\ pkg # <<>>
    /\ Len(pkg) \in Nat \ {0} /\ \A k \in 1 .. Len(pkg) : pkg[k][1] = h + 1
    /\ Parses(pkg) => h + 1 <= Len(accepted) /\ Handles(pkg, h + 1)

\* What the places of one package sent before its terminator make: the package, a
\* front of it that does not parse, or the package without its second chunk.
LEMMA WhatWasSent ==
    ASSUME accepted \in Seq(Seq(Byte)), ArePackages, NEW i \in 1 .. Len(accepted),
           NEW pkg \in Seq(Byte), NEW n \in Nat \ {0}, Len(pkg) = n,
           \A q \in 1 .. n : pkg[q] = <<i, PlaceOf(q)>>,
           After(Len(accepted[i]), PlaceOf(n)) = 0, Parses(pkg)
    PROVE  Handles(pkg, i)
  <1> DEFINE whole == accepted[i]
             len == Len(whole)
  <1>1. /\ whole \in Seq(Byte) /\ len \in Nat \ {0}
        /\ \A k \in 1 .. len : whole[k] = <<i, k>>
    BY PackagesTyped
  <1>2. whole \in ToSet(accepted)
    <2>1. i \in DOMAIN accepted
      BY LenProperties
    <2> QED
      BY <2>1 DEF ToSet
  <1>3. MaxBuffer \in Nat \ {0}
    BY MaxBufferAssumption
  <1> HIDE DEF whole
  <1>4. \/ n = len /\ len <= MaxBuffer
        \/ n = MaxBuffer /\ MaxBuffer < len /\ len <= 2 * MaxBuffer
        \/ n + MaxBuffer = len /\ len > 2 * MaxBuffer
    <2>1. len \in Nat /\ After(len, PlaceOf(n)) = 0
      BY <1>1 DEF whole
    <2> HIDE DEF len
    <2> QED
      BY <2>1, AfterPlace
  <1> HIDE DEF len
  <1>5. CASE n = len /\ len <= MaxBuffer
    <2>1. \A q \in 1 .. n : PlaceOf(q) = q
      BY <1>1, <1>3, <1>5 DEF PlaceOf
    <2>2. \A q \in 1 .. n : pkg[q] = whole[q]
      BY <1>1, <1>5, <2>1
    <2>3. Len(whole) = n
      BY <1>5 DEF len
    <2>4. pkg = whole
      BY <1>1, <2>2, <2>3, SeqEqual
    <2> QED
      BY <2>4 DEF Handles, whole
  <1>6. CASE n = MaxBuffer /\ MaxBuffer < len /\ len <= 2 * MaxBuffer
    <2>1. \A q \in 1 .. n : PlaceOf(q) = q /\ q \in 1 .. len
      BY <1>1, <1>3, <1>6 DEF PlaceOf
    <2>2. \A q \in 1 .. n : pkg[q] = whole[q]
      BY <1>1, <2>1
    <2>3. Len(pkg) <= Len(whole)
      BY <1>1, <1>3, <1>6 DEF len
    <2>4. IsPrefix(pkg, whole)
      BY <1>1, <2>2, <2>3, PrefixPlaces
    <2>5. pkg \in ToSet(accepted)
      BY <1>2, <2>4 DEF Parses
    <2>6. PICK j \in 1 .. Len(accepted) : pkg = accepted[j]
      <3>1. DOMAIN accepted = 1 .. Len(accepted)
        BY LenProperties
      <3> QED
        BY <2>5, <3>1 DEF ToSet
    <2>7. /\ Len(accepted[j]) \in Nat \ {0}
          /\ \A k \in 1 .. Len(accepted[j]) : accepted[j][k] = <<j, k>>
      BY PackagesTyped
    <2>8. 1 \in 1 .. n /\ pkg[1] = <<j, 1>>
      <3>1. 1 \in 1 .. n
        OBVIOUS
      <3> QED
        BY <2>6, <2>7, <3>1
    <2>9. pkg[1][1] = i /\ pkg[1][1] = j
      BY <2>8
    <2> QED
      BY <2>6, <2>9 DEF Handles
  <1>7. CASE n + MaxBuffer = len /\ len > 2 * MaxBuffer
    <2>1. /\ Spliced(whole) \in Seq(Byte) /\ Len(Spliced(whole)) = Len(whole) - MaxBuffer
          /\ \A q \in 1 .. Len(whole) - MaxBuffer : Spliced(whole)[q] = whole[PlaceOf(q)]
      BY <1>1, <1>7, SplicedPlaces DEF len
    <2>2. Len(whole) - MaxBuffer = n
      BY <1>1, <1>3, <1>7 DEF len
    <2>3. \A q \in 1 .. n : PlaceOf(q) \in 1 .. len
      BY <1>1, <1>3, <1>7 DEF PlaceOf
    <2>4. \A q \in 1 .. n : Spliced(whole)[q] = pkg[q]
      BY <1>1, <2>1, <2>2, <2>3
    <2>5. pkg = Spliced(whole)
      BY <2>1, <2>2, <2>4, SeqEqual
    <2> QED
      BY <1>7, <2>5 DEF Handles, whole, len
  <1> QED
    BY <1>4, <1>5, <1>6, <1>7

\* A terminated package at the front of a well-formed stream that parses is the next
\* one that was accepted.
LEMMA NextPackage ==
    ASSUME accepted \in Seq(Seq(Byte)), ArePackages,
           NEW b \in Seq(Byte), NEW W \in Seq(Byte), NEW h \in Nat,
           WellFormed(b \o W, h, accepted),
           NEW p, FirstEnd(b, p), NEW pkg \in Seq(Byte), pkg = SubSeq(b, 1, p - 1)
    PROVE  ComesNext(pkg, h)
  <1> DEFINE B == b \o W
  <1>1. /\ Len(b) \in Nat /\ Len(W) \in Nat /\ Len(B) = Len(b) + Len(W) /\ B \in Seq(Byte)
        /\ \A k \in 1 .. Len(b) : B[k] = b[k]
    BY Joined
  <1>2. WellFormed(B, h, accepted)
    OBVIOUS
  <1> HIDE DEF B
  <1>3. /\ p \in 1 .. Len(b) - 1 /\ b[p] = <<0, 1>> /\ b[p + 1] = <<0, 2>>
        /\ \A q \in 1 .. p - 1 : ~(b[q] = <<0, 1>> /\ b[q + 1] = <<0, 2>>)
    BY DEF FirstEnd
  <1>4. FirstEnd(B, p)
    <2>1. /\ p \in 1 .. Len(B) - 1 /\ p \in 1 .. Len(b) /\ p + 1 \in 1 .. Len(b)
          /\ \A q \in 1 .. p - 1 : q \in 1 .. Len(b) /\ q + 1 \in 1 .. Len(b)
      BY <1>1, <1>3
    <2>2. B[p] = <<0, 1>> /\ B[p + 1] = <<0, 2>>
      BY <1>1, <1>3, <2>1
    <2>3. ASSUME NEW q \in 1 .. p - 1, B[q] = <<0, 1>>, B[q + 1] = <<0, 2>> PROVE FALSE
      <3>1. q \in 1 .. Len(b) /\ q + 1 \in 1 .. Len(b)
        BY <2>1
      <3>2. b[q] = <<0, 1>> /\ b[q + 1] = <<0, 2>>
        BY <1>1, <2>3, <3>1
      <3> QED
        BY <1>3, <3>2
    <2> QED
      BY <2>1, <2>2, <2>3 DEF FirstEnd
  <1>5. /\ p >= 2 /\ h + 1 \in 1 .. Len(accepted)
        /\ \A q \in 1 .. p - 1 : B[q] = <<h + 1, PlaceOf(q)>>
        /\ After(Len(accepted[h + 1]), PlaceOf(p - 1)) = 0
    <2>1. B \in Seq(Byte)
      BY <1>1
    <2>2. \A i \in 1 .. Len(accepted) : Len(accepted[i]) \in Nat
      BY PackagesTyped
    <2> QED
      BY <1>2, <1>4, <2>1, <2>2, FirstPackage
  <1>6. Len(pkg) = p - 1 /\ \A k \in 1 .. p - 1 : pkg[k] = B[k]
    <2>1. /\ 1 \in Nat \ {0} /\ p - 1 \in 0 .. Len(b) /\ p - 1 - 1 + 1 = p - 1 /\ 1 <= p - 1
          /\ \A k \in 1 .. p - 1 : 1 + k - 1 = k /\ k \in 1 .. Len(b)
      BY <1>1, <1>3, <1>5
    <2>2. /\ Len(SubSeq(b, 1, p - 1)) = IF 1 <= p - 1 THEN p - 1 - 1 + 1 ELSE 0
          /\ \A i \in 1 .. p - 1 - 1 + 1 : SubSeq(b, 1, p - 1)[i] = b[1 + i - 1]
      BY <2>1, SubSeqOfBytes
    <2>3. Len(pkg) = p - 1
      BY <2>1, <2>2
    <2>4. \A i \in 1 .. p - 1 : pkg[i] = b[1 + i - 1]
      BY <2>1, <2>2
    <2>5. \A i \in 1 .. p - 1 : pkg[i] = b[i]
      BY <2>1, <2>4
    <2> QED
      BY <1>1, <2>1, <2>3, <2>5
  <1>7. Len(pkg) \in Nat \ {0} /\ pkg # <<>> /\ 1 \in 1 .. p - 1
    <2>1. Len(pkg) \in Nat \ {0} /\ Len(pkg) >= 1 /\ 1 \in 1 .. p - 1
      BY <1>1, <1>3, <1>5, <1>6
    <2> QED
      BY <2>1, NotEmpty
  <1>8. \A k \in 1 .. Len(pkg) : pkg[k] = <<h + 1, PlaceOf(k)>>
    BY <1>5, <1>6
  <1>9. ASSUME Parses(pkg) PROVE h + 1 <= Len(accepted) /\ Handles(pkg, h + 1)
    <2>1. h + 1 <= Len(accepted)
      BY <1>5
    <2>2. After(Len(accepted[h + 1]), PlaceOf(Len(pkg))) = 0
      BY <1>5, <1>6
    <2> QED
      BY <1>5, <1>7, <1>8, <1>9, <2>1, <2>2, WhatWasSent
  <1>10. \A k \in 1 .. Len(pkg) : pkg[k][1] = h + 1
    BY <1>8
  <1> QED
    BY <1>7, <1>9, <1>10 DEF ComesNext

\* What every round of the loop leaves: W is what comes after the buffer.
LoopStates(buffer, W) ==
    {s \in [buffer : Seq(Byte), handled : Seq(Seq(Byte)), loop : {"on", "done", "thrown"}] :
        /\ Len(s.handled) <= Len(accepted)
        /\ \A k \in 1 .. Len(s.handled) : Handles(s.handled[k], k)
        /\ s.loop # "thrown" =>
               /\ WellFormed(s.buffer \o W, Len(s.handled), accepted)
               /\ open => EndsAt(s.buffer \o W, Len(s.handled))
               /\ Stream(s.handled) \o s.buffer = Stream(handled) \o buffer}

LEMMA RoundKeeps ==
    ASSUME accepted \in Seq(Seq(Byte)), ArePackages,
           NEW buffer, NEW W \in Seq(Byte), NEW s \in LoopStates(buffer, W)
    PROVE  ReadPackage(s) \in LoopStates(buffer, W)
  <1> DEFINE cut == ExtractPkg(s.buffer)
             r == ReadPackage(s)
             h == Len(s.handled)
  <1>1. /\ s.buffer \in Seq(Byte) /\ s.handled \in Seq(Seq(Byte))
        /\ h <= Len(accepted) /\ \A k \in 1 .. h : Handles(s.handled[k], k)
    BY DEF LoopStates
  <1>2. s.loop # "thrown" =>
               /\ WellFormed(s.buffer \o W, h, accepted)
               /\ open => EndsAt(s.buffer \o W, h)
               /\ Stream(s.handled) \o s.buffer = Stream(handled) \o buffer
    BY DEF LoopStates
  <1>3. CASE s.loop # "on"
    <2>1. r = s
      BY <1>3 DEF ReadPackage
    <2> QED
      BY <2>1
  <1>4. CASE s.loop = "on"
    <2>1. r = [buffer |-> cut.rest,
               handled |-> IF cut.pkg # <<>> /\ Parses(cut.pkg)
                           THEN Append(s.handled, cut.pkg) ELSE s.handled,
               loop |-> IF cut.pkg = <<>> THEN "done"
                        ELSE IF Parses(cut.pkg) THEN "on" ELSE "thrown"]
      BY <1>4 DEF ReadPackage
    <2>2. /\ cut.pkg \in Seq(Byte) /\ cut.rest \in Seq(Byte)
          /\ \/ cut.pkg = <<>> /\ cut.rest = s.buffer
             \/ /\ \E p : /\ FirstEnd(s.buffer, p)
                          /\ cut.pkg = SubSeq(s.buffer, 1, p - 1)
                          /\ cut.rest = SubSeq(s.buffer, p + 2, Len(s.buffer))
                /\ s.buffer = cut.pkg \o Terminator \o cut.rest
      BY <1>1, ExtractCuts
    <2> DEFINE pkg == cut.pkg
               rest == cut.rest
    <2> HIDE DEF cut
    <2>3. h \in Nat /\ WellFormed(s.buffer \o W, h, accepted)
      BY <1>1, <1>2, <1>4, LenProperties
    <2>4. CASE pkg = <<>>
      <3>1. rest = s.buffer
        <4> SUFFICES ASSUME NEW p, FirstEnd(s.buffer, p), pkg = SubSeq(s.buffer, 1, p - 1)
                     PROVE  FALSE
          BY <2>2
        <4> HIDE DEF pkg, h
        <4>1. pkg # <<>>
          <5>1. s.buffer \in Seq(Byte) /\ pkg \in Seq(Byte)
            BY <1>1, <2>2 DEF pkg
          <5>2. ComesNext(pkg, h)
            BY <2>3, <5>1, NextPackage
          <5> QED
            BY <5>2 DEF ComesNext
        <4> QED
          BY <2>4, <4>1
      <3>2. r = [buffer |-> s.buffer, handled |-> s.handled, loop |-> "done"]
        BY <2>1, <2>4, <3>1
      <3> HIDE DEF r
      <3>3. r.buffer = s.buffer /\ r.handled = s.handled /\ r.loop = "done"
        BY <3>2
      <3> QED
        BY <1>1, <1>2, <1>4, <3>2, <3>3 DEF LoopStates, r
    <2>5. CASE pkg # <<>> /\ ~Parses(pkg)
      <3>1. r = [buffer |-> rest, handled |-> s.handled, loop |-> "thrown"]
        BY <2>1, <2>5
      <3> HIDE DEF r
      <3>2. r.buffer = rest /\ r.handled = s.handled /\ r.loop = "thrown"
        BY <3>1
      <3> QED
        BY <1>1, <2>2, <3>1, <3>2 DEF LoopStates, r
    <2>6. CASE pkg # <<>> /\ Parses(pkg)
      <3>1. PICK p : FirstEnd(s.buffer, p) /\ pkg = SubSeq(s.buffer, 1, p - 1)
        BY <2>2, <2>6
      <3>2. s.buffer = pkg \o Terminator \o rest /\ pkg \in Seq(Byte) /\ rest \in Seq(Byte)
        BY <2>2, <2>6
      <3> HIDE DEF pkg, rest
      <3>3. /\ Len(pkg) \in Nat \ {0} /\ \A k \in 1 .. Len(pkg) : pkg[k][1] = h + 1
            /\ h + 1 <= Len(accepted) /\ Handles(pkg, h + 1)
        <4> HIDE DEF h
        <4>1. s.buffer \in Seq(Byte) /\ pkg \in Seq(Byte)
          BY <1>1, <3>2
        <4>2. /\ Len(pkg) \in Nat \ {0} /\ \A k \in 1 .. Len(pkg) : pkg[k][1] = h + 1
              /\ Parses(pkg) => h + 1 <= Len(accepted) /\ Handles(pkg, h + 1)
          <5>1. ComesNext(pkg, h)
            BY <2>3, <3>1, <4>1, NextPackage
          <5> QED
            BY <5>1 DEF ComesNext
        <4>3. Parses(pkg)
          BY <2>6 DEF pkg
        <4> QED
          BY <4>2, <4>3
      <3> DEFINE more == Append(s.handled, pkg)
      <3>4. r = [buffer |-> rest, handled |-> more, loop |-> "on"]
        BY <2>1, <2>6 DEF pkg, rest
      <3> HIDE DEF r
      <3>5. r.buffer = rest /\ r.handled = more /\ r.loop = "on"
        BY <3>4
      <3>6. /\ more \in Seq(Seq(Byte)) /\ Len(more) = h + 1 /\ more[h + 1] = pkg
            /\ \A k \in 1 .. h : more[k] = s.handled[k]
        BY <1>1, <3>2, AppendProperties
      <3> HIDE DEF more
      <3>7. Len(more) <= Len(accepted) /\ \A k \in 1 .. Len(more) : Handles(more[k], k)
        <4> HIDE DEF h
        <4>1. \A k \in 1 .. h + 1 : k \in 1 .. h \/ k = h + 1
          BY <2>3
        <4> QED
          BY <1>1, <3>3, <3>6, <4>1
      <3> DEFINE D == pkg \o Terminator
                 C == rest \o W
      <3>8. D \in Seq(Byte) /\ C \in Seq(Byte)
        BY <3>2, TerminatorType, ConcatProperties
      <3>9. s.buffer \o W = D \o C
        <4>1. s.buffer = D \o rest
          BY <3>2
        <4> HIDE DEF D
        <4> QED
          BY <3>2, <3>8, <4>1, Regroup
      <3>10. /\ Len(D) >= 3 /\ D[Len(D)] = <<0, 2>> /\ D[Len(D) - 1] = <<0, 1>>
             /\ D[Len(D) - 2][1] = h + 1
        <4>1. /\ Len(D) = Len(pkg) + 2 /\ \A k \in 1 .. Len(pkg) : D[k] = pkg[k]
              /\ \A k \in 1 .. 2 : D[Len(pkg) + k] = Terminator[k]
          <5>1. pkg \in Seq(Byte) /\ Terminator \in Seq(Byte)
            BY <3>2, TerminatorType
          <5>2. /\ Len(D) = Len(pkg) + Len(Terminator)
                /\ \A k \in 1 .. Len(pkg) : D[k] = pkg[k]
                /\ \A k \in 1 .. Len(Terminator) : D[Len(pkg) + k] = Terminator[k]
            BY <5>1, Joined
          <5> HIDE DEF D
          <5> QED
            BY <5>2, TerminatorType
        <4> HIDE DEF D
        <4>2. D[Len(pkg) + 1] = <<0, 1>> /\ D[Len(pkg) + 2] = <<0, 2>>
          <5>1. 1 \in 1 .. 2 /\ 2 \in 1 .. 2
            OBVIOUS
          <5> QED
            BY <4>1, <5>1, TerminatorType
        <4>3. Len(pkg) \in 1 .. Len(pkg)
          BY <3>3
        <4>4. D[Len(pkg)][1] = h + 1
          BY <3>3, <4>1, <4>3
        <4>5. Len(D) - 1 = Len(pkg) + 1 /\ Len(D) - 2 = Len(pkg) /\ Len(D) >= 3
          BY <3>3, <4>1
        <4> QED
          BY <4>1, <4>2, <4>4, <4>5
      <3> HIDE DEF D, C
      <3>11. WellFormed(C, Len(more), accepted) /\ (open => EndsAt(C, Len(more)))
        <4>1. WellFormed(D \o C, h, accepted) /\ (open => EndsAt(D \o C, h))
          BY <1>2, <1>4, <3>9
        <4> HIDE DEF h
        <4>2. \A i, k : /\ WellFormed(C, h + 1, accepted)
                        /\ EndsAfter(D \o C, h, i) => EndsAfter(C, h + 1, i)
                        /\ EndsWithin(D \o C, i, k) => EndsWithin(C, i, k)
          BY <2>3, <3>8, <3>10, <4>1, BehindTerminator
        <4> QED
          BY <3>6, <4>1, <4>2 DEF EndsAt
      <3>12. Stream(more) \o rest = Stream(handled) \o buffer
        <4>1. Stream(more) = Stream(s.handled) \o D
          BY <1>1, <3>2, StreamOfAppend DEF more, D
        <4>2. Stream(s.handled) \in Seq(Byte)
          BY <1>1, StreamType
        <4>3. s.buffer = D \o rest
          BY <3>2 DEF D
        <4>4. Stream(more) \o rest = Stream(s.handled) \o (D \o rest)
          <5>1. D \in Seq(Byte) /\ rest \in Seq(Byte)
            BY <3>2, <3>8
          <5>2. (Stream(s.handled) \o D) \o rest = Stream(s.handled) \o (D \o rest)
            BY <4>2, <5>1, Regroup
          <5> QED
            BY <4>1, <5>2
        <4> QED
          BY <1>2, <1>4, <4>3, <4>4
      <3>13. r \in [buffer : Seq(Byte), handled : Seq(Seq(Byte)), loop : {"on", "done", "thrown"}]
        BY <3>2, <3>4, <3>6
      <3> QED
        BY <3>5, <3>7, <3>11, <3>12, <3>13 DEF LoopStates, C, r
    <2> QED
      BY <2>4, <2>5, <2>6
  <1> QED
    BY <1>3, <1>4

-----------------------------------------------------------------------------
(* What _send writes                                                        *)

LEMMA RestType ==
    ASSUME NEW pkg \in Seq(Byte)
    PROVE  /\ Rest(pkg) \in Seq(Byte)
           /\ Rest(pkg) = <<>> <=> Len(pkg) <= MaxBuffer
           /\ Len(Rest(pkg)) = IF Len(pkg) <= MaxBuffer THEN 0 ELSE Len(pkg) - MaxBuffer
           /\ \A k \in 1 .. Len(Rest(pkg)) : Rest(pkg)[k] = pkg[MaxBuffer + k]
  <1> DEFINE r == Rest(pkg)
             n == Len(pkg)
             m == MaxBuffer
  <1>1. n \in Nat /\ m \in Nat /\ m + 1 \in Nat \ {0} /\ n \in 0 .. n
    BY MaxBufferAssumption, LenProperties
  <1>2. /\ r \in Seq(Byte)
        /\ Len(r) = IF m + 1 <= n THEN n - (m + 1) + 1 ELSE 0
        /\ \A i \in 1 .. n - (m + 1) + 1 : r[i] = pkg[m + 1 + i - 1]
    BY <1>1, SubSeqOfBytes DEF Rest
  <1> HIDE DEF r, n, m
  <1>3. Len(r) = IF n <= m THEN 0 ELSE n - m
    BY <1>1, <1>2
  <1>4. r = <<>> <=> n <= m
    <2>1. Len(r) \in Nat /\ (r # <<>> <=> Len(r) >= 1)
      BY <1>2, NotEmpty
    <2>2. Len(r) >= 1 <=> ~(n <= m)
      BY <1>1, <1>3
    <2> QED
      BY <2>1, <2>2
  <1>5. ASSUME NEW k \in 1 .. Len(r) PROVE r[k] = pkg[m + k]
    <2>1. k \in 1 .. n - (m + 1) + 1 /\ m + 1 + k - 1 = m + k
      BY <1>1, <1>3
    <2> QED
      BY <1>2, <2>1
  <1> QED
    BY <1>2, <1>3, <1>4, <1>5 DEF r, n, m

\* The front of a sequence, at most m long.
LEMMA FrontType ==
    ASSUME NEW now \in Seq(Byte), NEW m \in Nat \ {0}, NEW n \in Nat, n <= m, n <= Len(now)
    PROVE  /\ SubSeq(now, 1, n) \in Seq(Byte) /\ Len(SubSeq(now, 1, n)) = n
           /\ \A k \in 1 .. n : SubSeq(now, 1, n)[k] = now[k]
  <1>1. /\ 1 \in Nat \ {0} /\ n \in 0 .. Len(now) /\ n - 1 + 1 = n
        /\ \A k \in 1 .. n : 1 + k - 1 = k
    BY LenProperties
  <1> DEFINE w == SubSeq(now, 1, n)
  <1>2. /\ w \in Seq(Byte) /\ Len(w) = IF 1 <= n THEN n - 1 + 1 ELSE 0
        /\ \A i \in 1 .. n - 1 + 1 : w[i] = now[1 + i - 1]
    BY <1>1, SubSeqOfBytes
  <1> HIDE DEF w
  <1>3. Len(w) = n
    BY <1>1, <1>2
  <1>4. \A i \in 1 .. n : w[i] = now[1 + i - 1]
    BY <1>1, <1>2
  <1> QED
    BY <1>1, <1>2, <1>3, <1>4 DEF w

\* A chunk is the front of what is left of the package, or ends with a terminator.
LEMMA ChunkType ==
    ASSUME NEW pkg \in Seq(Byte), NEW now \in Seq(Byte), Len(now) <= Len(pkg)
    PROVE  /\ Chunk(pkg, now) \in Seq(Byte) /\ Len(Chunk(pkg, now)) <= MaxBuffer + 2
           /\ Len(pkg) <= MaxBuffer => Chunk(pkg, now) = now \o Terminator
           /\ Len(pkg) > MaxBuffer =>
                  /\ now # <<>> => Chunk(pkg, now) # <<>>
                  /\ Len(Chunk(pkg, now)) = IF Len(now) < MaxBuffer THEN Len(now) ELSE MaxBuffer
                  /\ \A k \in 1 .. Len(Chunk(pkg, now)) :
                         k \in 1 .. Len(now) /\ Chunk(pkg, now)[k] = now[k]
  <1> DEFINE w == Chunk(pkg, now)
             n == IF Len(now) < MaxBuffer THEN Len(now) ELSE MaxBuffer
  <1>1. Len(pkg) \in Nat /\ Len(now) \in Nat /\ MaxBuffer \in Nat \ {0}
    BY MaxBufferAssumption, LenProperties
  <1>2. CASE Len(pkg) <= MaxBuffer
    <2>1. w = now \o Terminator
      BY <1>1, <1>2 DEF Chunk
    <2>2. w \in Seq(Byte) /\ Len(w) = Len(now) + 2
      <3>1. now \o Terminator \in Seq(Byte)
        BY TerminatorType, ConcatProperties
      <3>2. Len(now \o Terminator) = Len(now) + Len(Terminator)
        <4>1. Terminator \in Seq(Byte)
          BY TerminatorType
        <4> QED
          BY <4>1, ConcatProperties
      <3> HIDE DEF w
      <3> QED
        BY <2>1, <3>1, <3>2, TerminatorType
    <2> HIDE DEF w
    <2>3. Len(w) <= MaxBuffer + 2 /\ ~(Len(pkg) > MaxBuffer)
      BY <1>1, <1>2, <2>2
    <2> QED
      BY <2>1, <2>2, <2>3 DEF w
  <1>3. CASE Len(pkg) > MaxBuffer
    <2>1. w = SubSeq(now, 1, n)
      BY <1>3 DEF Chunk
    <2>2. n \in Nat /\ n <= MaxBuffer /\ n <= Len(now) /\ n <= MaxBuffer + 2
          /\ ~(Len(pkg) <= MaxBuffer) /\ (Len(now) >= 1 => n >= 1)
      BY <1>1, <1>3
    <2> HIDE DEF n, w
    <2>3. w \in Seq(Byte) /\ Len(w) = n /\ \A k \in 1 .. n : w[k] = now[k]
      BY <1>1, <2>1, <2>2, FrontType
    <2>4. now # <<>> => w # <<>>
      BY <2>2, <2>3, NotEmpty
    <2>5. \A k \in 1 .. n : k \in 1 .. Len(now)
      BY <1>1, <2>2
    <2> QED
      BY <2>2, <2>3, <2>4, <2>5 DEF w, n
  <1> QED
    BY <1>1, <1>2, <1>3

\* The bytes of package i from the place after c on.
BytesFrom(B, i, c) == B \in Seq(Byte) /\ \A k \in 1 .. Len(B) : B[k] = <<i, c + k>>

\* The rest of such bytes.
LEMMA RestBytes ==
    ASSUME NEW pkg, NEW i, NEW c \in Nat, BytesFrom(pkg, i, c)
    PROVE  BytesFrom(Rest(pkg), i, c + MaxBuffer)
  <1> DEFINE r == Rest(pkg)
  <1>1. /\ pkg \in Seq(Byte) /\ Len(pkg) \in Nat /\ MaxBuffer \in Nat \ {0}
        /\ \A k \in 1 .. Len(pkg) : pkg[k] = <<i, c + k>>
    BY LenProperties, MaxBufferAssumption DEF BytesFrom
  <1>2. /\ r \in Seq(Byte)
        /\ Len(r) = IF Len(pkg) <= MaxBuffer THEN 0 ELSE Len(pkg) - MaxBuffer
        /\ \A k \in 1 .. Len(r) : r[k] = pkg[MaxBuffer + k]
    BY <1>1, RestType
  <1> HIDE DEF r
  <1>3. ASSUME NEW k \in 1 .. Len(r) PROVE r[k] = <<i, c + MaxBuffer + k>>
    <2>1. MaxBuffer + k \in 1 .. Len(pkg) /\ c + (MaxBuffer + k) = c + MaxBuffer + k
      BY <1>1, <1>2
    <2> QED
      BY <1>1, <1>2, <2>1
  <1> QED
    BY <1>2, <1>3 DEF BytesFrom, r

\* The first chunk of a package i: typed, and the whole of a package that fits.
IsFirstChunk(pkg, i) ==
    /\ pkg \in Seq(Byte) /\ Len(pkg) \in Nat
    /\ BytesFrom(Rest(pkg), i, MaxBuffer)
    /\ Len(pkg) > MaxBuffer => Len(Rest(pkg)) = Len(pkg) - MaxBuffer
    /\ Chunk(pkg, pkg) \in Seq(Byte) /\ Len(Chunk(pkg, pkg)) <= MaxBuffer + 2
    /\ Rest(pkg) = <<>> <=> Len(pkg) <= MaxBuffer
    /\ Len(pkg) <= MaxBuffer => Chunk(pkg, pkg) = pkg \o Terminator

LEMMA FirstChunk ==
    ASSUME NEW i \in Nat, NEW len \in Lengths, NEW pkg, pkg = Package(i, len)
    PROVE  IsFirstChunk(pkg, i)
  <1>1. len \in Nat \ {0}
    BY LengthsAssumption
  <1>2. /\ pkg \in Seq(Byte) /\ Len(pkg) = len /\ Len(pkg) \in Nat
        /\ \A k \in 1 .. len : pkg[k] = <<i, k>>
    BY <1>1, PackageType, LenProperties
  <1>3. BytesFrom(Rest(pkg), i, MaxBuffer)
    <2>1. BytesFrom(pkg, i, 0)
      BY <1>2 DEF BytesFrom
    <2>2. BytesFrom(Rest(pkg), i, 0 + MaxBuffer)
      BY <2>1, RestBytes
    <2>3. 0 + MaxBuffer = MaxBuffer
      BY MaxBufferAssumption
    <2> QED
      BY <2>2, <2>3
  <1>4. /\ Rest(pkg) = <<>> <=> Len(pkg) <= MaxBuffer
        /\ Len(Rest(pkg)) = IF Len(pkg) <= MaxBuffer THEN 0 ELSE Len(pkg) - MaxBuffer
    BY <1>2, RestType
  <1>5. /\ Chunk(pkg, pkg) \in Seq(Byte) /\ Len(Chunk(pkg, pkg)) <= MaxBuffer + 2
        /\ Len(pkg) <= MaxBuffer => Chunk(pkg, pkg) = pkg \o Terminator
    <2>1. Len(pkg) <= Len(pkg)
      BY <1>2
    <2> QED
      BY <1>2, <2>1, ChunkType
  <1>6. Len(pkg) > MaxBuffer => Len(Rest(pkg)) = Len(pkg) - MaxBuffer
    <2>1. Len(pkg) > MaxBuffer => ~(Len(pkg) <= MaxBuffer)
      BY <1>2, MaxBufferAssumption
    <2> QED
      BY <1>4, <2>1
  <1> QED
    BY <1>2, <1>3, <1>4, <1>5, <1>6 DEF IsFirstChunk

\* Written behind whole packages, it leaves the stream well-formed.
LEMMA FirstChunkFrames ==
    ASSUME NEW B \in Seq(Byte), NEW h, NEW i \in Nat, NEW acc, i + 1 \in 1 .. Len(acc),
           WellFormed(B, h, acc), EndsAfter(B, h, i),
           NEW len \in Lengths, NEW pkg, pkg = Package(i + 1, len), acc[i + 1] = pkg
    PROVE  /\ WellFormed(B \o Chunk(pkg, pkg), h, acc)
           /\ IF Rest(pkg) = <<>> THEN EndsAfter(B \o Chunk(pkg, pkg), h, i + 1)
              ELSE EndsWithin(B \o Chunk(pkg, pkg), i + 1, MaxBuffer)
  <1> DEFINE w == Chunk(pkg, pkg)
  <1>1. len \in Nat \ {0} /\ i + 1 \in Nat /\ 1 \in 1 .. len
    BY LengthsAssumption
  <1>2. /\ pkg \in Seq(Byte) /\ Len(pkg) = len /\ Len(pkg) \in Nat
        /\ \A k \in 1 .. len : pkg[k] = <<i + 1, k>>
        /\ pkg # <<>> /\ MaxBuffer \in Nat \ {0} /\ Len(acc[i + 1]) = len
    BY <1>1, PackageType, LenProperties, MaxBufferAssumption
  <1>3. Rest(pkg) = <<>> <=> Len(pkg) <= MaxBuffer
    BY <1>2, RestType
  <1>4. /\ w \in Seq(Byte)
        /\ Len(pkg) <= MaxBuffer => w = pkg \o Terminator
        /\ Len(pkg) > MaxBuffer =>
               /\ w # <<>>
               /\ Len(w) = IF Len(pkg) < MaxBuffer THEN Len(pkg) ELSE MaxBuffer
               /\ \A k \in 1 .. Len(w) : k \in 1 .. Len(pkg) /\ w[k] = pkg[k]
    <2>1. Len(pkg) <= Len(pkg)
      BY <1>2
    <2> QED
      BY <1>2, <2>1, ChunkType
  <1> HIDE DEF w
  <1>5. CASE Len(pkg) <= MaxBuffer
    <2> DEFINE D == B \o pkg
    <2>1. /\ \A j \in 1 .. Len(pkg) : pkg[j] = <<i + 1, j>>
          /\ \A j \in 1 .. Len(pkg) - 1 : After(Len(acc[i + 1]), j) = j + 1
      <3>1. \A j \in 1 .. len - 1 : After(len, j) = j + 1
        BY <1>1, <1>2, <1>5 DEF After
      <3> QED
        BY <1>2, <3>1
    <2>2. WellFormed(D, h, acc) /\ EndsWithin(D, i + 1, Len(pkg)) /\ D \in Seq(Byte)
      BY <1>2, <2>1, Begin, ConcatProperties
    <2>3. B \o w = D \o Terminator
      <3>1. pkg \in Seq(Byte) /\ Terminator \in Seq(Byte)
        BY <1>2, TerminatorType
      <3>2. (B \o pkg) \o Terminator = B \o (pkg \o Terminator)
        BY <3>1, Regroup
      <3> QED
        BY <1>4, <1>5, <3>2
    <2>4. After(Len(acc[i + 1]), Len(pkg)) = 0
      BY <1>2 DEF After
    <2> HIDE DEF D
    <2>5. WellFormed(D \o Terminator, h, acc) /\ EndsAfter(D \o Terminator, h, i + 1)
      BY <2>2, <2>4, Terminate
    <2> QED
      BY <1>3, <1>5, <2>3, <2>5 DEF w
  <1>6. CASE Len(pkg) > MaxBuffer
    <2>1. /\ w # <<>> /\ \A k \in 1 .. Len(w) : k \in 1 .. Len(pkg) /\ w[k] = pkg[k]
          /\ Len(w) = MaxBuffer
      <3>1. ~(Len(pkg) < MaxBuffer)
        BY <1>2, <1>6
      <3> QED
        BY <1>4, <1>6, <3>1
    <2>2. /\ \A j \in 1 .. Len(w) : w[j] = <<i + 1, j>>
          /\ \A j \in 1 .. Len(w) - 1 : After(Len(acc[i + 1]), j) = j + 1
      <3>1. \A j \in 1 .. MaxBuffer - 1 : After(len, j) = j + 1
        BY <1>1, <1>2, <1>6 DEF After
      <3> QED
        BY <1>2, <2>1, <3>1
    <2>3. WellFormed(B \o w, h, acc) /\ EndsWithin(B \o w, i + 1, MaxBuffer)
      <3>1. WellFormed(B \o w, h, acc) /\ EndsWithin(B \o w, i + 1, Len(w))
        BY <1>4, <2>1, <2>2, Begin
      <3> QED
        BY <2>1, <3>1
    <2>4. Rest(pkg) # <<>>
      BY <1>2, <1>3, <1>6
    <2> QED
      BY <2>3, <2>4 DEF w
  <1> QED
    BY <1>2, <1>5, <1>6

\* Where a later chunk begins and ends, and what follows its places.
LEMMA LaterPlaces ==
    ASSUME NEW len \in Nat, NEW c \in Nat, c >= MaxBuffer, c < len
    PROVE  /\ len - c <= MaxBuffer => After(len, LastPlace(c, len)) = 0
           /\ len - c > MaxBuffer =>
                  /\ After(len, LastPlace(c, len)) = c + MaxBuffer + 1
                  /\ \A n \in Nat : n = (IF len - c - MaxBuffer < MaxBuffer
                                         THEN len - c - MaxBuffer ELSE MaxBuffer) =>
                         /\ LastPlace(c + MaxBuffer, len) = c + MaxBuffer + n
                         /\ \A j \in 1 .. n - 1 :
                                After(len, c + MaxBuffer + j) = c + MaxBuffer + j + 1
  <1>1. MaxBuffer \in Nat \ {0}
    BY MaxBufferAssumption
  <1>2. len - c <= MaxBuffer => After(len, LastPlace(c, len)) = 0
    BY <1>1 DEF After, LastPlace
  <1>3. len - c > MaxBuffer => After(len, LastPlace(c, len)) = c + MaxBuffer + 1
    BY <1>1 DEF After, LastPlace
  <1>4. ASSUME len - c > MaxBuffer, NEW n \in Nat,
               n = IF len - c - MaxBuffer < MaxBuffer THEN len - c - MaxBuffer ELSE MaxBuffer
        PROVE  /\ LastPlace(c + MaxBuffer, len) = c + MaxBuffer + n
               /\ \A j \in 1 .. n - 1 : After(len, c + MaxBuffer + j) = c + MaxBuffer + j + 1
    BY <1>1, <1>4 DEF After, LastPlace
  <1> QED
    BY <1>2, <1>3, <1>4

\* A later chunk, of which the first MaxBuffer bytes are lost: typed.
LEMMA NextChunk ==
    ASSUME NEW pkg, NEW i, NEW c \in Nat, BytesFrom(pkg, i, c)
    PROVE  /\ BytesFrom(Rest(pkg), i, c + MaxBuffer)
           /\ Rest(pkg) = <<>> <=> Len(pkg) <= MaxBuffer
           /\ Rest(pkg) # <<>> => Len(Rest(pkg)) = Len(pkg) - MaxBuffer
           /\ Chunk(pkg, Rest(pkg)) \in Seq(Byte) /\ Len(Chunk(pkg, Rest(pkg))) <= MaxBuffer + 2
           /\ Rest(pkg) = <<>> => Chunk(pkg, Rest(pkg)) = Terminator
           /\ Rest(pkg) # <<>> =>
                  /\ Chunk(pkg, Rest(pkg)) # <<>>
                  /\ BytesFrom(Chunk(pkg, Rest(pkg)), i, c + MaxBuffer)
                  /\ Len(Chunk(pkg, Rest(pkg))) =
                         IF Len(pkg) - MaxBuffer < MaxBuffer THEN Len(pkg) - MaxBuffer ELSE MaxBuffer
  <1> DEFINE r == Rest(pkg)
             w == Chunk(pkg, r)
  <1>1. pkg \in Seq(Byte) /\ Len(pkg) \in Nat /\ MaxBuffer \in Nat \ {0}
    BY LenProperties, MaxBufferAssumption DEF BytesFrom
  <1>2. /\ r \in Seq(Byte)
        /\ r = <<>> <=> Len(pkg) <= MaxBuffer
        /\ Len(r) = IF Len(pkg) <= MaxBuffer THEN 0 ELSE Len(pkg) - MaxBuffer
        /\ BytesFrom(r, i, c + MaxBuffer)
    BY <1>1, RestType, RestBytes
  <1> HIDE DEF r
  <1>3. Len(r) <= Len(pkg) /\ (r # <<>> => Len(pkg) > MaxBuffer)
    BY <1>1, <1>2
  <1>4. /\ w \in Seq(Byte) /\ Len(w) <= MaxBuffer + 2
        /\ Len(pkg) <= MaxBuffer => w = r \o Terminator
        /\ Len(pkg) > MaxBuffer =>
               /\ r # <<>> => w # <<>>
               /\ Len(w) = IF Len(r) < MaxBuffer THEN Len(r) ELSE MaxBuffer
               /\ \A k \in 1 .. Len(w) : k \in 1 .. Len(r) /\ w[k] = r[k]
    BY <1>1, <1>2, <1>3, ChunkType
  <1> HIDE DEF w
  <1>5. r = <<>> => w = Terminator
    <2>1. <<>> \o Terminator = Terminator
      BY TerminatorType, ConcatEmptySeq
    <2> QED
      BY <1>2, <1>4, <2>1
  <1>6. r # <<>> =>
            /\ w # <<>> /\ BytesFrom(w, i, c + MaxBuffer)
            /\ Len(w) = IF Len(pkg) - MaxBuffer < MaxBuffer THEN Len(pkg) - MaxBuffer ELSE MaxBuffer
    BY <1>2, <1>3, <1>4 DEF BytesFrom
  <1>7. r # <<>> => Len(r) = Len(pkg) - MaxBuffer
    BY <1>2
  <1> QED
    BY <1>2, <1>4, <1>5, <1>6, <1>7 DEF r, w

\* Such a chunk, or the terminator, written behind what was written of a package.
LEMMA NextChunkFrames ==
    ASSUME NEW B \in Seq(Byte), NEW h, NEW i \in Nat, NEW acc, i \in 1 .. Len(acc),
           NEW len \in Nat, Len(acc[i]) = len, NEW c \in Nat, c >= MaxBuffer, c < len,
           WellFormed(B, h, acc), EndsWithin(B, i, LastPlace(c, len)),
           NEW pkg, BytesFrom(pkg, i, c), Len(pkg) = len - c
    PROVE  /\ WellFormed(B \o Chunk(pkg, Rest(pkg)), h, acc)
           /\ IF Rest(pkg) = <<>> THEN EndsAfter(B \o Chunk(pkg, Rest(pkg)), h, i)
              ELSE EndsWithin(B \o Chunk(pkg, Rest(pkg)), i, LastPlace(c + MaxBuffer, len))
  <1> DEFINE r == Rest(pkg)
             w == Chunk(pkg, r)
  <1>1. MaxBuffer \in Nat \ {0}
    BY MaxBufferAssumption
  <1>2. /\ r = <<>> <=> Len(pkg) <= MaxBuffer
        /\ w \in Seq(Byte)
        /\ r = <<>> => w = Terminator
        /\ r # <<>> =>
               /\ w # <<>> /\ BytesFrom(w, i, c + MaxBuffer)
               /\ Len(w) = IF Len(pkg) - MaxBuffer < MaxBuffer THEN Len(pkg) - MaxBuffer ELSE MaxBuffer
    BY NextChunk
  <1> HIDE DEF r, w
  <1>3. /\ len - c <= MaxBuffer => After(len, LastPlace(c, len)) = 0
        /\ len - c > MaxBuffer =>
               /\ After(len, LastPlace(c, len)) = c + MaxBuffer + 1
               /\ \A n \in Nat : n = (IF len - c - MaxBuffer < MaxBuffer
                                      THEN len - c - MaxBuffer ELSE MaxBuffer) =>
                      /\ LastPlace(c + MaxBuffer, len) = c + MaxBuffer + n
                      /\ \A j \in 1 .. n - 1 :
                             After(len, c + MaxBuffer + j) = c + MaxBuffer + j + 1
    BY LaterPlaces
  <1>4. CASE r = <<>>
    <2>1. After(len, LastPlace(c, len)) = 0
      BY <1>2, <1>3, <1>4
    <2>2. WellFormed(B \o Terminator, h, acc) /\ EndsAfter(B \o Terminator, h, i)
      BY <2>1, Terminate
    <2> QED
      BY <1>2, <1>4, <2>2 DEF r, w
  <1>5. CASE r # <<>>
    <2> DEFINE d == c + MaxBuffer
    <2>1. /\ Len(pkg) > MaxBuffer /\ Len(w) \in Nat /\ d \in Nat /\ len - c > MaxBuffer
          /\ Len(w) = IF len - c - MaxBuffer < MaxBuffer THEN len - c - MaxBuffer ELSE MaxBuffer
      <3>1. ~(Len(pkg) <= MaxBuffer) /\ Len(w) \in Nat
        BY <1>2, <1>5, LenProperties
      <3>2. Len(pkg) > MaxBuffer
        BY <1>1, <3>1
      <3> QED
        BY <1>1, <1>2, <1>5, <3>1, <3>2
    <2>2. /\ After(len, LastPlace(c, len)) = d + 1 /\ LastPlace(d, len) = d + Len(w)
          /\ \A j \in 1 .. Len(w) - 1 : After(len, d + j) = d + j + 1
      BY <1>3, <2>1
    <2>3. \A j \in 1 .. Len(w) : w[j] = <<i, d + j>>
      BY <1>2, <1>5 DEF BytesFrom
    <2> HIDE DEF d
    <2>4. WellFormed(B \o w, h, acc) /\ EndsWithin(B \o w, i, d + Len(w))
      BY <1>2, <1>5, <2>1, <2>2, <2>3, GoOn
    <2> QED
      BY <1>5, <2>2, <2>4 DEF r, w, d
  <1> QED
    BY <1>4, <1>5

-----------------------------------------------------------------------------
(* The inductive invariant                                                  *)

\* The bytes that have left the sender and are not yet part of a whole package.
OnItsWay == stream_buffer \o wire \o writing

\* The packages that wait are the last that were accepted.
QueueIsRest ==
    /\ Len(pkg_queue) <= Len(accepted)
    /\ \A k \in 1 .. Len(pkg_queue) : pkg_queue[k] = accepted[Started + k]

\* What is on its way is whole packages from the one after the last handled to the
\* one started last, of which some bytes may be missing and, with pending data, the
\* end.
Frames ==
    reader = "reading" =>
        /\ WellFormed(OnItsWay, Len(handled), accepted)
        /\ open => EndsAt(OnItsWay, Len(handled))

\* The pending data are the end of the package started last, from the place where it
\* was cut on, behind its first MaxBuffer bytes.
PendingIsStarted ==
    open /\ pending_data # <<>> =>
        /\ Started \in 1 .. Len(accepted)
        /\ Cut \in Nat /\ Cut >= MaxBuffer /\ Cut < Len(accepted[Started])
        /\ BytesFrom(pending_data, Started, Cut)

IdleIsEmpty == open /\ ~busy => writing = <<>> /\ pkg_queue = <<>> /\ pending_data = <<>>

OneWrite == open /\ OneWriteEach => pending_data = <<>>

StreamInv ==
    /\ TypeOK
    /\ ArePackages
    /\ QueueIsRest
    /\ FramedInOrder
    /\ Frames
    /\ PendingIsStarted
    /\ IdleIsEmpty
    /\ OneWrite
    /\ NothingLost

\* TypeOK with the bytes named.
Types ==
    /\ open \in BOOLEAN /\ busy \in BOOLEAN
    /\ pending_data \in Seq(Byte) /\ writing \in Seq(Byte)
    /\ wire \in Seq(Byte) /\ stream_buffer \in Seq(Byte)
    /\ pkg_queue \in Seq(Seq(Byte)) /\ accepted \in Seq(Seq(Byte))
    /\ handled \in Seq(Seq(Byte))
    /\ reader \in {"reading", "closed", "thrown"}
    /\ Len(writing) <= MaxBuffer + 2

LEMMA TypeOKIsTypes == TypeOK <=> Types
  BY TerminatorType DEF TypeOK, Types, Byte

LEMMA TypesPrimed == TypeOK' <=> Types'
  <1>1. Len(Terminator)' = 2
    BY TerminatorType DEF Terminator
  <1> QED
    BY <1>1 DEF TypeOK, Types, Byte

LEMMA StreamInvInit == Init => StreamInv
  <1> SUFFICES ASSUME Init PROVE StreamInv
    OBVIOUS
  <1> USE DEF Init
  <1>1. <<>> \in Seq(Byte) /\ <<>> \in Seq(Seq(Byte)) /\ Len(<<>>) = 0
    BY EmptySeq
  <1>2. <<>> \o <<>> = <<>>
    BY <1>1, ConcatEmptySeq
  <1>3. TypeOK
    <2>1. 0 <= MaxBuffer + 2
      BY MaxBufferAssumption
    <2> QED
      BY <1>1, <2>1, TypeOKIsTypes DEF Types
  <1>4. ArePackages /\ QueueIsRest /\ PendingIsStarted /\ IdleIsEmpty /\ OneWrite
    BY <1>1 DEF ArePackages, QueueIsRest, PendingIsStarted, IdleIsEmpty, OneWrite, Started
  <1>5. FramedInOrder
    <2>1. Len(handled) <= Len(accepted) /\ DOMAIN handled = {}
      BY <1>1
    <2> QED
      BY <2>1 DEF FramedInOrder
  <1>6. Frames
    <2>1. OnItsWay = <<>>
      BY <1>2 DEF OnItsWay
    <2>2. Started = 0 /\ Len(handled) = 0
      BY <1>1 DEF Started
    <2> QED
      BY <1>1, <2>1, <2>2 DEF Frames, WellFormed, EndsAt, EndsAfter
  <1>7. NothingLost
    BY <1>2, StreamOfNone DEF NothingLost
  <1> QED
    BY <1>3, <1>4, <1>5, <1>6, <1>7 DEF StreamInv

-----------------------------------------------------------------------------
(* Its steps                                                                *)

\* A well-formed stream of some packages is one of more.
LEMMA GrowsWellFormed ==
    ASSUME NEW B, NEW h, NEW acc, NEW more, Len(acc) \in Nat, Len(more) \in Nat,
           Len(acc) <= Len(more), \A k \in 1 .. Len(acc) : more[k] = acc[k],
           WellFormed(B, h, acc), Len(B) \in Nat
    PROVE  WellFormed(B, h, more)
  <1>1. \A p \in 1 .. Len(B) : IsOf(B[p], more)
    <2>1. \A i \in 1 .. Len(acc) : i \in 1 .. Len(more)
      OBVIOUS
    <2> QED
      BY <2>1 DEF WellFormed, IsOf
  <1>2. ASSUME NEW p \in 1 .. Len(B) - 1 PROVE FollowedBy(B, p, more)
    <2>1. FollowedBy(B, p, acc) /\ p \in 1 .. Len(B)
      BY DEF WellFormed
    <2>2. CASE B[p][1] # 0 /\ B[p + 1] = Successor(B[p], acc)
      <3>1. IsOf(B[p], acc)
        BY <2>1 DEF WellFormed
      <3>2. B[p] # <<0, 1>> /\ B[p] # <<0, 2>>
        BY <2>2
      <3>3. B[p][1] \in 1 .. Len(acc)
        BY <3>1, <3>2 DEF IsOf
      <3>4. more[B[p][1]] = acc[B[p][1]]
        BY <3>3
      <3> QED
        BY <2>2, <3>4 DEF FollowedBy, Successor
    <2>3. CASE ~(B[p][1] # 0 /\ B[p + 1] = Successor(B[p], acc))
      BY <2>1, <2>3 DEF FollowedBy
    <2> QED
      BY <2>2, <2>3
  <1> QED
    BY <1>1, <1>2 DEF WellFormed

\* What qsend does to the history, whether or not it writes.
LEMMA Accepts ==
    ASSUME StreamInv, NEW len \in Lengths, NEW pkg, pkg = Package(Len(accepted) + 1, len),
           accepted' = Append(accepted, pkg), handled' = handled
    PROVE  /\ pkg \in Seq(Byte) /\ Len(accepted) \in Nat
           /\ accepted' \in Seq(Seq(Byte)) /\ Len(accepted') = Len(accepted) + 1
           /\ accepted'[Len(accepted) + 1] = pkg
           /\ \A k \in 1 .. Len(accepted) : accepted'[k] = accepted[k]
           /\ ArePackages' /\ FramedInOrder'
           /\ OneWriteEach' => OneWriteEach /\ Len(pkg) <= MaxBuffer
           /\ Stream(accepted') = Stream(accepted) \o (pkg \o Terminator)
  <1> DEFINE n == Len(accepted)
             more == accepted'
  <1>1. accepted \in Seq(Seq(Byte)) /\ handled \in Seq(Seq(Byte)) /\ n \in Nat
    BY TypeOKIsTypes, LenProperties DEF StreamInv, Types
  <1>2. pkg \in Seq(Byte)
    <2>1. len \in Nat \ {0} /\ n + 1 \in Nat
      BY <1>1, LengthsAssumption
    <2> QED
      BY <2>1, PackageType
  <1>3. /\ more \in Seq(Seq(Byte)) /\ Len(more) = n + 1 /\ more[n + 1] = pkg
        /\ \A k \in 1 .. n : more[k] = accepted[k]
    BY <1>1, <1>2, AppendProperties
  <1>4. Stream(more) = Stream(accepted) \o (pkg \o Terminator)
    BY <1>1, <1>2, StreamOfAppend
  <1>5. FramedInOrder'
    <2>1. Len(handled) <= n /\ \A k \in 1 .. Len(handled) : Handles(handled[k], k)
      BY <1>1, LenProperties DEF StreamInv, FramedInOrder, Handles
    <2>2. DOMAIN handled = 1 .. Len(handled) /\ Len(handled) \in Nat
      BY <1>1, LenProperties
    <2> HIDE DEF more
    <2>3. Len(handled) <= Len(more)
      BY <1>1, <1>3, <2>1, <2>2
    <2>4. ASSUME NEW k \in 1 .. Len(handled)
          PROVE  \/ handled[k] = more[k]
                 \/ Len(more[k]) > 2 * MaxBuffer /\ handled[k] = Spliced(more[k])
      <3>1. k \in 1 .. n
        BY <1>1, <2>1, <2>2
      <3>2. more[k] = accepted[k]
        BY <1>3, <3>1
      <3> QED
        BY <2>1, <3>2 DEF Handles
    <2>5. /\ Len(handled') <= Len(accepted')
          /\ \A k \in DOMAIN handled' :
                 \/ handled'[k] = accepted'[k]
                 \/ Len(accepted'[k]) > 2 * MaxBuffer /\ handled'[k] = Spliced(accepted'[k])
      BY <2>2, <2>3, <2>4 DEF more
    <2> QED
      BY <2>5 DEF FramedInOrder, Spliced
  <1> HIDE DEF more, n
  <1>6. \A k \in 1 .. n + 1 : k \in 1 .. n \/ k = n + 1
    BY <1>1
  <1>7. ArePackages'
    <2>1. \A k \in 1 .. n : \E l \in Lengths : accepted[k] = Package(k, l)
      BY DEF StreamInv, ArePackages, n
    <2>2. more[n + 1] = Package(n + 1, len)
      BY <1>3 DEF n
    <2>3. \A k \in 1 .. Len(more) : \E l \in Lengths : more[k] = Package(k, l)
      <3> SUFFICES ASSUME NEW k \in 1 .. Len(more)
                   PROVE  \E l \in Lengths : more[k] = Package(k, l)
        OBVIOUS
      <3>1. CASE k \in 1 .. n
        BY <1>3, <2>1, <3>1
      <3>2. CASE k = n + 1
        BY <2>2, <3>2
      <3> QED
        BY <1>3, <1>6, <3>1, <3>2
    <2> QED
      BY <2>3 DEF ArePackages, more
  <1>8. OneWriteEach' => OneWriteEach /\ Len(pkg) <= MaxBuffer
    <2>1. DOMAIN accepted = 1 .. n /\ DOMAIN more = 1 .. n + 1
      BY <1>1, <1>3, LenProperties DEF n
    <2>2. n + 1 \in 1 .. n + 1 /\ \A k \in 1 .. n : k \in 1 .. n + 1
      BY <1>1
    <2>3. ASSUME \A k \in DOMAIN more : Len(more[k]) <= MaxBuffer
          PROVE  OneWriteEach /\ Len(pkg) <= MaxBuffer
      BY <1>3, <2>1, <2>2, <2>3 DEF OneWriteEach
    <2> QED
      BY <2>3 DEF OneWriteEach, more
  <1> QED
    BY <1>1, <1>2, <1>3, <1>4, <1>5, <1>7, <1>8 DEF n, more

\* qsend while a write is outstanding.
LEMMA QsendWaits ==
    ASSUME StreamInv, NEW len \in Lengths, NEW pkg, pkg = Package(Len(accepted) + 1, len),
           busy, accepted' = Append(accepted, pkg), pkg_queue' = Append(pkg_queue, pkg),
           UNCHANGED <<open, busy, pending_data, writing, wire, readerVars>>
    PROVE  StreamInv'
  <1> USE DEF readerVars
  <1> DEFINE n == Len(accepted)
             q == Len(pkg_queue)
             S == Started
  <1>1. Types
    BY TypeOKIsTypes DEF StreamInv
  <1>2. /\ pkg \in Seq(Byte) /\ n \in Nat
        /\ accepted' \in Seq(Seq(Byte)) /\ Len(accepted') = n + 1
        /\ accepted'[n + 1] = pkg
        /\ \A k \in 1 .. n : accepted'[k] = accepted[k]
        /\ ArePackages' /\ FramedInOrder'
        /\ OneWriteEach' => OneWriteEach /\ Len(pkg) <= MaxBuffer
        /\ Stream(accepted') = Stream(accepted) \o (pkg \o Terminator)
    BY Accepts
  <1>3. /\ pkg_queue' \in Seq(Seq(Byte)) /\ Len(pkg_queue') = q + 1 /\ q \in Nat
        /\ pkg_queue'[q + 1] = pkg /\ \A k \in 1 .. q : pkg_queue'[k] = pkg_queue[k]
    BY <1>1, <1>2, AppendProperties, LenProperties DEF Types
  <1>4. q <= n /\ (\A k \in 1 .. q : pkg_queue[k] = accepted[S + k]) /\ S = n - q
    BY DEF StreamInv, QueueIsRest, Started
  <1> HIDE DEF n, q, S
  <1>5. Started' = S
    <2>1. Started' = (n + 1) - (q + 1)
      BY <1>2, <1>3 DEF Started
    <2> QED
      BY <1>2, <1>3, <1>4, <2>1
  <1>6. TypeOK'
    BY <1>1, <1>2, <1>3, TypesPrimed DEF Types
  <1>7. QueueIsRest'
    <2>1. Len(pkg_queue') <= Len(accepted')
      BY <1>2, <1>3, <1>4
    <2>2. ASSUME NEW k \in 1 .. q + 1 PROVE pkg_queue'[k] = accepted'[S + k]
      <3>1. CASE k = q + 1
        <4>1. S + k = n + 1
          BY <1>2, <1>3, <1>4, <3>1
        <4> QED
          BY <1>2, <1>3, <3>1, <4>1
      <3>2. CASE k \in 1 .. q
        <4>1. S + k \in 1 .. n
          BY <1>2, <1>3, <1>4, <3>2
        <4> QED
          BY <1>2, <1>3, <1>4, <3>2, <4>1
      <3>3. k = q + 1 \/ k \in 1 .. q
        BY <1>3
      <3> QED
        BY <3>1, <3>2, <3>3
    <2> QED
      BY <1>3, <1>5, <2>1, <2>2 DEF QueueIsRest
  <1>8. Frames' /\ PendingIsStarted' /\ IdleIsEmpty'
    <2>1. OnItsWay' = OnItsWay /\ Len(OnItsWay) \in Nat
      <3>1. OnItsWay \in Seq(Byte)
        BY <1>1, ConcatProperties DEF Types, OnItsWay
      <3> QED
        BY <3>1, LenProperties DEF OnItsWay
    <2>2. PendingIsStarted /\ IdleIsEmpty /\ Frames
      BY DEF StreamInv
    <2>3. reader = "reading" => WellFormed(OnItsWay, Len(handled), accepted')
      <3>1. Len(accepted) \in Nat /\ Len(accepted') \in Nat /\ Len(accepted) <= Len(accepted')
            /\ \A k \in 1 .. Len(accepted) : accepted'[k] = accepted[k]
        BY <1>2 DEF n
      <3> QED
        BY <2>1, <2>2, <3>1, GrowsWellFormed DEF Frames
    <2>4. open /\ pending_data # <<>> =>
              S \in 1 .. n /\ accepted'[S] = accepted[S] /\ Cut' = Cut
      BY <1>2, <1>5, <2>2 DEF PendingIsStarted, Cut, S, n
    <2>5. PendingIsStarted'
      <3>1. open /\ pending_data # <<>> => S \in 1 .. n + 1
        BY <1>2, <2>4
      <3> QED
        BY <1>2, <1>5, <2>2, <2>4, <3>1 DEF PendingIsStarted, BytesFrom, S
    <2>6. reader = "reading" /\ open => EndsAt(OnItsWay, Len(handled))'
      BY <1>5, <2>1, <2>2, <2>4 DEF Frames, EndsAt, EndsAfter, EndsWithin, LastPlace, S
    <2>7. Frames'
      BY <2>1, <2>3, <2>6 DEF Frames
    <2> QED
      BY <2>2, <2>5, <2>7 DEF IdleIsEmpty
  <1>9. OneWrite'
    BY <1>2 DEF StreamInv, OneWrite
  <1>10. NothingLost'
    <2> SUFFICES ASSUME open, reader = "reading", OneWriteEach'
                 PROVE  Stream(accepted') = (Stream(handled) \o stream_buffer \o wire \o writing \o
                                               Stream(pkg_queue'))
      BY DEF NothingLost
    <2> DEFINE P == pkg \o Terminator
               Y == Stream(handled) \o stream_buffer \o wire \o writing
               Q == Stream(pkg_queue)
    <2>1. Stream(accepted) = Y \o Q
      BY <1>2 DEF StreamInv, NothingLost
    <2>2. Stream(pkg_queue') = Q \o P
      BY <1>1, <1>2, StreamOfAppend DEF Types
    <2>3. Y \in Seq(Byte) /\ Q \in Seq(Byte) /\ P \in Seq(Byte)
      <3>1. Stream(handled) \in Seq(Byte) /\ Q \in Seq(Byte) /\ Terminator \in Seq(Byte)
        BY <1>1, StreamType, TerminatorType DEF Types
      <3> QED
        BY <1>1, <1>2, <3>1, ConcatProperties DEF Types
    <2> HIDE DEF P, Y, Q
    <2>4. (Y \o Q) \o P = Y \o (Q \o P)
      BY <2>3, Regroup
    <2>5. Stream(accepted') = Stream(accepted) \o P
      BY <1>2 DEF P
    <2> QED
      BY <2>1, <2>2, <2>4, <2>5 DEF Y
  <1> QED
    BY <1>2, <1>6, <1>7, <1>8, <1>9, <1>10 DEF StreamInv

\* qsend when nothing is being written: _send writes the package.
LEMMA QsendWrites ==
    ASSUME StreamInv, open, NEW len \in Lengths, NEW pkg,
           pkg = Package(Len(accepted) + 1, len),
           ~busy, busy' = TRUE, accepted' = Append(accepted, pkg), WriteFirst(pkg),
           UNCHANGED <<open, pkg_queue, wire, readerVars>>
    PROVE  StreamInv'
  <1> USE DEF readerVars
  <1> DEFINE n == Len(accepted)
             w == Chunk(pkg, pkg)
             b == stream_buffer \o wire
  <1>1. Types
    BY TypeOKIsTypes DEF StreamInv
  <1>2. /\ pkg \in Seq(Byte) /\ n \in Nat
        /\ accepted' \in Seq(Seq(Byte)) /\ Len(accepted') = n + 1
        /\ accepted'[n + 1] = pkg
        /\ \A k \in 1 .. n : accepted'[k] = accepted[k]
        /\ ArePackages' /\ FramedInOrder'
        /\ OneWriteEach' => OneWriteEach /\ Len(pkg) <= MaxBuffer
        /\ Stream(accepted') = Stream(accepted) \o (pkg \o Terminator)
    BY Accepts
  <1>3. writing = <<>> /\ pkg_queue = <<>> /\ pending_data = <<>> /\ Len(<<>>) = 0
    BY EmptySeq DEF StreamInv, IdleIsEmpty
  <1>4. Started = n /\ Started' = n + 1
    BY <1>2, <1>3 DEF Started
  <1>5. /\ BytesFrom(Rest(pkg), n + 1, MaxBuffer) /\ Rest(pkg) \in Seq(Byte)
        /\ Len(pkg) \in Nat
        /\ Rest(pkg) = <<>> <=> Len(pkg) <= MaxBuffer
        /\ Len(pkg) > MaxBuffer => Len(Rest(pkg)) = Len(pkg) - MaxBuffer
        /\ w \in Seq(Byte) /\ Len(w) <= MaxBuffer + 2
        /\ Len(pkg) <= MaxBuffer => Rest(pkg) = <<>> /\ w = pkg \o Terminator
    <2>1. n + 1 \in Nat
      BY <1>2
    <2>2. IsFirstChunk(pkg, n + 1)
      BY <2>1, FirstChunk
    <2> QED
      BY <2>2 DEF IsFirstChunk, BytesFrom
  <1>6. pending_data' = Rest(pkg) /\ writing' = w
    BY DEF WriteFirst
  <1> HIDE DEF w
  <1>7. TypeOK'
    BY <1>1, <1>2, <1>5, <1>6, TypesPrimed DEF Types
  <1>8. QueueIsRest'
    BY <1>2, <1>3 DEF QueueIsRest
  <1>9. PendingIsStarted' /\ IdleIsEmpty'
    <2>1. Rest(pkg) # <<>> => Cut' = MaxBuffer /\ MaxBuffer < Len(pkg)
      <3>1. MaxBuffer \in Nat
        BY MaxBufferAssumption
      <3>2. Cut' = Len(pkg) - Len(Rest(pkg))
        BY <1>2, <1>4, <1>6 DEF Cut
      <3> QED
        BY <1>5, <3>1, <3>2
    <2>2. n + 1 \in 1 .. n + 1 /\ MaxBuffer \in Nat /\ MaxBuffer >= MaxBuffer
      BY <1>2, MaxBufferAssumption
    <2>3. PendingIsStarted'
      BY <1>2, <1>4, <1>5, <1>6, <2>1, <2>2 DEF PendingIsStarted, BytesFrom
    <2> QED
      BY <2>3 DEF IdleIsEmpty
  <1>10. OneWrite'
    BY <1>2, <1>5, <1>6 DEF OneWrite
  <1>11. b \in Seq(Byte) /\ OnItsWay = b /\ OnItsWay' = b \o w
    BY <1>1, <1>3, <1>6, ConcatProperties, ConcatEmptySeq DEF Types, OnItsWay
  <1>12. Frames'
    <2> SUFFICES ASSUME reader = "reading"
                 PROVE  /\ WellFormed(OnItsWay, Len(handled), accepted)'
                        /\ EndsAt(OnItsWay, Len(handled))'
      BY DEF Frames
    <2>1. WellFormed(b, Len(handled), accepted) /\ EndsAfter(b, Len(handled), n)
      BY <1>3, <1>4, <1>11 DEF StreamInv, Frames, EndsAt
    <2> HIDE DEF b
    <2>2. WellFormed(b, Len(handled), accepted')
      <3>1. /\ Len(accepted) \in Nat /\ Len(accepted') \in Nat /\ Len(accepted) <= Len(accepted')
            /\ \A k \in 1 .. Len(accepted) : accepted'[k] = accepted[k]
        BY <1>2
      <3>2. Len(b) \in Nat
        BY <1>11, LenProperties
      <3> QED
        BY <2>1, <3>1, <3>2, GrowsWellFormed
    <2>3. n + 1 \in 1 .. Len(accepted') /\ n \in Nat
      BY <1>2
    <2> HIDE DEF n
    <2>4. pkg = Package(n + 1, len) /\ accepted'[n + 1] = pkg
      BY <1>2 DEF n
    <2>5. /\ WellFormed(b \o w, Len(handled), accepted')
          /\ IF Rest(pkg) = <<>> THEN EndsAfter(b \o w, Len(handled), n + 1)
             ELSE EndsWithin(b \o w, n + 1, MaxBuffer)
      BY <1>11, <2>1, <2>2, <2>3, <2>4, FirstChunkFrames DEF w
    <2>6. Rest(pkg) # <<>> => LastPlace(Cut, Len(accepted[Started]))' = MaxBuffer
      <3>1. MaxBuffer \in Nat
        BY MaxBufferAssumption
      <3>2. Cut' = Len(pkg) - Len(Rest(pkg))
        BY <1>2, <1>4, <1>6 DEF Cut
      <3>3. Rest(pkg) # <<>> => Cut' = MaxBuffer
        BY <1>5, <3>1, <3>2
      <3> QED
        BY <3>3 DEF LastPlace
    <2> QED
      BY <1>4, <1>6, <1>11, <2>5, <2>6 DEF EndsAt, EndsAfter, EndsWithin, WellFormed
  <1>13. NothingLost'
    <2> SUFFICES ASSUME reader = "reading", OneWriteEach'
                 PROVE  Stream(accepted') = (Stream(handled) \o stream_buffer \o wire \o writing' \o
                                               Stream(pkg_queue))
      BY DEF NothingLost
    <2> DEFINE Z == Stream(handled) \o stream_buffer \o wire
    <2>1. Stream(accepted) = Z \o <<>> \o <<>>
      BY <1>2, <1>3, StreamOfNone DEF StreamInv, NothingLost
    <2>2. Stream(handled) \in Seq(Byte)
      BY <1>1, StreamType DEF Types
    <2>3. Z \in Seq(Byte)
      BY <1>1, <2>2, ConcatProperties DEF Types
    <2>4. w = pkg \o Terminator /\ Stream(pkg_queue) = <<>>
      BY <1>2, <1>3, <1>5, StreamOfNone
    <2> HIDE DEF Z
    <2>5. Stream(accepted') = Z \o w
      BY <1>2, <2>1, <2>3, <2>4, ConcatEmptySeq
    <2>6. Z \o w \in Seq(Byte)
      BY <1>5, <2>3, ConcatProperties
    <2>7. (Z \o w) \o <<>> = Z \o w
      BY <2>6, ConcatEmptySeq
    <2> QED
      BY <1>6, <2>4, <2>5, <2>7 DEF Z
  <1> QED
    BY <1>2, <1>7, <1>8, <1>9, <1>10, <1>12, <1>13 DEF StreamInv

\* A completion that goes on with the first package of the queue.
LEMMA WritesQueued ==
    ASSUME StreamInv, open, busy, writing = <<>>, pending_data = <<>>, pkg_queue # <<>>,
           WriteFirst(Head(pkg_queue)), pkg_queue' = Tail(pkg_queue),
           UNCHANGED <<open, busy, wire, accepted, readerVars>>
    PROVE  StreamInv'
  <1> USE DEF readerVars
  <1> DEFINE n == Len(accepted)
             q == Len(pkg_queue)
             S == Started
             pkg == Head(pkg_queue)
             w == Chunk(pkg, pkg)
             b == stream_buffer \o wire
  <1>1. Types
    BY TypeOKIsTypes DEF StreamInv
  <1>2. /\ pkg_queue' \in Seq(Seq(Byte)) /\ Len(pkg_queue') = q - 1 /\ q \in Nat /\ q >= 1
        /\ \A k \in 1 .. q - 1 : pkg_queue'[k] = pkg_queue[k + 1]
        /\ pkg = pkg_queue[1] /\ n \in Nat
    <2>1. pkg_queue \in Seq(Seq(Byte)) /\ accepted \in Seq(Seq(Byte))
      BY <1>1 DEF Types
    <2>2. q \in Nat /\ n \in Nat /\ q >= 1
      BY <2>1, LenProperties, NotEmpty
    <2> QED
      BY <2>1, <2>2, HeadTailProperties
  <1>3. q <= n /\ (\A k \in 1 .. q : pkg_queue[k] = accepted[S + k]) /\ S = n - q
    BY DEF StreamInv, QueueIsRest, Started
  <1> HIDE DEF pkg, q, n, S
  <1>4. S \in Nat /\ S + 1 \in 1 .. n /\ S + 1 \in Nat
    BY <1>2, <1>3
  <1>5. Started' = S + 1
    <2>1. Started' = n - (q - 1)
      BY <1>2 DEF Started, n
    <2> QED
      BY <1>2, <1>3, <2>1
  <1>6. PICK len \in Lengths : pkg = Package(S + 1, len)
    <2>1. 1 \in 1 .. q
      BY <1>2
    <2>2. pkg = accepted[S + 1]
      BY <1>2, <1>3, <2>1
    <2> QED
      BY <1>4, <2>2 DEF StreamInv, ArePackages, n
  <1>7. /\ pkg \in Seq(Byte)
        /\ BytesFrom(Rest(pkg), S + 1, MaxBuffer) /\ Rest(pkg) \in Seq(Byte)
        /\ Len(pkg) \in Nat
        /\ Rest(pkg) = <<>> <=> Len(pkg) <= MaxBuffer
        /\ Len(pkg) > MaxBuffer => Len(Rest(pkg)) = Len(pkg) - MaxBuffer
        /\ w \in Seq(Byte) /\ Len(w) <= MaxBuffer + 2
        /\ Len(pkg) <= MaxBuffer => Rest(pkg) = <<>> /\ w = pkg \o Terminator
    <2>1. IsFirstChunk(pkg, S + 1)
      BY <1>4, <1>6, FirstChunk
    <2> QED
      BY <2>1 DEF IsFirstChunk, BytesFrom
  <1>8. pending_data' = Rest(pkg) /\ writing' = w
    BY DEF WriteFirst, pkg
  <1> HIDE DEF w
  <1>9. TypeOK'
    BY <1>1, <1>2, <1>7, <1>8, TypesPrimed DEF Types
  <1>10. QueueIsRest'
    <2>1. Len(pkg_queue') <= Len(accepted')
      BY <1>2, <1>3 DEF n
    <2>2. ASSUME NEW k \in 1 .. q - 1 PROVE pkg_queue'[k] = accepted[S + 1 + k]
      <3>1. k + 1 \in 1 .. q /\ S + 1 + k = S + (k + 1)
        BY <1>2, <1>4
      <3> QED
        BY <1>2, <1>3, <3>1
    <2> QED
      BY <1>2, <1>5, <2>1, <2>2 DEF QueueIsRest
  <1>11. pkg = accepted[S + 1]
    <2>1. 1 \in 1 .. q
      BY <1>2
    <2> QED
      BY <1>2, <1>3, <2>1
  <1>12. Rest(pkg) # <<>> => Cut' = MaxBuffer /\ MaxBuffer < Len(pkg)
    <2>1. MaxBuffer \in Nat
      BY MaxBufferAssumption
    <2>2. Cut' = Len(pkg) - Len(Rest(pkg))
      BY <1>5, <1>8, <1>11 DEF Cut
    <2> QED
      BY <1>7, <2>1, <2>2
  <1>13. PendingIsStarted' /\ IdleIsEmpty'
    <2>1. MaxBuffer \in Nat /\ MaxBuffer >= MaxBuffer
      BY MaxBufferAssumption
    <2>2. PendingIsStarted'
      BY <1>4, <1>5, <1>7, <1>8, <1>11, <1>12, <2>1 DEF PendingIsStarted, BytesFrom, n
    <2> QED
      BY <2>2 DEF IdleIsEmpty
  <1>14. OneWriteEach => Len(pkg) <= MaxBuffer
    <2>1. pkg = accepted[S + 1]
      BY <1>11
    <2>2. S + 1 \in DOMAIN accepted
      BY <1>1, <1>4, LenProperties DEF Types, n
    <2> QED
      BY <2>1, <2>2 DEF OneWriteEach
  <1>15. OneWrite'
    BY <1>7, <1>8, <1>14 DEF OneWrite, OneWriteEach
  <1>16. b \in Seq(Byte) /\ OnItsWay = b /\ OnItsWay' = b \o w
    BY <1>1, <1>8, ConcatProperties, ConcatEmptySeq DEF Types, OnItsWay
  <1>17. Frames'
    <2> SUFFICES ASSUME reader = "reading"
                 PROVE  /\ WellFormed(OnItsWay, Len(handled), accepted)'
                        /\ EndsAt(OnItsWay, Len(handled))'
      BY DEF Frames
    <2>1. WellFormed(b, Len(handled), accepted) /\ EndsAfter(b, Len(handled), S)
      BY <1>16 DEF StreamInv, Frames, EndsAt, S
    <2> HIDE DEF b
    <2>2. /\ WellFormed(b \o w, Len(handled), accepted)
          /\ IF Rest(pkg) = <<>> THEN EndsAfter(b \o w, Len(handled), S + 1)
             ELSE EndsWithin(b \o w, S + 1, MaxBuffer)
      <3>1. S + 1 \in 1 .. Len(accepted)
        BY <1>4 DEF n
      <3> QED
        BY <1>4, <1>6, <1>11, <1>16, <2>1, <3>1, FirstChunkFrames DEF w
    <2>3. Rest(pkg) # <<>> => LastPlace(Cut, Len(accepted[Started]))' = MaxBuffer
      BY <1>12 DEF LastPlace
    <2> QED
      BY <1>5, <1>8, <1>16, <2>2, <2>3 DEF EndsAt, EndsAfter, EndsWithin, WellFormed
  <1>18. NothingLost'
    <2> SUFFICES ASSUME reader = "reading", OneWriteEach
                 PROVE  Stream(accepted) = (Stream(handled) \o stream_buffer \o wire \o writing' \o
                                              Stream(pkg_queue'))
      BY DEF NothingLost, OneWriteEach
    <2> DEFINE Z == Stream(handled) \o stream_buffer \o wire
               Q == Stream(pkg_queue')
    <2>1. Stream(accepted) = Z \o <<>> \o Stream(pkg_queue)
      BY DEF StreamInv, NothingLost
    <2>2. Stream(handled) \in Seq(Byte) /\ Q \in Seq(Byte)
      BY <1>1, <1>2, StreamType DEF Types
    <2>3. Z \in Seq(Byte)
      BY <1>1, <2>2, ConcatProperties DEF Types
    <2>4. w = pkg \o Terminator
      BY <1>7, <1>14
    <2>5. Stream(pkg_queue) = w \o Q
      BY <1>1, <2>4, StreamOfHead DEF Types, pkg
    <2> HIDE DEF Z, Q
    <2>6. Z \o <<>> = Z
      BY <2>3, ConcatEmptySeq
    <2>7. (Z \o w) \o Q = Z \o (w \o Q)
      <3>1. w \in Seq(Byte) /\ Q \in Seq(Byte)
        BY <1>7, <2>2
      <3> QED
        BY <2>3, <3>1, Regroup
    <2> QED
      BY <1>8, <2>1, <2>5, <2>6, <2>7 DEF Z, Q
  <1> QED
    BY <1>9, <1>10, <1>13, <1>15, <1>17, <1>18 DEF StreamInv, ArePackages, FramedInOrder

\* A completion that goes on with the rest of a package.
LEMMA WritesPending ==
    ASSUME StreamInv, open, busy, writing = <<>>, pending_data # <<>>, WriteNext,
           UNCHANGED <<open, busy, pkg_queue, wire, accepted, readerVars>>
    PROVE  StreamInv'
  <1> USE DEF readerVars
  <1> DEFINE S == Started
             r == Rest(pending_data)
             w == Chunk(pending_data, r)
             b == stream_buffer \o wire
  <1>1. Types
    BY TypeOKIsTypes DEF StreamInv
  <1> DEFINE len == Len(accepted[S])
             c == Cut
  <1>2. /\ S \in 1 .. Len(accepted) /\ c \in Nat /\ c >= MaxBuffer /\ c < len
        /\ BytesFrom(pending_data, S, c)
    BY DEF StreamInv, PendingIsStarted
  <1>3. len \in Nat /\ Len(pending_data) = len - c
    <2>1. accepted \in Seq(Seq(Byte)) /\ ArePackages
      BY <1>1 DEF StreamInv, Types
    <2>2. len \in Nat
      BY <1>2, <2>1, PackagesTyped
    <2>3. c = len - Len(pending_data) /\ Len(pending_data) \in Nat
      BY <1>1, LenProperties DEF Cut, Types
    <2> HIDE DEF c, len
    <2> QED
      BY <2>2, <2>3
  <1> HIDE DEF S, len, c
  <1>4. /\ BytesFrom(r, S, c + MaxBuffer)
        /\ r # <<>> => Len(r) = Len(pending_data) - MaxBuffer
        /\ r = <<>> <=> Len(pending_data) <= MaxBuffer
        /\ w \in Seq(Byte) /\ Len(w) <= MaxBuffer + 2
    BY <1>2, NextChunk
  <1>5. pending_data' = r /\ writing' = w /\ Started' = S
    BY DEF WriteNext, Started, S
  <1> HIDE DEF w, r
  <1>6. r # <<>> => Cut' = c + MaxBuffer /\ c + MaxBuffer < len
    <2>1. Cut' = len - Len(r)
      BY <1>5 DEF Cut, len
    <2>2. MaxBuffer \in Nat
      BY MaxBufferAssumption
    <2> QED
      BY <1>2, <1>3, <1>4, <2>1, <2>2
  <1>7. TypeOK'
    <2>1. r \in Seq(Byte)
      BY <1>4 DEF BytesFrom
    <2> QED
      BY <1>1, <1>4, <1>5, <2>1, TypesPrimed DEF Types
  <1>8. QueueIsRest' /\ IdleIsEmpty'
    BY <1>5 DEF StreamInv, QueueIsRest, IdleIsEmpty, S
  <1>9. PendingIsStarted'
    <2>1. c + MaxBuffer \in Nat /\ c + MaxBuffer >= MaxBuffer
      BY <1>2, MaxBufferAssumption
    <2> QED
      BY <1>2, <1>4, <1>5, <1>6, <2>1 DEF PendingIsStarted, BytesFrom, len
  <1>10. OneWrite' /\ NothingLost'
    <2>1. ~OneWriteEach
      BY DEF StreamInv, OneWrite
    <2> QED
      BY <2>1 DEF OneWrite, NothingLost, OneWriteEach
  <1>11. b \in Seq(Byte) /\ OnItsWay = b /\ OnItsWay' = b \o w
    BY <1>1, <1>4, <1>5, ConcatProperties, ConcatEmptySeq DEF Types, OnItsWay
  <1>12. Frames'
    <2> SUFFICES ASSUME reader = "reading"
                 PROVE  /\ WellFormed(OnItsWay, Len(handled), accepted)'
                        /\ EndsAt(OnItsWay, Len(handled))'
      BY DEF Frames
    <2>1. WellFormed(b, Len(handled), accepted) /\ EndsWithin(b, S, LastPlace(c, len))
      BY <1>11 DEF StreamInv, Frames, EndsAt, S, c, len
    <2> HIDE DEF b
    <2>2. /\ WellFormed(b \o w, Len(handled), accepted)
          /\ IF r = <<>> THEN EndsAfter(b \o w, Len(handled), S)
             ELSE EndsWithin(b \o w, S, LastPlace(c + MaxBuffer, len))
      <3>1. S \in Nat /\ Len(accepted[S]) = len
        BY <1>2 DEF len
      <3> QED
        BY <1>2, <1>3, <1>11, <2>1, <3>1, NextChunkFrames DEF w, r
    <2>3. r # <<>> => LastPlace(Cut, Len(accepted[Started]))' = LastPlace(c + MaxBuffer, len)
      BY <1>5, <1>6 DEF LastPlace, len
    <2> QED
      BY <1>5, <1>11, <2>2, <2>3 DEF EndsAt, EndsAfter, EndsWithin, WellFormed
  <1> QED
    BY <1>7, <1>8, <1>9, <1>10, <1>12 DEF StreamInv, ArePackages, FramedInOrder

\* The bytes of the write leave.
LEMMA TransferKeeps == ASSUME StreamInv, Transfer PROVE StreamInv'
  <1> USE DEF Transfer, readerVars
  <1>1. Types
    BY TypeOKIsTypes DEF StreamInv
  <1>2. wire' = wire \o writing /\ writing' = <<>> /\ wire' \in Seq(Byte) /\ <<>> \in Seq(Byte)
    BY <1>1, ConcatProperties, EmptySeq DEF Types
  <1>3. TypeOK'
    <2>1. Len(<<>>) <= MaxBuffer + 2
      BY EmptySeq, MaxBufferAssumption
    <2> QED
      BY <1>1, <1>2, <2>1, TypesPrimed DEF Types
  <1>4. OnItsWay' = OnItsWay
    <2>1. (stream_buffer \o wire) \o writing = stream_buffer \o (wire \o writing)
      <3>1. stream_buffer \in Seq(Byte) /\ wire \in Seq(Byte) /\ writing \in Seq(Byte)
        BY <1>1 DEF Types
      <3> QED
        BY <3>1, Regroup
    <2>2. stream_buffer \o (wire \o writing) \in Seq(Byte)
      BY <1>1, <1>2, ConcatProperties DEF Types
    <2>3. (stream_buffer \o (wire \o writing)) \o <<>> = stream_buffer \o (wire \o writing)
      BY <2>2, ConcatEmptySeq
    <2> QED
      BY <1>2, <2>1, <2>3 DEF OnItsWay
  <1>5. QueueIsRest' /\ Frames' /\ PendingIsStarted' /\ IdleIsEmpty' /\ OneWrite'
    <2>1. Started' = Started
      BY DEF Started
    <2> QED
      BY <1>2, <1>4, <2>1
      DEF StreamInv, QueueIsRest, Frames, EndsAt, PendingIsStarted, Cut, IdleIsEmpty,
          OneWrite, OneWriteEach
  <1>6. NothingLost'
    <2> SUFFICES ASSUME reader = "reading", OneWriteEach
                 PROVE  Stream(accepted) = (Stream(handled) \o stream_buffer \o wire' \o writing' \o
                                              Stream(pkg_queue))
      BY DEF NothingLost, OneWriteEach
    <2> DEFINE A == Stream(handled) \o stream_buffer
    <2>1. Stream(accepted) = A \o wire \o writing \o Stream(pkg_queue)
      BY DEF StreamInv, NothingLost
    <2>2. Stream(handled) \in Seq(Byte)
      BY <1>1, StreamType DEF Types
    <2>3. A \in Seq(Byte)
      BY <1>1, <2>2, ConcatProperties DEF Types
    <2> HIDE DEF A
    <2>4. (A \o wire) \o writing = A \o (wire \o writing)
      <3>1. wire \in Seq(Byte) /\ writing \in Seq(Byte)
        BY <1>1 DEF Types
      <3> QED
        BY <2>3, <3>1, Regroup
    <2>5. A \o (wire \o writing) \in Seq(Byte)
      BY <1>2, <2>3, ConcatProperties
    <2>6. (A \o (wire \o writing)) \o <<>> = A \o (wire \o writing)
      BY <2>5, ConcatEmptySeq
    <2> QED
      BY <1>2, <2>1, <2>4, <2>6 DEF A
  <1> QED
    BY <1>3, <1>5, <1>6 DEF StreamInv, ArePackages, FramedInOrder

\* The sender closes: the part of the write that left is the front of it.
LEMMA SenderClosesKeeps == ASSUME StreamInv, SenderCloses PROVE StreamInv'
  <1> USE DEF SenderCloses, readerVars
  <1>1. Types
    BY TypeOKIsTypes DEF StreamInv
  <1>2. PICK n \in 0 .. Len(writing) : wire' = wire \o SubSeq(writing, 1, n)
    OBVIOUS
  <1> DEFINE left == SubSeq(writing, 1, n)
             lost == SubSeq(writing, n + 1, Len(writing))
             b == stream_buffer \o wire
  <1>3. left \in Seq(Byte) /\ lost \in Seq(Byte) /\ left \o lost = writing
    <2>1. Len(writing) \in Nat /\ writing \in Seq(Byte)
      BY <1>1, LenProperties DEF Types
    <2>2. /\ 1 \in Nat \ {0} /\ n + 1 \in Nat \ {0} /\ Len(writing) \in 0 .. Len(writing)
          /\ 1 \in 1 .. Len(writing) + 1 /\ n \in 1 - 1 .. Len(writing)
          /\ Len(writing) \in n .. Len(writing)
      BY <2>1
    <2>3. left \in Seq(Byte) /\ lost \in Seq(Byte)
      BY <2>1, <2>2, SubSeqOfBytes
    <2>4. left \o lost = SubSeq(writing, 1, Len(writing))
      BY <2>1, <2>2, ConcatAdjacentSubSeq
    <2> QED
      BY <2>1, <2>3, <2>4, SubSeqFull
  <1> HIDE DEF left, lost
  <1>4. wire' = wire \o left /\ wire' \in Seq(Byte) /\ <<>> \in Seq(Byte)
    <2>1. wire' = wire \o left
      BY <1>2 DEF left
    <2> QED
      BY <1>1, <1>3, <2>1, ConcatProperties, EmptySeq DEF Types
  <1>5. TypeOK'
    <2>1. Len(<<>>) <= MaxBuffer + 2
      BY EmptySeq, MaxBufferAssumption
    <2> QED
      BY <1>1, <1>4, <2>1, TypesPrimed DEF Types
  <1>6. OnItsWay = OnItsWay' \o lost /\ OnItsWay' \in Seq(Byte)
    <2>1. b \in Seq(Byte)
      BY <1>1, ConcatProperties DEF Types
    <2>2. OnItsWay = (b \o left) \o lost
      BY <1>3, <2>1, Regroup DEF OnItsWay
    <2>3. OnItsWay' = stream_buffer \o (wire \o left)
      <3>1. OnItsWay' = (stream_buffer \o (wire \o left)) \o <<>>
        BY <1>4 DEF OnItsWay
      <3>2. stream_buffer \o (wire \o left) \in Seq(Byte)
        BY <1>1, <1>4, ConcatProperties DEF Types
      <3> QED
        BY <3>1, <3>2, ConcatEmptySeq
    <2>4. b \o left = stream_buffer \o (wire \o left)
      <3>1. stream_buffer \in Seq(Byte) /\ wire \in Seq(Byte)
        BY <1>1 DEF Types
      <3> QED
        BY <1>3, <3>1, Regroup
    <2>5. b \o left \in Seq(Byte)
      BY <1>3, <2>1, ConcatProperties
    <2> QED
      BY <2>2, <2>3, <2>4, <2>5
  <1>7. Frames'
    <2> SUFFICES ASSUME reader = "reading" PROVE WellFormed(OnItsWay', Len(handled), accepted)
      BY DEF Frames
    <2>1. WellFormed(OnItsWay, Len(handled), accepted)
      BY DEF StreamInv, Frames
    <2> DEFINE c == OnItsWay'
    <2>2. WellFormed(c \o lost, Len(handled), accepted) /\ c \in Seq(Byte)
      BY <1>6, <2>1
    <2> HIDE DEF c
    <2>3. WellFormed(c, Len(handled), accepted)
      BY <1>3, <2>2, PrefixWellFormed
    <2> QED
      BY <2>3 DEF c
  <1>8. QueueIsRest' /\ PendingIsStarted' /\ IdleIsEmpty' /\ OneWrite' /\ NothingLost'
    BY DEF StreamInv, QueueIsRest, Started, PendingIsStarted, IdleIsEmpty, OneWrite, NothingLost
  <1> QED
    BY <1>5, <1>7, <1>8 DEF StreamInv, ArePackages, FramedInOrder

\* A read: the bytes it returns are the front of the wire.
LEMMA ReadKeeps ==
    ASSUME StreamInv, NEW n \in 1 .. MaxBuffer, n <= Len(wire), HandleQreadContent(n)
    PROVE  StreamInv'
  <1> USE DEF senderVars
  <1> DEFINE taken == SubSeq(wire, 1, n)
             left == SubSeq(wire, n + 1, Len(wire))
             buffer == stream_buffer \o taken
             W == left \o writing
             s == ReadPackages(buffer)
  <1>1. Types
    BY TypeOKIsTypes DEF StreamInv
  <1>2. reader = "reading" /\ wire' = left
    BY DEF HandleQreadContent
  <1>3. /\ handled' = s.handled /\ stream_buffer' = s.buffer
        /\ reader' = IF s.loop = "thrown" THEN "thrown" ELSE "reading"
    BY DEF HandleQreadContent
  <1>4. UNCHANGED <<open, busy, pkg_queue, pending_data, writing, accepted>>
    BY DEF HandleQreadContent
  <1>5. taken \in Seq(Byte) /\ left \in Seq(Byte) /\ taken \o left = wire
    <2>1. Len(wire) \in Nat /\ wire \in Seq(Byte) /\ n \in Nat
      BY <1>1, LenProperties, MaxBufferAssumption DEF Types
    <2>2. /\ 1 \in Nat \ {0} /\ n + 1 \in Nat \ {0} /\ Len(wire) \in 0 .. Len(wire)
          /\ n \in 0 .. Len(wire)
          /\ 1 \in 1 .. Len(wire) + 1 /\ n \in 1 - 1 .. Len(wire)
          /\ Len(wire) \in n .. Len(wire)
      BY <2>1
    <2>3. taken \in Seq(Byte) /\ left \in Seq(Byte)
      BY <2>1, <2>2, SubSeqOfBytes
    <2>4. taken \o left = SubSeq(wire, 1, Len(wire))
      BY <2>1, <2>2, ConcatAdjacentSubSeq
    <2> QED
      BY <2>1, <2>3, <2>4, SubSeqFull
  <1> HIDE DEF taken, left
  <1>6. buffer \in Seq(Byte) /\ W \in Seq(Byte) /\ OnItsWay = buffer \o W
    <2>1. buffer \in Seq(Byte) /\ W \in Seq(Byte)
      BY <1>1, <1>5, ConcatProperties DEF Types
    <2>2. stream_buffer \o (taken \o left) = buffer \o left
      <3>1. stream_buffer \in Seq(Byte)
        BY <1>1 DEF Types
      <3> QED
        BY <1>5, <3>1, Regroup
    <2>3. OnItsWay = (buffer \o left) \o writing
      BY <1>5, <2>2 DEF OnItsWay
    <2>4. (buffer \o left) \o writing = buffer \o (left \o writing)
      <3> HIDE DEF buffer
      <3> QED
        <4>1. buffer \in Seq(Byte) /\ left \in Seq(Byte) /\ writing \in Seq(Byte)
          BY <1>1, <1>5, <2>1 DEF Types
        <4> QED
          BY <4>1, Regroup
    <2> QED
      BY <2>1, <2>3, <2>4
  <1>7. s \in LoopStates(buffer, W)
    <2> HIDE DEF buffer, W, s
    <2> DEFINE I == LoopStates(buffer, W)
    <2>1. Start(buffer) \in I
      <3> DEFINE t == Start(buffer)
      <3>1. t = [buffer |-> buffer, handled |-> handled, loop |-> "on"]
        BY DEF Start
      <3>2. /\ WellFormed(buffer \o W, Len(handled), accepted)
            /\ open => EndsAt(buffer \o W, Len(handled))
        BY <1>2, <1>6 DEF StreamInv, Frames
      <3>3. t \in [buffer : Seq(Byte), handled : Seq(Seq(Byte)), loop : {"on", "done", "thrown"}]
        BY <1>1, <1>6, <3>1 DEF Types
      <3>4. t.buffer = buffer /\ t.handled = handled
        BY <3>1
      <3> HIDE DEF t
      <3>5. /\ Len(t.handled) <= Len(accepted)
            /\ \A k \in 1 .. Len(t.handled) : Handles(t.handled[k], k)
            /\ Stream(t.handled) \o t.buffer = Stream(handled) \o buffer
        <4>1. DOMAIN handled = 1 .. Len(handled)
          BY <1>1, LenProperties DEF Types
        <4> QED
          BY <3>4, <4>1 DEF StreamInv, FramedInOrder, Handles
      <3>6. t \in LoopStates(buffer, W)
        BY <3>2, <3>3, <3>4, <3>5 DEF LoopStates
      <3> QED
        BY <3>6 DEF t
    <2>2. \A t \in I : ReadPackage(t) \in I
      <3> SUFFICES ASSUME NEW t \in LoopStates(buffer, W)
                   PROVE  ReadPackage(t) \in LoopStates(buffer, W)
        OBVIOUS
      <3>1. accepted \in Seq(Seq(Byte)) /\ ArePackages
        BY <1>1 DEF StreamInv, Types
      <3> QED
        BY <1>6, <3>1, RoundKeeps
    <2>3. Len(buffer) \in Nat
      BY <1>6, LenProperties
    <2> HIDE DEF I
    <2>4. ReadPackages(buffer) \in I
      BY <2>1, <2>2, <2>3, LoopInvariant
    <2> QED
      BY <2>4 DEF s, I
  <1> HIDE DEF s
  <1>8. /\ s.buffer \in Seq(Byte) /\ s.handled \in Seq(Seq(Byte))
        /\ Len(s.handled) <= Len(accepted)
        /\ \A k \in 1 .. Len(s.handled) : Handles(s.handled[k], k)
        /\ s.loop # "thrown" =>
               /\ WellFormed(s.buffer \o W, Len(s.handled), accepted)
               /\ open => EndsAt(s.buffer \o W, Len(s.handled))
               /\ Stream(s.handled) \o s.buffer = Stream(handled) \o buffer
    BY <1>7 DEF LoopStates
  <1>9. TypeOK'
    BY <1>1, <1>2, <1>3, <1>4, <1>5, <1>8, TypesPrimed DEF Types
  <1>10. ArePackages' /\ QueueIsRest' /\ PendingIsStarted' /\ IdleIsEmpty' /\ OneWrite'
    BY <1>4
    DEF StreamInv, ArePackages, QueueIsRest, Started, Cut, PendingIsStarted, IdleIsEmpty,
        OneWrite, OneWriteEach
  <1>11. FramedInOrder'
    <2>1. DOMAIN s.handled = 1 .. Len(s.handled)
      BY <1>8, LenProperties
    <2> QED
      BY <1>3, <1>4, <1>8, <2>1 DEF FramedInOrder, Handles, Spliced
  <1>12. Frames'
    <2> SUFFICES ASSUME s.loop # "thrown"
                 PROVE  /\ WellFormed(OnItsWay, Len(handled), accepted)'
                        /\ open => EndsAt(OnItsWay, Len(handled))'
      BY <1>3, <1>4 DEF Frames
    <2>1. OnItsWay' = s.buffer \o W
      <3>1. OnItsWay' = (s.buffer \o left) \o writing
        BY <1>2, <1>3, <1>4 DEF OnItsWay
      <3>2. (s.buffer \o left) \o writing = s.buffer \o (left \o writing)
        <4>1. s.buffer \in Seq(Byte) /\ left \in Seq(Byte) /\ writing \in Seq(Byte)
          BY <1>1, <1>5, <1>8 DEF Types
        <4> QED
          BY <4>1, Regroup
      <3> QED
        BY <3>1, <3>2
    <2>2. Started' = Started /\ pending_data' = pending_data /\ Cut' = Cut /\ accepted' = accepted
      BY <1>4 DEF Started, Cut
    <2> HIDE DEF W
    <2> QED
      BY <1>3, <1>8, <2>1, <2>2 DEF EndsAt
  <1>13. NothingLost'
    <2> SUFFICES ASSUME open, s.loop # "thrown", OneWriteEach
                 PROVE  Stream(accepted) = (Stream(s.handled) \o s.buffer \o left \o writing \o
                                              Stream(pkg_queue))
      BY <1>2, <1>3, <1>4 DEF NothingLost, OneWriteEach
    <2> DEFINE H == Stream(handled)
    <2>1. H \in Seq(Byte)
      BY <1>1, StreamType DEF Types
    <2>2. Stream(accepted) = H \o stream_buffer \o wire \o writing \o Stream(pkg_queue)
      BY <1>2 DEF StreamInv, NothingLost
    <2>3. Stream(s.handled) \o s.buffer = H \o buffer
      BY <1>8
    <2> HIDE DEF H
    <2>4. H \o buffer = (H \o stream_buffer) \o taken
      <3>1. stream_buffer \in Seq(Byte) /\ taken \in Seq(Byte)
        BY <1>1, <1>5 DEF Types
      <3> QED
        BY <2>1, <3>1, Regroup
    <2>5. H \o stream_buffer \in Seq(Byte)
      BY <1>1, <2>1, ConcatProperties DEF Types
    <2>6. ((H \o stream_buffer) \o taken) \o left = (H \o stream_buffer) \o (taken \o left)
      BY <1>5, <2>5, Regroup
    <2>7. (Stream(s.handled) \o s.buffer) \o left = (H \o stream_buffer) \o wire
      BY <1>5, <2>3, <2>4, <2>6
    <2> QED
      BY <2>2, <2>7
  <1> QED
    BY <1>9, <1>10, <1>11, <1>12, <1>13 DEF StreamInv

LEMMA StreamInvStep == ASSUME StreamInv, [Next]_vars PROVE StreamInv'
  <1>1. CASE UNCHANGED vars
    BY <1>1
    DEF vars, senderVars, readerVars, StreamInv, TypeOK, ArePackages, QueueIsRest, Started,
        FramedInOrder, Frames, OnItsWay, EndsAt, PendingIsStarted, Cut, IdleIsEmpty, OneWrite,
        OneWriteEach, NothingLost
  <1>2. ASSUME NEW len \in Lengths, Qsend(len) PROVE StreamInv'
    <2> DEFINE pkg == Package(Len(accepted) + 1, len)
    <2>1. /\ open /\ accepted' = Append(accepted, pkg)
          /\ UNCHANGED <<open, wire, readerVars>>
          /\ \/ /\ busy /\ pkg_queue' = Append(pkg_queue, pkg)
                /\ UNCHANGED <<busy, pending_data, writing>>
             \/ /\ ~busy /\ busy' = TRUE /\ WriteFirst(pkg)
                /\ UNCHANGED pkg_queue
      BY <1>2 DEF Qsend, MustWait
    <2> HIDE DEF pkg
    <2>2. pkg = Package(Len(accepted) + 1, len)
      BY DEF pkg
    <2>3. CASE busy
      BY <2>1, <2>2, <2>3, QsendWaits
    <2>4. CASE ~busy
      BY <2>1, <2>2, <2>4, QsendWrites
    <2> QED
      BY <2>3, <2>4
  <1>3. CASE Transfer
    BY <1>3, TransferKeeps
  <1>4. CASE HandleQsentContent
    <2>1. /\ open /\ busy /\ writing = <<>>
          /\ UNCHANGED <<open, wire, accepted, readerVars>>
      BY <1>4 DEF HandleQsentContent
    <2>2. CASE pending_data # <<>> /\ WriteNext /\ UNCHANGED <<busy, pkg_queue>>
      BY <2>1, <2>2, WritesPending
    <2>3. CASE /\ pending_data = <<>> /\ ~AllSent /\ WriteFirst(Head(pkg_queue))
               /\ pkg_queue' = Tail(pkg_queue) /\ UNCHANGED busy
      <3>1. pkg_queue # <<>>
        BY <2>3 DEF AllSent
      <3> QED
        BY <2>1, <2>3, <3>1, WritesQueued
    <2>4. CASE AllSent /\ busy' = FALSE /\ UNCHANGED <<pkg_queue, pending_data, writing>>
      BY <2>1, <2>4
      DEF AllSent, readerVars, StreamInv, TypeOK, ArePackages, QueueIsRest, Started,
          FramedInOrder, Frames, OnItsWay, EndsAt, PendingIsStarted, Cut, IdleIsEmpty, OneWrite,
          OneWriteEach, NothingLost
    <2> QED
      BY <1>4, <2>2, <2>3, <2>4 DEF HandleQsentContent
  <1>5. CASE SenderCloses
    BY <1>5, SenderClosesKeeps
  <1>6. CASE ReadSome
    BY <1>6, ReadKeeps DEF ReadSome
  <1>7. CASE ReaderCloses
    BY <1>7
    DEF ReaderCloses, senderVars, StreamInv, TypeOK, ArePackages, QueueIsRest, Started,
        FramedInOrder, Frames, OnItsWay, EndsAt, PendingIsStarted, Cut, IdleIsEmpty, OneWrite,
        OneWriteEach, NothingLost
  <1> QED
    BY <1>1, <1>2, <1>3, <1>4, <1>5, <1>6, <1>7 DEF Next

LEMMA StreamInvAlways == Spec => []StreamInv
  BY StreamInvInit, StreamInvStep, PTL DEF Spec

\* The types; and no write is longer than a buffer and a terminator, whichever of a
\* package, the rest of one and the queue it comes from.
THEOREM TypeOKTheorem == Spec => []TypeOK
  <1>1. StreamInv => TypeOK
    BY DEF StreamInv
  <1> QED
    BY <1>1, StreamInvAlways, PTL

\* The receiver handles the packages given to qsend each once and in order, for every
\* length of package, every cut of a write and of a read, and whichever damaged
\* packages the parser lets pass: each whole, or one of more than two buffers that
\* lacks its second chunk and nothing else.
THEOREM FramedInOrderTheorem == Spec => []FramedInOrder
  <1>1. StreamInv => FramedInOrder
    BY DEF StreamInv
  <1> QED
    BY <1>1, StreamInvAlways, PTL

\* While packages fit in one write and both ends are open, what was accepted is what
\* was handled, held, under way and queued, byte for byte.
THEOREM NothingLostTheorem == Spec => []NothingLost
  <1>1. StreamInv => NothingLost
    BY DEF StreamInv
  <1> QED
    BY <1>1, StreamInvAlways, PTL
=============================================================================
