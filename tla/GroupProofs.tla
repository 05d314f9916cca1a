------------------------------ MODULE GroupProofs ------------------------------
(****************************************************************************)
(* Proofs about Group, for any set of clients, any max_players and any      *)
(* bounds: the server's records of its groups (IInv), and what its packages *)
(* make of the clients' copies of them (VInv).                              *)
(****************************************************************************)
EXTENDS Group, TLAPS, SequenceTheorems, FiniteSetTheorems, WellFoundedInduction

-----------------------------------------------------------------------------
(* How often a sequence has an element                                      *)

LEMMA PlacesFinite ==
    ASSUME NEW S, NEW s \in Seq(S), NEW x
    PROVE  /\ {k \in DOMAIN s : s[k] = x} = {k \in 1 .. Len(s) : s[k] = x}
           /\ IsFiniteSet({k \in 1 .. Len(s) : s[k] = x})
           /\ Occurrences(s, x) = Cardinality({k \in 1 .. Len(s) : s[k] = x})
           /\ Occurrences(s, x) \in Nat
  <1> DEFINE P == {k \in 1 .. Len(s) : s[k] = x}
  <1>1. Len(s) \in Nat /\ DOMAIN s = 1 .. Len(s)
    BY LenProperties
  <1>2. IsFiniteSet(1 .. Len(s))
    BY <1>1, FS_Interval
  <1>3. P \in SUBSET (1 .. Len(s))
    OBVIOUS
  <1>4. {k \in DOMAIN s : s[k] = x} = P
    BY <1>1
  <1> HIDE DEF P
  <1>5. IsFiniteSet(P)
    BY <1>2, <1>3, FS_Subset
  <1>6. Occurrences(s, x) = Cardinality(P)
    BY <1>4 DEF Occurrences
  <1>7. Cardinality(P) \in Nat
    BY <1>5, FS_CardinalityType
  <1> QED
    BY <1>4, <1>5, <1>6, <1>7 DEF P

LEMMA OccursPositive ==
    ASSUME NEW S, NEW s \in Seq(S), NEW x
    PROVE  /\ Occurrences(s, x) \in Nat
           /\ Occurrences(s, x) > 0 <=> x \in ToSet(s)
           /\ ToSet(s) = {s[k] : k \in 1 .. Len(s)}
  <1> DEFINE P == {k \in 1 .. Len(s) : s[k] = x}
  <1>1. /\ IsFiniteSet(P) /\ Occurrences(s, x) = Cardinality(P)
        /\ Occurrences(s, x) \in Nat
    BY PlacesFinite
  <1>2. ToSet(s) = {s[k] : k \in 1 .. Len(s)}
    BY LenProperties DEF ToSet
  <1>3. P # {} <=> x \in ToSet(s)
    BY <1>2
  <1> HIDE DEF P
  <1>4. Cardinality(P) = 0 <=> P = {}
    BY <1>1, FS_EmptySet
  <1> QED
    BY <1>1, <1>2, <1>3, <1>4

LEMMA OccursInNothing == \A x : Occurrences(<<>>, x) = 0
  <1> TAKE x
  <1>1. {k \in DOMAIN <<>> : <<>>[k] = x} = {}
    OBVIOUS
  <1> QED
    BY <1>1, FS_EmptySet DEF Occurrences

LEMMA OccursAfterAppend ==
    ASSUME NEW S, NEW s \in Seq(S), NEW y \in S, NEW x
    PROVE  Occurrences(Append(s, y), x) = Occurrences(s, x) + IF x = y THEN 1 ELSE 0
  <1> DEFINE more == Append(s, y)
             P == {k \in 1 .. Len(s) : s[k] = x}
             Q == {k \in 1 .. Len(more) : more[k] = x}
  <1>1. /\ Len(s) \in Nat /\ more \in Seq(S) /\ Len(more) = Len(s) + 1
        /\ \A k \in 1 .. Len(s) : more[k] = s[k]
        /\ more[Len(s) + 1] = y
    BY LenProperties, AppendProperties
  <1>2. IsFiniteSet(P) /\ Occurrences(s, x) = Cardinality(P) /\ Occurrences(s, x) \in Nat
    BY PlacesFinite
  <1> HIDE DEF more
  <1>3. Occurrences(more, x) = Cardinality(Q)
    BY <1>1, PlacesFinite
  <1>4. \A k \in 1 .. Len(more) : k \in 1 .. Len(s) \/ k = Len(s) + 1
    BY <1>1
  <1>5. \A k \in 1 .. Len(s) : k \in 1 .. Len(more)
    BY <1>1
  <1>6. Len(s) + 1 \in 1 .. Len(more) /\ Len(s) + 1 \notin P
    BY <1>1
  <1>7. CASE x = y
    <2>1. Q = P \cup {Len(s) + 1}
      BY <1>1, <1>4, <1>5, <1>6, <1>7
    <2> HIDE DEF P, Q
    <2>2. Cardinality(Q) = Cardinality(P) + 1
      BY <1>2, <1>6, <2>1, FS_AddElement
    <2> QED
      BY <1>2, <1>3, <1>7, <2>2 DEF more
  <1>8. CASE x # y
    <2>1. Q = P
      BY <1>1, <1>4, <1>5, <1>8
    <2> HIDE DEF P, Q
    <2> QED
      BY <1>2, <1>3, <1>8, <2>1 DEF more
  <1> QED
    BY <1>7, <1>8

\* t is s without its place k.
IsWithoutPlace(t, s, k) ==
    /\ Len(t) = Len(s) - 1
    /\ \A i \in 1 .. Len(s) - 1 : t[i] = IF i < k THEN s[i] ELSE s[i + 1]

LEMMA OccursWithoutPlace ==
    ASSUME NEW S, NEW s \in Seq(S), NEW t \in Seq(S), NEW k \in 1 .. Len(s),
           IsWithoutPlace(t, s, k), NEW x
    PROVE  Occurrences(s, x) = Occurrences(t, x) + IF s[k] = x THEN 1 ELSE 0
  <1> DEFINE P == {i \in 1 .. Len(s) : s[i] = x}
             Q == {i \in 1 .. Len(t) : t[i] = x}
             R == P \ {k}
             f == [i \in Q |-> IF i < k THEN i ELSE i + 1]
  <1>1. /\ Len(s) \in Nat /\ Len(t) = Len(s) - 1 /\ k \in Nat
        /\ \A i \in 1 .. Len(t) : t[i] = IF i < k THEN s[i] ELSE s[i + 1]
    BY LenProperties DEF IsWithoutPlace
  <1>2. /\ IsFiniteSet(P) /\ Occurrences(s, x) = Cardinality(P)
        /\ IsFiniteSet(Q) /\ Occurrences(t, x) = Cardinality(Q)
        /\ Cardinality(P) \in Nat /\ Cardinality(Q) \in Nat
    <2>1. IsFiniteSet(P) /\ Occurrences(s, x) = Cardinality(P) /\ Occurrences(s, x) \in Nat
      BY PlacesFinite
    <2>2. IsFiniteSet(Q) /\ Occurrences(t, x) = Cardinality(Q) /\ Occurrences(t, x) \in Nat
      BY PlacesFinite
    <2> HIDE DEF P, Q
    <2> QED
      BY <2>1, <2>2
  <1>3. f \in [Q -> R]
    <2> SUFFICES ASSUME NEW i \in Q PROVE (IF i < k THEN i ELSE i + 1) \in R
      OBVIOUS
    <2>1. i \in 1 .. Len(t) /\ t[i] = x
      OBVIOUS
    <2>2. CASE i < k
      BY <1>1, <2>1, <2>2
    <2>3. CASE ~(i < k)
      BY <1>1, <2>1, <2>3
    <2> QED
      BY <2>2, <2>3
  <1>4. \A i, j \in Q : f[i] = f[j] => i = j
    BY <1>1
  <1>5. \A j \in R : \E i \in Q : f[i] = j
    <2> TAKE j \in R
    <2>1. j \in 1 .. Len(s) /\ s[j] = x /\ j # k
      OBVIOUS
    <2>2. CASE j < k
      <3>1. j \in 1 .. Len(t) /\ t[j] = x
        BY <1>1, <2>1, <2>2
      <3> QED
        BY <2>2, <3>1
    <2>3. CASE j > k
      <3> DEFINE i == j - 1
      <3>1. i \in 1 .. Len(t) /\ ~(i < k) /\ i + 1 = j
        BY <1>1, <2>1, <2>3
      <3>2. i \in Q
        BY <1>1, <2>1, <3>1
      <3> HIDE DEF i
      <3> QED
        BY <3>1, <3>2
    <2>4. j < k \/ j > k
      BY <1>1, <2>1
    <2> QED
      BY <2>2, <2>3, <2>4
  <1>6. ExistsBijection(Q, R)
    <2> HIDE DEF f, Q, R
    <2> QED
      BY <1>3, <1>4, <1>5 DEF ExistsBijection, Bijection, Injection, Surjection, IsInjective
  <1>7. Cardinality(R) = Cardinality(Q)
    <2> HIDE DEF Q, R
    <2> QED
      BY <1>2, <1>6, FS_Bijection
  <1>8. k \in P <=> s[k] = x
    OBVIOUS
  <1>9. Cardinality(R) = IF k \in P THEN Cardinality(P) - 1 ELSE Cardinality(P)
    <2> HIDE DEF P
    <2> QED
      BY <1>2, FS_RemoveElement
  <1> HIDE DEF P, Q, R
  <1> QED
    BY <1>2, <1>7, <1>8, <1>9

LEMMA OccursInTail ==
    ASSUME NEW S, NEW s \in Seq(S), s # <<>>, NEW x
    PROVE  Occurrences(s, x) = Occurrences(Tail(s), x) + IF Head(s) = x THEN 1 ELSE 0
  <1> DEFINE t == Tail(s)
  <1>1. /\ Len(s) \in Nat /\ Len(s) # 0 /\ t \in Seq(S) /\ Len(t) = Len(s) - 1
        /\ Head(s) = s[1] /\ \A k \in 1 .. Len(t) : t[k] = s[k + 1]
    BY HeadTailProperties, LenProperties, EmptySeq
  <1> HIDE DEF t
  <1>2. 1 \in 1 .. Len(s)
    BY <1>1
  <1>3. IsWithoutPlace(t, s, 1)
    BY <1>1 DEF IsWithoutPlace
  <1>4. Occurrences(s, x) = Occurrences(t, x) + IF s[1] = x THEN 1 ELSE 0
    BY <1>1, <1>2, <1>3, OccursWithoutPlace
  <1> QED
    BY <1>1, <1>4 DEF t

\* The elements that stay when one is erased from a vector.
LEMMA RemoveAtProperties ==
    ASSUME NEW ids \in Seq(Clients), NEW k \in 1 .. Len(ids)
    PROVE  /\ RemoveAt(ids, k) \in Seq(Clients)
           /\ Len(RemoveAt(ids, k)) = Len(ids) - 1
           /\ \A i \in 1 .. Len(ids) - 1 :
                 RemoveAt(ids, k)[i] = IF i < k THEN ids[i] ELSE ids[i + 1]
  <1> DEFINE front == SubSeq(ids, 1, k - 1)
             back == SubSeq(ids, k + 1, Len(ids))
  <1>1. Len(ids) \in Nat /\ k \in Nat /\ k - 1 \in Int /\ k + 1 \in Int /\ 1 \in Int
    BY LenProperties
  <1>2. /\ front \in Seq(Clients) /\ Len(front) = k - 1
        /\ \A i \in 1 .. k - 1 : front[i] = ids[i]
    <2>1. \A i \in 1 .. k - 1 : ids[i] \in Clients
      BY <1>1, ElementOfSeq
    <2>2. /\ front \in Seq(Clients)
          /\ Len(front) = IF 1 <= k - 1 THEN k - 1 - 1 + 1 ELSE 0
          /\ \A i \in 1 .. k - 1 - 1 + 1 : front[i] = ids[1 + i - 1]
      BY <1>1, <2>1, SubSeqProperties
    <2> HIDE DEF front
    <2> QED
      BY <1>1, <2>2
  <1>3. /\ back \in Seq(Clients) /\ Len(back) = Len(ids) - k
        /\ \A i \in 1 .. Len(ids) - k : back[i] = ids[k + i]
    <2>1. \A i \in k + 1 .. Len(ids) : ids[i] \in Clients
      BY <1>1, ElementOfSeq
    <2>2. /\ back \in Seq(Clients)
          /\ Len(back) = IF k + 1 <= Len(ids) THEN Len(ids) - (k + 1) + 1 ELSE 0
          /\ \A i \in 1 .. Len(ids) - (k + 1) + 1 : back[i] = ids[k + 1 + i - 1]
      BY <1>1, <2>1, SubSeqProperties
    <2> HIDE DEF back
    <2> QED
      BY <1>1, <2>2
  <1>4. RemoveAt(ids, k) = front \o back
    BY DEF RemoveAt
  <1> HIDE DEF front, back
  <1>5. /\ front \o back \in Seq(Clients)
        /\ Len(front \o back) = Len(front) + Len(back)
        /\ \A i \in 1 .. Len(front) + Len(back) : (front \o back)[i] =
              IF i <= Len(front) THEN front[i] ELSE back[i - Len(front)]
    BY <1>2, <1>3, ConcatProperties
  <1> DEFINE all == front \o back
  <1> HIDE DEF all
  <1>6. Len(all) = Len(ids) - 1
    BY <1>1, <1>2, <1>3, <1>5 DEF all
  <1>7. ASSUME NEW i \in 1 .. Len(ids) - 1
        PROVE  all[i] = IF i < k THEN ids[i] ELSE ids[i + 1]
    <2>1. all[i] = IF i <= k - 1 THEN front[i] ELSE back[i - (k - 1)]
      BY <1>1, <1>2, <1>3, <1>5 DEF all
    <2>2. CASE i < k
      BY <1>1, <1>2, <2>1, <2>2
    <2>3. CASE ~(i < k)
      <3>1. i - (k - 1) \in 1 .. Len(ids) - k
        BY <1>1, <2>3
      <3>2. back[i - (k - 1)] = ids[k + (i - (k - 1))]
        BY <1>3, <3>1
      <3>3. k + (i - (k - 1)) = i + 1
        BY <1>1
      <3> QED
        BY <1>1, <2>1, <2>3, <3>2, <3>3
    <2> QED
      BY <2>2, <2>3
  <1> QED
    BY <1>4, <1>5, <1>6, <1>7 DEF all

\* What drop_member leaves of the vector: it erases the first place of the client,
\* and nothing if the client is not there (a close that is repeated).
LEMMA OccursWithout ==
    ASSUME NEW ids \in Seq(Clients), NEW c
    PROVE  /\ Without(ids, c) \in Seq(Clients)
           /\ \A d : d # c => Occurrences(Without(ids, c), d) = Occurrences(ids, d)
           /\ Occurrences(Without(ids, c), c) =
                  IF Occurrences(ids, c) > 0 THEN Occurrences(ids, c) - 1 ELSE 0
  <1> DEFINE places == {i \in 1 .. Len(ids) : ids[i] = c}
  <1>1. /\ Occurrences(ids, c) \in Nat
        /\ Occurrences(ids, c) > 0 <=> c \in ToSet(ids)
        /\ ToSet(ids) = {ids[k] : k \in 1 .. Len(ids)}
    BY OccursPositive
  <1>2. CASE places = {}
    <2>1. ~ \E i \in 1 .. Len(ids) : ids[i] = c
      BY <1>2
    <2>2. Without(ids, c) = ids
      BY <2>1 DEF Without, RemoveFirst
    <2>3. ~(Occurrences(ids, c) > 0)
      BY <1>1, <2>1
    <2> QED
      BY <1>1, <2>2, <2>3
  <1>3. CASE places # {}
    <2>1. places \in SUBSET Nat
      BY LenProperties
    <2>2. \E i \in 1 .. Len(ids) : ids[i] = c
      BY <1>3
    <2>3. SelectInSeq(ids, LAMBDA v : v = c) = IF places # {} THEN Min(places) ELSE 0
      BY DEF SelectInSeq
    <2>4. Min(places) \in places
      <3> HIDE DEF places
      <3>1. \E k \in places : \A j \in places : k <= j
        <4>1. PICK k \in places : \A y \in places : ~(y < k)
          <5>1. PICK k \in places : \A y \in places : ~(<<y, k>> \in OpToRel(<, Nat))
            BY <1>3, <2>1, NatLessThanWellFounded, WFMin
          <5> QED
            BY <2>1, <5>1 DEF OpToRel
        <4> QED
          BY <2>1, <4>1
      <3> QED
        BY <3>1 DEF Min
    <2> PICK k : k = Min(places)
      OBVIOUS
    <2>5. k \in 1 .. Len(ids) /\ ids[k] = c
      BY <2>4
    <2>6. Without(ids, c) = RemoveAt(ids, k)
      <3>1. SelectInSeq(ids, LAMBDA v : v = c) = k
        BY <1>3, <2>3
      <3> QED
        BY <2>2, <3>1 DEF Without, RemoveFirst
    <2> DEFINE rest == RemoveAt(ids, k)
    <2>7. rest \in Seq(Clients) /\ IsWithoutPlace(rest, ids, k)
      BY <2>5, RemoveAtProperties DEF IsWithoutPlace
    <2> HIDE DEF rest, places
    <2>8. ASSUME NEW d
          PROVE  Occurrences(ids, d) = Occurrences(rest, d) + IF d = c THEN 1 ELSE 0
      <3>1. Occurrences(ids, d) = Occurrences(rest, d) + IF ids[k] = d THEN 1 ELSE 0
        BY <2>5, <2>7, OccursWithoutPlace
      <3> QED
        BY <2>5, <3>1
    <2>9. \A d : Occurrences(rest, d) \in Nat
      BY <2>7, OccursPositive
    <2>10. \A d : d # c => Occurrences(rest, d) = Occurrences(ids, d)
      BY <2>8, <2>9
    <2>11. Occurrences(rest, c) = Occurrences(ids, c) - 1 /\ Occurrences(ids, c) > 0
      BY <2>8, <2>9
    <2> QED
      BY <2>6, <2>7, <2>10, <2>11 DEF rest
  <1> QED
    BY <1>2, <1>3

-----------------------------------------------------------------------------
(* A group and the logins of its members                                    *)

GroupType ==
    [owner_id : Clients,
     players : UNION {[D -> BOOLEAN] : D \in SUBSET Clients},
     sorted_members_ids : Seq(Clients)]

\* A group that holds its start back.
HeldBack(gr) == IsFull(gr) /\ \A d \in DOMAIN gr.players : gr.players[d]

\* gr is a record of clients with R[d] registrations each; of those, the clients of O
\* are open, and are players.
Records(gr, R, O) ==
    /\ IsFiniteSet(DOMAIN gr.players) /\ Cardinality(DOMAIN gr.players) <= MaxPlayers
    /\ ~HeldBack(gr)
    /\ \A d \in Clients : Occurrences(gr.sorted_members_ids, d) = R[d]
    /\ \A d \in DOMAIN gr.players : R[d] > 0
    /\ \A d \in O : R[d] > 0 => d \in DOMAIN gr.players

LEMMA PlayersType ==
    ASSUME NEW D \in SUBSET Clients, NEW f \in [D -> BOOLEAN]
    PROVE  f \in UNION {[E -> BOOLEAN] : E \in SUBSET Clients}
  OBVIOUS

LEMMA PlayersDomain ==
    ASSUME NEW gr \in GroupType
    PROVE  DOMAIN gr.players \in SUBSET Clients /\ gr.players \in [DOMAIN gr.players -> BOOLEAN]
  BY DEF GroupType

\* add_client: one registration more, of a member who is not ready.
LEMMA AddClientRecords ==
    ASSUME NEW gr, NEW R \in [Clients -> Nat], NEW O, NEW c \in Clients,
           gr.owner_id \in Clients \cup {NoOne},
           gr.sorted_members_ids \in Seq(Clients),
           DOMAIN gr.players \in SUBSET Clients, gr.players \in [DOMAIN gr.players -> BOOLEAN],
           Records(gr, R, O), ~IsFull(gr)
    PROVE  /\ AddClient(gr, c) \in GroupType
           /\ Records(AddClient(gr, c), [R EXCEPT ![c] = R[c] + 1], O)
  <1> DEFINE gr2 == AddClient(gr, c)
             M == DOMAIN gr.players
             N == M \cup {c}
             ids == gr.sorted_members_ids
             S == [R EXCEPT ![c] = R[c] + 1]
  <1>1. /\ M \subseteq Clients /\ IsFiniteSet(M) /\ Cardinality(M) \in Nat
        /\ \A d \in M : gr.players[d] \in BOOLEAN
        /\ \A d \in Clients : Occurrences(ids, d) = R[d]
        /\ \A d \in M : R[d] > 0
        /\ \A d \in O : R[d] > 0 => d \in M
    BY FS_CardinalityType DEF Records
  <1>2. gr2.players = [d \in N |-> IF d = c THEN FALSE ELSE gr.players[d]]
    BY DEF AddClient
  <1>3. gr2.sorted_members_ids = Append(ids, c) /\ Append(ids, c) \in Seq(Clients)
    BY AppendProperties DEF AddClient
  <1>4. \A d \in Clients : Occurrences(gr2.sorted_members_ids, d) = S[d]
    <2> TAKE d \in Clients
    <2>1. Occurrences(Append(ids, c), d) = Occurrences(ids, d) + IF d = c THEN 1 ELSE 0
      BY OccursAfterAppend
    <2>2. R[d] \in Nat /\ S[d] = IF d = c THEN R[d] + 1 ELSE R[d]
      OBVIOUS
    <2> HIDE DEF S, ids
    <2> QED
      BY <1>1, <1>3, <2>1, <2>2
  <1>5. IsFiniteSet(N) /\ Cardinality(N) <= MaxPlayers
    <2>1. Cardinality(M) < MaxPlayers
      BY <1>1, MaxPlayersAssumption DEF IsFull
    <2>2. /\ IsFiniteSet(N)
          /\ Cardinality(N) = IF c \in M THEN Cardinality(M) ELSE Cardinality(M) + 1
      BY <1>1, FS_AddElement
    <2> HIDE DEF N, M
    <2> QED
      BY <1>1, <2>1, <2>2, MaxPlayersAssumption
  <1>6. gr2 \in GroupType
    <2>1. gr2.players \in [N -> BOOLEAN] /\ N \in SUBSET Clients
      BY <1>1, <1>2
    <2>2. gr2.players \in UNION {[E -> BOOLEAN] : E \in SUBSET Clients}
      BY <2>1, PlayersType
    <2>3. gr2 = [owner_id |-> gr2.owner_id, players |-> gr2.players,
                 sorted_members_ids |-> gr2.sorted_members_ids]
      BY DEF AddClient
    <2>4. gr2.owner_id \in Clients
      BY DEF AddClient
    <2> HIDE DEF gr2
    <2> QED
      BY <1>3, <2>2, <2>3, <2>4 DEF GroupType
  <1>7. ~HeldBack(gr2)
    BY <1>2, Zenon DEF HeldBack
  <1>8. DOMAIN gr2.players = N
    BY <1>2
  <1>9. /\ \A d \in N : S[d] > 0
        /\ \A d \in Clients : S[d] > 0 => d = c \/ R[d] > 0
    BY <1>1
  <1>10. \A d \in O : S[d] > 0 => d \in N
    <2> SUFFICES ASSUME NEW d \in O, S[d] > 0, d # c PROVE d \in M
      OBVIOUS
    <2>1. S[d] = R[d]
      OBVIOUS
    <2> QED
      BY <1>1, <2>1
  <1> HIDE DEF gr2, N, S
  <1> QED
    BY <1>4, <1>5, <1>6, <1>7, <1>8, <1>9, <1>10 DEF Records, gr2, S

\* set_ready_state: a group that it makes ready starts, and nobody is ready then.
LEMMA SetReadyRecords ==
    ASSUME NEW gr \in GroupType, NEW R, NEW O, NEW c \in DOMAIN gr.players,
           NEW state \in BOOLEAN, Records(gr, R, O)
    PROVE  LET gr2 == [gr EXCEPT !.players[c] = state]
               gr3 == IF StartsGame(gr, gr2) THEN Unready(gr2) ELSE gr2
           IN  gr3 \in GroupType /\ Records(gr3, R, O)
  <1> DEFINE gr2 == [gr EXCEPT !.players[c] = state]
             gr3 == IF StartsGame(gr, gr2) THEN Unready(gr2) ELSE gr2
             ready == [gr.players EXCEPT ![c] = state]
  <1> PICK M : M = DOMAIN gr.players
    OBVIOUS
  <1>1. /\ M \in SUBSET Clients /\ gr.players \in [M -> BOOLEAN] /\ c \in M
        /\ DOMAIN gr.players = M
    BY PlayersDomain
  <1>2. /\ gr2.players = ready /\ gr2.owner_id = gr.owner_id
        /\ gr2.sorted_members_ids = gr.sorted_members_ids
        /\ gr2 = [owner_id |-> gr.owner_id, players |-> ready,
                  sorted_members_ids |-> gr.sorted_members_ids]
    BY DEF GroupType
  <1>3. ready \in [M -> BOOLEAN]
    BY <1>1
  <1> DEFINE none == [d \in M |-> FALSE]
  <1>4. Unready(gr2) = [owner_id |-> gr.owner_id, players |-> none,
                        sorted_members_ids |-> gr.sorted_members_ids]
    <2>1. [d \in DOMAIN gr2.players |-> FALSE] = none
      BY <1>2, <1>3
    <2>2. Unready(gr2) = [gr2 EXCEPT !.players = [d \in DOMAIN gr2.players |-> FALSE]]
      BY <1>2 DEF Unready
    <2> HIDE DEF gr2, none, ready
    <2> QED
      BY <1>2, <2>1, <2>2
  <1>5. ~HeldBack(gr3)
    <2>1. CASE StartsGame(gr, gr2)
      <3>1. M # {}
        BY <1>1
      <3>2. gr3 = Unready(gr2)
        BY <2>1
      <3>3. gr3.players = none
        <4> HIDE DEF gr2, gr3, none
        <4> QED
          BY <1>4, <3>2
      <3>4. \A d \in M : ~none[d]
        OBVIOUS
      <3>5. DOMAIN none = M
        OBVIOUS
      <3> HIDE DEF gr3, none
      <3> QED
        BY <3>1, <3>3, <3>4, <3>5, Zenon DEF HeldBack
    <2>2. CASE ~StartsGame(gr, gr2)
      <3>1. gr3 = gr2
        BY <2>2
      <3> HIDE DEF gr2, gr3
      <3> QED
        BY <2>2, <3>1, Zenon DEF HeldBack, StartsGame
    <2> QED
      BY <2>1, <2>2
  <1>6. \E p \in [M -> BOOLEAN] :
            gr3 = [owner_id |-> gr.owner_id, players |-> p,
                   sorted_members_ids |-> gr.sorted_members_ids]
    <2>1. none \in [M -> BOOLEAN]
      OBVIOUS
    <2> HIDE DEF none, ready
    <2>2. CASE StartsGame(gr, gr2)
      BY <1>4, <2>1, <2>2
    <2>3. CASE ~StartsGame(gr, gr2)
      BY <1>2, <1>3, <2>3
    <2> QED
      BY <2>2, <2>3
  <1> HIDE DEF gr3
  <1>7. PICK p \in [M -> BOOLEAN] :
            gr3 = [owner_id |-> gr.owner_id, players |-> p,
                   sorted_members_ids |-> gr.sorted_members_ids]
    BY <1>6
  <1>8. gr3 \in GroupType
    <2>1. p \in UNION {[E -> BOOLEAN] : E \in SUBSET Clients}
      BY <1>1, PlayersType
    <2> QED
      BY <1>7, <2>1 DEF GroupType
  <1>9. /\ DOMAIN gr3.players = DOMAIN gr.players
        /\ gr3.sorted_members_ids = gr.sorted_members_ids
    BY <1>1, <1>7
  <1>10. Records(gr3, R, O)
    BY <1>5, <1>9 DEF Records
  <1> QED
    BY <1>8, <1>10 DEF gr3

\* drop_member of a client that is not open: it is gone from the map, and one of its
\* registrations from the vector; nothing starts, since either the group is not full
\* now or no player left it.
LEMMA DropRecords ==
    ASSUME NEW gr \in GroupType, NEW R \in [Clients -> Nat], NEW O, NEW c \in Clients \ O,
           Records(gr, R, O)
    PROVE  LET gr2 == [gr EXCEPT
                          !.players = [d \in DOMAIN @ \ {c} |-> @[d]],
                          !.sorted_members_ids = Without(@, c)]
               S == [R EXCEPT ![c] = IF R[c] > 0 THEN R[c] - 1 ELSE 0]
           IN  /\ gr2 \in GroupType /\ Records(gr2, S, O)
               /\ \A owner \in DOMAIN gr2.players :
                     /\ [gr2 EXCEPT !.owner_id = owner] \in GroupType
                     /\ Records([gr2 EXCEPT !.owner_id = owner], S, O)
  <1> DEFINE M == DOMAIN gr.players
             N == M \ {c}
             rest == [d \in N |-> gr.players[d]]
             ids == Without(gr.sorted_members_ids, c)
             Left(owner) == [owner_id |-> owner, players |-> rest, sorted_members_ids |-> ids]
             gr2 == [gr EXCEPT
                          !.players = [d \in DOMAIN @ \ {c} |-> @[d]],
                          !.sorted_members_ids = Without(@, c)]
             S == [R EXCEPT ![c] = IF R[c] > 0 THEN R[c] - 1 ELSE 0]
  <1>1. /\ M \in SUBSET Clients /\ \A d \in M : gr.players[d] \in BOOLEAN
        /\ gr.players = [d \in M |-> gr.players[d]]
        /\ IsFiniteSet(M) /\ Cardinality(M) <= MaxPlayers
        /\ ~HeldBack(gr)
        /\ \A d \in Clients : Occurrences(gr.sorted_members_ids, d) = R[d]
        /\ \A d \in M : R[d] > 0
        /\ \A d \in O : R[d] > 0 => d \in M
    <2>1. M \in SUBSET Clients /\ gr.players \in [M -> BOOLEAN]
      BY PlayersDomain
    <2> QED
      BY <2>1 DEF Records
  <1>2. gr2 = Left(gr.owner_id) /\ gr.owner_id \in Clients
    <2>1. gr2 = [gr EXCEPT !.players = rest, !.sorted_members_ids = ids]
      BY DEF GroupType
    <2> HIDE DEF gr2, rest, ids
    <2> QED
      BY <2>1 DEF GroupType
  <1>3. IsFiniteSet(N) /\ Cardinality(M) \in Nat /\ Cardinality(N) \in Nat
        /\ Cardinality(N) = IF c \in M THEN Cardinality(M) - 1 ELSE Cardinality(M)
    <2> HIDE DEF M
    <2> QED
      BY <1>1, FS_RemoveElement, FS_CardinalityType
  <1>4. ids \in Seq(Clients) /\ \A d \in Clients : Occurrences(ids, d) = S[d]
    <2>1. gr.sorted_members_ids \in Seq(Clients)
      BY DEF GroupType
    <2>2. /\ ids \in Seq(Clients)
          /\ \A d : d # c => Occurrences(ids, d) = Occurrences(gr.sorted_members_ids, d)
          /\ Occurrences(ids, c) = IF Occurrences(gr.sorted_members_ids, c) > 0
                                   THEN Occurrences(gr.sorted_members_ids, c) - 1 ELSE 0
      BY <2>1, OccursWithout
    <2>3. \A d \in Clients : S[d] = IF d = c THEN (IF R[c] > 0 THEN R[c] - 1 ELSE 0) ELSE R[d]
      OBVIOUS
    <2> HIDE DEF ids, S
    <2> QED
      BY <1>1, <2>2, <2>3
  <1>5. rest \in [N -> BOOLEAN] /\ N \in SUBSET Clients /\ DOMAIN rest = N
    BY <1>1
  <1>6. ~HeldBack(Left(NoOne))
    <2>1. CASE c \in M
      <3>1. Cardinality(N) < MaxPlayers
        <4> HIDE DEF N, M
        <4> QED
          BY <1>1, <1>3, <2>1, MaxPlayersAssumption
      <3>2. DOMAIN Left(NoOne).players = N
        OBVIOUS
      <3> HIDE DEF N, rest, Left
      <3> QED
        BY <1>3, <3>1, <3>2, MaxPlayersAssumption DEF HeldBack, IsFull
    <2>2. CASE c \notin M
      <3>1. N = M
        BY <2>2
      <3>2. rest = gr.players
        BY <1>1, <3>1
      <3>3. Left(NoOne).players = gr.players
        BY <3>2
      <3> HIDE DEF Left
      <3> QED
        BY <1>1, <3>3, Zenon DEF HeldBack, IsFull
    <2> QED
      BY <2>1, <2>2
  <1>7. /\ \A d \in N : S[d] > 0
        /\ \A d \in O : S[d] > 0 => d \in N
    <2>1. \A d : d # c => S[d] = R[d]
      OBVIOUS
    <2>2. \A d \in O : d # c
      OBVIOUS
    <2> HIDE DEF S
    <2> QED
      BY <1>1, <2>1, <2>2
  <1>8. ASSUME NEW owner \in Clients
        PROVE  Left(owner) \in GroupType /\ Records(Left(owner), S, O)
    <2>1. rest \in UNION {[E -> BOOLEAN] : E \in SUBSET Clients}
      BY <1>5, PlayersType
    <2>2. Left(owner) \in GroupType
      BY <1>4, <2>1 DEF GroupType
    <2>3. Cardinality(N) <= MaxPlayers
      <3> HIDE DEF N, M
      <3> QED
        BY <1>1, <1>3, MaxPlayersAssumption
    <2>4. Left(owner).players = Left(NoOne).players
      OBVIOUS
    <2>5. ~HeldBack(Left(owner))
      <3> HIDE DEF Left
      <3> QED
        BY <1>6, <2>4, Zenon DEF HeldBack, IsFull
    <2>6. DOMAIN Left(owner).players = N /\ Left(owner).sorted_members_ids = ids
      OBVIOUS
    <2> HIDE DEF N, rest, ids, Left, S
    <2> QED
      BY <1>3, <1>4, <1>7, <2>2, <2>3, <2>5, <2>6 DEF Records
  <1>9. \A owner \in DOMAIN gr2.players :
            owner \in Clients /\ [gr2 EXCEPT !.owner_id = owner] = Left(owner)
    <2> HIDE DEF gr2, rest, ids, N
    <2> QED
      BY <1>2, <1>5
  <1> HIDE DEF gr2, Left, S
  <1>10. /\ gr2 \in GroupType /\ Records(gr2, S, O)
         /\ \A owner \in DOMAIN gr2.players :
               /\ [gr2 EXCEPT !.owner_id = owner] \in GroupType
               /\ Records([gr2 EXCEPT !.owner_id = owner], S, O)
    BY <1>2, <1>8, <1>9
  <1> QED
    BY <1>10, Zenon DEF gr2, S

-----------------------------------------------------------------------------
(* The inductive invariant                                                  *)

Typed ==
    /\ conn \in [Clients -> {"off", "connected", "full", "closed"}]
    /\ closed_again \subseteq Clients
    /\ groups \in Seq(GroupType)
    /\ joined \in [Clients -> Seq(1 .. Len(groups))]
    /\ logins \in 0 .. MaxLogins
    /\ readies \in 0 .. MaxReady
    /\ overtaken \subseteq Clients

\* Listeners run of a client that registered them: after its close, or before it.
Dispatches ==
    \/ dispatch = Idle
    \/ /\ dispatch \in [event : {"net/disconnect", "group/set_ready_state"},
                        client : Clients, state : BOOLEAN,
                        groups : Seq(1 .. Len(groups))]
       /\ dispatch.groups # <<>>
       /\ ToSet(dispatch.groups) \subseteq ToSet(joined[dispatch.client])
       /\ dispatch.event = "net/disconnect" => conn[dispatch.client] = "closed"
       /\ dispatch.event = "group/set_ready_state" => Open(dispatch.client)

\* Nobody logs in before it is connected, or closes again before it has closed.
Connections ==
    /\ \A c \in Clients : conn[c] = "off" => joined[c] = <<>>
    /\ \A c \in closed_again : conn[c] = "closed"

\* The registrations of d in g: those it made, less those that its close has undone.
Pending(d, g) ==
    IF dispatch.event = "net/disconnect" /\ dispatch.client = d
    THEN Occurrences(dispatch.groups, g) ELSE 0
Registered(d, g) ==
    IF Open(d) THEN Occurrences(joined[d], g)
    ELSE IF d \notin closed_again THEN Pending(d, g) ELSE 0
RegisteredIn(g) == [d \in Clients |-> Registered(d, g)]
OpenClients == {d \in Clients : Open(d)}

GroupsRecord ==
    \A g \in 1 .. Len(groups) : Records(groups[g], RegisteredIn(g), OpenClients)

IInv == Typed /\ Dispatches /\ Connections /\ GroupsRecord

LEMMA IdleType ==
    /\ Idle.event = "net/disconnect" /\ Idle.client = NoOne /\ Idle.groups = <<>>
    /\ \A d \in Clients : d # Idle.client
  BY NoOneAssumption DEF Idle

LEMMA ListenersType ==
    ASSUME NEW event, NEW c, NEW state, NEW gs
    PROVE  /\ gs = <<>> => Listeners(event, c, state, gs) = Idle
           /\ gs # <<>> => Listeners(event, c, state, gs) =
                               [event |-> event, client |-> c, state |-> state, groups |-> gs]
  BY DEF Listeners

LEMMA RegistrationsType ==
    ASSUME IInv
    PROVE  /\ \A g : RegisteredIn(g) \in [Clients -> Nat]
           /\ \A g : \A d \in Clients : Occurrences(joined[d], g) \in Nat
           /\ dispatch = Idle =>
                 \A g : \A d \in Clients :
                    Registered(d, g) = IF Open(d) THEN Occurrences(joined[d], g) ELSE 0
  <1> PICK S : S = 1 .. Len(groups)
    OBVIOUS
  <1>1. ASSUME NEW g, NEW d \in Clients PROVE Occurrences(joined[d], g) \in Nat
    <2>1. joined[d] \in Seq(S)
      BY DEF IInv, Typed
    <2> QED
      BY <2>1, OccursPositive
  <1>2. ASSUME NEW g, NEW d \in Clients PROVE Pending(d, g) \in Nat
    <2>1. CASE dispatch = Idle
      BY <2>1, IdleType DEF Pending
    <2>2. CASE dispatch # Idle
      <3>1. dispatch.groups \in Seq(S)
        BY <2>2 DEF IInv, Dispatches
      <3> QED
        BY <3>1, OccursPositive DEF Pending
    <2> QED
      BY <2>1, <2>2
  <1>3. dispatch = Idle => \A g : \A d \in Clients : Pending(d, g) = 0
    BY IdleType DEF Pending
  <1> QED
    BY <1>1, <1>2, <1>3 DEF Registered, RegisteredIn

LEMMA InitInv == Init => IInv
  <1> SUFFICES ASSUME Init PROVE IInv
    OBVIOUS
  <1>1. groups \in Seq(GroupType) /\ Len(groups) = 0
    BY EmptySeq DEF Init
  <1>2. readies \in 0 .. MaxReady /\ logins \in 0 .. MaxLogins
    BY MaxReadyAssumption, MaxLoginsAssumption DEF Init
  <1>3. joined \in [Clients -> Seq(1 .. Len(groups))]
    BY EmptySeq DEF Init
  <1>4. Typed
    BY <1>1, <1>2, <1>3 DEF Init, Typed
  <1>5. Dispatches /\ Connections
    BY DEF Init, Dispatches, Connections
  <1>6. GroupsRecord
    BY <1>1 DEF GroupsRecord
  <1> QED
    BY <1>4, <1>5, <1>6 DEF IInv

\* More open clients, without a registration.
LEMMA RecordsOfMore ==
    ASSUME NEW gr, NEW R, NEW O, NEW P, Records(gr, R, O), \A d \in P \ O : ~(R[d] > 0)
    PROVE  Records(gr, R, P)
  BY DEF Records

\* A step that leaves the groups alone.
LEMMA NoGroupChanges ==
    ASSUME IInv, groups' = groups,
           \A h \in 1 .. Len(groups) : \A d \in Clients : Registered(d, h)' = Registered(d, h),
           \A d \in Clients : Open(d)' /\ ~Open(d) => joined'[d] = <<>>
    PROVE  GroupsRecord'
  <1> SUFFICES ASSUME NEW h \in 1 .. Len(groups)
               PROVE  Records(groups[h], RegisteredIn(h)', OpenClients')
    BY DEF GroupsRecord
  <1>1. RegisteredIn(h)' = RegisteredIn(h)
    BY DEF RegisteredIn
  <1>2. Records(groups[h], RegisteredIn(h), OpenClients)
    BY DEF IInv, GroupsRecord
  <1>3. ASSUME NEW d \in OpenClients' \ OpenClients PROVE ~(RegisteredIn(h)'[d] > 0)
    <2>1. d \in Clients /\ Open(d)' /\ ~Open(d)
      BY <1>3 DEF OpenClients
    <2>2. Registered(d, h)' = Occurrences(<<>>, h)
      BY <2>1 DEF Registered
    <2>3. RegisteredIn(h)'[d] = 0
      BY <2>1, <2>2, OccursInNothing DEF RegisteredIn
    <2> QED
      BY <2>3
  <1> QED
    BY <1>1, <1>2, <1>3, RecordsOfMore

\* A step that replaces the record of one group, and opens no client.
LEMMA OneGroupChanges ==
    ASSUME IInv, NEW g \in 1 .. Len(groups), NEW gr \in GroupType,
           groups' = [groups EXCEPT ![g] = gr],
           OpenClients' = OpenClients,
           Records(gr, RegisteredIn(g)', OpenClients),
           \A h \in 1 .. Len(groups) \ {g} : RegisteredIn(h)' = RegisteredIn(h)
    PROVE  groups' \in Seq(GroupType) /\ Len(groups') = Len(groups) /\ GroupsRecord'
  <1>1. groups \in Seq(GroupType)
    BY DEF IInv, Typed
  <1>2. /\ groups' \in Seq(GroupType) /\ Len(groups') = Len(groups)
        /\ \A h \in 1 .. Len(groups) : groups'[h] = IF h = g THEN gr ELSE groups[h]
    BY <1>1, ExceptSeq
  <1>3. ASSUME NEW h \in 1 .. Len(groups)
        PROVE  Records(groups'[h], RegisteredIn(h)', OpenClients')
    <2>1. CASE h = g
      BY <1>2, <2>1
    <2>2. CASE h # g
      BY <1>2, <2>2 DEF IInv, GroupsRecord
    <2> QED
      BY <2>1, <2>2
  <1> QED
    BY <1>2, <1>3 DEF GroupsRecord

\* A connection opens, or its handshake is handled: it has not logged in yet, or was
\* open before.
LEMMA ConnStep ==
    ASSUME IInv, NEW c \in Clients, Connect(c) \/ HandshakeDone(c)
    PROVE  IInv'
  <1>1. /\ conn' \in [Clients -> {"off", "connected", "full", "closed"}]
        /\ \A d \in Clients \ {c} : conn'[d] = conn[d]
        /\ groups' = groups /\ joined' = joined /\ readies' = readies /\ logins' = logins
        /\ closed_again' = closed_again /\ overtaken' = overtaken
        /\ dispatch = Idle /\ dispatch' = Idle
    BY DEF IInv, Typed, Connect, HandshakeDone
  <1>2. Open(c) \/ (~Open(c) /\ joined[c] = <<>> /\ conn[c] # "closed")
    BY DEF Connect, HandshakeDone, Open, IInv, Connections
  <1>3. Open(c)' /\ conn[c] # "closed"
    BY DEF IInv, Typed, Connect, HandshakeDone, Open
  <1>4. \A d \in Clients \ {c} : Open(d)' <=> Open(d)
    BY <1>1 DEF Open
  <1>5. ASSUME NEW h \in 1 .. Len(groups), NEW d \in Clients
        PROVE  Registered(d, h)' = Registered(d, h)
    <2>1. Pending(d, h)' = Pending(d, h) /\ Pending(d, h) = 0
      BY <1>1, IdleType DEF Pending
    <2>2. CASE Open(d)' <=> Open(d)
      BY <1>1, <2>1, <2>2 DEF Registered
    <2>3. CASE ~(Open(d)' <=> Open(d))
      <3>1. Registered(d, h) = 0 /\ Registered(d, h)' = Occurrences(<<>>, h)
        BY <1>1, <1>2, <1>3, <1>4, <2>1, <2>3 DEF Registered
      <3> QED
        BY <3>1, OccursInNothing
    <2> QED
      BY <2>2, <2>3
  <1>6. GroupsRecord'
    <2>1. \A d \in Clients : Open(d)' /\ ~Open(d) => joined'[d] = <<>>
      BY <1>1, <1>2, <1>4
    <2> QED
      BY <1>1, <1>5, <2>1, NoGroupChanges
  <1>7. Connections'
    <2>1. c \notin closed_again /\ closed_again \subseteq Clients
      BY <1>3 DEF IInv, Connections, Typed
    <2>2. conn'[c] # "off"
      BY <1>3 DEF Open
    <2>3. \A d \in Clients : conn'[d] = "off" => joined'[d] = <<>>
      BY <1>1, <2>2 DEF IInv, Connections
    <2>4. \A d \in closed_again' : conn'[d] = "closed"
      BY <1>1, <2>1 DEF IInv, Connections
    <2> QED
      BY <2>3, <2>4 DEF Connections
  <1>8. Typed' /\ Dispatches'
    BY <1>1 DEF IInv, Typed, Dispatches
  <1> QED
    BY <1>6, <1>7, <1>8 DEF IInv

\* client/login, into a group that is not full or into a new one.
LEMMA LoginStep ==
    ASSUME IInv, NEW c \in Clients, Login(c), dispatch = Idle
    PROVE  IInv'
  <1> DEFINE free == {g \in DOMAIN groups : ~IsFull(groups[g])}
             new == Len(groups) + 1
             Old(g) == IF g = new THEN EmptyGroup ELSE groups[g]
  <1>1. /\ groups \in Seq(GroupType) /\ Len(groups) \in Nat
        /\ DOMAIN groups = 1 .. Len(groups)
        /\ joined \in [Clients -> Seq(1 .. Len(groups))]
        /\ Open(c) /\ logins < MaxLogins /\ logins' = logins + 1 /\ logins \in Nat
        /\ conn' = conn /\ closed_again' = closed_again /\ readies' = readies
        /\ dispatch' = dispatch /\ overtaken' = overtaken
    BY LenProperties DEF IInv, Typed, Login
  <1>2. PICK g \in IF free = {} THEN {new} ELSE free :
           /\ groups' = [h \in DOMAIN groups \cup {g} |->
                            IF h = g THEN AddClient(Old(g), c) ELSE groups[h]]
           /\ joined' = [joined EXCEPT ![c] = Append(joined[c], g)]
    BY DEF Login
  <1>3. g = new \/ (g \in 1 .. Len(groups) /\ ~IsFull(groups[g]))
    BY <1>1, <1>2
  <1>4. g \in Nat \ {0} /\ g <= new
    BY <1>1, <1>3
  <1>5. /\ \A d \in Clients : Open(d)' <=> Open(d)
        /\ OpenClients' = OpenClients
    BY <1>1 DEF Open, OpenClients
  <1> DEFINE R == RegisteredIn(g)
             N == 1 .. new
  <1>6. /\ \A h : RegisteredIn(h) \in [Clients -> Nat]
        /\ \A h : \A d \in Clients :
              Registered(d, h) = IF Open(d) THEN Occurrences(joined[d], h) ELSE 0
        /\ \A h : \A d \in Clients :
              Registered(d, h)' = IF Open(d) THEN Occurrences(joined'[d], h) ELSE 0
    <2>1. \A h : \A d \in Clients : Pending(d, h)' = 0
      BY <1>1, IdleType DEF Pending
    <2> QED
      BY <1>1, <1>5, <2>1, RegistrationsType DEF Registered
  <1>7. joined[c] \in Seq(N) /\ g \in N
    <2>1. Seq(1 .. Len(groups)) \subseteq Seq(N)
      <3>1. 1 .. Len(groups) \subseteq N
        BY <1>1
      <3> QED
        BY <3>1
    <2> QED
      BY <1>1, <1>4, <2>1
  <1>8. RegisteredIn(g)' = [R EXCEPT ![c] = R[c] + 1]
    <2> SUFFICES ASSUME NEW d \in Clients
                 PROVE  Registered(d, g)' = IF d = c THEN R[c] + 1 ELSE R[d]
      BY <1>6 DEF RegisteredIn
    <2>1. R[d] = Registered(d, g)
      BY DEF RegisteredIn
    <2>2. CASE d = c
      <3>1. Occurrences(Append(joined[c], g), g) = Occurrences(joined[c], g) + 1
        BY <1>7, OccursAfterAppend
      <3>2. joined'[c] = Append(joined[c], g)
        BY <1>1, <1>2
      <3> QED
        BY <1>1, <1>6, <2>1, <2>2, <3>1, <3>2
    <2>3. CASE d # c
      <3>1. joined'[d] = joined[d]
        BY <1>1, <1>2, <2>3
      <3> QED
        BY <1>6, <2>1, <2>3, <3>1
    <2> QED
      BY <2>2, <2>3
  <1>9. ASSUME NEW h, h # g PROVE RegisteredIn(h)' = RegisteredIn(h)
    <2> SUFFICES ASSUME NEW d \in Clients PROVE Registered(d, h)' = Registered(d, h)
      BY DEF RegisteredIn
    <2>1. CASE d = c
      <3>1. Occurrences(Append(joined[c], g), h) = Occurrences(joined[c], h) + 0
        BY <1>7, <1>9, OccursAfterAppend
      <3>2. joined'[c] = Append(joined[c], g)
        BY <1>1, <1>2
      <3>3. Occurrences(joined[c], h) \in Nat
        BY RegistrationsType
      <3>4. Registered(c, h) = Occurrences(joined[c], h)
        BY <1>1, <1>6
      <3>5. Registered(c, h)' = Occurrences(joined'[c], h)
        BY <1>1, <1>6
      <3> QED
        BY <2>1, <3>1, <3>2, <3>3, <3>4, <3>5
    <2>2. CASE d # c
      <3>1. joined'[d] = joined[d]
        BY <1>1, <1>2, <2>2
      <3> QED
        BY <1>6, <3>1
    <2> QED
      BY <2>1, <2>2
  <1>10. /\ Old(g).owner_id \in Clients \cup {NoOne}
         /\ Old(g).sorted_members_ids \in Seq(Clients)
         /\ DOMAIN Old(g).players \in SUBSET Clients
         /\ Old(g).players \in [DOMAIN Old(g).players -> BOOLEAN]
         /\ Records(Old(g), R, OpenClients) /\ ~IsFull(Old(g))
    <2>1. CASE g = new
      <3>1. Old(g) = EmptyGroup
        BY <2>1
      <3>2. /\ DOMAIN EmptyGroup.players = {} /\ EmptyGroup.sorted_members_ids = <<>>
            /\ EmptyGroup.players \in [{} -> BOOLEAN] /\ EmptyGroup.owner_id = NoOne
        BY DEF EmptyGroup
      <3>3. ~IsFull(EmptyGroup)
        BY <3>2, FS_EmptySet, MaxPlayersAssumption DEF IsFull
      <3>4. \A d \in Clients : R[d] = 0
        <4> SUFFICES ASSUME NEW d \in Clients PROVE Registered(d, new) = 0
          BY <2>1 DEF RegisteredIn
        <4>1. joined[d] \in Seq(1 .. Len(groups)) /\ new \notin 1 .. Len(groups)
          BY <1>1
        <4>2. /\ Occurrences(joined[d], new) \in Nat
              /\ Occurrences(joined[d], new) > 0 <=> new \in ToSet(joined[d])
              /\ ToSet(joined[d]) = {joined[d][k] : k \in 1 .. Len(joined[d])}
          BY <4>1, OccursPositive
        <4>3. ToSet(joined[d]) \subseteq 1 .. Len(groups)
          BY <4>1, <4>2, ElementOfSeq
        <4> HIDE DEF new
        <4>4. Occurrences(joined[d], new) = 0
          BY <4>1, <4>2, <4>3
        <4> QED
          BY <1>6, <4>4
      <3> HIDE DEF R
      <3>5. Records(EmptyGroup, R, OpenClients)
        <4>1. IsFiniteSet({}) /\ Cardinality({}) <= MaxPlayers
          BY FS_EmptySet, MaxPlayersAssumption
        <4>2. \A d \in OpenClients : ~(R[d] > 0)
          BY <3>4 DEF OpenClients
        <4>3. \A d \in Clients : Occurrences(<<>>, d) = R[d]
          BY <3>4, OccursInNothing
        <4> QED
          BY <3>2, <3>3, <4>1, <4>2, <4>3 DEF Records, HeldBack
      <3> HIDE DEF Old
      <3> QED
        BY <3>1, <3>2, <3>3, <3>5, EmptySeq
    <2>2. CASE g # new
      <3>1. g \in 1 .. Len(groups) /\ Old(g) = groups[g] /\ ~IsFull(groups[g])
        BY <1>3, <2>2
      <3>2. groups[g] \in GroupType
        BY <1>1, <3>1, ElementOfSeq
      <3>3. Records(groups[g], R, OpenClients)
        BY <3>1 DEF IInv, GroupsRecord
      <3>4. groups[g].owner_id \in Clients /\ groups[g].sorted_members_ids \in Seq(Clients)
        BY <3>2 DEF GroupType
      <3> HIDE DEF Old, R
      <3> QED
        BY <3>1, <3>2, <3>3, <3>4, PlayersDomain
    <2> QED
      BY <2>1, <2>2
  <1> DEFINE gr2 == AddClient(Old(g), c)
  <1>11. R \in [Clients -> Nat]
    BY <1>6
  <1>12. gr2 \in GroupType /\ Records(gr2, RegisteredIn(g)', OpenClients')
    <2> PICK gr : gr = Old(g)
      OBVIOUS
    <2> HIDE DEF Old, R
    <2>1. /\ gr.owner_id \in Clients \cup {NoOne}
          /\ gr.sorted_members_ids \in Seq(Clients)
          /\ DOMAIN gr.players \in SUBSET Clients
          /\ gr.players \in [DOMAIN gr.players -> BOOLEAN]
          /\ Records(gr, R, OpenClients) /\ ~IsFull(gr)
      BY <1>10
    <2>2. /\ AddClient(gr, c) \in GroupType
          /\ Records(AddClient(gr, c), [R EXCEPT ![c] = R[c] + 1], OpenClients)
      BY <1>11, <2>1, AddClientRecords
    <2> QED
      BY <1>5, <1>8, <2>2
  <1> HIDE DEF Old, R, gr2, N
  <1>13. /\ groups' \in Seq(GroupType)
         /\ Len(groups') \in Nat /\ g <= Len(groups') /\ Len(groups) <= Len(groups')
         /\ Len(groups') = IF g = new THEN new ELSE Len(groups)
         /\ \A h \in 1 .. Len(groups') : groups'[h] = IF h = g THEN gr2 ELSE groups[h]
    <2> DEFINE n == IF g = new THEN new ELSE Len(groups)
    <2>1. n \in Nat /\ DOMAIN groups \cup {g} = 1 .. n
      BY <1>1, <1>3, <1>4
    <2>2. groups' = [h \in 1 .. n |-> IF h = g THEN gr2 ELSE groups[h]]
      BY <1>2, <2>1 DEF gr2
    <2>3. \A h \in 1 .. n : h # g => groups[h] \in GroupType
      <3>1. \A h \in 1 .. n : h # g => h \in 1 .. Len(groups)
        BY <1>1, <1>3
      <3> QED
        BY <1>1, <3>1, ElementOfSeq
    <2> HIDE DEF n
    <2>4. groups' \in [1 .. n -> GroupType]
      BY <1>12, <2>2, <2>3
    <2>5. groups' \in Seq(GroupType) /\ Len(groups') = n
      BY <2>1, <2>4
    <2>6. Len(groups) <= n /\ g <= n /\ n = IF g = new THEN new ELSE Len(groups)
      BY <1>1, <1>3 DEF n
    <2> QED
      BY <2>1, <2>2, <2>5, <2>6
  <1>14. GroupsRecord'
    <2> SUFFICES ASSUME NEW h \in 1 .. Len(groups')
                 PROVE  Records(groups'[h], RegisteredIn(h)', OpenClients')
      BY DEF GroupsRecord
    <2>1. CASE h = g
      BY <1>12, <1>13, <2>1
    <2>2. CASE h # g
      <3>1. h \in 1 .. Len(groups)
        BY <1>1, <1>3, <1>4, <1>13, <2>2
      <3>2. groups'[h] = groups[h] /\ RegisteredIn(h)' = RegisteredIn(h)
        BY <1>9, <1>13, <2>2
      <3> QED
        BY <1>5, <3>1, <3>2 DEF IInv, GroupsRecord
    <2> QED
      BY <2>1, <2>2
  <1>15. joined' \in [Clients -> Seq(1 .. Len(groups'))]
    <2> DEFINE more == 1 .. Len(groups')
    <2>1. 1 .. Len(groups) \subseteq more /\ g \in more
      BY <1>1, <1>4, <1>13
    <2> HIDE DEF more
    <2>2. Seq(1 .. Len(groups)) \subseteq Seq(more)
      BY <2>1
    <2>3. \A d \in Clients : joined[d] \in Seq(more)
      BY <1>1, <2>2
    <2>4. Append(joined[c], g) \in Seq(more)
      BY <2>1, <2>3, AppendProperties
    <2> QED
      BY <1>1, <1>2, <2>3, <2>4 DEF more
  <1>16. logins' \in 0 .. MaxLogins
    BY <1>1, MaxLoginsAssumption
  <1>17. Typed' /\ Dispatches'
    BY <1>1, <1>13, <1>15, <1>16 DEF IInv, Typed, Dispatches
  <1>18. Connections'
    <2>1. \A d \in Clients : conn'[d] = "off" => joined'[d] = <<>>
      BY <1>1, <1>2 DEF IInv, Connections, Open
    <2> QED
      BY <1>1, <2>1 DEF IInv, Connections
  <1> QED
    BY <1>14, <1>17, <1>18 DEF IInv

\* A package or a close reaches the listeners: none has run yet.
LEMMA HandledStep ==
    ASSUME IInv, NEW c \in Clients, dispatch = Idle,
           \/ \E state \in BOOLEAN : SetReadyState(c, state)
           \/ Disconnect(c)
           \/ CloseAgain(c)
    PROVE  IInv'
  <1> PICK S : S = 1 .. Len(groups)
    OBVIOUS
  <1>1. /\ groups' = groups /\ joined' = joined /\ logins' = logins /\ overtaken' = overtaken
        /\ conn \in [Clients -> {"off", "connected", "full", "closed"}]
        /\ joined[c] \in Seq(S) /\ closed_again \subseteq Clients
    BY DEF IInv, Typed, SetReadyState, Disconnect, CloseAgain
  <1>2. PICK event \in {"net/disconnect", "group/set_ready_state"}, state \in BOOLEAN :
            /\ dispatch' = Listeners(event, c, state, joined[c])
            /\ event = "net/disconnect" => conn'[c] = "closed"
            /\ event = "group/set_ready_state" => Open(c)'
            /\ \/ event = "group/set_ready_state" /\ conn' = conn /\ closed_again' = closed_again
               \/ /\ event = "net/disconnect" /\ closed_again' = closed_again
                  /\ conn' = [conn EXCEPT ![c] = "closed"] /\ Open(c)
               \/ /\ event = "net/disconnect" /\ closed_again' = closed_again \cup {c}
                  /\ conn' = conn /\ conn[c] = "closed"
    <2>1. ASSUME NEW state \in BOOLEAN, SetReadyState(c, state)
          PROVE  /\ dispatch' = Listeners("group/set_ready_state", c, state, joined[c])
                 /\ conn' = conn /\ closed_again' = closed_again /\ Open(c)'
      BY <2>1 DEF SetReadyState, Open
    <2>2. ASSUME Disconnect(c)
          PROVE  /\ dispatch' = Listeners("net/disconnect", c, FALSE, joined[c])
                 /\ conn' = [conn EXCEPT ![c] = "closed"] /\ closed_again' = closed_again
                 /\ Open(c) /\ conn'[c] = "closed"
      BY <1>1, <2>2 DEF Disconnect
    <2>3. ASSUME CloseAgain(c)
          PROVE  /\ dispatch' = Listeners("net/disconnect", c, FALSE, joined[c])
                 /\ conn' = conn /\ closed_again' = closed_again \cup {c}
                 /\ conn[c] = "closed" /\ conn'[c] = "closed"
      BY <2>3 DEF CloseAgain
    <2> QED
      BY <2>1, <2>2, <2>3
  <1>3. /\ \A d \in Clients \ {c} : conn'[d] = conn[d]
        /\ conn'[c] \in {conn[c], "closed"} /\ conn[c] # "off"
    BY <1>1, <1>2 DEF Open
  <1>4. \A d \in Clients : Open(d)' => Open(d)
    BY <1>3 DEF Open
  <1>5. IF joined[c] = <<>> THEN dispatch' = Idle
        ELSE dispatch' = [event |-> event, client |-> c, state |-> state, groups |-> joined[c]]
    BY <1>2, ListenersType
  <1>6. ASSUME NEW h
        PROVE  /\ \A d \in Clients \ {c} : Pending(d, h)' = 0
               /\ event = "group/set_ready_state" => Pending(c, h)' = 0
               /\ event = "net/disconnect" => Pending(c, h)' = Occurrences(joined[c], h)
    <2>1. CASE joined[c] = <<>>
      <3>1. \A d \in Clients : Pending(d, h)' = 0
        BY <1>5, <2>1, IdleType DEF Pending
      <3>2. Occurrences(joined[c], h) = 0
        BY <2>1, OccursInNothing
      <3> QED
        BY <3>1, <3>2
    <2>2. CASE joined[c] # <<>>
      <3>1. dispatch'.event = event /\ dispatch'.client = c /\ dispatch'.groups = joined[c]
        BY <1>5, <2>2
      <3> QED
        BY <3>1 DEF Pending
    <2> QED
      BY <2>1, <2>2
  <1>7. ASSUME NEW h \in 1 .. Len(groups), NEW d \in Clients
        PROVE  Registered(d, h)' = Registered(d, h)
    <2>1. Pending(d, h) = 0
      BY IdleType DEF Pending
    <2>2. CASE d # c
      <3>1. /\ Open(d)' <=> Open(d)
            /\ d \in closed_again' <=> d \in closed_again
        BY <1>2, <1>3, <2>2 DEF Open
      <3> QED
        BY <1>1, <1>6, <2>1, <2>2, <3>1 DEF Registered
    <2>3. CASE d = c
      <3>1. CASE event = "group/set_ready_state"
        <4>1. (Open(c)' <=> Open(c)) /\ closed_again' = closed_again /\ Pending(c, h)' = 0
          BY <1>2, <1>6, <3>1 DEF Open
        <4> QED
          BY <1>1, <2>1, <2>3, <4>1 DEF Registered
      <3>2. CASE event = "net/disconnect" /\ Open(c) /\ closed_again' = closed_again
        <4>1. ~Open(c)' /\ c \notin closed_again' /\ Pending(c, h)' = Occurrences(joined[c], h)
          BY <1>2, <1>6, <3>2 DEF Open, IInv, Connections
        <4> QED
          BY <2>3, <3>2, <4>1 DEF Registered
      <3>3. CASE /\ event = "net/disconnect" /\ closed_again' = closed_again \cup {c}
                 /\ conn[c] = "closed"
        <4>1. ~Open(c)' /\ ~Open(c) /\ c \in closed_again'
          BY <1>2, <3>3 DEF Open
        <4> QED
          BY <2>1, <2>3, <4>1 DEF Registered
      <3> QED
        BY <1>2, <3>1, <3>2, <3>3
    <2> QED
      BY <2>2, <2>3
  <1>8. GroupsRecord'
    BY <1>1, <1>4, <1>7, NoGroupChanges
  <1>9. readies' \in 0 .. MaxReady
    <2>1. readies' = readies \/ (readies < MaxReady /\ readies' = readies + 1)
      BY DEF SetReadyState, Disconnect, CloseAgain
    <2> QED
      BY <2>1, MaxReadyAssumption DEF IInv, Typed
  <1>10. Typed'
    <2>1. conn' \in [Clients -> {"off", "connected", "full", "closed"}]
      BY <1>1, <1>2
    <2>2. closed_again' \subseteq Clients
      BY <1>1, <1>2
    <2> QED
      BY <1>1, <1>9, <2>1, <2>2 DEF IInv, Typed
  <1>11. Connections'
    <2>1. \A d \in Clients : conn'[d] = "off" => joined'[d] = <<>>
      BY <1>1, <1>3 DEF IInv, Connections
    <2>2. closed_again' \subseteq closed_again \cup {c}
      BY <1>2
    <2>3. \A d \in closed_again : conn'[d] = "closed"
      BY <1>1, <1>3 DEF IInv, Connections
    <2>4. c \in closed_again' => conn'[c] = "closed"
      BY <1>2, <2>3
    <2> QED
      BY <2>1, <2>2, <2>3, <2>4 DEF Connections
  <1>12. Dispatches'
    <2>1. CASE joined[c] = <<>>
      BY <1>5, <2>1 DEF Dispatches
    <2>2. CASE joined[c] # <<>>
      <3>1. /\ dispatch' = [event |-> event, client |-> c, state |-> state, groups |-> joined[c]]
            /\ dispatch'.event = event /\ dispatch'.client = c /\ dispatch'.groups = joined[c]
            /\ joined'[c] = joined[c] /\ joined[c] \in Seq(1 .. Len(groups'))
        BY <1>1, <1>5, <2>2
      <3>2. dispatch' \in [event : {"net/disconnect", "group/set_ready_state"},
                           client : Clients, state : BOOLEAN, groups : Seq(1 .. Len(groups'))]
        BY <3>1
      <3> QED
        BY <1>2, <2>2, <3>1, <3>2 DEF Dispatches
    <2> QED
      BY <2>1, <2>2
  <1> QED
    BY <1>8, <1>10, <1>11, <1>12 DEF IInv

LEMMA HeadAndTail ==
    ASSUME NEW S, NEW s \in Seq(S), s # <<>>
    PROVE  /\ Head(s) \in S /\ Head(s) \in ToSet(s)
           /\ Tail(s) \in Seq(S) /\ ToSet(Tail(s)) \subseteq ToSet(s)
           /\ \A x : Occurrences(s, x) = Occurrences(Tail(s), x) + IF x = Head(s) THEN 1 ELSE 0
           /\ \A x : Occurrences(Tail(s), x) \in Nat
  <1> DEFINE t == Tail(s)
  <1>1. /\ Len(s) \in Nat /\ Len(s) # 0 /\ t \in Seq(S) /\ Len(t) = Len(s) - 1
        /\ Head(s) = s[1] /\ \A k \in 1 .. Len(t) : t[k] = s[k + 1]
    BY HeadTailProperties, LenProperties, EmptySeq
  <1>2. 1 \in 1 .. Len(s) /\ \A k \in 1 .. Len(t) : k + 1 \in 1 .. Len(s)
    BY <1>1
  <1> HIDE DEF t
  <1>3. ToSet(s) = {s[k] : k \in 1 .. Len(s)}
    BY OccursPositive
  <1>4. ToSet(t) = {t[k] : k \in 1 .. Len(t)} /\ \A x : Occurrences(t, x) \in Nat
    BY <1>1, OccursPositive
  <1>5. \A x : Occurrences(s, x) = Occurrences(t, x) + IF Head(s) = x THEN 1 ELSE 0
    BY OccursInTail DEF t
  <1>6. s[1] \in S
    BY <1>2, ElementOfSeq
  <1>7. ToSet(t) \subseteq ToSet(s) /\ s[1] \in ToSet(s)
    BY <1>1, <1>2, <1>3, <1>4
  <1> QED
    BY <1>1, <1>4, <1>5, <1>6, <1>7 DEF t

\* What is known when a listener runs, and of what is left to run after it.
LEMMA RunningListener ==
    ASSUME IInv, RunListener, NEW g, g = Head(dispatch.groups), NEW c, c = dispatch.client
    PROVE  /\ dispatch # Idle
           /\ c \in Clients /\ g \in 1 .. Len(groups) /\ g \in ToSet(joined[c])
           /\ dispatch.state \in BOOLEAN
           /\ dispatch.event \in {"net/disconnect", "group/set_ready_state"}
           /\ dispatch.event = "net/disconnect" => conn[c] = "closed" /\ ~Open(c)
           /\ dispatch.event = "group/set_ready_state" => Open(c) /\ Registered(c, g) > 0
           /\ conn' = conn /\ closed_again' = closed_again /\ joined' = joined
           /\ logins' = logins /\ readies' = readies /\ overtaken' = overtaken
           /\ OpenClients' = OpenClients
           /\ \A h : Occurrences(dispatch.groups, h) =
                        Occurrences(Tail(dispatch.groups), h) + IF h = g THEN 1 ELSE 0
           /\ \A h : Occurrences(Tail(dispatch.groups), h) \in Nat
           /\ \A h : \A d \in Clients :
                 Pending(d, h)' = IF dispatch.event = "net/disconnect" /\ d = c
                                  THEN Occurrences(Tail(dispatch.groups), h) ELSE 0
  <1> PICK S : S = 1 .. Len(groups)
    OBVIOUS
  <1> PICK gs : gs = dispatch.groups
    OBVIOUS
  <1>1. /\ dispatch # Idle
        /\ conn' = conn /\ closed_again' = closed_again /\ joined' = joined
        /\ logins' = logins /\ readies' = readies /\ overtaken' = overtaken
        /\ dispatch' = Listeners(dispatch.event, c, dispatch.state, Tail(gs))
    BY DEF RunListener
  <1>2. /\ c \in Clients /\ dispatch.state \in BOOLEAN
        /\ dispatch.event \in {"net/disconnect", "group/set_ready_state"}
        /\ gs \in Seq(S) /\ gs # <<>> /\ g = Head(gs)
        /\ ToSet(gs) \subseteq ToSet(joined[c])
        /\ dispatch.event = "net/disconnect" => conn[c] = "closed"
        /\ dispatch.event = "group/set_ready_state" => Open(c)
    BY <1>1 DEF IInv, Dispatches
  <1>3. /\ Tail(gs) \in Seq(S) /\ g \in S /\ g \in ToSet(gs)
        /\ \A h : Occurrences(gs, h) = Occurrences(Tail(gs), h) + IF h = g THEN 1 ELSE 0
        /\ \A h : Occurrences(Tail(gs), h) \in Nat
    BY <1>2, HeadAndTail
  <1>4. dispatch.event = "group/set_ready_state" => Registered(c, g) > 0
    <2>1. joined[c] \in Seq(S)
      BY <1>2 DEF IInv, Typed
    <2>2. g \in ToSet(joined[c])
      BY <1>2, <1>3
    <2>3. Occurrences(joined[c], g) > 0
      BY <2>1, <2>2, OccursPositive
    <2> QED
      BY <1>2, <2>3 DEF Registered
  <1> PICK t : t = Tail(gs)
    OBVIOUS
  <1>5. ASSUME NEW h, NEW d \in Clients
        PROVE  Pending(d, h)' = IF dispatch.event = "net/disconnect" /\ d = c
                                THEN Occurrences(t, h) ELSE 0
    <2>1. CASE t = <<>>
      <3>1. dispatch' = Idle
        BY <1>1, <2>1, ListenersType
      <3>2. Pending(d, h)' = 0
        BY <3>1, IdleType DEF Pending
      <3> QED
        BY <2>1, <3>2, OccursInNothing
    <2>2. CASE t # <<>>
      <3>1. dispatch' = [event |-> dispatch.event, client |-> c, state |-> dispatch.state,
                         groups |-> t]
        BY <1>1, <2>2, ListenersType
      <3>2. dispatch'.event = dispatch.event /\ dispatch'.client = c /\ dispatch'.groups = t
        BY <3>1
      <3> QED
        BY <3>2 DEF Pending
    <2> QED
      BY <2>1, <2>2
  <1>6. OpenClients' = OpenClients
    BY <1>1 DEF OpenClients, Open
  <1> QED
    BY <1>1, <1>2, <1>3, <1>4, <1>5, <1>6 DEF Open

\* The listeners after one of them.
LEMMA RestIsDispatched ==
    ASSUME IInv, RunListener, Len(groups') = Len(groups)
    PROVE  Dispatches'
  <1> PICK S : S = 1 .. Len(groups)
    OBVIOUS
  <1> PICK gs : gs = dispatch.groups
    OBVIOUS
  <1> PICK c : c = dispatch.client
    OBVIOUS
  <1>1. /\ dispatch # Idle /\ conn' = conn /\ joined' = joined
        /\ dispatch' = Listeners(dispatch.event, c, dispatch.state, Tail(gs))
    BY DEF RunListener
  <1>2. /\ c \in Clients /\ dispatch.state \in BOOLEAN
        /\ dispatch.event \in {"net/disconnect", "group/set_ready_state"}
        /\ gs \in Seq(S) /\ gs # <<>>
        /\ ToSet(gs) \subseteq ToSet(joined[c])
        /\ dispatch.event = "net/disconnect" => conn[c] = "closed"
        /\ dispatch.event = "group/set_ready_state" => Open(c)
    BY <1>1 DEF IInv, Dispatches
  <1> PICK t : t = Tail(gs)
    OBVIOUS
  <1>3. t \in Seq(S) /\ ToSet(t) \subseteq ToSet(gs)
    BY <1>2, HeadAndTail
  <1>4. CASE t = <<>>
    <2>1. dispatch' = Idle
      BY <1>1, <1>4, ListenersType
    <2> QED
      BY <2>1 DEF Dispatches
  <1>5. CASE t # <<>>
    <2>1. dispatch' = [event |-> dispatch.event, client |-> c, state |-> dispatch.state,
                       groups |-> t]
      BY <1>1, <1>5, ListenersType
    <2>2. /\ dispatch'.event = dispatch.event /\ dispatch'.client = c
          /\ dispatch'.groups = t /\ t # <<>>
      BY <1>5, <2>1
    <2>3. dispatch' \in [event : {"net/disconnect", "group/set_ready_state"},
                         client : Clients, state : BOOLEAN, groups : Seq(1 .. Len(groups'))]
      BY <1>2, <1>3, <2>1
    <2>4. ToSet(dispatch'.groups) \subseteq ToSet(joined'[dispatch'.client])
      BY <1>1, <1>2, <1>3, <2>2
    <2> QED
      BY <1>1, <1>2, <2>2, <2>3, <2>4 DEF Dispatches, Open
  <1> QED
    BY <1>4, <1>5

\* Of a running listener, the group's record before and after.
LEMMA ListenerRecords ==
    ASSUME IInv, RunListener, NEW g, g = Head(dispatch.groups), NEW c, c = dispatch.client
    PROVE  \E gr \in GroupType :
              /\ groups' = [groups EXCEPT ![g] = gr]
              /\ Records(gr, RegisteredIn(g)', OpenClients)
              /\ \A h \in 1 .. Len(groups) \ {g} : RegisteredIn(h)' = RegisteredIn(h)
  <1> PICK gr : gr = groups[g]
    OBVIOUS
  <1> DEFINE R == RegisteredIn(g)
             O == OpenClients
  <1>1. /\ c \in Clients /\ g \in 1 .. Len(groups)
        /\ dispatch.state \in BOOLEAN
        /\ dispatch.event \in {"net/disconnect", "group/set_ready_state"}
        /\ dispatch.event = "net/disconnect" => conn[c] = "closed" /\ ~Open(c)
        /\ dispatch.event = "group/set_ready_state" => Open(c) /\ Registered(c, g) > 0
        /\ conn' = conn /\ closed_again' = closed_again /\ joined' = joined
    BY RunningListener
  <1>2. gr \in GroupType /\ Records(gr, R, O) /\ R \in [Clients -> Nat]
    <2>1. groups \in Seq(GroupType)
      BY DEF IInv, Typed
    <2> QED
      BY <1>1, <2>1, ElementOfSeq, RegistrationsType DEF IInv, GroupsRecord
  <1>3. \A d : Open(d)' <=> Open(d)
    BY <1>1 DEF Open
  <1>4. CASE dispatch.event = "group/set_ready_state"
    <2>1. \A h : \A d \in Clients : Pending(d, h)' = 0
      BY <1>4, RunningListener
    <2>2. \A h : \A d \in Clients : Pending(d, h) = 0
      BY <1>4 DEF Pending
    <2>3. \A h : RegisteredIn(h)' = RegisteredIn(h)
      BY <1>1, <1>3, <2>1, <2>2 DEF RegisteredIn, Registered
    <2>4. c \in DOMAIN gr.players
      <3>1. R[c] > 0 /\ c \in O
        BY <1>1, <1>4 DEF RegisteredIn, OpenClients
      <3> QED
        BY <1>2, <3>1 DEF Records
    <2> PICK state \in BOOLEAN : state = dispatch.state
      BY <1>1
    <2> DEFINE gr2 == [groups[g] EXCEPT !.players[c] = state]
               gr3 == IF StartsGame(groups[g], gr2) THEN Unready(gr2) ELSE gr2
    <2>5. groups' = [groups EXCEPT ![g] = gr3]
      BY <1>4 DEF RunListener, ReadyListener
    <2> HIDE DEF R, O
    <2>6. LET r2 == [gr EXCEPT !.players[c] = state]
              r3 == IF StartsGame(gr, r2) THEN Unready(r2) ELSE r2
          IN  r3 \in GroupType /\ Records(r3, R, O)
      BY <1>2, <2>4, SetReadyRecords
    <2>7. gr3 \in GroupType /\ Records(gr3, R, O)
      BY <2>6
    <2> HIDE DEF gr3
    <2> QED
      BY <2>3, <2>5, <2>7 DEF R, O
  <1>5. CASE dispatch.event = "net/disconnect"
    <2>1. /\ \A h : \A d \in Clients \ {c} : Pending(d, h)' = 0 /\ Pending(d, h) = 0
          /\ \A h : Pending(c, h)' = Occurrences(Tail(dispatch.groups), h)
          /\ \A h : Pending(c, h) = Occurrences(Tail(dispatch.groups), h)
                                    + IF h = g THEN 1 ELSE 0
          /\ \A h : Occurrences(Tail(dispatch.groups), h) \in Nat
      <3>1. /\ \A h : \A d \in Clients \ {c} : Pending(d, h)' = 0
            /\ \A h : Pending(c, h)' = Occurrences(Tail(dispatch.groups), h)
        BY <1>1, <1>5, RunningListener
      <3>2. /\ \A h : \A d \in Clients \ {c} : Pending(d, h) = 0
            /\ \A h : Pending(c, h) = Occurrences(dispatch.groups, h)
        BY <1>5 DEF Pending
      <3>3. /\ \A h : Occurrences(dispatch.groups, h) =
                         Occurrences(Tail(dispatch.groups), h) + IF h = g THEN 1 ELSE 0
            /\ \A h : Occurrences(Tail(dispatch.groups), h) \in Nat
        BY RunningListener
      <3> QED
        BY <3>1, <3>2, <3>3
    <2>2. \A h : h # g => RegisteredIn(h)' = RegisteredIn(h)
      <3> SUFFICES ASSUME NEW h, h # g, NEW d \in Clients
                   PROVE  Registered(d, h)' = Registered(d, h)
        BY DEF RegisteredIn
      <3>1. Pending(d, h)' = Pending(d, h)
        BY <2>1
      <3> QED
        BY <1>1, <1>3, <3>1 DEF Registered
    <2> DEFINE S == [R EXCEPT ![c] = IF R[c] > 0 THEN R[c] - 1 ELSE 0]
    <2>3. RegisteredIn(g)' = S
      <3> SUFFICES ASSUME NEW d \in Clients PROVE Registered(d, g)' = S[d]
        BY <1>2 DEF RegisteredIn
      <3>1. R[d] = Registered(d, g)
        BY DEF RegisteredIn
      <3>2. CASE d # c
        <4>1. S[d] = R[d]
          BY <1>2, <3>2
        <4>2. Pending(d, g)' = Pending(d, g)
          BY <2>1, <3>2
        <4> QED
          BY <1>1, <1>3, <3>1, <4>1, <4>2 DEF Registered
      <3>3. CASE d = c
        <4>1. S[c] = IF R[c] > 0 THEN R[c] - 1 ELSE 0
          BY <1>1, <1>2
        <4>2. Pending(c, g) = Pending(c, g)' + 1 /\ Pending(c, g)' \in Nat
          BY <2>1
        <4>3. Registered(c, g) = IF c \notin closed_again THEN Pending(c, g) ELSE 0
          BY <1>1, <1>5 DEF Registered
        <4>4. Registered(c, g)' = IF c \notin closed_again THEN Pending(c, g)' ELSE 0
          BY <1>1, <1>3, <1>5 DEF Registered
        <4> QED
          BY <3>1, <3>3, <4>1, <4>2, <4>3, <4>4
      <3> QED
        BY <3>2, <3>3
    <2> DEFINE gr2 == [gr EXCEPT
                          !.players = [d \in DOMAIN @ \ {c} |-> @[d]],
                          !.sorted_members_ids = Without(@, c)]
    <2>4. \/ groups' = [groups EXCEPT ![g] = gr2]
          \/ \E owner \in DOMAIN gr2.players :
                groups' = [groups EXCEPT ![g] = [gr2 EXCEPT !.owner_id = owner]]
      <3> DEFINE old == [groups[g] EXCEPT
                            !.players = [d \in DOMAIN @ \ {c} |-> @[d]],
                            !.sorted_members_ids = Without(@, c)]
      <3>1. DropMember(g, c)
        BY <1>5 DEF RunListener
      <3>2. \/ groups' = [groups EXCEPT ![g] = old]
            \/ \E owner \in DOMAIN old.players :
                  groups' = [groups EXCEPT ![g] = [old EXCEPT !.owner_id = owner]]
        BY <3>1, Zenon DEF DropMember
      <3>3. old = gr2
        OBVIOUS
      <3> HIDE DEF old, gr2
      <3> QED
        BY <3>2, <3>3
    <2>5. c \in Clients \ O
      BY <1>1, <1>5 DEF OpenClients
    <2> HIDE DEF R, O
    <2>6. LET r2 == [gr EXCEPT
                        !.players = [d \in DOMAIN @ \ {c} |-> @[d]],
                        !.sorted_members_ids = Without(@, c)]
              s == [R EXCEPT ![c] = IF R[c] > 0 THEN R[c] - 1 ELSE 0]
          IN  /\ r2 \in GroupType /\ Records(r2, s, O)
              /\ \A owner \in DOMAIN r2.players :
                    /\ [r2 EXCEPT !.owner_id = owner] \in GroupType
                    /\ Records([r2 EXCEPT !.owner_id = owner], s, O)
      BY ZenonT(60), <1>2, <2>5, DropRecords
    <2>7. /\ gr2 \in GroupType /\ Records(gr2, S, O)
          /\ \A owner \in DOMAIN gr2.players :
                /\ [gr2 EXCEPT !.owner_id = owner] \in GroupType
                /\ Records([gr2 EXCEPT !.owner_id = owner], S, O)
      BY <2>6, Zenon
    <2> HIDE DEF gr2, S
    <2> QED
      BY <2>2, <2>3, <2>4, <2>7 DEF O
  <1> QED
    BY <1>1, <1>4, <1>5

LEMMA ListenerStep == ASSUME IInv, RunListener PROVE IInv'
  <1> PICK g : g = Head(dispatch.groups)
    OBVIOUS
  <1> PICK c : c = dispatch.client
    OBVIOUS
  <1>1. PICK gr \in GroupType :
              /\ groups' = [groups EXCEPT ![g] = gr]
              /\ Records(gr, RegisteredIn(g)', OpenClients)
              /\ \A h \in 1 .. Len(groups) \ {g} : RegisteredIn(h)' = RegisteredIn(h)
    BY ListenerRecords
  <1>2. /\ g \in 1 .. Len(groups) /\ OpenClients' = OpenClients
        /\ conn' = conn /\ closed_again' = closed_again /\ joined' = joined
        /\ logins' = logins /\ readies' = readies /\ overtaken' = overtaken
    BY RunningListener
  <1>3. groups' \in Seq(GroupType) /\ Len(groups') = Len(groups) /\ GroupsRecord'
    BY <1>1, <1>2, OneGroupChanges
  <1>4. Typed'
    BY <1>2, <1>3 DEF IInv, Typed
  <1>5. Connections'
    BY <1>2 DEF IInv, Connections
  <1>6. Dispatches'
    BY <1>3, RestIsDispatched
  <1> QED
    BY <1>3, <1>4, <1>5, <1>6 DEF IInv

LEMMA ReceiveStep ==
    ASSUME IInv, UNCHANGED serverVars, overtaken' \subseteq Clients
    PROVE  IInv'
  <1>1. /\ conn' = conn /\ closed_again' = closed_again /\ groups' = groups
        /\ joined' = joined /\ dispatch' = dispatch /\ logins' = logins /\ readies' = readies
    BY DEF serverVars
  <1>2. GroupsRecord'
    <2>1. \A h, d : Registered(d, h)' = Registered(d, h) /\ (Open(d)' <=> Open(d))
      BY <1>1 DEF Registered, Pending, Open
    <2> QED
      BY <1>1, <2>1, NoGroupChanges
  <1> QED
    BY <1>1, <1>2 DEF IInv, Typed, Dispatches, Connections, Open

LEMMA InvNext == IInv /\ [Next]_vars => IInv'
  <1> SUFFICES ASSUME IInv, [Next]_vars PROVE IInv'
    OBVIOUS
  <1>1. ASSUME NEW c \in Clients, Connect(c) \/ HandshakeDone(c) PROVE IInv'
    BY <1>1, ConnStep
  <1>2. ASSUME NEW c \in Clients, ServerActs(c) PROVE IInv'
    <2>1. dispatch = Idle
      BY <1>2 DEF ServerActs
    <2>2. CASE Login(c)
      BY <2>1, <2>2, LoginStep
    <2>3. CASE (\E state \in BOOLEAN : SetReadyState(c, state)) \/ Disconnect(c) \/ CloseAgain(c)
      BY <2>1, <2>3, HandledStep
    <2> QED
      BY <1>2, <2>2, <2>3 DEF ServerActs
  <1>3. ASSUME NEW c \in Clients, NEW t \in Transports, Receive(c, t) PROVE IInv'
    <2>1. UNCHANGED serverVars /\ overtaken' \subseteq Clients
      BY <1>3 DEF Receive, IInv, Typed
    <2> QED
      BY <2>1, ReceiveStep
  <1>4. ASSUME UNCHANGED vars PROVE IInv'
    <2>1. UNCHANGED serverVars /\ overtaken' \subseteq Clients
      BY <1>4 DEF vars, IInv, Typed
    <2> QED
      BY <2>1, ReceiveStep
  <1> QED
    BY <1>1, <1>2, <1>3, <1>4, ListenerStep DEF Next

\* Every reachable state satisfies the inductive invariant.
THEOREM Inductive == Spec => []IInv
  BY InitInv, InvNext, PTL DEF Spec

-----------------------------------------------------------------------------
(* What it implies                                                          *)

\* The server's records keep their types, and no group (group.cpp, is_full) has
\* more than max_players members, for any max_players.
THEOREM TypeCorrect == Spec => []TypeOK
  <1>1. IInv => TypeOK
    <2> SUFFICES ASSUME IInv PROVE TypeOK
      OBVIOUS
    <2>1. groups \in Seq(GroupType) /\ DOMAIN groups = 1 .. Len(groups)
      BY LenProperties DEF IInv, Typed
    <2>2. ASSUME NEW g \in 1 .. Len(groups) PROVE IsGroup(groups[g])
      <3>1. groups[g] \in GroupType /\ Records(groups[g], RegisteredIn(g), OpenClients)
        BY <2>1, ElementOfSeq DEF IInv, GroupsRecord
      <3>2. /\ DOMAIN groups[g].players \in SUBSET Clients
            /\ groups[g].players \in [DOMAIN groups[g].players -> BOOLEAN]
        BY <3>1, PlayersDomain
      <3> QED
        BY <3>1, <3>2 DEF GroupType, Records, IsGroup
    <2>3. dispatch = Idle \/ dispatch \in [event : {"net/disconnect", "group/set_ready_state"},
                                          client : Clients, state : BOOLEAN,
                                          groups : Seq(1 .. Len(groups))]
      BY DEF IInv, Dispatches
    <2> QED
      BY <2>1, <2>2, <2>3 DEF IInv, Typed, TypeOK
  <1> QED
    BY <1>1, Inductive, PTL

\* The map and the vector of a group (players and sorted_members_ids, changed by
\* add_client and drop_member) hold its connected members, the vector as often as
\* each has logged in, however often a login or a close is repeated.
THEOREM MembersAgree == Spec => []MembershipAgrees
  <1>1. IInv => MembershipAgrees
    <2> SUFFICES ASSUME IInv, dispatch = Idle, NEW g \in DOMAIN groups, NEW c \in Clients
                 PROVE  LET times == IF Open(c) THEN Occurrences(joined[c], g) ELSE 0
                        IN  /\ c \in DOMAIN groups[g].players <=> times > 0
                            /\ Occurrences(groups[g].sorted_members_ids, c) = times
      BY DEF MembershipAgrees
    <2> DEFINE times == IF Open(c) THEN Occurrences(joined[c], g) ELSE 0
    <2>1. g \in 1 .. Len(groups)
      BY LenProperties DEF IInv, Typed
    <2>2. Records(groups[g], RegisteredIn(g), OpenClients)
      BY <2>1 DEF IInv, GroupsRecord
    <2>3. RegisteredIn(g)[c] = times
      <3>1. Registered(c, g) = times
        BY RegistrationsType
      <3> QED
        BY <3>1 DEF RegisteredIn
    <2>4. times > 0 => c \in OpenClients
      BY DEF OpenClients
    <2> HIDE DEF times
    <2>5. /\ c \in DOMAIN groups[g].players <=> times > 0
          /\ Occurrences(groups[g].sorted_members_ids, c) = times
      BY <2>2, <2>3, <2>4 DEF Records
    <2> QED
      BY <2>5 DEF times
  <1> QED
    BY <1>1, Inductive, PTL

\* set_ready_state, joins and drops leave no full group whose players are all ready
\* without its game.
THEOREM StartsAreNotHeldBack == Spec => []NoGameHeldBack
  <1>1. IInv => NoGameHeldBack
    <2> SUFFICES ASSUME IInv, NEW g \in DOMAIN groups PROVE ~HeldBack(groups[g])
      BY DEF NoGameHeldBack, HeldBack
    <2>1. g \in 1 .. Len(groups)
      BY LenProperties DEF IInv, Typed
    <2> QED
      BY <2>1 DEF IInv, GroupsRecord, Records
  <1> QED
    BY <1>1, Inductive, PTL

-----------------------------------------------------------------------------
(* Packages that are handled one after the other                            *)

\* Of the numbers of which something fails, one is 0 or comes after a number of
\* which it holds: induction over the numbers.
LEMMA FirstCounterexample ==
    ASSUME NEW T, T \subseteq Nat, T # {}
    PROVE  \E x \in T : x = 0 \/ (x - 1 \in Nat /\ x - 1 \notin T)
  <1> DEFINE R == OpToRel(<, Nat)
  <1>1. \A x, y \in Nat : x < y => <<x, y>> \in R
    BY DEF OpToRel
  <1>2. IsWellFoundedOn(R, Nat)
    BY NatLessThanWellFounded
  <1> HIDE DEF R
  <1>3. PICK x \in T : \A y \in T : ~(<<y, x>> \in R)
    BY <1>2, WFMin
  <1>4. \A y \in T : ~(y < x)
    BY <1>1, <1>3
  <1>5. x \in Nat
    OBVIOUS
  <1> QED
    BY <1>4, <1>5

\* views is a function as Views defines it, for the first m packages.
AreViews(views, view, pkgs, m) ==
    views = [k \in 0 .. m |-> IF k = 0 THEN view ELSE Apply(views[k - 1], pkgs[k])]

LEMMA ViewsExist ==
    ASSUME NEW view, NEW pkgs, NEW n \in Nat
    PROVE  \E views : AreViews(views, view, pkgs, n)
  <1> DEFINE T == {m \in Nat : ~ \E views : AreViews(views, view, pkgs, m)}
  <1> SUFFICES ASSUME T # {} PROVE FALSE
    OBVIOUS
  <1>1. PICK x \in T : x = 0 \/ (x - 1 \in Nat /\ x - 1 \notin T)
    <2>1. T \subseteq Nat
      OBVIOUS
    <2> HIDE DEF T
    <2> QED
      BY <2>1, FirstCounterexample
  <1>2. x \in Nat /\ ~ \E views : AreViews(views, view, pkgs, x)
    OBVIOUS
  <1>3. CASE x = 0
    <2>1. AreViews([k \in 0 .. 0 |-> view], view, pkgs, 0)
      BY DEF AreViews
    <2> QED
      BY <1>2, <1>3, <2>1
  <1>4. CASE x - 1 \in Nat /\ x - 1 \notin T
    <2>1. PICK views : AreViews(views, view, pkgs, x - 1)
      BY <1>4
    <2> DEFINE next == Apply(views[x - 1], pkgs[x])
               more == [k \in 0 .. x |-> IF k = x THEN next ELSE views[k]]
    <2>2. x # 0 /\ x - 1 < x
      BY <1>2, <1>4
    <2>3. more[x] = next /\ \A k \in 0 .. x - 1 : more[k] = views[k]
      BY <1>2, <2>2
    <2>4. \A k \in 0 .. x : more[k] = IF k = 0 THEN view ELSE Apply(more[k - 1], pkgs[k])
      <3> TAKE k \in 0 .. x
      <3>1. CASE k = x
        <4>1. more[x - 1] = views[x - 1]
          BY <1>4, <2>3
        <4> HIDE DEF more
        <4> QED
          BY <2>2, <2>3, <3>1, <4>1
      <3>2. CASE k # x
        <4>1. k \in 0 .. x - 1 /\ (k # 0 => k - 1 \in 0 .. x - 1)
          BY <1>2, <1>4, <3>2
        <4>2. views[k] = IF k = 0 THEN view ELSE Apply(views[k - 1], pkgs[k])
          BY <2>1, <4>1 DEF AreViews
        <4>3. more[k] = views[k] /\ (k # 0 => more[k - 1] = views[k - 1])
          BY <2>3, <4>1
        <4> HIDE DEF more
        <4> QED
          BY <4>2, <4>3
      <3> QED
        BY <3>1, <3>2
    <2>5. AreViews(more, view, pkgs, x)
      <3>1. more = [k \in 0 .. x |-> more[k]]
        OBVIOUS
      <3> HIDE DEF more
      <3> QED
        BY <2>4, <3>1 DEF AreViews
    <2> QED
      BY <1>2, <2>5
  <1> QED
    BY <1>1, <1>3, <1>4

\* Views is that function: the recursion has a solution.
LEMMA ViewsRecur ==
    ASSUME NEW view, NEW pkgs, Len(pkgs) \in Nat
    PROVE  /\ Views(view, pkgs)[0] = view
           /\ \A k \in 1 .. Len(pkgs) :
                  Views(view, pkgs)[k] = Apply(Views(view, pkgs)[k - 1], pkgs[k])
  <1> DEFINE P(views) == views = [k \in 0 .. Len(pkgs) |->
                                     IF k = 0 THEN view ELSE Apply(views[k - 1], pkgs[k])]
             views == Views(view, pkgs)
  <1>1. \E v : P(v)
    <2>1. \E v : AreViews(v, view, pkgs, Len(pkgs))
      BY ViewsExist
    <2> QED
      BY <2>1 DEF AreViews
  <1>2. views = CHOOSE v : P(v)
    BY DEF Views
  <1>3. P(views)
    <2> HIDE DEF P, views
    <2> QED
      BY <1>1, <1>2
  <1>4. views = [k \in 0 .. Len(pkgs) |->
                    IF k = 0 THEN view ELSE Apply(views[k - 1], pkgs[k])]
    BY <1>3
  <1> HIDE DEF views, P
  <1> QED
    BY <1>4 DEF views

\* and the only one.
Recurs(f, view, pkgs) ==
    f[0] = view /\ \A k \in 1 .. Len(pkgs) : f[k] = Apply(f[k - 1], pkgs[k])

LEMMA ViewsUnique ==
    ASSUME NEW view, NEW pkgs, Len(pkgs) \in Nat, NEW f, Recurs(f, view, pkgs)
    PROVE  \A k \in 0 .. Len(pkgs) : Views(view, pkgs)[k] = f[k]
  <1> DEFINE views == Views(view, pkgs)
             T == {k \in Nat : k <= Len(pkgs) /\ views[k] # f[k]}
  <1>1. /\ views[0] = view
        /\ \A k \in 1 .. Len(pkgs) : views[k] = Apply(views[k - 1], pkgs[k])
        /\ f[0] = view /\ \A k \in 1 .. Len(pkgs) : f[k] = Apply(f[k - 1], pkgs[k])
    BY ViewsRecur DEF Recurs
  <1> HIDE DEF views
  <1>2. T = {}
    <2> SUFFICES ASSUME T # {} PROVE FALSE
      OBVIOUS
    <2>1. PICK x \in T : x = 0 \/ (x - 1 \in Nat /\ x - 1 \notin T)
      <3>1. T \subseteq Nat
        OBVIOUS
      <3> HIDE DEF T
      <3> QED
        BY <3>1, FirstCounterexample
    <2>2. x \in Nat /\ x <= Len(pkgs) /\ views[x] # f[x]
      OBVIOUS
    <2>3. CASE x = 0
      BY <1>1, <2>2, <2>3
    <2>4. CASE x - 1 \in Nat /\ x - 1 \notin T
      <3>1. x \in 1 .. Len(pkgs) /\ x - 1 <= Len(pkgs)
        BY <2>2, <2>4
      <3>2. views[x - 1] = f[x - 1]
        BY <2>4, <3>1
      <3> QED
        BY <1>1, <2>2, <3>1, <3>2
    <2> QED
      BY <2>1, <2>3, <2>4
  <1> QED
    BY <1>2 DEF views

\* The packages of s, then those of t.
LEMMA ViewsOfBoth ==
    ASSUME NEW S, NEW s \in Seq(S), NEW t \in Seq(S), NEW view
    PROVE  /\ \A k \in 0 .. Len(s) : Views(view, s \o t)[k] = Views(view, s)[k]
           /\ \A k \in 0 .. Len(t) :
                  Views(view, s \o t)[Len(s) + k] = Views(Views(view, s)[Len(s)], t)[k]
  <1> DEFINE f == Views(view, s)
             w == f[Len(s)]
             g == Views(w, t)
             h == [k \in 0 .. Len(s) + Len(t) |-> IF k <= Len(s) THEN f[k] ELSE g[k - Len(s)]]
  <1>1. /\ Len(s) \in Nat /\ Len(t) \in Nat /\ Len(s \o t) = Len(s) + Len(t)
        /\ \A k \in 1 .. Len(s) : (s \o t)[k] = s[k]
        /\ \A k \in 1 .. Len(t) : (s \o t)[Len(s) + k] = t[k]
    BY ConcatProperties, LenProperties
  <1>2. f[0] = view /\ \A k \in 1 .. Len(s) : f[k] = Apply(f[k - 1], s[k])
    BY <1>1, ViewsRecur
  <1>3. g[0] = w /\ \A k \in 1 .. Len(t) : g[k] = Apply(g[k - 1], t[k])
    BY <1>1, ViewsRecur
  <1> DEFINE both == s \o t
  <1> HIDE DEF f, g
  <1>4. /\ \A k \in 0 .. Len(s) : h[k] = f[k]
        /\ \A k \in 0 .. Len(t) : h[Len(s) + k] = g[k]
    <2>1. \A k \in 0 .. Len(s) : k \in 0 .. Len(s) + Len(t) /\ k <= Len(s)
      BY <1>1
    <2>2. ASSUME NEW k \in 0 .. Len(t) PROVE h[Len(s) + k] = g[k]
      <3>1. CASE k = 0
        BY <1>1, <1>3, <3>1
      <3>2. CASE k # 0
        <4>1. Len(s) + k \in 0 .. Len(s) + Len(t) /\ ~(Len(s) + k <= Len(s))
              /\ Len(s) + k - Len(s) = k
          BY <1>1, <3>2
        <4> QED
          BY <4>1
      <3> QED
        BY <3>1, <3>2
    <2> QED
      BY <2>1, <2>2
  <1> HIDE DEF h
  <1>5. ASSUME NEW k \in 1 .. Len(both) PROVE h[k] = Apply(h[k - 1], both[k])
    <2>1. CASE k <= Len(s)
      <3>1. k \in 1 .. Len(s) /\ k \in 0 .. Len(s) /\ k - 1 \in 0 .. Len(s)
        BY <1>1, <2>1
      <3> QED
        BY <1>1, <1>2, <1>4, <3>1
    <2>2. CASE k > Len(s)
      <3> DEFINE j == k - Len(s)
      <3>1. j \in 1 .. Len(t) /\ j \in 0 .. Len(t) /\ j - 1 \in 0 .. Len(t)
            /\ Len(s) + j = k /\ Len(s) + (j - 1) = k - 1
        BY <1>1, <2>2
      <3> HIDE DEF j
      <3>2. h[k] = g[j] /\ h[k - 1] = g[j - 1] /\ both[k] = t[j]
        BY <1>1, <1>4, <3>1
      <3> QED
        BY <1>3, <3>1, <3>2
    <2> QED
      BY <1>1, <2>1, <2>2
  <1>6. h[0] = view
    BY <1>1, <1>2, <1>4
  <1> HIDE DEF both
  <1>7. Len(both) \in Nat /\ Len(both) = Len(s) + Len(t)
    BY <1>1 DEF both
  <1>8. \A k \in 0 .. Len(both) : Views(view, both)[k] = h[k]
    <2>1. Recurs(h, view, both)
      BY <1>5, <1>6 DEF Recurs
    <2> QED
      BY <1>7, <2>1, ViewsUnique
  <1>9. \A k \in 0 .. Len(s) : Views(view, both)[k] = f[k]
    BY <1>1, <1>4, <1>7, <1>8
  <1>10. \A k \in 0 .. Len(t) : Views(view, both)[Len(s) + k] = g[k]
    <2> TAKE k \in 0 .. Len(t)
    <2>1. Len(s) + k \in 0 .. Len(both)
      BY <1>1, <1>7
    <2> QED
      BY <1>4, <1>8, <2>1
  <1> QED
    BY <1>9, <1>10 DEF f, g, both

\* A package is handled: what comes after it is as before.
LEMMA ViewsOfTail ==
    ASSUME NEW S, NEW s \in Seq(S), s # <<>>, NEW view
    PROVE  \A k \in 0 .. Len(s) - 1 :
               Views(Apply(view, Head(s)), Tail(s))[k] = Views(view, s)[k + 1]
  <1> DEFINE f == Views(view, s)
             g == [k \in 0 .. Len(s) - 1 |-> f[k + 1]]
             t == Tail(s)
             w == Apply(view, Head(s))
  <1>1. /\ Len(s) \in Nat /\ Len(s) # 0 /\ t \in Seq(S) /\ Len(t) = Len(s) - 1
        /\ Head(s) = s[1] /\ \A k \in 1 .. Len(t) : t[k] = s[k + 1]
    BY HeadTailProperties, LenProperties, EmptySeq
  <1>2. f[0] = view /\ \A k \in 1 .. Len(s) : f[k] = Apply(f[k - 1], s[k])
    BY <1>1, ViewsRecur
  <1> HIDE DEF f, t
  <1>3. g[0] = w
    <2>1. 0 \in 0 .. Len(s) - 1 /\ 1 \in 1 .. Len(s)
      BY <1>1
    <2>2. f[1] = Apply(f[0], s[1])
      BY <1>2, <2>1
    <2> QED
      BY <1>1, <1>2, <2>1, <2>2
  <1>4. ASSUME NEW k \in 1 .. Len(t) PROVE g[k] = Apply(g[k - 1], t[k])
    <2>1. k \in 0 .. Len(s) - 1 /\ k - 1 \in 0 .. Len(s) - 1 /\ k + 1 \in 1 .. Len(s)
          /\ k - 1 + 1 = k /\ k + 1 - 1 = k
      BY <1>1
    <2>2. f[k + 1] = Apply(f[k], s[k + 1])
      BY <1>2, <2>1
    <2>3. g[k] = f[k + 1] /\ g[k - 1] = f[k]
      BY <2>1
    <2> QED
      BY <1>1, <2>2, <2>3
  <1> HIDE DEF w
  <1>5. Len(t) \in Nat
    BY <1>1
  <1> HIDE DEF g
  <1>6. \A k \in 0 .. Len(t) : Views(w, t)[k] = g[k]
    <2>1. Recurs(g, w, t)
      BY <1>3, <1>4 DEF Recurs
    <2> QED
      BY <1>5, <2>1, ViewsUnique
  <1>7. \A k \in 0 .. Len(s) - 1 : g[k] = f[k + 1]
    BY DEF g
  <1> QED
    BY <1>1, <1>6, <1>7 DEF f, t, w

\* The view after all of the packages.
After(view, pkgs) == Views(view, pkgs)[Len(pkgs)]

\* A game that c is told to start is the one that c's view is of.
GoodStart(c, view, pkg) ==
    /\ view # NoGroup
    /\ view.sorted_members_ids = pkg.players_order
    /\ c \in ToSet(pkg.players_order)
    /\ Cardinality(ToSet(pkg.players_order)) = MaxPlayers
    /\ \A d \in DOMAIN view.members : ~view.members[d]

StartsWell(c, view, pkgs) ==
    \A k \in 1 .. Len(pkgs) :
        pkgs[k].type = "group/game_start" => GoodStart(c, Views(view, pkgs)[k - 1], pkgs[k])

LEMMA NothingStarts ==
    ASSUME NEW c, NEW view
    PROVE  StartsWell(c, view, <<>>) /\ After(view, <<>>) = view
  <1>1. Len(<<>>) = 0
    OBVIOUS
  <1>2. Views(view, <<>>)[0] = view
    BY <1>1, ViewsRecur
  <1> QED
    BY <1>1, <1>2 DEF StartsWell, After

LEMMA OneStarts ==
    ASSUME NEW c, NEW view, NEW pkg,
           pkg.type = "group/game_start" => GoodStart(c, view, pkg)
    PROVE  StartsWell(c, view, <<pkg>>) /\ After(view, <<pkg>>) = Apply(view, pkg)
  <1> DEFINE pkgs == <<pkg>>
  <1>1. Len(pkgs) = 1 /\ pkgs[1] = pkg
    OBVIOUS
  <1> HIDE DEF pkgs
  <1>2. Views(view, pkgs)[0] = view /\ Views(view, pkgs)[1] = Apply(view, pkg)
    <2>1. Len(pkgs) \in Nat /\ 1 \in 1 .. Len(pkgs) /\ 1 - 1 = 0
      BY <1>1
    <2>2. /\ Views(view, pkgs)[0] = view
          /\ Views(view, pkgs)[1] = Apply(Views(view, pkgs)[1 - 1], pkgs[1])
      BY <2>1, ViewsRecur
    <2> QED
      BY <1>1, <2>1, <2>2
  <1>3. StartsWell(c, view, pkgs)
    <2> SUFFICES ASSUME NEW k \in 1 .. Len(pkgs), pkgs[k].type = "group/game_start"
                 PROVE  GoodStart(c, Views(view, pkgs)[k - 1], pkgs[k])
      BY DEF StartsWell
    <2>1. k = 1 /\ k - 1 = 0
      BY <1>1
    <2> QED
      BY <1>1, <1>2, <2>1
  <1> QED
    BY <1>1, <1>2, <1>3 DEF After, pkgs

LEMMA BothStart ==
    ASSUME NEW c, NEW view, NEW S, NEW s \in Seq(S), NEW t \in Seq(S),
           StartsWell(c, view, s), StartsWell(c, After(view, s), t)
    PROVE  StartsWell(c, view, s \o t) /\ After(view, s \o t) = After(After(view, s), t)
  <1> DEFINE both == s \o t
             w == After(view, s)
  <1>1. /\ Len(s) \in Nat /\ Len(t) \in Nat /\ Len(both) = Len(s) + Len(t)
        /\ \A k \in 1 .. Len(s) : both[k] = s[k]
        /\ \A k \in 1 .. Len(t) : both[Len(s) + k] = t[k]
    BY ConcatProperties, LenProperties
  <1>2. /\ \A k \in 0 .. Len(s) : Views(view, both)[k] = Views(view, s)[k]
        /\ \A k \in 0 .. Len(t) : Views(view, both)[Len(s) + k] = Views(w, t)[k]
    BY ViewsOfBoth DEF After
  <1> HIDE DEF both, w
  <1>3. StartsWell(c, view, both)
    <2> SUFFICES ASSUME NEW k \in 1 .. Len(both), both[k].type = "group/game_start"
                 PROVE  GoodStart(c, Views(view, both)[k - 1], both[k])
      BY DEF StartsWell
    <2>1. CASE k <= Len(s)
      <3>1. k \in 1 .. Len(s) /\ k - 1 \in 0 .. Len(s)
        BY <1>1, <2>1
      <3>2. both[k] = s[k] /\ Views(view, both)[k - 1] = Views(view, s)[k - 1]
        BY <1>1, <1>2, <3>1
      <3> QED
        BY <3>1, <3>2 DEF StartsWell
    <2>2. CASE k > Len(s)
      <3> DEFINE j == k - Len(s)
      <3>1. /\ j \in 1 .. Len(t) /\ j - 1 \in 0 .. Len(t)
            /\ k = Len(s) + j /\ k - 1 = Len(s) + (j - 1)
        BY <1>1, <2>2
      <3> HIDE DEF j
      <3>2. both[k] = t[j] /\ Views(view, both)[k - 1] = Views(w, t)[j - 1]
        BY <1>1, <1>2, <3>1
      <3> QED
        BY <3>1, <3>2 DEF StartsWell, w
    <2> QED
      BY <1>1, <2>1, <2>2
  <1>4. After(view, both) = After(w, t)
    <2>1. Len(t) \in 0 .. Len(t)
      BY <1>1
    <2> QED
      BY <1>1, <1>2, <2>1 DEF After
  <1> QED
    BY <1>3, <1>4 DEF both, w

LEMMA RestStarts ==
    ASSUME NEW c, NEW view, NEW S, NEW s \in Seq(S), s # <<>>, StartsWell(c, view, s)
    PROVE  /\ StartsWell(c, Apply(view, Head(s)), Tail(s))
           /\ After(Apply(view, Head(s)), Tail(s)) = After(view, s)
  <1> DEFINE t == Tail(s)
             w == Apply(view, Head(s))
  <1>1. /\ Len(s) \in Nat /\ Len(s) # 0 /\ Len(t) = Len(s) - 1
        /\ \A k \in 1 .. Len(t) : t[k] = s[k + 1]
    BY HeadTailProperties, LenProperties, EmptySeq
  <1>2. \A k \in 0 .. Len(s) - 1 : Views(w, t)[k] = Views(view, s)[k + 1]
    BY ViewsOfTail
  <1> HIDE DEF t, w
  <1>3. StartsWell(c, w, t)
    <2> SUFFICES ASSUME NEW k \in 1 .. Len(t), t[k].type = "group/game_start"
                 PROVE  GoodStart(c, Views(w, t)[k - 1], t[k])
      BY DEF StartsWell
    <2> DEFINE j == k + 1
    <2>1. /\ j \in 1 .. Len(s) /\ j - 1 = k
          /\ k - 1 \in 0 .. Len(s) - 1 /\ k - 1 + 1 = k /\ t[k] = s[j]
      BY <1>1
    <2> HIDE DEF j
    <2>2. GoodStart(c, Views(view, s)[j - 1], s[j])
      BY <2>1 DEF StartsWell
    <2> QED
      BY <1>2, <2>1, <2>2
  <1>4. After(w, t) = After(view, s)
    <2>1. Len(t) \in 0 .. Len(s) - 1 /\ Len(t) + 1 = Len(s)
      BY <1>1
    <2> QED
      BY <1>2, <2>1 DEF After
  <1> QED
    BY <1>3, <1>4 DEF t, w

-----------------------------------------------------------------------------
(* What the packages make of a view of the group                            *)

LEMMA ViewOfGroup ==
    ASSUME NEW gr \in GroupType
    PROVE  ViewOf(gr) # NoGroup
  BY NoGroupAssumption DEF ViewOf, GroupType

LEMMA JoinApplies ==
    ASSUME NEW gr \in GroupType, NEW c
    PROVE  Apply(ViewOf(gr), MemberJoin(c)) = ViewOf(AddClient(gr, c))
  <1> DEFINE p == gr.players
             s == gr.sorted_members_ids
             more == [d \in DOMAIN p \cup {c} |-> IF d = c THEN FALSE ELSE p[d]]
  <1>1. AddClient(gr, c) =
            [owner_id |-> gr.owner_id, players |-> more, sorted_members_ids |-> Append(s, c)]
    BY NoOneAssumption DEF GroupType, AddClient
  <1>2. Apply(ViewOf(gr), MemberJoin(c)) = Join(ViewOf(gr), Member(c, FALSE))
    BY ViewOfGroup DEF Apply, MemberJoin
  <1>3. ViewOf(gr) = [owner_id |-> gr.owner_id, members |-> p, sorted_members_ids |-> s]
    BY DEF ViewOf
  <1> DEFINE v == ViewOf(gr)
             m == Member(c, FALSE)
  <1>4. m.client_id = c /\ m.ready = FALSE
    BY DEF Member
  <1>5. /\ v = [owner_id |-> gr.owner_id, members |-> p, sorted_members_ids |-> s]
        /\ v.members = p /\ v.sorted_members_ids = s
    BY <1>3
  <1> HIDE DEF v, m, p, s
  <1>6. [d \in DOMAIN v.members \cup {m.client_id} |->
             IF d = m.client_id THEN m.ready ELSE v.members[d]] = more
    BY <1>4, <1>5
  <1>7. Join(v, m) = [v EXCEPT !.members = more, !.sorted_members_ids = Append(s, c)]
    BY <1>4, <1>5, <1>6 DEF Join
  <1> HIDE DEF more
  <1>8. Join(v, m) = [owner_id |-> gr.owner_id, members |-> more,
                      sorted_members_ids |-> Append(s, c)]
    BY <1>5, <1>7
  <1>9. ViewOf(AddClient(gr, c)) = [owner_id |-> gr.owner_id, members |-> more,
                                    sorted_members_ids |-> Append(s, c)]
    BY <1>1 DEF ViewOf
  <1> QED
    BY <1>2, <1>8, <1>9 DEF v, m

LEMMA LeaveApplies ==
    ASSUME NEW gr \in GroupType, NEW c, NEW owner
    PROVE  Apply(ViewOf(gr), MemberLeave(c, owner)) =
               ViewOf([owner_id |-> owner,
                       players |-> [d \in DOMAIN gr.players \ {c} |-> gr.players[d]],
                       sorted_members_ids |-> Without(gr.sorted_members_ids, c)])
  <1> DEFINE p == gr.players
             s == gr.sorted_members_ids
             v == ViewOf(gr)
             rest == [d \in DOMAIN p \ {c} |-> p[d]]
  <1>1. Apply(v, MemberLeave(c, owner)) = Leave(v, c, owner)
    BY ViewOfGroup DEF Apply, MemberLeave
  <1>2. /\ v = [owner_id |-> gr.owner_id, members |-> p, sorted_members_ids |-> s]
        /\ v.members = p /\ v.sorted_members_ids = s
    BY DEF ViewOf
  <1> HIDE DEF v, p, s
  <1>3. [d \in DOMAIN v.members \ {c} |-> v.members[d]] = rest
    BY <1>2
  <1> HIDE DEF rest
  <1>4. LeaveKeepsOwner(v, c, owner) =
            [v EXCEPT !.members = rest, !.sorted_members_ids = RemoveFirst(s, c)]
    BY <1>2, <1>3 DEF LeaveKeepsOwner
  <1> DEFINE u == LeaveKeepsOwner(v, c, owner)
  <1>5. u = [owner_id |-> gr.owner_id, members |-> rest,
             sorted_members_ids |-> RemoveFirst(s, c)]
    BY <1>2, <1>4
  <1>6. Leave(v, c, owner) = [u EXCEPT !.owner_id = owner]
    BY DEF Leave
  <1> HIDE DEF u
  <1>7. Leave(v, c, owner) = [owner_id |-> owner, members |-> rest,
                              sorted_members_ids |-> RemoveFirst(s, c)]
    BY <1>5, <1>6
  <1> QED
    BY <1>1, <1>7 DEF ViewOf, Without, v, p, s, rest

LEMMA UpdateApplies ==
    ASSUME NEW gr \in GroupType, NEW c \in DOMAIN gr.players, NEW state
    PROVE  Apply(ViewOf(gr), MemberUpdate(Member(c, state))) =
               ViewOf([owner_id |-> gr.owner_id, players |-> [gr.players EXCEPT ![c] = state],
                       sorted_members_ids |-> gr.sorted_members_ids])
  <1>1. Apply(ViewOf(gr), MemberUpdate(Member(c, state))) = Update(ViewOf(gr), Member(c, state))
    BY ViewOfGroup DEF Apply, MemberUpdate
  <1> QED
    BY <1>1 DEF Update, Member, ViewOf

LEMMA GameStartApplies ==
    ASSUME NEW view, NEW order
    PROVE  Apply(view, GameStart(order)) = view
  BY DEF Apply, GameStart

\* groups/join gives the client the group as it is.
\* groups/join gives the client the group as it is, an id that it lists twice included.
LEMMA GroupsJoinApplies ==
    ASSUME NEW view, NEW gr \in GroupType, ToSet(gr.sorted_members_ids) = DOMAIN gr.players
    PROVE  Apply(view, GroupsJoin(gr)) = ViewOf(gr)
  <1> DEFINE ids == gr.sorted_members_ids
             json == Members(gr)
             M == DOMAIN gr.players
  <1>1. /\ ids \in Seq(Clients) /\ DOMAIN ids = 1 .. Len(ids)
        /\ \A k \in 1 .. Len(ids) : ids[k] \in M
        /\ \A c \in M : \E k \in 1 .. Len(ids) : ids[k] = c
    BY LenProperties DEF ToSet, GroupType
  <1>2. gr.players = [d \in M |-> gr.players[d]]
    BY PlayersDomain
  <1>3. json = [k \in 1 .. Len(ids) |-> [client_id |-> ids[k], ready |-> gr.players[ids[k]]]]
    BY <1>1 DEF Members, Member
  <1>4. DOMAIN json = 1 .. Len(ids)
        /\ \A k \in 1 .. Len(ids) : json[k].client_id = ids[k] /\ json[k].ready = gr.players[ids[k]]
    BY <1>3
  <1>5. Apply(view, GroupsJoin(gr)) = NewNetGroup(gr.owner_id, json)
    BY DEF Apply, GroupsJoin
  <1> HIDE DEF json
  <1>6. [k \in DOMAIN json |-> json[k].client_id] = ids
    <2>1. ids = [k \in 1 .. Len(ids) |-> ids[k]]
      BY <1>1
    <2> HIDE DEF ids
    <2> QED
      BY <1>4, <2>1
  <1>7. ToSet(ids) = M
    OBVIOUS
  <1> HIDE DEF M
  <1>8. [d \in M |-> json[CHOOSE k \in DOMAIN ids : ids[k] = d].ready] = gr.players
    <2>1. ASSUME NEW d \in M
          PROVE  json[CHOOSE k \in DOMAIN ids : ids[k] = d].ready = gr.players[d]
      <3> DEFINE l == CHOOSE k \in DOMAIN ids : ids[k] = d
      <3>1. l \in 1 .. Len(ids) /\ ids[l] = d
        BY <1>1
      <3> HIDE DEF l
      <3> QED
        BY <1>4, <3>1 DEF l
    <2> QED
      BY <1>2, <2>1
  <1> DEFINE listed == [k \in DOMAIN json |-> json[k].client_id]
  <1>9. NewNetGroup(gr.owner_id, json) =
            [owner_id |-> gr.owner_id,
             members |-> [d \in ToSet(listed) |->
                             json[CHOOSE k \in DOMAIN listed : listed[k] = d].ready],
             sorted_members_ids |-> listed]
    BY DEF NewNetGroup
  <1>10. listed = ids
    BY <1>6
  <1> HIDE DEF listed
  <1>11. NewNetGroup(gr.owner_id, json) =
            [owner_id |-> gr.owner_id,
             members |-> [d \in ToSet(ids) |-> json[CHOOSE k \in DOMAIN ids : ids[k] = d].ready],
             sorted_members_ids |-> ids]
    BY <1>9, <1>10
  <1> HIDE DEF ids
  <1> QED
    BY <1>5, <1>7, <1>8, <1>11 DEF ViewOf, ids, json

-----------------------------------------------------------------------------
(* The packages of a new game                                               *)

\* An order of the players names each of them.
LEMMA OrdersType ==
    ASSUME NEW players, IsFiniteSet(DOMAIN players), NEW order \in Orders(players)
    PROVE  /\ order \in Seq(DOMAIN players)
           /\ \A d \in DOMAIN players : \E k \in 1 .. Len(order) : order[k] = d
  <1> PICK M : M = DOMAIN players
    OBVIOUS
  <1> DEFINE n == Cardinality(M)
  <1>1. n \in Nat /\ IsFiniteSet(1 .. n) /\ Cardinality(1 .. n) = n
    <2>1. n \in Nat
      BY FS_CardinalityType
    <2> HIDE DEF n
    <2> QED
      BY <2>1, FS_Interval
  <1>2. /\ order \in [1 .. n -> M]
        /\ \A i, j \in 1 .. n : i # j => order[i] # order[j]
    BY DEF Orders, SetToSeqs
  <1>3. order \in Injection(1 .. n, M)
    <2> HIDE DEF n
    <2> QED
      BY <1>2 DEF Injection, IsInjective
  <1>4. order \in Surjection(1 .. n, M)
    <2>1. Cardinality(1 .. n) = Cardinality(M)
      BY <1>1
    <2> HIDE DEF n
    <2> QED
      BY <1>3, <2>1, FS_Injection
  <1>5. \A d \in M : \E k \in 1 .. n : order[k] = d
    <2> HIDE DEF n
    <2> QED
      BY <1>4 DEF Surjection
  <1> HIDE DEF n
  <1>6. order \in Seq(M) /\ Len(order) = n
    BY <1>1, <1>2
  <1> QED
    BY <1>5, <1>6

LEMMA NoGameStarts ==
    ASSUME NEW c, NEW view, NEW pkgs,
           \A k \in 1 .. Len(pkgs) : pkgs[k].type # "group/game_start"
    PROVE  StartsWell(c, view, pkgs)
  BY DEF StartsWell

\* new_game: a client that handles all of the updates, in whatever order of the
\* players, has nobody ready any more.
LEMMA UpdatesApply ==
    ASSUME NEW c, NEW gr \in GroupType, NEW M, DOMAIN gr.players = M,
           NEW order \in Seq(M), \A d \in M : \E k \in 1 .. Len(order) : order[k] = d
    PROVE  /\ \E S : NewGameUpdates(gr, order) \in Seq(S)
           /\ StartsWell(c, ViewOf(gr), NewGameUpdates(gr, order))
           /\ After(ViewOf(gr), NewGameUpdates(gr, order)) = ViewOf(Unready(gr))
  <1> DEFINE ids == gr.sorted_members_ids
             p == gr.players
             n == Len(order)
             us == NewGameUpdates(gr, order)
             told(k) == [d \in M |-> IF \E i \in 1 .. k : order[i] = d THEN FALSE ELSE p[d]]
             mid(k) == [owner_id |-> gr.owner_id, players |-> told(k), sorted_members_ids |-> ids]
             f == [k \in 0 .. n |-> ViewOf(mid(k))]
             none == [d \in M |-> FALSE]
  <1>1. /\ n \in Nat /\ DOMAIN order = 1 .. n
        /\ \A k \in 1 .. n : order[k] \in M
        /\ \A d \in M : \E k \in 1 .. n : order[k] = d
    BY LenProperties, ElementOfSeq
  <1>2. p = [d \in M |-> p[d]]
    BY DEF GroupType
  <1>3. Unready(gr) = [owner_id |-> gr.owner_id, players |-> none, sorted_members_ids |-> ids]
    <2>1. [d \in DOMAIN gr.players |-> FALSE] = none
      OBVIOUS
    <2> HIDE DEF none
    <2>2. Unready(gr) = [gr EXCEPT !.players = none]
      BY <2>1 DEF Unready
    <2> QED
      BY <2>2 DEF GroupType
  <1>4. us = [k \in 1 .. n |-> MemberUpdate(Member(order[k], FALSE))]
    <2>1. Unready(gr).players = none
      BY <1>3
    <2>2. \A k \in 1 .. n : none[order[k]] = FALSE
      BY <1>1
    <2>3. us = [k \in 1 .. n |-> MemberUpdate(Member(order[k], Unready(gr).players[order[k]]))]
      BY <1>1 DEF NewGameUpdates
    <2> HIDE DEF none, us
    <2> QED
      BY <2>1, <2>2, <2>3
  <1> HIDE DEF us, p, ids, n
  <1> DEFINE S == {us[k] : k \in 1 .. n}
  <1>5. /\ us \in Seq(S) /\ Len(us) = n
        /\ \A k \in 1 .. n : us[k] = MemberUpdate(Member(order[k], FALSE))
    <2>1. us \in [1 .. n -> S]
      BY <1>4
    <2> HIDE DEF S
    <2>2. us \in Seq(S) /\ Len(us) = n
      BY <1>1, <2>1
    <2> QED
      BY <1>4, <2>2
  <1> HIDE DEF S
  <1>6. StartsWell(c, ViewOf(gr), us)
    <2>1. \A m : MemberUpdate(m).type # "group/game_start"
      BY DEF MemberUpdate
    <2>2. \A k \in 1 .. Len(us) : us[k].type # "group/game_start"
      BY ZenonT(60), <1>5, <2>1
    <2> QED
      BY <2>2, NoGameStarts
  <1>7. f[0] = ViewOf(gr)
    <2>1. told(0) = p
      BY <1>1, <1>2
    <2>2. 0 \in 0 .. n
      BY <1>1
    <2> HIDE DEF told
    <2> QED
      BY <2>1, <2>2 DEF ViewOf, ids, p
  <1>8. f[n] = ViewOf(Unready(gr))
    <2>1. told(n) = none
      BY <1>1
    <2>2. n \in 0 .. n
      BY <1>1
    <2> HIDE DEF told, none
    <2> QED
      BY <1>3, <2>1, <2>2 DEF ViewOf
  <1>9. ASSUME NEW k \in 1 .. n
        PROVE  f[k] = Apply(f[k - 1], us[k])
    <2> DEFINE id == order[k]
               g == mid(k - 1)
    <2>1. k \in 0 .. n /\ k - 1 \in 0 .. n /\ id \in M
      BY <1>1
    <2>2. f[k] = ViewOf(mid(k)) /\ f[k - 1] = ViewOf(g)
      BY <2>1
    <2>3. told(k) = [told(k - 1) EXCEPT ![id] = FALSE]
      <3>1. \A i \in 1 .. k : i \in 1 .. k - 1 \/ i = k
        BY <1>1
      <3>2. \A i \in 1 .. k - 1 : i \in 1 .. k
        BY <1>1
      <3>3. k \in 1 .. k
        BY <1>1
      <3>4. ASSUME NEW d \in M
            PROVE  told(k)[d] = IF d = id THEN FALSE ELSE told(k - 1)[d]
        BY <3>1, <3>2, <3>3
      <3>5. /\ told(k) = [d \in M |-> told(k)[d]]
            /\ told(k - 1) = [d \in M |-> told(k - 1)[d]]
        OBVIOUS
      <3> HIDE DEF told, id
      <3> QED
        BY <2>1, <3>4, <3>5
    <2>4. told(k - 1) \in [M -> BOOLEAN] /\ M \in SUBSET Clients /\ DOMAIN told(k - 1) = M
      <3>1. \A d \in M : p[d] \in BOOLEAN
        BY DEF GroupType, p
      <3>2. M \in SUBSET Clients
        BY DEF GroupType
      <3>3. \A d \in M : told(k - 1)[d] \in BOOLEAN
        BY <3>1
      <3> QED
        BY <3>2, <3>3
    <2>5. us[k] = MemberUpdate(Member(id, FALSE))
      BY <1>5
    <2> HIDE DEF told, f, id
    <2>6. /\ g.players = told(k - 1) /\ g.owner_id = gr.owner_id /\ g.sorted_members_ids = ids
          /\ g \in GroupType
      <3>1. gr.owner_id \in Clients /\ ids \in Seq(Clients)
        BY DEF GroupType, ids
      <3>2. told(k - 1) \in UNION {[D -> BOOLEAN] : D \in SUBSET Clients}
        BY <2>4, PlayersType
      <3> QED
        BY <3>1, <3>2 DEF GroupType
    <2>7. mid(k) = [owner_id |-> g.owner_id, players |-> [g.players EXCEPT ![id] = FALSE],
                    sorted_members_ids |-> g.sorted_members_ids]
      BY <2>3, <2>6
    <2>8. id \in DOMAIN g.players
      BY <2>1, <2>4, <2>6
    <2> HIDE DEF g, mid
    <2>9. Apply(ViewOf(g), MemberUpdate(Member(id, FALSE))) =
             ViewOf([owner_id |-> g.owner_id, players |-> [g.players EXCEPT ![id] = FALSE],
                     sorted_members_ids |-> g.sorted_members_ids])
      BY <2>6, <2>8, UpdateApplies
    <2> QED
      BY <2>2, <2>5, <2>7, <2>9
  <1> HIDE DEF f, told, none, mid
  <1>10. Views(ViewOf(gr), us)[n] = f[n]
    <2>1. Len(us) \in Nat /\ n \in 0 .. Len(us)
      BY <1>1, <1>5
    <2>2. Recurs(f, ViewOf(gr), us)
      BY <1>5, <1>7, <1>9 DEF Recurs
    <2> QED
      BY <2>1, <2>2, ViewsUnique
  <1> QED
    BY <1>5, <1>6, <1>8, <1>10 DEF After, us

\* What the listener of group/set_ready_state tells the members of gr, with the new game
\* that it may start, makes the view of one of them, d, the group's.
ReadyIsTold(gr, c, state, d, order) ==
    LET gr2 == [gr EXCEPT !.players[c] = state]
        update == <<MemberUpdate(Member(c, state))>>
        pkgs == IF StartsGame(gr, gr2)
                THEN update \o NewGameUpdates(gr2, order) \o <<GameStart(gr2.sorted_members_ids)>>
                ELSE update
    IN  /\ \E S : pkgs \in Seq(S)
        /\ StartsWell(d, ViewOf(gr), pkgs)
        /\ After(ViewOf(gr), pkgs) = ViewOf(IF StartsGame(gr, gr2) THEN Unready(gr2) ELSE gr2)

LEMMA SetReadyApplies ==
    ASSUME NEW gr \in GroupType, IsFiniteSet(DOMAIN gr.players),
           Cardinality(DOMAIN gr.players) <= MaxPlayers,
           ToSet(gr.sorted_members_ids) = DOMAIN gr.players,
           NEW c \in DOMAIN gr.players, NEW state \in BOOLEAN, NEW d \in DOMAIN gr.players,
           NEW order, order \in Orders([gr EXCEPT !.players[c] = state].players)
    PROVE  ReadyIsTold(gr, c, state, d, order)
  <1> DEFINE gr2 == [gr EXCEPT !.players[c] = state]
             ids == gr.sorted_members_ids
             update == <<MemberUpdate(Member(c, state))>>
             us == NewGameUpdates(gr2, order)
             start == <<GameStart(ids)>>
  <1> PICK M : M = DOMAIN gr.players
    OBVIOUS
  <1> DEFINE none == [e \in M |-> FALSE]
  <1>1. /\ DOMAIN gr.players = M /\ M \subseteq Clients /\ IsFiniteSet(M)
        /\ Cardinality(M) <= MaxPlayers /\ ToSet(ids) = M /\ c \in M /\ d \in M
    BY PlayersDomain
  <1>2. gr.players \in [M -> BOOLEAN] /\ gr.owner_id \in Clients /\ ids \in Seq(Clients)
    BY PlayersDomain DEF GroupType
  <1>3. gr2 = [owner_id |-> gr.owner_id, players |-> [gr.players EXCEPT ![c] = state],
               sorted_members_ids |-> ids]
    BY DEF GroupType
  <1>4. /\ gr2 \in GroupType /\ DOMAIN gr2.players = M /\ gr2.sorted_members_ids = ids
    <2>1. [gr.players EXCEPT ![c] = state] \in [M -> BOOLEAN]
      BY <1>1, <1>2
    <2>2. [gr.players EXCEPT ![c] = state] \in UNION {[D -> BOOLEAN] : D \in SUBSET Clients}
      BY <1>1, <2>1, PlayersType
    <2> HIDE DEF gr2, ids
    <2> QED
      BY <1>2, <1>3, <2>1, <2>2 DEF GroupType
  <1>5. /\ StartsWell(d, ViewOf(gr), update)
        /\ After(ViewOf(gr), update) = ViewOf(gr2)
    <2>1. MemberUpdate(Member(c, state)).type # "group/game_start"
      BY DEF MemberUpdate
    <2>2. Apply(ViewOf(gr), MemberUpdate(Member(c, state))) = ViewOf(gr2)
      <3>1. c \in DOMAIN gr.players
        BY <1>1
      <3>2. Apply(ViewOf(gr), MemberUpdate(Member(c, state))) =
               ViewOf([owner_id |-> gr.owner_id, players |-> [gr.players EXCEPT ![c] = state],
                       sorted_members_ids |-> ids])
        BY <3>1, UpdateApplies, Zenon
      <3> HIDE DEF gr2
      <3> QED
        BY <1>3, <3>2, Zenon
    <2> HIDE DEF gr2
    <2> QED
      BY <2>1, <2>2, OneStarts
  <1>6. update \in Seq({MemberUpdate(Member(c, state))})
    OBVIOUS
  <1> HIDE DEF gr2, update
  <1>7. CASE ~StartsGame(gr, gr2)
    BY <1>5, <1>6, <1>7 DEF ReadyIsTold, gr2, update
  <1>8. CASE StartsGame(gr, gr2)
    <2> HIDE DEF us
    <2>0. order \in Seq(M) /\ \A e \in M : \E k \in 1 .. Len(order) : order[k] = e
      BY <1>1, <1>4, OrdersType DEF gr2
    <2>1. /\ \E S : us \in Seq(S)
          /\ StartsWell(d, ViewOf(gr2), us)
          /\ After(ViewOf(gr2), us) = ViewOf(Unready(gr2))
      BY <1>4, <2>0, UpdatesApply DEF us
    <2>2. PICK S : us \in Seq(S)
      BY <2>1
    <2>3. Unready(gr2) = [owner_id |-> gr2.owner_id, players |-> none, sorted_members_ids |-> ids]
      <3>1. [e \in DOMAIN gr2.players |-> FALSE] = none
        BY <1>4
      <3>2. Unready(gr2) = [gr2 EXCEPT !.players = [e \in DOMAIN gr2.players |-> FALSE]]
        BY DEF Unready
      <3>3. Unready(gr2) = [gr2 EXCEPT !.players = none]
        BY <3>1, <3>2, Zenon
      <3> HIDE DEF none
      <3> QED
        BY <1>4, <3>3 DEF GroupType
    <2> DEFINE view == ViewOf(Unready(gr2))
    <2>4. /\ view # NoGroup /\ view.sorted_members_ids = ids
          /\ \A e \in DOMAIN view.members : ~view.members[e]
      <3>1. none \in [M -> BOOLEAN] /\ M \in SUBSET Clients
        BY <1>1
      <3>2. none \in UNION {[D -> BOOLEAN] : D \in SUBSET Clients}
        BY <3>1, PlayersType
      <3>3. DOMAIN none = M /\ \A e \in M : ~none[e]
        OBVIOUS
      <3> HIDE DEF none
      <3>4. Unready(gr2) \in GroupType
        BY <1>2, <1>4, <2>3, <3>2 DEF GroupType
      <3>5. view.sorted_members_ids = ids /\ view.members = none
        BY <2>3 DEF ViewOf
      <3> HIDE DEF view
      <3> QED
        BY <3>3, <3>4, <3>5, ViewOfGroup DEF view
    <2>5. Cardinality(ToSet(ids)) = MaxPlayers
      <3>1. Cardinality(M) >= MaxPlayers
        BY <1>4, <1>8 DEF StartsGame, IsFull
      <3>2. Cardinality(M) \in Nat
        BY <1>1, FS_CardinalityType
      <3> QED
        BY <1>1, <3>1, <3>2, MaxPlayersAssumption
    <2>6. d \in ToSet(ids)
      BY <1>1
    <2>7. GoodStart(d, view, GameStart(ids))
      <3> HIDE DEF view
      <3> QED
        BY <2>4, <2>5, <2>6 DEF GoodStart, GameStart
    <2>8. StartsWell(d, view, start) /\ After(view, start) = view
      <3> HIDE DEF view
      <3> QED
        BY <2>7, OneStarts, GameStartApplies
    <2>9. start \in Seq({GameStart(ids)})
      OBVIOUS
    <2> DEFINE T == S \cup {MemberUpdate(Member(c, state))} \cup {GameStart(ids)}
    <2>10. update \in Seq(T) /\ us \in Seq(T) /\ start \in Seq(T)
      <3>1. \A A, B : A \subseteq B => Seq(A) \subseteq Seq(B)
        OBVIOUS
      <3> QED
        BY <1>6, <2>2, <2>9, <3>1
    <2> HIDE DEF T, us, start, view
    <2>11. update \o us \in Seq(T)
      BY <2>10, ConcatProperties
    <2>12. /\ StartsWell(d, ViewOf(gr), update \o us)
           /\ After(ViewOf(gr), update \o us) = view
      BY <1>5, <2>1, <2>10, BothStart DEF us, view
    <2>13. /\ StartsWell(d, ViewOf(gr), update \o us \o start)
           /\ After(ViewOf(gr), update \o us \o start) = view
      <3> DEFINE all == update \o us
      <3>1. /\ all \in Seq(T) /\ StartsWell(d, ViewOf(gr), all)
            /\ After(ViewOf(gr), all) = view
        BY <2>11, <2>12
      <3> HIDE DEF all
      <3>2. /\ StartsWell(d, ViewOf(gr), all \o start)
            /\ After(ViewOf(gr), all \o start) = After(view, start)
        BY <2>8, <2>10, <3>1, BothStart
      <3> QED
        BY <2>8, <3>2 DEF all
    <2>14. update \o us \o start \in Seq(T)
      BY <2>10, <2>11, ConcatProperties
    <2> QED
      BY <1>4, <1>8, <2>13, <2>14 DEF ReadyIsTold, gr2, update, us, start, view
  <1> QED
    BY <1>7, <1>8

-----------------------------------------------------------------------------
(* What is on its way to a client                                           *)

AnySeq(s) == \E S : s \in Seq(S)

\* The lanes of a client: nothing by UDP before its handshake is handled, nothing at
\* all before its first login.
LanesOf(c) ==
    /\ DOMAIN lanes[c] = Transports
    /\ AnySeq(lanes[c]["tcp"]) /\ AnySeq(lanes[c]["udp"])
    /\ conn[c] \in {"off", "connected"} => lanes[c]["udp"] = <<>>
    /\ joined[c] = <<>> => lanes[c]["tcp"] = <<>> /\ lanes[c]["udp"] = <<>>

\* What the view of a client in one group becomes, unless a package has overtaken
\* another.
ViewIsKept(c) ==
    \A g \in 1 .. Len(groups) : Follows(c, g) /\ c \notin overtaken =>
        /\ StartsWell(c, netgroup[c], InFlight(c))
        /\ Open(c) => After(netgroup[c], InFlight(c)) = ViewOf(groups[g])

VInv ==
    /\ IInv
    /\ DOMAIN lanes = Clients /\ DOMAIN netgroup = Clients
    /\ \A c \in Clients : LanesOf(c) /\ ViewIsKept(c)

LEMMA NothingIsAnySeq == AnySeq(<<>>)
  BY EmptySeq DEF AnySeq

LEMMA NothingAround ==
    ASSUME NEW s, AnySeq(s)
    PROVE  s \o <<>> = s /\ <<>> \o s = s
  BY ConcatEmptySeq DEF AnySeq

LEMMA BothAreSeqs ==
    ASSUME NEW s, NEW t, AnySeq(s), AnySeq(t)
    PROVE  \E S : s \in Seq(S) /\ t \in Seq(S) /\ s \o t \in Seq(S)
  <1>1. PICK A : s \in Seq(A)
    BY DEF AnySeq
  <1>2. PICK B : t \in Seq(B)
    BY DEF AnySeq
  <1>3. s \in Seq(A \cup B) /\ t \in Seq(A \cup B)
    BY <1>1, <1>2
  <1> QED
    BY <1>3, ConcatProperties

LEMMA ThreeInARow ==
    ASSUME NEW s, NEW t, NEW u, AnySeq(s), AnySeq(t), AnySeq(u)
    PROVE  (s \o t) \o u = s \o (t \o u)
  <1>1. PICK A : s \in Seq(A)
    BY DEF AnySeq
  <1>2. PICK B : t \in Seq(B)
    BY DEF AnySeq
  <1>3. PICK C : u \in Seq(C)
    BY DEF AnySeq
  <1>4. s \in Seq(A \cup B \cup C) /\ t \in Seq(A \cup B \cup C) /\ u \in Seq(A \cup B \cup C)
    BY <1>1, <1>2, <1>3
  <1> QED
    BY <1>4, ConcatAssociative

\* What is sent goes behind the packages of the second lane.
Longer(after, before, u) == after = before \o u
LongerAtEnd(after, before, s, t, u) == before = s \o t /\ after = s \o (t \o u)

LEMMA BehindBoth ==
    ASSUME NEW s, NEW t, NEW u, NEW before, NEW after,
           AnySeq(s), AnySeq(t), AnySeq(u), LongerAtEnd(after, before, s, t, u)
    PROVE  Longer(after, before, u)
  BY SMTT(30), ThreeInARow DEF Longer, LongerAtEnd

LEMMA TailOfBoth ==
    ASSUME NEW s, NEW t, AnySeq(s), AnySeq(t), s # <<>>
    PROVE  /\ s \o t # <<>> /\ Head(s \o t) = Head(s) /\ Tail(s \o t) = Tail(s) \o t
           /\ AnySeq(Tail(s))
  <1>1. PICK S : s \in Seq(S) /\ t \in Seq(S) /\ s \o t \in Seq(S)
    BY BothAreSeqs
  <1> DEFINE both == s \o t
             rest == Tail(s)
             other == rest \o t
             tail == Tail(both)
  <1>2. /\ Len(s) \in Nat /\ Len(s) # 0 /\ Len(t) \in Nat
        /\ Len(both) = Len(s) + Len(t) /\ both \in Seq(S)
        /\ \A k \in 1 .. Len(both) : both[k] = IF k <= Len(s) THEN s[k] ELSE t[k - Len(s)]
    BY <1>1, ConcatProperties, LenProperties, EmptySeq
  <1>3. both # <<>>
    <2> HIDE DEF both
    <2> QED
      BY <1>2, EmptySeq
  <1>4. /\ rest \in Seq(S) /\ Len(rest) = Len(s) - 1 /\ Head(s) = s[1]
        /\ \A k \in 1 .. Len(rest) : rest[k] = s[k + 1]
    BY <1>1, HeadTailProperties
  <1>5. /\ Len(other) = Len(rest) + Len(t) /\ other \in Seq(S)
        /\ \A k \in 1 .. Len(other) :
              other[k] = IF k <= Len(rest) THEN rest[k] ELSE t[k - Len(rest)]
    <2> HIDE DEF rest
    <2>1. rest \in Seq(S) /\ t \in Seq(S)
      BY <1>1, <1>4
    <2> QED
      BY <2>1, ConcatProperties
  <1>6. /\ tail \in Seq(S) /\ Len(tail) = Len(both) - 1 /\ Head(both) = both[1]
        /\ \A k \in 1 .. Len(tail) : tail[k] = both[k + 1]
    <2> HIDE DEF both
    <2> QED
      BY <1>2, <1>3, HeadTailProperties
  <1> HIDE DEF both, rest, other, tail
  <1>7. Head(both) = Head(s)
    <2>1. 1 \in 1 .. Len(both) /\ 1 <= Len(s)
      BY <1>2
    <2> QED
      BY <1>2, <1>4, <1>6, <2>1
  <1>8. Len(tail) = Len(other) /\ Len(tail) \in Nat
    BY <1>2, <1>4, <1>5, <1>6
  <1>9. ASSUME NEW k \in 1 .. Len(tail) PROVE tail[k] = other[k]
    <2>1. k + 1 \in 1 .. Len(both) /\ k \in 1 .. Len(other)
      BY <1>2, <1>6, <1>8
    <2>2. CASE k <= Len(rest)
      <3>1. k + 1 <= Len(s) /\ k \in 1 .. Len(rest)
        BY <1>2, <1>4, <2>2
      <3> QED
        BY <1>2, <1>4, <1>5, <1>6, <2>1, <2>2, <3>1
    <2>3. CASE ~(k <= Len(rest))
      <3> PICK j : j = k - Len(rest)
        OBVIOUS
      <3>1. ~(k + 1 <= Len(s)) /\ k + 1 - Len(s) = j
        BY <1>2, <1>4, <2>3
      <3>2. other[k] = t[j]
        BY <1>5, <2>1, <2>3
      <3>3. both[k + 1] = t[j]
        BY <1>2, <2>1, <3>1
      <3> QED
        BY <1>6, <3>2, <3>3
    <2> QED
      BY <2>2, <2>3
  <1>10. tail = other
    BY <1>5, <1>6, <1>8, <1>9, SeqEqual
  <1>11. AnySeq(rest)
    BY <1>4 DEF AnySeq
  <1> QED
    BY <1>3, <1>7, <1>10, <1>11 DEF both, rest, other, tail

\* qsend_udp of a client's packages puts them behind those already on their way.
LEMMA SendStep ==
    ASSUME NEW pkgs, Send(pkgs), NEW c \in Clients, conn' = conn,
           DOMAIN lanes = Clients, LanesOf(c), AnySeq(pkgs[c]),
           joined'[c] = <<>> => joined[c] = <<>> /\ (Open(c) => pkgs[c] = <<>>)
    PROVE  /\ LanesOf(c)'
           /\ Open(c) => InFlight(c)' = InFlight(c) \o pkgs[c]
           /\ ~Open(c) => InFlight(c)' = InFlight(c)
  <1>1. lanes'[c] = IF Open(c) THEN [lanes[c] EXCEPT ![Transport(c)] = @ \o pkgs[c]]
                    ELSE lanes[c]
    BY DEF Send
  <1>2. CASE ~Open(c)
    BY <1>1, <1>2 DEF LanesOf, InFlight
  <1>3. CASE Open(c)
    <2> PICK tcp : tcp = lanes[c]["tcp"]
      OBVIOUS
    <2> PICK udp : udp = lanes[c]["udp"]
      OBVIOUS
    <2> PICK new : new = pkgs[c]
      OBVIOUS
    <2>1. /\ AnySeq(tcp) /\ AnySeq(udp) /\ AnySeq(new)
          /\ DOMAIN lanes[c] = Transports /\ "tcp" \in Transports /\ "udp" \in Transports
      BY DEF LanesOf, Transports
    <2>2. \A s, t : AnySeq(s) /\ AnySeq(t) => AnySeq(s \o t)
      BY BothAreSeqs DEF AnySeq
    <2>3. joined'[c] = <<>> => tcp = <<>> /\ udp = <<>> /\ new = <<>> /\ <<>> \o <<>> = <<>>
      BY <1>3 DEF LanesOf
    <2>4. CASE conn[c] = "full"
      <3>1. lanes'[c] = [lanes[c] EXCEPT !["udp"] = udp \o new]
        BY <1>1, <1>3, <2>4 DEF Transport
      <3>2. DOMAIN lanes'[c] = Transports /\ lanes'[c]["tcp"] = tcp
            /\ lanes'[c]["udp"] = udp \o new
        BY <2>1, <3>1
      <3>3. AnySeq(udp \o new)
        BY <2>1, <2>2
      <3>4. LanesOf(c)'
        BY <2>1, <2>3, <2>4, <3>2, <3>3 DEF LanesOf
      <3>5. InFlight(c)' = tcp \o (udp \o new) /\ InFlight(c) = tcp \o udp
        BY <3>2 DEF InFlight
      <3>6. InFlight(c)' = InFlight(c) \o new
        <4> PICK before : before = InFlight(c)
          OBVIOUS
        <4> PICK after : after = InFlight(c)'
          OBVIOUS
        <4>1. AnySeq(tcp) /\ AnySeq(udp) /\ AnySeq(new)
          BY <2>1
        <4>2. LongerAtEnd(after, before, tcp, udp, new)
          BY <3>5 DEF LongerAtEnd
        <4>3. Longer(after, before, new)
          BY <4>1, <4>2, BehindBoth, Zenon
        <4> QED
          BY <4>3 DEF Longer
      <3> QED
        BY <1>3, <3>4, <3>6
    <2>5. CASE conn[c] = "connected"
      <3>1. lanes'[c] = [lanes[c] EXCEPT !["tcp"] = tcp \o new] /\ udp = <<>>
        BY <1>1, <1>3, <2>5 DEF Transport, LanesOf
      <3>2. DOMAIN lanes'[c] = Transports /\ lanes'[c]["tcp"] = tcp \o new
            /\ lanes'[c]["udp"] = <<>>
        BY <2>1, <3>1
      <3>3. AnySeq(tcp \o new)
        BY <2>1, <2>2
      <3>4. LanesOf(c)'
        BY <2>1, <2>3, <3>1, <3>2, <3>3 DEF LanesOf
      <3>5. InFlight(c)' = (tcp \o new) \o <<>> /\ InFlight(c) = tcp \o <<>>
        BY <3>1, <3>2 DEF InFlight
      <3>6. (tcp \o new) \o <<>> = tcp \o new /\ tcp \o <<>> = tcp
        BY <2>1, <3>3, NothingAround
      <3> QED
        BY <1>3, <3>4, <3>5, <3>6
    <2> QED
      BY <1>3, <2>4, <2>5 DEF Open
  <1> QED
    BY <1>2, <1>3

LEMMA VInit == Init => VInv
  <1> SUFFICES ASSUME Init PROVE VInv
    OBVIOUS
  <1>1. IInv
    BY InitInv
  <1>2. Len(groups) = 0
    BY EmptySeq DEF Init
  <1>3. ASSUME NEW c \in Clients PROVE LanesOf(c) /\ ViewIsKept(c)
    <2>1. LanesOf(c)
      BY NothingIsAnySeq DEF Init, LanesOf, Transports
    <2> QED
      BY <1>2, <2>1 DEF ViewIsKept
  <1> QED
    BY <1>1, <1>3 DEF Init, VInv

LEMMA FollowedGroup ==
    ASSUME IInv, NEW c \in Clients, NEW g, Follows(c, g)
    PROVE  g \in 1 .. Len(groups)
  <1> PICK S : S = 1 .. Len(groups)
    OBVIOUS
  <1> PICK s : s = joined[c]
    OBVIOUS
  <1>1. s \in Seq(S) /\ g \in ToSet(s)
    BY DEF Follows, IInv, Typed
  <1>2. ToSet(s) = {s[k] : k \in 1 .. Len(s)}
    BY <1>1, LenProperties DEF ToSet
  <1>3. PICK k \in 1 .. Len(s) : s[k] = g
    BY <1>1, <1>2
  <1> QED
    BY <1>1, <1>3, ElementOfSeq

\* A client whose view what it is told brings up to date.
LEMMA TellStep ==
    ASSUME VInv, NEW pkgs, Send(pkgs), conn' = conn, netgroup' = netgroup,
           overtaken' = overtaken, NEW c \in Clients, AnySeq(pkgs[c]),
           joined'[c] = <<>> => joined[c] = <<>> /\ (Open(c) => pkgs[c] = <<>>),
           ~Open(c) => joined'[c] = joined[c],
           \A g : Follows(c, g)' /\ Open(c) /\ c \notin overtaken =>
              /\ StartsWell(c, netgroup[c], InFlight(c))
              /\ StartsWell(c, After(netgroup[c], InFlight(c)), pkgs[c])
              /\ After(After(netgroup[c], InFlight(c)), pkgs[c]) = ViewOf(groups'[g])
    PROVE  LanesOf(c)' /\ ViewIsKept(c)'
  <1>1. /\ LanesOf(c) /\ ViewIsKept(c)
        /\ LanesOf(c)'
        /\ Open(c) => InFlight(c)' = InFlight(c) \o pkgs[c]
        /\ ~Open(c) => InFlight(c)' = InFlight(c)
    BY SendStep DEF VInv
  <1>2. AnySeq(InFlight(c))
    BY <1>1, BothAreSeqs DEF LanesOf, InFlight, AnySeq
  <1>3. Open(c)' <=> Open(c)
    BY DEF Open
  <1>4. ASSUME NEW g \in 1 .. Len(groups'), Follows(c, g)', c \notin overtaken
        PROVE  /\ StartsWell(c, netgroup[c], InFlight(c)')
               /\ Open(c) => After(netgroup[c], InFlight(c)') = ViewOf(groups'[g])
    <2>1. CASE Open(c)
      <3> PICK s : s = InFlight(c)
        OBVIOUS
      <3> PICK t : t = pkgs[c]
        OBVIOUS
      <3> PICK view : view = netgroup[c]
        OBVIOUS
      <3>1. PICK S : s \in Seq(S) /\ t \in Seq(S)
        BY <1>2, BothAreSeqs
      <3>2. /\ StartsWell(c, view, s) /\ StartsWell(c, After(view, s), t)
            /\ After(After(view, s), t) = ViewOf(groups'[g])
        BY <1>4, <2>1
      <3>3. StartsWell(c, view, s \o t) /\ After(view, s \o t) = After(After(view, s), t)
        BY <3>1, <3>2, BothStart
      <3> QED
        BY <1>1, <2>1, <3>2, <3>3
    <2>2. CASE ~Open(c)
      <3>1. Follows(c, g)
        BY <1>4, <2>2 DEF Follows
      <3>2. g \in 1 .. Len(groups)
        BY <3>1, FollowedGroup DEF VInv
      <3> QED
        BY <1>1, <1>4, <2>2, <3>1, <3>2 DEF ViewIsKept
    <2> QED
      BY <2>1, <2>2
  <1>5. ViewIsKept(c)'
    BY <1>3, <1>4 DEF ViewIsKept
  <1> QED
    BY <1>1, <1>5

\* A client that is told nothing, and whose group does not change.
LEMMA NotTold ==
    ASSUME VInv, NEW pkgs, Send(pkgs), conn' = conn, netgroup' = netgroup,
           overtaken' = overtaken, NEW c \in Clients, pkgs[c] = <<>>,
           joined'[c] = joined[c],
           \A g \in 1 .. Len(groups) : Follows(c, g) /\ Open(c) => groups'[g] = groups[g]
    PROVE  LanesOf(c)' /\ ViewIsKept(c)'
  <1>1. AnySeq(pkgs[c])
    BY NothingIsAnySeq
  <1>2. ASSUME NEW g, Follows(c, g)', Open(c), c \notin overtaken
        PROVE  /\ StartsWell(c, netgroup[c], InFlight(c))
               /\ StartsWell(c, After(netgroup[c], InFlight(c)), pkgs[c])
               /\ After(After(netgroup[c], InFlight(c)), pkgs[c]) = ViewOf(groups'[g])
    <2>1. Follows(c, g)
      BY <1>2 DEF Follows
    <2>2. g \in 1 .. Len(groups)
      BY <2>1, FollowedGroup DEF VInv
    <2>3. /\ StartsWell(c, netgroup[c], InFlight(c))
          /\ After(netgroup[c], InFlight(c)) = ViewOf(groups'[g])
      BY <1>2, <2>1, <2>2 DEF VInv, ViewIsKept
    <2> PICK view : view = After(netgroup[c], InFlight(c))
      OBVIOUS
    <2>4. StartsWell(c, view, <<>>) /\ After(view, <<>>) = view
      BY NothingStarts
    <2> QED
      BY <2>3, <2>4
  <1> QED
    BY <1>1, <1>2, TellStep

\* A step that sends nothing, and after which nobody is open who was not, unless it
\* has not logged in.
LEMMA NothingSent ==
    ASSUME VInv, lanes' = lanes, netgroup' = netgroup, overtaken' = overtaken,
           joined' = joined, Len(groups') = Len(groups), NEW c \in Clients,
           Open(c)' => Open(c) \/ joined[c] = <<>>,
           conn'[c] \in {"off", "connected"} => conn[c] \in {"off", "connected"} \/ joined[c] = <<>>,
           \A g \in 1 .. Len(groups) : Follows(c, g) /\ Open(c)' => groups'[g] = groups[g]
    PROVE  LanesOf(c)' /\ ViewIsKept(c)'
  <1>1. LanesOf(c) /\ ViewIsKept(c) /\ InFlight(c)' = InFlight(c)
    BY DEF VInv, InFlight
  <1>2. LanesOf(c)'
    BY <1>1 DEF LanesOf
  <1>3. ASSUME NEW g \in 1 .. Len(groups), Follows(c, g)', c \notin overtaken
        PROVE  /\ StartsWell(c, netgroup[c], InFlight(c))
               /\ Open(c)' => After(netgroup[c], InFlight(c)) = ViewOf(groups'[g])
    <2>1. Follows(c, g)
      BY <1>3 DEF Follows
    <2>2. joined[c] # <<>>
      BY <2>1 DEF Follows, ToSet
    <2> QED
      BY <1>1, <1>3, <2>1, <2>2 DEF ViewIsKept
  <1>4. ViewIsKept(c)'
    BY <1>1, <1>3 DEF ViewIsKept
  <1> QED
    BY <1>2, <1>4

-----------------------------------------------------------------------------
(* Every step keeps the views                                               *)

\* A client handles the first package of a lane: the next of all that is on its way,
\* unless it is one by UDP that overtakes those by TCP.
LEMMA ReceiveViews ==
    ASSUME VInv, NEW c \in Clients, NEW t \in Transports, Receive(c, t)
    PROVE  \A d \in Clients : LanesOf(d)' /\ ViewIsKept(d)'
  <1> SUFFICES ASSUME NEW d \in Clients PROVE LanesOf(d)' /\ ViewIsKept(d)'
    OBVIOUS
  <1>1. /\ conn' = conn /\ groups' = groups /\ joined' = joined
        /\ lanes[c][t] # <<>>
        /\ netgroup' = [netgroup EXCEPT ![c] = Apply(netgroup[c], Head(lanes[c][t]))]
        /\ lanes' = [lanes EXCEPT ![c] = [lanes[c] EXCEPT ![t] = Tail(lanes[c][t])]]
        /\ overtaken \subseteq overtaken'
        /\ t = "udp" /\ lanes[c]["tcp"] # <<>> => c \in overtaken'
    BY DEF Receive, serverVars
  <1>2. /\ LanesOf(d) /\ ViewIsKept(d) /\ DOMAIN lanes = Clients /\ DOMAIN netgroup = Clients
        /\ Open(d)' = Open(d) /\ \A g : Follows(d, g)' <=> Follows(d, g)
    BY <1>1 DEF VInv, Open, Follows
  <1>3. CASE d # c
    <2>1. lanes'[d] = lanes[d] /\ netgroup'[d] = netgroup[d]
      BY <1>1, <1>2, <1>3
    <2>2. LanesOf(d)'
      BY <1>1, <1>2, <2>1 DEF LanesOf
    <2>3. ViewIsKept(d)'
      BY <1>1, <1>2, <2>1 DEF ViewIsKept, InFlight
    <2> QED
      BY <2>2, <2>3
  <1>4. CASE d = c
    <2> PICK tcp : tcp = lanes[c]["tcp"]
      OBVIOUS
    <2> PICK udp : udp = lanes[c]["udp"]
      OBVIOUS
    <2> PICK s : s = InFlight(c)
      OBVIOUS
    <2>1. /\ AnySeq(tcp) /\ AnySeq(udp) /\ DOMAIN lanes[c] = Transports /\ s = tcp \o udp
          /\ conn[c] \in {"off", "connected"} => udp = <<>>
          /\ joined[c] = <<>> => tcp = <<>> /\ udp = <<>>
      BY <1>2, <1>4 DEF LanesOf, InFlight
    <2>2. /\ netgroup'[c] = Apply(netgroup[c], Head(lanes[c][t]))
          /\ lanes'[c] = [lanes[c] EXCEPT ![t] = Tail(lanes[c][t])]
      BY <1>1, <1>2
    <2>3. t = "tcp" \/ t = "udp"
      BY DEF Transports
    <2>4. AnySeq(s)
      <3>1. \E S : tcp \o udp \in Seq(S)
        BY <2>1, BothAreSeqs
      <3> QED
        BY <2>1, <3>1 DEF AnySeq
    <2>5. ASSUME s # <<>>, netgroup'[c] = Apply(netgroup[c], Head(s)), InFlight(c)' = Tail(s)
          PROVE  ViewIsKept(c)'
      <3> SUFFICES ASSUME NEW g \in 1 .. Len(groups), Follows(c, g), c \notin overtaken
                   PROVE  /\ StartsWell(c, Apply(netgroup[c], Head(s)), Tail(s))
                          /\ Open(c) => After(Apply(netgroup[c], Head(s)), Tail(s)) =
                                            ViewOf(groups[g])
        BY <1>1, <1>2, <1>4, <2>5 DEF ViewIsKept
      <3>1. /\ StartsWell(c, netgroup[c], s)
            /\ Open(c) => After(netgroup[c], s) = ViewOf(groups[g])
        BY <1>2, <1>4 DEF ViewIsKept
      <3>2. PICK S : s \in Seq(S)
        BY <2>4 DEF AnySeq
      <3> PICK view : view = netgroup[c]
        OBVIOUS
      <3>3. /\ StartsWell(c, Apply(view, Head(s)), Tail(s))
            /\ After(Apply(view, Head(s)), Tail(s)) = After(view, s)
        <4>1. StartsWell(c, view, s)
          BY <3>1
        <4> QED
          BY <2>5, <3>2, <4>1, RestStarts
      <3> QED
        BY <3>1, <3>3
    <2>6. CASE t = "tcp"
      <3>1. /\ tcp # <<>> /\ netgroup'[c] = Apply(netgroup[c], Head(tcp))
            /\ DOMAIN lanes'[c] = Transports
            /\ lanes'[c]["tcp"] = Tail(tcp) /\ lanes'[c]["udp"] = udp
        BY <1>1, <2>1, <2>2, <2>6 DEF Transports
      <3>2. /\ s # <<>> /\ Head(s) = Head(tcp) /\ Tail(s) = Tail(tcp) \o udp
            /\ AnySeq(Tail(tcp))
        BY ZenonT(60), <2>1, <3>1, TailOfBoth
      <3>3. LanesOf(c)'
        BY <1>1, <2>1, <3>1, <3>2 DEF LanesOf
      <3>4. InFlight(c)' = Tail(s)
        BY <3>1, <3>2 DEF InFlight
      <3> QED
        BY <1>4, <2>5, <3>1, <3>2, <3>3, <3>4
    <2>7. CASE t = "udp"
      <3>1. /\ udp # <<>> /\ netgroup'[c] = Apply(netgroup[c], Head(udp))
            /\ DOMAIN lanes'[c] = Transports
            /\ lanes'[c]["tcp"] = tcp /\ lanes'[c]["udp"] = Tail(udp)
        BY <1>1, <2>1, <2>2, <2>7 DEF Transports
      <3>2. AnySeq(Tail(udp)) /\ <<>> \o udp = udp /\ <<>> \o Tail(udp) = Tail(udp)
        <4>1. AnySeq(Tail(udp))
          BY <2>1, <3>1, TailOfBoth
        <4> QED
          BY <2>1, <4>1, NothingAround
      <3>3. LanesOf(c)'
        BY <1>1, <2>1, <3>1, <3>2 DEF LanesOf
      <3>4. CASE tcp = <<>>
        <4>1. s = udp /\ InFlight(c)' = Tail(udp)
          BY <2>1, <3>1, <3>2, <3>4 DEF InFlight
        <4> QED
          BY <1>4, <2>5, <3>1, <3>3, <4>1
      <3>5. CASE tcp # <<>>
        BY <1>1, <1>4, <2>7, <3>3, <3>5 DEF ViewIsKept
      <3> QED
        BY <3>4, <3>5
    <2> QED
      BY <2>3, <2>6, <2>7
  <1> QED
    BY <1>3, <1>4

\* The players of a group that are open are those that logged in to it.
LEMMA OpenPlayers ==
    ASSUME IInv, NEW g \in 1 .. Len(groups), NEW d \in Clients, Open(d)
    PROVE  d \in DOMAIN groups[g].players <=> g \in ToSet(joined[d])
  <1> PICK S : S = 1 .. Len(groups)
    OBVIOUS
  <1>1. Records(groups[g], RegisteredIn(g), OpenClients)
    BY DEF IInv, GroupsRecord
  <1>2. RegisteredIn(g)[d] = Occurrences(joined[d], g) /\ d \in OpenClients
    BY DEF RegisteredIn, Registered, OpenClients
  <1>3. joined[d] \in Seq(S)
    BY DEF IInv, Typed
  <1>4. Occurrences(joined[d], g) > 0 <=> g \in ToSet(joined[d])
    BY <1>3, OccursPositive
  <1> QED
    BY <1>1, <1>2, <1>4 DEF Records

\* If every registration is of an open client, the vector of a group lists its players.
LEMMA ListsPlayers ==
    ASSUME NEW gr \in GroupType, NEW R, NEW O, Records(gr, R, O),
           \A d \in Clients : R[d] > 0 => d \in O
    PROVE  ToSet(gr.sorted_members_ids) = DOMAIN gr.players
  <1> PICK ids : ids = gr.sorted_members_ids
    OBVIOUS
  <1>1. ids \in Seq(Clients) /\ DOMAIN gr.players \subseteq Clients
    BY PlayersDomain DEF GroupType
  <1>2. /\ \A d \in Clients : Occurrences(ids, d) = R[d]
        /\ \A d \in DOMAIN gr.players : R[d] > 0
        /\ \A d \in O : R[d] > 0 => d \in DOMAIN gr.players
    BY DEF Records
  <1>3. \A d : Occurrences(ids, d) > 0 <=> d \in ToSet(ids)
    BY <1>1, OccursPositive
  <1>4. ToSet(ids) \subseteq Clients
    BY <1>1, LenProperties, ElementOfSeq DEF ToSet
  <1> QED
    BY <1>1, <1>2, <1>3, <1>4

\* A broadcast of what happened to the record of a group.
LEMMA BroadcastViews ==
    ASSUME VInv, NEW g \in 1 .. Len(groups), NEW gr, NEW gr2, NEW pkgs, NEW c,
           Broadcast(gr, pkgs), AnySeq(pkgs), conn' = conn, joined' = joined,
           netgroup' = netgroup, overtaken' = overtaken,
           \A d \in Clients : Open(d) => (d \in DOMAIN gr.players <=> g \in ToSet(joined[d])),
           groups' = [groups EXCEPT ![g] = gr2],
           \A d \in DOMAIN gr.players :
               /\ StartsWell(d, ViewOf(groups[g]), pkgs)
               /\ After(ViewOf(groups[g]), pkgs) = ViewOf(gr2)
    PROVE  \A d \in Clients : LanesOf(d)' /\ ViewIsKept(d)'
  <1> SUFFICES ASSUME NEW d \in Clients PROVE LanesOf(d)' /\ ViewIsKept(d)'
    OBVIOUS
  <1> DEFINE all == [e \in Clients |-> IF e \in DOMAIN gr.players THEN pkgs ELSE <<>>]
  <1>1. Send(all) /\ all[d] = IF d \in DOMAIN gr.players THEN pkgs ELSE <<>>
    BY DEF Broadcast
  <1> HIDE DEF all
  <1>2. /\ groups'[g] = gr2
        /\ \A h \in 1 .. Len(groups) : h # g => groups'[h] = groups[h]
    BY LenProperties DEF VInv, IInv, Typed
  <1>3. ViewIsKept(d)
    BY DEF VInv
  <1>4. ASSUME NEW h, Follows(d, h), Open(d)
        PROVE  d \in DOMAIN gr.players <=> h = g
    BY <1>4 DEF Follows
  <1>5. CASE d \in DOMAIN gr.players
    <2>1. AnySeq(all[d])
      BY <1>1, <1>5
    <2>2. joined'[d] = <<>> => joined[d] = <<>> /\ (Open(d) => all[d] = <<>>)
      <3>1. joined[d] = <<>> => ~Open(d)
        BY <1>5 DEF ToSet
      <3> QED
        BY <3>1
    <2>3. ASSUME NEW h, Follows(d, h)', Open(d), d \notin overtaken
          PROVE  /\ StartsWell(d, netgroup[d], InFlight(d))
                 /\ StartsWell(d, After(netgroup[d], InFlight(d)), all[d])
                 /\ After(After(netgroup[d], InFlight(d)), all[d]) = ViewOf(groups'[h])
      <3>1. Follows(d, h) /\ h = g
        BY <1>4, <1>5, <2>3 DEF Follows
      <3>2. /\ StartsWell(d, netgroup[d], InFlight(d))
            /\ After(netgroup[d], InFlight(d)) = ViewOf(groups[g])
        BY <1>3, <2>3, <3>1 DEF ViewIsKept
      <3> QED
        BY <1>1, <1>2, <1>5, <3>1, <3>2
    <2> QED
      BY <1>1, <2>1, <2>2, <2>3, TellStep
  <1>6. CASE d \notin DOMAIN gr.players
    <2>1. \A h \in 1 .. Len(groups) : Follows(d, h) /\ Open(d) => groups'[h] = groups[h]
      BY <1>2, <1>4, <1>6
    <2>2. all[d] = <<>> /\ joined'[d] = joined[d]
      BY <1>1, <1>6
    <2> QED
      BY <1>1, <2>1, <2>2, NotTold
  <1> QED
    BY <1>5, <1>6

\* The listener of group/set_ready_state.
LEMMA ReadyViews ==
    ASSUME VInv, RunListener, dispatch.event = "group/set_ready_state"
    PROVE  \A d \in Clients : LanesOf(d)' /\ ViewIsKept(d)'
  <1> PICK g : g = Head(dispatch.groups)
    OBVIOUS
  <1> PICK c : c = dispatch.client
    OBVIOUS
  <1>1. /\ IInv /\ c \in Clients /\ g \in 1 .. Len(groups) /\ g \in ToSet(joined[c])
        /\ dispatch.state \in BOOLEAN /\ Open(c)
        /\ conn' = conn /\ joined' = joined /\ overtaken' = overtaken /\ netgroup' = netgroup
    <2>1. IInv
      BY DEF VInv
    <2> QED
      BY <2>1, RunningListener DEF RunListener
  <1> PICK state \in BOOLEAN : state = dispatch.state
    BY <1>1
  <1> PICK gr : gr = groups[g]
    OBVIOUS
  <1>2. gr \in GroupType /\ Records(gr, RegisteredIn(g), OpenClients)
    <2>1. groups \in Seq(GroupType)
      BY <1>1 DEF IInv, Typed
    <2> QED
      BY <1>1, <2>1, ElementOfSeq DEF IInv, GroupsRecord
  <1>3. c \in DOMAIN gr.players
    BY <1>1, OpenPlayers
  <1>4. ToSet(gr.sorted_members_ids) = DOMAIN gr.players
    <2>1. \A d \in Clients : Pending(d, g) = 0
      BY DEF Pending
    <2>2. \A d \in Clients : RegisteredIn(g)[d] > 0 => d \in OpenClients
      BY <2>1 DEF RegisteredIn, Registered, OpenClients
    <2> QED
      BY <1>2, <2>2, ListsPlayers
  <1>5. IsFiniteSet(DOMAIN gr.players) /\ Cardinality(DOMAIN gr.players) <= MaxPlayers
    BY <1>2 DEF Records
  <1> DEFINE gr2 == [gr EXCEPT !.players[c] = state]
             update == <<MemberUpdate(Member(c, state))>>
             pkgs(order) == IF StartsGame(gr, gr2)
                            THEN update \o NewGameUpdates(gr2, order)
                                        \o <<GameStart(gr2.sorted_members_ids)>>
                            ELSE update
             gr3 == IF StartsGame(gr, gr2) THEN Unready(gr2) ELSE gr2
  <1>6. DOMAIN gr2.players = DOMAIN gr.players
    BY <1>2, PlayersDomain DEF GroupType
  <1>7. \E order \in Orders(gr2.players) :
           groups' = [groups EXCEPT ![g] = gr3] /\ Broadcast(gr2, pkgs(order))
    <2>1. ReadyListener(g, c, state)
      BY DEF RunListener
    <2>2. CASE StartsGame(gr, gr2)
      BY <2>1, <2>2, Zenon DEF ReadyListener
    <2>3. CASE ~StartsGame(gr, gr2)
      <3>1. groups' = [groups EXCEPT ![g] = gr3] /\ Broadcast(gr2, update)
        BY <2>1, <2>3, Zenon DEF ReadyListener
      <3>2. \E order : order \in Orders(gr2.players)
        <4> PICK M : M = DOMAIN gr.players
          OBVIOUS
        <4>1. ExistsBijection(1 .. Cardinality(M), M)
          BY <1>5, FS_CardinalityType
        <4>2. PICK f : f \in Bijection(1 .. Cardinality(M), M)
          BY <4>1 DEF ExistsBijection
        <4>3. f \in SetToSeqs(M)
          BY <4>2 DEF SetToSeqs, Bijection, Injection, IsInjective
        <4> QED
          BY <1>6, <4>3 DEF Orders
      <3> QED
        BY <2>3, <3>1, <3>2
    <2> QED
      BY <2>2, <2>3
  <1>8. PICK order \in Orders(gr2.players) :
           groups' = [groups EXCEPT ![g] = gr3] /\ Broadcast(gr2, pkgs(order))
    BY <1>7
  <1>9. ASSUME NEW d \in DOMAIN gr.players
        PROVE  /\ AnySeq(pkgs(order)) /\ StartsWell(d, ViewOf(gr), pkgs(order))
               /\ After(ViewOf(gr), pkgs(order)) = ViewOf(gr3)
    <2>1. order \in Orders([gr EXCEPT !.players[c] = state].players)
      OBVIOUS
    <2> HIDE DEF gr2, gr3, pkgs
    <2>2. ReadyIsTold(gr, c, state, d, order)
      BY <1>2, <1>3, <1>4, <1>5, <2>1, SetReadyApplies
    <2> QED
      BY <2>2, Zenon DEF ReadyIsTold, AnySeq, pkgs, gr2, gr3
  <1> HIDE DEF gr2, gr3, pkgs
  <1>10. AnySeq(pkgs(order))
    BY <1>3, <1>9
  <1>11. \A d \in Clients : Open(d) => (d \in DOMAIN gr2.players <=> g \in ToSet(joined[d]))
    BY <1>1, <1>6, OpenPlayers
  <1>12. \A d \in DOMAIN gr2.players :
            /\ StartsWell(d, ViewOf(groups[g]), pkgs(order))
            /\ After(ViewOf(groups[g]), pkgs(order)) = ViewOf(gr3)
    BY <1>6, <1>9
  <1> QED
    BY <1>1, <1>8, <1>10, <1>11, <1>12, BroadcastViews

\* drop_member: those who stay are told who left and who owns the group.
LEMMA DropViews ==
    ASSUME VInv, RunListener, dispatch.event = "net/disconnect"
    PROVE  \A d \in Clients : LanesOf(d)' /\ ViewIsKept(d)'
  <1> PICK g : g = Head(dispatch.groups)
    OBVIOUS
  <1> PICK c : c = dispatch.client
    OBVIOUS
  <1>1. /\ IInv /\ c \in Clients /\ g \in 1 .. Len(groups) /\ ~Open(c)
        /\ conn' = conn /\ joined' = joined /\ overtaken' = overtaken /\ netgroup' = netgroup
    <2>1. IInv
      BY DEF VInv
    <2> QED
      BY <2>1, RunningListener DEF RunListener
  <1> PICK gr : gr = groups[g]
    OBVIOUS
  <1>2. gr \in GroupType /\ groups \in Seq(GroupType)
    BY <1>1, ElementOfSeq DEF IInv, Typed
  <1> DEFINE rest == [d \in DOMAIN gr.players \ {c} |-> gr.players[d]]
             ids == Without(gr.sorted_members_ids, c)
             gr2 == [gr EXCEPT
                        !.players = [d \in DOMAIN @ \ {c} |-> @[d]],
                        !.sorted_members_ids = Without(@, c)]
             Left(owner) == [owner_id |-> owner, players |-> rest, sorted_members_ids |-> ids]
  <1>3. \/ /\ DOMAIN gr2.players = {}
           /\ groups' = [groups EXCEPT ![g] = gr2] /\ lanes' = lanes
        \/ \E owner \in DOMAIN gr2.players :
              /\ groups' = [groups EXCEPT ![g] = [gr2 EXCEPT !.owner_id = owner]]
              /\ Broadcast(gr2, <<MemberLeave(c, owner)>>)
    <2>1. DropMember(g, c)
      BY DEF RunListener
    <2> QED
      BY <2>1, Zenon DEF DropMember
  <1>4. gr2 = Left(gr.owner_id)
    <2>1. gr2 = [gr EXCEPT !.players = rest, !.sorted_members_ids = ids]
      BY <1>2 DEF GroupType
    <2> HIDE DEF gr2, rest, ids
    <2> QED
      BY <1>2, <2>1 DEF GroupType
  <1>5. DOMAIN rest = DOMAIN gr.players \ {c}
    OBVIOUS
  <1> HIDE DEF gr2, rest, ids
  <1>6. gr2.players = rest /\ \A owner : [gr2 EXCEPT !.owner_id = owner] = Left(owner)
    BY <1>4
  <1> HIDE DEF Left
  <1>7. \A d \in Clients : Open(d) => (d \in DOMAIN gr2.players <=> g \in ToSet(joined[d]))
    <2>1. \A d \in Clients : Open(d) => (d \in DOMAIN gr.players <=> g \in ToSet(joined[d]))
      BY <1>1, OpenPlayers
    <2> QED
      BY <1>1, <1>5, <1>6, <2>1
  <1>8. CASE DOMAIN gr2.players = {} /\ groups' = [groups EXCEPT ![g] = gr2] /\ lanes' = lanes
    <2> SUFFICES ASSUME NEW d \in Clients PROVE LanesOf(d)' /\ ViewIsKept(d)'
      OBVIOUS
    <2>1. Len(groups') = Len(groups)
      BY <1>2, <1>8, LenProperties
    <2>2. \A h \in 1 .. Len(groups) : h # g => groups'[h] = groups[h]
      BY <1>2, <1>8, LenProperties
    <2>3. Open(d)' <=> Open(d)
      BY <1>1 DEF Open
    <2>4. \A h \in 1 .. Len(groups) : Follows(d, h) /\ Open(d)' => groups'[h] = groups[h]
      BY <1>7, <1>8, <2>2, <2>3 DEF Follows
    <2> QED
      BY <1>1, <1>8, <2>1, <2>3, <2>4, NothingSent
  <1>9. CASE \E owner \in DOMAIN gr2.players :
               /\ groups' = [groups EXCEPT ![g] = [gr2 EXCEPT !.owner_id = owner]]
               /\ Broadcast(gr2, <<MemberLeave(c, owner)>>)
    <2>1. PICK owner \in DOMAIN gr2.players :
               /\ groups' = [groups EXCEPT ![g] = Left(owner)]
               /\ Broadcast(gr2, <<MemberLeave(c, owner)>>)
      BY <1>6, <1>9
    <2> DEFINE pkgs == <<MemberLeave(c, owner)>>
    <2>2. AnySeq(pkgs)
      <3>1. pkgs \in Seq({MemberLeave(c, owner)})
        OBVIOUS
      <3> QED
        BY <3>1 DEF AnySeq
    <2>3. Apply(ViewOf(gr), MemberLeave(c, owner)) = ViewOf(Left(owner))
      BY ZenonT(60), <1>2, LeaveApplies DEF Left, rest, ids
    <2>4. MemberLeave(c, owner).type # "group/game_start"
      BY DEF MemberLeave
    <2>5. \A d \in DOMAIN gr2.players :
              /\ StartsWell(d, ViewOf(groups[g]), pkgs)
              /\ After(ViewOf(groups[g]), pkgs) = ViewOf(Left(owner))
      BY <2>3, <2>4, OneStarts
    <2>6. Broadcast(gr2, pkgs)
      BY <2>1
    <2> HIDE DEF pkgs
    <2> QED
      BY <1>1, <1>7, <2>1, <2>2, <2>5, <2>6, BroadcastViews
  <1> QED
    BY <1>3, <1>8, <1>9

LEMMA AppendedSet ==
    ASSUME NEW S, NEW s \in Seq(S), NEW y \in S
    PROVE  ToSet(Append(s, y)) = ToSet(s) \cup {y} /\ Append(s, y) # <<>>
  <1> PICK more : more = Append(s, y)
    OBVIOUS
  <1>1. more \in Seq(S) /\ more # <<>>
    BY AppendProperties
  <1>2. \A x : Occurrences(more, x) = Occurrences(s, x) + IF x = y THEN 1 ELSE 0
    BY OccursAfterAppend
  <1>3. /\ \A x : Occurrences(s, x) \in Nat /\ (Occurrences(s, x) > 0 <=> x \in ToSet(s))
        /\ \A x : Occurrences(more, x) > 0 <=> x \in ToSet(more)
    BY <1>1, OccursPositive
  <1>4. \A x : x \in ToSet(more) <=> x \in ToSet(s) \/ x = y
    BY <1>2, <1>3
  <1> QED
    BY <1>1, <1>4

\* The new member is sent the group, after the news of itself if it was a member.
IsJoinOf(pkgs, d, gr) ==
    \E s : (s = <<>> \/ s = <<MemberJoin(d)>>) /\ pkgs = s \o <<GroupsJoin(gr)>>

LEMMA JoinIsTold ==
    ASSUME NEW c, NEW d, NEW view, NEW gr \in GroupType,
           ToSet(gr.sorted_members_ids) = DOMAIN gr.players,
           NEW pkgs, IsJoinOf(pkgs, d, gr)
    PROVE  AnySeq(pkgs) /\ StartsWell(c, view, pkgs) /\ After(view, pkgs) = ViewOf(gr)
  <1> PICK s : (s = <<>> \/ s = <<MemberJoin(d)>>) /\ pkgs = s \o <<GroupsJoin(gr)>>
    BY DEF IsJoinOf
  <1> DEFINE t == <<GroupsJoin(gr)>>
             S == {MemberJoin(d), GroupsJoin(gr)}
  <1>1. s \in Seq(S) /\ t \in Seq(S)
    <2> PICK j : j = MemberJoin(d)
      OBVIOUS
    <2> PICK q : q = GroupsJoin(gr)
      OBVIOUS
    <2> PICK U : U = {j, q}
      OBVIOUS
    <2>1. <<>> \in Seq(U) /\ <<j>> \in Seq(U) /\ <<q>> \in Seq(U)
      OBVIOUS
    <2>2. s \in Seq(U)
      BY Zenon, <2>1
    <2> QED
      BY Zenon, <2>1, <2>2
  <1>2. MemberJoin(d).type # "group/game_start" /\ GroupsJoin(gr).type # "group/game_start"
    BY DEF MemberJoin, GroupsJoin
  <1>3. StartsWell(c, view, s)
    BY <1>2, NothingStarts, OneStarts
  <1> PICK mid : mid = After(view, s)
    OBVIOUS
  <1>4. StartsWell(c, mid, t) /\ After(mid, t) = ViewOf(gr)
    <2>1. Apply(mid, GroupsJoin(gr)) = ViewOf(gr)
      BY GroupsJoinApplies
    <2> QED
      BY <1>2, <2>1, OneStarts
  <1> HIDE DEF S, t
  <1>5. StartsWell(c, view, s \o t) /\ After(view, s \o t) = After(mid, t)
    BY <1>1, <1>3, <1>4, BothStart
  <1>6. s \o t \in Seq(S)
    BY <1>1, ConcatProperties
  <1>7. pkgs = s \o t
    BY DEF t
  <1> QED
    BY <1>4, <1>5, <1>6, <1>7 DEF AnySeq

\* client/login: the new member is sent the group, the others the new member.
LEMMA LoginViews ==
    ASSUME VInv, NEW c \in Clients, Login(c), dispatch = Idle
    PROVE  \A d \in Clients : LanesOf(d)' /\ ViewIsKept(d)'
  <1> DEFINE free == {g \in DOMAIN groups : ~IsFull(groups[g])}
             new == Len(groups) + 1
             Old(g) == IF g = new THEN EmptyGroup ELSE groups[g]
             Told(g) == [d \in Clients |->
                            (IF d \in DOMAIN Old(g).players THEN <<MemberJoin(c)>> ELSE <<>>)
                            \o (IF d = c THEN <<GroupsJoin(AddClient(Old(g), c))>> ELSE <<>>)]
  <1>1. /\ IInv /\ groups \in Seq(GroupType) /\ Len(groups) \in Nat
        /\ DOMAIN groups = 1 .. Len(groups)
        /\ joined \in [Clients -> Seq(1 .. Len(groups))]
        /\ Open(c) /\ conn' = conn /\ netgroup' = netgroup /\ overtaken' = overtaken
        /\ dispatch' = Idle
    BY LenProperties DEF VInv, IInv, Typed, Login
  <1>2. PICK g \in IF free = {} THEN {new} ELSE free :
           /\ groups' = [h \in DOMAIN groups \cup {g} |->
                            IF h = g THEN AddClient(Old(g), c) ELSE groups[h]]
           /\ joined' = [joined EXCEPT ![c] = Append(joined[c], g)]
           /\ Send(Told(g))
    BY Zenon DEF Login
  <1>3. g = new \/ (g \in 1 .. Len(groups) /\ g # new)
    BY <1>1, <1>2
  <1> HIDE DEF free
  <1> PICK gr : gr = Old(g)
    OBVIOUS
  <1> PICK gr2 : gr2 = AddClient(gr, c)
    OBVIOUS
  <1> DEFINE pkgs == Told(g)
  <1>4. \A d \in Clients : Open(d)' <=> Open(d)
    BY <1>1 DEF Open
  <1>5. groups'[g] = gr2 /\ \A h \in 1 .. Len(groups) : h # g => groups'[h] = groups[h]
    <2> HIDE DEF Old
    <2> QED
      BY <1>1, <1>2
  <1>6. gr2 \in GroupType /\ ToSet(gr2.sorted_members_ids) = DOMAIN gr2.players
    <2>1. IInv'
      BY LoginStep DEF VInv
    <2>2. groups' \in Seq(GroupType) /\ joined' \in [Clients -> Seq(1 .. Len(groups'))]
      BY <2>1 DEF IInv, Typed
    <2>3. g \in 1 .. Len(groups')
      <3> PICK T : T = 1 .. Len(groups')
        OBVIOUS
      <3>1. joined'[c] = Append(joined[c], g) /\ joined'[c] \in Seq(T)
        BY <1>1, <1>2, <2>2
      <3> PICK s : s = joined[c]
        OBVIOUS
      <3>2. s \in Seq(1 .. Len(groups)) /\ Append(s, g) \in Seq(T)
        BY <1>1, <3>1
      <3>3. Len(s) \in Nat /\ Len(Append(s, g)) = Len(s) + 1 /\ Append(s, g)[Len(s) + 1] = g
        BY <3>2
      <3>4. Len(s) + 1 \in 1 .. Len(Append(s, g))
        BY <3>3
      <3> PICK more : more = Append(s, g)
        OBVIOUS
      <3>5. more[Len(s) + 1] \in T
        BY <3>2, <3>4, ElementOfSeq
      <3> QED
        BY <3>3, <3>5
    <2>4. gr2 \in GroupType /\ Records(gr2, RegisteredIn(g)', OpenClients')
      BY <1>5, <2>1, <2>2, <2>3, ElementOfSeq DEF IInv, GroupsRecord
    <2>5. \A d \in Clients : RegisteredIn(g)'[d] > 0 => d \in OpenClients'
      <3>1. \A d \in Clients : Pending(d, g)' = 0
        BY <1>1, IdleType DEF Pending
      <3> QED
        BY <3>1 DEF RegisteredIn, Registered, OpenClients
    <2> QED
      BY <2>4, <2>5, ListsPlayers
  <1>7. \/ g = new /\ DOMAIN gr.players = {}
        \/ g \in 1 .. Len(groups) /\ gr = groups[g] /\ gr \in GroupType
    <2>1. CASE g = new
      BY <2>1 DEF EmptyGroup
    <2>2. CASE g # new
      <3>1. g \in 1 .. Len(groups) /\ gr = groups[g]
        BY <1>3, <2>2
      <3> QED
        BY <1>1, <3>1, ElementOfSeq
    <2> QED
      BY <2>1, <2>2
  <1>8. \A d \in Clients : Open(d) /\ d \in DOMAIN gr.players =>
            /\ g \in 1 .. Len(groups) /\ gr = groups[g] /\ gr \in GroupType
            /\ g \in ToSet(joined[d])
    BY <1>1, <1>7, OpenPlayers
  <1>9. \A d \in Clients : Open(d) /\ d \notin DOMAIN gr.players /\ g \in 1 .. Len(groups) =>
            g \notin ToSet(joined[d])
    <2>1. g \in 1 .. Len(groups) => gr = groups[g]
      BY <1>1
    <2> QED
      BY <1>1, <2>1, OpenPlayers
  <1>10. ASSUME NEW d \in Clients
         PROVE  pkgs[d] = (IF d \in DOMAIN gr.players THEN <<MemberJoin(c)>> ELSE <<>>)
                          \o (IF d = c THEN <<GroupsJoin(gr2)>> ELSE <<>>)
    BY Zenon
  <1>11. Send(pkgs)
    BY <1>2
  <1>12. /\ joined'[c] = Append(joined[c], g)
         /\ \A d \in Clients : d # c => joined'[d] = joined[d]
    BY <1>1, <1>2
  <1> HIDE DEF pkgs, Old, Told
  <1> SUFFICES ASSUME NEW d \in Clients PROVE LanesOf(d)' /\ ViewIsKept(d)'
    OBVIOUS
  <1>13. LanesOf(d) /\ ViewIsKept(d)
    BY DEF VInv
  <1>14. CASE d = c
    <2> PICK s : s = IF c \in DOMAIN gr.players THEN <<MemberJoin(c)>> ELSE <<>>
      OBVIOUS
    <2> PICK told : told = pkgs[c]
      OBVIOUS
    <2>1. IsJoinOf(told, c, gr2)
      <3>1. told = s \o <<GroupsJoin(gr2)>> /\ (s = <<>> \/ s = <<MemberJoin(c)>>)
        BY <1>10
      <3> QED
        BY <3>1 DEF IsJoinOf
    <2>2. /\ ToSet(joined'[c]) = ToSet(joined[c]) \cup {g} /\ joined'[c] # <<>>
      <3> PICK T : T = 1 .. Len(groups) \cup {g}
        OBVIOUS
      <3> PICK U : U = 1 .. Len(groups)
        OBVIOUS
      <3> PICK old : old = joined[c]
        OBVIOUS
      <3>1. old \in Seq(U) /\ U \subseteq T /\ g \in T
        BY <1>1
      <3>2. old \in Seq(T)
        <4>1. \A A, B : A \subseteq B => Seq(A) \subseteq Seq(B)
          OBVIOUS
        <4>2. U \subseteq T /\ old \in Seq(U)
          BY Zenon, <3>1
        <4> QED
          BY ZenonT(60), <4>1, <4>2
      <3>3. joined[c] \in Seq(T) /\ g \in T
        BY Zenon, <3>1, <3>2
      <3> QED
        BY <1>12, <3>3, AppendedSet
    <2>3. ASSUME NEW h, Follows(c, h)', c \notin overtaken
          PROVE  h = g /\ StartsWell(c, netgroup[c], InFlight(c))
      <3>1. h = g /\ ToSet(joined[c]) \subseteq {g}
        BY <2>2, <2>3 DEF Follows
      <3>2. CASE joined[c] = <<>>
        <4>1. InFlight(c) = <<>>
          BY <1>13, <1>14, <3>2 DEF LanesOf, InFlight
        <4> QED
          BY <3>1, <4>1, NothingStarts
      <3>3. CASE joined[c] # <<>>
        <4> PICK T : T = 1 .. Len(groups)
          OBVIOUS
        <4>1. Head(joined[c]) \in ToSet(joined[c])
          <5>1. joined[c] \in Seq(T)
            BY <1>1
          <5> QED
            BY <3>3, <5>1, HeadAndTail
        <4>2. Follows(c, g)
          BY <3>1, <4>1 DEF Follows
        <4>3. g \in 1 .. Len(groups)
          BY <1>1, <4>2, FollowedGroup
        <4> QED
          BY <1>13, <1>14, <2>3, <3>1, <4>2, <4>3 DEF ViewIsKept
      <3> QED
        BY <3>2, <3>3
    <2> PICK view : view = After(netgroup[c], InFlight(c))
      OBVIOUS
    <2>4. AnySeq(told) /\ StartsWell(c, view, told) /\ After(view, told) = ViewOf(gr2)
      BY <1>6, <2>1, JoinIsTold
    <2>5. \A h : Follows(c, h)' /\ Open(c) /\ c \notin overtaken =>
             /\ StartsWell(c, netgroup[c], InFlight(c))
             /\ StartsWell(c, After(netgroup[c], InFlight(c)), pkgs[c])
             /\ After(After(netgroup[c], InFlight(c)), pkgs[c]) = ViewOf(groups'[h])
      BY <1>5, <2>3, <2>4
    <2>6. AnySeq(pkgs[c])
      BY <2>4
    <2> QED
      BY <1>1, <1>11, <1>14, <2>2, <2>5, <2>6, TellStep
  <1>15. CASE d # c /\ d \in DOMAIN gr.players
    <2> PICK join : join = MemberJoin(c)
      OBVIOUS
    <2>1. pkgs[d] = <<join>> /\ AnySeq(<<join>>)
      <3>1. <<join>> \in Seq({join}) /\ <<join>> \o <<>> = <<join>>
        OBVIOUS
      <3> QED
        BY <1>10, <1>15, <3>1 DEF AnySeq
    <2>2. ASSUME NEW h, Follows(d, h)', Open(d), d \notin overtaken
          PROVE  /\ StartsWell(d, netgroup[d], InFlight(d))
                 /\ StartsWell(d, After(netgroup[d], InFlight(d)), pkgs[d])
                 /\ After(After(netgroup[d], InFlight(d)), pkgs[d]) = ViewOf(groups'[h])
      <3>1. Follows(d, h)
        BY <1>12, <1>15, <2>2 DEF Follows
      <3>2. h = g /\ g \in 1 .. Len(groups) /\ gr = groups[g] /\ gr \in GroupType
        BY <1>8, <1>15, <2>2, <3>1 DEF Follows
      <3>3. /\ StartsWell(d, netgroup[d], InFlight(d))
            /\ After(netgroup[d], InFlight(d)) = ViewOf(gr)
        BY <1>13, <2>2, <3>1, <3>2 DEF ViewIsKept
      <3>4. Apply(ViewOf(gr), join) = ViewOf(gr2)
        BY <3>2, JoinApplies
      <3>5. join.type # "group/game_start"
        BY DEF MemberJoin
      <3> PICK view : view = ViewOf(gr)
        OBVIOUS
      <3>6. StartsWell(d, view, <<join>>) /\ After(view, <<join>>) = ViewOf(gr2)
        BY <3>4, <3>5, OneStarts
      <3> QED
        BY <1>5, <2>1, <3>2, <3>3, <3>6
    <2>3. joined'[d] = joined[d]
      BY <1>12, <1>15
    <2>4. joined'[d] = <<>> => joined[d] = <<>> /\ (Open(d) => pkgs[d] = <<>>)
      <3>1. joined[d] = <<>> => ~Open(d)
        BY <1>8, <1>15 DEF ToSet
      <3> QED
        BY <2>3, <3>1
    <2>5. AnySeq(pkgs[d])
      BY <2>1
    <2> QED
      BY <1>1, <1>11, <2>2, <2>3, <2>4, <2>5, TellStep
  <1>16. CASE d # c /\ d \notin DOMAIN gr.players
    <2>1. pkgs[d] = <<>>
      <3>1. <<>> \o <<>> = <<>>
        OBVIOUS
      <3> QED
        BY <1>10, <1>16, <3>1
    <2>2. \A h \in 1 .. Len(groups) : Follows(d, h) /\ Open(d) => groups'[h] = groups[h]
      BY <1>5, <1>9, <1>16 DEF Follows
    <2>3. joined'[d] = joined[d]
      BY <1>12, <1>16
    <2> QED
      BY <1>1, <1>11, <2>1, <2>2, <2>3, NotTold
  <1> QED
    BY <1>14, <1>15, <1>16

\* The steps that send nothing.
LEMMA QuietViews ==
    ASSUME VInv,
           \/ \E c \in Clients : Connect(c) \/ HandshakeDone(c)
           \/ \E c \in Clients : \E state \in BOOLEAN : SetReadyState(c, state)
           \/ \E c \in Clients : Disconnect(c) \/ CloseAgain(c)
           \/ UNCHANGED vars
    PROVE  \A d \in Clients : LanesOf(d)' /\ ViewIsKept(d)'
  <1> SUFFICES ASSUME NEW d \in Clients PROVE LanesOf(d)' /\ ViewIsKept(d)'
    OBVIOUS
  <1>1. /\ lanes' = lanes /\ netgroup' = netgroup /\ overtaken' = overtaken
        /\ joined' = joined /\ groups' = groups
    BY DEF Connect, HandshakeDone, SetReadyState, Disconnect, CloseAgain, vars, serverVars
  <1>2. \/ conn'[d] = conn[d]
        \/ conn[d] = "off" /\ conn'[d] = "connected"
        \/ conn[d] = "connected" /\ conn'[d] = "full"
        \/ conn'[d] = "closed"
    <2>1. conn \in [Clients -> {"off", "connected", "full", "closed"}]
      BY DEF VInv, IInv, Typed
    <2> QED
      BY <2>1 DEF Connect, HandshakeDone, SetReadyState, Disconnect, CloseAgain, vars, serverVars
  <1>3. conn[d] = "off" => joined[d] = <<>>
    BY DEF VInv, IInv, Connections
  <1>4. /\ Open(d)' => Open(d) \/ joined[d] = <<>>
        /\ conn'[d] \in {"off", "connected"} =>
              conn[d] \in {"off", "connected"} \/ joined[d] = <<>>
    BY <1>2, <1>3 DEF Open
  <1> QED
    BY <1>1, <1>4, NothingSent

LEMMA LanesStay == VInv /\ [Next]_vars => DOMAIN lanes' = Clients /\ DOMAIN netgroup' = Clients
  <1> SUFFICES ASSUME VInv, [Next]_vars PROVE DOMAIN lanes' = Clients /\ DOMAIN netgroup' = Clients
    OBVIOUS
  <1>1. DOMAIN lanes = Clients /\ DOMAIN netgroup = Clients
    BY DEF VInv
  <1>2. ASSUME NEW pkgs, Send(pkgs) PROVE DOMAIN lanes' = Clients
    BY <1>2 DEF Send
  <1>3. CASE RunListener
    <2>1. netgroup' = netgroup
      BY <1>3 DEF RunListener
    <2>2. ASSUME NEW g, NEW c, NEW state, ReadyListener(g, c, state)
          PROVE  \E pkgs : Send(pkgs)
      BY <2>2 DEF ReadyListener, Broadcast
    <2>3. ASSUME NEW g, NEW c, DropMember(g, c)
          PROVE  lanes' = lanes \/ \E pkgs : Send(pkgs)
      BY <2>3 DEF DropMember, Broadcast
    <2>4. lanes' = lanes \/ \E pkgs : Send(pkgs)
      BY <1>3, <2>2, <2>3 DEF RunListener
    <2> QED
      BY <1>1, <1>2, <2>1, <2>4
  <1>4. ASSUME NEW c \in Clients, Login(c)
        PROVE  DOMAIN lanes' = Clients /\ DOMAIN netgroup' = Clients
    <2>1. netgroup' = netgroup /\ \E pkgs : Send(pkgs)
      BY <1>4 DEF Login
    <2> QED
      BY <1>1, <1>2, <2>1
  <1>5. ASSUME NEW c \in Clients, NEW t \in Transports, Receive(c, t)
        PROVE  DOMAIN lanes' = Clients /\ DOMAIN netgroup' = Clients
    BY <1>1, <1>5 DEF Receive
  <1>6. CASE lanes' = lanes /\ netgroup' = netgroup
    BY <1>1, <1>6
  <1> QED
    BY <1>3, <1>4, <1>5, <1>6 DEF Next, vars, Connect, HandshakeDone, ServerActs,
       SetReadyState, Disconnect, CloseAgain

LEMMA VNext == VInv /\ [Next]_vars => VInv'
  <1> SUFFICES ASSUME VInv, [Next]_vars PROVE VInv'
    OBVIOUS
  <1>1. IInv'
    BY InvNext DEF VInv
  <1>2. ASSUME NEW c \in Clients, ServerActs(c)
        PROVE  \A d \in Clients : LanesOf(d)' /\ ViewIsKept(d)'
    BY <1>2, LoginViews, QuietViews DEF ServerActs
  <1>3. ASSUME RunListener
        PROVE  \A d \in Clients : LanesOf(d)' /\ ViewIsKept(d)'
    <2>1. dispatch.event = "group/set_ready_state" \/ dispatch.event = "net/disconnect"
      BY <1>3 DEF RunListener
    <2> QED
      BY <1>3, <2>1, ReadyViews, DropViews
  <1>4. \A d \in Clients : LanesOf(d)' /\ ViewIsKept(d)'
    BY <1>2, <1>3, QuietViews, ReceiveViews DEF Next
  <1> QED
    BY <1>1, <1>4, LanesStay DEF VInv

\* Every reachable state keeps the views.
THEOREM ViewsInductive == Spec => []VInv
  BY VInit, VNext, PTL DEF Spec

\* A client of one group that handles what is on its way has the server's group, exactly
\* (NetGroup's handlers against add_client, drop_member, set_ready_state and new_game),
\* for any number of clients, logins and any backlog, unless it handled a package by UDP
\* before an earlier one by TCP.
THEOREM ViewsCatchUpTheorem == Spec => []ViewsCatchUp
  <1>1. VInv => ViewsCatchUp
    <2>1. VInv => DOMAIN groups = 1 .. Len(groups)
      BY LenProperties DEF VInv, IInv, Typed
    <2> QED
      BY <2>1 DEF VInv, ViewIsKept, After, ViewsCatchUp
  <1> QED
    BY <1>1, ViewsInductive, PTL

\* game_start finds every such client with the list of players that it names, itself
\* among them, max_players of them, nobody ready.
THEOREM GameStartsTheorem == Spec => []GameStartsWithView
  <1>1. VInv => GameStartsWithView
    <2> SUFFICES ASSUME VInv, NEW c \in Clients, NEW k \in DOMAIN InFlight(c),
                        InFlight(c)[k].type = "group/game_start",
                        NEW g \in DOMAIN groups, Follows(c, g), c \notin overtaken
                 PROVE  GoodStart(c, Views(netgroup[c], InFlight(c))[k - 1], InFlight(c)[k])
      BY DEF GameStartsWithView, GoodStart
    <2>1. LanesOf(c) /\ ViewIsKept(c) /\ DOMAIN groups = 1 .. Len(groups)
      BY LenProperties DEF VInv, IInv, Typed
    <2>2. \E S : InFlight(c) \in Seq(S)
      BY <2>1, BothAreSeqs DEF LanesOf, InFlight
    <2>3. k \in 1 .. Len(InFlight(c))
      BY <2>2, LenProperties
    <2> QED
      BY <2>1, <2>3 DEF ViewIsKept, StartsWell
  <1> QED
    BY <1>1, ViewsInductive, PTL
=============================================================================
