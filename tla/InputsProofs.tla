------------------------------ MODULE InputsProofs ------------------------------
(****************************************************************************)
(* Proofs about Inputs, for every alphabet, set of texts, limits and lists  *)
(* of options: the types, the two positions of a TextInput, its messages,   *)
(* the arrows of a SelectInput, and that a TextInput implements Editor.     *)
(****************************************************************************)
EXTENDS Inputs, TLAPS, SequenceTheorems, WellFoundedInduction

-----------------------------------------------------------------------------
(* Sequences that are cut in two                                            *)

\* The two halves of a concatenation.
LEMMA HalvesOfConcat ==
    ASSUME NEW S, NEW p \in Seq(S), NEW q \in Seq(S)
    PROVE  /\ SubSeq(p \o q, 1, Len(p)) = p
           /\ SubSeq(p \o q, Len(p) + 1, Len(p) + Len(q)) = q
  <1> DEFINE s == p \o q
             h == SubSeq(s, 1, Len(p))
             t == SubSeq(s, Len(p) + 1, Len(p) + Len(q))
  <1>1. /\ s \in Seq(S) /\ Len(s) = Len(p) + Len(q)
        /\ \A i \in 1 .. Len(p) + Len(q) :
               s[i] = IF i <= Len(p) THEN p[i] ELSE q[i - Len(p)]
    BY ConcatProperties
  <1>2. Len(p) \in Nat /\ Len(q) \in Nat
    BY LenProperties
  <1> HIDE DEF s
  <1>3. \A i \in 1 .. Len(p) + Len(q) : s[i] \in S
    BY <1>1, ElementOfSeq
  <1>4. h = p
    <2>1. \A i \in 1 .. Len(p) : s[i] \in S
      BY <1>2, <1>3
    <2>2. /\ h \in Seq(S)
          /\ Len(h) = IF 1 <= Len(p) THEN Len(p) - 1 + 1 ELSE 0
          /\ \A i \in 1 .. Len(p) - 1 + 1 : h[i] = s[1 + i - 1]
      BY <1>2, <2>1, SubSeqProperties
    <2> HIDE DEF h
    <2>3. Len(h) = Len(p)
      BY <1>2, <2>2
    <2>4. \A i \in 1 .. Len(h) : h[i] = p[i]
      BY <1>1, <1>2, <2>2, <2>3
    <2> QED
      BY <2>2, <2>3, <2>4, SeqEqual
  <1>5. t = q
    <2>1. \A i \in Len(p) + 1 .. Len(p) + Len(q) : s[i] \in S
      BY <1>2, <1>3
    <2>2. Len(p) + 1 \in Int /\ Len(p) + Len(q) \in Int
      BY <1>2
    <2>3. /\ t \in Seq(S)
          /\ Len(t) = IF Len(p) + 1 <= Len(p) + Len(q)
                      THEN Len(p) + Len(q) - (Len(p) + 1) + 1 ELSE 0
          /\ \A i \in 1 .. Len(p) + Len(q) - (Len(p) + 1) + 1 : t[i] = s[Len(p) + 1 + i - 1]
      BY <2>1, <2>2, SubSeqProperties
    <2> HIDE DEF t
    <2>4. Len(t) = Len(q)
      BY <1>2, <2>3
    <2>5. \A i \in 1 .. Len(t) : t[i] = q[i]
      <3> SUFFICES ASSUME NEW i \in 1 .. Len(q) PROVE t[i] = q[i]
        BY <2>4
      <3>1. /\ i \in 1 .. Len(p) + Len(q) - (Len(p) + 1) + 1
            /\ Len(p) + 1 + i - 1 = Len(p) + i
            /\ Len(p) + i \in 1 .. Len(p) + Len(q)
            /\ ~(Len(p) + i <= Len(p)) /\ Len(p) + i - Len(p) = i
        BY <1>2
      <3>2. t[i] = s[Len(p) + i]
        BY <2>3, <3>1
      <3> QED
        BY <1>1, <3>1, <3>2
    <2> QED
      BY <2>3, <2>4, <2>5, SeqEqual
  <1> QED
    BY <1>4, <1>5 DEF s

\* A sequence cut at any place.
LEMMA HalvesOfSeq ==
    ASSUME NEW S, NEW s \in Seq(S), NEW n \in 0 .. Len(s)
    PROVE  /\ SubSeq(s, 1, n) \in Seq(S) /\ Len(SubSeq(s, 1, n)) = n
           /\ SubSeq(s, n + 1, Len(s)) \in Seq(S)
           /\ Len(SubSeq(s, n + 1, Len(s))) = Len(s) - n
           /\ s = SubSeq(s, 1, n) \o SubSeq(s, n + 1, Len(s))
  <1>1. Len(s) \in Nat /\ n \in Nat /\ n <= Len(s)
    BY LenProperties
  <1>2. \A i \in 1 .. Len(s) : s[i] \in S
    BY ElementOfSeq
  <1>3. SubSeq(s, 1, n) \in Seq(S) /\ Len(SubSeq(s, 1, n)) = n
    <2>1. \A i \in 1 .. n : s[i] \in S
      BY <1>1, <1>2
    <2>2. /\ SubSeq(s, 1, n) \in Seq(S)
          /\ Len(SubSeq(s, 1, n)) = IF 1 <= n THEN n - 1 + 1 ELSE 0
      BY <1>1, <2>1, SubSeqProperties
    <2> QED
      BY <1>1, <2>2
  <1>4. /\ SubSeq(s, n + 1, Len(s)) \in Seq(S)
        /\ Len(SubSeq(s, n + 1, Len(s))) = Len(s) - n
    <2>1. \A i \in n + 1 .. Len(s) : s[i] \in S
      BY <1>1, <1>2
    <2>2. n + 1 \in Int /\ Len(s) \in Int
      BY <1>1
    <2>3. /\ SubSeq(s, n + 1, Len(s)) \in Seq(S)
          /\ Len(SubSeq(s, n + 1, Len(s)))
                = IF n + 1 <= Len(s) THEN Len(s) - (n + 1) + 1 ELSE 0
      BY <2>1, <2>2, SubSeqProperties
    <2> QED
      BY <1>1, <2>3
  <1>5. SubSeq(s, 1, n) \o SubSeq(s, n + 1, Len(s)) = SubSeq(s, 1, Len(s))
    <2>1. 1 \in 1 .. Len(s) + 1 /\ n \in 1 - 1 .. Len(s) /\ Len(s) \in n .. Len(s)
      BY <1>1
    <2> QED
      BY <2>1, ConcatAdjacentSubSeq
  <1> QED
    BY <1>3, <1>4, <1>5, SubSeqFull

-----------------------------------------------------------------------------
(* What the edits do to what stands before and after a place                *)

\* A character put in at place m.
LEMMA Inserted ==
    ASSUME NEW S, NEW s \in Seq(S), NEW c \in S, NEW m \in 1 .. Len(s) + 1
    PROVE  LET u == InsertAt(s, m, c)
           IN  /\ u \in Seq(S) /\ Len(u) = Len(s) + 1
               /\ SubSeq(u, 1, m) = Append(SubSeq(s, 1, m - 1), c)
               /\ SubSeq(u, m + 1, Len(u)) = SubSeq(s, m, Len(s))
  <1> DEFINE n == m - 1
             p == SubSeq(s, 1, n)
             q == SubSeq(s, n + 1, Len(s))
             a == p \o <<c>>
             t == a \o q
  <1>2. Len(s) \in Nat /\ n \in 0 .. Len(s) /\ m = n + 1 /\ m - 1 = n /\ m + 1 = n + 2
    BY LenProperties
  <1> HIDE DEF n
  <1>1. p \in Seq(S) /\ Len(p) = n /\ q \in Seq(S) /\ Len(q) = Len(s) - n
    BY <1>2, HalvesOfSeq
  <1>3. InsertAt(s, m, c) = t
    <2>1. m - 1 = n
      BY <1>2
    <2>2. q = SubSeq(s, m, Len(s))
      BY <1>2
    <2> HIDE DEF q
    <2>3. InsertAt(s, m, c) = SubSeq(s, 1, m - 1) \o <<c>> \o SubSeq(s, m, Len(s))
      BY Zenon DEF InsertAt
    <2> QED
      BY <2>1, <2>2, <2>3, Zenon
  <1> HIDE DEF p, q
  <1>4. Append(p, c) = a /\ a \in Seq(S) /\ Len(a) = n + 1
    BY <1>1, AppendIsConcat, AppendProperties
  <1> HIDE DEF a
  <1>5. t \in Seq(S) /\ Len(t) = Len(a) + Len(q)
    BY <1>1, <1>4, ConcatProperties
  <1>6. Len(a) + Len(q) = Len(s) + 1 /\ Len(a) + 1 = n + 2
    BY <1>1, <1>2, <1>4
  <1>7. SubSeq(t, 1, Len(a)) = a /\ SubSeq(t, Len(a) + 1, Len(a) + Len(q)) = q
    BY <1>1, <1>4, HalvesOfConcat
  <1> HIDE DEF t
  <1>8. SubSeq(t, 1, m) = Append(p, c) /\ SubSeq(t, m + 1, Len(t)) = q
    BY <1>2, <1>4, <1>5, <1>6, <1>7
  <1>9. p = SubSeq(s, 1, m - 1) /\ q = SubSeq(s, m, Len(s))
    BY <1>2 DEF p, q
  <1> QED
    BY <1>3, <1>5, <1>6, <1>8, <1>9

\* The character at place m taken out.
LEMMA Removed ==
    ASSUME NEW S, NEW s \in Seq(S), NEW m \in 1 .. Len(s)
    PROVE  LET u == RemoveAt(s, m)
           IN  /\ u \in Seq(S) /\ Len(u) = Len(s) - 1
               /\ SubSeq(u, 1, m - 1) = SubSeq(s, 1, m - 1)
               /\ SubSeq(u, m, Len(u)) = SubSeq(s, m + 1, Len(s))
  <1> DEFINE n == m - 1
             p == SubSeq(s, 1, n)
             q == SubSeq(s, n + 2, Len(s))
             t == p \o q
  <1>1. /\ Len(s) \in Nat /\ n \in Nat /\ n <= Len(s) /\ n + 1 <= Len(s)
        /\ m = n + 1 /\ m - 1 = n /\ m + 1 = n + 2
    BY LenProperties
  <1> HIDE DEF n
  <1>2. p \in Seq(S) /\ Len(p) = n
    BY <1>1, HalvesOfSeq
  <1>3. q \in Seq(S) /\ Len(q) = Len(s) - (n + 1)
    <2>1. n + 1 \in 0 .. Len(s) /\ n + 1 + 1 = n + 2
      BY <1>1
    <2>2. /\ SubSeq(s, n + 1 + 1, Len(s)) \in Seq(S)
          /\ Len(SubSeq(s, n + 1 + 1, Len(s))) = Len(s) - (n + 1)
      BY <2>1, HalvesOfSeq
    <2> QED
      BY <2>1, <2>2
  <1>4. RemoveAt(s, m) = t
    <2>1. m - 1 = n /\ m + 1 = n + 2
      BY <1>1
    <2>2. RemoveAt(s, m) = SubSeq(s, 1, m - 1) \o SubSeq(s, m + 1, Len(s))
      BY Zenon DEF RemoveAt
    <2> QED
      BY <2>1, <2>2, Zenon
  <1> HIDE DEF p, q
  <1>5. t \in Seq(S) /\ Len(t) = Len(p) + Len(q)
    BY <1>2, <1>3, ConcatProperties
  <1>6. Len(t) = Len(s) - 1 /\ Len(p) + 1 = m
    BY <1>1, <1>2, <1>3, <1>5
  <1>7. SubSeq(t, 1, Len(p)) = p /\ SubSeq(t, Len(p) + 1, Len(p) + Len(q)) = q
    BY <1>2, <1>3, HalvesOfConcat
  <1> HIDE DEF t
  <1>8. SubSeq(t, 1, m - 1) = p /\ SubSeq(t, m, Len(t)) = q
    BY <1>1, <1>2, <1>5, <1>6, <1>7
  <1>9. p = SubSeq(s, 1, m - 1) /\ q = SubSeq(s, m + 1, Len(s))
    BY <1>1 DEF p, q
  <1> QED
    BY <1>4, <1>5, <1>6, <1>8, <1>9

\* The character at place n + 1 replaced.
LEMMA Replaced ==
    ASSUME NEW S, NEW s \in Seq(S), NEW c \in S, NEW n \in 0 .. Len(s) - 1,
           NEW u, u = ReplaceAt(s, n + 1, c)
    PROVE  /\ u \in Seq(S) /\ Len(u) = Len(s)
           /\ SubSeq(u, 1, n + 1) = Append(SubSeq(s, 1, n), c)
           /\ SubSeq(u, n + 2, Len(u)) = SubSeq(s, n + 2, Len(s))
  <1> DEFINE p == SubSeq(s, 1, n)
             q == SubSeq(s, n + 2, Len(s))
             a == Append(p, c)
             t == a \o q
             r == ReplaceAt(s, n + 1, c)
  <1>1. Len(s) \in Nat /\ n \in Nat /\ n <= Len(s) /\ n + 1 <= Len(s)
    BY LenProperties
  <1>2. p \in Seq(S) /\ Len(p) = n
    BY <1>1, HalvesOfSeq
  <1>3. \A i \in 1 .. n : p[i] = s[i]
    <2>1. \A i \in 1 .. n : s[i] \in S
      BY <1>1, ElementOfSeq
    <2>2. \A i \in 1 .. n - 1 + 1 : p[i] = s[1 + i - 1]
      BY <1>1, <2>1, SubSeqProperties
    <2> HIDE DEF p
    <2> QED
      BY <1>1, <2>2
  <1>4. q \in Seq(S) /\ Len(q) = Len(s) - (n + 1)
    <2>1. n + 1 \in 0 .. Len(s) /\ n + 1 + 1 = n + 2
      BY <1>1
    <2>2. /\ SubSeq(s, n + 1 + 1, Len(s)) \in Seq(S)
          /\ Len(SubSeq(s, n + 1 + 1, Len(s))) = Len(s) - (n + 1)
      BY <2>1, HalvesOfSeq
    <2> QED
      BY <2>1, <2>2
  <1>5. \A i \in 1 .. Len(s) - (n + 1) : q[i] = s[n + 1 + i]
    <2>1. \A i \in n + 2 .. Len(s) : s[i] \in S
      BY <1>1, ElementOfSeq
    <2>2. n + 2 \in Int /\ Len(s) \in Int
      BY <1>1
    <2>3. \A i \in 1 .. Len(s) - (n + 2) + 1 : q[i] = s[n + 2 + i - 1]
      BY <2>1, <2>2, SubSeqProperties
    <2> HIDE DEF q
    <2>4. \A i \in 1 .. Len(s) - (n + 1) :
              i \in 1 .. Len(s) - (n + 2) + 1 /\ n + 2 + i - 1 = n + 1 + i
      BY <1>1
    <2> QED
      BY <2>3, <2>4
  <1> HIDE DEF p, q
  <1>6. /\ a \in Seq(S) /\ Len(a) = n + 1
        /\ \A i \in 1 .. n : a[i] = p[i]
        /\ a[n + 1] = c
    BY <1>2, AppendProperties
  <1> HIDE DEF a
  <1>7. /\ t \in Seq(S) /\ Len(t) = Len(a) + Len(q)
        /\ \A i \in 1 .. Len(a) + Len(q) :
               t[i] = IF i <= Len(a) THEN a[i] ELSE q[i - Len(a)]
    BY <1>4, <1>6, ConcatProperties
  <1>8. SubSeq(t, 1, Len(a)) = a /\ SubSeq(t, Len(a) + 1, Len(a) + Len(q)) = q
    BY <1>4, <1>6, HalvesOfConcat
  <1>9. Len(a) + Len(q) = Len(s) /\ Len(a) + 1 = n + 2
    BY <1>1, <1>4, <1>6
  <1>10. /\ r \in Seq(S) /\ Len(r) = Len(s)
         /\ \A j \in 1 .. Len(s) : r[j] = IF j = n + 1 THEN c ELSE s[j]
    <2>1. n + 1 \in 1 .. Len(s)
      BY <1>1
    <2> QED
      BY <2>1, ExceptSeq DEF ReplaceAt
  <1> HIDE DEF t, r
  <1>11. \A i \in 1 .. Len(r) : r[i] = t[i]
    <2> SUFFICES ASSUME NEW i \in 1 .. Len(s) PROVE r[i] = t[i]
      BY <1>10
    <2>1. t[i] = IF i <= n + 1 THEN a[i] ELSE q[i - (n + 1)]
      BY <1>6, <1>7, <1>9
    <2>2. r[i] = IF i = n + 1 THEN c ELSE s[i]
      BY <1>10
    <2>3. CASE i \in 1 .. n
      BY <1>1, <1>3, <1>6, <2>1, <2>2, <2>3
    <2>4. CASE i = n + 1
      BY <1>1, <1>6, <2>1, <2>2, <2>4
    <2>5. CASE i \in n + 2 .. Len(s)
      <3>1. i - (n + 1) \in 1 .. Len(s) - (n + 1) /\ n + 1 + (i - (n + 1)) = i
        BY <1>1, <2>5
      <3>2. q[i - (n + 1)] = s[n + 1 + (i - (n + 1))]
        BY <1>5, <3>1
      <3> QED
        BY <1>1, <2>1, <2>2, <2>5, <3>1, <3>2
    <2> QED
      BY <1>1, <2>3, <2>4, <2>5
  <1>12. r = t
    BY <1>7, <1>9, <1>10, <1>11, SeqEqual
  <1>13. SubSeq(t, 1, n + 1) = Append(p, c) /\ SubSeq(t, n + 2, Len(t)) = q
    BY <1>6, <1>7, <1>8, <1>9 DEF a
  <1> QED
    BY <1>10, <1>12, <1>13 DEF p, q, r

-----------------------------------------------------------------------------
(* The SelectInput                                                          *)

\* The least element of a set of numbers.
LEMMA LeastElement ==
    ASSUME NEW T, T \subseteq Nat, T # {}
    PROVE  Min(T) \in T /\ \A y \in T : Min(T) <= y
  <1> DEFINE R == OpToRel(<, Nat)
  <1>1. \A x, y \in Nat : x < y => <<x, y>> \in R
    BY DEF OpToRel
  <1>2. IsWellFoundedOn(R, Nat)
    BY NatLessThanWellFounded
  <1> HIDE DEF R
  <1>3. \E x \in T : \A y \in T : ~(<<y, x>> \in R)
    BY <1>2, WFMin
  <1>4. \E x \in T : \A y \in T : x <= y
    <2>1. PICK x \in T : \A y \in T : ~(<<y, x>> \in R)
      BY <1>3
    <2>2. \A y \in T : ~(y < x)
      BY <1>1, <2>1
    <2> QED
      BY <2>2
  <1> QED
    BY <1>4 DEF Min

\* The iterator a SelectInput keeps is an option of it or end().
SelectInv ==
    /\ options \in Seq(Values)
    /\ selected \in 0 .. Len(options)

\* The search for a value ends at an option or at end().
LEMMA FirstWithIsPlace ==
    ASSUME options \in Seq(Values), NEW v
    PROVE  FirstWith(v) \in 0 .. Len(options)
  <1> DEFINE found == {k \in DOMAIN options : options[k] = v}
  <1>1. Len(options) \in Nat /\ DOMAIN options = 1 .. Len(options)
    BY LenProperties
  <1>2. found \subseteq 1 .. Len(options)
    BY <1>1
  <1>3. FirstWith(v) = IF found = {} THEN Len(options) ELSE Min(found) - 1
    BY DEF FirstWith
  <1> HIDE DEF found
  <1>4. CASE found = {}
    BY <1>1, <1>3, <1>4
  <1>5. CASE found # {}
    <2>1. Min(found) \in 1 .. Len(options)
      <3>1. found \subseteq Nat
        BY <1>2
      <3>2. Min(found) \in found
        BY <1>5, <3>1, LeastElement, Zenon
      <3> QED
        BY <1>2, <3>2, Zenon
    <2> QED
      BY <1>1, <1>3, <1>5, <2>1
  <1> QED
    BY <1>4, <1>5

\* Wherever the iterator is, end() included, an arrow takes it to an option.
LEMMA ArrowsReachOptions ==
    ASSUME SelectInv, SelectKey
    PROVE  IsSelected' /\ SelectInv'
  <1>1. Len(options) \in Nat \ {0}
    <2>1. options # <<>> /\ options \in Seq(Values)
      BY DEF SelectKey, SelectInv
    <2> QED
      BY <2>1, EmptySeq
  <1>2. selected \in 0 .. Len(options) /\ options' = options
    BY DEF SelectInv, SelectKey
  <1>3. selected' = RightOf(selected) \/ selected' = LeftOf(selected)
    BY DEF SelectKey
  <1>4. selected' \in 0 .. Len(options) - 1
    BY <1>1, <1>2, <1>3 DEF RightOf, LeftOf
  <1> QED
    BY <1>1, <1>2, <1>4 DEF SelectInv, IsSelected

\* Every step leaves the iterator in its options.
LEMMA SelectStep ==
    ASSUME SelectInv, [Next]_vars
    PROVE  SelectInv'
  <1>1. ASSUME UNCHANGED selectVars PROVE SelectInv'
    BY <1>1 DEF SelectInv, selectVars
  <1>2. ASSUME NEW opts \in OptionLists, SetOptions(opts) PROVE SelectInv'
    <2>1. options' \in Seq(Values) /\ selected' = 0
      BY <1>2, OptionListsAssumption DEF SetOptions
    <2>2. Len(options') \in Nat
      BY <2>1, LenProperties
    <2> QED
      BY <2>1, <2>2 DEF SelectInv
  <1>3. ASSUME NEW v \in Values, SetValue(v) PROVE SelectInv'
    <2>1. options' = options /\ selected' = FirstWith(v)
      BY <1>3 DEF SetValue
    <2>2. FirstWith(v) \in 0 .. Len(options)
      BY FirstWithIsPlace DEF SelectInv
    <2> QED
      BY <2>1, <2>2 DEF SelectInv
  <1>4. ASSUME SelectKey PROVE SelectInv'
    BY <1>4, ArrowsReachOptions
  <1> QED
    BY <1>1, <1>2, <1>3, <1>4 DEF Next, vars

LEMMA SelectInvariant == Spec => []SelectInv
  <1>1. Init => SelectInv
    <2>1. <<>> \in Seq(Values) /\ Len(<<>>) = 0
      BY EmptySeq
    <2> QED
      BY <2>1 DEF Init, SelectInv
  <1>2. SelectInv /\ [Next]_vars => SelectInv'
    BY SelectStep
  <1> QED
    BY <1>1, <1>2, PTL DEF Spec

\* After any arrow the SelectInput has an option selected, whatever options were
\* set and whatever value was looked for among them.
THEOREM KeysEndOnOptionTheorem == Spec => KeysEndOnOption
  <1>1. SelectInv /\ [Next]_vars => [SelectKey => IsSelected']_vars
    BY ArrowsReachOptions
  <1> QED
    BY <1>1, SelectInvariant, PTL DEF Spec, KeysEndOnOption

-----------------------------------------------------------------------------
(* The TextInput                                                            *)

\* The two positions of a TextInput are one place of its text.
TextInv ==
    /\ edittext \in Seq(Chars)
    /\ iter \in 0 .. Len(edittext)
    /\ caret = iter
    /\ insert \in BOOLEAN

\* The text before and after the cursor.
Before == SubSeq(edittext, 1, caret)
After == SubSeq(edittext, iter + 1, Len(edittext))

\* What an edit finds around the cursor.
LEMMA AroundCursor ==
    ASSUME TextInv
    PROVE  /\ Len(edittext) \in Nat /\ iter \in Nat /\ iter <= Len(edittext)
           /\ Before = SubSeq(edittext, 1, iter)
           /\ Before \in Seq(Chars) /\ Len(Before) = iter
           /\ After \in Seq(Chars) /\ Len(After) = Len(edittext) - iter
           /\ After = <<>> <=> iter = Len(edittext)
           /\ Before = <<>> <=> iter = 0
  <1>1. Len(edittext) \in Nat /\ iter \in Nat /\ iter <= Len(edittext)
    BY LenProperties DEF TextInv
  <1>2. Before = SubSeq(edittext, 1, iter)
    BY DEF TextInv, Before
  <1>3. /\ SubSeq(edittext, 1, iter) \in Seq(Chars) /\ Len(SubSeq(edittext, 1, iter)) = iter
        /\ After \in Seq(Chars) /\ Len(After) = Len(edittext) - iter
    BY HalvesOfSeq DEF TextInv, After
  <1>4. Len(<<>>) = 0 /\ \A q \in Seq(Chars) : q # <<>> => Len(q) \in Nat \ {0}
    BY EmptySeq
  <1>5. Before \in Seq(Chars) /\ Len(Before) = iter
    BY <1>2, <1>3
  <1>6. After = <<>> <=> iter = Len(edittext)
    BY <1>1, <1>3, <1>4
  <1>7. Before = <<>> <=> iter = 0
    BY <1>1, <1>4, <1>5
  <1> QED
    BY <1>1, <1>2, <1>3, <1>5, <1>6, <1>7

\* The character after the cursor, and what follows it.
LEMMA AfterCursor ==
    ASSUME TextInv, iter # Len(edittext)
    PROVE  /\ edittext[iter + 1] \in Chars
           /\ Head(After) = edittext[iter + 1]
           /\ Tail(After) = SubSeq(edittext, iter + 2, Len(edittext))
           /\ SubSeq(edittext, 1, iter + 1) = Append(Before, edittext[iter + 1])
  <1> DEFINE m == iter + 1
             l == Len(edittext)
  <1>1. l \in Nat /\ iter \in Nat /\ iter <= l
    BY AroundCursor
  <1>2. /\ m \in 1 .. l /\ l \in m .. l /\ m + 1 = iter + 2 /\ m - 1 = iter
        /\ 1 \in 1 .. l /\ m \in 1 .. m
    BY <1>1
  <1>3. edittext \in Seq(Chars) /\ After = SubSeq(edittext, m, l)
    BY DEF TextInv, After
  <1> HIDE DEF m, l
  <1>4. edittext[m] \in Chars
    BY <1>2, <1>3, ElementOfSeq DEF l
  <1>5. Head(After) = edittext[m] /\ Tail(After) = SubSeq(edittext, m + 1, l)
    BY <1>2, <1>3, HeadTailOfSubSeq DEF l
  <1>6. SubSeq(edittext, 1, m) = SubSeq(edittext, 1, m - 1) \o <<edittext[m]>>
    <2>1. m \in 1 .. Len(edittext) /\ 1 \in 1 .. Len(edittext)
      BY <1>2 DEF l
    <2> QED
      BY <1>2, <1>3, <2>1, SubSeqRecursiveSecond
  <1>7. /\ Append(Before, edittext[m]) = Before \o <<edittext[m]>>
        /\ Before = SubSeq(edittext, 1, iter)
    BY <1>4, AroundCursor, AppendIsConcat
  <1>8. SubSeq(edittext, 1, m) = Append(Before, edittext[m])
    BY <1>2, <1>6, <1>7
  <1>9. Tail(After) = SubSeq(edittext, iter + 2, l)
    BY <1>2, <1>5
  <1> QED
    BY <1>4, <1>5, <1>8, <1>9 DEF m, l

\* The character before the cursor, and what precedes it.
LEMMA BeforeCursor ==
    ASSUME TextInv, iter # 0
    PROVE  /\ SubSeq(Before, 1, Len(Before) - 1) = SubSeq(edittext, 1, iter - 1)
           /\ SubSeq(edittext, iter, Len(edittext)) = <<Before[Len(Before)]>> \o After
  <1> DEFINE l == Len(edittext)
  <1>1. /\ l \in Nat /\ iter \in Nat /\ iter <= l /\ edittext \in Seq(Chars)
        /\ Before = SubSeq(edittext, 1, iter) /\ Len(Before) = iter /\ Before \in Seq(Chars)
    BY AroundCursor DEF TextInv
  <1>2. iter \in 1 .. l /\ l \in iter .. l /\ iter - 1 \in Nat
    BY <1>1
  <1>3. \A i \in 1 .. iter : Before[i] = edittext[i]
    <2>1. \A i \in 1 .. iter : edittext[i] \in Chars
      BY <1>1, ElementOfSeq
    <2>2. \A i \in 1 .. iter - 1 + 1 : SubSeq(edittext, 1, iter)[i] = edittext[1 + i - 1]
      BY <1>1, <2>1, SubSeqProperties
    <2>3. \A i \in 1 .. iter : i \in 1 .. iter - 1 + 1 /\ 1 + i - 1 = i
      BY <1>1
    <2> QED
      BY <1>1, <2>2, <2>3
  <1>4. SubSeq(edittext, iter, l) = <<edittext[iter]>> \o After
    BY <1>1, <1>2, SubSeqRecursiveFirst DEF After
  <1>5. SubSeq(Before, 1, iter - 1) = SubSeq(edittext, 1, iter - 1)
    <2> DEFINE b == SubSeq(Before, 1, iter - 1)
               d == SubSeq(edittext, 1, iter - 1)
    <2>1. /\ \A i \in 1 .. iter - 1 : Before[i] \in Chars
          /\ \A i \in 1 .. iter - 1 : edittext[i] \in Chars
      BY <1>1, ElementOfSeq
    <2>2. b \in Seq(Chars) /\ Len(b) = iter - 1
      BY <1>1, <1>2, HalvesOfSeq
    <2>3. d \in Seq(Chars) /\ Len(d) = iter - 1
      BY <1>1, <1>2, HalvesOfSeq
    <2>4. \A i \in 1 .. iter - 1 - 1 + 1 : b[i] = Before[1 + i - 1]
      BY <1>2, <2>1, SubSeqProperties
    <2>5. \A i \in 1 .. iter - 1 - 1 + 1 : d[i] = edittext[1 + i - 1]
      BY <1>2, <2>1, SubSeqProperties
    <2> HIDE DEF b, d
    <2>6. \A i \in 1 .. Len(b) : b[i] = d[i]
      <3> SUFFICES ASSUME NEW i \in 1 .. iter - 1 PROVE b[i] = d[i]
        BY <2>2
      <3>1. i \in 1 .. iter - 1 - 1 + 1 /\ 1 + i - 1 = i /\ i \in 1 .. iter
        BY <1>1, <1>2
      <3> QED
        BY <1>3, <2>4, <2>5, <3>1
    <2>7. b = d
      BY <2>2, <2>3, <2>6, SeqEqual
    <2> QED
      BY <2>7 DEF b, d
  <1> QED
    BY <1>1, <1>2, <1>3, <1>4, <1>5

\* One step of each action leaves the two positions together, and is the step of
\* Editor that the user meant.
LEMMA LoadStep ==
    ASSUME NEW text \in Texts, SetText(text)
    PROVE  TextInv' /\ E!Load(text)
  <1>1. edittext' = text /\ iter' = 0 /\ caret' = 0 /\ insert' = TRUE /\ text \in Seq(Chars)
    BY TextsAssumption DEF SetText
  <1>2. Len(text) \in Nat
    BY <1>1, LenProperties
  <1>3. SubSeq(text, 1, 0) = <<>>
    BY SubSeqEmpty
  <1>4. SubSeq(text, 0 + 1, Len(text)) = text
    BY <1>1, SubSeqFull
  <1>5. TextInv'
    BY <1>1, <1>2 DEF TextInv
  <1>6. SubSeq(edittext', 1, caret') = <<>>
    BY <1>1, <1>3
  <1>7. SubSeq(edittext', iter' + 1, Len(edittext')) = text
    BY <1>1, <1>4
  <1>8. (~insert') = FALSE
    BY <1>1
  <1> QED
    BY <1>5, <1>6, <1>7, <1>8 DEF E!Load

LEMMA TypeStep ==
    ASSUME TextInv, NEW c \in Chars, TypeChar(c)
    PROVE  TextInv' /\ E!Type(c)
  <1>1. /\ Len(edittext) \in Nat /\ iter \in Nat /\ iter <= Len(edittext)
        /\ Before = SubSeq(edittext, 1, iter) /\ edittext \in Seq(Chars)
        /\ Len(Before) = iter /\ Len(After) = Len(edittext) - iter
        /\ (After = <<>> <=> iter = Len(edittext))
    BY AroundCursor DEF TextInv
  <1>2. /\ caret' = iter + 1 /\ iter' = iter + 1
        /\ insert' = insert /\ insert \in BOOLEAN
    BY DEF TypeChar, TextInv
  <1>3. Before' = SubSeq(edittext', 1, iter + 1)
    BY <1>2 DEF Before
  <1>4. After' = SubSeq(edittext', iter + 2, Len(edittext'))
    <2>1. iter + 1 + 1 = iter + 2
      BY <1>1
    <2> QED
      BY <1>2, <2>1 DEF After
  <1>5. CASE /\ insert \/ iter = Len(edittext)
             /\ HasRoom
             /\ edittext' = InsertAt(edittext, iter + 1, c)
    <2> DEFINE m == iter + 1
    <2>1. m \in 1 .. Len(edittext) + 1 /\ m - 1 = iter /\ m + 1 = iter + 2
      BY <1>1
    <2>2. edittext' = InsertAt(edittext, m, c)
      BY <1>5
    <2> HIDE DEF m
    <2>7. /\ edittext' \in Seq(Chars) /\ Len(edittext') = Len(edittext) + 1
          /\ SubSeq(edittext', 1, m) = Append(SubSeq(edittext, 1, iter), c)
          /\ SubSeq(edittext', iter + 2, Len(edittext')) = SubSeq(edittext, m, Len(edittext))
      <3>1. edittext \in Seq(Chars)
        BY <1>1
      <3>2. /\ InsertAt(edittext, m, c) \in Seq(Chars)
            /\ Len(InsertAt(edittext, m, c)) = Len(edittext) + 1
            /\ SubSeq(InsertAt(edittext, m, c), 1, m) = Append(SubSeq(edittext, 1, m - 1), c)
            /\ SubSeq(InsertAt(edittext, m, c), m + 1, Len(InsertAt(edittext, m, c)))
                  = SubSeq(edittext, m, Len(edittext))
        BY <2>1, <3>1, Inserted
      <3> QED
        BY <2>1, <2>2, <3>2
    <2> USE DEF m
    <2>3. Before' = Append(Before, c) /\ After' = After
      BY <1>1, <1>3, <1>4, <2>7 DEF After
    <2>4. TextInv'
      BY <1>1, <1>2, <2>7 DEF TextInv
    <2>5. MaxChars = 0 \/ Len(Before) + Len(After) < MaxChars
      <3>1. Len(Before) + Len(After) = Len(edittext)
        BY <1>1
      <3> QED
        BY <1>5, <3>1 DEF HasRoom
    <2>6. ~(~insert /\ After # <<>>)
      BY <1>1, <1>5
    <2> QED
      BY <1>2, <2>3, <2>4, <2>5, <2>6 DEF E!Type, E!Size, Before, After
  <1>6. CASE /\ ~insert /\ iter # Len(edittext)
             /\ edittext' = ReplaceAt(edittext, caret + 1, c)
    <2>1. iter \in 0 .. Len(edittext) - 1 /\ edittext' = ReplaceAt(edittext, iter + 1, c)
      BY <1>1, <1>6 DEF TextInv
    <2>2. /\ edittext' \in Seq(Chars) /\ Len(edittext') = Len(edittext)
          /\ SubSeq(edittext', 1, iter + 1) = Append(SubSeq(edittext, 1, iter), c)
          /\ SubSeq(edittext', iter + 2, Len(edittext')) = SubSeq(edittext, iter + 2, Len(edittext))
      BY <1>1, <2>1, Replaced DEF ReplaceAt
    <2>3. Before' = Append(Before, c) /\ After' = Tail(After)
      BY <1>1, <1>3, <1>4, <1>6, <2>2, AfterCursor
    <2>4. TextInv'
      BY <1>1, <1>2, <1>6, <2>2 DEF TextInv
    <2>5. ~insert /\ After # <<>>
      BY <1>1, <1>6
    <2> QED
      BY <1>2, <2>3, <2>4, <2>5 DEF E!Type, Before, After
  <1> QED
    BY <1>5, <1>6 DEF TypeChar

LEMMA DeleteStep ==
    ASSUME TextInv, Delete
    PROVE  TextInv' /\ E!EraseNext
  <1>1. /\ Len(edittext) \in Nat /\ iter \in Nat /\ iter <= Len(edittext)
        /\ Before = SubSeq(edittext, 1, iter) /\ edittext \in Seq(Chars)
        /\ (After = <<>> <=> iter = Len(edittext))
    BY AroundCursor DEF TextInv
  <1>2. /\ iter # Len(edittext) /\ edittext' = RemoveAt(edittext, iter + 1)
        /\ iter' = iter /\ caret' = iter /\ insert' = insert /\ insert \in BOOLEAN
    BY DEF Delete, TextInv
  <1>3. iter \in 0 .. Len(edittext) - 1
    BY <1>1, <1>2
  <1>4. /\ edittext' \in Seq(Chars) /\ Len(edittext') = Len(edittext) - 1
        /\ SubSeq(edittext', 1, iter) = SubSeq(edittext, 1, iter)
        /\ SubSeq(edittext', iter + 1, Len(edittext')) = SubSeq(edittext, iter + 2, Len(edittext))
    <2> DEFINE m == iter + 1
    <2>1. m \in 1 .. Len(edittext) /\ m - 1 = iter /\ m + 1 = iter + 2
      BY <1>1, <1>3
    <2>2. edittext' = RemoveAt(edittext, m)
      BY <1>2
    <2> HIDE DEF m
    <2>3. /\ edittext' \in Seq(Chars) /\ Len(edittext') = Len(edittext) - 1
          /\ SubSeq(edittext', 1, iter) = SubSeq(edittext, 1, iter)
          /\ SubSeq(edittext', m, Len(edittext')) = SubSeq(edittext, iter + 2, Len(edittext))
      BY <1>1, <2>1, <2>2, Removed
    <2> QED
      BY <2>3 DEF m
  <1>5. Before' = Before
    BY <1>1, <1>2, <1>4 DEF Before
  <1>6. After' = Tail(After)
    <2>1. After' = SubSeq(edittext', iter + 1, Len(edittext'))
      BY <1>2 DEF After
    <2> QED
      BY <1>2, <1>4, <2>1, AfterCursor
  <1>7. TextInv'
    BY <1>1, <1>2, <1>3, <1>4 DEF TextInv
  <1> QED
    BY <1>1, <1>2, <1>5, <1>6, <1>7 DEF E!EraseNext, Before, After

LEMMA BackspaceStep ==
    ASSUME TextInv, Backspace
    PROVE  TextInv' /\ E!ErasePrevious
  <1> DEFINE n == iter - 1
  <1>1. /\ Len(edittext) \in Nat /\ iter \in Nat /\ iter <= Len(edittext)
        /\ edittext \in Seq(Chars) /\ (Before = <<>> <=> iter = 0)
    BY AroundCursor DEF TextInv
  <1>2. /\ iter # 0 /\ iter' = n /\ caret' = n
        /\ edittext' = RemoveAt(edittext, n + 1)
        /\ insert' = insert /\ insert \in BOOLEAN
    BY DEF Backspace, Erased, TextInv
  <1>3. n \in 0 .. Len(edittext) - 1 /\ n + 2 = iter + 1
    BY <1>1, <1>2
  <1> HIDE DEF n
  <1>4. /\ edittext' \in Seq(Chars) /\ Len(edittext') = Len(edittext) - 1
        /\ SubSeq(edittext', 1, n) = SubSeq(edittext, 1, n)
        /\ SubSeq(edittext', n + 1, Len(edittext')) = SubSeq(edittext, n + 2, Len(edittext))
    <2> DEFINE m == n + 1
    <2>1. m \in 1 .. Len(edittext) /\ m - 1 = n /\ m + 1 = n + 2
      BY <1>1, <1>3
    <2>2. edittext' = RemoveAt(edittext, m)
      BY <1>2
    <2> HIDE DEF m
    <2>3. /\ edittext' \in Seq(Chars) /\ Len(edittext') = Len(edittext) - 1
          /\ SubSeq(edittext', 1, n) = SubSeq(edittext, 1, n)
          /\ SubSeq(edittext', m, Len(edittext')) = SubSeq(edittext, n + 2, Len(edittext))
      BY <1>1, <2>1, <2>2, Removed
    <2> QED
      BY <2>3 DEF m
  <1>5. Before' = SubSeq(Before, 1, Len(Before) - 1)
    <2>1. SubSeq(Before, 1, Len(Before) - 1) = SubSeq(edittext, 1, n)
      BY <1>2, BeforeCursor DEF n
    <2>2. Before' = SubSeq(edittext', 1, n)
      BY <1>2 DEF Before
    <2> QED
      BY <1>4, <2>1, <2>2
  <1>6. After' = After
    <2>1. After' = SubSeq(edittext', n + 1, Len(edittext'))
      BY <1>2 DEF After
    <2> QED
      BY <1>3, <1>4, <2>1 DEF After
  <1>7. TextInv'
    BY <1>1, <1>2, <1>3, <1>4 DEF TextInv
  <1> QED
    BY <1>1, <1>2, <1>5, <1>6, <1>7 DEF E!ErasePrevious, Before, After

LEMMA RightStep ==
    ASSUME TextInv, Right
    PROVE  TextInv' /\ E!Forward
  <1>1. /\ Len(edittext) \in Nat /\ iter \in Nat /\ iter <= Len(edittext)
        /\ edittext \in Seq(Chars) /\ (After = <<>> <=> iter = Len(edittext))
    BY AroundCursor DEF TextInv
  <1>2. /\ iter # Len(edittext) /\ edittext' = edittext
        /\ iter' = iter + 1 /\ caret' = iter + 1 /\ insert' = insert /\ insert \in BOOLEAN
    BY DEF Right, MayGoRight, TextInv
  <1>3. Before' = Append(Before, Head(After))
    <2>1. Before' = SubSeq(edittext, 1, iter + 1)
      BY <1>2 DEF Before
    <2> QED
      BY <1>2, <2>1, AfterCursor
  <1>4. After' = Tail(After)
    <2>1. After' = SubSeq(edittext, iter + 2, Len(edittext))
      <3>1. iter + 1 + 1 = iter + 2
        BY <1>1
      <3> QED
        BY <1>2, <3>1 DEF After
    <2> QED
      BY <1>2, <2>1, AfterCursor
  <1>5. TextInv'
    BY <1>1, <1>2 DEF TextInv
  <1> QED
    BY <1>1, <1>2, <1>3, <1>4, <1>5 DEF E!Forward, Before, After

LEMMA LeftStep ==
    ASSUME TextInv, Left
    PROVE  TextInv' /\ E!Back
  <1>1. /\ Len(edittext) \in Nat /\ iter \in Nat /\ iter <= Len(edittext)
        /\ edittext \in Seq(Chars) /\ (Before = <<>> <=> iter = 0)
    BY AroundCursor DEF TextInv
  <1>2. /\ iter # 0 /\ edittext' = edittext
        /\ iter' = iter - 1 /\ caret' = iter - 1 /\ insert' = insert /\ insert \in BOOLEAN
    BY DEF Left, TextInv
  <1>3. Before' = SubSeq(Before, 1, Len(Before) - 1)
    BY <1>2, BeforeCursor DEF Before
  <1>4. After' = <<Before[Len(Before)]>> \o After
    <2>1. After' = SubSeq(edittext, iter, Len(edittext))
      <3>1. iter - 1 + 1 = iter
        BY <1>1
      <3> QED
        BY <1>2, <3>1 DEF After
    <2> QED
      BY <1>2, <2>1, BeforeCursor
  <1>5. TextInv'
    BY <1>1, <1>2 DEF TextInv
  <1> QED
    BY <1>1, <1>2, <1>3, <1>4, <1>5 DEF E!Back, Before, After

LEMMA InsertStep ==
    ASSUME TextInv, Insert
    PROVE  TextInv' /\ E!SwitchMode
  <1>1. /\ insert \in BOOLEAN /\ insert' = ~insert
        /\ edittext' = edittext /\ iter' = iter /\ caret' = caret
    BY DEF Insert, TextInv
  <1>2. insert' \in BOOLEAN /\ (~insert') = ~(~insert)
    BY <1>1
  <1> QED
    BY <1>1, <1>2 DEF E!SwitchMode, TextInv

\* Every step is a step of Editor, and keeps the positions together.
LEMMA TextStep ==
    ASSUME TextInv, [Next]_vars
    PROVE  TextInv' /\ [E!Next]_(E!edVars)
  <1> DEFINE Goal == TextInv' /\ [E!Next]_(E!edVars)
  <1>1. ASSUME UNCHANGED textVars PROVE Goal
    BY <1>1 DEF TextInv, textVars, E!edVars
  <1>2. ASSUME NEW text \in Texts, SetText(text) PROVE Goal
    BY <1>2, LoadStep DEF E!Next
  <1>3. ASSUME TextKey PROVE Goal
    <2>1. ASSUME NEW c \in Chars, TypeChar(c) PROVE Goal
      BY <2>1, TypeStep DEF E!Next
    <2>2. ASSUME Delete PROVE Goal
      BY <2>2, DeleteStep DEF E!Next
    <2>3. ASSUME Backspace PROVE Goal
      BY <2>3, BackspaceStep DEF E!Next
    <2>4. ASSUME Right PROVE Goal
      BY <2>4, RightStep DEF E!Next
    <2>5. ASSUME Left PROVE Goal
      BY <2>5, LeftStep DEF E!Next
    <2>6. ASSUME Insert PROVE Goal
      BY <2>6, InsertStep DEF E!Next
    <2> QED
      BY <1>3, <2>1, <2>2, <2>3, <2>4, <2>5, <2>6 DEF TextKey
  <1> QED
    BY <1>1, <1>2, <1>3 DEF Next, vars

LEMMA TextInit == Init => TextInv /\ E!Init
  <1> SUFFICES ASSUME Init PROVE TextInv /\ E!Init
    OBVIOUS
  <1>1. edittext = <<>> /\ iter = 0 /\ caret = 0 /\ insert = TRUE
    BY DEF Init
  <1>2. <<>> \in Seq(Chars) /\ Len(<<>>) = 0
    BY EmptySeq
  <1>3. SubSeq(<<>>, 1, 0) = <<>> /\ SubSeq(<<>>, 0 + 1, 0) = <<>>
    BY SubSeqEmpty
  <1> QED
    BY <1>1, <1>2, <1>3 DEF TextInv, E!Init

LEMMA TextInvariant == Spec => []TextInv
  <1>1. TextInv /\ [Next]_vars => TextInv'
    BY TextStep
  <1> QED
    BY <1>1, TextInit, PTL DEF Spec

-----------------------------------------------------------------------------
(* The results                                                              *)

\* The two positions of a TextInput never part.
THEOREM CaretIsIterTheorem == Spec => []CaretIsIter
  <1>1. TextInv => CaretIsIter
    BY DEF TextInv, CaretIsIter
  <1> QED
    BY <1>1, TextInvariant, PTL

\* Types, and no iterator of an input leaves its text or its options.
THEOREM TypeOKTheorem == Spec => []TypeOK
  <1>1. TextInv /\ SelectInv => TypeOK
    BY LenProperties DEF TextInv, SelectInv, TypeOK
  <1> QED
    BY <1>1, TextInvariant, SelectInvariant, PTL

\* A TextInput is a text with one cursor in it: every step of it is what Editor
\* says of the key, or changes nothing the user sees.
THEOREM RefinesEditorTheorem == Spec => RefinesEditor
  <1>1. Init => E!Init
    BY TextInit
  <1>2. TextInv /\ [Next]_vars => [E!Next]_(E!edVars)
    BY TextStep
  <1> QED
    BY <1>1, <1>2, TextInvariant, PTL DEF Spec, RefinesEditor, E!Spec
=============================================================================
