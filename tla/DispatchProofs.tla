----------------------------- MODULE DispatchProofs -----------------------------
(****************************************************************************)
(* Proofs about Dispatch, for all types of events and numbers of handlers,  *)
(* listeners and events.                                                    *)
(****************************************************************************)
EXTENDS Dispatch, TLAPS, SequenceTheorems, WellFoundedInduction

\* Nothing is left to call outside a dispatch, and never of a disposed handler.
LeftIsLive ==
    /\ left # {} => type # NoType
    /\ \A d \in left : d[1] \notin disposed
    /\ \E S : called \in Seq(S)

\* The last element of an extended sequence, whatever its elements are.
LEMMA LastOfAppend ==
    ASSUME NEW s, \E S : s \in Seq(S), NEW d
    PROVE  /\ Last(Append(s, d)) = d
           /\ \E S : Append(s, d) \in Seq(S)
  <1>1. PICK S : s \in Seq(S)
    OBVIOUS
  <1> DEFINE T == S \cup {d}
  <1>2. s \in Seq(T)
    BY <1>1, SeqMonotonic
  <1>3. d \in T
    OBVIOUS
  <1> HIDE DEF T
  <1>4. /\ Append(s, d) \in Seq(T) /\ Len(Append(s, d)) = Len(s) + 1
        /\ Append(s, d)[Len(s) + 1] = d
    BY <1>2, <1>3, AppendProperties
  <1> QED
    BY <1>4 DEF Last

LEMMA LeftIsLiveInit == Init => LeftIsLive
  <1>1. <<>> \in Seq({})
    BY EmptySeq
  <1> QED
    BY <1>1 DEF Init, LeftIsLive

\* Every step keeps it, and calls no handler that was disposed before it.
LEMMA LeftIsLiveStep ==
    ASSUME LeftIsLive, [Next]_vars
    PROVE  /\ LeftIsLive'
           /\ \A h \in disposed : called' = called \/ called' = <<>> \/ Last(called')[1] # h
  <1> DEFINE Silent ==
                 \A h \in disposed : called' = called \/ called' = <<>> \/ Last(called')[1] # h
             Goal == LeftIsLive' /\ Silent
  <1>1. ASSUME UNCHANGED vars PROVE Goal
    BY <1>1 DEF LeftIsLive, vars, handlerVars, loopVars
  <1>2. ASSUME Application PROVE Goal
    <2>1. left = {}
      BY <1>2 DEF LeftIsLive, Application
    <2> QED
      BY <1>2, <2>1 DEF LeftIsLive, Application, loopVars
  <1>3. ASSUME NEW t \in Types, Dispatch(t) PROVE Goal
    <2>1. <<>> \in Seq({})
      BY EmptySeq
    <2> QED
      BY <1>3, <2>1 DEF LeftIsLive, Dispatch
  <1>4. ASSUME NextHandler PROVE Goal
    <2>1. ASSUME NEW d \in left' PROVE d[1] \notin disposed
      <3>1. PICK l \in Listeners(nelhs[i'], type) : d = <<nelhs[i'], l>>
        BY <1>4 DEF NextHandler
      <3> QED
        BY <3>1 DEF Listeners
    <2> QED
      BY <1>4, <2>1 DEF LeftIsLive, NextHandler, handlerVars
  <1>5. ASSUME CallListener PROVE Goal
    <2>1. PICK d \in left : called' = Append(called, d) /\ left' = Remaining(d)
      BY <1>5 DEF CallListener
    <2>2. /\ Last(called') = d
          /\ \E S : called' \in Seq(S)
      BY <2>1, LastOfAppend DEF LeftIsLive
    <2>3. Silent
      BY <2>2 DEF LeftIsLive
    <2>4. left' \subseteq left /\ \A e \in left' : e[1] \notin disposed'
      BY <2>1 DEF Remaining
    <2>5. type' = type
      BY <1>5 DEF CallListener
    <2> QED
      BY <2>2, <2>3, <2>4, <2>5 DEF LeftIsLive
  <1>6. ASSUME ListenerThrows PROVE Goal
    <2>1. PICK d \in left : called' = Append(called, d)
      BY <1>6 DEF ListenerThrows
    <2>2. /\ Last(called') = d
          /\ \E S : called' \in Seq(S)
      BY <2>1, LastOfAppend DEF LeftIsLive
    <2>3. Silent
      BY <2>2 DEF LeftIsLive
    <2> QED
      BY <1>6, <2>2, <2>3 DEF LeftIsLive, ListenerThrows
  <1>7. ASSUME EndDispatch PROVE Goal
    BY <1>7 DEF LeftIsLive, EndDispatch
  <1> QED
    BY <1>1, <1>2, <1>3, <1>4, <1>5, <1>6, <1>7 DEF Next

\* The listeners of a handler are not called once it is disposed, in no dispatch
\* and not in the rest of the one in which a listener disposed it.
THEOREM DisposedIsSilentTheorem == Spec => DisposedIsSilent
  <1>1. LeftIsLive /\ [Next]_vars => LeftIsLive'
    BY LeftIsLiveStep
  <1>2. LeftIsLive /\ [Next]_vars =>
            [\A h \in disposed :
                 called' = called \/ called' = <<>> \/ Last(called')[1] # h]_vars
    BY LeftIsLiveStep
  <1> QED
    BY <1>1, <1>2, LeftIsLiveInit, PTL DEF Spec, DisposedIsSilent

-----------------------------------------------------------------------------
(* The removal of the disposed handlers                                     *)

\* Of the numbers of which something fails, one is 0 or comes after a number of
\* which it holds: induction over the numbers.
LEMMA FirstCounterexample ==
    ASSUME NEW T, T \subseteq Nat, T # {}
    PROVE  \E x \in T : x = 0 \/ (x - 1 \in Nat /\ x - 1 \notin T)
  <1> DEFINE R == OpToRel(<, Nat)
  <1>1. \A x, y \in Nat : x < y => <<x, y>> \in R
    BY DEF OpToRel
  <1>2. IsWellFoundedOn(R, Nat)
    BY NatLessThanWellFounded
  <1> HIDE DEF R
  <1>3. PICK x \in T : \A y \in T : ~(<<y, x>> \in R)
    BY <1>2, WFMin
  <1>4. \A y \in T : ~(y < x)
    BY <1>1, <1>3
  <1>5. x \in Nat
    OBVIOUS
  <1> QED
    BY <1>4, <1>5

\* kept is a function as EndDispatch's Kept defines it, up to m.
IsKept(kept, m) ==
    kept = [n \in 0 .. m |->
               IF n = 0 THEN <<>>
               ELSE IF nelhs[n] \in disposed THEN kept[n - 1]
               ELSE Append(kept[n - 1], nelhs[n])]

LEMMA KeptExists ==
    ASSUME NEW N \in Nat
    PROVE  \E kept : IsKept(kept, N)
  <1> DEFINE T == {m \in Nat : ~ \E kept : IsKept(kept, m)}
  <1> SUFFICES ASSUME T # {} PROVE FALSE
    OBVIOUS
  <1>1. PICK x \in T : x = 0 \/ (x - 1 \in Nat /\ x - 1 \notin T)
    <2>1. T \subseteq Nat
      OBVIOUS
    <2> HIDE DEF T
    <2> QED
      BY <2>1, FirstCounterexample
  <1>2. x \in Nat /\ ~ \E kept : IsKept(kept, x)
    OBVIOUS
  <1>3. CASE x = 0
    <2>1. IsKept([n \in 0 .. 0 |-> <<>>], 0)
      BY DEF IsKept
    <2> QED
      BY <1>2, <1>3, <2>1
  <1>4. CASE x - 1 \in Nat /\ x - 1 \notin T
    <2>1. PICK kept : IsKept(kept, x - 1)
      BY <1>4
    <2> DEFINE next == IF nelhs[x] \in disposed THEN kept[x - 1]
                       ELSE Append(kept[x - 1], nelhs[x])
               more == [n \in 0 .. x |-> IF n = x THEN next ELSE kept[n]]
    <2>2. x # 0 /\ x - 1 < x
      BY <1>2, <1>4
    <2>3. more[x] = next /\ \A n \in 0 .. x - 1 : more[n] = kept[n]
      BY <1>2, <2>2
    <2>4. \A n \in 0 .. x :
              more[n] = IF n = 0 THEN <<>>
                        ELSE IF nelhs[n] \in disposed THEN more[n - 1]
                        ELSE Append(more[n - 1], nelhs[n])
      <3> TAKE n \in 0 .. x
      <3>1. CASE n = x
        <4>1. x - 1 \in 0 .. x - 1
          BY <1>4
        <4>2. more[x - 1] = kept[x - 1]
          BY <2>3, <4>1
        <4> HIDE DEF more
        <4> QED
          BY <2>2, <2>3, <3>1, <4>2
      <3>2. CASE n # x
        <4>1. n \in 0 .. x - 1 /\ (n # 0 => n - 1 \in 0 .. x - 1)
          BY <1>2, <1>4, <3>2
        <4>2. kept[n] = IF n = 0 THEN <<>>
                        ELSE IF nelhs[n] \in disposed THEN kept[n - 1]
                        ELSE Append(kept[n - 1], nelhs[n])
          BY <2>1, <4>1 DEF IsKept
        <4>3. more[n] = kept[n] /\ (n # 0 => more[n - 1] = kept[n - 1])
          BY <2>3, <4>1
        <4> HIDE DEF more
        <4> QED
          BY <4>2, <4>3
      <3> QED
        BY <3>1, <3>2
    <2>5. IsKept(more, x)
      <3>1. DOMAIN more = 0 .. x
        OBVIOUS
      <3>2. more = [n \in 0 .. x |-> more[n]]
        OBVIOUS
      <3> HIDE DEF more
      <3> QED
        BY <2>4, <3>1, <3>2 DEF IsKept
    <2> QED
      BY <1>2, <2>5
  <1> QED
    BY <1>1, <1>3, <1>4

\* Some handlers of the vector, each once, and all of them that are not disposed.
LEMMA KeptIsDistinct ==
    ASSUME NEW S, nelhs \in Seq(S), \A m, n \in DOMAIN nelhs : nelhs[m] = nelhs[n] => m = n
    PROVE  /\ Kept \in Seq(S)
           /\ \A m, n \in DOMAIN Kept : Kept[m] = Kept[n] => m = n
  <1> DEFINE N == Len(nelhs)
  <1>1. N \in Nat /\ DOMAIN nelhs = 1 .. N /\ \A n \in 1 .. N : nelhs[n] \in S
    BY LenProperties, ElementOfSeq
  <1>2. PICK kept : IsKept(kept, N) /\ Kept = kept[N]
    <2> DEFINE P(kept) == kept = [n \in 0 .. N |->
                             IF n = 0 THEN <<>>
                             ELSE IF nelhs[n] \in disposed THEN kept[n - 1]
                             ELSE Append(kept[n - 1], nelhs[n])]
    <2>1. \E kept : P(kept)
      BY <1>1, KeptExists DEF IsKept
    <2>2. Kept = (CHOOSE kept : P(kept))[N]
      BY DEF Kept
    <2>3. P(CHOOSE kept : P(kept))
      <3> HIDE DEF P
      <3> QED
        BY <2>1
    <2> QED
      BY <2>2, <2>3 DEF IsKept
  <1> HIDE DEF N
  <1> DEFINE Good(n) == /\ kept[n] \in Seq(S)
                        /\ \A k \in DOMAIN kept[n] : \E m \in 1 .. n : kept[n][k] = nelhs[m]
                        /\ \A k, l \in DOMAIN kept[n] : kept[n][k] = kept[n][l] => k = l
             T == {n \in Nat : n <= N /\ ~Good(n)}
  <1>3. T = {}
    <2> SUFFICES ASSUME T # {} PROVE FALSE
      OBVIOUS
    <2>1. PICK x \in T : x = 0 \/ (x - 1 \in Nat /\ x - 1 \notin T)
      <3>1. T \subseteq Nat
        OBVIOUS
      <3> HIDE DEF T
      <3> QED
        BY <3>1, FirstCounterexample
    <2>2. x \in 0 .. N /\ ~Good(x)
      BY <1>1
    <2>3. kept[x] = IF x = 0 THEN <<>>
                    ELSE IF nelhs[x] \in disposed THEN kept[x - 1]
                    ELSE Append(kept[x - 1], nelhs[x])
      BY <1>2, <2>2 DEF IsKept
    <2>4. CASE x = 0
      <3>1. kept[x] = <<>> /\ kept[x] \in Seq(S) /\ DOMAIN kept[x] = {}
        BY <2>3, <2>4
      <3> QED
        BY <2>2, <3>1
    <2>5. CASE x - 1 \in Nat /\ x - 1 \notin T
      <3>1. Good(x - 1) /\ x # 0 /\ x \in 1 .. N /\ x - 1 < x
        BY <1>1, <2>2, <2>5
      <3> DEFINE p == kept[x - 1]
      <3>2. CASE nelhs[x] \in disposed
        <4>1. kept[x] = p
          BY <2>3, <3>1, <3>2
        <4>2. \A k \in DOMAIN p : \E m \in 1 .. x : p[k] = nelhs[m]
          BY <1>1, <3>1
        <4> HIDE DEF p
        <4> QED
          BY <2>2, <3>1, <4>1, <4>2 DEF p
      <3>3. CASE nelhs[x] \notin disposed
        <4>1. kept[x] = Append(p, nelhs[x])
          BY <2>3, <3>1, <3>3
        <4>2. p \in Seq(S) /\ nelhs[x] \in S /\ Len(p) \in Nat /\ DOMAIN p = 1 .. Len(p)
          BY <1>1, <3>1, LenProperties
        <4>3. \A k \in 1 .. Len(p) : p[k] # nelhs[x]
          <5> TAKE k \in 1 .. Len(p)
          <5>1. PICK m \in 1 .. x - 1 : p[k] = nelhs[m]
            BY <3>1, <4>2
          <5>2. m \in DOMAIN nelhs /\ x \in DOMAIN nelhs /\ m # x
            BY <1>1, <3>1
          <5> QED
            BY <5>1, <5>2
        <4>4. \A k \in 1 .. Len(p) : \E m \in 1 .. x : p[k] = nelhs[m]
          BY <1>1, <3>1, <4>2
        <4>5. \A k, l \in 1 .. Len(p) : p[k] = p[l] => k = l
          BY <3>1, <4>2
        <4> DEFINE q == Append(p, nelhs[x])
        <4>6. /\ q \in Seq(S) /\ DOMAIN q = 1 .. Len(p) + 1 /\ q[Len(p) + 1] = nelhs[x]
              /\ \A k \in 1 .. Len(p) : q[k] = p[k]
          BY <4>2, AppendProperties, LenProperties
        <4> HIDE DEF p, q
        <4>7. \A k \in DOMAIN q : \E m \in 1 .. x : q[k] = nelhs[m]
          <5> TAKE k \in DOMAIN q
          <5>1. CASE k \in 1 .. Len(p)
            BY <4>4, <4>6, <5>1
          <5>2. CASE k = Len(p) + 1
            <6>1. x \in 1 .. x
              BY <3>1, <1>1
            <6> QED
              BY <4>6, <5>2, <6>1
          <5> QED
            BY <4>2, <4>6, <5>1, <5>2
        <4>8. \A k, l \in DOMAIN q : q[k] = q[l] => k = l
          <5> SUFFICES ASSUME NEW k \in DOMAIN q, NEW l \in DOMAIN q, q[k] = q[l] PROVE k = l
            OBVIOUS
          <5>1. (k \in 1 .. Len(p) \/ k = Len(p) + 1) /\ (l \in 1 .. Len(p) \/ l = Len(p) + 1)
            BY <4>2, <4>6
          <5> QED
            BY <4>3, <4>5, <4>6, <5>1
        <4> QED
          BY <2>2, <4>1, <4>6, <4>7, <4>8 DEF q
      <3> QED
        BY <3>2, <3>3
    <2> QED
      BY <2>1, <2>4, <2>5
  <1>4. Good(N)
    BY <1>1, <1>3
  <1> QED
    BY <1>2, <1>4

-----------------------------------------------------------------------------
(* The walk over the handlers                                               *)

\* A listener that is still to be called when the walk comes to its handler.
Ahead(d) ==
    \E k \in i + 1 .. Len(nelhs) :
        /\ nelhs[k] = d[1]
        /\ d[2] \in DOMAIN listeners[d[1]] /\ listeners[d[1]][d[2]] = type

Numbered ==
    /\ created \in 0 .. MaxHandlers
    /\ nelhs \in Seq(1 .. created)
    /\ \A m, n \in DOMAIN nelhs : nelhs[m] = nelhs[n] => m = n
    /\ listeners \in [Handlers -> Seq(Types)]

\* The walk has called listeners of the first i handlers only, each once, and has
\* no listener that the event is for left out.
Walk ==
    /\ Numbered
    /\ type \in Types \cup {NoType}
    /\ i \in Nat
    /\ \A d \in left : d[1] \notin disposed /\ (\A n \in DOMAIN called : called[n] # d)
    /\ due \subseteq Handlers \X Nat
    /\ called \in Seq(Handlers \X Nat)
    /\ \A m, n \in DOMAIN called : called[m] = called[n] => m = n
    /\ type = NoType =>
           left = {} /\ (\A d \in due : d \in Range(called) \/ d[1] \in disposed)
    /\ type # NoType =>
           /\ i <= Len(nelhs)
           /\ \A d \in left : d \in Handlers \X Nat /\ i \in DOMAIN nelhs /\ d[1] = nelhs[i]
           /\ \A n \in DOMAIN called : \E k \in 1 .. i : called[n][1] = nelhs[k]
           /\ \A d \in due :
                  d[1] \in disposed \/ d \in Range(called) \/ d \in left \/ Ahead(d)

\* What a listener or the application does with handlers: those there are keep their
\* places and their listeners, new ones are behind them, and what the event is newly
\* for is a listener of a new one.
LEMMA ChangeKeeps ==
    ASSUME Numbered, Change
    PROVE  /\ Numbered'
           /\ Len(nelhs) <= Len(nelhs') /\ \A k \in DOMAIN nelhs : nelhs'[k] = nelhs[k]
           /\ disposed \subseteq disposed'
           /\ \A h \in DOMAIN listeners : \A l \in DOMAIN listeners[h] :
                  h <= created =>
                      l \in DOMAIN listeners'[h] /\ listeners'[h][l] = listeners[h][l]
           /\ \A d \in due' :
                  \/ d \in due
                  \/ \E k \in Len(nelhs) + 1 .. Len(nelhs') :
                         /\ nelhs'[k] = d[1]
                         /\ d[2] \in DOMAIN listeners'[d[1]]
                         /\ listeners'[d[1]][d[2]] = type
           /\ due \subseteq Handlers \X Nat => due' \subseteq Handlers \X Nat
  <1>1. /\ created \in Nat /\ MaxHandlers \in Nat /\ created <= MaxHandlers
        /\ Len(nelhs) \in Nat /\ DOMAIN nelhs = 1 .. Len(nelhs)
        /\ \A k \in DOMAIN nelhs : nelhs[k] \in 1 .. created
        /\ DOMAIN listeners = Handlers /\ \A h \in Handlers : listeners[h] \in Seq(Types)
    BY BoundsAssumption, LenProperties, ElementOfSeq DEF Numbered
  <1>2. ASSUME NEW h \in Range(nelhs), NEW t \in Types, AddEventListener(h, t)
        PROVE  /\ Numbered' /\ nelhs' = nelhs /\ disposed' = disposed /\ due' = due
               /\ created' = created
               /\ \A g \in Handlers : \A l \in DOMAIN listeners[g] :
                      l \in DOMAIN listeners'[g] /\ listeners'[g][l] = listeners[g][l]
    <2>1. /\ listeners' = [listeners EXCEPT ![h] = Append(@, t)]
          /\ nelhs' = nelhs /\ created' = created /\ disposed' = disposed /\ due' = due
      BY <1>2 DEF AddEventListener
    <2>2. h \in Handlers
      BY <1>1, <1>2 DEF Range, Handlers
    <2> DEFINE r == Append(listeners[h], t)
    <2>3. /\ r \in Seq(Types)
          /\ \A l \in DOMAIN listeners[h] : l \in DOMAIN r /\ r[l] = listeners[h][l]
      BY <1>1, <2>2, AppendProperties, LenProperties
    <2>4. listeners' = [listeners EXCEPT ![h] = r]
      BY <2>1
    <2> HIDE DEF r
    <2>5. listeners' \in [Handlers -> Seq(Types)]
      BY <2>2, <2>3, <2>4 DEF Numbered
    <2>6. Numbered'
      BY <2>1, <2>5 DEF Numbered
    <2>7. listeners'[h] = r /\ \A g \in Handlers \ {h} : listeners'[g] = listeners[g]
      BY <1>1, <2>2, <2>4
    <2> QED
      BY <2>1, <2>3, <2>6, <2>7
  <1>3. ASSUME NEW t \in Types, CreateNelh(t)
        PROVE  /\ Numbered' /\ nelhs' = Append(nelhs, created + 1) /\ disposed' = disposed
               /\ listeners'[created + 1] = <<t>>
               /\ \A g \in Handlers : g <= created => listeners'[g] = listeners[g]
               /\ due' = IF t = type THEN due \cup {<<created + 1, 1>>} ELSE due
               /\ created + 1 \in Handlers
    <2>1. /\ created < MaxHandlers /\ created' = created + 1
          /\ nelhs' = Append(nelhs, created + 1)
          /\ listeners' = [listeners EXCEPT ![created + 1] = <<t>>]
          /\ disposed' = disposed
          /\ due' = IF t = type THEN due \cup {<<created + 1, 1>>} ELSE due
      BY <1>3 DEF CreateNelh
    <2>2. created + 1 \in Handlers /\ created' \in 0 .. MaxHandlers
      BY <1>1, <2>1 DEF Handlers
    <2>3. nelhs \in Seq(1 .. created + 1)
      <3>1. 1 .. created \subseteq 1 .. created + 1
        BY <1>1
      <3> QED
        BY <3>1, SeqMonotonic DEF Numbered
    <2>4. /\ nelhs' \in Seq(1 .. created') /\ DOMAIN nelhs' = 1 .. Len(nelhs) + 1
          /\ nelhs'[Len(nelhs) + 1] = created + 1
          /\ \A k \in 1 .. Len(nelhs) : nelhs'[k] = nelhs[k]
      <3>1. created + 1 \in 1 .. created + 1
        BY <1>1
      <3> QED
        BY <2>1, <2>3, <3>1, AppendProperties, LenProperties
    <2>5. \A m, n \in DOMAIN nelhs' : nelhs'[m] = nelhs'[n] => m = n
      <3> SUFFICES ASSUME NEW m \in DOMAIN nelhs', NEW n \in DOMAIN nelhs',
                          nelhs'[m] = nelhs'[n]
                   PROVE  m = n
        OBVIOUS
      <3>1. /\ m \in 1 .. Len(nelhs) \/ m = Len(nelhs) + 1
            /\ n \in 1 .. Len(nelhs) \/ n = Len(nelhs) + 1
        BY <1>1, <2>4
      <3>2. \A k \in 1 .. Len(nelhs) : nelhs[k] # created + 1
        BY <1>1
      <3>3. \A k, l \in 1 .. Len(nelhs) : nelhs[k] = nelhs[l] => k = l
        BY <1>1 DEF Numbered
      <3> QED
        BY <2>4, <3>1, <3>2, <3>3
    <2> DEFINE new == <<t>>
    <2>6. new \in Seq(Types) /\ listeners' = [listeners EXCEPT ![created + 1] = new]
      BY <2>1
    <2> HIDE DEF new
    <2>7. /\ listeners' \in [Handlers -> Seq(Types)] /\ listeners'[created + 1] = new
          /\ \A g \in Handlers : g <= created => listeners'[g] = listeners[g]
      <3>1. \A g \in Handlers : g <= created => g # created + 1
        BY <1>1 DEF Handlers
      <3> QED
        BY <2>2, <2>6, <3>1 DEF Numbered
    <2>8. Numbered'
      BY <2>2, <2>4, <2>5, <2>7 DEF Numbered
    <2> QED
      BY <2>1, <2>2, <2>7, <2>8 DEF new
  <1>4. CASE \E h \in Range(nelhs), t \in Types : AddEventListener(h, t)
    BY <1>1, <1>2, <1>4
  <1>5. CASE \E t \in Types : CreateNelh(t)
    <2>1. PICK t \in Types : CreateNelh(t)
      BY <1>5
    <2>2. /\ Len(nelhs') = Len(nelhs) + 1 /\ nelhs'[Len(nelhs) + 1] = created + 1
          /\ \A k \in 1 .. Len(nelhs) : nelhs'[k] = nelhs[k]
      <3>1. nelhs \in Seq(Nat) /\ created + 1 \in Nat
        <4>1. 1 .. created \subseteq Nat
          OBVIOUS
        <4> QED
          BY <1>1, <4>1, SeqMonotonic DEF Numbered
      <3> QED
        BY <1>3, <2>1, <3>1, AppendProperties
    <2>3. ASSUME NEW d \in due', d \notin due
          PROVE  \E k \in Len(nelhs) + 1 .. Len(nelhs') :
                     /\ nelhs'[k] = d[1]
                     /\ d[2] \in DOMAIN listeners'[d[1]]
                     /\ listeners'[d[1]][d[2]] = type
      <3>1. d = <<created + 1, 1>> /\ t = type
        BY <1>3, <2>1, <2>3
      <3>2. Len(nelhs) + 1 \in Len(nelhs) + 1 .. Len(nelhs') /\ nelhs'[Len(nelhs) + 1] = d[1]
        BY <1>1, <2>2, <3>1
      <3>3. d[2] \in DOMAIN listeners'[d[1]] /\ listeners'[d[1]][d[2]] = type
        BY <1>3, <2>1, <3>1
      <3> QED
        BY <3>2, <3>3
    <2> QED
      BY <1>1, <1>3, <2>1, <2>2, <2>3
  <1>6. CASE \E h \in Range(nelhs) \ disposed : Dispose(h)
    BY <1>1, <1>6 DEF Dispose, Numbered
  <1> QED
    BY <1>4, <1>5, <1>6 DEF Change

LEMMA WalkInit == Init => Walk
  <1> SUFFICES ASSUME Init PROVE Walk
    OBVIOUS
  <1>1. <<>> \in Seq(1 .. created) /\ <<>> \in Seq(Handlers \X Nat) /\ DOMAIN <<>> = {}
        /\ <<>> \in Seq(Types)
    BY EmptySeq
  <1>2. Numbered
    BY <1>1, BoundsAssumption DEF Init, Numbered
  <1> QED
    BY <1>1, <1>2 DEF Init, Walk

LEMMA ApplicationWalks ==
    ASSUME Walk, Application
    PROVE  Walk'
  <1>1. /\ type = NoType /\ Change /\ type' = type /\ i' = i /\ left' = left
        /\ called' = called
    BY DEF Application, loopVars
  <1>2. Numbered' /\ disposed \subseteq disposed'
    BY <1>1, ChangeKeeps DEF Walk
  <1>3. due' \subseteq due
    <2>1. \A t \in Types : t # type
      BY <1>1, NoTypeAssumption
    <2> QED
      BY <1>1, <2>1 DEF Change, AddEventListener, CreateNelh, Dispose
  <1> QED
    BY <1>1, <1>2, <1>3 DEF Walk

LEMMA DispatchWalks ==
    ASSUME Walk, NEW t \in Types, Dispatch(t)
    PROVE  Walk'
  <1>1. /\ nelhs' = nelhs /\ created' = created /\ listeners' = listeners
        /\ disposed' = disposed /\ type' = t /\ i' = 0 /\ left' = {} /\ called' = <<>>
        /\ due' = UNION {{h} \X Listeners(h, t) : h \in Range(nelhs)}
    BY DEF Dispatch, handlerVars
  <1>2. Numbered' /\ Len(nelhs) \in Nat /\ DOMAIN nelhs = 1 .. Len(nelhs)
    BY <1>1, LenProperties DEF Walk, Numbered
  <1>3. <<>> \in Seq(Handlers \X Nat) /\ DOMAIN <<>> = {}
    BY EmptySeq
  <1>4. t # NoType
    BY NoTypeAssumption
  <1>5. ASSUME NEW d \in due' PROVE Ahead(d)'
    <2>1. PICK h \in Range(nelhs) : d \in {h} \X Listeners(h, t)
      BY <1>1
    <2>2. d[1] = h /\ d[2] \in DOMAIN listeners[h] /\ listeners[h][d[2]] = t
      BY <2>1 DEF Listeners
    <2>3. PICK k \in DOMAIN nelhs : nelhs[k] = h
      BY DEF Range
    <2>4. k \in i' + 1 .. Len(nelhs')
      BY <1>1, <1>2
    <2> QED
      BY <1>1, <2>2, <2>3, <2>4 DEF Ahead
  <1>6. due' \subseteq Handlers \X Nat
    <2> SUFFICES ASSUME NEW h \in Range(nelhs), NEW l \in Listeners(h, t)
                 PROVE  h \in Handlers /\ l \in Nat
      BY <1>1
    <2>1. h \in 1 .. created /\ created \in Nat /\ created <= MaxHandlers /\ MaxHandlers \in Nat
      <3>1. PICK k \in DOMAIN nelhs : nelhs[k] = h
        BY DEF Range
      <3> QED
        BY <1>2, <3>1, ElementOfSeq, BoundsAssumption DEF Walk, Numbered
    <2>2. h \in Handlers
      BY <2>1 DEF Handlers
    <2>3. l \in DOMAIN listeners[h] /\ listeners[h] \in Seq(Types)
      BY <2>2 DEF Listeners, Walk, Numbered
    <2> QED
      BY <2>2, <2>3, LenProperties
  <1>7. type' \in Types \cup {NoType} /\ i' \in Nat /\ i' <= Len(nelhs')
    BY <1>1, <1>2
  <1> QED
    BY <1>1, <1>2, <1>3, <1>4, <1>5, <1>6, <1>7 DEF Walk

LEMMA NextHandlerWalks ==
    ASSUME Walk, NextHandler
    PROVE  Walk'
  <1>1. /\ nelhs' = nelhs /\ created' = created /\ listeners' = listeners
        /\ disposed' = disposed /\ type' = type /\ due' = due /\ called' = called
        /\ type # NoType /\ left = {} /\ i < Len(nelhs) /\ i' = i + 1
        /\ left' = {nelhs[i + 1]} \X Listeners(nelhs[i + 1], type)
    BY DEF NextHandler, HasNext, handlerVars
  <1>2. /\ Numbered' /\ Len(nelhs) \in Nat /\ DOMAIN nelhs = 1 .. Len(nelhs)
        /\ i \in Nat /\ i + 1 \in DOMAIN nelhs /\ nelhs[i + 1] \in Handlers
        /\ listeners[nelhs[i + 1]] \in Seq(Types)
    <2>1. /\ Numbered /\ i \in Nat /\ Len(nelhs) \in Nat /\ DOMAIN nelhs = 1 .. Len(nelhs)
          /\ created \in Nat /\ created <= MaxHandlers /\ MaxHandlers \in Nat
      BY BoundsAssumption, LenProperties DEF Walk, Numbered
    <2>2. i + 1 \in DOMAIN nelhs /\ nelhs[i + 1] \in 1 .. created
      BY <1>1, <2>1, ElementOfSeq DEF Numbered
    <2>3. nelhs[i + 1] \in Handlers
      BY <2>1, <2>2 DEF Handlers
    <2>4. listeners[nelhs[i + 1]] \in Seq(Types)
      BY <2>1, <2>3 DEF Numbered
    <2>5. Numbered'
      BY <1>1, <2>1 DEF Numbered
    <2> QED
      BY <2>1, <2>2, <2>3, <2>4, <2>5
  <1>3. ASSUME NEW d \in left'
        PROVE  /\ d[1] \notin disposed /\ d \in Handlers \X Nat /\ d[1] = nelhs[i + 1]
               /\ \A n \in DOMAIN called : called[n] # d
    <2>1. PICK l \in Listeners(nelhs[i + 1], type) : d = <<nelhs[i + 1], l>>
      BY <1>1
    <2>2. d[1] \notin disposed /\ l \in DOMAIN listeners[nelhs[i + 1]]
      BY <2>1 DEF Listeners
    <2>3. l \in Nat
      BY <1>2, <2>2, LenProperties
    <2>4. ASSUME NEW n \in DOMAIN called PROVE called[n] # d
      <3>1. PICK k \in 1 .. i : called[n][1] = nelhs[k]
        BY <1>1 DEF Walk
      <3>2. k \in DOMAIN nelhs /\ k # i + 1
        BY <1>2
      <3>3. nelhs[k] # nelhs[i + 1]
        BY <1>2, <3>2 DEF Walk, Numbered
      <3> QED
        BY <2>1, <3>1, <3>3
    <2> QED
      BY <1>2, <2>1, <2>2, <2>3, <2>4
  <1>4. \A n \in DOMAIN called : \E k \in 1 .. i + 1 : called[n][1] = nelhs[k]
    <2> TAKE n \in DOMAIN called
    <2>1. PICK k \in 1 .. i : called[n][1] = nelhs[k]
      BY <1>1 DEF Walk
    <2> QED
      BY <1>2, <2>1
  <1>5. ASSUME NEW d \in due, d[1] \notin disposed, d \notin Range(called)
        PROVE  d \in left' \/ Ahead(d)'
    <2>1. Ahead(d)
      BY <1>1, <1>5 DEF Walk
    <2>2. PICK k \in i + 1 .. Len(nelhs) :
              /\ nelhs[k] = d[1]
              /\ d[2] \in DOMAIN listeners[d[1]] /\ listeners[d[1]][d[2]] = type
      BY <2>1 DEF Ahead
    <2>3. CASE k = i + 1
      <3>1. d[2] \in Listeners(nelhs[i + 1], type)
        BY <1>5, <2>2, <2>3 DEF Listeners
      <3>2. d = <<d[1], d[2]>>
        BY <1>5 DEF Walk
      <3> QED
        BY <1>1, <2>2, <2>3, <3>1, <3>2
    <2>4. CASE k # i + 1
      <3>1. k \in i' + 1 .. Len(nelhs')
        BY <1>1, <1>2, <2>4
      <3> QED
        BY <1>1, <2>2, <3>1 DEF Ahead
    <2> QED
      BY <2>3, <2>4
  <1> QED
    BY <1>1, <1>2, <1>3, <1>4, <1>5 DEF Walk

\* What is called was left to call; it is not called again.
LEMMA CalledOnce ==
    ASSUME Walk, NEW d \in left, called' = Append(called, d)
    PROVE  /\ called' \in Seq(Handlers \X Nat)
           /\ \A m, n \in DOMAIN called' : called'[m] = called'[n] => m = n
           /\ Range(called') = Range(called) \cup {d}
           /\ \A n \in DOMAIN called' : (n \in DOMAIN called /\ called'[n] = called[n]) \/ called'[n] = d
  <1>1. /\ called \in Seq(Handlers \X Nat) /\ d \in Handlers \X Nat
        /\ Len(called) \in Nat /\ DOMAIN called = 1 .. Len(called)
        /\ \A n \in 1 .. Len(called) : called[n] # d
        /\ \A m, n \in 1 .. Len(called) : called[m] = called[n] => m = n
    BY LenProperties DEF Walk
  <1>2. /\ called' \in Seq(Handlers \X Nat) /\ DOMAIN called' = 1 .. Len(called) + 1
        /\ called'[Len(called) + 1] = d
        /\ \A n \in 1 .. Len(called) : called'[n] = called[n]
    BY <1>1, AppendProperties, LenProperties
  <1>3. \A n \in DOMAIN called' : n \in 1 .. Len(called) \/ n = Len(called) + 1
    BY <1>1, <1>2
  <1>4. \A m, n \in DOMAIN called' : called'[m] = called'[n] => m = n
    BY <1>1, <1>2, <1>3
  <1>5. Range(called') = Range(called) \cup {d}
    <2>1. \A e : e \in Range(called') <=> \E n \in DOMAIN called' : called'[n] = e
      BY DEF Range
    <2>2. \A e : e \in Range(called) <=> \E n \in DOMAIN called : called[n] = e
      BY DEF Range
    <2>3. Len(called) + 1 \in DOMAIN called' /\ \A n \in 1 .. Len(called) : n \in DOMAIN called'
      BY <1>1, <1>2
    <2> QED
      BY <1>1, <1>2, <1>3, <2>1, <2>2, <2>3
  <1> QED
    BY <1>1, <1>2, <1>3, <1>4, <1>5

LEMMA CallListenerWalks ==
    ASSUME Walk, CallListener
    PROVE  Walk'
  <1>1. /\ type' = type /\ i' = i
        /\ \E d \in left : /\ Change \/ UNCHANGED <<handlerVars, due>>
                           /\ called' = Append(called, d)
                           /\ left' = {e \in left : e # d /\ e[1] \notin disposed'}
    BY DEF CallListener, Remaining
  <1>2. PICK d \in left : /\ Change \/ UNCHANGED <<handlerVars, due>>
                          /\ called' = Append(called, d)
                          /\ left' = {e \in left : e # d /\ e[1] \notin disposed'}
    BY <1>1
  <1>3. /\ type # NoType /\ i \in DOMAIN nelhs /\ i <= Len(nelhs) /\ i \in Nat
        /\ Len(nelhs) \in Nat /\ DOMAIN nelhs = 1 .. Len(nelhs) /\ d[1] = nelhs[i]
        /\ Numbered /\ due \subseteq Handlers \X Nat
    BY LenProperties DEF Walk, Numbered
  <1>4. /\ Numbered'
        /\ Len(nelhs) <= Len(nelhs') /\ \A k \in DOMAIN nelhs : nelhs'[k] = nelhs[k]
        /\ disposed \subseteq disposed'
        /\ \A h \in DOMAIN listeners : \A l \in DOMAIN listeners[h] :
               h <= created => l \in DOMAIN listeners'[h] /\ listeners'[h][l] = listeners[h][l]
        /\ \A e \in due' :
               \/ e \in due
               \/ \E k \in Len(nelhs) + 1 .. Len(nelhs') :
                      /\ nelhs'[k] = e[1]
                      /\ e[2] \in DOMAIN listeners'[e[1]]
                      /\ listeners'[e[1]][e[2]] = type
        /\ due' \subseteq Handlers \X Nat
    <2>1. CASE Change
      BY <1>3, <2>1, ChangeKeeps
    <2>2. CASE UNCHANGED <<handlerVars, due>>
      BY <1>3, <2>2 DEF handlerVars, Numbered
    <2> QED
      BY <1>2, <2>1, <2>2
  <1>5. Len(nelhs') \in Nat /\ DOMAIN nelhs' = 1 .. Len(nelhs')
    BY <1>4, LenProperties DEF Numbered
  <1>6. /\ called' \in Seq(Handlers \X Nat)
        /\ \A m, n \in DOMAIN called' : called'[m] = called'[n] => m = n
        /\ Range(called') = Range(called) \cup {d}
        /\ \A n \in DOMAIN called' : (n \in DOMAIN called /\ called'[n] = called[n]) \/ called'[n] = d
    BY <1>2, CalledOnce
  <1>7. \A e \in left' : e[1] \notin disposed' /\ (\A n \in DOMAIN called' : called'[n] # e)
    <2> SUFFICES ASSUME NEW e \in left', NEW n \in DOMAIN called' PROVE called'[n] # e
      BY <1>2
    <2>1. e \in left /\ e # d
      BY <1>2
    <2>2. \A m \in DOMAIN called : called[m] # e
      BY <2>1 DEF Walk
    <2> QED
      BY <1>6, <2>1, <2>2
  <1>8. \A e \in left' : e \in Handlers \X Nat /\ i' \in DOMAIN nelhs' /\ e[1] = nelhs'[i']
    <2> TAKE e \in left'
    <2>1. e \in left /\ i \in DOMAIN nelhs'
      BY <1>2, <1>3, <1>4, <1>5
    <2> QED
      BY <1>1, <1>3, <1>4, <2>1 DEF Walk
  <1>9. \A n \in DOMAIN called' : \E k \in 1 .. i' : called'[n][1] = nelhs'[k]
    <2> TAKE n \in DOMAIN called'
    <2>1. CASE n \in DOMAIN called /\ called'[n] = called[n]
      <3>1. PICK k \in 1 .. i : called[n][1] = nelhs[k]
        BY <1>3, <2>1 DEF Walk
      <3>2. nelhs'[k] = nelhs[k]
        BY <1>3, <1>4
      <3> QED
        BY <1>1, <2>1, <3>1, <3>2
    <2>2. CASE called'[n] = d
      <3>1. i \in 1 .. i' /\ nelhs'[i] = nelhs[i]
        BY <1>1, <1>3, <1>4
      <3> QED
        BY <1>3, <2>2, <3>1
    <2> QED
      BY <1>6, <2>1, <2>2
  <1>10. ASSUME NEW e \in due', e[1] \notin disposed', e \notin Range(called'), e \notin left'
         PROVE  Ahead(e)'
    <2>1. CASE e \in due
      <3>1. e \notin left /\ e[1] \notin disposed /\ e \notin Range(called)
        BY <1>2, <1>4, <1>6, <1>10
      <3>2. Ahead(e)
        BY <1>3, <2>1, <3>1 DEF Walk
      <3>3. PICK k \in i + 1 .. Len(nelhs) :
                /\ nelhs[k] = e[1]
                /\ e[2] \in DOMAIN listeners[e[1]] /\ listeners[e[1]][e[2]] = type
        BY <3>2 DEF Ahead
      <3>4. k \in DOMAIN nelhs /\ k \in i' + 1 .. Len(nelhs')
        BY <1>1, <1>3, <1>4, <1>5
      <3>5. e[1] \in 1 .. created /\ e[1] \in DOMAIN listeners
        <4>1. nelhs[k] \in 1 .. created
          BY <1>3, <3>4, ElementOfSeq DEF Numbered
        <4>2. e[1] \in Handlers
          BY <1>4
        <4> QED
          BY <1>3, <3>3, <4>1, <4>2 DEF Numbered
      <3>6. e[2] \in DOMAIN listeners'[e[1]] /\ listeners'[e[1]][e[2]] = type
        BY <1>3, <1>4, <3>3, <3>5 DEF Numbered
      <3>7. nelhs'[k] = e[1]
        BY <1>4, <3>3, <3>4
      <3> QED
        BY <1>1, <3>4, <3>6, <3>7 DEF Ahead
    <2>2. CASE \E k \in Len(nelhs) + 1 .. Len(nelhs') :
                   /\ nelhs'[k] = e[1]
                   /\ e[2] \in DOMAIN listeners'[e[1]]
                   /\ listeners'[e[1]][e[2]] = type
      <3>1. \A k \in Len(nelhs) + 1 .. Len(nelhs') : k \in i' + 1 .. Len(nelhs')
        BY <1>1, <1>3, <1>5
      <3> QED
        BY <1>1, <2>2, <3>1 DEF Ahead
    <2> QED
      BY <1>4, <2>1, <2>2
  <1>11. i' \in Nat /\ i' <= Len(nelhs') /\ type' \in Types \cup {NoType} /\ type' # NoType
    BY <1>1, <1>3, <1>4, <1>5 DEF Walk
  <1> QED
    BY <1>4, <1>6, <1>7, <1>8, <1>9, <1>10, <1>11 DEF Walk

LEMMA ListenerThrowsWalks ==
    ASSUME Walk, ListenerThrows
    PROVE  Walk'
  <1>1. PICK d \in left : called' = Append(called, d)
    BY DEF ListenerThrows
  <1>2. /\ called' \in Seq(Handlers \X Nat)
        /\ \A m, n \in DOMAIN called' : called'[m] = called'[n] => m = n
    BY <1>1, CalledOnce
  <1>3. /\ type' = NoType /\ left' = {} /\ due' = {} /\ i' = i /\ nelhs' = nelhs
        /\ created' = created /\ listeners' = listeners /\ disposed' = disposed
    BY DEF ListenerThrows, handlerVars
  <1>4. Numbered'
    BY <1>3 DEF Walk, Numbered
  <1> QED
    BY <1>2, <1>3, <1>4 DEF Walk

LEMMA EndDispatchWalks ==
    ASSUME Walk, EndDispatch
    PROVE  Walk'
  <1>1. /\ type # NoType /\ left = {} /\ ~(i < Len(nelhs)) /\ nelhs' = Kept /\ type' = NoType
        /\ created' = created /\ listeners' = listeners /\ disposed' = disposed /\ i' = i
        /\ left' = left /\ due' = due /\ called' = called
    BY DEF EndDispatch, HasNext
  <1>2. Numbered'
    <2>1. /\ Kept \in Seq(1 .. created)
          /\ \A m, n \in DOMAIN Kept : Kept[m] = Kept[n] => m = n
      BY KeptIsDistinct DEF Walk, Numbered
    <2> QED
      BY <1>1, <2>1 DEF Walk, Numbered
  <1>3. \A d \in due : ~Ahead(d)
    <2>1. Len(nelhs) \in Nat /\ i \in Nat
      BY LenProperties DEF Walk, Numbered
    <2>2. i + 1 .. Len(nelhs) = {}
      BY <1>1, <2>1
    <2> QED
      BY <2>2 DEF Ahead
  <1>4. \A d \in due : d \in Range(called) \/ d[1] \in disposed
    BY <1>1, <1>3 DEF Walk
  <1> QED
    BY <1>1, <1>2, <1>4 DEF Walk

LEMMA NextWalks ==
    ASSUME Walk, [Next]_vars
    PROVE  Walk'
  <1>1. CASE UNCHANGED vars
    BY <1>1 DEF Walk, Numbered, Ahead, vars, handlerVars, loopVars
  <1> QED
    BY <1>1, ApplicationWalks, DispatchWalks, NextHandlerWalks, CallListenerWalks,
       ListenerThrowsWalks, EndDispatchWalks DEF Next

\* Every listener that an event is for is called, and none twice, whatever the
\* listeners do with handlers on the way: the loop by index over a vector that grows.
THEOREM EachCalledOnceTheorem == Spec => []EachCalledOnce
  <1>1. Walk => EachCalledOnce
    BY DEF Walk, EachCalledOnce
  <1>2. Walk /\ [Next]_vars => Walk'
    BY NextWalks
  <1> QED
    BY <1>1, <1>2, WalkInit, PTL DEF Spec
================================================================================
