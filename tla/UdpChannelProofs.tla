--------------------------- MODULE UdpChannelProofs ---------------------------
(****************************************************************************)
(* Proofs about UdpChannel, for every Msgs, Poison, Senders, MaxSend and    *)
(* MaxTries.                                                                *)
(****************************************************************************)
EXTENDS UdpChannel, TLAPS, SequenceTheorems

USE MaxSendAssumption, MaxTriesAssumption

-----------------------------------------------------------------------------
(* The buffer of received packages                                          *)

\* A buffer is a function from some package ids to packages.
LEMMA BufferIsFunction ==
    ASSUME NEW buffer
    PROVE  buffer \in Buffers <=>
               /\ DOMAIN buffer \subseteq PkgIds
               /\ buffer \in [DOMAIN buffer -> Msgs]
  BY DEF Buffers

\* Storing a package gives a buffer with that package and the others unchanged.
LEMMA StoreFacts ==
    ASSUME NEW buffer \in Buffers, NEW id \in PkgIds, NEW m \in Msgs
    PROVE  /\ Store(buffer, id, m) \in Buffers
           /\ DOMAIN Store(buffer, id, m) = DOMAIN buffer \cup {id}
           /\ Store(buffer, id, m)[id] = m
           /\ \A i \in DOMAIN buffer \ {id} : Store(buffer, id, m)[i] = buffer[i]
  <1>1. buffer \in [DOMAIN buffer -> Msgs] /\ DOMAIN buffer \subseteq PkgIds
    BY BufferIsFunction
  <1>2. Store(buffer, id, m) \in [DOMAIN buffer \cup {id} -> Msgs]
    BY <1>1 DEF Store
  <1>3. Store(buffer, id, m) \in Buffers
    BY <1>1, <1>2 DEF Buffers
  <1> QED
    BY <1>1, <1>2, <1>3 DEF Store

\* What one run of the yield loop handles is a sequence of packages.
LEMMA YieldedFacts ==
    ASSUME NEW buffer \in Buffers, NEW last \in Nat, NEW n \in Nat, n >= last,
           \A i \in last + 1 .. n : i \in DOMAIN buffer
    PROVE  /\ Yielded(buffer, last, n) \in Seq(Msgs)
           /\ Len(Yielded(buffer, last, n)) = n - last
           /\ \A i \in 1 .. n - last : Yielded(buffer, last, n)[i] = buffer[last + i]
  <1> DEFINE k == n - last
  <1>1. k \in Nat
    OBVIOUS
  <1>2. \A i \in 1 .. k : buffer[last + i] \in Msgs
    BY BufferIsFunction
  <1>3. Yielded(buffer, last, n) \in [1 .. k -> Msgs]
    BY <1>2 DEF Yielded
  <1> HIDE DEF k
  <1>4. Yielded(buffer, last, n) \in Seq(Msgs)
    BY <1>1, <1>3
  <1> QED
    BY <1>1, <1>3, <1>4 DEF Yielded, k

-----------------------------------------------------------------------------
(* Type correctness                                                         *)

\* The initial state has its types.
LEMMA InitType == Init => TypeOK
  <1> SUFFICES ASSUME Init PROVE TypeOK
    OBVIOUS
  <1>1. EmptyBuffer \in [{} -> Msgs]
    BY DEF EmptyBuffer
  <1>2. EmptyBuffer \in Buffers
    BY <1>1 DEF Buffers
  <1> QED
    BY <1>2 DEF Init, TypeOK, Side, handlerVars, sendVars, recvVars

\* Removing ids from a buffer leaves a buffer.
LEMMA EraseType ==
    ASSUME NEW buffer \in Buffers, NEW S
    PROVE  [i \in DOMAIN buffer \ S |-> buffer[i]] \in Buffers
  <1>1. PICK ids \in SUBSET PkgIds : buffer \in [ids -> Msgs]
    BY DEF Buffers
  <1>2. [i \in ids \ S |-> buffer[i]] \in [ids \ S -> Msgs]
    BY <1>1
  <1> QED
    BY <1>1, <1>2 DEF Buffers

\* The parts of the type invariant that speak of one side.
LEMMA SideTypes ==
    ASSUME TypeOK, NEW s \in Side
    PROVE  /\ next_pkg_id[s] \in 1 .. MaxSend + 1
           /\ unconfirmed_pkgs[s] \subseteq PkgIds
           /\ pkgs_buffer[s] \in Buffers
           /\ last_handled_pkg_id[s] \in 0 .. MaxSend
           /\ timers[s] \subseteq Timers
           /\ sent[s] \in Seq(Msgs)
           /\ delivered[s] \in Seq(Msgs)
  <1>1. next_pkg_id[s] \in 1 .. MaxSend + 1
    BY DEF TypeOK
  <1>2. unconfirmed_pkgs[s] \subseteq PkgIds
    BY DEF TypeOK
  <1>3. pkgs_buffer[s] \in Buffers
    BY DEF TypeOK
  <1>4. last_handled_pkg_id[s] \in 0 .. MaxSend
    BY DEF TypeOK
  <1>5. timers[s] \subseteq Timers
    BY DEF TypeOK
  <1>6. sent[s] \in Seq(Msgs)
    BY DEF TypeOK
  <1>7. delivered[s] \in Seq(Msgs)
    BY DEF TypeOK
  <1> QED
    BY <1>1, <1>2, <1>3, <1>4, <1>5, <1>6, <1>7

\* The three kinds of datagram, sent by a side.
LEMMA DgramTypes ==
    ASSUME NEW s \in Side
    PROVE  /\ Handshake \in HandshakeDgrams
           /\ \A id \in 0 .. MaxSend : Acknowledge(s, id) \in AckDgrams
           /\ \A id \in PkgIds, m \in Msgs : Data(s, id, m) \in DataDgrams
           /\ Peer(s) \in Side
  <1>1. Peer(s) \in Side
    BY DEF Peer, Side
  <1>2. Handshake \in HandshakeDgrams
    BY DEF Handshake, HandshakeDgrams
  <1>3. ASSUME NEW id \in 0 .. MaxSend PROVE Acknowledge(s, id) \in AckDgrams
    BY <1>1 DEF Acknowledge, AckDgrams
  <1>4. ASSUME NEW id \in PkgIds, NEW m \in Msgs PROVE Data(s, id, m) \in DataDgrams
    BY <1>1 DEF Data, DataDgrams
  <1> QED
    BY <1>1, <1>2, <1>3, <1>4

\* What ReceiveData does to the receiver when the package is new: it is stored
\* and the loop ends after package n.
Handles(s, id, m, n) ==
    LET buffer == Store(pkgs_buffer[s], id, m)
        last == last_handled_pkg_id[s]
    IN  /\ YieldsTo(s, buffer, last, n)
        /\ last_handled_pkg_id' = [last_handled_pkg_id EXCEPT ![s] = n]
        /\ delivered' = [delivered EXCEPT ![s] = @ \o Yielded(buffer, last, n)]
        /\ pkgs_buffer' =
               [pkgs_buffer EXCEPT
                   ![s] = [i \in DOMAIN buffer \ (last + 1 .. n) |-> buffer[i]]]

\* ReceiveData either stores and yields, or leaves the receiver as it is.
LEMMA ReceiveDataCases ==
    ASSUME NEW s, NEW id, NEW m, ReceiveData(s, id, m)
    PROVE  \/ ~IsNew(s, id) /\ UNCHANGED recvVars
           \/ IsNew(s, id) /\ \E n \in 0 .. MaxSend : Handles(s, id, m, n)
  BY DEF ReceiveData, Handles

\* What the loop handles is in the buffer, from the next package on.
LEMMA HandlesRange ==
    ASSUME TypeOK, NEW s \in Side, NEW id \in PkgIds, NEW m \in Msgs,
           NEW n \in 0 .. MaxSend, Handles(s, id, m, n)
    PROVE  /\ n >= last_handled_pkg_id[s]
           /\ \A i \in last_handled_pkg_id[s] + 1 .. n :
                  i \in DOMAIN Store(pkgs_buffer[s], id, m)
  <1>1. last_handled_pkg_id[s] \in Nat
    BY SideTypes
  <1> QED
    BY <1>1 DEF Handles, YieldsTo

\* The packages such a step handles, and those it leaves in the buffer.
Run(s, id, m, n) == Yielded(Store(pkgs_buffer[s], id, m), last_handled_pkg_id[s], n)
Remaining(s, id, m, n) ==
    LET buffer == Store(pkgs_buffer[s], id, m)
    IN  [i \in DOMAIN buffer \ (last_handled_pkg_id[s] + 1 .. n) |-> buffer[i]]

\* The state of both sides after such a step.
LEMMA HandlesEffect ==
    ASSUME TypeOK, NEW s \in Side, NEW id, NEW m, NEW n, Handles(s, id, m, n)
    PROVE  /\ last_handled_pkg_id'[s] = n
           /\ delivered'[s] = delivered[s] \o Run(s, id, m, n)
           /\ pkgs_buffer'[s] = Remaining(s, id, m, n)
           /\ \A r \in Side \ {s} : /\ last_handled_pkg_id'[r] = last_handled_pkg_id[r]
                                    /\ delivered'[r] = delivered[r]
                                    /\ pkgs_buffer'[r] = pkgs_buffer[r]
  <1>1. /\ last_handled_pkg_id \in [Side -> 0 .. MaxSend]
        /\ delivered \in [Side -> Seq(Msgs)]
        /\ pkgs_buffer \in [Side -> Buffers]
    BY DEF TypeOK
  <1>2. /\ last_handled_pkg_id' = [last_handled_pkg_id EXCEPT ![s] = n]
        /\ delivered' = [delivered EXCEPT ![s] = @ \o Run(s, id, m, n)]
        /\ pkgs_buffer' = [pkgs_buffer EXCEPT ![s] = Remaining(s, id, m, n)]
    BY DEF Handles, Run, Remaining
  <1> QED
    BY <1>1, <1>2

\* handle_pkg of a data package leaves the receiver's state well typed.
LEMMA ReceiveDataType ==
    ASSUME TypeOK, NEW s \in Side, NEW id \in PkgIds, NEW m \in Msgs,
           ReceiveData(s, id, m)
    PROVE  TypeOK'
  <1>1. net' \subseteq Dgrams
    <2>1. id \in 0 .. MaxSend
      BY DEF PkgIds
    <2>2. Acknowledge(s, id) \in Dgrams
      BY <2>1, DgramTypes DEF Dgrams
    <2> QED
      BY <2>2 DEF ReceiveData, TypeOK
  <1>2. /\ pkgs_buffer' \in [Side -> Buffers]
        /\ last_handled_pkg_id' \in [Side -> 0 .. MaxSend]
        /\ delivered' \in [Side -> Seq(Msgs)]
    <2>1. CASE ~IsNew(s, id)
      BY <2>1, ReceiveDataCases DEF recvVars, TypeOK
    <2>2. CASE IsNew(s, id)
      <3> DEFINE buffer == Store(pkgs_buffer[s], id, m)
                 last == last_handled_pkg_id[s]
      <3>1. PICK n \in 0 .. MaxSend : Handles(s, id, m, n)
        BY <2>2, ReceiveDataCases
      <3>2. buffer \in Buffers
        BY SideTypes, StoreFacts
      <3>3. last \in Nat /\ n \in Nat
        BY SideTypes
      <3>4. Yielded(buffer, last, n) \in Seq(Msgs)
        BY <3>1, <3>2, <3>3, HandlesRange, YieldedFacts
      <3> DEFINE rest == [i \in DOMAIN buffer \ (last + 1 .. n) |-> buffer[i]]
                 more == delivered[s] \o Yielded(buffer, last, n)
      <3>5. rest \in Buffers
        BY <3>2, EraseType
      <3>6. more \in Seq(Msgs)
        BY <3>4, SideTypes
      <3>7. /\ pkgs_buffer' = [pkgs_buffer EXCEPT ![s] = rest]
            /\ last_handled_pkg_id' = [last_handled_pkg_id EXCEPT ![s] = n]
            /\ delivered' = [delivered EXCEPT ![s] = more]
        BY <3>1 DEF Handles
      <3>8. /\ pkgs_buffer \in [Side -> Buffers]
            /\ last_handled_pkg_id \in [Side -> 0 .. MaxSend]
            /\ delivered \in [Side -> Seq(Msgs)]
        BY DEF TypeOK
      <3> HIDE DEF rest, more
      <3> QED
        BY <3>5, <3>6, <3>7, <3>8
    <2> QED
      BY <2>1, <2>2
  <1> QED
    BY <1>1, <1>2 DEF ReceiveData, TypeOK, handlerVars, sendVars

\* The timer handler of _send leaves the sender's state well typed: the count of
\* a transmission never exceeds MaxTries + 1.
LEMMA CheckRetryType ==
    ASSUME TypeOK, NEW s \in Side, NEW t \in timers[s], CheckRetry(s, t)
    PROVE  TypeOK'
  <1>1. t \in Timers
    BY SideTypes
  <1>2. /\ timers' \in [Side -> SUBSET Timers]
        /\ net' \subseteq Dgrams
    <2> DEFINE rest == timers[s] \ {t}
    <2>1. /\ timers \in [Side -> SUBSET Timers]
          /\ rest \subseteq Timers
          /\ net \subseteq Dgrams
      BY SideTypes DEF TypeOK
    <2>2. CASE timers' = [timers EXCEPT ![s] = rest] /\ UNCHANGED net
      BY <2>1, <2>2
    <2>3. CASE /\ ~GivesUp(t.count)
               /\ net' = net \cup {t.dgram}
               /\ timers' = [timers EXCEPT ![s] = rest \cup Retried(t)]
      <3>1. t.dgram \in DataDgrams \cup HandshakeDgrams /\ t.count \in 0 .. MaxTries + 1
        BY <1>1 DEF Timers
      <3>2. t.count + 1 \in 0 .. MaxTries + 1
        BY <2>3, <3>1 DEF GivesUp
      <3>3. Retried(t) \subseteq Timers
        BY <3>1, <3>2 DEF Timers, Retried
      <3> QED
        BY <2>1, <2>3, <3>1, <3>3 DEF Dgrams
    <2> QED
      BY <2>2, <2>3 DEF CheckRetry
  <1>3. /\ io' \in [Side -> {"running", "dropped", "send error", "crashed"}]
        /\ connection_state' \in [Side -> {"connected", "full", "disconnected"}]
    BY DEF CheckRetry, Throw, TypeOK
  <1> QED
    BY <1>2, <1>3 DEF CheckRetry, recvVars, TypeOK

\* A send leaves the sender's state well typed.
LEMMA SendType ==
    ASSUME TypeOK, NEW s \in Side, NEW m \in Msgs, Send(s, m)
    PROVE  TypeOK'
  <1> DEFINE id == next_pkg_id[s]
             d == Data(s, id, m)
  <1>1. id \in PkgIds /\ id + 1 \in 1 .. MaxSend + 1
    BY SideTypes DEF Send, PkgIds
  <1>2. d \in DataDgrams
    BY <1>1, DgramTypes
  <1>3. [dgram |-> d, count |-> 0] \in Timers /\ d \in Dgrams
    BY <1>2 DEF Timers, Dgrams
  <1>4. net' \subseteq Dgrams /\ timers' \in [Side -> SUBSET Timers]
    <2>1. net' = net \cup {d}
      BY DEF Send, Transmit
    <2>2. timers' = [timers EXCEPT ![s] = @ \cup {[dgram |-> d, count |-> 0]}]
      BY DEF Send, Transmit
    <2>3. net \subseteq Dgrams /\ timers \in [Side -> SUBSET Timers]
      BY DEF TypeOK
    <2> HIDE DEF d
    <2> QED
      BY <1>3, <2>1, <2>2, <2>3
  <1>5. sent' \in [Side -> Seq(Msgs)]
    <2>1. sent \in [Side -> Seq(Msgs)]
      BY DEF TypeOK
    <2> QED
      BY <2>1 DEF Send
  <1>6. next_pkg_id' \in [Side -> 1 .. MaxSend + 1]
    BY <1>1 DEF Send, TypeOK
  <1>7. unconfirmed_pkgs' \in [Side -> SUBSET PkgIds]
    BY <1>1 DEF Send, TypeOK
  <1> QED
    BY <1>4, <1>5, <1>6, <1>7 DEF Send, handlerVars, recvVars, TypeOK

\* The client's handshake leaves its state well typed.
LEMMA SetupUdpType == ASSUME TypeOK, SetupUdp PROVE TypeOK'
  <1> DEFINE wait == [dgram |-> Handshake, count |-> 0]
  <1>1. Handshake \in HandshakeDgrams
    BY DgramTypes DEF Side
  <1>2. wait \in Timers /\ Handshake \in Dgrams
    BY <1>1 DEF Timers, Dgrams
  <1>3. net' \subseteq Dgrams /\ timers' \in [Side -> SUBSET Timers]
    <2>1. net' = net \cup {Handshake}
      BY DEF SetupUdp, Transmit
    <2>2. timers' = [timers EXCEPT !["client"] = @ \cup {wait}]
      BY DEF SetupUdp, Transmit
    <2>3. net \subseteq Dgrams /\ timers \in [Side -> SUBSET Timers]
      BY DEF TypeOK
    <2> HIDE DEF wait
    <2> QED
      BY <1>2, <2>1, <2>2, <2>3 DEF Side
  <1> QED
    BY <1>3 DEF SetupUdp, Side, TypeOK, recvVars

\* Every step preserves the type invariant.
LEMMA NextType == TypeOK /\ [Next]_vars => TypeOK'
  <1> SUFFICES ASSUME TypeOK, [Next]_vars PROVE TypeOK'
    OBVIOUS
  <1> USE DEF handlerVars, sendVars, recvVars
  <1>1. CASE SetupUdp
    BY <1>1, SetupUdpType
  <1>2. CASE ReceiveHandshake
    <2>1. Acknowledge("server", 0) \in Dgrams
      BY DgramTypes DEF Dgrams, Side
    <2> QED
      BY <1>2, <2>1 DEF ReceiveHandshake, Side, TypeOK
  <1>3. ASSUME NEW s \in Side, NEW id \in 0 .. MaxSend, ReceiveAck(s, id)
        PROVE  TypeOK'
    BY <1>3 DEF ReceiveAck, ConfirmedState, TypeOK
  <1>4. ASSUME NEW s \in Side, NEW id \in PkgIds, NEW m \in Msgs, ReceiveData(s, id, m)
        PROVE  TypeOK'
    BY <1>4, ReceiveDataType
  <1>5. ASSUME NEW s \in Side, NEW m \in Msgs, Send(s, m)
        PROVE  TypeOK'
    BY <1>5, SendType
  <1>6. ASSUME NEW s \in Side, NEW t \in timers[s], CheckRetry(s, t)
        PROVE  TypeOK'
    BY <1>6, CheckRetryType
  <1>7. ASSUME NEW s \in Side, SendFails(s)
        PROVE  TypeOK'
    BY <1>7 DEF SendFails, Throw, TypeOK
  <1>8. ASSUME NEW s \in Side, Close(s)
        PROVE  TypeOK'
    BY <1>8 DEF Close, TypeOK
  <1>9. CASE CloseCrashes
    BY <1>9 DEF CloseCrashes, Throw, Side, TypeOK
  <1>10. CASE RemoveClient
    BY <1>10 DEF RemoveClient, Side, TypeOK
  <1>11. CASE UNCHANGED vars
    BY <1>11 DEF vars, TypeOK
  <1> QED
    BY <1>1, <1>2, <1>3, <1>4, <1>5, <1>6, <1>7, <1>8, <1>9, <1>10, <1>11 DEF Next

\* Every variable of the channel keeps its type in every reachable state.
THEOREM TypeCorrect == Spec => []TypeOK
  <1> QED
    BY InitType, NextType, PTL DEF Spec
-----------------------------------------------------------------------------
(* Order: what is in the network, in a buffer or handled was sent.          *)

\* Packages are numbered from 1 in the order in which they are sent.
Numbering == \A s \in Side : Len(sent[s]) = next_pkg_id[s] - 1

\* A data datagram carries the package its id numbers.
DataWasSent ==
    \A s \in Side : \A id \in PkgIds, m \in Msgs :
        Data(s, id, m) \in net => id \in 1 .. Len(sent[s]) /\ sent[s][id] = m

\* What a timer may transmit again was transmitted before.
TimersRepeat == \A s \in Side : \A t \in timers[s] : t.dgram \in net

\* So does a buffer, and only for ids that are still to be handled.
BufferedWasSent ==
    \A s \in Side : \A id \in DOMAIN pkgs_buffer[s] :
        /\ id \in 1 .. Len(sent[Peer(s)])
        /\ pkgs_buffer[s][id] = sent[Peer(s)][id]
        /\ id > last_handled_pkg_id[s]

\* last_handled_pkg_id counts the packages handled.
HandledIsCounted == \A s \in Side : Len(delivered[s]) = last_handled_pkg_id[s]

OrderInv ==
    /\ Numbering
    /\ DataWasSent
    /\ TimersRepeat
    /\ BufferedWasSent
    /\ HandledIsCounted
    /\ InOrderExactlyOnce

\* The variables OrderInv speaks of.
orderVars == <<next_pkg_id, timers, net, sent, recvVars>>

\* At first nothing is numbered, sent, buffered or handled.
LEMMA InitOrder == Init => OrderInv
  <1> SUFFICES ASSUME Init PROVE OrderInv
    OBVIOUS
  <1>1. \A s \in Side : Peer(s) \in Side
    BY DEF Peer, Side
  <1>2. \A s \in Side : DOMAIN pkgs_buffer[s] = {}
    BY DEF Init, EmptyBuffer
  <1>3. Numbering /\ DataWasSent /\ TimersRepeat /\ HandledIsCounted
    BY DEF Init, Numbering, DataWasSent, TimersRepeat, HandledIsCounted
  <1>4. BufferedWasSent
    BY <1>2 DEF BufferedWasSent
  <1>5. InOrderExactlyOnce
    BY <1>1 DEF Init, InOrderExactlyOnce
  <1> QED
    BY <1>3, <1>4, <1>5 DEF OrderInv

\* The handshake's datagrams are not data, so they disturb nothing.
LEMMA OrderKept ==
    ASSUME TypeOK, OrderInv, NEW d,
           net' = net \cup {d},
           \A s \in Side : \A id \in PkgIds, m \in Msgs : d # Data(s, id, m),
           \A s \in Side : \A t \in timers'[s] : t \in timers[s] \/ t.dgram = d,
           UNCHANGED <<next_pkg_id, sent, recvVars>>
    PROVE  OrderInv'
  <1> USE DEF OrderInv, recvVars
  <1>1. Numbering'
    BY DEF Numbering
  <1>2. DataWasSent'
    BY DEF DataWasSent, Data
  <1>3. TimersRepeat'
    BY DEF TimersRepeat
  <1>4. BufferedWasSent'
    BY DEF BufferedWasSent
  <1>5. HandledIsCounted' /\ InOrderExactlyOnce'
    BY DEF HandledIsCounted, InOrderExactlyOnce
  <1> QED
    BY <1>1, <1>2, <1>3, <1>4, <1>5

\* A package that is sent takes the next number.
LEMMA SendOrder ==
    ASSUME TypeOK, OrderInv, NEW s \in Side, NEW m \in Msgs, Send(s, m)
    PROVE  OrderInv'
  <1> DEFINE id == next_pkg_id[s]
             d == Data(s, id, m)
  <1>1. id \in PkgIds
    BY SideTypes DEF Send, PkgIds
  <1>2. sent' = [sent EXCEPT ![s] = Append(@, m)] /\ sent \in [Side -> Seq(Msgs)]
    BY DEF Send, TypeOK
  <1>3. /\ Len(sent[s]) = id - 1
        /\ sent'[s] = Append(sent[s], m)
        /\ \A r \in Side \ {s} : sent'[r] = sent[r]
    BY <1>2 DEF OrderInv, Numbering
  <1>4. Len(sent'[s]) = id /\ sent'[s][id] = m
    BY <1>1, <1>3, SideTypes DEF PkgIds
  <1>5. \A r \in Side : \A i \in 1 .. Len(sent[r]) :
            i \in 1 .. Len(sent'[r]) /\ sent'[r][i] = sent[r][i]
    BY <1>2, <1>3, SideTypes
  <1>6. net' = net \cup {d} /\ UNCHANGED recvVars
    BY DEF Send, Transmit
  <1>7. Numbering'
    <2>1. next_pkg_id \in [Side -> 1 .. MaxSend + 1]
      BY DEF TypeOK
    <2>2. next_pkg_id' = [next_pkg_id EXCEPT ![s] = @ + 1]
      BY DEF Send
    <2>3. next_pkg_id'[s] = id + 1 /\ \A r \in Side \ {s} : next_pkg_id'[r] = next_pkg_id[r]
      BY <2>1, <2>2
    <2>4. id \in Nat
      BY <1>1 DEF PkgIds
    <2> QED
      BY <1>3, <1>4, <2>3, <2>4 DEF Numbering, OrderInv
  <1>8. DataWasSent'
    <2> SUFFICES ASSUME NEW r \in Side, NEW i \in PkgIds, NEW k \in Msgs, Data(r, i, k) \in net'
                 PROVE  i \in 1 .. Len(sent'[r]) /\ sent'[r][i] = k
      BY DEF DataWasSent, Data
    <2>1. CASE Data(r, i, k) \in net
      BY <1>5, <2>1 DEF OrderInv, DataWasSent
    <2>2. CASE Data(r, i, k) = d
      <3>1. r = s /\ i = id /\ k = m
        BY <2>2 DEF Data, Peer, Side
      <3> QED
        BY <1>1, <1>4, <3>1 DEF PkgIds
    <2> QED
      BY <1>6, <2>1, <2>2
  <1>9. TimersRepeat'
    <2>1. timers' = [timers EXCEPT ![s] = @ \cup {[dgram |-> d, count |-> 0]}]
      BY DEF Send, Transmit
    <2>2. timers \in [Side -> SUBSET Timers]
      BY DEF TypeOK
    <2> HIDE DEF d
    <2>3. \A r \in Side : \A t \in timers'[r] : t \in timers[r] \/ t.dgram = d
      BY <2>1, <2>2
    <2> QED
      BY <1>6, <2>3 DEF OrderInv, TimersRepeat
  <1>10. BufferedWasSent'
    <2> SUFFICES ASSUME NEW r \in Side, NEW i \in DOMAIN pkgs_buffer[r]
                 PROVE  /\ i \in 1 .. Len(sent'[Peer(r)])
                        /\ pkgs_buffer[r][i] = sent'[Peer(r)][i]
                        /\ i > last_handled_pkg_id[r]
      BY <1>6 DEF BufferedWasSent, recvVars
    <2>1. /\ i \in 1 .. Len(sent[Peer(r)])
          /\ pkgs_buffer[r][i] = sent[Peer(r)][i]
          /\ i > last_handled_pkg_id[r]
      BY DEF OrderInv, BufferedWasSent
    <2>2. Peer(r) \in Side
      BY DgramTypes
    <2> QED
      BY <1>5, <2>1, <2>2
  <1>11. HandledIsCounted'
    BY <1>6 DEF OrderInv, HandledIsCounted, recvVars
  <1>12. InOrderExactlyOnce'
    <2> SUFFICES ASSUME NEW r \in Side
                 PROVE  /\ Len(delivered[r]) <= Len(sent'[Peer(r)])
                        /\ \A i \in 1 .. Len(delivered[r]) :
                               delivered[r][i] = sent'[Peer(r)][i]
      BY <1>6 DEF InOrderExactlyOnce, recvVars
    <2>1. Peer(r) \in Side
      BY DgramTypes
    <2>2. /\ Len(delivered[r]) <= Len(sent[Peer(r)])
          /\ \A i \in 1 .. Len(delivered[r]) : delivered[r][i] = sent[Peer(r)][i]
      BY DEF OrderInv, InOrderExactlyOnce
    <2>3. Len(sent[Peer(r)]) \in Nat /\ Len(delivered[r]) \in Nat
      BY <2>1, SideTypes
    <2>4. id \in Nat /\ id = Len(sent[s]) + 1
      BY <1>1, <1>3 DEF PkgIds
    <2>5. /\ Len(sent'[Peer(r)]) \in Nat
          /\ Len(sent'[Peer(r)]) >= Len(sent[Peer(r)])
      <3>1. CASE Peer(r) = s
        BY <1>4, <2>3, <2>4, <3>1
      <3>2. CASE Peer(r) # s
        BY <1>3, <2>1, <2>3, <3>2
      <3> QED
        BY <3>1, <3>2
    <2> QED
      BY <1>5, <2>1, <2>2, <2>3, <2>5
  <1> QED
    BY <1>7, <1>8, <1>9, <1>10, <1>11, <1>12 DEF OrderInv

\* Handling a run of packages from the buffer continues the sender's order.
LEMMA ReceiveDataOrder ==
    ASSUME TypeOK, OrderInv, NEW s \in Side, NEW id \in PkgIds, NEW m \in Msgs,
           ReceiveData(s, id, m)
    PROVE  OrderInv'
  <1> DEFINE p == Peer(s)
             ack == Acknowledge(s, id)
  <1>1. p \in Side
    BY DgramTypes
  <1>2. net' = net \cup {ack} /\ UNCHANGED sendVars
    BY DEF ReceiveData
  <1>3. \A r \in Side : \A i \in PkgIds, k \in Msgs : ack # Data(r, i, k)
    BY DEF Acknowledge, Data
  <1>4. CASE ~IsNew(s, id)
    <2>1. UNCHANGED recvVars
      BY <1>4, ReceiveDataCases
    <2> HIDE DEF ack
    <2> QED
      BY <1>2, <1>3, <2>1, OrderKept DEF sendVars
  <1>5. CASE IsNew(s, id)
    <2> DEFINE buffer == Store(pkgs_buffer[s], id, m)
               last == last_handled_pkg_id[s]
    <2>1. PICK n \in 0 .. MaxSend : Handles(s, id, m, n)
      BY <1>5, ReceiveDataCases
    <2>2. last \in Nat /\ n \in Nat /\ buffer \in Buffers /\ Len(sent[p]) \in Nat
      <3>1. pkgs_buffer[s] \in Buffers /\ last \in 0 .. MaxSend /\ sent[p] \in Seq(Msgs)
        BY <1>1, SideTypes
      <3>2. buffer \in Buffers
        BY <3>1, StoreFacts
      <3> QED
        BY <3>1, <3>2
    <2>3. n >= last /\ \A i \in last + 1 .. n : i \in DOMAIN buffer
      BY <2>1, HandlesRange
    <2>4. id \in 1 .. Len(sent[p]) /\ sent[p][id] = m
      BY <1>1 DEF ReceiveData, OrderInv, DataWasSent
    <2>5. \A i \in DOMAIN buffer :
              i \in 1 .. Len(sent[p]) /\ buffer[i] = sent[p][i] /\ i > last
      <3>1. \A i \in DOMAIN pkgs_buffer[s] :
                i \in 1 .. Len(sent[p]) /\ pkgs_buffer[s][i] = sent[p][i] /\ i > last
        BY DEF OrderInv, BufferedWasSent
      <3>2. id > last
        BY <1>5 DEF IsNew
      <3>3. /\ DOMAIN buffer = DOMAIN pkgs_buffer[s] \cup {id}
            /\ buffer[id] = m
            /\ \A i \in DOMAIN pkgs_buffer[s] \ {id} : buffer[i] = pkgs_buffer[s][i]
        <4>1. pkgs_buffer[s] \in Buffers
          BY SideTypes
        <4> QED
          BY <4>1, StoreFacts
      <3> HIDE DEF buffer, last, p
      <3> QED
        BY <2>4, <3>1, <3>2, <3>3
    <2> DEFINE run == Run(s, id, m, n)
               rest == Remaining(s, id, m, n)
    <2>6. /\ run \in Seq(Msgs)
          /\ Len(run) = n - last
          /\ \A i \in 1 .. n - last : run[i] = buffer[last + i]
      BY <2>2, <2>3, YieldedFacts DEF Run
    <2>7. /\ last_handled_pkg_id'[s] = n
          /\ delivered'[s] = delivered[s] \o run
          /\ pkgs_buffer'[s] = rest
          /\ \A r \in Side \ {s} : /\ last_handled_pkg_id'[r] = last_handled_pkg_id[r]
                                   /\ delivered'[r] = delivered[r]
                                   /\ pkgs_buffer'[r] = pkgs_buffer[r]
      BY <2>1, HandlesEffect
    <2>8. Len(delivered[s]) = last /\ delivered[s] \in Seq(Msgs)
      BY SideTypes DEF OrderInv, HandledIsCounted
    <2>9. sent' = sent /\ next_pkg_id' = next_pkg_id /\ timers' = timers
      BY <1>2 DEF sendVars
    <2>0. rest = [i \in DOMAIN buffer \ (last + 1 .. n) |-> buffer[i]]
      BY DEF Remaining
    <2> HIDE DEF run, rest, buffer, last, ack
    <2>10. Len(delivered'[s]) = n
      BY <2>2, <2>3, <2>6, <2>7, <2>8
    <2>11. Numbering'
      BY <2>9 DEF OrderInv, Numbering
    <2>12. DataWasSent'
      BY <1>2, <1>3, <2>9 DEF OrderInv, DataWasSent, Data
    <2>13. TimersRepeat'
      BY <1>2, <2>9 DEF OrderInv, TimersRepeat
    <2>14. BufferedWasSent'
      <3> SUFFICES ASSUME NEW r \in Side, NEW i \in DOMAIN pkgs_buffer'[r]
                   PROVE  /\ i \in 1 .. Len(sent[Peer(r)])
                          /\ pkgs_buffer'[r][i] = sent[Peer(r)][i]
                          /\ i > last_handled_pkg_id'[r]
        BY <2>9 DEF BufferedWasSent
      <3>1. CASE r = s
        <4>1. i \in DOMAIN buffer /\ i \notin last + 1 .. n /\ rest[i] = buffer[i]
          BY <2>0, <2>7, <3>1
        <4>2. i > n
          BY <2>2, <2>5, <4>1
        <4> QED
          BY <2>5, <2>7, <3>1, <4>1, <4>2
      <3>2. CASE r # s
        BY <2>7, <3>2 DEF OrderInv, BufferedWasSent
      <3> QED
        BY <3>1, <3>2
    <2>15. HandledIsCounted'
      BY <2>7, <2>10 DEF OrderInv, HandledIsCounted
    <2>16. InOrderExactlyOnce'
      <3>1. n <= Len(sent[p])
        <4>1. CASE n = last
          BY <2>8, <4>1 DEF OrderInv, InOrderExactlyOnce
        <4>2. CASE n > last
          BY <2>2, <2>3, <2>5, <4>2
        <4> QED
          BY <2>2, <2>3, <4>1, <4>2
      <3>2. \A i \in 1 .. n : delivered'[s][i] = sent[p][i]
        <4> SUFFICES ASSUME NEW i \in 1 .. n PROVE delivered'[s][i] = sent[p][i]
          OBVIOUS
        <4>1. CASE i <= last
          <5>1. delivered'[s][i] = delivered[s][i]
            BY <2>2, <2>6, <2>7, <2>8, <4>1
          <5>2. i \in 1 .. Len(delivered[s])
            BY <2>2, <2>8, <4>1
          <5> QED
            BY <5>1, <5>2 DEF OrderInv, InOrderExactlyOnce
        <4>2. CASE i > last
          <5>1. i - last \in 1 .. n - last /\ i \in last + 1 .. n
            BY <2>2, <2>3, <4>2
          <5>2. delivered'[s][i] = run[i - last]
            BY <2>2, <2>3, <2>6, <2>7, <2>8, <4>2
          <5>3. run[i - last] = buffer[last + (i - last)]
            BY <2>6, <5>1
          <5>4. last + (i - last) = i
            BY <2>2
          <5> QED
            BY <2>3, <2>5, <5>1, <5>2, <5>3, <5>4
        <4> QED
          BY <2>2, <4>1, <4>2
      <3> QED
        BY <2>7, <2>9, <2>10, <3>1, <3>2 DEF OrderInv, InOrderExactlyOnce
    <2> QED
      BY <2>11, <2>12, <2>13, <2>14, <2>15, <2>16 DEF OrderInv
  <1> QED
    BY <1>4, <1>5

\* Every step preserves OrderInv.
LEMMA NextOrder == TypeOK /\ OrderInv /\ [Next]_vars => OrderInv'
  <1> SUFFICES ASSUME TypeOK, OrderInv, [Next]_vars PROVE OrderInv'
    OBVIOUS
  <1>1. CASE UNCHANGED orderVars
    BY <1>1 DEF orderVars, recvVars, OrderInv, Numbering, DataWasSent, TimersRepeat,
                BufferedWasSent, HandledIsCounted, InOrderExactlyOnce
  <1>2. CASE SetupUdp
    <2>1. \A s \in Side : \A i \in PkgIds, m \in Msgs : Handshake # Data(s, i, m)
      BY DEF Handshake, Data
    <2>2. net' = net \cup {Handshake} /\ UNCHANGED <<next_pkg_id, sent, recvVars>>
      BY <1>2 DEF SetupUdp, Transmit
    <2>3. \A s \in Side : \A t \in timers'[s] : t \in timers[s] \/ t.dgram = Handshake
      <3>1. timers \in [Side -> SUBSET Timers]
        BY DEF TypeOK
      <3>2. timers' = [timers EXCEPT !["client"] = @ \cup {[dgram |-> Handshake, count |-> 0]}]
        BY <1>2 DEF SetupUdp, Transmit
      <3> QED
        BY <3>1, <3>2
    <2> QED
      BY <2>1, <2>2, <2>3, OrderKept
  <1>3. CASE ReceiveHandshake
    <2> DEFINE ack == Acknowledge("server", 0)
    <2>1. \A s \in Side : \A i \in PkgIds, m \in Msgs : ack # Data(s, i, m)
      BY DEF Acknowledge, Data
    <2>2. net' = net \cup {ack} /\ UNCHANGED <<next_pkg_id, sent, recvVars, timers>>
      BY <1>3 DEF ReceiveHandshake, sendVars
    <2> HIDE DEF ack
    <2> QED
      BY <2>1, <2>2, OrderKept
  <1>4. ASSUME NEW s \in Side, NEW id \in PkgIds, NEW m \in Msgs, ReceiveData(s, id, m)
        PROVE  OrderInv'
    BY <1>4, ReceiveDataOrder
  <1>5. ASSUME NEW s \in Side, NEW m \in Msgs, Send(s, m)
        PROVE  OrderInv'
    BY <1>5, SendOrder
  <1>6. ASSUME NEW s \in Side, NEW t \in timers[s], CheckRetry(s, t)
        PROVE  OrderInv'
    <2>1. t.dgram \in net
      BY DEF OrderInv, TimersRepeat
    <2>2. net' = net /\ UNCHANGED <<next_pkg_id, sent, recvVars>>
      BY <1>6, <2>1 DEF CheckRetry
    <2>3. \A r \in Side : \A u \in timers'[r] : u.dgram \in net
      <3>1. timers \in [Side -> SUBSET Timers]
        BY DEF TypeOK
      <3>2. \A u \in Retried(t) : u.dgram = t.dgram
        BY DEF Retried
      <3>3. \/ timers' = [timers EXCEPT ![s] = timers[s] \ {t}]
            \/ timers' = [timers EXCEPT ![s] = (timers[s] \ {t}) \cup Retried(t)]
        BY <1>6 DEF CheckRetry
      <3>4. \A r \in Side : \A u \in timers'[r] : u \in timers[r] \/ u.dgram = t.dgram
        BY <3>1, <3>2, <3>3
      <3> QED
        BY <2>1, <3>4 DEF OrderInv, TimersRepeat
    <2>4. TimersRepeat'
      BY <2>2, <2>3 DEF TimersRepeat
    <2> QED
      BY <2>2, <2>4 DEF OrderInv, recvVars, Numbering, DataWasSent,
                        BufferedWasSent, HandledIsCounted, InOrderExactlyOnce
  <1> QED
    BY <1>1, <1>2, <1>3, <1>4, <1>5, <1>6
       DEF Next, ReceiveAck, SendFails, Close, CloseCrashes, RemoveClient,
           vars, orderVars, sendVars, handlerVars

\* Each direction of the channel delivers a prefix of what was sent.
THEOREM Ordered == Spec => []InOrderExactlyOnce
  <1>1. OrderInv => InOrderExactlyOnce
    BY DEF OrderInv
  <1> QED
    BY <1>1, InitOrder, NextOrder, TypeCorrect, InitType, NextType, PTL DEF Spec

\* A late duplicate leaves nothing behind in the buffer.
THEOREM OnlyPending == Spec => []BufferHoldsOnlyPending
  <1>1. OrderInv => BufferHoldsOnlyPending
    BY DEF OrderInv, BufferedWasSent, BufferHoldsOnlyPending
  <1> QED
    BY <1>1, InitOrder, NextOrder, TypeCorrect, InitType, NextType, PTL DEF Spec
-----------------------------------------------------------------------------
(* Receipt: an acknowledgement is never sent for a package that is lost     *)
(* again, and the yield loop leaves nothing it could handle.                *)

\* An acknowledgement in the network is for a package the side that sent it has.
AcksAreTrue ==
    \A s \in Side : \A id \in PkgIds : Acknowledge(s, id) \in net => HasPkg(s, id)

\* Nothing is received before the channel is there.
BufferNeedsChannel == \A s \in Side : ~channel[s] => DOMAIN pkgs_buffer[s] = {}

ReceiptInv ==
    /\ AcksAreTrue
    /\ AckedMeansReceived
    /\ BufferNeedsChannel
    /\ NoStuckPackage

\* At first nothing is acknowledged or buffered.
LEMMA InitReceipt == Init => ReceiptInv
  <1> SUFFICES ASSUME Init PROVE ReceiptInv
    OBVIOUS
  <1>1. \A s \in Side : DOMAIN pkgs_buffer[s] = {}
    BY DEF Init, EmptyBuffer
  <1>2. AcksAreTrue /\ AckedMeansReceived
    BY DEF Init, AcksAreTrue, AckedMeansReceived
  <1>3. BufferNeedsChannel /\ NoStuckPackage
    BY <1>1 DEF BufferNeedsChannel, NoStuckPackage
  <1> QED
    BY <1>2, <1>3 DEF ReceiptInv

\* A side never loses a package it has.
LEMMA PkgIsKept ==
    ASSUME TypeOK, [Next]_vars, NEW s \in Side, NEW k \in PkgIds, HasPkg(s, k)
    PROVE  HasPkg(s, k)'
  <1>1. CASE UNCHANGED recvVars
    BY <1>1 DEF HasPkg, recvVars
  <1>2. ASSUME NEW r \in Side, NEW id \in PkgIds, NEW m \in Msgs, ReceiveData(r, id, m)
        PROVE  HasPkg(s, k)'
    <2>1. CASE r # s \/ ~IsNew(r, id)
      <3>1. CASE ~IsNew(r, id)
        BY <1>1, <1>2, <3>1, ReceiveDataCases
      <3>2. CASE IsNew(r, id) /\ r # s
        <4>1. PICK n \in 0 .. MaxSend : Handles(r, id, m, n)
          BY <1>2, <3>2, ReceiveDataCases
        <4>2. /\ last_handled_pkg_id'[s] = last_handled_pkg_id[s]
              /\ pkgs_buffer'[s] = pkgs_buffer[s]
          BY <3>2, <4>1, HandlesEffect
        <4> QED
          BY <4>2 DEF HasPkg
      <3> QED
        BY <2>1, <3>1, <3>2
    <2>2. CASE r = s /\ IsNew(r, id)
      <3> DEFINE buffer == Store(pkgs_buffer[s], id, m)
                 last == last_handled_pkg_id[s]
      <3>1. PICK n \in 0 .. MaxSend : Handles(s, id, m, n)
        BY <1>2, <2>2, ReceiveDataCases
      <3>2. last_handled_pkg_id'[s] = n
        BY <3>1, HandlesEffect
      <3>5. pkgs_buffer'[s] = Remaining(s, id, m, n)
        BY <3>1, HandlesEffect
      <3>6. DOMAIN Remaining(s, id, m, n) = DOMAIN buffer \ (last + 1 .. n)
        BY DEF Remaining
      <3>3. last \in Nat /\ n \in Nat /\ n >= last /\ k \in Nat
        BY <3>1, SideTypes, HandlesRange DEF PkgIds
      <3>4. k \in DOMAIN pkgs_buffer[s] => k \in DOMAIN buffer
        BY DEF Store
      <3> HIDE DEF buffer
      <3> QED
        BY <3>2, <3>3, <3>4, <3>5, <3>6 DEF HasPkg
    <2> QED
      BY <2>1, <2>2
  <1> QED
    BY <1>1, <1>2 DEF Next, vars, SetupUdp, ReceiveHandshake, ReceiveAck, Send,
       CheckRetry, SendFails, Close, CloseCrashes, RemoveClient

\* A side that acknowledges a package has it from then on.
LEMMA AcknowledgedIsKept ==
    ASSUME TypeOK, NEW s \in Side, NEW id \in PkgIds, NEW m \in Msgs,
           ReceiveData(s, id, m)
    PROVE  HasPkg(s, id)'
  <1>1. last_handled_pkg_id[s] \in Nat /\ id \in Nat
    BY SideTypes DEF PkgIds
  <1>2. CASE ~IsNew(s, id)
    BY <1>1, <1>2, ReceiveDataCases DEF HasPkg, recvVars, IsNew
  <1>3. CASE IsNew(s, id)
    <2> DEFINE buffer == Store(pkgs_buffer[s], id, m)
               last == last_handled_pkg_id[s]
    <2>1. PICK n \in 0 .. MaxSend : Handles(s, id, m, n)
      BY <1>3, ReceiveDataCases
    <2>2. last_handled_pkg_id'[s] = n
      BY <2>1, HandlesEffect
    <2>4. pkgs_buffer'[s] = Remaining(s, id, m, n)
      BY <2>1, HandlesEffect
    <2>5. DOMAIN Remaining(s, id, m, n) = DOMAIN buffer \ (last + 1 .. n)
      BY DEF Remaining
    <2>3. id \in DOMAIN buffer
      BY DEF Store
    <2> HIDE DEF buffer
    <2> QED
      BY <1>1, <2>2, <2>3, <2>4, <2>5 DEF HasPkg
  <1> QED
    BY <1>2, <1>3

\* The acknowledgements a step puts in the network.
LEMMA NewAcks ==
    ASSUME TypeOK, [Next]_vars, NEW s \in Side, NEW id \in PkgIds,
           Acknowledge(s, id) \in net', Acknowledge(s, id) \notin net
    PROVE  \E m \in Msgs : ReceiveData(s, id, m)
  <1> DEFINE ack == Acknowledge(s, id)
  <1>1. ~ UNCHANGED net
    OBVIOUS
  <1>2. ~ SetupUdp
    BY DEF SetupUdp, Transmit, Handshake, Acknowledge
  <1>3. ~ ReceiveHandshake
    <2>1. Acknowledge("server", 0) # ack
      BY DEF Acknowledge, PkgIds
    <2> QED
      BY <2>1 DEF ReceiveHandshake
  <1>4. ASSUME NEW r \in Side, NEW m \in Msgs, Send(r, m) PROVE FALSE
    BY <1>4 DEF Send, Transmit, Data, Acknowledge
  <1>5. ASSUME NEW r \in Side, NEW t \in timers[r], CheckRetry(r, t) PROVE FALSE
    <2>1. t \in Timers
      BY SideTypes
    <2>2. t.dgram.type \in {"data", "handshake"}
      BY <2>1 DEF Timers, DataDgrams, HandshakeDgrams
    <2>3. t.dgram # ack
      BY <2>2 DEF Acknowledge
    <2> QED
      BY <1>5, <2>3 DEF CheckRetry
  <1>6. ASSUME NEW r \in Side, NEW i \in PkgIds, NEW m \in Msgs, ReceiveData(r, i, m)
        PROVE  r = s /\ i = id
    <2>1. Acknowledge(r, i) = ack
      BY <1>6 DEF ReceiveData
    <2> QED
      BY <2>1 DEF Acknowledge, Peer, Side
  <1> QED
    BY <1>1, <1>2, <1>3, <1>4, <1>5, <1>6
       DEF Next, vars, ReceiveAck, SendFails, Close, CloseCrashes, RemoveClient

\* A package that is no longer unconfirmed was not so before the step, or its
\* acknowledgement is in the network.
LEMMA ConfirmedBefore ==
    ASSUME TypeOK, [Next]_vars, NEW s \in Side,
           NEW id \in 1 .. next_pkg_id'[s] - 1, id \notin unconfirmed_pkgs'[s]
    PROVE  /\ id \in 1 .. next_pkg_id[s] - 1
           /\ id \notin unconfirmed_pkgs[s] \/ Acknowledge(Peer(s), id) \in net
  <1>1. CASE UNCHANGED <<next_pkg_id, unconfirmed_pkgs>>
    BY <1>1
  <1>2. ASSUME NEW r \in Side, NEW m \in Msgs, Send(r, m)
        PROVE  id \in 1 .. next_pkg_id[s] - 1 /\ id \notin unconfirmed_pkgs[s]
    <2>1. /\ next_pkg_id' = [next_pkg_id EXCEPT ![r] = @ + 1]
          /\ unconfirmed_pkgs' = [unconfirmed_pkgs EXCEPT ![r] = @ \cup {next_pkg_id[r]}]
      BY <1>2 DEF Send
    <2>2. next_pkg_id \in [Side -> 1 .. MaxSend + 1] /\ unconfirmed_pkgs \in [Side -> SUBSET PkgIds]
      BY DEF TypeOK
    <2>3. CASE r = s
      <3>1. next_pkg_id'[s] = next_pkg_id[s] + 1
        BY <2>1, <2>2, <2>3
      <3>2. unconfirmed_pkgs'[s] = unconfirmed_pkgs[s] \cup {next_pkg_id[s]}
        BY <2>1, <2>2, <2>3
      <3>3. next_pkg_id[s] \in Nat
        BY SideTypes
      <3> QED
        BY <3>1, <3>2, <3>3
    <2>4. CASE r # s
      <3>1. next_pkg_id'[s] = next_pkg_id[s] /\ unconfirmed_pkgs'[s] = unconfirmed_pkgs[s]
        BY <2>1, <2>2, <2>4
      <3> QED
        BY <3>1
    <2> QED
      BY <2>3, <2>4
  <1>3. ASSUME NEW r \in Side, NEW i \in 0 .. MaxSend, ReceiveAck(r, i)
        PROVE  /\ id \in 1 .. next_pkg_id[s] - 1
               /\ id \notin unconfirmed_pkgs[s] \/ Acknowledge(Peer(s), id) \in net
    <2>1. /\ next_pkg_id' = next_pkg_id
          /\ unconfirmed_pkgs' = [unconfirmed_pkgs EXCEPT ![r] = @ \ {i}]
          /\ Acknowledge(Peer(r), i) \in net
      BY <1>3 DEF ReceiveAck
    <2>2. unconfirmed_pkgs \in [Side -> SUBSET PkgIds]
      BY DEF TypeOK
    <2>3. \/ unconfirmed_pkgs'[s] = unconfirmed_pkgs[s]
          \/ r = s /\ unconfirmed_pkgs'[s] = unconfirmed_pkgs[s] \ {i}
      BY <2>1, <2>2
    <2> QED
      BY <2>1, <2>3
  <1> QED
    BY <1>1, <1>2, <1>3
       DEF Next, vars, sendVars, SetupUdp, ReceiveHandshake, ReceiveData, CheckRetry,
           SendFails, Close, CloseCrashes, RemoveClient

\* The yield loop stops only at a gap or at a throw.
LEMMA NothingStuckAfterYield ==
    ASSUME TypeOK, NoStuckPackage,
           NEW s \in Side, NEW id \in PkgIds, NEW m \in Msgs, ReceiveData(s, id, m)
    PROVE  NoStuckPackage'
  <1> SUFFICES ASSUME NEW r \in Side, Attached(r)',
                      last_handled_pkg_id'[r] + 1 \in DOMAIN pkgs_buffer'[r]
               PROVE  pkgs_buffer'[r][last_handled_pkg_id'[r] + 1] \in Poison
    BY DEF NoStuckPackage
  <1>1. Attached(r)
    BY DEF Attached, ReceiveData, handlerVars
  <1>2. CASE ~IsNew(s, id)
    BY <1>1, <1>2, ReceiveDataCases DEF NoStuckPackage, recvVars
  <1>3. CASE IsNew(s, id)
    <2> DEFINE buffer == Store(pkgs_buffer[s], id, m)
               last == last_handled_pkg_id[s]
    <2>1. PICK n \in 0 .. MaxSend : Handles(s, id, m, n)
      BY <1>3, ReceiveDataCases
    <2>2. CASE r = s
      <3>1. last_handled_pkg_id'[s] = n /\ pkgs_buffer'[s] = Remaining(s, id, m, n)
        BY <2>1, HandlesEffect
      <3>2. n + 1 \in DOMAIN buffer => buffer[n + 1] \in Poison
        BY <1>1, <2>1, <2>2 DEF Handles, YieldsTo
      <3>3. /\ DOMAIN Remaining(s, id, m, n) \subseteq DOMAIN buffer
            /\ \A i \in DOMAIN Remaining(s, id, m, n) : Remaining(s, id, m, n)[i] = buffer[i]
        BY DEF Remaining
      <3> HIDE DEF buffer
      <3> QED
        BY <2>2, <3>1, <3>2, <3>3
    <2>3. CASE r # s
      <3>1. /\ last_handled_pkg_id'[r] = last_handled_pkg_id[r]
            /\ pkgs_buffer'[r] = pkgs_buffer[r]
        BY <2>1, <2>3, HandlesEffect
      <3> QED
        BY <1>1, <3>1 DEF NoStuckPackage
    <2> QED
      BY <2>2, <2>3
  <1> QED
    BY <1>2, <1>3

\* Every step preserves ReceiptInv.
LEMMA NextReceipt == TypeOK /\ TypeOK' /\ ReceiptInv /\ [Next]_vars => ReceiptInv'
  <1> SUFFICES ASSUME TypeOK, TypeOK', ReceiptInv, [Next]_vars PROVE ReceiptInv'
    OBVIOUS
  <1>1. AcksAreTrue'
    <2> SUFFICES ASSUME NEW s \in Side, NEW id \in PkgIds, Acknowledge(s, id) \in net'
                 PROVE  HasPkg(s, id)'
      BY DEF AcksAreTrue, Acknowledge
    <2>1. CASE Acknowledge(s, id) \in net
      BY <2>1, PkgIsKept DEF ReceiptInv, AcksAreTrue
    <2>2. CASE Acknowledge(s, id) \notin net
      BY <2>2, NewAcks, AcknowledgedIsKept
    <2> QED
      BY <2>1, <2>2
  <1>2. AckedMeansReceived'
    <2> SUFFICES ASSUME NEW s \in Side, NEW id \in 1 .. next_pkg_id'[s] - 1,
                        id \notin unconfirmed_pkgs'[s]
                 PROVE  HasPkg(Peer(s), id)'
      BY DEF AckedMeansReceived, HasPkg
    <2>1. /\ id \in 1 .. next_pkg_id[s] - 1
          /\ id \notin unconfirmed_pkgs[s] \/ Acknowledge(Peer(s), id) \in net
      BY ConfirmedBefore
    <2>2. Peer(s) \in Side /\ id \in PkgIds
      <3>1. next_pkg_id[s] \in 1 .. MaxSend + 1
        BY SideTypes
      <3> QED
        BY <2>1, <3>1, DgramTypes DEF PkgIds
    <2>3. HasPkg(Peer(s), id)
      BY <2>1, <2>2 DEF ReceiptInv, AcksAreTrue, AckedMeansReceived
    <2> QED
      BY <2>2, <2>3, PkgIsKept
  <1>3. BufferNeedsChannel'
    <2>1. \A s \in Side : channel[s] => channel'[s]
      <3>1. channel \in [Side -> BOOLEAN]
        BY DEF TypeOK
      <3> QED
        BY <3>1 DEF Next, vars, SetupUdp, ReceiveHandshake, ReceiveAck, ReceiveData, Send,
           CheckRetry, SendFails, Close, CloseCrashes, RemoveClient
    <2>2. CASE UNCHANGED pkgs_buffer
      BY <2>1, <2>2 DEF ReceiptInv, BufferNeedsChannel
    <2>3. ASSUME NEW s \in Side, NEW id \in PkgIds, NEW m \in Msgs, ReceiveData(s, id, m)
          PROVE  BufferNeedsChannel'
      <3>1. channel[s] /\ channel' = channel
        BY <2>3 DEF ReceiveData
      <3>2. \A r \in Side \ {s} : pkgs_buffer'[r] = pkgs_buffer[r]
        BY <2>3, ReceiveDataCases, HandlesEffect DEF recvVars
      <3> QED
        BY <3>1, <3>2 DEF ReceiptInv, BufferNeedsChannel
    <2> QED
      BY <2>2, <2>3 DEF Next, vars, recvVars, SetupUdp, ReceiveHandshake, ReceiveAck, Send,
         CheckRetry, SendFails, Close, CloseCrashes, RemoveClient
  <1>4. NoStuckPackage'
    <2>1. CASE UNCHANGED recvVars /\ \A s \in Side : Attached(s)' => Attached(s)
      BY <2>1 DEF recvVars, ReceiptInv, NoStuckPackage
    <2>2. ASSUME NEW s \in Side, NEW id \in PkgIds, NEW m \in Msgs, ReceiveData(s, id, m)
          PROVE  NoStuckPackage'
      BY <2>2, NothingStuckAfterYield DEF ReceiptInv
    <2>3. ASSUME NEW s \in Side, ~channel[s], UNCHANGED recvVars,
                 \A r \in Side \ {s} : Attached(r)' => Attached(r)
          PROVE  NoStuckPackage'
      BY <2>3 DEF recvVars, ReceiptInv, NoStuckPackage, BufferNeedsChannel
    <2>4. udp_channel \in [Side -> {"indeterminate", "null", "channel"}]
      BY DEF TypeOK
    <2>5. CASE SetupUdp
      BY <2>3, <2>4, <2>5 DEF SetupUdp, Attached, Side
    <2>6. CASE ReceiveHandshake
      BY <2>3, <2>4, <2>6 DEF ReceiveHandshake, Attached, Side
    <2>7. ASSUME NEW s \in Side, Close(s)
          PROVE  NoStuckPackage'
      BY <2>1, <2>4, <2>7 DEF Close, Attached
    <2>8. CASE RemoveClient
      BY <2>1, <2>4, <2>8 DEF RemoveClient, Attached, Side
    <2>9. CASE UNCHANGED <<recvVars, udp_channel>>
      BY <2>1, <2>9 DEF Attached
    <2> QED
      BY <2>2, <2>5, <2>6, <2>7, <2>8, <2>9
         DEF Next, vars, handlerVars, ReceiveAck, Send, CheckRetry, SendFails, CloseCrashes
  <1> QED
    BY <1>1, <1>2, <1>3, <1>4 DEF ReceiptInv

\* An acknowledgement stands for a package that the receiver keeps.
THEOREM AckedIsReceived == Spec => []AckedMeansReceived
  <1>1. ReceiptInv => AckedMeansReceived
    BY DEF ReceiptInv
  <1> QED
    BY <1>1, InitReceipt, NextReceipt, InitType, NextType, PTL DEF Spec

\* No package that can be handled is left waiting in a buffer.
THEOREM NothingStuck == Spec => []NoStuckPackage
  <1>1. ReceiptInv => NoStuckPackage
    BY DEF ReceiptInv
  <1> QED
    BY <1>1, InitReceipt, NextReceipt, InitType, NextType, PTL DEF Spec

-----------------------------------------------------------------------------
(* Handshake                                                                *)

\* The server's acknowledgements come from a channel whose handshake is done.
ServerAcksAfterHandshake ==
    /\ channel["server"] => confirmed_handshake["server"]
    /\ \A id \in 0 .. MaxSend : Acknowledge("server", id) \in net => channel["server"]

\* A client that is disconnected but runs has let go of its channel.
ClosedIsDetached ==
    connection_state["client"] = "disconnected" =>
        io["client"] # "running" \/ ~Attached("client")

HandshakeInv ==
    /\ HandshakeAgreement
    /\ ServerAcksAfterHandshake
    /\ ClosedIsDetached

\* At first no end takes the handshake for done.
LEMMA InitHandshake == Init => HandshakeInv
  BY DEF Init, HandshakeInv, HandshakeAgreement, ServerAcksAfterHandshake,
         ClosedIsDetached, Side

\* The server acknowledges only what it receives on its channel.
LEMMA ServerAcks ==
    ASSUME TypeOK, ServerAcksAfterHandshake, [Next]_vars
    PROVE  ServerAcksAfterHandshake'
  <1>1. channel \in [Side -> BOOLEAN] /\ confirmed_handshake \in [Side -> BOOLEAN]
    BY DEF TypeOK
  <1>2. /\ channel'["server"] => confirmed_handshake'["server"]
        /\ channel["server"] => channel'["server"]
    <2> DEFINE Goal == /\ channel'["server"] => confirmed_handshake'["server"]
                       /\ channel["server"] => channel'["server"]
    <2> USE DEF ServerAcksAfterHandshake, Side
    <2>1. ASSUME UNCHANGED <<channel, confirmed_handshake>> PROVE Goal
      BY <2>1
    <2>2. ASSUME SetupUdp PROVE Goal
      BY <1>1, <2>2 DEF SetupUdp
    <2>3. ASSUME ReceiveHandshake PROVE Goal
      BY <1>1, <2>3 DEF ReceiveHandshake
    <2>4. ASSUME NEW s \in Side, NEW id \in 0 .. MaxSend, ReceiveAck(s, id) PROVE Goal
      BY <1>1, <2>4 DEF ReceiveAck
    <2> HIDE DEF Goal
    <2>5. Goal
      BY <2>1, <2>2, <2>3, <2>4 DEF Next, vars, ReceiveData, Send, CheckRetry, SendFails,
         Close, CloseCrashes, RemoveClient
    <2> QED
      BY <2>5 DEF Goal
  <1>3. channel["server"] => channel'["server"]
    BY <1>2
  <1>4. ASSUME NEW id \in 0 .. MaxSend, Acknowledge("server", id) \in net'
        PROVE  channel'["server"]
    <2> DEFINE ack == Acknowledge("server", id)
    <2>1. CASE ack \in net
      BY <1>3, <2>1 DEF ServerAcksAfterHandshake
    <2>2. CASE ReceiveHandshake
      BY <1>1, <2>2 DEF ReceiveHandshake, Side
    <2>3. ASSUME NEW s \in Side, NEW i \in PkgIds, NEW m \in Msgs, ReceiveData(s, i, m),
                 ack \notin net
          PROVE  channel'["server"]
      <3>1. Acknowledge(s, i) = ack
        BY <1>4, <2>3 DEF ReceiveData
      <3>2. s = "server"
        BY <3>1 DEF Acknowledge, Peer, Side
      <3> QED
        BY <2>3, <3>2 DEF ReceiveData
    <2>4. ASSUME SetupUdp, ack \notin net PROVE FALSE
      BY <1>4, <2>4 DEF SetupUdp, Transmit, Handshake, Acknowledge
    <2>5. ASSUME NEW r \in Side, NEW m \in Msgs, Send(r, m), ack \notin net PROVE FALSE
      BY <1>4, <2>5 DEF Send, Transmit, Data, Acknowledge
    <2>6. ASSUME NEW r \in Side, NEW t \in timers[r], CheckRetry(r, t), ack \notin net
          PROVE  FALSE
      <3>1. t \in Timers
        BY SideTypes
      <3>2. t.dgram.type \in {"data", "handshake"}
        BY <3>1 DEF Timers, DataDgrams, HandshakeDgrams
      <3>3. t.dgram # ack
        BY <3>2 DEF Acknowledge
      <3> QED
        BY <1>4, <2>6, <3>3 DEF CheckRetry
    <2> HIDE DEF ack
    <2>7. CASE UNCHANGED net
      BY <1>4, <2>1, <2>7 DEF ack
    <2> QED
      BY <2>1, <2>2, <2>3, <2>4, <2>5, <2>6, <2>7
         DEF Next, vars, ReceiveAck, SendFails, Close, CloseCrashes, RemoveClient
  <1> QED
    BY <1>2, <1>4 DEF ServerAcksAfterHandshake, Acknowledge

\* Every step preserves HandshakeInv.
LEMMA NextHandshake == TypeOK /\ HandshakeInv /\ [Next]_vars => HandshakeInv'
  <1> SUFFICES ASSUME TypeOK, HandshakeInv, [Next]_vars PROVE HandshakeInv'
    OBVIOUS
  <1>1. ServerAcksAfterHandshake'
    BY ServerAcks DEF HandshakeInv
  <1>2. /\ io \in [Side -> {"running", "dropped", "send error", "crashed"}]
        /\ connection_state \in [Side -> {"connected", "full", "disconnected"}]
        /\ udp_channel \in [Side -> {"indeterminate", "null", "channel"}]
        /\ channel \in [Side -> BOOLEAN]
        /\ confirmed_handshake \in [Side -> BOOLEAN]
    BY DEF TypeOK
  <1> DEFINE Goal == HandshakeAgreement' /\ ClosedIsDetached'
  <1> USE DEF HandshakeInv, HandshakeAgreement, ClosedIsDetached, Attached, Side
  <1>3. ASSUME UNCHANGED <<handlerVars, io, channel, confirmed_handshake>>
        PROVE  Goal
    BY <1>3 DEF handlerVars
  <1>4. ASSUME SetupUdp
        PROVE  Goal
    BY <1>2, <1>4 DEF SetupUdp
  <1>5. ASSUME ReceiveHandshake
        PROVE  Goal
    BY <1>2, <1>5 DEF ReceiveHandshake
  <1>6. ASSUME NEW s \in Side, NEW id \in 0 .. MaxSend, ReceiveAck(s, id)
        PROVE  Goal
    <2>1. s = "client" => channel["server"] /\ confirmed_handshake["server"]
      BY <1>6 DEF ReceiveAck, ServerAcksAfterHandshake, Peer
    <2> QED
      BY <1>2, <1>6, <2>1 DEF ReceiveAck, ConfirmedState
  <1>7. ASSUME NEW s \in Side, SendFails(s)
        PROVE  Goal
    BY <1>2, <1>7 DEF SendFails, Throw
  <1>8. ASSUME NEW s \in Side, Close(s)
        PROVE  Goal
    BY <1>2, <1>8 DEF Close
  <1>9. ASSUME CloseCrashes
        PROVE  Goal
    BY <1>2, <1>9 DEF CloseCrashes, Throw
  <1>10. ASSUME RemoveClient
        PROVE  Goal
    BY <1>2, <1>10 DEF RemoveClient
  <1>11. ASSUME NEW s \in Side, NEW t \in timers[s], CheckRetry(s, t)
         PROVE  Goal
    BY <1>2, <1>11 DEF CheckRetry, Throw
  <1>12. Goal
    BY <1>3, <1>4, <1>5, <1>6, <1>7, <1>8, <1>9, <1>10, <1>11
       DEF Next, vars, ReceiveData, Send
  <1> QED
    BY <1>1, <1>12

\* The ends agree on the handshake, and a full connection has a channel.
THEOREM HandshakeAgreed == Spec => []HandshakeAgreement
  <1>1. HandshakeInv => HandshakeAgreement
    BY DEF HandshakeInv
  <1> QED
    BY <1>1, InitHandshake, NextHandshake, InitType, NextType, PTL DEF Spec

\* A client whose connection is closed is never connected again by a datagram.
THEOREM ClosedStaysClosed == Spec => ClosedClientStaysClosed
  <1>1. TypeOK /\ HandshakeInv /\ [Next]_vars
            => [connection_state["client"] = "disconnected"
                  => connection_state'["client"] = "disconnected"]_vars
    <2> SUFFICES ASSUME TypeOK, HandshakeInv, [Next]_vars,
                        connection_state["client"] = "disconnected"
                 PROVE  connection_state'["client"] = "disconnected"
      OBVIOUS
    <2>1. connection_state \in [Side -> {"connected", "full", "disconnected"}]
      BY DEF TypeOK
    <2>2. io["client"] # "running" \/ ~Attached("client")
      BY DEF HandshakeInv, ClosedIsDetached
    <2> DEFINE Goal == connection_state'["client"] = "disconnected"
    <2> USE DEF Side
    <2>3. ASSUME UNCHANGED connection_state PROVE Goal
      BY <2>3
    <2>4. ASSUME ReceiveHandshake PROVE Goal
      BY <2>1, <2>4 DEF ReceiveHandshake
    <2>5. ASSUME NEW s \in Side, NEW id \in 0 .. MaxSend, ReceiveAck(s, id) PROVE Goal
      BY <2>1, <2>2, <2>5 DEF ReceiveAck, ConfirmedState
    <2>6. ASSUME NEW s \in Side, NEW t \in timers[s], CheckRetry(s, t) PROVE Goal
      BY <2>1, <2>6 DEF CheckRetry, Throw
    <2>7. ASSUME NEW s \in Side, SendFails(s) \/ Close(s) PROVE Goal
      BY <2>1, <2>7 DEF SendFails, Close, Throw
    <2>8. ASSUME CloseCrashes PROVE Goal
      BY <2>1, <2>8 DEF CloseCrashes, Throw
    <2> HIDE DEF Goal
    <2>9. Goal
      BY <2>3, <2>4, <2>5, <2>6, <2>7, <2>8
         DEF Next, vars, handlerVars, SetupUdp, ReceiveData, Send, RemoveClient
    <2> QED
      BY <2>9 DEF Goal
  <1> QED
    BY <1>1, InitHandshake, NextHandshake, InitType, NextType, PTL
       DEF Spec, ClosedClientStaysClosed

-----------------------------------------------------------------------------
(* Refinement of ReliableChannel                                            *)

\* A sequence that agrees with the start of another one is a prefix of it.
LEMMA PrefixIsSubSeq ==
    ASSUME NEW q \in Seq(Msgs), NEW r \in Seq(Msgs), Len(q) <= Len(r),
           \A i \in 1 .. Len(q) : q[i] = r[i]
    PROVE  q = SubSeq(r, 1, Len(q))
  <1> DEFINE u == SubSeq(r, 1, Len(q))
  <1>1. u \in Seq(Msgs) /\ Len(u) = Len(q) /\ \A i \in 1 .. Len(q) : u[i] = r[i]
    OBVIOUS
  <1> HIDE DEF u
  <1>2. q = u
    BY <1>1, SeqEqual
  <1> QED
    BY <1>2 DEF u

\* Receiving a data package delivers a run of packages, possibly an empty one.
LEMMA ReceiveDataDelivers ==
    ASSUME TypeOK, OrderInv, TypeOK', OrderInv',
           NEW s \in Side, NEW id \in PkgIds, NEW m \in Msgs, ReceiveData(s, id, m)
    PROVE  RC!Deliver(s) \/ UNCHANGED <<sent, delivered>>
  <1>1. UNCHANGED sent
    BY DEF ReceiveData, sendVars
  <1>2. CASE ~IsNew(s, id)
    BY <1>1, <1>2, ReceiveDataCases DEF recvVars
  <1>3. CASE IsNew(s, id)
    <2> DEFINE p == Peer(s)
    <2>1. PICK n \in 0 .. MaxSend : Handles(s, id, m, n)
      BY <1>3, ReceiveDataCases
    <2>2. p \in Side /\ sent[p] \in Seq(Msgs) /\ delivered'[s] \in Seq(Msgs)
      <3>1. delivered' \in [Side -> Seq(Msgs)]
        BY DEF TypeOK
      <3> QED
        BY <3>1, DgramTypes, SideTypes
    <2>3. Len(delivered'[s]) = n /\ Len(delivered[s]) <= n
      <3>1. last_handled_pkg_id \in [Side -> 0 .. MaxSend]
        BY DEF TypeOK
      <3>2. last_handled_pkg_id'[s] = n
        BY <2>1, <3>1 DEF Handles
      <3> QED
        BY <2>1, <3>2, HandlesRange DEF OrderInv, HandledIsCounted
    <2>4. /\ n <= Len(sent[p])
          /\ \A i \in 1 .. n : delivered'[s][i] = sent[p][i]
      BY <1>1, <2>3 DEF OrderInv, InOrderExactlyOnce
    <2>5. delivered'[s] = SubSeq(sent[p], 1, n)
      BY <2>2, <2>3, <2>4, PrefixIsSubSeq
    <2>6. delivered' = [delivered EXCEPT ![s] = SubSeq(sent[p], 1, n)]
      <3>1. delivered \in [Side -> Seq(Msgs)]
        BY DEF TypeOK
      <3>2. PICK q : delivered' = [delivered EXCEPT ![s] = q]
        BY <2>1 DEF Handles
      <3> QED
        BY <2>5, <3>1, <3>2
    <2>7. n \in Len(delivered[s]) .. Len(sent[p])
      <3>1. Len(delivered[s]) \in Nat /\ Len(sent[p]) \in Nat
        BY <2>2, SideTypes
      <3> QED
        BY <2>3, <2>4, <3>1
    <2> QED
      BY <1>1, <2>6, <2>7 DEF RC!Deliver, RC!Peer, Peer
  <1> QED
    BY <1>2, <1>3

\* UdpChannel implements ReliableChannel: over a network that loses, repeats and
\* reorders datagrams, across closes, throws and retries, each side handles its
\* peer's packages in order and exactly once.
THEOREM Refinement == Spec => RefinesReliableChannel
  <1>1. Init => RC!Init
    BY DEF Init, RC!Init, RC!Side, Side
  <1>2. TypeOK /\ OrderInv /\ TypeOK' /\ OrderInv' /\ [Next]_vars => [RC!Next]_(RC!chanVars)
    <2> SUFFICES ASSUME TypeOK, OrderInv, TypeOK', OrderInv', [Next]_vars
                 PROVE  RC!Next \/ UNCHANGED <<sent, delivered>>
      BY DEF RC!chanVars
    <2>1. ASSUME NEW s \in Side, NEW m \in Msgs, Send(s, m)
          PROVE  RC!Send(s)
      <3>1. Len(sent[s]) = next_pkg_id[s] - 1 /\ next_pkg_id[s] \in 1 .. MaxSend + 1
        BY SideTypes DEF OrderInv, Numbering
      <3>2. Len(sent[s]) < MaxSend
        BY <2>1, <3>1 DEF Send
      <3> QED
        BY <2>1, <3>2 DEF Send, RC!Send, recvVars
    <2>2. ASSUME NEW s \in Side, NEW id \in PkgIds, NEW m \in Msgs, ReceiveData(s, id, m)
          PROVE  RC!Deliver(s) \/ UNCHANGED <<sent, delivered>>
      BY <2>2, ReceiveDataDelivers
    <2>3. \/ UNCHANGED <<sent, delivered>>
          \/ \E s \in Side, m \in Msgs : Send(s, m)
          \/ \E s \in Side, id \in PkgIds, m \in Msgs : ReceiveData(s, id, m)
      BY DEF Next, vars, sendVars, recvVars, SetupUdp, ReceiveHandshake, ReceiveAck,
             CheckRetry, SendFails, Close, CloseCrashes, RemoveClient
    <2> QED
      BY <2>1, <2>2, <2>3 DEF RC!Next, RC!Side, Side
  <1> QED
    BY <1>1, <1>2, InitOrder, NextOrder, InitType, NextType,
       PTL DEF Spec, RC!Spec, RefinesReliableChannel
=============================================================================
