------------------------------ MODULE UdpChannel ------------------------------
(****************************************************************************)
(* One UDP channel between a client and the server: the two                 *)
(* UdpChannelControllers (src/src/udpcontroller.cpp), the parts of          *)
(* ConnectionHandler that own them (set_udp_channel, qsend_udp, close) and  *)
(* the server's registry of clients (BaseServer::on_new_channel,            *)
(* remove_client).                                                          *)
(*                                                                          *)
(* The network loses, duplicates and reorders datagrams: `net' is the set   *)
(* of datagrams ever sent, a receive leaves its datagram there, so that it  *)
(* may be received late or again, and nothing forces a receive, so that it  *)
(* may be lost.                                                             *)
(*                                                                          *)
(* An async_send_to and the completion handler that arms the retry timer    *)
(* are one step: nothing the handler reads can change in between.  Its      *)
(* failure, which throws, is SendFails.                                     *)
(****************************************************************************)
EXTENDS Naturals, Sequences

CONSTANTS
    Msgs,      \* packages an application may send
    Poison,    \* those whose handling may throw at the receiver
    Senders,   \* bound: the sides that send packages
    MaxSend,   \* bound: packages sent by each of them
    MaxTries   \* the 100 of UdpChannelController::_send

ASSUME PoisonAssumption == Poison \subseteq Msgs
ASSUME MaxSendAssumption == MaxSend \in Nat
ASSUME MaxTriesAssumption == MaxTries \in Nat

VARIABLES
    io,                   \* io[s]: how the io_context of s runs or ended
    connection_state,     \* ConnectionHandler::connection_state
    udp_channel,          \* ConnectionHandler::udp_channel
    registered,           \* the server's `clients' map has this client
    channel,              \* channel[s]: UdpController::channels has the channel
    confirmed_handshake,
    next_pkg_id,
    unconfirmed_pkgs,
    pkgs_buffer,          \* pkgs_buffer[s]: function from ids to packages
    last_handled_pkg_id,
    timers,               \* pending timer waits of _send: [dgram, count]
    net,                  \* datagrams sent so far
    sent,                 \* history: packages passed to send()
    delivered             \* history: packages process_pkg_fn has handled

handlerVars == <<connection_state, udp_channel, registered>>
sendVars == <<next_pkg_id, unconfirmed_pkgs, timers, sent>>
recvVars == <<pkgs_buffer, last_handled_pkg_id, delivered>>
vars == <<io, handlerVars, channel, confirmed_handshake, sendVars, recvVars, net>>

Side == {"client", "server"}
Peer(s) == IF s = "client" THEN "server" ELSE "client"

PkgIds == 1 .. MaxSend

\* Received packages by id.
Buffers == UNION {[ids -> Msgs] : ids \in SUBSET PkgIds}
EmptyBuffer == [id \in {} |-> id]

DataDgrams == [to : Side, type : {"data"}, id : PkgIds, data : Msgs]
AckDgrams == [to : Side, type : {"acknowledge"}, id : 0 .. MaxSend]
HandshakeDgrams == [to : {"server"}, type : {"handshake"}, id : {0}]
Dgrams == DataDgrams \cup AckDgrams \cup HandshakeDgrams
Timers == [dgram : DataDgrams \cup HandshakeDgrams, count : 0 .. MaxTries + 1]

Data(s, id, m) == [to |-> Peer(s), type |-> "data", id |-> id, data |-> m]
Acknowledge(s, id) == [to |-> Peer(s), type |-> "acknowledge", id |-> id]
Handshake == [to |-> "server", type |-> "handshake", id |-> 0]

\* The callbacks of the channel (process_pkg_fn, on_handshake_done) are set by
\* set_udp_channel and reset by close, together with udp_channel.
Attached(s) == udp_channel[s] = "channel"

-----------------------------------------------------------------------------
(* Initial state: the server has validated the client's net/appInfo and     *)
(* answered with net/set_client_id; both ends have a TCP connection.  The   *)
(* server's ConnectionHandler was built by the constructor that takes a     *)
(* socket, which leaves udp_channel uninitialized.                          *)

Init ==
    /\ io = [s \in Side |-> "running"]
    /\ connection_state = [s \in Side |-> "connected"]
    /\ udp_channel = [s \in Side |-> IF s = "server" THEN "indeterminate" ELSE "null"]
    /\ registered = TRUE
    /\ channel = [s \in Side |-> FALSE]
    /\ confirmed_handshake = [s \in Side |-> FALSE]
    /\ next_pkg_id = [s \in Side |-> 1]
    /\ unconfirmed_pkgs = [s \in Side |-> {}]
    /\ pkgs_buffer = [s \in Side |-> EmptyBuffer]
    /\ last_handled_pkg_id = [s \in Side |-> 0]
    /\ timers = [s \in Side |-> {}]
    /\ net = {}
    /\ sent = [s \in Side |-> <<>>]
    /\ delivered = [s \in Side |-> <<>>]

-----------------------------------------------------------------------------
(* An exception leaves io_context::run.  On the client the thread catches   *)
(* it and only sets the connection state; on the server nothing catches it  *)
(* and the process ends.                                                    *)
Throw(s, why) ==
    /\ io' = [io EXCEPT ![s] = why]
    /\ connection_state' = [connection_state EXCEPT ![s] = "disconnected"]

\* _send: transmit and wait for the timer that checks the acknowledgement.
Transmit(s, dgram, count) ==
    /\ net' = net \cup {dgram}
    /\ timers' = [timers EXCEPT ![s] = @ \cup {[dgram |-> dgram, count |-> count]}]

\* Connection::setup_udp, when net/set_client_id arrives.
SetupUdp ==
    /\ io["client"] = "running"
    /\ connection_state["client"] = "connected"
    /\ ~channel["client"]
    /\ channel' = [channel EXCEPT !["client"] = TRUE]
    /\ Transmit("client", Handshake, 0)
    /\ udp_channel' = [udp_channel EXCEPT !["client"] = "channel"]
    /\ UNCHANGED <<io, connection_state, registered, confirmed_handshake,
                   next_pkg_id, unconfirmed_pkgs, sent, recvVars>>

\* UdpController::start_receive for an unknown endpoint, with on_new_channel and
\* send_handshake_acknowledgement.  A client that is no longer registered gets
\* no channel attached, and the acknowledgement all the same.
ReceiveHandshake ==
    /\ io["server"] = "running"
    /\ Handshake \in net
    /\ ~channel["server"]
    /\ channel' = [channel EXCEPT !["server"] = TRUE]
    /\ net' = net \cup {Acknowledge("server", 0)}
    /\ confirmed_handshake' = [confirmed_handshake EXCEPT !["server"] = TRUE]
    /\ \/ /\ registered
          /\ udp_channel' = [udp_channel EXCEPT !["server"] = "channel"]
          /\ connection_state' = [connection_state EXCEPT !["server"] = "full"]
       \/ /\ ~registered
          /\ UNCHANGED <<udp_channel, connection_state>>
    /\ UNCHANGED <<io, registered, sendVars, recvVars>>

\* The state after the first acknowledgement: on_handshake_done, if it is set.
ConfirmedStateNoReset(s) ==
    IF confirmed_handshake[s] THEN connection_state[s] ELSE "full"
ConfirmedState(s) ==
    IF ~confirmed_handshake[s] /\ Attached(s) THEN "full" ELSE connection_state[s]

\* handle_pkg, type "acknowledge": the first one completes the handshake.
ReceiveAck(s, id) ==
    /\ io[s] = "running"
    /\ channel[s]
    /\ Acknowledge(Peer(s), id) \in net
    /\ unconfirmed_pkgs' = [unconfirmed_pkgs EXCEPT ![s] = @ \ {id}]
    /\ confirmed_handshake' = [confirmed_handshake EXCEPT ![s] = TRUE]
    /\ connection_state' = [connection_state EXCEPT ![s] = ConfirmedState(s)]
    /\ UNCHANGED <<io, udp_channel, registered, channel, next_pkg_id, timers,
                   sent, recvVars, net>>

-----------------------------------------------------------------------------
(* handle_pkg, type "data".                                                 *)

\* this->pkgs_buffer[id] = pkg
StoreSingleSlot(buffer, id, m) == [i \in {id} |-> m]
Store(buffer, id, m) ==
    [i \in DOMAIN buffer \cup {id} |-> IF i = id THEN m ELSE buffer[i]]

\* Where `while (yield_pkgs_buffer())' ends when it starts after package
\* `last': at a gap, or at a package whose handling throws.  The throw comes
\* before last_handled_pkg_id is advanced, so that package stays in the buffer.
YieldsToOnce(s, buffer, last, n) ==
    IF Attached(s)
    THEN \/ n = last /\ (n + 1 \in DOMAIN buffer => buffer[n + 1] \in Poison)
         \/ n = last + 1 /\ n \in DOMAIN buffer
    ELSE n = last
YieldsTo(s, buffer, last, n) ==
    IF Attached(s)
    THEN /\ n >= last
         /\ \A i \in last + 1 .. n : i \in DOMAIN buffer
         /\ n + 1 \in DOMAIN buffer => buffer[n + 1] \in Poison
    ELSE n = last

\* The packages that one run of the loop handles, in the order it does.
YieldedBackwards(buffer, last, n) == [i \in 1 .. n - last |-> buffer[n + 1 - i]]
YieldedSkipping(buffer, last, n) == IF n > last THEN <<buffer[n]>> ELSE <<>>
Yielded(buffer, last, n) == [i \in 1 .. n - last |-> buffer[last + i]]

\* Packages that were already handled are acknowledged again and ignored.
IsNewAlways(s, id) == TRUE
IsNew(s, id) == id > last_handled_pkg_id[s]

ReceiveData(s, id, m) ==
    /\ io[s] = "running"
    /\ channel[s]
    /\ Data(Peer(s), id, m) \in net
    /\ net' = net \cup {Acknowledge(s, id)}
    /\ \/ /\ IsNew(s, id)
          /\ LET buffer == Store(pkgs_buffer[s], id, m)
                 last == last_handled_pkg_id[s]
             IN  \E n \in 0 .. MaxSend :
                    /\ YieldsTo(s, buffer, last, n)
                    /\ last_handled_pkg_id' = [last_handled_pkg_id EXCEPT ![s] = n]
                    /\ delivered' = [delivered EXCEPT ![s] = @ \o Yielded(buffer, last, n)]
                    /\ pkgs_buffer' =
                           [pkgs_buffer EXCEPT
                               ![s] = [i \in DOMAIN buffer \ (last + 1 .. n) |-> buffer[i]]]
       \/ /\ ~IsNew(s, id)
          /\ UNCHANGED recvVars
    /\ UNCHANGED <<io, handlerVars, channel, confirmed_handshake, sendVars>>

-----------------------------------------------------------------------------
(* qsend_udp, UdpChannelController::send and get_new_pkg_id.  Unless the    *)
(* connection is full the package goes by TCP and not by this channel.      *)
Send(s, m) ==
    /\ s \in Senders
    /\ io[s] = "running"
    /\ Attached(s)
    /\ connection_state[s] = "full"
    /\ confirmed_handshake[s]
    /\ next_pkg_id[s] <= MaxSend
    /\ next_pkg_id' = [next_pkg_id EXCEPT ![s] = @ + 1]
    /\ unconfirmed_pkgs' = [unconfirmed_pkgs EXCEPT ![s] = @ \cup {next_pkg_id[s]}]
    /\ Transmit(s, Data(s, next_pkg_id[s], m), 0)
    /\ sent' = [sent EXCEPT ![s] = Append(@, m)]
    /\ UNCHANGED <<io, handlerVars, channel, confirmed_handshake, recvVars>>

\* `count > 100' in the check of _send.
GivesUpNever(count) == FALSE
GivesUp(count) == count > MaxTries

\* The wait that a retransmission leaves behind.
RetriedNoTimer(t) == {}
Retried(t) == {[dgram |-> t.dgram, count |-> t.count + 1]}

\* The timer handler of _send: done, one more transmission, or give up.
CheckRetry(s, t) ==
    /\ io[s] = "running"
    /\ t \in timers[s]
    /\ LET rest == timers[s] \ {t}
           id == t.dgram.id
       IN  \/ /\ id \notin unconfirmed_pkgs[s]
              /\ timers' = [timers EXCEPT ![s] = rest]
              /\ UNCHANGED <<io, connection_state, net>>
           \/ /\ id \in unconfirmed_pkgs[s]
              /\ ~GivesUp(t.count)
              /\ net' = net \cup {t.dgram}
              /\ timers' = [timers EXCEPT ![s] = rest \cup Retried(t)]
              /\ UNCHANGED <<io, connection_state>>
           \/ /\ id \in unconfirmed_pkgs[s]
              /\ GivesUp(t.count)
              /\ Throw(s, "dropped")
              /\ timers' = [timers EXCEPT ![s] = rest]
              /\ UNCHANGED net
    /\ UNCHANGED <<udp_channel, registered, channel, confirmed_handshake,
                   next_pkg_id, unconfirmed_pkgs, sent, recvVars>>

\* A send of this side completes with an error: its completion handler throws.
SendFails(s) ==
    /\ io[s] = "running"
    /\ channel[s]
    /\ Throw(s, "send error")
    /\ UNCHANGED <<udp_channel, registered, channel, confirmed_handshake,
                   sendVars, recvVars, net>>

-----------------------------------------------------------------------------
(* ConnectionHandler::close, on an error of the TCP connection.  It leaves  *)
(* the channel, its unconfirmed packages and their timers as they are.      *)
Close(s) ==
    /\ io[s] = "running"
    /\ connection_state[s] # "disconnected"
    /\ connection_state' = [connection_state EXCEPT ![s] = "disconnected"]
    /\ udp_channel' = [udp_channel EXCEPT ![s] = "null"]
    /\ UNCHANGED <<io, registered, channel, confirmed_handshake, sendVars, recvVars, net>>

\* The same, where udp_channel was never set: `if (this->udp_channel)' reads an
\* uninitialized pointer, and the writes through it may end the process.
CloseCrashes ==
    /\ io["server"] = "running"
    /\ connection_state["server"] # "disconnected"
    /\ udp_channel["server"] = "indeterminate"
    /\ Throw("server", "crashed")
    /\ UNCHANGED <<udp_channel, registered, channel, confirmed_handshake,
                   sendVars, recvVars, net>>

\* BaseServer::remove_dead_connections, before the next accept: the client is
\* deleted and its destructor closes it once more.
RemoveClient ==
    /\ io["server"] = "running"
    /\ registered
    /\ connection_state["server"] = "disconnected"
    /\ registered' = FALSE
    /\ udp_channel' = [udp_channel EXCEPT !["server"] = "null"]
    /\ UNCHANGED <<io, connection_state, channel, confirmed_handshake,
                   sendVars, recvVars, net>>

-----------------------------------------------------------------------------
Next ==
    \/ SetupUdp
    \/ ReceiveHandshake
    \/ \E s \in Side :
          \/ \E id \in 0 .. MaxSend : ReceiveAck(s, id)
          \/ \E id \in PkgIds, m \in Msgs : ReceiveData(s, id, m)
          \/ \E m \in Msgs : Send(s, m)
          \/ \E t \in timers[s] : CheckRetry(s, t)
          \/ SendFails(s)
          \/ Close(s)
    \/ CloseCrashes
    \/ RemoveClient

Spec == Init /\ [][Next]_vars

\* The io_context runs the timer waits that have expired.  Nothing is assumed of
\* the network, of the application or of the TCP connection.
TimerFires(s, id) == \E t \in timers[s] : t.dgram.id = id /\ CheckRetry(s, t)
Fairness == \A s \in Side : \A id \in 0 .. MaxSend : WF_vars(TimerFires(s, id))
FairSpec == Spec /\ Fairness
-----------------------------------------------------------------------------
(* Properties                                                               *)

\* Every variable keeps its type; in particular no package is transmitted with
\* a count above MaxTries + 1 (the check in UdpChannelController::_send).
TypeOK ==
    /\ io \in [Side -> {"running", "dropped", "send error", "crashed"}]
    /\ connection_state \in [Side -> {"connected", "full", "disconnected"}]
    /\ udp_channel \in [Side -> {"indeterminate", "null", "channel"}]
    /\ registered \in BOOLEAN
    /\ channel \in [Side -> BOOLEAN]
    /\ confirmed_handshake \in [Side -> BOOLEAN]
    /\ next_pkg_id \in [Side -> 1 .. MaxSend + 1]
    /\ unconfirmed_pkgs \in [Side -> SUBSET PkgIds]
    /\ pkgs_buffer \in [Side -> Buffers]
    /\ last_handled_pkg_id \in [Side -> 0 .. MaxSend]
    /\ timers \in [Side -> SUBSET Timers]
    /\ net \subseteq Dgrams
    /\ sent \in [Side -> Seq(Msgs)]
    /\ delivered \in [Side -> Seq(Msgs)]

\* What a side has handled is a prefix of what its peer has sent: no package is
\* handled twice, skipped or handled out of order, whatever the network does
\* and wherever a handler throws (handle_pkg and yield_pkgs_buffer).
InOrderExactlyOnce ==
    \A s \in Side :
        /\ Len(delivered[s]) <= Len(sent[Peer(s)])
        /\ \A i \in 1 .. Len(delivered[s]) : delivered[s][i] = sent[Peer(s)][i]

\* Side s has package id, handled or waiting for the ones before it.
HasPkg(s, id) == id <= last_handled_pkg_id[s] \/ id \in DOMAIN pkgs_buffer[s]

\* A package that its sender no longer retries because it was acknowledged is
\* in the hands of the receiver: an acknowledgement is never sent for a package
\* that handle_pkg then forgets.
AckedMeansReceived ==
    \A s \in Side : \A id \in 1 .. next_pkg_id[s] - 1 :
        id \notin unconfirmed_pkgs[s] => HasPkg(Peer(s), id)

\* The next package in order never waits in the buffer of a channel that can
\* handle it, except behind a throw: nothing but another datagram would wake it
\* (the `while' around yield_pkgs_buffer).
NoStuckPackage ==
    \A s \in Side :
        LET next == last_handled_pkg_id[s] + 1
        IN  (Attached(s) /\ next \in DOMAIN pkgs_buffer[s])
                => pkgs_buffer[s][next] \in Poison

\* The buffer keeps only packages that are still to be handled: a late duplicate
\* leaves nothing behind, which nothing would ever remove.
BufferHoldsOnlyPending ==
    \A s \in Side : \A id \in DOMAIN pkgs_buffer[s] : id > last_handled_pkg_id[s]

\* A client that takes the handshake for done has a server with a channel for it, and
\* a side whose connection is full has a confirmed and attached channel to send on, so
\* that qsend_udp never meets the throw of get_new_pkg_id or a dangling channel.  The
\* converse is not so: a lost handshake, or a lost acknowledgement of it, is never
\* retried, and leaves the client, or only the client, without the channel.
HandshakeAgreement ==
    /\ confirmed_handshake["client"] => channel["server"] /\ confirmed_handshake["server"]
    /\ \A s \in Side :
          connection_state[s] = "full" =>
              channel[s] /\ confirmed_handshake[s] /\ Attached(s)

\* Once the client's connection is closed, no late datagram makes it connected
\* again (close resets on_handshake_done).
ClosedClientStaysClosed ==
    [][connection_state["client"] = "disconnected"
          => connection_state'["client"] = "disconnected"]_vars

\* The channel implements the in-order, exactly-once channel.
RC == INSTANCE ReliableChannel WITH
        Msgs <- Msgs, MaxSend <- MaxSend, sent <- sent, delivered <- delivered
RefinesReliableChannel == RC!Spec

\* Every package sent is acknowledged, or its sender's io_context ends: no
\* package stays unconfirmed with nobody retrying it.
SendResolves ==
    \A s \in Side : \A id \in PkgIds :
        (id \in unconfirmed_pkgs[s]) ~> (id \notin unconfirmed_pkgs[s] \/ io[s] # "running")

\* Every package sent is handled by the peer, unless an io_context ends, the
\* peer's connection is closed or was never attached, or a handler throws.
SentIsHandled ==
    \A s \in Side : \A id \in PkgIds :
        (Len(sent[s]) >= id) ~>
            \/ Len(delivered[Peer(s)]) >= id
            \/ io[s] # "running"
            \/ ~Attached(Peer(s))
            \/ \E i \in DOMAIN pkgs_buffer[Peer(s)] : pkgs_buffer[Peer(s)][i] \in Poison

-----------------------------------------------------------------------------
(* What a comment of the code says and the code does not do.                *)

\* udpcontroller.cpp:272, "stop trying after 100 tries": to give up on a package is
\* to stop trying, not to end the io_context that serves every other channel.
GivingUpOnlyStopsTrying == \A s \in Side : io[s] # "dropped"
=============================================================================
