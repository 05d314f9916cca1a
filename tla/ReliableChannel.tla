--------------------------- MODULE ReliableChannel ---------------------------
(****************************************************************************)
(* What a UDP channel of the engine promises to the code above it           *)
(* (ConnectionHandler::qsend_udp on one side, process_pkg_fn on the other): *)
(* in each direction, every package handed to send() is handled by the peer *)
(* at most once and in the order in which it was sent, whatever the network *)
(* does.  Nothing is said of when, or of whether: a peer may stop.          *)
(****************************************************************************)
EXTENDS Naturals, Sequences

CONSTANTS Msgs,     \* the packages an application may send
          MaxSend   \* bound: packages sent per direction

VARIABLES sent,      \* sent[s]: packages side s has handed to send(), in order
          delivered  \* delivered[s]: packages handled at side s, in order

chanVars == <<sent, delivered>>

Side == {"client", "server"}
Peer(s) == IF s = "client" THEN "server" ELSE "client"

Init ==
    /\ sent = [s \in Side |-> <<>>]
    /\ delivered = [s \in Side |-> <<>>]

Send(s) ==
    /\ Len(sent[s]) < MaxSend
    /\ \E m \in Msgs : sent' = [sent EXCEPT ![s] = Append(@, m)]
    /\ UNCHANGED delivered

\* One datagram may complete a run of packages that waited behind it, so a
\* step handles any number of the packages that come next.
Deliver(s) ==
    /\ \E n \in Len(delivered[s]) .. Len(sent[Peer(s)]) :
           delivered' = [delivered EXCEPT ![s] = SubSeq(sent[Peer(s)], 1, n)]
    /\ UNCHANGED sent

Next == \E s \in Side : Send(s) \/ Deliver(s)

Spec == Init /\ [][Next]_chanVars
=============================================================================
