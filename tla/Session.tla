-------------------------------- MODULE Session --------------------------------
(****************************************************************************)
(* The life of a client's Connection (src/src/client/connection.cpp) over   *)
(* its sessions: connect on the application's thread, the thread that it    *)
(* starts to run the io_context, the completion handlers that this thread   *)
(* runs, and their part in ConnectionHandler (src/src/connectionhandler.cpp)*)
(*                                                                          *)
(* `con' is the Connection object and its socket; an operator named like a  *)
(* method gives the object the method leaves.  What is in the packages is   *)
(* in TcpStream, the UDP channel in UdpChannel.                             *)
(****************************************************************************)
EXTENDS Naturals, Sequences

CONSTANTS
    MaxConnects,    \* bound: calls of connect
    MaxQueue        \* bound: packages in pkg_queue

ASSUME BoundsAssumption == MaxConnects \in Nat /\ MaxQueue \in Nat

VARIABLES
    con,
    io_context_running,
    stopped,    \* the io_context has run out of work and was not restarted
    threads,    \* how many threads of start_context_thread are at each place
    app,        \* where the application's thread is in connect
    connects,   \* calls of connect
    missed,     \* history: connect counted on a thread that had left run
    crossed     \* history: the state was set back in the middle of connect

vars == <<con, io_context_running, stopped, threads, app, connects, missed, crossed>>

Ops == {"resolve", "connect", "read", "write", "ping"}
Places == {"starting", "running", "greeting", "catching", "ended", "restarted"}

Init ==
    /\ con = [connection_state |-> "DISCONNECTED",
              receiving |-> FALSE, busy |-> FALSE, pkg_queue |-> <<>>,
              \* "closed", "connecting" or "connected"
              socket |-> "closed",
              \* operations under way; completions that wait for their handler
              pending |-> [op \in Ops |-> 0], ready |-> <<>>,
              \* history: what was first written to the connected socket; the
              \* application sent something before send_app_info; the handler of
              \* a read threw since the last close; connect was called while a
              \* resolve or a connect of an earlier call was under way
              first |-> "none", early |-> FALSE, thrown |-> FALSE, overlapped |-> FALSE]
    /\ io_context_running = FALSE
    /\ stopped = FALSE
    /\ threads = [p \in Places |-> 0]
    /\ app = "idle"
    /\ connects = 0
    /\ missed = FALSE
    /\ crossed = FALSE

-----------------------------------------------------------------------------
(* The socket and the timer                                                 *)

Done(op, ok) == [op |-> op, ok |-> ok]

Outstanding(c, op) ==
    c.pending[op] > 0 \/ \E i \in DOMAIN c.ready : c.ready[i].op = op

\* Operations that are cancelled complete with an error.
Cancelled(c, op) == [i \in 1 .. c.pending[op] |-> Done(op, FALSE)]

CloseSocket(c) ==
    [c EXCEPT !.socket = "closed", !.first = "none", !.early = FALSE,
              !.pending = [@ EXCEPT !["connect"] = 0, !["read"] = 0, !["write"] = 0],
              !.ready = @ \o Cancelled(c, "connect") \o Cancelled(c, "read")
                          \o Cancelled(c, "write")]

\* Begins an operation, which fails at once in the wrong state of the socket.
Begin(c, op, state) ==
    IF c.socket = state THEN [c EXCEPT !.pending[op] = @ + 1]
    ELSE [c EXCEPT !.ready = Append(@, Done(op, FALSE))]

-----------------------------------------------------------------------------
(* ConnectionHandler                                                        *)

CloseReceiving(c) ==
    [CloseSocket(c) EXCEPT !.connection_state = "DISCONNECTED", !.busy = FALSE,
                           !.thrown = FALSE]
Close(c) ==
    [CloseSocket(c) EXCEPT !.connection_state = "DISCONNECTED", !.receiving = FALSE,
                           !.busy = FALSE, !.thrown = FALSE]

Send(c, pkg) ==
    [Begin(c, "write", "connected") EXCEPT
         !.busy = TRUE,
         !.first = IF @ = "none" /\ c.socket = "connected" THEN pkg ELSE @]
QsendOldestFirst(c, pkg) ==
    IF c.busy \/ c.pkg_queue = <<>>
    THEN IF c.busy THEN [c EXCEPT !.pkg_queue = Append(@, pkg)] ELSE Send(c, pkg)
    ELSE [Send(c, Head(c.pkg_queue)) EXCEPT !.pkg_queue = Append(Tail(@), pkg)]
Qsend(c, pkg) ==
    IF c.busy THEN [c EXCEPT !.pkg_queue = Append(@, pkg)] ELSE Send(c, pkg)

HandleQsentContentIdle(c) == [c EXCEPT !.busy = FALSE]
HandleQsentContent(c) ==
    IF c.pkg_queue = <<>> THEN [c EXCEPT !.busy = FALSE]
    ELSE [Send(c, Head(c.pkg_queue)) EXCEPT !.pkg_queue = Tail(@)]

Qread(c) == [Begin(c, "read", "connected") EXCEPT !.receiving = TRUE]
StartReceive(c) == IF c.receiving THEN c ELSE Qread(c)

\* expires_after cancels the wait that is under way, if there is one.
StartPingTask(c) ==
    [c EXCEPT !.pending["ping"] = 1, !.ready = @ \o Cancelled(c, "ping")]

-----------------------------------------------------------------------------
(* connect, on the application's thread                                     *)

Connect ==
    /\ app = "idle"
    /\ connects < MaxConnects
    /\ con.connection_state = "DISCONNECTED"
    /\ con' = [CloseSocket(con) EXCEPT
                   !.connection_state = "CONNECTING",
                   !.overlapped = Outstanding(con, "resolve") \/ Outstanding(con, "connect")]
    /\ connects' = connects + 1
    /\ app' = "resolving"
    /\ UNCHANGED <<io_context_running, stopped, threads, missed, crossed>>

AsyncResolve ==
    /\ app = "resolving"
    /\ con' = [con EXCEPT !.pending["resolve"] = @ + 1]
    /\ app' = "starting"
    /\ UNCHANGED <<io_context_running, stopped, threads, connects, missed, crossed>>

NeedsThreadAlways == TRUE
NeedsThread == ~io_context_running

StartContextThread ==
    /\ app = "starting"
    /\ IF NeedsThread
       THEN /\ threads' = [threads EXCEPT !["starting"] = @ + 1]
            /\ UNCHANGED missed
       ELSE /\ missed' = (missed \/ threads["running"] + threads["greeting"] = 0)
            /\ UNCHANGED threads
    /\ app' = "idle"
    /\ UNCHANGED <<con, io_context_running, stopped, connects, crossed>>

\* qsend by the application, taken as one step, once the connection is usable.
AppSends ==
    /\ app = "idle"
    /\ con.connection_state = "CONNECTED"
    /\ Len(con.pkg_queue) < MaxQueue
    /\ con' = [Qsend(con, "event") EXCEPT
                   !.early = @ \/ threads["greeting"] > 0]
    /\ UNCHANGED <<io_context_running, stopped, threads, app, connects, missed, crossed>>

-----------------------------------------------------------------------------
(* The thread that runs the io_context                                      *)

Threads ==
    threads["starting"] + threads["running"] + threads["greeting"]
        + threads["catching"] + threads["ended"] + threads["restarted"]

Goes(from, to) ==
    /\ threads[from] > 0
    /\ threads' = [threads EXCEPT ![from] = @ - 1, ![to] = @ + 1]

ThreadStarts ==
    /\ Goes("starting", "running")
    /\ io_context_running' = TRUE
    /\ UNCHANGED <<con, stopped, app, connects, missed, crossed>>

NoWork ==
    /\ con.ready = <<>>
    /\ \A op \in Ops : con.pending[op] = 0
    /\ threads["greeting"] = 0

\* run returns at once in a context that is stopped.
RunReturns ==
    /\ stopped \/ NoWork
    /\ Goes("running", "ended")
    /\ stopped' = TRUE
    /\ UNCHANGED <<con, io_context_running, app, connects, missed, crossed>>

SetsStateBack == crossed' = (crossed \/ app # "idle")

CatchException ==
    /\ Goes("catching", "ended")
    /\ con' = [con EXCEPT !.connection_state = "DISCONNECTED"]
    /\ SetsStateBack
    /\ UNCHANGED <<io_context_running, stopped, app, connects, missed>>

AfterRestartStill == stopped
AfterRestart == FALSE

Restart ==
    /\ Goes("ended", "restarted")
    /\ stopped' = AfterRestart
    /\ UNCHANGED <<con, io_context_running, app, connects, missed, crossed>>

ThreadEnds ==
    /\ threads["restarted"] > 0
    /\ threads' = [threads EXCEPT !["restarted"] = @ - 1]
    /\ io_context_running' = FALSE
    /\ UNCHANGED <<con, stopped, app, connects, missed, crossed>>

-----------------------------------------------------------------------------
(* Completion handlers                                                      *)

\* The connection when the handler of a completion begins.  What two threads that
\* run handlers on the same object do is undefined, and the model ends there.
Taken == [con EXCEPT !.ready = Tail(@)]

Handles(op, ok) ==
    /\ Threads = 1
    /\ ~stopped
    /\ con.ready # <<>>
    /\ Head(con.ready) = Done(op, ok)
    /\ UNCHANGED <<io_context_running, stopped, app, connects, missed>>

Leaves(c) == con' = c /\ Goes("running", "running") /\ UNCHANGED crossed
Throws(c) == con' = c /\ Goes("running", "catching") /\ UNCHANGED crossed

\* resolve_handler and connect_handler throw what goes wrong.
ResolveFails == Handles("resolve", FALSE) /\ Throws(Taken)
ConnectFails == Handles("connect", FALSE) /\ Throws(Taken)

Resolved ==
    /\ Handles("resolve", TRUE)
    /\ Leaves([Begin(Taken, "connect", "closed") EXCEPT
                  !.socket = IF @ = "closed" THEN "connecting" ELSE @])

\* connect_handler: the state is set first,
Connected ==
    /\ Handles("connect", TRUE)
    /\ con' = [Taken EXCEPT !.connection_state = "CONNECTED"]
    /\ Goes("running", "greeting")
    /\ UNCHANGED crossed

\* and then, if remote_endpoint does not throw, the rest is done.
SendAppInfo(c) == Qsend(c, "net/appInfo")
Greet ==
    /\ \/ /\ con.socket = "connected"
          /\ con' = SendAppInfo(StartReceive(StartPingTask(con)))
          /\ Goes("greeting", "running")
       \/ /\ con.socket # "connected"
          /\ UNCHANGED con
          /\ Goes("greeting", "catching")
    /\ UNCHANGED <<io_context_running, stopped, app, connects, missed, crossed>>

\* handle_qread_content; a package or a listener may make it throw.
ReadDone ==
    /\ Handles("read", TRUE)
    /\ Leaves(Qread(Taken)) \/ Throws([Taken EXCEPT !.thrown = TRUE])

WriteDone == Handles("write", TRUE) /\ Leaves(HandleQsentContent(Taken))

\* No client of the repository listens to net/disconnect.
OperationFails ==
    /\ \E op \in {"read", "write"} : Handles(op, FALSE)
    /\ con' = Close(Taken)
    /\ Goes("running", "running")
    /\ SetsStateBack

\* The handler of the ping's wait does not look at its error.
PingTask ==
    /\ \E ok \in BOOLEAN : Handles("ping", ok)
    /\ \/ con.connection_state # "CONNECTED" /\ Leaves(Taken)
       \/ /\ con.connection_state = "CONNECTED"
          /\ Len(con.pkg_queue) < MaxQueue
          /\ Leaves(StartPingTask(Qsend(Taken, "net/ping")))

\* The network, the resolver and the clock complete what is under way.
Completes(op, ok) ==
    /\ con.pending[op] > 0
    /\ op = "ping" => ok
    /\ con' = [con EXCEPT !.pending[op] = @ - 1, !.ready = Append(@, Done(op, ok)),
                          !.socket = IF op # "connect" THEN @
                                     ELSE IF ok THEN "connected" ELSE "closed"]
    /\ UNCHANGED <<io_context_running, stopped, threads, app, connects, missed, crossed>>

-----------------------------------------------------------------------------
Call == Connect \/ AppSends
CallGoesOn == AsyncResolve \/ StartContextThread
Handler ==
    \/ ResolveFails \/ ConnectFails \/ Resolved \/ Connected \/ Greet
    \/ ReadDone \/ WriteDone \/ OperationFails \/ PingTask
Thread == ThreadStarts \/ RunReturns \/ CatchException \/ Restart \/ ThreadEnds
Network == \E op \in Ops, ok \in BOOLEAN : Completes(op, ok)

Next == Call \/ CallGoesOn \/ Handler \/ Thread \/ Network

Spec == Init /\ [][Next]_vars

\* Threads are scheduled, and what resolves or connects ends, in success or not.
FairSpec ==
    /\ Spec
    /\ WF_vars(CallGoesOn) /\ WF_vars(Handler) /\ WF_vars(Thread)
    /\ \A op \in {"resolve", "connect"} :
           WF_vars(\E ok \in BOOLEAN : Completes(op, ok))

-----------------------------------------------------------------------------
(* Properties                                                               *)

\* However calls of connect, errors and the end of run interleave, one thread at most
\* runs the io_context, so that handlers never run at the same time.
OneIoThread == Threads <= 1 \/ crossed

\* A connection reads, in every session, and packages that wait in its queue, those
\* of an earlier session too, wait for a write that is under way: it is busy, and
\* what makes it busy is outstanding.  The exception is a handler of a read that
\* threw: `receiving' is still set in the next session, whose start_receive returns.
ConnectionMoves ==
    con.connection_state = "CONNECTED" /\ threads["running"] > 0 =>
        /\ Outstanding(con, "read") \/ con.thrown
        /\ con.pkg_queue # <<>> => con.busy
        /\ con.busy => Outstanding(con, "write")

\* What send_app_info says of net/appInfo: it "is the first tcp pkg which must be
\* sent to the server" (pings are accepted).  Not so in the code, for the two reasons
\* that AppInfoFirst names.
AppInfoMustBeFirst == con.first \in {"none", "net/appInfo", "net/ping"}

\* What remains of that: the application is announced before anything left in the
\* queue by an earlier session.  Only an application that sends as soon as the state
\* is CONNECTED can come before send_app_info, and a write of an earlier session that
\* is handled when a late resolve of an overlapping connect has led to a socket.
AppInfoFirst == con.first \in {"none", "net/appInfo"} \/ con.early \/ con.overlapped

\* connect ends: in a connection or in a state that allows another call, unless
\* it left its work to a thread that was about to end, or two threads run.
ConnectResolves ==
    con.connection_state = "CONNECTING"
        ~> (con.connection_state # "CONNECTING" \/ missed \/ Threads > 1)
=============================================================================
