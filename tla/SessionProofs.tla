----------------------------- MODULE SessionProofs -----------------------------
(****************************************************************************)
(* Proofs about Session, for any number of calls of connect and any length  *)
(* of the queue.                                                            *)
(****************************************************************************)
EXTENDS Session, TLAPS

-----------------------------------------------------------------------------
(* What the operations on the connection do to its state                    *)

HasState(c) == "connection_state" \in DOMAIN c
Keeps(c, d) == HasState(d) /\ d.connection_state = c.connection_state

LEMMA KeepsIsTransitive ==
    ASSUME NEW b, NEW c, NEW d, Keeps(b, c), Keeps(c, d)
    PROVE  Keeps(b, d)
  BY DEF Keeps

LEMMA CloseSocketKeeps == \A c : HasState(c) => Keeps(c, CloseSocket(c))
  BY DEF HasState, Keeps, CloseSocket

LEMMA BeginKeeps == \A c, op, state : HasState(c) => Keeps(c, Begin(c, op, state))
  BY DEF HasState, Keeps, Begin

LEMMA SendKeeps == \A c, pkg : HasState(c) => Keeps(c, Send(c, pkg))
  <1> SUFFICES ASSUME NEW c, NEW pkg, HasState(c) PROVE Keeps(c, Send(c, pkg))
    OBVIOUS
  <1> DEFINE b == Begin(c, "write", "connected")
  <1>1. Keeps(c, b)
    BY BeginKeeps
  <1> HIDE DEF b
  <1>2. Keeps(b, Send(c, pkg))
    BY <1>1 DEF HasState, Keeps, Send, b
  <1> QED
    BY <1>1, <1>2, KeepsIsTransitive

LEMMA QsendKeeps == \A c, pkg : HasState(c) => Keeps(c, Qsend(c, pkg))
  <1> SUFFICES ASSUME NEW c, NEW pkg, HasState(c) PROVE Keeps(c, Qsend(c, pkg))
    OBVIOUS
  <1>1. Keeps(c, Send(c, pkg))
    BY SendKeeps
  <1>2. Keeps(c, [c EXCEPT !.pkg_queue = Append(@, pkg)])
    BY DEF HasState, Keeps
  <1> QED
    BY <1>1, <1>2 DEF Qsend

LEMMA HandleQsentContentKeeps == \A c : HasState(c) => Keeps(c, HandleQsentContent(c))
  <1> SUFFICES ASSUME NEW c, HasState(c) PROVE Keeps(c, HandleQsentContent(c))
    OBVIOUS
  <1> DEFINE d == Send(c, Head(c.pkg_queue))
  <1>1. Keeps(c, d)
    BY SendKeeps
  <1> HIDE DEF d
  <1>2. Keeps(d, [d EXCEPT !.pkg_queue = Tail(@)])
    BY <1>1 DEF HasState, Keeps
  <1>3. Keeps(c, [d EXCEPT !.pkg_queue = Tail(@)])
    BY <1>1, <1>2, KeepsIsTransitive
  <1>4. Keeps(c, [c EXCEPT !.busy = FALSE])
    BY DEF HasState, Keeps
  <1> QED
    BY <1>3, <1>4 DEF HandleQsentContent, d

LEMMA QreadKeeps == \A c : HasState(c) => Keeps(c, Qread(c))
  <1> SUFFICES ASSUME NEW c, HasState(c) PROVE Keeps(c, Qread(c))
    OBVIOUS
  <1> DEFINE b == Begin(c, "read", "connected")
  <1>1. Keeps(c, b)
    BY BeginKeeps
  <1> HIDE DEF b
  <1>2. Keeps(b, Qread(c))
    BY <1>1 DEF HasState, Keeps, Qread, b
  <1> QED
    BY <1>1, <1>2, KeepsIsTransitive

LEMMA StartReceiveKeeps == \A c : HasState(c) => Keeps(c, StartReceive(c))
  BY QreadKeeps DEF StartReceive, Keeps

LEMMA StartPingTaskKeeps == \A c : HasState(c) => Keeps(c, StartPingTask(c))
  BY DEF HasState, Keeps, StartPingTask

-----------------------------------------------------------------------------
(* The invariant                                                            *)

\* Unless the state was set back in the middle of connect: a thread that has not
\* yet announced itself in io_context_running keeps the state from allowing
\* another connect, and any other thread has announced itself.
Announced ==
    /\ Threads <= 1
    /\ threads["starting"] > 0 =>
           app = "idle" /\ con.connection_state # "DISCONNECTED"
    /\ app # "idle" => con.connection_state # "DISCONNECTED"
    /\ Threads > threads["starting"] => io_context_running

IInv ==
    /\ HasState(con)
    /\ threads \in [Places -> Nat]
    /\ crossed \in BOOLEAN
    /\ crossed \/ Announced

LEMMA InitIInv == Init => IInv
  <1> SUFFICES ASSUME Init PROVE IInv
    OBVIOUS
  <1>1. threads = [p \in Places |-> 0] /\ app = "idle" /\ crossed = FALSE
    BY DEF Init
  <1>2. HasState(con)
    BY DEF Init, HasState
  <1>3. threads \in [Places -> Nat] /\ Threads = 0 /\ threads["starting"] = 0
    BY <1>1 DEF Threads, Places
  <1>4. Announced
    BY <1>1, <1>3 DEF Announced
  <1>5. crossed \in BOOLEAN
    BY <1>1
  <1> QED
    BY <1>2, <1>3, <1>4, <1>5 DEF IInv

\* A thread that goes from one place to another is still one thread.
LEMMA GoesKeepsThreads ==
    ASSUME threads \in [Places -> Nat], NEW from \in Places, NEW to \in Places,
           Goes(from, to)
    PROVE  /\ threads' \in [Places -> Nat]
           /\ Threads' = Threads
           /\ Threads \in Nat
           /\ threads[from] > 0
           /\ from # "starting" /\ to # "starting" => threads'["starting"] = threads["starting"]
           /\ from = "starting" /\ to # "starting" =>
                  threads'["starting"] = threads["starting"] - 1
  BY DEF Goes, Threads, Places

\* With one thread at most, one that is anywhere else is the only one.
LEMMA OtherThread ==
    ASSUME IInv, ~crossed, NEW p \in Places \ {"starting"}, threads[p] > 0
    PROVE  threads["starting"] = 0 /\ Threads = 1 /\ io_context_running
  BY DEF IInv, Announced, Threads, Places

\* A step of such a thread that does not set the state back.
LEMMA HandlerStep ==
    ASSUME IInv, NEW from \in Places \ {"starting"}, NEW to \in Places \ {"starting"},
           Goes(from, to), crossed' = crossed, app' = app,
           io_context_running' = io_context_running, HasState(con'),
           con'.connection_state = con.connection_state
               \/ con'.connection_state # "DISCONNECTED"
    PROVE  IInv'
  <1>1. /\ threads' \in [Places -> Nat] /\ Threads' = Threads /\ threads[from] > 0
        /\ threads'["starting"] = threads["starting"]
    BY GoesKeepsThreads DEF IInv
  <1>2. CASE crossed
    BY <1>1, <1>2 DEF IInv
  <1>3. CASE ~crossed
    <2>1. threads["starting"] = 0 /\ Threads = 1 /\ io_context_running
      BY <1>1, <1>3, OtherThread
    <2>2. app # "idle" => con'.connection_state # "DISCONNECTED"
      BY <1>3 DEF IInv, Announced
    <2>3. Announced'
      BY <1>1, <2>1, <2>2 DEF Announced
    <2> QED
      BY <1>1, <2>3 DEF IInv
  <1> QED
    BY <1>2, <1>3 DEF IInv

\* A step of such a thread that does: it is crossed if connect is going on.
LEMMA SetBackStep ==
    ASSUME IInv, NEW from \in Places \ {"starting"}, NEW to \in Places \ {"starting"},
           Goes(from, to), SetsStateBack, app' = app,
           io_context_running' = io_context_running, HasState(con')
    PROVE  IInv'
  <1>1. /\ threads' \in [Places -> Nat] /\ Threads' = Threads /\ threads[from] > 0
        /\ threads'["starting"] = threads["starting"]
    BY GoesKeepsThreads DEF IInv
  <1>2. crossed' \in BOOLEAN
    BY DEF SetsStateBack, IInv
  <1>3. CASE crossed \/ app # "idle"
    <2>1. crossed'
      BY <1>3 DEF SetsStateBack
    <2> QED
      BY <1>1, <1>2, <2>1 DEF IInv
  <1>4. CASE ~crossed /\ app = "idle"
    <2>1. threads["starting"] = 0 /\ Threads = 1 /\ io_context_running
      BY <1>1, <1>4, OtherThread
    <2>2. Announced'
      BY <1>1, <1>4, <2>1 DEF Announced
    <2> QED
      BY <1>1, <1>2, <2>2 DEF IInv
  <1> QED
    BY <1>3, <1>4 DEF IInv

-----------------------------------------------------------------------------
(* One lemma for each action, or group of actions alike                     *)

\* Steps that neither move a thread nor allow another connect.
LEMMA StillStep ==
    ASSUME IInv, threads' = threads, crossed' = crossed,
           io_context_running' = io_context_running, HasState(con'),
           app # "idle" => con'.connection_state # "DISCONNECTED" \/ crossed,
           app' = app \/ (app # "idle" /\ app' # "idle"),
           con'.connection_state = con.connection_state
    PROVE  IInv'
  <1>1. Threads' = Threads
    BY DEF Threads
  <1>2. CASE crossed
    BY <1>2 DEF IInv
  <1>3. CASE ~crossed
    <2>1. Announced
      BY <1>3 DEF IInv
    <2>2. Announced'
      BY <1>1, <1>3, <2>1 DEF Announced
    <2> QED
      BY <2>2 DEF IInv
  <1> QED
    BY <1>2, <1>3 DEF IInv

LEMMA ConnectStep ==
    ASSUME IInv, Connect
    PROVE  IInv'
  <1>1. /\ \E o : con' = [CloseSocket(con) EXCEPT !.connection_state = "CONNECTING",
                                                   !.overlapped = o]
        /\ app = "idle" /\ app' = "resolving" /\ con.connection_state = "DISCONNECTED"
        /\ threads' = threads /\ crossed' = crossed
        /\ io_context_running' = io_context_running
    BY DEF Connect
  <1>2. HasState(CloseSocket(con))
    BY CloseSocketKeeps DEF IInv, Keeps
  <1>3. HasState(con') /\ con'.connection_state = "CONNECTING"
    BY <1>1, <1>2 DEF HasState
  <1>4. Threads' = Threads
    BY <1>1 DEF Threads
  <1>5. ASSUME ~crossed PROVE Announced'
    <2>1. Announced /\ threads["starting"] \in Nat
      BY <1>5 DEF IInv, Places
    <2>2. ~(threads["starting"] > 0)
      BY <1>1, <2>1 DEF Announced
    <2> QED
      BY <1>1, <1>3, <1>4, <2>1, <2>2 DEF Announced
  <1> QED
    BY <1>1, <1>3, <1>5 DEF IInv

LEMMA AsyncResolveStep ==
    ASSUME IInv, AsyncResolve
    PROVE  IInv'
  <1>1. /\ con' = [con EXCEPT !.pending["resolve"] = @ + 1]
        /\ app # "idle" /\ app' # "idle"
        /\ threads' = threads /\ crossed' = crossed
        /\ io_context_running' = io_context_running
    BY DEF AsyncResolve
  <1>2. HasState(con') /\ con'.connection_state = con.connection_state
    BY <1>1 DEF IInv, HasState
  <1>3. con.connection_state # "DISCONNECTED" \/ crossed
    BY <1>1 DEF IInv, Announced
  <1> QED
    BY <1>1, <1>2, <1>3, StillStep

LEMMA StartContextThreadStep ==
    ASSUME IInv, StartContextThread
    PROVE  IInv'
  <1>1. /\ con' = con /\ crossed' = crossed /\ io_context_running' = io_context_running
        /\ app = "starting" /\ app' = "idle"
    BY DEF StartContextThread
  <1>2. CASE io_context_running
    <2>1. threads' = threads
      BY <1>2 DEF StartContextThread, NeedsThread
    <2>2. Threads' = Threads
      BY <2>1 DEF Threads
    <2>3. ASSUME ~crossed PROVE Announced'
      <3>1. Announced
        BY <2>3 DEF IInv
      <3> QED
        BY <1>1, <2>1, <2>2, <3>1 DEF Announced
    <2> QED
      BY <1>1, <2>1, <2>3 DEF IInv
  <1>3. CASE ~io_context_running
    <2>1. threads' = [threads EXCEPT !["starting"] = @ + 1]
      BY <1>3 DEF StartContextThread, NeedsThread
    <2>2. /\ threads' \in [Places -> Nat] /\ Threads' = Threads + 1 /\ Threads \in Nat
          /\ threads'["starting"] = threads["starting"] + 1
          /\ threads["starting"] \in Nat
      BY <2>1 DEF IInv, Threads, Places
    <2>3. ASSUME ~crossed PROVE Announced'
      <3>1. Announced
        BY <2>3 DEF IInv
      <3>2. threads["starting"] = 0 /\ ~(Threads > threads["starting"])
        BY <1>1, <1>3, <2>2, <3>1 DEF Announced
      <3>3. con.connection_state # "DISCONNECTED"
        BY <1>1, <3>1 DEF Announced
      <3>4. Threads' <= 1 /\ ~(Threads' > threads'["starting"])
        BY <2>2, <3>2
      <3> QED
        BY <1>1, <3>3, <3>4 DEF Announced
    <2> QED
      BY <1>1, <2>2, <2>3 DEF IInv
  <1> QED
    BY <1>2, <1>3

LEMMA AppSendsStep ==
    ASSUME IInv, AppSends
    PROVE  IInv'
  <1> DEFINE q == Qsend(con, "event")
  <1>1. Keeps(con, q)
    BY QsendKeeps DEF IInv
  <1>2. /\ \E e : con' = [q EXCEPT !.early = e]
        /\ app = "idle" /\ app' = app /\ threads' = threads /\ crossed' = crossed
        /\ io_context_running' = io_context_running
    BY DEF AppSends
  <1> HIDE DEF q
  <1>3. HasState(con') /\ con'.connection_state = con.connection_state
    BY <1>1, <1>2 DEF Keeps, HasState
  <1> QED
    BY <1>2, <1>3, StillStep

LEMMA CompletesStep ==
    ASSUME IInv, NEW op \in Ops, NEW ok \in BOOLEAN, Completes(op, ok)
    PROVE  IInv'
  <1>1. /\ HasState(con') /\ con'.connection_state = con.connection_state
        /\ app' = app /\ threads' = threads /\ crossed' = crossed
        /\ io_context_running' = io_context_running
    BY DEF Completes, IInv, HasState
  <1>2. app # "idle" => con.connection_state # "DISCONNECTED" \/ crossed
    BY DEF IInv, Announced
  <1> QED
    BY <1>1, <1>2, StillStep

\* The thread's own steps.
LEMMA ThreadStep ==
    ASSUME IInv, Thread
    PROVE  IInv'
  <1>1. CASE ThreadStarts
    <2>1. /\ Goes("starting", "running") /\ io_context_running'
          /\ con' = con /\ app' = app /\ crossed' = crossed
      BY <1>1 DEF ThreadStarts
    <2>2. /\ threads' \in [Places -> Nat] /\ Threads' = Threads /\ threads["starting"] > 0
          /\ threads'["starting"] = threads["starting"] - 1
          /\ Threads >= threads["starting"] /\ threads["starting"] \in Nat /\ Threads \in Nat
      BY <2>1, GoesKeepsThreads DEF IInv, Places, Threads
    <2>3. ASSUME ~crossed PROVE Announced'
      <3>1. Announced
        BY <2>3 DEF IInv
      <3>2. threads["starting"] = 1 /\ threads'["starting"] = 0 /\ app = "idle"
        BY <2>2, <3>1 DEF Announced
      <3> QED
        BY <2>1, <2>2, <3>1, <3>2 DEF Announced
    <2> QED
      BY <2>1, <2>2, <2>3 DEF IInv
  <1>2. CASE RunReturns
    BY <1>2, HandlerStep DEF RunReturns, Places, IInv
  <1>3. CASE CatchException
    <2>1. HasState(con')
      BY <1>3 DEF CatchException, IInv, HasState
    <2> QED
      BY <1>3, <2>1, SetBackStep DEF CatchException, Places
  <1>4. CASE Restart
    BY <1>4, HandlerStep DEF Restart, Places, IInv
  <1>5. CASE ThreadEnds
    <2>1. /\ threads["restarted"] > 0 /\ con' = con /\ app' = app /\ crossed' = crossed
          /\ threads' = [threads EXCEPT !["restarted"] = @ - 1]
      BY <1>5 DEF ThreadEnds
    <2>2. /\ threads' \in [Places -> Nat] /\ Threads' = Threads - 1 /\ Threads \in Nat
          /\ threads'["starting"] = threads["starting"]
      BY <2>1 DEF IInv, Threads, Places
    <2>3. ASSUME ~crossed PROVE Announced'
      <3>1. Announced
        BY <2>3 DEF IInv
      <3>2. threads["starting"] = 0 /\ Threads = 1
        BY <2>1, <2>3, OtherThread DEF Places
      <3> QED
        BY <2>1, <2>2, <3>1, <3>2 DEF Announced
    <2> QED
      BY <2>1, <2>2, <2>3 DEF IInv
  <1> QED
    BY <1>1, <1>2, <1>3, <1>4, <1>5 DEF Thread

\* What a handler starts from.
LEMMA TakenKeeps == HasState(con) => Keeps(con, Taken)
  BY DEF HasState, Keeps, Taken

\* The handlers.
LEMMA HandlersStep ==
    ASSUME IInv, Handler
    PROVE  IInv'
  <1> DEFINE Same == app' = app /\ io_context_running' = io_context_running
  <1>1. Keeps(con, Taken)
    BY TakenKeeps DEF IInv
  <1>2. ASSUME NEW c, Keeps(con, c), Leaves(c) \/ Throws(c), Same PROVE IInv'
    <2>1. /\ con' = c /\ crossed' = crossed
          /\ \/ Goes("running", "running")
             \/ Goes("running", "catching")
      BY <1>2 DEF Leaves, Throws
    <2>2. HasState(con') /\ con'.connection_state = con.connection_state
      BY <1>2, <2>1 DEF Keeps
    <2> QED
      BY <1>2, <2>1, <2>2, HandlerStep DEF Places
  <1>3. CASE ResolveFails \/ ConnectFails
    BY <1>1, <1>2, <1>3 DEF ResolveFails, ConnectFails, Handles
  <1>4. CASE Resolved
    <2> DEFINE b == Begin(Taken, "connect", "closed")
    <2>1. Keeps(con, b)
      BY <1>1, BeginKeeps, KeepsIsTransitive DEF Keeps
    <2>2. Same /\ \E e : Leaves([b EXCEPT !.socket = e])
      BY <1>4 DEF Resolved, Handles
    <2> HIDE DEF b
    <2>3. \A e : Keeps(con, [b EXCEPT !.socket = e])
      BY <2>1 DEF Keeps, HasState
    <2> QED
      BY <1>2, <2>2, <2>3
  <1>5. CASE Connected
    <2>1. HasState(con') /\ con'.connection_state = "CONNECTED"
      BY <1>1, <1>5 DEF Connected, Keeps, HasState
    <2> QED
      BY <1>5, <2>1, HandlerStep DEF Connected, Handles, Places
  <1>6. CASE Greet
    <2>1. Keeps(con, SendAppInfo(StartReceive(StartPingTask(con))))
      <3>1. Keeps(con, StartPingTask(con))
        BY StartPingTaskKeeps DEF IInv
      <3>2. Keeps(con, StartReceive(StartPingTask(con)))
        BY <3>1, StartReceiveKeeps, KeepsIsTransitive DEF Keeps
      <3> QED
        BY <3>2, QsendKeeps, KeepsIsTransitive DEF Keeps, SendAppInfo
    <2>2. /\ crossed' = crossed /\ Same
          /\ con' = con \/ con' = SendAppInfo(StartReceive(StartPingTask(con)))
          /\ Goes("greeting", "running") \/ Goes("greeting", "catching")
      BY <1>6 DEF Greet
    <2>3. HasState(con') /\ con'.connection_state = con.connection_state
      BY <2>1, <2>2 DEF Keeps, IInv
    <2> QED
      BY <2>2, <2>3, HandlerStep DEF Places
  <1>7. CASE ReadDone
    <2>1. Keeps(con, Qread(Taken))
      BY <1>1, QreadKeeps, KeepsIsTransitive DEF Keeps
    <2>2. Keeps(con, [Taken EXCEPT !.thrown = TRUE])
      BY <1>1 DEF Keeps, HasState
    <2> QED
      BY <1>2, <1>7, <2>1, <2>2 DEF ReadDone, Handles
  <1>8. CASE WriteDone
    <2>1. Keeps(con, HandleQsentContent(Taken))
      BY <1>1, HandleQsentContentKeeps, KeepsIsTransitive DEF Keeps
    <2> QED
      BY <1>2, <1>8, <2>1 DEF WriteDone, Handles
  <1>9. CASE OperationFails
    <2>1. HasState(CloseSocket(Taken))
      BY <1>1, CloseSocketKeeps DEF Keeps
    <2>2. HasState(con')
      BY <1>9, <2>1 DEF OperationFails, Close, HasState
    <2> QED
      BY <1>9, <2>2, SetBackStep DEF OperationFails, Handles, Places
  <1>10. CASE PingTask
    <2>1. Keeps(con, Qsend(Taken, "net/ping"))
      BY <1>1, QsendKeeps, KeepsIsTransitive DEF Keeps
    <2>2. Keeps(con, StartPingTask(Qsend(Taken, "net/ping")))
      BY <2>1, StartPingTaskKeeps, KeepsIsTransitive DEF Keeps
    <2> QED
      BY <1>1, <1>2, <1>10, <2>2 DEF PingTask, Handles
  <1> QED
    BY <1>3, <1>4, <1>5, <1>6, <1>7, <1>8, <1>9, <1>10 DEF Handler

LEMMA NextIInv ==
    ASSUME IInv, [Next]_vars
    PROVE  IInv'
  <1>1. CASE UNCHANGED vars
    BY <1>1 DEF vars, IInv, Announced, Threads, HasState
  <1>2. CASE Call
    BY <1>2, ConnectStep, AppSendsStep DEF Call
  <1>3. CASE CallGoesOn
    BY <1>3, AsyncResolveStep, StartContextThreadStep DEF CallGoesOn
  <1>4. CASE Handler
    BY <1>4, HandlersStep
  <1>5. CASE Thread
    BY <1>5, ThreadStep
  <1>6. CASE Network
    BY <1>6, CompletesStep DEF Network
  <1> QED
    BY <1>1, <1>2, <1>3, <1>4, <1>5, <1>6 DEF Next

\* However connect, errors and the end of run interleave, one thread at most runs
\* the io_context, unless the state was set back in the middle of connect.
THEOREM OneIoThreadTheorem == Spec => []OneIoThread
  <1>1. IInv => OneIoThread
    BY DEF IInv, Announced, OneIoThread
  <1>2. IInv /\ [Next]_vars => IInv'
    BY NextIInv
  <1> QED
    BY <1>1, <1>2, InitIInv, PTL DEF Spec

-----------------------------------------------------------------------------
(* The threads, also when the state was set back                            *)

\* One thread at most runs; or several do, with a resolve that none of them can
\* handle, so that none of them leaves run any more.
OneThread ==
    /\ Threads <= 1
    /\ Threads > threads["starting"] => io_context_running
    /\ stopped => threads["ended"] > 0
    /\ app = "starting" /\ threads["starting"] > 0 => Outstanding(con, "resolve")
Stuck ==
    /\ Threads > 1
    /\ Threads = threads["starting"] + threads["running"]
    /\ ~stopped
    /\ Outstanding(con, "resolve")

-----------------------------------------------------------------------------
(* The state of a connection                                                *)

States == {"DISCONNECTED", "CONNECTING", "CONNECTED"}
Packages == {"event", "net/ping", "net/appInfo"}
Completions == [op : Ops, ok : BOOLEAN]
Connections ==
    [connection_state : States, receiving : BOOLEAN, busy : BOOLEAN,
     pkg_queue : Seq(Packages), socket : {"closed", "connecting", "connected"},
     pending : [Ops -> Nat], ready : Seq(Completions),
     first : Packages \cup {"none"}, early : BOOLEAN, thrown : BOOLEAN,
     overlapped : BOOLEAN]

\* What the socket has under way fits its state.
SocketAgrees(c) ==
    /\ c.socket # "connected" => c.pending["read"] = 0 /\ c.pending["write"] = 0
    /\ c.pending["connect"] = IF c.socket = "connecting" THEN 1 ELSE 0

\* What is in the queue is behind a write.
QueueIsWritten(c) == c.pkg_queue # <<>> => c.busy

\* A connection that is busy or receiving waits for the operation's completion.
WaitsToWrite(c) == c.busy => Outstanding(c, "write")
WaitsToRead(c) == c.receiving => Outstanding(c, "read") \/ c.thrown

-----------------------------------------------------------------------------
(* How far the connect of a session that overlaps no other one has come     *)

ConnectOps == {"resolve", "connect"}

None(c) == \A i \in DOMAIN c.ready : c.ready[i].op \notin ConnectOps
Only(c, k) ==
    /\ k \in DOMAIN c.ready
    /\ \A i \in DOMAIN c.ready : i # k => c.ready[i].op \notin ConnectOps
UnderWay(c, resolves, connections) ==
    c.pending["resolve"] = resolves /\ c.pending["connect"] = connections

\* No completion of a successful write, from position k on.
NoneWritten(c, k) ==
    \A i \in DOMAIN c.ready : i >= k => c.ready[i] # Done("write", TRUE)

AtRest(c) == None(c) /\ UnderWay(c, 0, 0)
Resolving(c) == None(c) /\ UnderWay(c, 1, 0) /\ c.socket = "closed"
HasResolved(c, k) ==
    /\ Only(c, k) /\ UnderWay(c, 0, 0)
    /\ c.ready[k].op = "resolve" /\ c.socket = "closed" /\ NoneWritten(c, k)
Connecting(c) == None(c) /\ UnderWay(c, 0, 1) /\ NoneWritten(c, 1)
HasConnected(c, k) ==
    /\ Only(c, k) /\ UnderWay(c, 0, 0)
    /\ c.ready[k].op = "connect"
    /\ c.socket = "connected" =>
           /\ c.ready[k].ok /\ c.pending["write"] = 0 /\ NoneWritten(c, 1)
           /\ \A i \in DOMAIN c.ready : i > k => c.ready[i].op # "write"

OnItsWay(c) ==
    \/ Resolving(c) \/ Connecting(c)
    \/ \E k \in DOMAIN c.ready : HasResolved(c, k) \/ HasConnected(c, k)

\* Before anything is written to a connected socket, its greeting is to come or its
\* connect is still to be handled.
Orderly ==
    /\ AtRest(con) \/ (OnItsWay(con) /\ con.connection_state # "CONNECTED")
    /\ app = "resolving" =>
           AtRest(con) /\ con.socket = "closed" /\ con.connection_state # "CONNECTED"
    /\ AtRest(con) /\ con.socket = "connected" /\ con.first = "none" =>
           threads["greeting"] > 0 /\ ~con.busy

SInv ==
    /\ con \in Connections
    /\ threads \in [Places -> Nat]
    /\ OneThread \/ Stuck
    /\ SocketAgrees(con)
    /\ WaitsToWrite(con) /\ WaitsToRead(con)
    /\ con.connection_state = "CONNECTED" =>
           con.receiving \/ threads["greeting"] > 0 \/ threads["catching"] > 0
    /\ threads["greeting"] > 0 => con.connection_state = "CONNECTED"
    /\ con.overlapped \/ Orderly
    /\ AppInfoFirst

-----------------------------------------------------------------------------
(* Completions that are added behind those that wait                        *)

\* s is r and, behind it, members of S.
Grows(r, s, S) ==
    /\ Len(r) <= Len(s)
    /\ \A i \in 1 .. Len(r) : s[i] = r[i]
    /\ \A i \in Len(r) + 1 .. Len(s) : s[i] \in S

LEMMA GrowsIsTransitive ==
    ASSUME NEW T, NEW r \in Seq(T), NEW s \in Seq(T), NEW t \in Seq(T), NEW S,
           Grows(r, s, S), Grows(s, t, S)
    PROVE  Grows(r, t, S)
  <1>1. \A i \in Len(r) + 1 .. Len(t) : t[i] \in S
    <2> TAKE i \in Len(r) + 1 .. Len(t)
    <2>1. CASE i <= Len(s)
      BY <2>1 DEF Grows
    <2>2. CASE i > Len(s)
      BY <2>2 DEF Grows
    <2> QED
      BY <2>1, <2>2
  <1> QED
    BY <1>1 DEF Grows

LEMMA AppendGrows ==
    ASSUME NEW T, NEW r \in Seq(T), NEW x \in T, NEW S, x \in S
    PROVE  Append(r, x) \in Seq(T) /\ Grows(r, Append(r, x), S)
  BY DEF Grows

LEMMA NothingGrows ==
    ASSUME NEW T, NEW r \in Seq(T), NEW S
    PROVE  Grows(r, r, S)
  BY DEF Grows

LEMMA ConcatenationGrows ==
    ASSUME NEW T, NEW r \in Seq(T), NEW s \in Seq(T), NEW S, \A i \in 1 .. Len(s) : s[i] \in S
    PROVE  r \o s \in Seq(T) /\ Grows(r, r \o s, S)
  BY DEF Grows

\* A member of the longer one.
LEMMA GrownMember ==
    ASSUME NEW T, NEW r \in Seq(T), NEW s \in Seq(T), NEW S, Grows(r, s, S),
           NEW i \in DOMAIN s
    PROVE  (i \in DOMAIN r /\ s[i] = r[i]) \/ (i > Len(r) /\ s[i] \in S)
  BY DEF Grows

\* What an operation that is outstanding needs to stay so.
LEMMA StaysOutstanding ==
    ASSUME NEW c \in Connections, NEW d \in Connections, NEW op \in Ops, NEW S,
           d.pending[op] >= c.pending[op], Grows(c.ready, d.ready, S),
           Outstanding(c, op)
    PROVE  Outstanding(d, op)
  <1>1. CASE c.pending[op] > 0
    BY <1>1 DEF Outstanding, Connections
  <1>2. CASE \E i \in DOMAIN c.ready : c.ready[i].op = op
    <2>1. PICK i \in DOMAIN c.ready : c.ready[i].op = op
      BY <1>2
    <2>2. i \in 1 .. Len(c.ready) /\ i \in DOMAIN d.ready
      BY <2>1 DEF Grows, Connections
    <2> QED
      BY <2>1, <2>2 DEF Grows, Outstanding
  <1> QED
    BY <1>1, <1>2 DEF Outstanding

\* The object is c with other things under way than the operations of connect.
Others(c) ==
    {x \in Completions :
         x.op \notin ConnectOps /\ (c.socket # "connected" => x # Done("write", TRUE))}
Beside(c, d) ==
    /\ d \in Connections
    /\ d.socket = c.socket /\ d.connection_state = c.connection_state
    /\ d.overlapped = c.overlapped
    /\ d.pending["resolve"] = c.pending["resolve"]
    /\ d.pending["connect"] = c.pending["connect"]
    /\ Grows(c.ready, d.ready, Others(c))
\* ... and none of those is a write.
NotWrites == {x \in Completions : x.op # "write"}
WithoutWrite(c, d) ==
    d.pending["write"] = c.pending["write"] /\ Grows(c.ready, d.ready, NotWrites)

LEMMA BesideIsTransitive ==
    ASSUME NEW b \in Connections, NEW c, NEW d, Beside(b, c), Beside(c, d)
    PROVE  Beside(b, d)
  <1>1. Others(c) = Others(b) /\ c \in Connections /\ d \in Connections
    BY DEF Beside, Others
  <1>2. Grows(b.ready, d.ready, Others(b))
    BY <1>1, GrowsIsTransitive DEF Beside, Connections
  <1> QED
    BY <1>1, <1>2 DEF Beside

\* What is beside a connect leaves it where it is.
LEMMA BesideAtRest ==
    ASSUME NEW c \in Connections, NEW d, Beside(c, d), AtRest(c)
    PROVE  AtRest(d)
  <1>1. None(d)
    <2> SUFFICES ASSUME NEW i \in DOMAIN d.ready PROVE d.ready[i].op \notin ConnectOps
      BY DEF None
    <2>1. \/ i \in DOMAIN c.ready /\ d.ready[i] = c.ready[i]
          \/ d.ready[i] \in Others(c)
      BY GrownMember DEF Beside, Connections
    <2> QED
      BY <2>1 DEF Others, AtRest, None
  <1> QED
    BY <1>1 DEF Beside, AtRest, UnderWay

LEMMA BesideOnItsWay ==
    ASSUME NEW c \in Connections, NEW d, Beside(c, d), OnItsWay(c), SocketAgrees(c),
           c.socket = "connected" => WithoutWrite(c, d)
    PROVE  OnItsWay(d)
  <1>1. \A i \in DOMAIN d.ready :
            \/ i \in DOMAIN c.ready /\ d.ready[i] = c.ready[i]
            \/ i > Len(c.ready) /\ d.ready[i] \in Others(c)
    BY GrownMember DEF Beside, Connections
  <1>2. \A i \in DOMAIN c.ready : i \in DOMAIN d.ready /\ d.ready[i] = c.ready[i]
    BY DEF Beside, Grows, Connections
  <1>3. None(c) => None(d)
    BY <1>1 DEF None, Others
  <1>4. \A k : Only(c, k) => Only(d, k)
    BY <1>1, <1>2 DEF Only, Others
  <1>5. \A m, n : UnderWay(c, m, n) => UnderWay(d, m, n)
    BY DEF Beside, UnderWay
  <1>6. \A k : c.socket # "connected" /\ NoneWritten(c, k) => NoneWritten(d, k)
    BY <1>1 DEF NoneWritten, Others
  <1>7. Resolving(c) => Resolving(d)
    BY <1>3, <1>5 DEF Resolving, Beside
  <1>8. Connecting(c) => Connecting(d)
    BY <1>3, <1>5, <1>6 DEF Connecting, Beside, SocketAgrees, UnderWay
  <1>9. \A k : HasResolved(c, k) => HasResolved(d, k)
    BY <1>2, <1>4, <1>5, <1>6 DEF HasResolved, Beside, Only
  <1>10. ASSUME NEW k \in DOMAIN c.ready, HasConnected(c, k) PROVE HasConnected(d, k)
    <2>1. Only(d, k) /\ UnderWay(d, 0, 0) /\ d.ready[k] = c.ready[k] /\ d.socket = c.socket
      BY <1>2, <1>4, <1>5, <1>10 DEF HasConnected, Beside
    <2>2. CASE c.socket = "connected"
      <3>1. \A i \in DOMAIN d.ready :
                \/ i \in DOMAIN c.ready /\ d.ready[i] = c.ready[i]
                \/ d.ready[i] \in NotWrites
        BY <2>2, GrownMember DEF WithoutWrite, Beside, Connections
      <3>2. NoneWritten(d, 1) /\ \A i \in DOMAIN d.ready : i > k => d.ready[i].op # "write"
        BY <1>10, <2>2, <3>1 DEF HasConnected, NoneWritten, NotWrites, Done
      <3>3. d.pending["write"] = 0
        BY <1>10, <2>2 DEF HasConnected, WithoutWrite
      <3> QED
        BY <1>10, <2>1, <2>2, <3>2, <3>3 DEF HasConnected
    <2>3. CASE c.socket # "connected"
      BY <1>10, <2>1, <2>3 DEF HasConnected
    <2> QED
      BY <2>2, <2>3
  <1> QED
    BY <1>2, <1>7, <1>8, <1>9, <1>10 DEF OnItsWay

-----------------------------------------------------------------------------
(* What each operation on the connection does to all of its state           *)

\* The objects differ in what is under way only.
SameSession(c, d) ==
    /\ d.connection_state = c.connection_state /\ d.receiving = c.receiving
    /\ d.busy = c.busy /\ d.pkg_queue = c.pkg_queue /\ d.socket = c.socket
    /\ d.first = c.first /\ d.early = c.early /\ d.thrown = c.thrown
    /\ d.overlapped = c.overlapped

LEMMA NewPending ==
    ASSUME NEW c \in Connections, NEW p \in [Ops -> Nat]
    PROVE  /\ [c EXCEPT !.pending = p] \in Connections
           /\ [c EXCEPT !.pending = p].pending = p
           /\ [c EXCEPT !.pending = p].ready = c.ready
           /\ SameSession(c, [c EXCEPT !.pending = p])
  BY DEF Connections, SameSession

LEMMA NewReady ==
    ASSUME NEW c \in Connections, NEW r \in Seq(Completions)
    PROVE  /\ [c EXCEPT !.ready = r] \in Connections
           /\ [c EXCEPT !.ready = r].pending = c.pending
           /\ [c EXCEPT !.ready = r].ready = r
           /\ SameSession(c, [c EXCEPT !.ready = r])
  BY DEF Connections, SameSession

\* The operation that begins is outstanding: under way, or failed at once.
LEMMA BeginFields ==
    ASSUME NEW c \in Connections, NEW op \in Ops \ ConnectOps, NEW state
    PROVE  /\ Begin(c, op, state) \in Connections
           /\ SameSession(c, Begin(c, op, state))
           /\ Beside(c, Begin(c, op, state))
           /\ \A o \in Ops : Begin(c, op, state).pending[o] >= c.pending[o]
           /\ Outstanding(Begin(c, op, state), op)
           /\ state = "connected" /\ SocketAgrees(c) => SocketAgrees(Begin(c, op, state))
           /\ op # "write" => WithoutWrite(c, Begin(c, op, state))
  <1>0. op \in Ops /\ op # "resolve" /\ op # "connect" /\ c.ready \in Seq(Completions)
        /\ c.pending \in [Ops -> Nat]
    BY DEF ConnectOps, Connections
  <1>1. CASE c.socket = state
    <2> DEFINE p == [c.pending EXCEPT ![op] = @ + 1]
               d == [c EXCEPT !.pending = p]
    <2>1. p \in [Ops -> Nat] /\ Begin(c, op, state) = d
      BY <1>0, <1>1 DEF Begin
    <2>2. /\ p["resolve"] = c.pending["resolve"] /\ p["connect"] = c.pending["connect"]
          /\ p[op] > 0 /\ (op # "write" => p["write"] = c.pending["write"])
          /\ (op # "read" => p["read"] = c.pending["read"])
          /\ \A o \in Ops : p[o] >= c.pending[o]
      BY <1>0 DEF Ops
    <2> HIDE DEF p
    <2>3. /\ d \in Connections /\ d.pending = p /\ d.ready = c.ready /\ SameSession(c, d)
      BY <2>1, NewPending
    <2> HIDE DEF d
    <2>4. Grows(c.ready, d.ready, Others(c)) /\ Grows(c.ready, d.ready, NotWrites)
      BY <1>0, <2>3, NothingGrows
    <2>5. Beside(c, d)
      BY <2>2, <2>3, <2>4 DEF Beside, SameSession
    <2>6. op # "write" => WithoutWrite(c, d)
      BY <2>2, <2>3, <2>4 DEF WithoutWrite
    <2>7. state = "connected" /\ SocketAgrees(c) => SocketAgrees(d)
      BY <1>1, <2>2, <2>3 DEF SocketAgrees, SameSession
    <2>8. Outstanding(d, op)
      BY <2>2, <2>3 DEF Outstanding
    <2> QED
      BY <2>1, <2>2, <2>3, <2>5, <2>6, <2>7, <2>8
  <1>2. CASE c.socket # state
    <2> DEFINE x == Done(op, FALSE)
               r == Append(c.ready, x)
               d == [c EXCEPT !.ready = r]
    <2>1. Begin(c, op, state) = d
      BY <1>2 DEF Begin
    <2>2. x \in Completions /\ x \in Others(c) /\ (op # "write" => x \in NotWrites) /\ x.op = op
      BY <1>0 DEF Completions, Others, NotWrites, Done, ConnectOps
    <2> HIDE DEF x
    <2>3. r \in Seq(Completions) /\ Len(c.ready) + 1 \in DOMAIN r /\ r[Len(c.ready) + 1] = x
      BY <1>0, <2>2
    <2>4. Grows(c.ready, r, Others(c)) /\ (op # "write" => Grows(c.ready, r, NotWrites))
      BY <1>0, <2>2, AppendGrows
    <2> HIDE DEF r
    <2>5. d \in Connections /\ d.ready = r /\ d.pending = c.pending /\ SameSession(c, d)
      BY <2>3, NewReady
    <2> HIDE DEF d
    <2>6. Beside(c, d)
      BY <2>4, <2>5 DEF Beside, SameSession
    <2>7. op # "write" => WithoutWrite(c, d)
      BY <2>4, <2>5 DEF WithoutWrite
    <2>8. SocketAgrees(c) => SocketAgrees(d)
      BY <2>5 DEF SocketAgrees, SameSession
    <2>9. Outstanding(d, op)
      BY <2>2, <2>3, <2>5 DEF Outstanding
    <2>10. \A o \in Ops : d.pending[o] >= c.pending[o]
      BY <1>0, <2>5
    <2> QED
      BY <2>1, <2>5, <2>6, <2>7, <2>8, <2>9, <2>10
  <1> QED
    BY <1>1, <1>2

\* What sending, reading and the ping keep of a connection.
Proceeds(c, d) ==
    /\ Beside(c, d)
    /\ d.thrown = c.thrown /\ d.early = c.early
    /\ SocketAgrees(c) => SocketAgrees(d)
    /\ WaitsToWrite(c) => WaitsToWrite(d)
    /\ WaitsToRead(c) => WaitsToRead(d)
    /\ c.receiving => d.receiving
    /\ d.first = c.first \/ (c.socket = "connected" /\ c.first = "none")

LEMMA ProceedsIsTransitive ==
    ASSUME NEW b \in Connections, NEW c, NEW d, Proceeds(b, c), Proceeds(c, d)
    PROVE  Proceeds(b, d)
  <1>1. Beside(b, d)
    BY BesideIsTransitive DEF Proceeds
  <1> QED
    BY <1>1 DEF Proceeds, Beside

LEMMA NothingProceeds == \A c \in Connections : Proceeds(c, c)
  <1> SUFFICES ASSUME NEW c \in Connections PROVE Proceeds(c, c)
    OBVIOUS
  <1>1. Grows(c.ready, c.ready, Others(c))
    BY NothingGrows DEF Connections
  <1> QED
    BY <1>1 DEF Proceeds, Beside

LEMMA SendFields ==
    ASSUME NEW c \in Connections, NEW pkg \in Packages
    PROVE  /\ Proceeds(c, Send(c, pkg))
           /\ WaitsToWrite(Send(c, pkg)) /\ Send(c, pkg).busy
           /\ Send(c, pkg).pkg_queue = c.pkg_queue
           /\ Send(c, pkg).first = IF c.first = "none" /\ c.socket = "connected" THEN pkg
                                   ELSE c.first
  <1> DEFINE b == Begin(c, "write", "connected")
             f == IF c.first = "none" /\ c.socket = "connected" THEN pkg ELSE c.first
             d == [b EXCEPT !.busy = TRUE, !.first = f]
  <1>0. "write" \in Ops \ ConnectOps /\ "read" \in Ops
    BY DEF Ops, ConnectOps
  <1>1. /\ b \in Connections /\ SameSession(c, b) /\ Beside(c, b)
        /\ \A o \in Ops : b.pending[o] >= c.pending[o]
        /\ Outstanding(b, "write")
        /\ SocketAgrees(c) => SocketAgrees(b)
    BY <1>0, BeginFields
  <1>2. f \in Packages \cup {"none"} /\ b.first = c.first
    BY <1>1 DEF Connections, SameSession
  <1>3. Send(c, pkg) = d
    BY <1>2 DEF Send
  <1> HIDE DEF b, f
  <1>4. /\ d \in Connections /\ d.connection_state = b.connection_state
        /\ d.receiving = b.receiving /\ d.busy = TRUE /\ d.pkg_queue = b.pkg_queue
        /\ d.socket = b.socket /\ d.pending = b.pending /\ d.ready = b.ready
        /\ d.first = f /\ d.early = b.early /\ d.thrown = b.thrown
        /\ d.overlapped = b.overlapped
    BY <1>1, <1>2 DEF Connections
  <1> HIDE DEF d
  <1>5. Beside(c, d)
    BY <1>1, <1>4 DEF Beside
  <1>6. Outstanding(d, "write")
    BY <1>1, <1>4 DEF Outstanding
  <1>7. Outstanding(c, "read") => Outstanding(d, "read")
    BY <1>0, <1>1, <1>4, <1>5, StaysOutstanding DEF Beside
  <1>8. SocketAgrees(c) => SocketAgrees(d)
    BY <1>1, <1>4 DEF SocketAgrees
  <1> QED
    BY <1>1, <1>3, <1>4, <1>5, <1>6, <1>7, <1>8
    DEF Proceeds, WaitsToWrite, WaitsToRead, SameSession, f

LEMMA NewQueue ==
    ASSUME NEW c \in Connections, NEW q \in Seq(Packages)
    PROVE  /\ Proceeds(c, [c EXCEPT !.pkg_queue = q])
           /\ [c EXCEPT !.pkg_queue = q].first = c.first
           /\ [c EXCEPT !.pkg_queue = q].busy = c.busy
  <1> DEFINE d == [c EXCEPT !.pkg_queue = q]
  <1>1. /\ d \in Connections /\ d.connection_state = c.connection_state
        /\ d.receiving = c.receiving /\ d.busy = c.busy
        /\ d.socket = c.socket /\ d.pending = c.pending /\ d.ready = c.ready
        /\ d.first = c.first /\ d.early = c.early /\ d.thrown = c.thrown
        /\ d.overlapped = c.overlapped
    BY DEF Connections
  <1> HIDE DEF d
  <1>2. Grows(c.ready, d.ready, Others(c))
    BY <1>1, NothingGrows DEF Connections
  <1>3. Proceeds(c, d)
    BY <1>1, <1>2 DEF Proceeds, Beside, SocketAgrees, WaitsToWrite, WaitsToRead, Outstanding
  <1> QED
    BY <1>1, <1>3 DEF Proceeds, d

LEMMA QsendFields ==
    ASSUME NEW c \in Connections, NEW pkg \in Packages
    PROVE  /\ Proceeds(c, Qsend(c, pkg))
           /\ Qsend(c, pkg).busy
           /\ Qsend(c, pkg).first # c.first => Qsend(c, pkg).first = pkg
           /\ ~c.busy /\ c.socket = "connected" => Qsend(c, pkg).first # "none"
  <1>1. CASE c.busy
    <2>1. Append(c.pkg_queue, pkg) \in Seq(Packages)
      BY DEF Connections
    <2> QED
      BY <1>1, <2>1, NewQueue DEF Qsend
  <1>2. CASE ~c.busy
    BY <1>2, SendFields DEF Qsend, Packages
  <1> QED
    BY <1>1, <1>2

LEMMA HandleQsentContentFields ==
    ASSUME NEW c \in Connections
    PROVE  /\ Proceeds(c, HandleQsentContent(c))
           /\ WaitsToWrite(HandleQsentContent(c)) /\ QueueIsWritten(HandleQsentContent(c))
  <1>1. CASE c.pkg_queue = <<>>
    <2> DEFINE d == [c EXCEPT !.busy = FALSE]
    <2>1. /\ d \in Connections /\ d.connection_state = c.connection_state
          /\ d.receiving = c.receiving /\ d.busy = FALSE /\ d.pkg_queue = <<>>
          /\ d.socket = c.socket /\ d.pending = c.pending /\ d.ready = c.ready
          /\ d.first = c.first /\ d.early = c.early /\ d.thrown = c.thrown
          /\ d.overlapped = c.overlapped
      BY <1>1 DEF Connections
    <2>2. d = HandleQsentContent(c)
      BY <1>1 DEF HandleQsentContent
    <2> HIDE DEF d
    <2>3. Grows(c.ready, d.ready, Others(c))
      BY <2>1, NothingGrows DEF Connections
    <2>4. Beside(c, d)
      BY <2>1, <2>3 DEF Beside
    <2>5. /\ SocketAgrees(c) => SocketAgrees(d)
          /\ WaitsToRead(c) => WaitsToRead(d)
      BY <2>1 DEF SocketAgrees, WaitsToRead, Outstanding
    <2>6. WaitsToWrite(d) /\ QueueIsWritten(d)
      BY <2>1 DEF WaitsToWrite, QueueIsWritten
    <2>7. Proceeds(c, d)
      BY <2>1, <2>4, <2>5, <2>6 DEF Proceeds
    <2> QED
      BY <2>2, <2>6, <2>7
  <1>2. CASE c.pkg_queue # <<>>
    <2> DEFINE s == Send(c, Head(c.pkg_queue))
    <2>1. Head(c.pkg_queue) \in Packages /\ Tail(c.pkg_queue) \in Seq(Packages)
      BY <1>2 DEF Connections
    <2>2. Proceeds(c, s) /\ WaitsToWrite(s) /\ s.busy /\ s.pkg_queue = c.pkg_queue
      BY <2>1, SendFields
    <2>3. HandleQsentContent(c) = [s EXCEPT !.pkg_queue = Tail(c.pkg_queue)]
      BY <1>2, <2>2 DEF HandleQsentContent
    <2> HIDE DEF s
    <2>4. s \in Connections
      BY <2>2 DEF Proceeds, Beside
    <2>5. Proceeds(s, HandleQsentContent(c)) /\ HandleQsentContent(c).busy = s.busy
      BY <2>1, <2>3, <2>4, NewQueue
    <2>6. Proceeds(c, HandleQsentContent(c))
      BY <2>2, <2>5, ProceedsIsTransitive
    <2>7. WaitsToWrite(HandleQsentContent(c)) /\ QueueIsWritten(HandleQsentContent(c))
      BY <2>2, <2>5 DEF Proceeds, QueueIsWritten
    <2> QED
      BY <2>6, <2>7
  <1> QED
    BY <1>1, <1>2

LEMMA QreadFields ==
    ASSUME NEW c \in Connections
    PROVE  /\ Proceeds(c, Qread(c))
           /\ Qread(c).receiving /\ WaitsToRead(Qread(c))
           /\ Qread(c).busy = c.busy /\ Qread(c).first = c.first
           /\ Qread(c).pkg_queue = c.pkg_queue
           /\ WithoutWrite(c, Qread(c))
  <1> DEFINE b == Begin(c, "read", "connected")
             d == [b EXCEPT !.receiving = TRUE]
  <1>0. "read" \in Ops \ ConnectOps /\ "write" \in Ops
    BY DEF Ops, ConnectOps
  <1>1. /\ b \in Connections /\ SameSession(c, b) /\ Beside(c, b)
        /\ \A o \in Ops : b.pending[o] >= c.pending[o]
        /\ Outstanding(b, "read") /\ WithoutWrite(c, b)
        /\ SocketAgrees(c) => SocketAgrees(b)
    BY <1>0, BeginFields
  <1>3. Qread(c) = d
    BY DEF Qread
  <1> HIDE DEF b
  <1>4. /\ d \in Connections /\ d.connection_state = b.connection_state
        /\ d.receiving = TRUE /\ d.busy = b.busy /\ d.pkg_queue = b.pkg_queue
        /\ d.socket = b.socket /\ d.pending = b.pending /\ d.ready = b.ready
        /\ d.first = b.first /\ d.early = b.early /\ d.thrown = b.thrown
        /\ d.overlapped = b.overlapped
    BY <1>1 DEF Connections
  <1> HIDE DEF d
  <1>5. Beside(c, d) /\ WithoutWrite(c, d)
    BY <1>1, <1>4 DEF Beside, WithoutWrite
  <1>6. Outstanding(d, "read")
    BY <1>1, <1>4 DEF Outstanding
  <1>7. Outstanding(c, "write") => Outstanding(d, "write")
    BY <1>0, <1>1, <1>4, <1>5, StaysOutstanding DEF Beside
  <1>8. SocketAgrees(c) => SocketAgrees(d)
    BY <1>1, <1>4 DEF SocketAgrees
  <1> QED
    BY <1>1, <1>3, <1>4, <1>5, <1>6, <1>7, <1>8
    DEF Proceeds, WaitsToWrite, WaitsToRead, SameSession

LEMMA StartReceiveFields ==
    ASSUME NEW c \in Connections
    PROVE  /\ Proceeds(c, StartReceive(c))
           /\ StartReceive(c).receiving
           /\ StartReceive(c).busy = c.busy /\ StartReceive(c).first = c.first
           /\ StartReceive(c).pkg_queue = c.pkg_queue
  BY QreadFields, NothingProceeds DEF StartReceive

LEMMA CancelledFields ==
    ASSUME NEW c \in Connections, NEW op \in Ops
    PROVE  /\ Cancelled(c, op) \in Seq(Completions)
           /\ Len(Cancelled(c, op)) = c.pending[op]
           /\ \A i \in 1 .. c.pending[op] : Cancelled(c, op)[i] = Done(op, FALSE)
  <1> DEFINE n == c.pending[op]
             x == Done(op, FALSE)
  <1>1. n \in Nat /\ x \in Completions
    BY DEF Connections, Completions, Done
  <1>2. Cancelled(c, op) = [i \in 1 .. n |-> x]
    BY DEF Cancelled
  <1> HIDE DEF n, x
  <1>3. /\ [i \in 1 .. n |-> x] \in Seq(Completions) /\ Len([i \in 1 .. n |-> x]) = n
        /\ \A i \in 1 .. n : [j \in 1 .. n |-> x][i] = x
    BY <1>1
  <1> QED
    BY <1>2, <1>3 DEF n, x

LEMMA StartPingTaskFields ==
    ASSUME NEW c \in Connections
    PROVE  /\ Proceeds(c, StartPingTask(c))
           /\ StartPingTask(c).busy = c.busy /\ StartPingTask(c).first = c.first
           /\ StartPingTask(c).receiving = c.receiving
  <1> DEFINE p == [c.pending EXCEPT !["ping"] = 1]
             e == Cancelled(c, "ping")
             r == c.ready \o e
             b == [c EXCEPT !.pending = p]
             d == [b EXCEPT !.ready = r]
  <1>0. c.pending \in [Ops -> Nat] /\ c.ready \in Seq(Completions)
        /\ {"ping", "read", "write", "resolve", "connect"} \subseteq Ops
    BY DEF Connections, Ops
  <1>1. Done("ping", FALSE) \in Completions /\ Done("ping", FALSE) \in Others(c)
    BY <1>0 DEF Completions, Others, Done, ConnectOps
  <1>2. e \in Seq(Completions) /\ \A i \in 1 .. Len(e) : e[i] \in Others(c)
    BY <1>0, <1>1, CancelledFields
  <1> HIDE DEF e
  <1>3. r \in Seq(Completions) /\ Grows(c.ready, r, Others(c))
    BY <1>0, <1>2, ConcatenationGrows DEF Connections
  <1>4. /\ p \in [Ops -> Nat]
        /\ \A o \in Ops \ {"ping"} : p[o] = c.pending[o]
    BY <1>0
  <1> HIDE DEF p, r
  <1>5. StartPingTask(c) = d
    BY DEF StartPingTask, p, r, e, Connections
  <1>6. b \in Connections /\ b.pending = p /\ SameSession(c, b)
    BY <1>4, NewPending
  <1> HIDE DEF b
  <1>7. d \in Connections /\ d.pending = p /\ d.ready = r /\ SameSession(b, d)
    BY <1>3, <1>6, NewReady
  <1> HIDE DEF d
  <1>8. Beside(c, d)
    BY <1>0, <1>3, <1>4, <1>6, <1>7 DEF Beside, SameSession
  <1>9. ASSUME NEW op \in {"read", "write"}, Outstanding(c, op) PROVE Outstanding(d, op)
    <2>1. op \in Ops /\ d.pending[op] >= c.pending[op] /\ Grows(c.ready, d.ready, Others(c))
      BY <1>0, <1>3, <1>4, <1>7
    <2> QED
      BY <1>7, <1>9, <2>1, StaysOutstanding
  <1>10. SocketAgrees(c) => SocketAgrees(d)
    BY <1>0, <1>4, <1>6, <1>7 DEF SocketAgrees, SameSession
  <1> QED
    BY <1>5, <1>6, <1>7, <1>8, <1>9, <1>10
    DEF Proceeds, WaitsToWrite, WaitsToRead, SameSession

-----------------------------------------------------------------------------
(* Closing                                                                  *)

LEMMA CancelGrows ==
    ASSUME NEW c \in Connections, NEW op \in Ops, NEW r \in Seq(Completions)
    PROVE  LET s == r \o Cancelled(c, op) IN
           /\ s \in Seq(Completions)
           /\ Len(s) = Len(r) + c.pending[op]
           /\ Grows(r, s, {Done(op, FALSE)})
           /\ c.pending[op] > 0 => \E i \in DOMAIN s : s[i].op = op
  <1> DEFINE e == Cancelled(c, op)
             x == Done(op, FALSE)
             n == c.pending[op]
  <1>1. /\ e \in Seq(Completions) /\ Len(e) = n /\ n \in Nat
        /\ \A i \in 1 .. Len(e) : e[i] = x
    BY CancelledFields DEF Connections
  <1>2. x.op = op
    BY DEF Done
  <1> HIDE DEF e, x, n
  <1>3. r \o e \in Seq(Completions) /\ Grows(r, r \o e, {x})
    BY <1>1, ConcatenationGrows
  <1>4. Len(r \o e) = Len(r) + n
    BY <1>1
  <1>5. n > 0 => Len(r) + 1 \in DOMAIN (r \o e) /\ (r \o e)[Len(r) + 1] = x
    BY <1>1
  <1> QED
    BY <1>2, <1>3, <1>4, <1>5 DEF e, x, n

Failed == {Done("read", FALSE), Done("write", FALSE)}

\* The completions that wait, then a connect that was under way, then a read and a
\* write.
CloseSocketReady(c, s, r) ==
    /\ s \in Seq(Completions) /\ Len(s) = Len(c.ready) + c.pending["connect"]
    /\ Grows(c.ready, s, {Done("connect", FALSE)})
    /\ Grows(s, r, Failed)

Has(r, op) == \E i \in DOMAIN r : r[i].op = op

LEMMA HasGrows ==
    \A r, s \in Seq(Completions) : \A S, op : Grows(r, s, S) /\ Has(r, op) => Has(s, op)
  <1> SUFFICES ASSUME NEW r \in Seq(Completions), NEW s \in Seq(Completions), NEW S,
                      Grows(r, s, S), NEW op, Has(r, op)
               PROVE  Has(s, op)
    OBVIOUS
  <1>1. PICK i \in DOMAIN r : r[i].op = op
    BY DEF Has
  <1>2. i \in DOMAIN s /\ s[i] = r[i]
    BY <1>1 DEF Grows
  <1> QED
    BY <1>1, <1>2 DEF Has

LEMMA CloseSocketFields ==
    ASSUME NEW c \in Connections
    PROVE  LET d == CloseSocket(c) IN
           /\ d \in Connections
           /\ d.connection_state = c.connection_state /\ d.receiving = c.receiving
           /\ d.busy = c.busy /\ d.pkg_queue = c.pkg_queue /\ d.socket = "closed"
           /\ d.first = "none" /\ d.early = FALSE /\ d.thrown = c.thrown
           /\ d.overlapped = c.overlapped
           /\ d.pending = [c.pending EXCEPT !["connect"] = 0, !["read"] = 0, !["write"] = 0]
           /\ \E s : CloseSocketReady(c, s, d.ready)
           /\ \A op \in Ops \ {"connect", "ping"} : Outstanding(c, op) => Outstanding(d, op)
  <1> DEFINE p == [c.pending EXCEPT !["connect"] = 0, !["read"] = 0, !["write"] = 0]
             s == c.ready \o Cancelled(c, "connect")
             t == s \o Cancelled(c, "read")
             r == t \o Cancelled(c, "write")
             d == [c EXCEPT !.socket = "closed", !.first = "none", !.early = FALSE,
                            !.pending = p, !.ready = r]
  <1>0. {"connect", "read", "write"} \subseteq Ops /\ c.pending \in [Ops -> Nat]
        /\ c.ready \in Seq(Completions)
    BY DEF Ops, Connections
  <1>1. /\ s \in Seq(Completions) /\ Len(s) = Len(c.ready) + c.pending["connect"]
        /\ Grows(c.ready, s, {Done("connect", FALSE)})
    BY <1>0, CancelGrows
  <1>5. CloseSocket(c) = d
    BY DEF CloseSocket
  <1> HIDE DEF s
  <1>2. /\ t \in Seq(Completions) /\ Grows(s, t, {Done("read", FALSE)})
        /\ c.pending["read"] > 0 => Has(t, "read")
    BY <1>0, <1>1, CancelGrows DEF Has
  <1> HIDE DEF t
  <1>3. /\ r \in Seq(Completions) /\ Grows(t, r, {Done("write", FALSE)})
        /\ c.pending["write"] > 0 => Has(r, "write")
    BY <1>0, <1>2, CancelGrows DEF Has
  <1> HIDE DEF r
  <1>4. p \in [Ops -> Nat] /\ \A op \in Ops \ {"connect", "read", "write"} : p[op] = c.pending[op]
    BY <1>0
  <1>6. Grows(s, t, Failed) /\ Grows(t, r, Failed)
    BY <1>2, <1>3 DEF Grows, Failed
  <1>7. Grows(s, r, Failed)
    BY <1>1, <1>2, <1>3, <1>6, GrowsIsTransitive
  <1>8. CloseSocketReady(c, s, r)
    BY <1>1, <1>7 DEF CloseSocketReady
  <1> HIDE DEF p
  <1>9. /\ d \in Connections /\ d.connection_state = c.connection_state
         /\ d.receiving = c.receiving
         /\ d.busy = c.busy /\ d.pkg_queue = c.pkg_queue /\ d.socket = "closed"
         /\ d.first = "none" /\ d.early = FALSE /\ d.thrown = c.thrown
         /\ d.overlapped = c.overlapped /\ d.pending = p /\ d.ready = r
    BY <1>3, <1>4 DEF Connections
  <1> HIDE DEF d
  <1>10. \A op : Has(c.ready, op) => Has(r, op)
    <2> SUFFICES ASSUME NEW op, Has(c.ready, op) PROVE Has(r, op)
      OBVIOUS
    <2>1. Has(s, op)
      BY <1>0, <1>1, HasGrows
    <2>2. Has(r, op)
      BY <1>1, <1>3, <1>7, <2>1, HasGrows
    <2> QED
      BY <2>2
  <1>11. c.pending["read"] > 0 => Has(r, "read")
    BY <1>2, <1>3, <1>6, HasGrows
  <1>12. ASSUME NEW op \in Ops \ {"connect", "ping"}, Outstanding(c, op)
         PROVE  Outstanding(d, op)
    <2>1. CASE Has(c.ready, op)
      BY <1>9, <1>10, <2>1 DEF Outstanding, Has
    <2>2. CASE c.pending[op] > 0 /\ op \in {"read", "write"}
      BY <1>3, <1>9, <1>11, <2>2 DEF Outstanding, Has
    <2>3. CASE c.pending[op] > 0 /\ op \notin {"read", "write"}
      BY <1>4, <1>9, <1>12, <2>3 DEF Outstanding
    <2> QED
      BY <1>12, <2>1, <2>2, <2>3 DEF Outstanding, Has
  <1> QED
    BY <1>5, <1>8, <1>9, <1>12 DEF p

LEMMA CloseSocketWaits ==
    ASSUME NEW c \in Connections
    PROVE  /\ SocketAgrees(CloseSocket(c))
           /\ WaitsToWrite(c) => WaitsToWrite(CloseSocket(c))
           /\ WaitsToRead(c) => WaitsToRead(CloseSocket(c))
           /\ Outstanding(c, "resolve") => Outstanding(CloseSocket(c), "resolve")
  <1> DEFINE d == CloseSocket(c)
  <1>1. /\ d \in Connections
        /\ d.receiving = c.receiving /\ d.busy = c.busy /\ d.thrown = c.thrown
        /\ d.pending = [c.pending EXCEPT !["connect"] = 0, !["read"] = 0, !["write"] = 0]
        /\ d.socket = "closed"
        /\ \A op \in Ops \ {"connect", "ping"} : Outstanding(c, op) => Outstanding(d, op)
    BY CloseSocketFields
  <1>2. /\ c.pending \in [Ops -> Nat]
        /\ {"connect", "read", "write", "resolve"} \subseteq Ops
    BY DEF Connections, Ops
  <1> HIDE DEF d
  <1>3. SocketAgrees(d)
    BY <1>1, <1>2 DEF SocketAgrees
  <1> QED
    BY <1>1, <1>2, <1>3 DEF WaitsToWrite, WaitsToRead, d

\* What closing does to a connect that is on its way.
LEMMA CloseStage ==
    ASSUME NEW c \in Connections, NEW d \in Connections, NEW s,
           CloseSocketReady(c, s, d.ready), d.socket = "closed",
           d.pending = [c.pending EXCEPT !["connect"] = 0, !["read"] = 0, !["write"] = 0],
           SocketAgrees(c)
    PROVE  /\ ~Outstanding(c, "resolve") /\ ~Outstanding(c, "connect") => AtRest(d)
           /\ AtRest(c) => AtRest(d)
           /\ OnItsWay(c) => OnItsWay(d)
  <1> DEFINE n == Len(c.ready)
             m == c.pending["connect"]
  <1>0. /\ c.ready \in Seq(Completions) /\ d.ready \in Seq(Completions) /\ n \in Nat /\ m \in Nat
        /\ c.pending \in [Ops -> Nat]
        /\ {"connect", "read", "write", "resolve"} \subseteq Ops
        /\ Len(c.ready) = n /\ c.pending["connect"] = m
    BY DEF Connections, Ops
  <1>1. /\ s \in Seq(Completions) /\ Len(s) = n + m
        /\ Grows(c.ready, s, {Done("connect", FALSE)}) /\ Grows(s, d.ready, Failed)
    BY <1>0 DEF CloseSocketReady
  <1> HIDE DEF n, m
  <1>2. \A i \in DOMAIN d.ready :
            \/ i \in DOMAIN c.ready /\ d.ready[i] = c.ready[i]
            \/ i \in DOMAIN s /\ i > Len(c.ready) /\ d.ready[i] = Done("connect", FALSE)
            \/ i > Len(s) /\ d.ready[i] \in Failed
    <2>1. \A i \in DOMAIN s :
              \/ i \in DOMAIN c.ready /\ s[i] = c.ready[i]
              \/ i > Len(c.ready) /\ s[i] = Done("connect", FALSE)
      <3> DEFINE e == {Done("connect", FALSE)}
      <3>1. Grows(c.ready, s, e)
        BY <1>1
      <3> HIDE DEF e
      <3>2. \A i \in DOMAIN s :
                (i \in DOMAIN c.ready /\ s[i] = c.ready[i]) \/ (i > Len(c.ready) /\ s[i] \in e)
        BY <1>0, <1>1, <3>1, GrownMember
      <3> QED
        BY <3>2 DEF e
    <2>2. \A i \in DOMAIN d.ready :
              \/ i \in DOMAIN s /\ d.ready[i] = s[i]
              \/ i > Len(s) /\ d.ready[i] \in Failed
      BY <1>0, <1>1, GrownMember
    <2> QED
      BY <2>1, <2>2
  <1>3. \A i \in DOMAIN c.ready : i \in DOMAIN d.ready /\ d.ready[i] = c.ready[i]
    <2> TAKE i \in DOMAIN c.ready
    <2>1. i \in DOMAIN s /\ s[i] = c.ready[i]
      BY <1>0, <1>1 DEF Grows
    <2> QED
      BY <1>0, <1>1, <2>1 DEF Grows
  <1>4. \A x \in Failed : x.op \notin ConnectOps /\ x # Done("write", TRUE)
    BY DEF Failed, Done, ConnectOps
  <1>5. Done("connect", FALSE) # Done("write", TRUE) /\ Done("connect", FALSE).op = "connect"
    BY DEF Done
  <1>6. d.pending["resolve"] = c.pending["resolve"] /\ d.pending["connect"] = 0
    BY <1>0
  <1>7. ASSUME m = 0
        PROVE  \A i \in DOMAIN d.ready :
                   (i \in DOMAIN c.ready /\ d.ready[i] = c.ready[i]) \/ d.ready[i] \in Failed
    <2>1. Len(s) = Len(c.ready)
      BY <1>0, <1>1, <1>7
    <2>2. \A i \in DOMAIN s : ~(i > Len(c.ready))
      BY <1>0, <1>1, <2>1
    <2> QED
      BY <1>2, <2>2
  <1>11. None(c) /\ m = 0 => None(d)
    BY <1>4, <1>7 DEF None
  <1>8. AtRest(c) => AtRest(d)
    BY <1>0, <1>6, <1>11 DEF AtRest, UnderWay
  <1>9. ~Outstanding(c, "resolve") /\ ~Outstanding(c, "connect") => AtRest(c)
    BY <1>0 DEF Outstanding, AtRest, None, UnderWay, ConnectOps
  <1>10. ASSUME OnItsWay(c) PROVE OnItsWay(d)
    <2>1. CASE Resolving(c)
      BY <1>0, <1>6, <1>11, <2>1 DEF Resolving, UnderWay, OnItsWay
    <2>2. CASE Connecting(c)
      <3>1. m = 1 /\ None(c) /\ c.pending["resolve"] = 0
        BY <1>0, <2>2 DEF Connecting, UnderWay
      <3> DEFINE k == n + 1
      <3>2. /\ k \in DOMAIN s /\ k \in DOMAIN d.ready /\ k \notin DOMAIN c.ready
            /\ Len(s) = k
        BY <1>0, <1>1, <3>1 DEF Grows
      <3>6. \A i \in DOMAIN s : i > Len(c.ready) => i = k
        BY <1>0, <1>1, <3>1
      <3>7. ~(k > k)
        BY <1>0
      <3> HIDE DEF k
      <3>3. d.ready[k] = Done("connect", FALSE)
        BY <1>2, <3>2, <3>7
      <3>4. Only(d, k)
        BY <1>2, <1>4, <3>1, <3>2, <3>6 DEF Only, None
      <3>5. HasConnected(d, k)
        BY <1>5, <1>6, <3>1, <3>3, <3>4 DEF HasConnected, UnderWay
      <3> QED
        BY <3>2, <3>5 DEF OnItsWay
    <2>3. ASSUME NEW k \in DOMAIN c.ready, HasResolved(c, k) PROVE OnItsWay(d)
      <3>1. m = 0 /\ Only(c, k) /\ c.ready[k].op = "resolve" /\ NoneWritten(c, k)
            /\ c.pending["resolve"] = 0
        BY <1>0, <2>3 DEF HasResolved, UnderWay
      <3>2. Only(d, k)
        BY <1>3, <1>4, <1>7, <3>1 DEF Only
      <3>3. NoneWritten(d, k)
        BY <1>4, <1>7, <3>1 DEF NoneWritten
      <3>4. HasResolved(d, k)
        BY <1>3, <1>6, <3>1, <3>2, <3>3 DEF HasResolved, UnderWay
      <3> QED
        BY <1>3, <3>4 DEF OnItsWay
    <2>4. ASSUME NEW k \in DOMAIN c.ready, HasConnected(c, k) PROVE OnItsWay(d)
      <3>1. m = 0 /\ Only(c, k) /\ c.ready[k].op = "connect" /\ c.pending["resolve"] = 0
        BY <1>0, <2>4 DEF HasConnected, UnderWay
      <3>2. Only(d, k)
        BY <1>3, <1>4, <1>7, <3>1 DEF Only
      <3>3. HasConnected(d, k)
        BY <1>3, <1>6, <3>1, <3>2 DEF HasConnected, UnderWay
      <3> QED
        BY <1>3, <3>3 DEF OnItsWay
    <2> QED
      BY <1>10, <2>1, <2>2, <2>3, <2>4 DEF OnItsWay
  <1> QED
    BY <1>8, <1>9, <1>10

LEMMA CloseFields ==
    ASSUME NEW c \in Connections, SocketAgrees(c)
    PROVE  /\ Close(c) \in Connections
           /\ Close(c).connection_state = "DISCONNECTED"
           /\ Close(c).socket = "closed" /\ Close(c).first = "none"
           /\ Close(c).overlapped = c.overlapped
           /\ SocketAgrees(Close(c))
           /\ WaitsToWrite(Close(c)) /\ WaitsToRead(Close(c))
           /\ AtRest(c) => AtRest(Close(c))
           /\ OnItsWay(c) => OnItsWay(Close(c))
  <1> DEFINE b == CloseSocket(c)
             d == [b EXCEPT !.connection_state = "DISCONNECTED", !.receiving = FALSE,
                            !.busy = FALSE, !.thrown = FALSE]
  <1>1. /\ b \in Connections /\ b.socket = "closed" /\ b.first = "none"
        /\ b.overlapped = c.overlapped
        /\ b.pending = [c.pending EXCEPT !["connect"] = 0, !["read"] = 0, !["write"] = 0]
        /\ \E s : CloseSocketReady(c, s, b.ready)
    BY CloseSocketFields
  <1>2. SocketAgrees(b)
    BY CloseSocketWaits
  <1>3. Close(c) = d
    BY DEF Close
  <1> HIDE DEF b
  <1>4. /\ d \in Connections /\ d.connection_state = "DISCONNECTED" /\ d.receiving = FALSE
        /\ d.busy = FALSE /\ d.socket = b.socket /\ d.first = b.first
        /\ d.overlapped = b.overlapped /\ d.pending = b.pending /\ d.ready = b.ready
    BY <1>1 DEF Connections, States
  <1> HIDE DEF d
  <1>5. (AtRest(c) => AtRest(d)) /\ (OnItsWay(c) => OnItsWay(d))
    BY <1>1, <1>4, CloseStage
  <1>6. SocketAgrees(d)
    BY <1>2, <1>4 DEF SocketAgrees
  <1> QED
    BY <1>1, <1>3, <1>4, <1>5, <1>6 DEF WaitsToWrite, WaitsToRead

-----------------------------------------------------------------------------
(* A handler takes its completion                                           *)

LEMMA TakenFields ==
    ASSUME con \in Connections, con.ready # <<>>, SocketAgrees(con)
    PROVE  /\ Taken \in Connections
           /\ SameSession(con, Taken) /\ Taken.pending = con.pending
           /\ Taken.ready = Tail(con.ready)
           /\ Head(con.ready) = con.ready[1]
           /\ Len(Taken.ready) = Len(con.ready) - 1 /\ Len(con.ready) \in Nat \ {0}
           /\ \A i \in DOMAIN Taken.ready :
                  i + 1 \in DOMAIN con.ready /\ Taken.ready[i] = con.ready[i + 1]
           /\ SocketAgrees(Taken)
  <1> DEFINE r == Tail(con.ready)
  <1>1. con.ready \in Seq(Completions)
    BY DEF Connections
  <1>2. /\ r \in Seq(Completions) /\ Len(r) = Len(con.ready) - 1 /\ Len(con.ready) \in Nat \ {0}
        /\ \A i \in DOMAIN r : i + 1 \in DOMAIN con.ready /\ r[i] = con.ready[i + 1]
    BY <1>1
  <1>3. Taken = [con EXCEPT !.ready = r]
    BY DEF Taken
  <1> HIDE DEF r
  <1>4. /\ Taken \in Connections /\ SameSession(con, Taken) /\ Taken.pending = con.pending
        /\ Taken.ready = r
    BY <1>2, <1>3, NewReady
  <1>5. SocketAgrees(Taken)
    BY <1>4 DEF SocketAgrees, SameSession
  <1> QED
    BY <1>1, <1>2, <1>4, <1>5 DEF r

LEMMA TakenOutstanding ==
    ASSUME con \in Connections, con.ready # <<>>, SocketAgrees(con),
           NEW op \in Ops, Head(con.ready).op # op, Outstanding(con, op)
    PROVE  Outstanding(Taken, op)
  <1>1. CASE con.pending[op] > 0
    BY <1>1, TakenFields DEF Outstanding
  <1>2. CASE \E i \in DOMAIN con.ready : con.ready[i].op = op
    <2>1. PICK i \in DOMAIN con.ready : con.ready[i].op = op
      BY <1>2
    <2>2. con.ready \in Seq(Completions) /\ i # 1 /\ Taken.ready = Tail(con.ready)
      BY <2>1, TakenFields DEF Connections
    <2>3. i - 1 \in DOMAIN Taken.ready /\ Taken.ready[i - 1] = con.ready[i]
      BY <2>1, <2>2
    <2> QED
      BY <2>1, <2>3 DEF Outstanding
  <1> QED
    BY <1>1, <1>2 DEF Outstanding

LEMMA TakenAtRest ==
    ASSUME con \in Connections, con.ready # <<>>, SocketAgrees(con), AtRest(con)
    PROVE  AtRest(Taken) /\ Head(con.ready).op \notin ConnectOps
  <1>1. None(Taken)
    BY TakenFields DEF AtRest, None
  <1>2. 1 \in DOMAIN con.ready
    BY TakenFields DEF Connections
  <1> QED
    BY <1>1, <1>2, TakenFields DEF AtRest, None, UnderWay

LEMMA TakenNoneWritten ==
    ASSUME con \in Connections, con.ready # <<>>, SocketAgrees(con),
           NEW k \in Nat \ {0}, NoneWritten(con, k)
    PROVE  NoneWritten(Taken, k - 1)
  <1> SUFFICES ASSUME NEW i \in DOMAIN Taken.ready, i >= k - 1
               PROVE  Taken.ready[i] # Done("write", TRUE)
    BY DEF NoneWritten
  <1>1. i \in Nat
    BY TakenFields DEF Connections
  <1>2. i + 1 \in DOMAIN con.ready /\ Taken.ready[i] = con.ready[i + 1]
    BY TakenFields
  <1>3. i + 1 >= k
    BY <1>1
  <1> QED
    BY <1>2, <1>3 DEF NoneWritten

LEMMA NoneWrittenFrom ==
    ASSUME NEW c \in Connections, NoneWritten(c, 1 - 1)
    PROVE  NoneWritten(c, 1)
  <1>1. \A i \in DOMAIN c.ready : i >= 1 => i >= 1 - 1
    BY DEF Connections
  <1> QED
    BY <1>1 DEF NoneWritten

LEMMA TakenOnItsWay ==
    ASSUME con \in Connections, con.ready # <<>>, SocketAgrees(con), OnItsWay(con),
           Head(con.ready).op \notin ConnectOps
    PROVE  OnItsWay(Taken)
  <1>0. con.ready \in Seq(Completions) /\ Taken.ready = Tail(con.ready)
        /\ Taken.ready \in Seq(Completions) /\ Taken.socket = con.socket
        /\ Taken.pending = con.pending /\ Head(con.ready) = con.ready[1]
    BY TakenFields DEF Connections, SameSession
  <1>1. \A i \in DOMAIN Taken.ready :
            i + 1 \in DOMAIN con.ready /\ Taken.ready[i] = con.ready[i + 1]
    BY TakenFields
  <1>2. None(con) => None(Taken)
    BY <1>1 DEF None
  <1>3. \A m, n : UnderWay(con, m, n) => UnderWay(Taken, m, n)
    BY <1>0 DEF UnderWay
  <1>6. NoneWritten(con, 1) => NoneWritten(Taken, 1)
    <2>1. NoneWritten(con, 1) => NoneWritten(Taken, 1 - 1)
      BY TakenNoneWritten
    <2> QED
      BY <2>1, NoneWrittenFrom, TakenFields
  <1>4. CASE Resolving(con) \/ Connecting(con)
    <2>1. NoneWritten(con, 1) => NoneWritten(Taken, 1)
      BY <1>6
    <2> QED
      BY <1>0, <1>2, <1>3, <1>4, <2>1 DEF Resolving, Connecting, OnItsWay
  <1>5. ASSUME NEW k \in DOMAIN con.ready, HasResolved(con, k) \/ HasConnected(con, k)
        PROVE  OnItsWay(Taken)
    <2>1. Only(con, k) /\ con.ready[k].op \in ConnectOps /\ UnderWay(con, 0, 0)
      BY <1>5 DEF HasResolved, HasConnected, ConnectOps
    <2>2. k # 1 /\ k \in DOMAIN con.ready
      BY <1>0, <2>1
    <2>3. k - 1 \in DOMAIN Taken.ready /\ Taken.ready[k - 1] = con.ready[k]
      BY <1>0, <2>2
    <2>4. Only(Taken, k - 1)
      BY <1>0, <1>1, <2>1, <2>2, <2>3 DEF Only
    <2>5. CASE HasResolved(con, k)
      <3>1. NoneWritten(Taken, k - 1)
        BY <1>0, <2>2, <2>5, TakenNoneWritten DEF HasResolved
      <3>2. HasResolved(Taken, k - 1)
        BY <1>0, <1>3, <2>1, <2>3, <2>4, <2>5, <3>1 DEF HasResolved
      <3> QED
        BY <2>3, <3>2 DEF OnItsWay
    <2>6. CASE HasConnected(con, k)
      <3>1. NoneWritten(con, 1) => NoneWritten(Taken, 1)
        BY <1>6
      <3>2. ASSUME \A i \in DOMAIN con.ready : i > k => con.ready[i].op # "write"
            PROVE  \A i \in DOMAIN Taken.ready : i > k - 1 => Taken.ready[i].op # "write"
        BY <1>0, <1>1, <2>2, <3>2
      <3>3. HasConnected(Taken, k - 1)
        BY <1>0, <1>3, <2>1, <2>3, <2>4, <2>6, <3>1, <3>2 DEF HasConnected
      <3> QED
        BY <2>3, <3>3 DEF OnItsWay
    <2> QED
      BY <1>5, <2>5, <2>6
  <1> QED
    BY <1>4, <1>5 DEF OnItsWay

\* The completion taken is the connect's own.
LEMMA TakenOwn ==
    ASSUME con \in Connections, con.ready # <<>>, SocketAgrees(con), OnItsWay(con),
           Head(con.ready).op \in ConnectOps
    PROVE  /\ AtRest(Taken)
           /\ Head(con.ready).op = "resolve" => con.socket = "closed" /\ NoneWritten(Taken, 1)
           /\ Head(con.ready).op = "connect" /\ con.socket = "connected" =>
                  Head(con.ready).ok /\ ~Outstanding(Taken, "write")
  <1>0. con.ready \in Seq(Completions) /\ Taken.ready = Tail(con.ready)
        /\ Taken.ready \in Seq(Completions) /\ Taken.pending = con.pending
        /\ Head(con.ready) = con.ready[1] /\ 1 \in DOMAIN con.ready
    BY TakenFields DEF Connections
  <1>1. \A i \in DOMAIN Taken.ready :
            i + 1 \in DOMAIN con.ready /\ Taken.ready[i] = con.ready[i + 1]
    BY TakenFields
  <1>2. ~None(con)
    BY <1>0 DEF None
  <1>3. PICK k \in DOMAIN con.ready : HasResolved(con, k) \/ HasConnected(con, k)
    BY <1>2 DEF OnItsWay, Resolving, Connecting
  <1>4. k = 1 /\ Only(con, 1) /\ UnderWay(con, 0, 0)
    BY <1>0, <1>3 DEF HasResolved, HasConnected, Only
  <1>5. AtRest(Taken)
    BY <1>0, <1>1, <1>4 DEF AtRest, None, Only, UnderWay
  <1>6. CASE HasResolved(con, 1)
    <2>1. NoneWritten(Taken, 1 - 1)
      BY <1>6, TakenNoneWritten DEF HasResolved
    <2>2. NoneWritten(Taken, 1)
      BY <2>1, NoneWrittenFrom, TakenFields
    <2> QED
      BY <1>0, <1>5, <1>6, <2>2 DEF HasResolved
  <1>7. CASE HasConnected(con, 1)
    <2>1. ASSUME con.socket = "connected" PROVE con.ready[1].ok /\ ~Outstanding(Taken, "write")
      <3>1. /\ con.ready[1].ok /\ con.pending["write"] = 0
            /\ \A i \in DOMAIN con.ready : i > 1 => con.ready[i].op # "write"
        BY <1>7, <2>1 DEF HasConnected
      <3>2. \A i \in DOMAIN Taken.ready : Taken.ready[i].op # "write"
        BY <1>0, <1>1, <3>1
      <3> QED
        BY <1>0, <3>1, <3>2 DEF Outstanding
    <2> QED
      BY <1>0, <1>5, <1>7, <2>1 DEF HasConnected
  <1> QED
    BY <1>3, <1>4, <1>6, <1>7

-----------------------------------------------------------------------------
(* The threads                                                              *)

\* A thread that has announced itself is alone, unless all are stuck in run.
LEMMA Alone ==
    ASSUME SInv, NEW p \in Places \ {"starting", "running"}, threads[p] > 0
    PROVE  /\ OneThread /\ Threads = 1 /\ threads[p] = 1 /\ io_context_running
           /\ \A q \in Places \ {p} : threads[q] = 0
  <1>1. \A q \in Places : threads[q] \in Nat
    BY DEF SInv
  <1>2. p \in {"greeting", "catching", "ended", "restarted"}
    BY DEF Places
  <1>3. Threads > threads["starting"] + threads["running"]
    BY <1>1, <1>2 DEF Threads, Places
  <1>4. OneThread
    BY <1>1, <1>3 DEF SInv, Stuck, Places
  <1>5. Threads <= 1 /\ (Threads > threads["starting"] => io_context_running)
    BY <1>4 DEF OneThread
  <1>6. /\ threads["starting"] \in Nat /\ threads["running"] \in Nat
        /\ threads["greeting"] \in Nat /\ threads["catching"] \in Nat
        /\ threads["ended"] \in Nat /\ threads["restarted"] \in Nat
    BY <1>1 DEF Places
  <1>7. Threads = 1 /\ threads[p] = 1 /\ io_context_running
    BY <1>2, <1>5, <1>6 DEF Threads
  <1> DEFINE a == threads["starting"]
             b == threads["running"]
             c == threads["greeting"]
             d == threads["catching"]
             e == threads["ended"]
             f == threads["restarted"]
  <1>8. /\ a \in Nat /\ b \in Nat /\ c \in Nat /\ d \in Nat /\ e \in Nat /\ f \in Nat
        /\ a + b + c + d + e + f = 1
    BY <1>6, <1>7 DEF Threads
  <1>9. /\ p = "greeting" => c = 1
        /\ p = "catching" => d = 1
        /\ p = "ended" => e = 1
        /\ p = "restarted" => f = 1
    BY <1>7
  <1> HIDE DEF a, b, c, d, e, f
  <1>10. /\ a = 0 /\ b = 0
         /\ p # "greeting" => c = 0
         /\ p # "catching" => d = 0
         /\ p # "ended" => e = 0
         /\ p # "restarted" => f = 0
    BY <1>2, <1>8, <1>9
  <1> QED
    BY <1>4, <1>7, <1>10 DEF Places, a, b, c, d, e, f

\* The thread of a handler.
LEMMA HandlerThread ==
    ASSUME SInv, NEW from \in {"running", "greeting"},
           NEW to \in {"running", "greeting", "catching"}, Goes(from, to),
           Threads = 1, stopped' = stopped, app' = app,
           io_context_running' = io_context_running
    PROVE  /\ threads' \in [Places -> Nat] /\ (OneThread \/ Stuck)'
           /\ threads["greeting"] > 0 <=> from = "greeting"
           /\ threads["catching"] = 0
           /\ threads'["greeting"] > 0 <=> to = "greeting"
           /\ threads'["catching"] > 0 <=> to = "catching"
  <1>1. \A q \in Places : threads[q] \in Nat
    BY DEF SInv
  <1>7. /\ threads["starting"] \in Nat /\ threads["running"] \in Nat
        /\ threads["greeting"] \in Nat /\ threads["catching"] \in Nat
        /\ threads["ended"] \in Nat /\ threads["restarted"] \in Nat
    BY <1>1 DEF Places
  <1>8. threads["running"] > 0 \/ threads["greeting"] > 0
    BY DEF Goes
  <1>2. /\ threads["starting"] = 0 /\ threads["ended"] = 0 /\ threads["catching"] = 0
        /\ threads["restarted"] = 0
        /\ threads["running"] + threads["greeting"] = 1
    BY <1>7, <1>8 DEF Threads
  <1>9. threads[from] = 1
    BY <1>2, <1>7 DEF Goes
  <1>3. OneThread
    BY DEF SInv, Stuck
  <1>4. ~stopped /\ io_context_running
    BY <1>2, <1>3 DEF OneThread
  <1>5. /\ threads' \in [Places -> Nat] /\ Threads' = 1 /\ threads'["starting"] = 0
        /\ threads'["greeting"] = (IF to = "greeting" THEN 1 ELSE 0)
        /\ threads'["catching"] = (IF to = "catching" THEN 1 ELSE 0)
    BY <1>1, <1>2, <1>7, <1>9 DEF SInv, Goes, Threads, Places
  <1>6. OneThread'
    BY <1>4, <1>5 DEF OneThread
  <1> QED
    BY <1>2, <1>5, <1>6, <1>7, <1>9 DEF Places

\* A step that moves no thread.
LEMMA NoThreadMoves ==
    ASSUME SInv, threads' = threads, stopped' = stopped,
           io_context_running' = io_context_running,
           Outstanding(con, "resolve") => Outstanding(con', "resolve"),
           app' = "starting" => app = "starting" \/ Outstanding(con', "resolve")
    PROVE  (OneThread \/ Stuck)'
  <1>1. Threads' = Threads
    BY DEF Threads
  <1>2. OneThread => OneThread'
    BY <1>1 DEF OneThread
  <1>3. Stuck => Stuck'
    BY <1>1 DEF Stuck
  <1> QED
    BY <1>2, <1>3 DEF SInv

-----------------------------------------------------------------------------
(* The steps                                                                *)

LEMMA InitSInv == Init => SInv
  <1> SUFFICES ASSUME Init PROVE SInv
    OBVIOUS
  <1>1. con \in Connections
    BY DEF Init, Connections, States
  <1>2. /\ con.connection_state = "DISCONNECTED" /\ ~con.receiving /\ ~con.busy
        /\ con.socket = "closed" /\ con.ready = <<>> /\ con.first = "none"
        /\ \A op \in Ops : con.pending[op] = 0
    BY DEF Init
  <1>3. threads = [p \in Places |-> 0] /\ app = "idle" /\ ~stopped
    BY DEF Init
  <1>4. threads \in [Places -> Nat] /\ Threads = 0 /\ threads["starting"] = 0
        /\ threads["greeting"] = 0
    BY <1>3 DEF Threads, Places
  <1>5. OneThread
    BY <1>3, <1>4 DEF OneThread
  <1>6. SocketAgrees(con) /\ WaitsToWrite(con) /\ WaitsToRead(con)
    BY <1>2 DEF SocketAgrees, WaitsToWrite, WaitsToRead, Ops
  <1>7. AtRest(con)
    BY <1>2 DEF AtRest, None, UnderWay, Ops
  <1>8. Orderly
    BY <1>2, <1>3, <1>7 DEF Orderly
  <1>9. AppInfoFirst
    BY <1>2 DEF AppInfoFirst
  <1> QED
    BY <1>1, <1>2, <1>4, <1>5, <1>6, <1>8, <1>9 DEF SInv

LEMMA ConnectSInv ==
    ASSUME SInv, Connect
    PROVE  SInv'
  <1> DEFINE b == CloseSocket(con)
             o == Outstanding(con, "resolve") \/ Outstanding(con, "connect")
             d == [b EXCEPT !.connection_state = "CONNECTING", !.overlapped = o]
  <1>1. /\ con' = d /\ app' = "resolving" /\ threads' = threads /\ stopped' = stopped
        /\ io_context_running' = io_context_running /\ con.connection_state = "DISCONNECTED"
    BY DEF Connect
  <1>2. /\ b \in Connections /\ b.socket = "closed" /\ b.first = "none"
        /\ b.receiving = con.receiving /\ b.busy = con.busy
        /\ b.pending = [con.pending EXCEPT !["connect"] = 0, !["read"] = 0, !["write"] = 0]
        /\ \E s : CloseSocketReady(con, s, b.ready)
    BY CloseSocketFields DEF SInv
  <1>3. /\ SocketAgrees(b) /\ WaitsToWrite(b) /\ WaitsToRead(b)
        /\ Outstanding(con, "resolve") => Outstanding(b, "resolve")
    BY CloseSocketWaits DEF SInv
  <1>4. o \in BOOLEAN
    BY DEF Outstanding
  <1> HIDE DEF b, o
  <1>5. /\ d \in Connections /\ d.connection_state = "CONNECTING" /\ d.receiving = b.receiving
        /\ d.busy = b.busy /\ d.socket = b.socket /\ d.first = b.first /\ d.thrown = b.thrown
        /\ d.overlapped = o /\ d.pending = b.pending /\ d.ready = b.ready
    BY <1>2, <1>4 DEF Connections, States
  <1> HIDE DEF d
  <1>6. /\ SocketAgrees(d) /\ WaitsToWrite(d) /\ WaitsToRead(d)
        /\ Outstanding(con, "resolve") => Outstanding(d, "resolve")
    BY <1>3, <1>5 DEF SocketAgrees, WaitsToWrite, WaitsToRead, Outstanding
  <1>7. ~o => AtRest(d)
    BY <1>2, <1>5, CloseStage DEF SInv, o
  <1>8. ~o => Orderly'
    BY <1>1, <1>2, <1>5, <1>7 DEF Orderly
  <1>9. (OneThread \/ Stuck)'
    BY <1>1, <1>6, NoThreadMoves
  <1>10. threads["greeting"] = 0
    BY <1>1 DEF SInv, Places
  <1>11. AppInfoFirst'
    BY <1>1, <1>2, <1>5 DEF AppInfoFirst
  <1> QED
    BY <1>1, <1>5, <1>6, <1>8, <1>9, <1>10, <1>11 DEF SInv

LEMMA AsyncResolveSInv ==
    ASSUME SInv, AsyncResolve
    PROVE  SInv'
  <1> DEFINE p == [con.pending EXCEPT !["resolve"] = @ + 1]
             d == [con EXCEPT !.pending = p]
  <1>1. /\ con' = d /\ app = "resolving" /\ app' = "starting" /\ threads' = threads
        /\ stopped' = stopped /\ io_context_running' = io_context_running
    BY DEF AsyncResolve
  <1>2. p \in [Ops -> Nat] /\ p["resolve"] = con.pending["resolve"] + 1 /\ p["resolve"] > 0
        /\ \A op \in Ops \ {"resolve"} : p[op] = con.pending[op]
    BY DEF SInv, Connections, Ops
  <1> HIDE DEF p
  <1>3. d \in Connections /\ d.pending = p /\ d.ready = con.ready /\ SameSession(con, d)
    BY <1>2, NewPending DEF SInv
  <1> HIDE DEF d
  <1>4. /\ SocketAgrees(d) /\ WaitsToWrite(d) /\ WaitsToRead(d)
        /\ Outstanding(d, "resolve")
    BY <1>2, <1>3
    DEF SInv, SocketAgrees, WaitsToWrite, WaitsToRead, Outstanding, SameSession, Ops
  <1>5. (OneThread \/ Stuck)'
    BY <1>1, <1>4, NoThreadMoves
  <1>6. ~con.overlapped => Orderly'
    <2> SUFFICES ASSUME ~con.overlapped PROVE Orderly'
      OBVIOUS
    <2>1. AtRest(con) /\ con.socket = "closed" /\ con.connection_state # "CONNECTED"
      BY <1>1 DEF SInv, Orderly
    <2>2. Resolving(d)
      BY <1>2, <1>3, <2>1 DEF AtRest, Resolving, None, UnderWay, SameSession, Ops
    <2>3. ~AtRest(d)
      BY <2>2 DEF AtRest, Resolving, UnderWay
    <2> QED
      BY <1>1, <1>3, <2>1, <2>2, <2>3 DEF Orderly, OnItsWay, SameSession
  <1>7. AppInfoFirst'
    BY <1>1, <1>3 DEF SInv, AppInfoFirst, SameSession
  <1> QED
    BY <1>1, <1>3, <1>4, <1>5, <1>6, <1>7 DEF SInv, SameSession

LEMMA AppSendsSInv ==
    ASSUME SInv, AppSends
    PROVE  SInv'
  <1> DEFINE q == Qsend(con, "event")
             e == q.early \/ threads["greeting"] > 0
             d == [q EXCEPT !.early = e]
  <1>1. /\ con' = d /\ app = "idle" /\ app' = app /\ con.connection_state = "CONNECTED"
        /\ threads' = threads /\ stopped' = stopped
        /\ io_context_running' = io_context_running
    BY DEF AppSends
  <1>2. /\ Proceeds(con, q)
        /\ q.first # con.first => q.first = "event"
        /\ ~con.busy /\ con.socket = "connected" => q.first # "none"
    BY QsendFields DEF SInv, Packages
  <1>3. q \in Connections
    BY <1>2 DEF Proceeds, Beside
  <1> HIDE DEF q
  <1>4. e \in BOOLEAN
    BY <1>3 DEF Connections
  <1> HIDE DEF e
  <1>5. /\ d \in Connections /\ d.connection_state = q.connection_state
        /\ d.receiving = q.receiving /\ d.busy = q.busy /\ d.socket = q.socket
        /\ d.first = q.first /\ d.thrown = q.thrown /\ d.overlapped = q.overlapped
        /\ d.pending = q.pending /\ d.ready = q.ready /\ d.early = e
    BY <1>3, <1>4 DEF Connections
  <1> HIDE DEF d
  <1>6. /\ SocketAgrees(d) /\ WaitsToWrite(d) /\ WaitsToRead(d) /\ Beside(con, d)
        /\ con.receiving => d.receiving
    BY <1>2, <1>5
    DEF SInv, Proceeds, Beside, SocketAgrees, WaitsToWrite, WaitsToRead, Outstanding
  <1>7. (OneThread \/ Stuck)'
    <2>1. Outstanding(con, "resolve") => Outstanding(d, "resolve")
      <3>1. /\ "resolve" \in Ops /\ con.pending["resolve"] \in Nat
            /\ d.pending["resolve"] = con.pending["resolve"]
            /\ Grows(con.ready, d.ready, Others(con))
        BY <1>6 DEF Beside, SInv, Connections, Ops
      <3>2. d.pending["resolve"] >= con.pending["resolve"]
        BY <3>1
      <3> QED
        BY <1>5, <3>1, <3>2, StaysOutstanding DEF SInv
    <2> QED
      BY <1>1, <2>1, NoThreadMoves
  <1>8. ASSUME ~con.overlapped
        PROVE  Orderly' /\ (threads["greeting"] > 0 \/ d.first = con.first)
    <2>1. AtRest(con) /\ (con.socket = "connected" /\ con.first = "none" =>
                              threads["greeting"] > 0 /\ ~con.busy)
      BY <1>1, <1>8 DEF SInv, Orderly
    <2>2. AtRest(d)
      BY <1>6, <2>1, BesideAtRest DEF SInv
    <2>3. d.socket = con.socket
      BY <1>6 DEF Beside
    <2>4. ~(d.socket = "connected" /\ d.first = "none")
      BY <1>2, <1>5, <2>1, <2>3 DEF Proceeds
    <2>5. threads["greeting"] > 0 \/ d.first = con.first
      BY <1>2, <1>5, <2>1 DEF Proceeds
    <2> QED
      BY <1>1, <2>2, <2>4, <2>5 DEF Orderly
  <1>9. AppInfoFirst'
    BY <1>1, <1>2, <1>5, <1>8 DEF SInv, AppInfoFirst, Proceeds, Beside, e
  <1> QED
    BY <1>1, <1>2, <1>5, <1>6, <1>7, <1>8, <1>9 DEF SInv, Proceeds, Beside

\* What a completion of another operation than connect's leaves of the order.
LEMMA BesideOrderly ==
    ASSUME NEW c \in Connections, NEW d, Beside(c, d), SocketAgrees(c),
           AtRest(c) \/ (OnItsWay(c) /\ c.connection_state # "CONNECTED"),
           OnItsWay(c) /\ c.socket = "connected" => WithoutWrite(c, d)
    PROVE  /\ AtRest(d) \/ (OnItsWay(d) /\ d.connection_state # "CONNECTED")
           /\ AtRest(c) => AtRest(d)
           /\ AtRest(d) => AtRest(c)
  <1>1. AtRest(c) => AtRest(d)
    BY BesideAtRest
  <1>2. OnItsWay(c) => OnItsWay(d)
    BY BesideOnItsWay
  <1>3. ~(AtRest(d) /\ OnItsWay(d))
    <2>1. d.ready \in Seq(Completions)
      BY DEF Beside, Connections
    <2> QED
      BY <2>1 DEF AtRest, OnItsWay, Resolving, Connecting, HasResolved, HasConnected, UnderWay,
             None, ConnectOps
  <1> QED
    BY <1>1, <1>2, <1>3 DEF Beside

LEMMA CompletesSInv ==
    ASSUME SInv, NEW op \in Ops, NEW ok \in BOOLEAN, Completes(op, ok)
    PROVE  SInv'
  <1> DEFINE x == Done(op, ok)
             r == Append(con.ready, x)
             p == [con.pending EXCEPT ![op] = @ - 1]
             k == Len(con.ready) + 1
             socket == IF op # "connect" THEN con.socket
                       ELSE IF ok THEN "connected" ELSE "closed"
             d == [con EXCEPT !.pending = p, !.ready = r, !.socket = socket]
  <1>1. /\ con' = d /\ con.pending[op] > 0 /\ app' = app /\ threads' = threads
        /\ stopped' = stopped /\ io_context_running' = io_context_running
    BY DEF Completes
  <1>0. con.ready \in Seq(Completions) /\ con.pending \in [Ops -> Nat] /\ con \in Connections
    BY DEF SInv, Connections
  <1>2. /\ p \in [Ops -> Nat] /\ p[op] = con.pending[op] - 1
        /\ \A o \in Ops \ {op} : p[o] = con.pending[o]
    BY <1>0, <1>1
  <1>3. x \in Completions /\ x.op = op /\ x.ok = ok
    BY DEF Completions, Done
  <1>4. /\ r \in Seq(Completions) /\ Len(r) = k
        /\ k \in DOMAIN r /\ r[k] = x /\ k \notin DOMAIN con.ready
        /\ \A i \in DOMAIN r : (i \in DOMAIN con.ready /\ r[i] = con.ready[i]) \/ i = k
        /\ \A i \in DOMAIN con.ready : i \in DOMAIN r /\ r[i] = con.ready[i]
        /\ \A i \in DOMAIN r : ~(i > k)
        /\ \A i \in DOMAIN con.ready : ~(i >= k) /\ k > i
    BY <1>0, <1>3
  <1>5. socket \in {"closed", "connecting", "connected"}
    BY <1>0 DEF Connections
  <1> HIDE DEF p, r, socket
  <1>6. /\ d \in Connections /\ d.pending = p /\ d.ready = r /\ d.socket = socket
        /\ d.connection_state = con.connection_state /\ d.receiving = con.receiving
        /\ d.busy = con.busy /\ d.first = con.first /\ d.early = con.early
        /\ d.thrown = con.thrown /\ d.overlapped = con.overlapped
    BY <1>0, <1>2, <1>4, <1>5 DEF Connections
  <1> HIDE DEF d, x, k
  <1>7. ASSUME NEW o \in Ops, Outstanding(con, o) PROVE Outstanding(d, o)
    BY <1>2, <1>3, <1>4, <1>6, <1>7 DEF Outstanding
  <1>8. op = "connect" => con.socket = "connecting" /\ con.pending["connect"] = 1
    BY <1>0, <1>1 DEF SInv, SocketAgrees
  <1>9. SocketAgrees(d)
    <2>1. /\ {"read", "write", "connect"} \subseteq Ops /\ SocketAgrees(con)
      BY DEF SInv, Ops
    <2>2. CASE op = "connect"
      BY <1>0, <1>2, <1>6, <1>8, <2>1, <2>2 DEF SocketAgrees, socket
    <2>3. CASE op # "connect"
      BY <1>0, <1>1, <1>2, <1>6, <2>1, <2>3 DEF SocketAgrees, socket
    <2> QED
      BY <2>2, <2>3
  <1>10. WaitsToWrite(d) /\ WaitsToRead(d)
    BY <1>6, <1>7 DEF SInv, WaitsToWrite, WaitsToRead, Ops
  <1>11. (OneThread \/ Stuck)'
    BY <1>1, <1>7, NoThreadMoves DEF Ops
  <1>12. ASSUME ~con.overlapped PROVE Orderly'
    <2>1. Orderly /\ SocketAgrees(con)
      BY <1>12 DEF SInv
    <2>2. CASE op \notin ConnectOps
      <3>1. socket = con.socket
        BY <2>2 DEF socket, ConnectOps
      <3>2. con.socket # "connected" => x # Done("write", TRUE)
        BY <1>1, <1>3, <2>1 DEF SocketAgrees, Done
      <3>3. x \in Others(con)
        BY <1>3, <2>2, <3>2 DEF Others
      <3>4. Grows(con.ready, r, Others(con))
        BY <1>0, <1>3, <3>3, AppendGrows DEF r
      <3>5. Beside(con, d)
        BY <1>2, <1>6, <2>2, <3>1, <3>4 DEF Beside, ConnectOps, Ops
      <3>6. ASSUME OnItsWay(con), con.socket = "connected" PROVE WithoutWrite(con, d)
        <4>1. con.pending["write"] = 0
          BY <2>1, <3>6 DEF OnItsWay, Resolving, Connecting, HasResolved, HasConnected,
                 UnderWay, SocketAgrees
        <4>2. op # "write" /\ x \in NotWrites
          BY <1>1, <1>3, <4>1 DEF NotWrites
        <4>3. Grows(con.ready, r, NotWrites)
          BY <1>0, <1>3, <4>2, AppendGrows DEF r
        <4> QED
          BY <1>2, <1>6, <4>2, <4>3 DEF WithoutWrite, Ops
      <3>7. /\ AtRest(d) \/ (OnItsWay(d) /\ d.connection_state # "CONNECTED")
            /\ AtRest(con) => AtRest(d)
            /\ AtRest(d) => AtRest(con)
        BY <1>0, <2>1, <3>5, <3>6, BesideOrderly DEF Orderly
      <3> QED
        BY <1>1, <1>6, <2>1, <3>1, <3>7 DEF Orderly
    <2>3. CASE op = "resolve"
      <3>1. ~AtRest(con) /\ ~Connecting(con)
            /\ \A i : ~HasResolved(con, i) /\ ~HasConnected(con, i)
        BY <1>1, <2>3 DEF AtRest, Connecting, HasResolved, HasConnected, UnderWay
      <3>2. Resolving(con) /\ con.connection_state # "CONNECTED" /\ app # "resolving"
        BY <2>1, <3>1 DEF Orderly, OnItsWay
      <3>3. Only(d, k)
        BY <1>4, <1>6, <3>2 DEF Resolving, None, Only
      <3>4. UnderWay(d, 0, 0)
        BY <1>0, <1>2, <1>6, <2>3, <3>2 DEF Resolving, UnderWay, Ops
      <3>5. NoneWritten(d, k)
        BY <1>3, <1>4, <1>6, <2>3 DEF NoneWritten, Done
      <3>6. HasResolved(d, k)
        BY <1>3, <1>4, <1>6, <2>3, <3>2, <3>3, <3>4, <3>5 DEF HasResolved, Resolving, socket
      <3>7. OnItsWay(d)
        BY <1>4, <1>6, <3>6 DEF OnItsWay
      <3> QED
        BY <1>1, <1>6, <3>2, <3>7, <1>3, <1>4, <2>3 DEF Orderly, AtRest, None, ConnectOps
    <2>4. CASE op = "connect"
      <3>1. ~AtRest(con) /\ ~Resolving(con)
            /\ \A i : ~HasResolved(con, i) /\ ~HasConnected(con, i)
        BY <1>1, <2>4 DEF AtRest, Resolving, HasResolved, HasConnected, UnderWay
      <3>2. Connecting(con) /\ con.connection_state # "CONNECTED" /\ app # "resolving"
        BY <2>1, <3>1 DEF Orderly, OnItsWay
      <3>3. Only(d, k)
        BY <1>4, <1>6, <3>2 DEF Connecting, None, Only
      <3>4. UnderWay(d, 0, 0)
        BY <1>0, <1>2, <1>6, <2>4, <3>2 DEF Connecting, UnderWay, Ops
      <3>5. d.pending["write"] = 0
        BY <1>2, <1>6, <1>8, <2>1, <2>4 DEF SocketAgrees, Ops
      <3>6. NoneWritten(d, 1)
        <4>1. x # Done("write", TRUE)
          BY <1>3, <2>4 DEF Done
        <4>2. \A i \in DOMAIN con.ready : i >= 1 => con.ready[i] # Done("write", TRUE)
          BY <3>2 DEF Connecting, NoneWritten
        <4> QED
          BY <1>4, <1>6, <4>1, <4>2 DEF NoneWritten
      <3>7. HasConnected(d, k)
        BY <1>3, <1>4, <1>6, <2>4, <3>3, <3>4, <3>5, <3>6 DEF HasConnected, socket
      <3>8. OnItsWay(d)
        BY <1>4, <1>6, <3>7 DEF OnItsWay
      <3> QED
        BY <1>1, <1>6, <3>2, <3>8, <1>3, <1>4, <2>4 DEF Orderly, AtRest, None, ConnectOps
    <2> QED
      BY <2>2, <2>3, <2>4 DEF ConnectOps
  <1>13. AppInfoFirst'
    BY <1>1, <1>6 DEF SInv, AppInfoFirst
  <1> QED
    BY <1>1, <1>6, <1>9, <1>10, <1>11, <1>12, <1>13 DEF SInv

-----------------------------------------------------------------------------
(* The handlers                                                             *)

\* What a handler finds.
LEMMA HandlesFields ==
    ASSUME SInv, NEW op \in Ops, NEW ok \in BOOLEAN, Handles(op, ok),
           Goes("running", "running") \/ Goes("running", "greeting")
               \/ Goes("running", "catching")
    PROVE  /\ con \in Connections /\ con.ready # <<>> /\ Head(con.ready) = Done(op, ok)
           /\ Head(con.ready).op = op /\ Head(con.ready).ok = ok
           /\ con.ready[1] = Done(op, ok) /\ 1 \in DOMAIN con.ready
           /\ Taken \in Connections /\ SameSession(con, Taken) /\ Taken.pending = con.pending
           /\ SocketAgrees(con) /\ SocketAgrees(Taken)
           /\ \A o \in Ops \ {op} : Outstanding(con, o) => Outstanding(Taken, o)
           /\ threads["greeting"] = 0 /\ threads["catching"] = 0
           /\ con.connection_state = "CONNECTED" => con.receiving
           /\ app' = app
  <1>1. /\ con \in Connections /\ con.ready # <<>> /\ Head(con.ready) = Done(op, ok)
        /\ SocketAgrees(con)
    BY DEF Handles, SInv
  <1>2. Head(con.ready).op = op /\ Head(con.ready).ok = ok
    BY <1>1 DEF Done
  <1>3. \A o \in Ops \ {op} : Outstanding(con, o) => Outstanding(Taken, o)
    BY <1>1, <1>2, TakenOutstanding
  <1>4. threads["greeting"] = 0 /\ threads["catching"] = 0
    BY HandlerThread DEF Handles, SInv, Places
  <1>5. 1 \in DOMAIN con.ready
    BY <1>1 DEF Connections
  <1> QED
    BY <1>1, <1>2, <1>3, <1>4, <1>5, TakenFields DEF Handles, SInv

\* A handler that leaves the connection with sends, a read or a ping begun, of the
\* completion of one of those.
LEMMA BesideHandler ==
    ASSUME SInv, NEW op \in Ops \ ConnectOps, NEW ok \in BOOLEAN, Handles(op, ok),
           NEW d, Leaves(d) \/ Throws(d), Beside(Taken, d), SocketAgrees(d),
           WaitsToWrite(d), WaitsToRead(d), con.receiving => d.receiving,
           ~con.overlapped =>
               /\ d.first = con.first /\ d.early = con.early
               /\ OnItsWay(Taken) /\ con.socket = "connected" => WithoutWrite(Taken, d)
    PROVE  SInv'
  <1>1. /\ con' = d
        /\ Goes("running", "running") \/ Goes("running", "catching")
    BY DEF Leaves, Throws
  <1>2. /\ con \in Connections /\ con.ready # <<>> /\ SocketAgrees(con) /\ SocketAgrees(Taken)
        /\ Taken \in Connections /\ SameSession(con, Taken) /\ Head(con.ready).op = op
        /\ threads["greeting"] = 0
        /\ con.connection_state = "CONNECTED" => con.receiving
    BY <1>1, HandlesFields
  <1>3. /\ d \in Connections /\ d.connection_state = con.connection_state
        /\ d.socket = con.socket /\ d.overlapped = con.overlapped
    BY <1>2 DEF Beside, SameSession
  <1>4. /\ threads' \in [Places -> Nat] /\ (OneThread \/ Stuck)'
        /\ ~(threads'["greeting"] > 0)
    BY <1>1, HandlerThread DEF Handles
  <1>6. ASSUME ~con.overlapped PROVE Orderly' /\ AppInfoFirst'
    <2>1. Orderly /\ AppInfoFirst /\ app' = app
      BY <1>6 DEF SInv, Handles
    <2>2. AtRest(con) => AtRest(Taken)
      BY <1>2, TakenAtRest
    <2>3. OnItsWay(con) => OnItsWay(Taken)
      BY <1>2, TakenOnItsWay
    <2>4. Taken.socket = con.socket /\ Taken.connection_state = con.connection_state
      BY <1>2 DEF SameSession
    <2>5. AtRest(Taken) \/ (OnItsWay(Taken) /\ Taken.connection_state # "CONNECTED")
      BY <2>1, <2>2, <2>3, <2>4 DEF Orderly
    <2>6. /\ AtRest(d) \/ (OnItsWay(d) /\ d.connection_state # "CONNECTED")
          /\ AtRest(Taken) => AtRest(d)
          /\ AtRest(d) => AtRest(Taken)
      BY <1>2, <1>6, <2>4, <2>5, BesideOrderly
    <2>7. AtRest(Taken) => AtRest(con)
      <3>1. ~(AtRest(Taken) /\ OnItsWay(Taken))
        BY <1>2 DEF AtRest, OnItsWay, Resolving, Connecting, HasResolved, HasConnected,
               UnderWay, None, ConnectOps, Connections
      <3> QED
        BY <2>1, <2>3, <3>1 DEF Orderly
    <2>8. Orderly'
      BY <1>1, <1>2, <1>3, <1>6, <2>1, <2>2, <2>6, <2>7 DEF Orderly
    <2> QED
      BY <1>1, <1>3, <1>6, <2>1, <2>8 DEF AppInfoFirst
  <1>7. con.overlapped => AppInfoFirst'
    BY <1>1, <1>3 DEF AppInfoFirst
  <1> QED
    BY <1>1, <1>2, <1>3, <1>4, <1>6, <1>7 DEF SInv

\* What is already written to a connection that a handler may send on.
LEMMA AlreadyWritten ==
    ASSUME SInv, ~con.overlapped, con.socket = "connected", threads["greeting"] = 0,
           con.connection_state = "CONNECTED"
               \/ \E i \in DOMAIN con.ready : con.ready[i] = Done("write", TRUE)
    PROVE  AtRest(con) /\ con.first # "none"
  <1>1. Orderly
    BY DEF SInv
  <1>2. OnItsWay(con) => NoneWritten(con, 1)
    BY DEF OnItsWay, Resolving, Connecting, HasResolved, HasConnected
  <1>4. \A i \in DOMAIN con.ready : i >= 1
    BY DEF SInv, Connections
  <1>3. AtRest(con)
    BY <1>1, <1>2, <1>4 DEF Orderly, NoneWritten
  <1> QED
    BY <1>1, <1>3 DEF Orderly

LEMMA ReadDoneSInv ==
    ASSUME SInv, ReadDone
    PROVE  SInv'
  <1> DEFINE d == [Taken EXCEPT !.thrown = TRUE]
  <1>0. /\ Handles("read", TRUE) /\ "read" \in Ops \ ConnectOps /\ "write" \in Ops \ {"read"}
        /\ Leaves(Qread(Taken)) \/ Throws(d)
    BY DEF ReadDone, Ops, ConnectOps
  <1>1. /\ con \in Connections /\ SocketAgrees(con) /\ SocketAgrees(Taken)
        /\ Taken \in Connections /\ SameSession(con, Taken)
        /\ Outstanding(con, "write") => Outstanding(Taken, "write")
    BY <1>0, HandlesFields DEF Leaves, Throws
  <1>2. WaitsToWrite(Taken)
    BY <1>1 DEF SInv, WaitsToWrite, SameSession
  <1>3. CASE Leaves(Qread(Taken))
    <2>1. /\ Proceeds(Taken, Qread(Taken)) /\ WaitsToRead(Qread(Taken))
          /\ Qread(Taken).receiving /\ Qread(Taken).first = Taken.first
          /\ WithoutWrite(Taken, Qread(Taken))
      BY <1>1, QreadFields
    <2> QED
      BY <1>0, <1>1, <1>2, <1>3, <2>1, BesideHandler DEF Proceeds, SameSession
  <1>4. CASE Throws(d)
    <2>1. /\ d \in Connections /\ d.thrown = TRUE /\ d.connection_state = Taken.connection_state
          /\ d.receiving = Taken.receiving /\ d.busy = Taken.busy /\ d.socket = Taken.socket
          /\ d.first = Taken.first /\ d.early = Taken.early
          /\ d.overlapped = Taken.overlapped /\ d.pending = Taken.pending
          /\ d.ready = Taken.ready
      BY <1>1 DEF Connections
    <2> HIDE DEF d
    <2>2. Grows(Taken.ready, d.ready, Others(Taken)) /\ Grows(Taken.ready, d.ready, NotWrites)
      BY <1>1, <2>1, NothingGrows DEF Connections
    <2>3. Beside(Taken, d) /\ WithoutWrite(Taken, d)
      BY <2>1, <2>2 DEF Beside, WithoutWrite
    <2>4. SocketAgrees(d) /\ WaitsToWrite(d) /\ WaitsToRead(d)
      BY <1>1, <1>2, <2>1 DEF SocketAgrees, WaitsToWrite, WaitsToRead, Outstanding
    <2> QED
      BY <1>0, <1>1, <1>4, <2>1, <2>3, <2>4, BesideHandler DEF SameSession
  <1> QED
    BY <1>0, <1>3, <1>4

LEMMA WriteDoneSInv ==
    ASSUME SInv, WriteDone
    PROVE  SInv'
  <1> DEFINE d == HandleQsentContent(Taken)
  <1>0. /\ Handles("write", TRUE) /\ "write" \in Ops \ ConnectOps /\ "read" \in Ops \ {"write"}
        /\ Leaves(d)
    BY DEF WriteDone, Ops, ConnectOps
  <1>1. /\ con \in Connections /\ SocketAgrees(con) /\ SocketAgrees(Taken)
        /\ Taken \in Connections /\ SameSession(con, Taken)
        /\ Outstanding(con, "read") => Outstanding(Taken, "read")
        /\ con.ready[1] = Done("write", TRUE) /\ 1 \in DOMAIN con.ready
        /\ threads["greeting"] = 0 /\ con.ready # <<>> /\ Head(con.ready).op = "write"
    BY <1>0, HandlesFields DEF Leaves
  <1>2. WaitsToRead(Taken)
    BY <1>1 DEF SInv, WaitsToRead, SameSession
  <1>3. Proceeds(Taken, d) /\ WaitsToWrite(d)
    BY <1>1, HandleQsentContentFields
  <1> HIDE DEF d
  <1>4. ASSUME ~con.overlapped
        PROVE  d.first = con.first /\ ~(OnItsWay(Taken) /\ con.socket = "connected")
    <2>1. con.socket = "connected" => AtRest(con) /\ con.first # "none"
      BY <1>1, <1>4, AlreadyWritten
    <2>2. d.first = con.first
      BY <1>1, <1>3, <2>1 DEF Proceeds, SameSession
    <2>3. AtRest(con) => AtRest(Taken)
      BY <1>1, TakenAtRest
    <2>4. ~(AtRest(Taken) /\ OnItsWay(Taken))
      BY <1>1 DEF AtRest, OnItsWay, Resolving, Connecting, HasResolved, HasConnected,
             UnderWay, None, ConnectOps, Connections
    <2> QED
      BY <2>1, <2>2, <2>3, <2>4
  <1> QED
    BY <1>0, <1>1, <1>2, <1>3, <1>4, BesideHandler DEF Proceeds, SameSession

LEMMA PingTaskSInv ==
    ASSUME SInv, PingTask
    PROVE  SInv'
  <1>0. PICK ok \in BOOLEAN : Handles("ping", ok)
    BY DEF PingTask
  <1>1. /\ "ping" \in Ops \ ConnectOps /\ {"read", "write"} \subseteq Ops \ {"ping"}
        /\ "net/ping" \in Packages
    BY DEF Ops, ConnectOps, Packages
  <1>2. \/ con.connection_state # "CONNECTED" /\ Leaves(Taken)
        \/ /\ con.connection_state = "CONNECTED"
           /\ Leaves(StartPingTask(Qsend(Taken, "net/ping")))
    BY DEF PingTask
  <1>3. /\ con \in Connections /\ SocketAgrees(con) /\ SocketAgrees(Taken)
        /\ Taken \in Connections /\ SameSession(con, Taken)
        /\ Outstanding(con, "read") => Outstanding(Taken, "read")
        /\ Outstanding(con, "write") => Outstanding(Taken, "write")
        /\ threads["greeting"] = 0 /\ con.ready # <<>> /\ Head(con.ready).op = "ping"
    BY <1>0, <1>1, <1>2, HandlesFields DEF Leaves
  <1>4. WaitsToRead(Taken) /\ WaitsToWrite(Taken)
    BY <1>3 DEF SInv, WaitsToRead, WaitsToWrite, SameSession
  <1>5. CASE Leaves(Taken)
    <2>1. Proceeds(Taken, Taken)
      BY <1>3, NothingProceeds
    <2>2. Grows(Taken.ready, Taken.ready, NotWrites)
      BY <1>3, NothingGrows DEF Connections
    <2>3. WithoutWrite(Taken, Taken)
      BY <2>2 DEF WithoutWrite
    <2> QED
      BY <1>0, <1>1, <1>3, <1>4, <1>5, <2>1, <2>3, BesideHandler DEF Proceeds, SameSession
  <1>6. CASE con.connection_state = "CONNECTED"
             /\ Leaves(StartPingTask(Qsend(Taken, "net/ping")))
    <2> DEFINE q == Qsend(Taken, "net/ping")
               d == StartPingTask(q)
    <2>1. Proceeds(Taken, q)
      BY <1>1, <1>3, QsendFields
    <2>2. q \in Connections
      BY <2>1 DEF Proceeds, Beside
    <2> HIDE DEF q
    <2>3. Proceeds(q, d)
      BY <2>2, StartPingTaskFields
    <2> HIDE DEF d
    <2>4. Proceeds(Taken, d)
      BY <1>3, <2>1, <2>3, ProceedsIsTransitive
    <2>5. ASSUME ~con.overlapped
          PROVE  d.first = con.first /\ ~(OnItsWay(Taken) /\ con.socket = "connected")
      <3>1. con.socket = "connected" => AtRest(con) /\ con.first # "none"
        BY <1>3, <1>6, <2>5, AlreadyWritten
      <3>2. d.first = con.first
        BY <1>3, <2>4, <3>1 DEF Proceeds, SameSession
      <3>3. AtRest(con) => AtRest(Taken)
        BY <1>3, TakenAtRest
      <3>4. ~(AtRest(Taken) /\ OnItsWay(Taken))
        BY <1>3 DEF AtRest, OnItsWay, Resolving, Connecting, HasResolved, HasConnected,
               UnderWay, None, ConnectOps, Connections
      <3> QED
        BY <3>1, <3>2, <3>3, <3>4
    <2>6. Leaves(d)
      BY <1>6 DEF d, q
    <2> QED
      BY <1>0, <1>1, <1>3, <1>4, <2>4, <2>5, <2>6, BesideHandler DEF Proceeds, SameSession
  <1> QED
    BY <1>2, <1>5, <1>6

\* resolve_handler and connect_handler: the completion is of the connect itself.
LEMMA OwnHandler ==
    ASSUME SInv, NEW op \in ConnectOps, NEW ok \in BOOLEAN, Handles(op, ok), ~con.overlapped,
           Goes("running", "running") \/ Goes("running", "greeting")
               \/ Goes("running", "catching")
    PROVE  /\ AtRest(Taken) /\ con.connection_state # "CONNECTED" /\ app # "resolving"
           /\ op = "resolve" => con.socket = "closed" /\ NoneWritten(Taken, 1)
           /\ op = "connect" /\ con.socket = "connected" => ok /\ ~Outstanding(Taken, "write")
  <1>1. /\ con \in Connections /\ con.ready # <<>> /\ SocketAgrees(con)
        /\ Head(con.ready).op = op /\ Head(con.ready).ok = ok
    BY HandlesFields DEF ConnectOps, Ops
  <1>2. Orderly
    BY DEF SInv
  <1>3. ~AtRest(con)
    BY <1>1, TakenAtRest
  <1> QED
    BY <1>1, <1>2, <1>3, TakenOwn DEF Orderly

LEMMA FailsSInv ==
    ASSUME SInv, ResolveFails \/ ConnectFails
    PROVE  SInv'
  <1>0. PICK op \in ConnectOps : Handles(op, FALSE) /\ Throws(Taken)
    BY DEF ResolveFails, ConnectFails, ConnectOps
  <1>1. /\ con' = Taken /\ Goes("running", "catching") /\ op \in Ops
        /\ {"read", "write"} \subseteq Ops \ {op}
    BY <1>0 DEF Throws, ConnectOps, Ops
  <1>2. /\ Taken \in Connections /\ SameSession(con, Taken) /\ SocketAgrees(Taken)
        /\ \A o \in Ops \ {op} : Outstanding(con, o) => Outstanding(Taken, o)
        /\ con.connection_state = "CONNECTED" => con.receiving
    BY <1>0, <1>1, HandlesFields
  <1>3. WaitsToRead(Taken) /\ WaitsToWrite(Taken)
    BY <1>1, <1>2 DEF SInv, WaitsToRead, WaitsToWrite, SameSession
  <1>4. /\ threads' \in [Places -> Nat] /\ (OneThread \/ Stuck)' /\ ~(threads'["greeting"] > 0)
        /\ app' = app
    BY <1>0, <1>1, HandlerThread DEF Handles
  <1>5. ASSUME ~con.overlapped PROVE Orderly'
    <2>1. /\ AtRest(Taken) /\ app # "resolving" /\ con.socket # "connected"
      BY <1>0, <1>1, <1>5, OwnHandler DEF ConnectOps
    <2> QED
      BY <1>1, <1>2, <1>4, <2>1 DEF Orderly, SameSession
  <1>6. AppInfoFirst'
    BY <1>1, <1>2 DEF SInv, AppInfoFirst, SameSession
  <1> QED
    BY <1>1, <1>2, <1>3, <1>4, <1>5, <1>6 DEF SInv, SameSession

LEMMA ResolvedSInv ==
    ASSUME SInv, Resolved
    PROVE  SInv'
  <1> DEFINE b == Begin(Taken, "connect", "closed")
             socket == IF b.socket = "closed" THEN "connecting" ELSE b.socket
             d == [b EXCEPT !.socket = socket]
  <1>0. /\ Handles("resolve", TRUE) /\ Leaves(d) /\ "resolve" \in Ops /\ "connect" \in Ops
        /\ {"read", "write"} \subseteq Ops \ {"resolve"}
    BY DEF Resolved, Ops
  <1>1. con' = d /\ Goes("running", "running")
    BY <1>0 DEF Leaves
  <1>2. /\ Taken \in Connections /\ SameSession(con, Taken) /\ SocketAgrees(Taken)
        /\ \A o \in Ops \ {"resolve"} : Outstanding(con, o) => Outstanding(Taken, o)
        /\ con.connection_state = "CONNECTED" => con.receiving
    BY <1>0, <1>1, HandlesFields
  <1>3. WaitsToRead(Taken) /\ WaitsToWrite(Taken)
    BY <1>0, <1>2 DEF SInv, WaitsToRead, WaitsToWrite, SameSession
  <1>4. /\ threads' \in [Places -> Nat] /\ (OneThread \/ Stuck)' /\ ~(threads'["greeting"] > 0)
        /\ app' = app
    BY <1>0, <1>1, HandlerThread DEF Handles
  <1>5. ASSUME ~con.overlapped
        PROVE  /\ AtRest(Taken) /\ con.connection_state # "CONNECTED" /\ app # "resolving"
               /\ con.socket = "closed" /\ NoneWritten(Taken, 1)
    BY <1>0, <1>1, <1>5, OwnHandler DEF ConnectOps
  <1>6. /\ Taken.ready \in Seq(Completions) /\ Taken.pending \in [Ops -> Nat]
        /\ Taken.socket \in {"closed", "connecting", "connected"}
    BY <1>2 DEF Connections
  <1>7. CASE Taken.socket = "closed"
    <2> DEFINE p == [Taken.pending EXCEPT !["connect"] = @ + 1]
    <2>1. p \in [Ops -> Nat] /\ b = [Taken EXCEPT !.pending = p]
      BY <1>0, <1>6, <1>7 DEF Begin
    <2>2. /\ p["connect"] = 1 /\ p["resolve"] = Taken.pending["resolve"]
          /\ p["read"] = Taken.pending["read"] /\ p["write"] = Taken.pending["write"]
      BY <1>0, <1>2, <1>6, <1>7 DEF SocketAgrees, Ops
    <2> HIDE DEF p, b
    <2>3. /\ b \in Connections /\ b.pending = p /\ b.ready = Taken.ready
          /\ SameSession(Taken, b)
      BY <1>2, <2>1, NewPending
    <2>4. socket = "connecting"
      BY <1>7, <2>3 DEF SameSession
    <2> HIDE DEF socket
    <2>5. /\ d \in Connections /\ d.pending = p /\ d.ready = Taken.ready
          /\ d.socket = "connecting" /\ d.connection_state = b.connection_state
          /\ d.receiving = b.receiving /\ d.busy = b.busy /\ d.first = b.first
          /\ d.early = b.early /\ d.thrown = b.thrown /\ d.overlapped = b.overlapped
      BY <2>3, <2>4 DEF Connections
    <2> HIDE DEF d
    <2>6. SocketAgrees(d)
      BY <1>2, <1>7, <2>2, <2>5 DEF SocketAgrees
    <2>7. WaitsToRead(d) /\ WaitsToWrite(d)
      BY <1>3, <2>2, <2>3, <2>5 DEF WaitsToRead, WaitsToWrite, Outstanding, SameSession
    <2>8. ASSUME ~con.overlapped PROVE Orderly'
      <3>1. Connecting(d)
        BY <1>5, <2>2, <2>5, <2>8 DEF AtRest, Connecting, None, UnderWay, NoneWritten
      <3> QED
        BY <1>1, <1>2, <1>4, <1>5, <2>3, <2>5, <2>8, <3>1
        DEF Orderly, OnItsWay, SameSession, AtRest, Connecting, UnderWay
    <2>9. AppInfoFirst'
      BY <1>1, <1>2, <2>3, <2>5 DEF SInv, AppInfoFirst, SameSession
    <2> QED
      BY <1>1, <1>2, <1>4, <2>3, <2>5, <2>6, <2>7, <2>8, <2>9 DEF SInv, SameSession
  <1>8. CASE Taken.socket # "closed"
    <2> DEFINE x == Done("connect", FALSE)
               r == Append(Taken.ready, x)
    <2>1. b = [Taken EXCEPT !.ready = r]
      BY <1>8 DEF Begin
    <2>2. x \in Completions
      BY <1>0 DEF Completions, Done
    <2> HIDE DEF x
    <2>3. r \in Seq(Completions) /\ Grows(Taken.ready, r, {x})
      BY <1>6, <2>2, AppendGrows
    <2> HIDE DEF r, b
    <2>4. /\ b \in Connections /\ b.pending = Taken.pending /\ b.ready = r
          /\ SameSession(Taken, b)
      BY <1>2, <2>1, <2>3, NewReady
    <2>5. socket = b.socket
      BY <1>8, <2>4 DEF SameSession
    <2> HIDE DEF socket
    <2>6. /\ d \in Connections /\ d.pending = Taken.pending /\ d.ready = r
          /\ d.socket = b.socket /\ d.connection_state = b.connection_state
          /\ d.receiving = b.receiving /\ d.busy = b.busy /\ d.first = b.first
          /\ d.early = b.early /\ d.thrown = b.thrown /\ d.overlapped = b.overlapped
      BY <2>4, <2>5 DEF Connections
    <2> HIDE DEF d
    <2>7. SocketAgrees(d)
      BY <1>2, <2>4, <2>6 DEF SocketAgrees, SameSession
    <2>8. ASSUME NEW o \in {"read", "write"}, Outstanding(Taken, o) PROVE Outstanding(d, o)
      <3>1. o \in Ops /\ d.pending[o] >= Taken.pending[o] /\ Grows(Taken.ready, d.ready, {x})
        BY <1>0, <1>6, <2>3, <2>6
      <3> QED
        BY <1>2, <2>6, <2>8, <3>1, StaysOutstanding
    <2>9. WaitsToRead(d) /\ WaitsToWrite(d)
      BY <1>3, <2>4, <2>6, <2>8 DEF WaitsToRead, WaitsToWrite, SameSession
    <2>10. con.overlapped
      BY <1>2, <1>5, <1>8 DEF SameSession
    <2>11. AppInfoFirst'
      BY <1>1, <1>2, <2>4, <2>6, <2>10 DEF AppInfoFirst, SameSession
    <2> QED
      BY <1>1, <1>2, <1>4, <2>4, <2>6, <2>7, <2>9, <2>10, <2>11 DEF SInv, SameSession
  <1> QED
    BY <1>7, <1>8

LEMMA ConnectedSInv ==
    ASSUME SInv, Connected
    PROVE  SInv'
  <1> DEFINE d == [Taken EXCEPT !.connection_state = "CONNECTED"]
  <1>0. /\ Handles("connect", TRUE) /\ con' = d /\ Goes("running", "greeting")
        /\ "connect" \in Ops /\ {"read", "write"} \subseteq Ops \ {"connect"}
    BY DEF Connected, Ops
  <1>2. /\ Taken \in Connections /\ SameSession(con, Taken) /\ SocketAgrees(Taken)
        /\ \A o \in Ops \ {"connect"} : Outstanding(con, o) => Outstanding(Taken, o)
    BY <1>0, HandlesFields
  <1>3. WaitsToRead(Taken) /\ WaitsToWrite(Taken)
    BY <1>0, <1>2 DEF SInv, WaitsToRead, WaitsToWrite, SameSession
  <1>4. /\ threads' \in [Places -> Nat] /\ (OneThread \/ Stuck)' /\ threads'["greeting"] > 0
        /\ app' = app
    BY <1>0, HandlerThread DEF Handles
  <1>5. /\ d \in Connections /\ d.connection_state = "CONNECTED" /\ d.socket = Taken.socket
        /\ d.receiving = Taken.receiving /\ d.busy = Taken.busy /\ d.first = Taken.first
        /\ d.early = Taken.early /\ d.thrown = Taken.thrown
        /\ d.overlapped = Taken.overlapped
        /\ d.pending = Taken.pending /\ d.ready = Taken.ready
    BY <1>2 DEF Connections, States
  <1> HIDE DEF d
  <1>6. SocketAgrees(d) /\ WaitsToRead(d) /\ WaitsToWrite(d)
    BY <1>2, <1>3, <1>5 DEF SocketAgrees, WaitsToRead, WaitsToWrite, Outstanding
  <1>7. ASSUME ~con.overlapped PROVE Orderly'
    <2>1. /\ AtRest(Taken) /\ app # "resolving"
          /\ con.socket = "connected" => ~Outstanding(Taken, "write")
      BY <1>0, <1>7, OwnHandler DEF ConnectOps
    <2>2. AtRest(d)
      BY <1>5, <2>1 DEF AtRest, None, UnderWay
    <2>3. con.socket = "connected" => ~d.busy
      BY <1>3, <1>5, <2>1 DEF WaitsToWrite
    <2> QED
      BY <1>0, <1>2, <1>4, <1>5, <2>1, <2>2, <2>3 DEF Orderly, SameSession
  <1>8. AppInfoFirst'
    BY <1>0, <1>2, <1>5 DEF SInv, AppInfoFirst, SameSession
  <1> QED
    BY <1>0, <1>2, <1>4, <1>5, <1>6, <1>7, <1>8 DEF SInv, SameSession

LEMMA GreetSInv ==
    ASSUME SInv, Greet
    PROVE  SInv'
  <1> DEFINE t == StartPingTask(con)
             r == StartReceive(t)
             d == SendAppInfo(r)
  <1>0. /\ stopped' = stopped /\ app' = app /\ io_context_running' = io_context_running
        /\ "greeting" \in Places \ {"starting", "running"} /\ "net/appInfo" \in Packages
    BY DEF Greet, Places, Packages
  <1>1. threads["greeting"] > 0 /\ (Goes("greeting", "running") \/ Goes("greeting", "catching"))
    BY DEF Greet, Goes
  <1>2. Threads = 1
    BY <1>0, <1>1, Alone
  <1>3. con \in Connections /\ con.connection_state = "CONNECTED" /\ SocketAgrees(con)
        /\ WaitsToRead(con) /\ WaitsToWrite(con)
    BY <1>1 DEF SInv
  <1>4. ASSUME ~con.overlapped
        PROVE  /\ AtRest(con) /\ app # "resolving"
               /\ con.socket = "connected" /\ con.first = "none" => ~con.busy
    BY <1>3, <1>4 DEF SInv, Orderly
  <1>5. CASE con.socket = "connected" /\ con' = d /\ Goes("greeting", "running")
    <2>1. /\ Proceeds(con, t) /\ t.busy = con.busy /\ t.first = con.first
      BY <1>3, StartPingTaskFields
    <2>2. t \in Connections
      BY <2>1 DEF Proceeds, Beside
    <2> HIDE DEF t
    <2>3. /\ Proceeds(t, r) /\ r.receiving /\ r.busy = t.busy /\ r.first = t.first
      BY <2>2, StartReceiveFields
    <2>4. r \in Connections /\ Proceeds(con, r)
      BY <1>3, <2>1, <2>3, ProceedsIsTransitive DEF Proceeds, Beside
    <2> HIDE DEF r
    <2>5. /\ Proceeds(r, d)
          /\ d.first # r.first => d.first = "net/appInfo"
          /\ ~r.busy /\ r.socket = "connected" => d.first # "none"
      BY <1>0, <2>4, QsendFields DEF SendAppInfo
    <2> HIDE DEF d
    <2>6. Proceeds(con, d) /\ d.receiving
      BY <1>3, <2>3, <2>4, <2>5, ProceedsIsTransitive DEF Proceeds
    <2>7. /\ threads' \in [Places -> Nat] /\ (OneThread \/ Stuck)'
          /\ ~(threads'["greeting"] > 0) /\ ~(threads'["catching"] > 0)
      BY <1>0, <1>2, <1>5, HandlerThread
    <2>8. ASSUME ~con.overlapped PROVE Orderly'
      <3>1. AtRest(d)
        BY <1>3, <1>4, <2>6, <2>8, BesideAtRest DEF Proceeds
      <3>2. r.socket = con.socket
        BY <2>4 DEF Proceeds, Beside
      <3>3. d.first # "none"
        BY <1>4, <1>5, <2>1, <2>3, <2>5, <2>8, <3>2
      <3> QED
        BY <1>0, <1>4, <1>5, <2>8, <3>1, <3>3 DEF Orderly
    <2>9. AppInfoFirst'
      BY <1>5, <2>1, <2>3, <2>5, <2>6 DEF SInv, AppInfoFirst, Proceeds, Beside
    <2> QED
      BY <1>3, <1>5, <2>6, <2>7, <2>8, <2>9 DEF SInv, Proceeds, Beside
  <1>6. CASE con.socket # "connected" /\ con' = con /\ Goes("greeting", "catching")
    <2>1. /\ threads' \in [Places -> Nat] /\ (OneThread \/ Stuck)'
          /\ ~(threads'["greeting"] > 0) /\ threads'["catching"] > 0
      BY <1>0, <1>2, <1>6, HandlerThread
    <2>2. ~con.overlapped => Orderly'
      BY <1>0, <1>4, <1>6 DEF Orderly
    <2>3. AppInfoFirst'
      BY <1>6 DEF SInv, AppInfoFirst
    <2> QED
      BY <1>3, <1>6, <2>1, <2>2, <2>3 DEF SInv
  <1> QED
    BY <1>5, <1>6 DEF Greet

LEMMA OperationFailsSInv ==
    ASSUME SInv, OperationFails
    PROVE  SInv'
  <1>0. PICK op \in {"read", "write"} : Handles(op, FALSE)
    BY DEF OperationFails
  <1>1. /\ con' = Close(Taken) /\ Goes("running", "running") /\ op \in Ops
        /\ op \notin ConnectOps
    BY <1>0 DEF OperationFails, Ops, ConnectOps
  <1>2. /\ con \in Connections /\ con.ready # <<>> /\ Head(con.ready).op = op
        /\ Taken \in Connections /\ SameSession(con, Taken)
        /\ SocketAgrees(con) /\ SocketAgrees(Taken)
    BY <1>0, <1>1, HandlesFields
  <1>3. /\ Close(Taken) \in Connections
        /\ Close(Taken).connection_state = "DISCONNECTED"
        /\ Close(Taken).socket = "closed" /\ Close(Taken).first = "none"
        /\ Close(Taken).overlapped = Taken.overlapped
        /\ SocketAgrees(Close(Taken))
        /\ WaitsToWrite(Close(Taken)) /\ WaitsToRead(Close(Taken))
        /\ AtRest(Taken) => AtRest(Close(Taken))
        /\ OnItsWay(Taken) => OnItsWay(Close(Taken))
    BY <1>2, CloseFields
  <1>4. /\ threads' \in [Places -> Nat] /\ (OneThread \/ Stuck)' /\ ~(threads'["greeting"] > 0)
        /\ app' = app
    BY <1>0, <1>1, HandlerThread DEF Handles
  <1>5. ASSUME ~con.overlapped PROVE Orderly'
    <2>1. Orderly
      BY <1>5 DEF SInv
    <2>2. AtRest(Taken) \/ OnItsWay(Taken)
      BY <1>1, <1>2, <2>1, TakenAtRest, TakenOnItsWay DEF Orderly
    <2>3. app = "resolving" => AtRest(Close(Taken))
      BY <1>2, <1>3, <2>1, TakenAtRest DEF Orderly
    <2> QED
      BY <1>1, <1>3, <1>4, <2>2, <2>3 DEF Orderly
  <1>6. AppInfoFirst'
    BY <1>1, <1>3 DEF AppInfoFirst
  <1> QED
    BY <1>1, <1>2, <1>3, <1>4, <1>5, <1>6 DEF SInv, SameSession

\* The thread's own steps, and the end of connect.
LEMMA StandsStep ==
    ASSUME SInv, con' = con, app' = app \/ app' = "idle",
           threads' \in [Places -> Nat], (OneThread \/ Stuck)',
           threads'["greeting"] = threads["greeting"],
           threads'["catching"] = threads["catching"]
    PROVE  SInv'
  <1>1. AppInfoFirst'
    BY DEF SInv, AppInfoFirst
  <1>2. ~con.overlapped => Orderly'
    BY DEF SInv, Orderly
  <1> QED
    BY <1>1, <1>2 DEF SInv

LEMMA StartContextThreadSInv ==
    ASSUME SInv, StartContextThread
    PROVE  SInv'
  <1>1. /\ con' = con /\ app = "starting" /\ app' = "idle" /\ stopped' = stopped
        /\ io_context_running' = io_context_running
    BY DEF StartContextThread
  <1>2. CASE io_context_running
    <2>1. threads' = threads
      BY <1>2 DEF StartContextThread, NeedsThread
    <2>2. (OneThread \/ Stuck)'
      BY <1>1, <2>1, NoThreadMoves
    <2> QED
      BY <1>1, <2>1, <2>2, StandsStep DEF SInv
  <1>3. CASE ~io_context_running
    <2>1. threads' = [threads EXCEPT !["starting"] = @ + 1]
      BY <1>3 DEF StartContextThread, NeedsThread
    <2>2. /\ threads' \in [Places -> Nat] /\ Threads' = Threads + 1 /\ Threads \in Nat
          /\ threads'["starting"] = threads["starting"] + 1 /\ threads["starting"] \in Nat
          /\ threads'["greeting"] = threads["greeting"]
          /\ threads'["catching"] = threads["catching"]
          /\ threads'["running"] = threads["running"] /\ threads["running"] \in Nat
          /\ threads'["ended"] = threads["ended"]
      BY <2>1 DEF SInv, Threads, Places
    <2>3. CASE OneThread /\ threads["starting"] = 0
      <3>1. Threads = 0 /\ threads["ended"] = 0
        BY <1>3, <2>2, <2>3, Alone DEF OneThread, Places
      <3>2. OneThread'
        BY <1>1, <2>2, <2>3, <3>1 DEF OneThread
      <3> QED
        BY <1>1, <2>2, <3>2, StandsStep
    <2>4. CASE OneThread /\ threads["starting"] > 0
      <3>1. Outstanding(con, "resolve") /\ Threads = threads["starting"] /\ Threads = 1
        BY <1>1, <1>3, <2>2, <2>4 DEF OneThread, Threads, SInv, Places
      <3>2. ~(threads["ended"] > 0) /\ threads["running"] = 0
        BY <3>1 DEF Threads, SInv, Places
      <3>3. ~stopped
        BY <2>4, <3>2 DEF OneThread
      <3>4. Stuck'
        BY <1>1, <2>2, <3>1, <3>2, <3>3 DEF Stuck
      <3> QED
        BY <1>1, <2>2, <3>4, StandsStep
    <2>5. CASE Stuck
      <3>1. Stuck'
        BY <1>1, <2>2, <2>5 DEF Stuck
      <3> QED
        BY <1>1, <2>2, <3>1, StandsStep
    <2> QED
      BY <2>2, <2>3, <2>4, <2>5 DEF SInv
  <1> QED
    BY <1>2, <1>3

LEMMA ThreadStartsSInv ==
    ASSUME SInv, ThreadStarts
    PROVE  SInv'
  <1>1. /\ con' = con /\ app' = app /\ stopped' = stopped /\ io_context_running'
        /\ threads["starting"] > 0
        /\ threads' = [threads EXCEPT !["starting"] = @ - 1, !["running"] = @ + 1]
    BY DEF ThreadStarts, Goes
  <1>2. /\ threads' \in [Places -> Nat] /\ Threads' = Threads /\ Threads \in Nat
        /\ threads'["starting"] = threads["starting"] - 1 /\ threads["starting"] \in Nat
        /\ threads'["greeting"] = threads["greeting"]
        /\ threads'["catching"] = threads["catching"]
        /\ threads'["running"] = threads["running"] + 1 /\ threads["running"] \in Nat
        /\ threads'["ended"] = threads["ended"]
    BY <1>1 DEF SInv, Threads, Places
  <1>3. CASE OneThread
    <2>1. OneThread'
      BY <1>1, <1>2, <1>3 DEF OneThread
    <2> QED
      BY <1>1, <1>2, <2>1, StandsStep
  <1>4. CASE Stuck
    <2>1. Stuck'
      BY <1>1, <1>2, <1>4 DEF Stuck
    <2> QED
      BY <1>1, <1>2, <2>1, StandsStep
  <1> QED
    BY <1>3, <1>4 DEF SInv

LEMMA RunReturnsSInv ==
    ASSUME SInv, RunReturns
    PROVE  SInv'
  <1>1. /\ con' = con /\ app' = app /\ stopped' /\ io_context_running' = io_context_running
        /\ threads["running"] > 0 /\ (stopped \/ NoWork)
        /\ threads' = [threads EXCEPT !["running"] = @ - 1, !["ended"] = @ + 1]
    BY DEF RunReturns, Goes
  <1>2. /\ threads' \in [Places -> Nat] /\ Threads' = Threads /\ Threads \in Nat
        /\ threads'["starting"] = threads["starting"] /\ threads["starting"] \in Nat
        /\ threads'["greeting"] = threads["greeting"]
        /\ threads'["catching"] = threads["catching"]
        /\ threads'["ended"] > 0
    <2>1. /\ threads' \in [Places -> Nat] /\ Threads' = Threads /\ Threads \in Nat
          /\ threads'["starting"] = threads["starting"]
      <3>1. Goes("running", "ended") /\ "running" \in Places /\ "ended" \in Places
        BY DEF RunReturns, Places
      <3> QED
        BY <3>1, GoesKeepsThreads DEF SInv
    <2>2. /\ threads["starting"] \in Nat /\ threads["ended"] \in Nat
          /\ threads'["greeting"] = threads["greeting"]
          /\ threads'["catching"] = threads["catching"]
          /\ threads'["ended"] = threads["ended"] + 1
      BY <1>1 DEF SInv, Places
    <2> QED
      BY <2>1, <2>2
  <1>3. NoWork => ~Outstanding(con, "resolve")
    BY DEF NoWork, Outstanding, Ops, SInv, Connections
  <1>4. OneThread
    BY <1>1, <1>3 DEF SInv, Stuck
  <1>5. OneThread'
    BY <1>1, <1>2, <1>4 DEF OneThread
  <1> QED
    BY <1>1, <1>2, <1>5, StandsStep

LEMMA RestartSInv ==
    ASSUME SInv, Restart
    PROVE  SInv'
  <1>1. /\ con' = con /\ app' = app /\ ~stopped' /\ io_context_running' = io_context_running
        /\ threads["ended"] > 0 /\ "ended" \in Places \ {"starting", "running"}
        /\ threads' = [threads EXCEPT !["ended"] = @ - 1, !["restarted"] = @ + 1]
    BY DEF Restart, AfterRestart, Goes, Places
  <1>2. /\ threads' \in [Places -> Nat] /\ Threads' = Threads /\ Threads \in Nat
        /\ threads'["starting"] = threads["starting"]
        /\ threads'["greeting"] = threads["greeting"]
        /\ threads'["catching"] = threads["catching"]
    BY <1>1 DEF SInv, Threads, Places
  <1>3. OneThread
    BY <1>1, Alone
  <1>4. OneThread'
    BY <1>1, <1>2, <1>3 DEF OneThread
  <1> QED
    BY <1>1, <1>2, <1>4, StandsStep

LEMMA ThreadEndsSInv ==
    ASSUME SInv, ThreadEnds
    PROVE  SInv'
  <1>1. /\ con' = con /\ app' = app /\ stopped' = stopped
        /\ threads["restarted"] > 0 /\ "restarted" \in Places \ {"starting", "running"}
        /\ threads' = [threads EXCEPT !["restarted"] = @ - 1]
    BY DEF ThreadEnds, Places
  <1>2. OneThread /\ Threads = 1 /\ \A q \in Places \ {"restarted"} : threads[q] = 0
    BY <1>1, Alone
  <1>3. /\ threads' \in [Places -> Nat] /\ Threads' = 0
        /\ threads'["starting"] = 0 /\ threads["ended"] = 0
        /\ threads'["greeting"] = threads["greeting"]
        /\ threads'["catching"] = threads["catching"]
    <2>1. /\ threads["starting"] = 0 /\ threads["running"] = 0 /\ threads["greeting"] = 0
          /\ threads["catching"] = 0 /\ threads["ended"] = 0
          /\ threads["restarted"] \in Nat
      BY <1>2 DEF SInv, Places
    <2>2. threads["restarted"] = 1
      BY <1>2, <2>1 DEF Threads
    <2>3. threads' \in [Places -> Nat] /\ threads'["restarted"] = 0
      BY <1>1, <2>2 DEF SInv, Places
    <2>4. \A q \in Places \ {"restarted"} : threads'[q] = threads[q]
      BY <1>1 DEF SInv
    <2>5. /\ threads'["starting"] = 0 /\ threads'["running"] = 0 /\ threads'["greeting"] = 0
          /\ threads'["catching"] = 0 /\ threads'["ended"] = 0
      BY <2>1, <2>4 DEF Places
    <2> QED
      BY <2>1, <2>3, <2>5 DEF Threads
  <1>4. OneThread'
    BY <1>1, <1>2, <1>3 DEF OneThread
  <1> QED
    BY <1>1, <1>3, <1>4, StandsStep

LEMMA CatchExceptionSInv ==
    ASSUME SInv, CatchException
    PROVE  SInv'
  <1> DEFINE d == [con EXCEPT !.connection_state = "DISCONNECTED"]
  <1>1. /\ con' = d /\ app' = app /\ stopped' = stopped
        /\ io_context_running' = io_context_running
        /\ threads["catching"] > 0 /\ "catching" \in Places \ {"starting", "running"}
        /\ threads' = [threads EXCEPT !["catching"] = @ - 1, !["ended"] = @ + 1]
    BY DEF CatchException, Goes, Places
  <1>2. /\ OneThread /\ Threads = 1 /\ io_context_running
        /\ \A q \in Places \ {"catching"} : threads[q] = 0
    BY <1>1, Alone
  <1>3. /\ threads' \in [Places -> Nat] /\ Threads' = 1
        /\ threads'["starting"] = 0 /\ threads'["ended"] > 0
        /\ threads'["greeting"] = 0 /\ threads["greeting"] = 0
    <2>1. /\ threads["starting"] = 0 /\ threads["running"] = 0 /\ threads["greeting"] = 0
          /\ threads["ended"] = 0 /\ threads["restarted"] = 0
          /\ threads["catching"] \in Nat
      BY <1>2 DEF SInv, Places
    <2>2. threads["catching"] = 1
      BY <1>2, <2>1 DEF Threads
    <2>3. threads' \in [Places -> Nat] /\ threads'["catching"] = 0 /\ threads'["ended"] = 1
      BY <1>1, <2>1, <2>2 DEF SInv, Places
    <2>4. \A q \in Places \ {"catching", "ended"} : threads'[q] = threads[q]
      BY <1>1 DEF SInv
    <2>5. /\ threads'["starting"] = 0 /\ threads'["running"] = 0 /\ threads'["greeting"] = 0
          /\ threads'["restarted"] = 0
      BY <2>1, <2>4 DEF Places
    <2> QED
      BY <2>1, <2>3, <2>5 DEF Threads
  <1>4. OneThread'
    BY <1>1, <1>2, <1>3 DEF OneThread
  <1>5. /\ d \in Connections /\ d.connection_state = "DISCONNECTED" /\ d.socket = con.socket
        /\ d.receiving = con.receiving /\ d.busy = con.busy /\ d.first = con.first
        /\ d.early = con.early /\ d.thrown = con.thrown
        /\ d.overlapped = con.overlapped
        /\ d.pending = con.pending /\ d.ready = con.ready
    BY DEF SInv, Connections, States
  <1> HIDE DEF d
  <1>6. SocketAgrees(d) /\ WaitsToRead(d) /\ WaitsToWrite(d)
    BY <1>5 DEF SInv, SocketAgrees, WaitsToRead, WaitsToWrite, Outstanding
  <1>7. ASSUME ~con.overlapped PROVE Orderly'
    <2>1. Orderly
      BY <1>7 DEF SInv
    <2>2. AtRest(con) <=> AtRest(d)
      BY <1>5 DEF AtRest, None, UnderWay
    <2>3. ASSUME OnItsWay(con) PROVE OnItsWay(d)
      <3>1. Resolving(con) => Resolving(d)
        BY <1>5 DEF Resolving, None, UnderWay
      <3>2. Connecting(con) => Connecting(d)
        BY <1>5 DEF Connecting, None, UnderWay, NoneWritten
      <3>3. ASSUME NEW k \in DOMAIN con.ready, HasResolved(con, k) PROVE HasResolved(d, k)
        BY <1>5, <3>3 DEF HasResolved, Only, UnderWay, NoneWritten
      <3>4. ASSUME NEW k \in DOMAIN con.ready, HasConnected(con, k) PROVE HasConnected(d, k)
        BY <1>5, <3>4 DEF HasConnected, Only, UnderWay, NoneWritten
      <3>5. DOMAIN con.ready = DOMAIN d.ready
        BY <1>5
      <3> QED
        BY <2>3, <3>1, <3>2, <3>3, <3>4, <3>5 DEF OnItsWay
    <2> QED
      BY <1>1, <1>3, <1>5, <2>1, <2>2, <2>3 DEF Orderly
  <1>8. AppInfoFirst'
    BY <1>1, <1>5 DEF SInv, AppInfoFirst
  <1> QED
    BY <1>1, <1>3, <1>4, <1>5, <1>6, <1>7, <1>8 DEF SInv

LEMMA NextSInv ==
    ASSUME SInv, [Next]_vars
    PROVE  SInv'
  <1>1. CASE UNCHANGED vars
    <2>1. con' = con /\ app' = app /\ threads' = threads /\ stopped' = stopped
          /\ io_context_running' = io_context_running
      BY <1>1 DEF vars
    <2>2. (OneThread \/ Stuck)'
      BY <2>1, NoThreadMoves
    <2> QED
      BY <2>1, <2>2, StandsStep DEF SInv
  <1>2. CASE Call
    BY <1>2, ConnectSInv, AppSendsSInv DEF Call
  <1>3. CASE CallGoesOn
    BY <1>3, AsyncResolveSInv, StartContextThreadSInv DEF CallGoesOn
  <1>4. CASE Handler
    BY <1>4, FailsSInv, ResolvedSInv, ConnectedSInv, GreetSInv, ReadDoneSInv, WriteDoneSInv,
       OperationFailsSInv, PingTaskSInv DEF Handler
  <1>5. CASE Thread
    BY <1>5, ThreadStartsSInv, RunReturnsSInv, CatchExceptionSInv, RestartSInv,
       ThreadEndsSInv DEF Thread
  <1>6. CASE Network
    BY <1>6, CompletesSInv DEF Network
  <1> QED
    BY <1>1, <1>2, <1>3, <1>4, <1>5, <1>6 DEF Next

\* The first package on a connected socket is net/appInfo, whatever an earlier session
\* left in the queue or under way: the application sent in the middle of the
\* greeting, or the connects overlapped, if it is another.
THEOREM AppInfoFirstTheorem == Spec => []AppInfoFirst
  <1>1. SInv => AppInfoFirst
    BY DEF SInv
  <1>2. SInv /\ [Next]_vars => SInv'
    BY NextSInv
  <1> QED
    BY <1>1, <1>2, InitSInv, PTL DEF Spec

-----------------------------------------------------------------------------
(* The queue                                                                *)

\* Once the greeting is over, or an exception is, the queue is behind a write.
QueueInv ==
    con.connection_state = "CONNECTED" =>
        QueueIsWritten(con) \/ threads["greeting"] > 0 \/ threads["catching"] > 0

\* A step that leaves the queue and the write, and no thread leaves its place.
LEMMA QueueStays ==
    ASSUME QueueInv, con'.connection_state = con.connection_state,
           con'.pkg_queue = con.pkg_queue, con'.busy = con.busy,
           threads'["greeting"] = threads["greeting"],
           threads'["catching"] = threads["catching"]
    PROVE  QueueInv'
  BY DEF QueueInv, QueueIsWritten

\* A thread that goes from one place to another leaves the others.
LEMMA OthersStay ==
    ASSUME SInv, NEW from \in Places \ {"greeting", "catching"},
           NEW to \in Places \ {"greeting", "catching"}, Goes(from, to)
    PROVE  /\ threads'["greeting"] = threads["greeting"]
           /\ threads'["catching"] = threads["catching"]
  BY DEF SInv, Goes, Places

LEMMA ArrivesSomewhere ==
    ASSUME SInv, NEW from \in Places, NEW to \in Places \ {from}, Goes(from, to)
    PROVE  threads'[to] > 0
  BY DEF SInv, Goes, Places

LEMMA HandlerQueue ==
    ASSUME SInv, QueueInv, Handler
    PROVE  QueueInv'
  <1>0. /\ {"running", "greeting", "catching"} \subseteq Places
        /\ "running" \in Places \ {"greeting", "catching"}
        /\ {"net/ping", "net/appInfo"} \subseteq Packages
    BY DEF Places, Packages
  <1>1. con \in Connections /\ SocketAgrees(con)
    BY DEF SInv
  <1>2. ASSUME con.ready # <<>>
        PROVE  Taken \in Connections /\ SameSession(con, Taken)
    BY <1>1, <1>2, TakenFields
  <1>3. ASSUME NEW c, Throws(c) PROVE QueueInv'
    <2>1. threads'["catching"] > 0
      BY <1>0, <1>3, ArrivesSomewhere DEF Throws
    <2> QED
      BY <2>1 DEF QueueInv
  <1>4. ASSUME QueueIsWritten(con') PROVE QueueInv'
    BY <1>4 DEF QueueInv
  <1>5. ASSUME NEW c, Leaves(c), c.connection_state = con.connection_state,
               c.pkg_queue = con.pkg_queue, c.busy = con.busy
        PROVE  QueueInv'
    BY <1>0, <1>5, OthersStay, QueueStays DEF Leaves
  <1>6. CASE ResolveFails \/ ConnectFails
    BY <1>3, <1>6 DEF ResolveFails, ConnectFails
  <1>7. CASE Resolved
    <2> DEFINE b == Begin(Taken, "connect", "closed")
               d == [b EXCEPT !.socket = IF @ = "closed" THEN "connecting" ELSE @]
    <2>1. Taken \in Connections /\ SameSession(con, Taken)
      BY <1>2, <1>7 DEF Resolved, Handles
    <2>2. /\ b.connection_state = Taken.connection_state /\ b.pkg_queue = Taken.pkg_queue
          /\ b.busy = Taken.busy
          /\ d.connection_state = b.connection_state /\ d.pkg_queue = b.pkg_queue
          /\ d.busy = b.busy
      BY <2>1 DEF Begin, Connections
    <2>3. Leaves(d)
      BY <1>7 DEF Resolved
    <2> HIDE DEF b, d
    <2> QED
      BY <1>5, <2>1, <2>2, <2>3 DEF SameSession
  <1>8. CASE Connected
    <2>1. threads'["greeting"] > 0
      BY <1>0, <1>8, ArrivesSomewhere DEF Connected
    <2> QED
      BY <2>1 DEF QueueInv
  <1>9. CASE Greet
    <2>1. CASE con' = SendAppInfo(StartReceive(StartPingTask(con)))
      <3> DEFINE t == StartPingTask(con)
                 r == StartReceive(t)
      <3>1. t \in Connections
        BY <1>1, StartPingTaskFields DEF Proceeds, Beside
      <3> HIDE DEF t
      <3>2. r \in Connections
        BY <3>1, StartReceiveFields DEF Proceeds, Beside
      <3> HIDE DEF r
      <3>3. SendAppInfo(r).busy
        BY <1>0, <3>2, QsendFields DEF SendAppInfo
      <3>4. con'.busy
        BY <2>1, <3>3 DEF r, t
      <3> QED
        BY <3>4 DEF QueueInv, QueueIsWritten
    <2>2. CASE Goes("greeting", "catching")
      <3>1. threads'["catching"] > 0
        BY <1>0, <2>2, ArrivesSomewhere
      <3> QED
        BY <3>1 DEF QueueInv
    <2> QED
      BY <1>9, <2>1, <2>2 DEF Greet
  <1>10. CASE ReadDone
    <2>1. Taken \in Connections /\ SameSession(con, Taken)
      BY <1>2, <1>10 DEF ReadDone, Handles
    <2>2. Proceeds(Taken, Qread(Taken)) /\ Qread(Taken).busy = Taken.busy
          /\ Qread(Taken).pkg_queue = Taken.pkg_queue
      BY <2>1, QreadFields
    <2>3. Leaves(Qread(Taken)) \/ Throws([Taken EXCEPT !.thrown = TRUE])
      BY <1>10 DEF ReadDone
    <2> QED
      BY <1>3, <1>5, <2>1, <2>2, <2>3 DEF SameSession, Proceeds, Beside
  <1>11. CASE WriteDone
    <2>1. Taken \in Connections /\ Leaves(HandleQsentContent(Taken))
      BY <1>2, <1>11 DEF WriteDone, Handles
    <2>2. QueueIsWritten(HandleQsentContent(Taken))
      BY <2>1, HandleQsentContentFields
    <2> QED
      BY <1>4, <2>1, <2>2 DEF Leaves
  <1>12. CASE OperationFails
    <2> DEFINE b == CloseSocket(Taken)
    <2>1. b \in Connections
      BY <1>1, <1>2, <1>12, CloseSocketFields DEF OperationFails, Handles
    <2>2. con' = [b EXCEPT !.connection_state = "DISCONNECTED", !.receiving = FALSE,
                           !.busy = FALSE, !.thrown = FALSE]
      BY <1>12 DEF OperationFails, Close
    <2> HIDE DEF b
    <2>3. con'.connection_state = "DISCONNECTED"
      BY <2>1, <2>2 DEF Connections
    <2> QED
      BY <2>3 DEF QueueInv
  <1>13. CASE PingTask
    <2>1. Taken \in Connections /\ SameSession(con, Taken)
      BY <1>2, <1>13 DEF PingTask, Handles
    <2>2. CASE Leaves(Taken)
      BY <1>5, <2>1, <2>2 DEF SameSession
    <2>3. CASE Leaves(StartPingTask(Qsend(Taken, "net/ping")))
      <3> DEFINE q == Qsend(Taken, "net/ping")
      <3>1. q \in Connections /\ q.busy
        BY <1>0, <2>1, QsendFields DEF Proceeds, Beside
      <3> HIDE DEF q
      <3>2. StartPingTask(q).busy
        BY <3>1, StartPingTaskFields
      <3>3. con'.busy
        BY <2>3, <3>2 DEF q, Leaves
      <3> QED
        BY <1>4, <3>3 DEF QueueIsWritten
    <2> QED
      BY <1>13, <2>2, <2>3 DEF PingTask
  <1> QED
    BY <1>6, <1>7, <1>8, <1>9, <1>10, <1>11, <1>12, <1>13 DEF Handler

LEMMA NextQueueInv ==
    ASSUME SInv, QueueInv, [Next]_vars
    PROVE  QueueInv'
  <1>0. con \in Connections /\ threads \in [Places -> Nat]
    BY DEF SInv
  <1>1. CASE UNCHANGED vars
    BY <1>1, QueueStays DEF vars
  <1>2. CASE Connect
    <2> DEFINE b == CloseSocket(con)
    <2>1. b \in Connections
      BY <1>0, CloseSocketFields DEF SInv
    <2>2. con' = [b EXCEPT !.connection_state = "CONNECTING",
                  !.overlapped = Outstanding(con, "resolve") \/ Outstanding(con, "connect")]
      BY <1>2 DEF Connect
    <2> HIDE DEF b
    <2>3. con'.connection_state = "CONNECTING"
      BY <2>1, <2>2 DEF Connections
    <2> QED
      BY <2>3 DEF QueueInv
  <1>3. CASE AppSends
    <2> DEFINE q == Qsend(con, "event")
    <2>1. q \in Connections /\ q.busy
      BY <1>0, QsendFields DEF Proceeds, Beside, Packages
    <2>2. con' = [q EXCEPT !.early = @ \/ threads["greeting"] > 0]
      BY <1>3 DEF AppSends
    <2> HIDE DEF q
    <2>3. con'.busy
      BY <2>1, <2>2 DEF Connections
    <2> QED
      BY <2>3 DEF QueueInv, QueueIsWritten
  <1>4. CASE AsyncResolve
    BY <1>0, <1>4, QueueStays DEF AsyncResolve, Connections
  <1>5. CASE StartContextThread
    <2>1. threads'["greeting"] = threads["greeting"] /\ threads'["catching"] = threads["catching"]
      BY <1>0, <1>5 DEF StartContextThread, Places
    <2> QED
      BY <1>5, <2>1, QueueStays DEF StartContextThread
  <1>6. CASE ThreadStarts \/ RunReturns \/ Restart \/ ThreadEnds
    <2>1. threads'["greeting"] = threads["greeting"] /\ threads'["catching"] = threads["catching"]
          /\ con' = con
      BY <1>0, <1>6 DEF ThreadStarts, RunReturns, Restart, ThreadEnds, Goes, Places
    <2> QED
      BY <2>1, QueueStays
  <1>7. CASE CatchException
    <2>1. con'.connection_state = "DISCONNECTED"
      BY <1>0, <1>7 DEF CatchException, Connections
    <2> QED
      BY <2>1 DEF QueueInv
  <1>8. CASE Network
    <2>1. PICK op \in Ops, ok \in BOOLEAN : Completes(op, ok)
      BY <1>8 DEF Network
    <2>2. /\ con'.connection_state = con.connection_state
          /\ con'.pkg_queue = con.pkg_queue /\ con'.busy = con.busy
      BY <1>0, <2>1 DEF Completes, Connections
    <2> QED
      BY <2>1, <2>2, QueueStays DEF Completes
  <1> QED
    BY <1>1, <1>2, <1>3, <1>4, <1>5, <1>6, <1>7, <1>8, HandlerQueue
    DEF Next, Call, CallGoesOn, Thread

\* A connection whose thread runs reads, unless the handler of a read threw, and what
\* is in its queue waits for a write that is under way, in every session.
THEOREM ConnectionMovesTheorem == Spec => []ConnectionMoves
  <1>1. ASSUME SInv, QueueInv PROVE ConnectionMoves
    <2> SUFFICES ASSUME con.connection_state = "CONNECTED", threads["running"] > 0
                 PROVE  /\ Outstanding(con, "read") \/ con.thrown
                        /\ con.pkg_queue # <<>> => con.busy
                        /\ con.busy => Outstanding(con, "write")
      BY DEF ConnectionMoves
    <2>1. ~(threads["greeting"] > 0) /\ ~(threads["catching"] > 0)
      <3>1. ASSUME NEW p \in {"greeting", "catching"}, threads[p] > 0 PROVE FALSE
        <4>1. p \in Places \ {"starting", "running"} /\ "running" \in Places \ {p}
          BY DEF Places
        <4>2. threads["running"] = 0
          BY <1>1, <3>1, <4>1, Alone
        <4> QED
          BY <4>2
      <3> QED
        BY <3>1
    <2>2. con.receiving
      BY <1>1, <2>1 DEF SInv
    <2>3. QueueIsWritten(con)
      BY <1>1, <2>1 DEF QueueInv
    <2> QED
      BY <1>1, <2>2, <2>3 DEF SInv, WaitsToWrite, WaitsToRead, QueueIsWritten
  <1>2. Init => QueueInv
    BY DEF Init, QueueInv
  <1>3. SInv /\ [Next]_vars => SInv'
    BY NextSInv
  <1>4. SInv /\ QueueInv /\ [Next]_vars => QueueInv'
    BY NextQueueInv
  <1> QED
    BY <1>1, <1>2, <1>3, <1>4, InitSInv, PTL DEF Spec

================================================================================
