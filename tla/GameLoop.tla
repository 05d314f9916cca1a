------------------------------- MODULE GameLoop -------------------------------
(****************************************************************************)
(* The game of one group (src/src/server/group.cpp): the io thread accepts  *)
(* the clients' events and starts games; a thread per game applies the      *)
(* events, advances the tick and announces the state when an event came too *)
(* late.  The two share `game' and `evt_queue' without a lock.              *)
(*                                                                          *)
(* A round of the `while' is four steps, since the io thread may act        *)
(* between any two of them: it appends an event, or start_game empties the  *)
(* queue and replaces the game under a round that has an event in hand (see *)
(* StartGame).                                                              *)
(****************************************************************************)
EXTENDS Naturals, Sequences

CONSTANTS
    Evts,       \* game/event packages that clients send once a game has started
    MaxEvents,  \* bound: events accepted in a game
    MaxTick,    \* bound: a game is finished at this tick at the latest
    MaxGames    \* bound: games of the group

ASSUME MaxEventsAssumption == MaxEvents \in Nat
ASSUME MaxTickAssumption == MaxTick \in Nat \ {0}
ASSUME MaxGamesAssumption == MaxGames \in Nat

VARIABLES
    crashed,      \* the process ended in the use of a deleted object
    games,        \* games started so far; the last one is `game'
    tick,         \* game->tick
    finished,     \* game->is_finished()
    evt_queue,
    stamped,      \* the event that the io thread has stamped and not yet queued
    waits,        \* pending waits of the timer `t', each for game_main_loop
    loop,         \* where the thread of the game is, see Places
    evt,          \* the copy of the front that a round of its `while' has, if any
    must_broadcast_sync,
    overlapped,   \* history: start_game has found a game_main_loop running
    accepted,     \* history: events queued in this game
    applied,      \* history: events applied to this game, with the tick it had
    synced        \* history: how many of those the last broadcast sync holds

gameVars == <<games, tick, finished>>
loopVars == <<waits, loop, evt, must_broadcast_sync>>
history == <<overlapped, accepted, applied, synced>>
vars == <<crashed, gameVars, evt_queue, stamped, loopVars, history>>

\* A second chain of waits may pass the end of a game once more.
Ticks == 0 .. MaxTick + MaxGames
\* `game' is history: the game during which the event was stamped.
Stamped == [evt : Evts, tick : Ticks, game : 1 .. MaxGames]
Applied == [evt : Stamped, at : Ticks]

\* At the head of the `while', in the three parts of its body, behind it.
InRound == {"events", "compare", "apply", "pop"}
Places == {"wait", "end"} \cup InRound

Init ==
    /\ crashed = FALSE
    /\ games = 0
    /\ tick = 0
    /\ finished = FALSE
    /\ evt_queue = <<>>
    /\ stamped = <<>>
    /\ waits = 0
    /\ loop = "wait"
    /\ evt = <<>>
    /\ must_broadcast_sync = FALSE
    /\ overlapped = FALSE
    /\ accepted = <<>>
    /\ applied = <<>>
    /\ synced = 0

-----------------------------------------------------------------------------
(* The io thread.  It handles one package at a time: `stamped' is empty     *)
(* when a listener starts.                                                  *)

\* Listener of game/event, first half: the tick is read from the running game.
Stamp(e) == [evt |-> e, tick |-> tick, game |-> games]

ReceiveEvent(e) ==
    /\ ~crashed
    /\ stamped = <<>>
    /\ games > 0
    /\ Len(accepted) < MaxEvents
    /\ stamped' = <<Stamp(e)>>
    /\ UNCHANGED <<crashed, gameVars, evt_queue, loopVars, history>>

\* Second half: the event is queued and then broadcast, as it was stamped.  No
\* property looks at the order of this broadcast and that of a sync, which may
\* come in between.
QueueEvent ==
    /\ ~crashed
    /\ stamped # <<>>
    /\ evt_queue' = evt_queue \o stamped
    /\ accepted' = accepted \o stamped
    /\ stamped' = <<>>
    /\ UNCHANGED <<crashed, gameVars, loopVars, overlapped, applied, synced>>

\* The queue that new_game leaves: `swap' with an empty one.
QueueKept == evt_queue
QueueOfNewGame == <<>>

NewGame ==
    /\ games' = games + 1
    /\ tick' = 0
    /\ finished' = FALSE
    /\ evt_queue' = QueueOfNewGame
    /\ accepted' = <<>>
    /\ applied' = <<>>
    /\ synced' = 0

\* The waits that are pending once start_game has replaced io and t.
WaitsKept == waits + 1
WaitsOfNewGame == 1

\* start_game, called when every player is ready; that may happen at any time.
\* A loop that waits, or has ended, goes with its io_context.  One that runs
\* sees `game', `t' and the queue replaced under it: it ends, or goes on with the
\* new ones and the event it has in hand.
StartGame ==
    /\ ~crashed
    /\ stamped = <<>>
    /\ games < MaxGames
    /\ NewGame
    /\ waits' = WaitsOfNewGame
    /\ overlapped' = (overlapped \/ loop # "wait")
    /\ \/ UNCHANGED <<loop, evt, must_broadcast_sync>>
       \/ /\ loop' = "wait"
          /\ evt' = <<>>
          /\ must_broadcast_sync' = FALSE
    /\ UNCHANGED <<crashed, stamped>>

\* The same, when its thread is still inside io->run(): the use of the deleted
\* game, timer or io_context ends the process.
StartGameCrashes ==
    /\ ~crashed
    /\ stamped = <<>>
    /\ games < MaxGames
    /\ waits > 0 \/ loop # "wait"
    /\ crashed' = TRUE
    /\ UNCHANGED <<gameVars, evt_queue, stamped, loopVars, history>>

-----------------------------------------------------------------------------
(* game_main_loop, on the thread of the game.  Two waits of one timer run   *)
(* one after the other.  A loop that start_game has overtaken is assumed to *)
(* end before the first wait of the new game, 1.25 s later.                 *)

WaitEnds ==
    /\ ~crashed
    /\ loop = "wait"
    /\ waits > 0
    /\ waits' = waits - 1
    /\ loop' = "events"
    /\ must_broadcast_sync' = FALSE
    /\ UNCHANGED <<crashed, gameVars, evt_queue, stamped, evt, history>>

\* The test of the size and the copy of the front.
TakeFront ==
    /\ ~crashed
    /\ loop = "events"
    /\ evt_queue # <<>>
    /\ evt' = <<Head(evt_queue)>>
    /\ loop' = "compare"
    /\ UNCHANGED <<crashed, gameVars, evt_queue, stamped, waits, must_broadcast_sync, history>>

\* The event in hand is due: the `break' leaves those of a later tick.
Due == loop = "compare" /\ evt[1].tick <= tick

\* The flag after an event: once raised, it stays until the end of the round.
SyncNeededForLast == evt[1].tick < tick
SyncNeeded == must_broadcast_sync \/ evt[1].tick < tick

CompareTick ==
    /\ ~crashed
    /\ Due
    /\ must_broadcast_sync' = SyncNeeded
    /\ loop' = "apply"
    /\ UNCHANGED <<crashed, gameVars, evt_queue, stamped, waits, evt, history>>

\* process_game_event, on the game of now.
ApplyEvent ==
    /\ ~crashed
    /\ loop = "apply"
    /\ applied' = Append(applied, [evt |-> evt[1], at |-> tick])
    /\ evt' = <<>>
    /\ loop' = "pop"
    /\ UNCHANGED <<crashed, gameVars, evt_queue, stamped, waits, must_broadcast_sync,
                   overlapped, accepted, synced>>

\* The pop takes what is in front now.  On a queue that is empty it is undefined:
\* the queue is corrupt from there on, and the model takes the process to end.
PopEvent ==
    /\ ~crashed
    /\ loop = "pop"
    /\ \/ /\ evt_queue # <<>>
          /\ evt_queue' = Tail(evt_queue)
          /\ UNCHANGED crashed
       \/ /\ evt_queue = <<>>
          /\ crashed' = TRUE
          /\ UNCHANGED evt_queue
    /\ loop' = "events"
    /\ UNCHANGED <<gameVars, stamped, waits, evt, must_broadcast_sync, history>>

\* The end of the `while', and game->process_tick(), which may finish the game.
ProcessTick ==
    /\ ~crashed
    /\ \/ loop = "events" /\ evt_queue = <<>>
       \/ loop = "compare" /\ ~Due
    /\ evt' = <<>>
    /\ tick' = tick + 1
    /\ finished' \in {TRUE, finished \/ tick + 1 >= MaxTick}
    /\ loop' = "end"
    /\ UNCHANGED <<crashed, games, evt_queue, stamped, waits, must_broadcast_sync, history>>

\* The wait for the next round: none after the end of the game.
RearmedAlways == waits + 1
RearmedUnlessSync == IF finished \/ must_broadcast_sync THEN waits ELSE waits + 1
Rearmed == IF finished THEN waits ELSE waits + 1

\* The rest of the round: the sync, if one is needed, and the next wait.
EndRound ==
    /\ ~crashed
    /\ loop = "end"
    /\ synced' = IF must_broadcast_sync THEN Len(applied) ELSE synced
    /\ must_broadcast_sync' = FALSE
    /\ waits' = Rearmed
    /\ loop' = "wait"
    /\ UNCHANGED <<crashed, gameVars, evt_queue, stamped, evt, overlapped, accepted, applied>>

-----------------------------------------------------------------------------
Round == TakeFront \/ CompareTick \/ ApplyEvent \/ PopEvent
Loop == WaitEnds \/ Round \/ ProcessTick \/ EndRound

Next ==
    \/ \E e \in Evts : ReceiveEvent(e)
    \/ QueueEvent
    \/ StartGame
    \/ StartGameCrashes
    \/ Loop

Spec == Init /\ [][Next]_vars

\* The thread of the game runs, and its timer expires.  Nothing is assumed of
\* the clients.
FairSpec == Spec /\ WF_vars(Loop)

-----------------------------------------------------------------------------
(* Properties                                                               *)

\* Every variable keeps its type; no more waits are pending than games started.
TypeOK ==
    /\ crashed \in BOOLEAN
    /\ games \in 0 .. MaxGames
    /\ tick \in Ticks
    /\ finished \in BOOLEAN
    /\ evt_queue \in Seq(Stamped)
    /\ stamped \in {<<>>} \cup {<<s>> : s \in Stamped}
    /\ waits \in 0 .. games
    /\ loop \in Places
    /\ evt \in {<<>>} \cup {<<s>> : s \in Stamped}
    /\ must_broadcast_sync \in BOOLEAN
    /\ overlapped \in BOOLEAN
    /\ accepted \in Seq(Stamped)
    /\ applied \in Seq(Applied)
    /\ synced \in 0 .. Len(applied)

\* A game applies the events accepted for it, each once and in the order in
\* which the clients were told of them, whatever the two threads do.  The event in
\* hand is in the queue until its pop.  The exception is a start_game that met a
\* running game_main_loop: the new game may be given the event in hand of the old
\* one, and the pop may take an event of the new game that was not applied.
InOrderOnce ==
    LET done == [i \in 1 .. Len(applied) |-> applied[i].evt]
    IN  \/ overlapped
        \/ accepted = done \o (IF loop = "pop" THEN Tail(evt_queue) ELSE evt_queue)

\* An event that the clients are told to apply at an earlier tick than the
\* server did is part of a sync that has been broadcast, or the loop is about to
\* broadcast it (must_broadcast_sync in game_main_loop).
LateEventIsSynced ==
    \A i \in 1 .. Len(applied) :
        applied[i].evt.tick < applied[i].at => i <= synced \/ must_broadcast_sync

\* No event waits for a tick that is still to come: the `break' of the loop
\* would hold it, and every event behind it.
QueueIsDue == \A i \in 1 .. Len(evt_queue) : evt_queue[i].tick <= tick

\* No game is given what the one before it left in the queue, which new_game empties.
\* The exception is one event, before any other: that which a game_main_loop had in
\* hand when start_game met it.
OldEventIsFirst ==
    \A i \in 1 .. Len(applied) : applied[i].evt.game # games => overlapped /\ i = 1

\* A group has one loop: unless start_game met a running game_main_loop, there
\* is never a second chain of waits to advance the tick of the same game.
OneLoop == overlapped \/ waits + (IF loop = "wait" THEN 0 ELSE 1) <= 1

\* An event accepted for a game is applied, unless the game finishes, another
\* one replaces it, the process ends, or start_game met a running game_main_loop.
AcceptedIsApplied ==
    \A g \in 1 .. MaxGames : \A i \in 1 .. MaxEvents :
        (games = g /\ Len(accepted) >= i) ~>
            (games # g \/ Len(applied) >= i \/ finished \/ crashed \/ overlapped)
=============================================================================
