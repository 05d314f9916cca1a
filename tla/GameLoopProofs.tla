---------------------------- MODULE GameLoopProofs ----------------------------
(****************************************************************************)
(* Proofs about GameLoop, for every Evts, MaxEvents, MaxTick and MaxGames.  *)
(****************************************************************************)
EXTENDS GameLoop, TLAPS, SequenceTheorems

USE MaxTickAssumption, MaxGamesAssumption

-----------------------------------------------------------------------------
(* Type correctness                                                         *)

\* Chains of waits, the one whose handler runs included.
Chains == waits + (IF loop = "wait" THEN 0 ELSE 1)

\* A chain of waits comes from a start of the game, and passes the end of a
\* game at most once.
TickBound ==
    /\ Chains <= games
    /\ finished \/ tick < MaxTick
    /\ finished => tick + waits + (IF loop \in InRound THEN 1 ELSE 0) <= MaxTick + games

\* A round that compares or applies an event has one in hand.
HasEvent == loop \in {"compare", "apply"} => evt # <<>>

\* The initial state has its types.
LEMMA InitType == Init => TypeOK /\ TickBound /\ HasEvent
  <1> SUFFICES ASSUME Init PROVE TypeOK /\ TickBound /\ HasEvent
    OBVIOUS
  <1>1. 0 \in Ticks /\ 0 < MaxTick
    BY DEF Ticks
  <1>2. /\ stamped \in {<<>>} \cup {<<s>> : s \in Stamped}
        /\ evt \in {<<>>} \cup {<<s>> : s \in Stamped}
    BY DEF Init
  <1>3. <<>> \in Seq(Stamped) /\ <<>> \in Seq(Applied) /\ Len(<<>>) = 0
    OBVIOUS
  <1>4. games \in 0 .. MaxGames /\ waits \in 0 .. games /\ tick \in Ticks
    BY <1>1 DEF Init
  <1>5. /\ evt_queue \in Seq(Stamped) /\ accepted \in Seq(Stamped)
        /\ applied \in Seq(Applied) /\ synced \in 0 .. Len(applied)
    BY <1>3 DEF Init
  <1>6. TypeOK
    BY <1>2, <1>4, <1>5 DEF Init, TypeOK, Places, InRound
  <1> QED
    BY <1>1, <1>6 DEF Init, TickBound, Chains, HasEvent, InRound

\* The parts of the type invariant that bound the loop, without the sequences.
LoopType ==
    /\ games \in 0 .. MaxGames
    /\ tick \in Ticks
    /\ finished \in BOOLEAN
    /\ waits \in 0 .. games
    /\ loop \in Places
    /\ must_broadcast_sync \in BOOLEAN

\* Every step keeps the loop within its bounds.
LEMMA NextBound ==
    ASSUME LoopType, TickBound, [Next]_vars
    PROVE  LoopType' /\ TickBound'
  <1> DEFINE Goal == LoopType' /\ TickBound'
  <1> USE DEF LoopType, TickBound, Chains, Ticks, Places, InRound
  <1>1. ASSUME UNCHANGED <<gameVars, loopVars>> PROVE Goal
    BY <1>1 DEF gameVars, loopVars
  <1>2. ASSUME StartGame PROVE Goal
    <2>1. /\ games < MaxGames /\ games' = games + 1
          /\ tick' = 0 /\ finished' = FALSE /\ waits' = 1
          /\ loop' = loop \/ loop' = "wait"
      BY <1>2 DEF StartGame, NewGame, WaitsOfNewGame
    <2>2. must_broadcast_sync' \in BOOLEAN
      BY <1>2 DEF StartGame
    <2>3. games \in Nat /\ games' \in 0 .. MaxGames /\ waits' \in 0 .. games'
      BY <2>1
    <2>4. tick' \in Ticks /\ tick' < MaxTick
      BY <2>1
    <2>5. loop # "wait" => games >= 1
      BY <2>3
    <2>6. waits' + (IF loop' = "wait" THEN 0 ELSE 1) <= games'
      BY <2>1, <2>3, <2>5
    <2> QED
      BY <2>1, <2>2, <2>3, <2>4, <2>6
  <1>3. ASSUME WaitEnds PROVE Goal
    <2>1. /\ games' = games /\ tick' = tick /\ finished' = finished
          /\ loop = "wait" /\ loop' = "events" /\ waits > 0 /\ waits' = waits - 1
          /\ must_broadcast_sync' = FALSE
      BY <1>3 DEF WaitEnds, gameVars
    <2>2. waits \in Nat /\ games \in Nat /\ tick \in Nat
      OBVIOUS
    <2>3. waits' \in 0 .. games'
      BY <2>1, <2>2
    <2>4. waits' + 1 <= games' /\ tick' + waits' + 1 = tick + waits
      BY <2>1, <2>2
    <2>5. LoopType'
      BY <2>1, <2>3
    <2>6. Chains' <= games'
      BY <2>1, <2>4
    <2>7. finished => tick' + waits' + (IF loop' \in InRound THEN 1 ELSE 0)
                          <= MaxTick + games'
      <3> SUFFICES ASSUME finished PROVE tick' + waits' + 1 <= MaxTick + games'
        BY <2>1
      <3>1. tick + waits <= MaxTick + games
        BY <2>1
      <3> QED
        BY <2>1, <2>4, <3>1
    <2> QED
      BY <2>1, <2>5, <2>6, <2>7
  <1>4. ASSUME Round PROVE Goal
    <2>1. /\ loop \in InRound /\ loop' \in InRound
          /\ UNCHANGED <<games, tick, finished, waits>>
      BY <1>4 DEF Round, TakeFront, CompareTick, Due, ApplyEvent, PopEvent, gameVars
    <2>2. must_broadcast_sync' \in BOOLEAN
      BY <1>4 DEF Round, TakeFront, CompareTick, SyncNeeded, ApplyEvent, PopEvent
    <2> QED
      BY <2>1, <2>2
  <1>5. ASSUME ProcessTick PROVE Goal
    <2>1. /\ games' = games /\ waits' = waits /\ tick' = tick + 1
          /\ loop \in InRound /\ loop' = "end"
          /\ must_broadcast_sync' = must_broadcast_sync
      BY <1>5 DEF ProcessTick
    <2>2. /\ finished' \in BOOLEAN
          /\ finished => finished'
          /\ tick + 1 >= MaxTick => finished'
      BY <1>5 DEF ProcessTick
    <2>3. tick + waits + 1 <= MaxTick + games
      BY <2>1
    <2> QED
      BY <2>1, <2>2, <2>3
  <1>6. ASSUME EndRound PROVE Goal
    <2>1. /\ games' = games /\ tick' = tick /\ finished' = finished
          /\ loop = "end" /\ loop' = "wait"
          /\ must_broadcast_sync' = FALSE
      BY <1>6 DEF EndRound, gameVars
    <2>2. waits \in Nat /\ games \in Nat /\ waits + 1 <= games
      BY <2>1
    <2>3. CASE finished
      <3>1. waits' = waits
        BY <1>6, <2>3 DEF EndRound, Rearmed
      <3>2. tick + waits <= MaxTick + games
        BY <2>1, <2>3
      <3>3. LoopType'
        BY <2>1, <3>1
      <3>4. Chains' <= games' /\ tick' + waits' + 0 <= MaxTick + games'
        BY <2>1, <2>2, <3>1, <3>2
      <3> QED
        BY <2>1, <2>3, <3>3, <3>4
    <2>4. CASE ~finished
      <3>1. waits' = waits + 1
        BY <1>6, <2>4 DEF EndRound, Rearmed
      <3>2. waits' \in 0 .. games'
        BY <2>1, <2>2, <3>1
      <3>3. LoopType'
        BY <2>1, <3>2
      <3>4. Chains' <= games' /\ tick' < MaxTick
        BY <2>1, <2>2, <2>4, <3>1
      <3> QED
        BY <2>1, <2>4, <3>3, <3>4
    <2> QED
      BY <2>3, <2>4
  <1> HIDE DEF Goal
  <1>7. Goal
    BY <1>1, <1>2, <1>3, <1>4, <1>5, <1>6
       DEF Next, Loop, vars, ReceiveEvent, QueueEvent, StartGameCrashes
  <1> QED
    BY <1>7 DEF Goal

\* What is behind the front of a queue.
LEMMA FrontOfQueue ==
    ASSUME NEW q \in Seq(Stamped), q # <<>>
    PROVE  /\ Len(q) \in Nat \ {0} /\ Head(q) = q[1] /\ Head(q) \in Stamped
           /\ Tail(q) \in Seq(Stamped) /\ Len(Tail(q)) = Len(q) - 1
           /\ \A i \in 1 .. Len(q) - 1 : Tail(q)[i] = q[i + 1]
  OBVIOUS

\* The event in hand.
LEMMA EventInHand ==
    ASSUME TypeOK, evt # <<>>
    PROVE  /\ evt[1] \in Stamped
           /\ [evt |-> evt[1], at |-> tick] \in Applied
  <1>1. PICK s \in Stamped : evt = <<s>>
    BY DEF TypeOK
  <1> QED
    BY <1>1 DEF TypeOK, Applied

\* Every step keeps the types.
LEMMA NextType ==
    TypeOK /\ TickBound /\ HasEvent /\ [Next]_vars => TypeOK' /\ TickBound' /\ HasEvent'
  <1> SUFFICES ASSUME TypeOK, TickBound, HasEvent, [Next]_vars
               PROVE  TypeOK' /\ TickBound' /\ HasEvent'
    OBVIOUS
  <1>1. LoopType' /\ TickBound'
    BY NextBound DEF TypeOK, LoopType
  <1> DEFINE SeqType == /\ crashed \in BOOLEAN
                        /\ overlapped \in BOOLEAN
                        /\ evt_queue \in Seq(Stamped)
                        /\ stamped \in {<<>>} \cup {<<s>> : s \in Stamped}
                        /\ evt \in {<<>>} \cup {<<s>> : s \in Stamped}
                        /\ HasEvent
                        /\ accepted \in Seq(Stamped)
                        /\ applied \in Seq(Applied)
                        /\ synced \in 0 .. Len(applied)
  <1>2. SeqType
    BY DEF TypeOK
  <1>3. ASSUME UNCHANGED <<crashed, evt_queue, stamped, evt, loop, history>> PROVE SeqType'
    BY <1>2, <1>3 DEF history, HasEvent
  <1>4. ASSUME NEW e \in Evts, ReceiveEvent(e) PROVE SeqType'
    <2>1. Stamp(e) \in Stamped
      <3>1. games \in 1 .. MaxGames
        BY <1>4 DEF ReceiveEvent, TypeOK
      <3> QED
        BY <3>1 DEF Stamp, Stamped, TypeOK
    <2> QED
      BY <1>2, <1>4, <2>1 DEF ReceiveEvent, history, loopVars, HasEvent
  <1>5. ASSUME QueueEvent PROVE SeqType'
    <2>1. PICK s \in Stamped : stamped = <<s>>
      BY <1>2, <1>5 DEF QueueEvent
    <2>2. /\ evt_queue \o <<s>> \in Seq(Stamped)
          /\ accepted \o <<s>> \in Seq(Stamped)
      BY <1>2
    <2> QED
      BY <1>2, <1>5, <2>1, <2>2 DEF QueueEvent, loopVars, HasEvent
  <1>6. ASSUME StartGame PROVE SeqType'
    BY <1>2, <1>6 DEF StartGame, NewGame, QueueOfNewGame, HasEvent
  <1>7. ASSUME StartGameCrashes PROVE SeqType'
    BY <1>2, <1>7 DEF StartGameCrashes, history, loopVars, HasEvent
  <1>8. ASSUME Round PROVE SeqType'
    <2>1. CASE TakeFront
      <3>1. Head(evt_queue) \in Stamped /\ evt' = <<Head(evt_queue)>>
        BY <1>2, <2>1, FrontOfQueue DEF TakeFront
      <3>2. evt' # <<>> /\ evt' \in {<<s>> : s \in Stamped}
        BY <3>1
      <3> QED
        BY <1>2, <2>1, <3>2 DEF TakeFront, history, HasEvent
    <2>2. CASE CompareTick
      BY <1>2, <2>2 DEF CompareTick, Due, history, HasEvent
    <2>3. CASE ApplyEvent
      <3>1. [evt |-> evt[1], at |-> tick] \in Applied
        BY <1>2, <2>3, EventInHand DEF ApplyEvent, HasEvent
      <3> QED
        BY <1>2, <2>3, <3>1 DEF ApplyEvent, HasEvent
    <2>4. CASE PopEvent
      BY <1>2, <2>4, FrontOfQueue DEF PopEvent, history, HasEvent
    <2> QED
      BY <1>8, <2>1, <2>2, <2>3, <2>4 DEF Round
  <1>9. ASSUME EndRound PROVE SeqType'
    <2>1. Len(applied) \in Nat
      BY <1>2
    <2> QED
      BY <1>2, <1>9, <2>1 DEF EndRound, HasEvent
  <1>10. ASSUME WaitEnds PROVE SeqType'
    BY <1>2, <1>10 DEF WaitEnds, history, HasEvent
  <1>11. ASSUME ProcessTick PROVE SeqType'
    BY <1>2, <1>11 DEF ProcessTick, history, HasEvent
  <1> HIDE DEF SeqType
  <1>12. SeqType'
    BY <1>3, <1>4, <1>5, <1>6, <1>7, <1>8, <1>9, <1>10, <1>11 DEF Next, Loop, vars, loopVars
  <1> QED
    BY <1>1, <1>12 DEF LoopType, TypeOK, SeqType

\* Every reachable state has its types, and the tick stays within its bound
\* although a restart may leave a second chain of waits.
THEOREM TypeCorrect == Spec => []TypeOK
  <1> QED
    BY InitType, NextType, PTL DEF Spec

-----------------------------------------------------------------------------
(* One loop per group                                                       *)

\* Every step keeps the group at one loop, unless it restarts a running one.
LEMMA NextOneLoop ==
    ASSUME LoopType, OneLoop, [Next]_vars
    PROVE  OneLoop'
  <1> USE DEF OneLoop
  <1>1. ASSUME UNCHANGED <<waits, overlapped>>, loop = "wait" <=> loop' = "wait"
        PROVE  OneLoop'
    BY <1>1
  <1>2. ASSUME StartGame PROVE OneLoop'
    <2>1. /\ waits' = 1
          /\ loop # "wait" => overlapped'
          /\ loop = "wait" => loop' = "wait"
      BY <1>2 DEF StartGame, WaitsOfNewGame
    <2> QED
      BY <2>1
  <1>3. ASSUME WaitEnds PROVE OneLoop'
    <2>1. /\ waits' = waits - 1 /\ loop = "wait" /\ loop' = "events"
          /\ overlapped' = overlapped
      BY <1>3 DEF WaitEnds, history
    <2>2. waits \in Nat
      BY DEF LoopType
    <2> QED
      BY <2>1, <2>2
  <1>4. ASSUME EndRound PROVE OneLoop'
    <2>1. /\ waits' = waits \/ waits' = waits + 1
          /\ loop = "end" /\ loop' = "wait"
          /\ overlapped' = overlapped
      BY <1>4 DEF EndRound, Rearmed
    <2>2. waits \in Nat
      BY DEF LoopType
    <2> QED
      BY <2>1, <2>2
  <1> QED
    BY <1>1, <1>2, <1>3, <1>4
       DEF Next, Loop, vars, loopVars, history, ReceiveEvent, QueueEvent,
           StartGameCrashes, Round, TakeFront, CompareTick, Due, ApplyEvent, PopEvent,
           ProcessTick

\* A group has one loop, whatever the number of games it has played, unless
\* start_game met a running game_main_loop.
THEOREM LoopsOnce == Spec => []OneLoop
  <1>1. Init => OneLoop
    BY DEF Init, OneLoop
  <1>2. TypeOK => LoopType
    BY DEF TypeOK, LoopType
  <1>3. LoopType /\ OneLoop /\ [Next]_vars => OneLoop'
    BY NextOneLoop
  <1> QED
    BY <1>1, <1>2, <1>3, InitType, NextType, PTL DEF Spec

-----------------------------------------------------------------------------
(* Late events                                                              *)

\* The flag is only raised inside a round, and before the event it is raised
\* for is applied.
FlagIsOfRound ==
    /\ loop = "wait" => ~must_broadcast_sync
    /\ loop = "apply" /\ evt[1].tick < tick => must_broadcast_sync

\* Every step preserves LateEventIsSynced together with FlagIsOfRound.
LEMMA NextSynced ==
    ASSUME TypeOK, HasEvent, LateEventIsSynced, FlagIsOfRound, [Next]_vars
    PROVE  LateEventIsSynced' /\ FlagIsOfRound'
  <1> DEFINE Goal == LateEventIsSynced' /\ FlagIsOfRound'
  <1> USE DEF LateEventIsSynced, FlagIsOfRound
  <1>0. /\ applied \in Seq(Applied) /\ synced \in 0 .. Len(applied)
        /\ must_broadcast_sync \in BOOLEAN
    BY DEF TypeOK
  <1>1. ASSUME UNCHANGED <<tick, applied, synced, loopVars>> PROVE Goal
    BY <1>1 DEF loopVars
  <1>2. ASSUME StartGame PROVE Goal
    <2>1. applied' = <<>> /\ tick' = 0
      BY <1>2 DEF StartGame, NewGame
    <2>2. ASSUME loop' = "apply" PROVE ~(evt'[1].tick < tick')
      <3>1. evt' = evt /\ evt # <<>>
        BY <1>2, <2>2 DEF StartGame, HasEvent
      <3>2. evt[1] \in Stamped
        BY <3>1, EventInHand
      <3> QED
        BY <2>1, <3>1, <3>2 DEF Stamped, Ticks
    <2> QED
      BY <1>2, <2>1, <2>2 DEF StartGame
  <1>3. ASSUME WaitEnds PROVE Goal
    BY <1>3 DEF WaitEnds, history
  <1>4. ASSUME ApplyEvent PROVE Goal
    <2> DEFINE e == [evt |-> evt[1], at |-> tick]
    <2>1. e \in Applied
      BY <1>4, EventInHand DEF ApplyEvent, HasEvent
    <2>2. /\ applied' = Append(applied, e) /\ synced' = synced /\ loop' = "pop"
          /\ must_broadcast_sync' = must_broadcast_sync /\ loop = "apply"
      BY <1>4 DEF ApplyEvent
    <2>3. /\ must_broadcast_sync => must_broadcast_sync'
          /\ e.evt.tick < e.at => must_broadcast_sync'
      BY <2>2
    <2> HIDE DEF e
    <2>4. /\ Len(applied') = Len(applied) + 1
          /\ applied'[Len(applied) + 1] = e
          /\ \A i \in 1 .. Len(applied) : applied'[i] = applied[i]
      BY <1>0, <2>1, <2>2
    <2>5. ASSUME NEW i \in 1 .. Len(applied'), applied'[i].evt.tick < applied'[i].at
          PROVE  i <= synced' \/ must_broadcast_sync'
      <3>1. CASE i = Len(applied) + 1
        BY <2>3, <2>4, <2>5, <3>1
      <3>2. CASE i # Len(applied) + 1
        <4>1. i \in 1 .. Len(applied)
          BY <1>0, <2>4, <3>2
        <4> QED
          BY <2>2, <2>3, <2>4, <2>5, <4>1
      <3> QED
        BY <3>1, <3>2
    <2> QED
      BY <2>2, <2>5
  <1>5. ASSUME TakeFront \/ PopEvent \/ ProcessTick PROVE Goal
    BY <1>5 DEF TakeFront, PopEvent, ProcessTick, history
  <1>6. ASSUME EndRound PROVE Goal
    <2>1. /\ applied' = applied /\ must_broadcast_sync' = FALSE
          /\ synced' = IF must_broadcast_sync THEN Len(applied) ELSE synced
      BY <1>6 DEF EndRound
    <2>2. loop' = "wait"
      BY <1>6 DEF EndRound
    <2> QED
      BY <1>0, <2>1, <2>2
  <1>7. ASSUME CompareTick PROVE Goal
    <2>1. /\ UNCHANGED <<tick, evt, applied, synced>> /\ loop' = "apply"
          /\ must_broadcast_sync' = SyncNeeded
      BY <1>7 DEF CompareTick, gameVars, history
    <2>2. /\ must_broadcast_sync => must_broadcast_sync'
          /\ evt[1].tick < tick => must_broadcast_sync'
      BY <2>1 DEF SyncNeeded
    <2> QED
      BY <2>1, <2>2
  <1> HIDE DEF Goal
  <1>8. Goal
    BY <1>1, <1>2, <1>3, <1>4, <1>5, <1>6, <1>7
       DEF Next, Loop, Round, vars, gameVars, loopVars, history, ReceiveEvent, QueueEvent,
           StartGameCrashes
  <1> QED
    BY <1>8 DEF Goal

\* An event that was applied later than announced is part of a sync, or one is
\* about to be broadcast.
THEOREM LateIsSynced == Spec => []LateEventIsSynced
  <1>1. Init => LateEventIsSynced /\ FlagIsOfRound
    BY DEF Init, LateEventIsSynced, FlagIsOfRound
  <1>2. TypeOK /\ HasEvent /\ LateEventIsSynced /\ FlagIsOfRound /\ [Next]_vars
            => LateEventIsSynced' /\ FlagIsOfRound'
    BY NextSynced
  <1> QED
    BY <1>1, <1>2, InitType, NextType, PTL DEF Spec

-----------------------------------------------------------------------------
(* The queue of events                                                      *)

\* What is queued and not applied yet.
Rest == IF loop = "pop" THEN Tail(evt_queue) ELSE evt_queue

\* What was applied and what is to be applied, event by event.
Tally ==
    /\ Len(accepted) = Len(applied) + Len(Rest)
    /\ \A i \in 1 .. Len(applied) : accepted[i] = applied[i].evt
    /\ \A i \in 1 .. Len(Rest) : accepted[Len(applied) + i] = Rest[i]

\* The event in hand is in front of the queue until its pop.
InHand ==
    /\ loop \in {"compare", "apply", "pop"} => evt_queue # <<>>
    /\ loop \in {"compare", "apply"} => evt[1] = Head(evt_queue)

\* An event that is stamped and not yet queued is due as well.
StampIsDue == stamped # <<>> => stamped[1].tick <= tick

QueueInv ==
    /\ overlapped \/ (Tally /\ InHand)
    /\ QueueIsDue
    /\ StampIsDue

\* The two sequences that Tally compares.
LEMMA RestType ==
    ASSUME TypeOK, overlapped \/ InHand
    PROVE  /\ accepted \in Seq(Stamped) /\ applied \in Seq(Applied)
           /\ overlapped \/ Rest \in Seq(Stamped)
  BY FrontOfQueue DEF TypeOK, Rest, InHand

\* The tally of the events is InOrderOnce.
LEMMA TallyIsInOrder == TypeOK /\ QueueInv => InOrderOnce
  <1> SUFFICES ASSUME TypeOK, Tally, InHand, ~overlapped PROVE InOrderOnce
    BY DEF QueueInv, InOrderOnce
  <1> DEFINE done == [i \in 1 .. Len(applied) |-> applied[i].evt]
             r == Rest
  <1>1. /\ accepted \in Seq(Stamped) /\ r \in Seq(Stamped)
        /\ applied \in Seq(Applied)
    BY RestType
  <1>0. /\ Len(accepted) = Len(applied) + Len(r)
        /\ \A i \in 1 .. Len(applied) : accepted[i] = applied[i].evt
        /\ \A i \in 1 .. Len(r) : accepted[Len(applied) + i] = r[i]
    BY DEF Tally
  <1>2. \A i \in 1 .. Len(applied) : applied[i].evt \in Stamped
    <2>1. \A i \in 1 .. Len(applied) : applied[i] \in Applied
      BY <1>1
    <2> QED
      BY <2>1 DEF Applied
  <1>3. done \in Seq(Stamped) /\ Len(done) = Len(applied)
    BY <1>1, <1>2
  <1>4. \A i \in 1 .. Len(applied) : done[i] = applied[i].evt
    OBVIOUS
  <1> HIDE DEF done, r
  <1> DEFINE all == done \o r
  <1>5. /\ all \in Seq(Stamped) /\ Len(all) = Len(done) + Len(r)
        /\ \A i \in 1 .. Len(all) : all[i] = IF i <= Len(done) THEN done[i]
                                             ELSE r[i - Len(done)]
    BY <1>1, <1>3
  <1> HIDE DEF all
  <1>6. ASSUME NEW i \in 1 .. Len(accepted) PROVE accepted[i] = all[i]
    <2>1. CASE i <= Len(applied)
      <3>1. i \in 1 .. Len(applied) /\ i \in 1 .. Len(all)
        BY <1>0, <1>1, <1>3, <1>5, <1>6, <2>1
      <3>2. all[i] = done[i]
        BY <1>3, <1>5, <2>1, <3>1
      <3>3. accepted[i] = applied[i].evt
        BY <1>0, <3>1
      <3> QED
        BY <1>4, <3>1, <3>2, <3>3
    <2>2. CASE i > Len(applied)
      <3> DEFINE j == i - Len(applied)
      <3>1. j \in 1 .. Len(r) /\ i = Len(applied) + j
        BY <1>0, <1>1, <1>6, <2>2
      <3>2. all[i] = r[j]
        BY <1>0, <1>1, <1>3, <1>5, <2>2, <3>1
      <3> HIDE DEF j
      <3> QED
        BY <1>0, <3>1, <3>2
    <2> QED
      BY <1>1, <1>6, <2>1, <2>2
  <1>7. Len(accepted) = Len(all)
    BY <1>0, <1>3, <1>5
  <1>8. accepted = all
    BY <1>1, <1>5, <1>6, <1>7, SeqEqual
  <1> QED
    BY <1>8 DEF InOrderOnce, all, done, r, Rest

\* Every event of a queue is due.
DueBy(q, now) == \A i \in 1 .. Len(q) : q[i].tick <= now

\* An event that is due may join the queue.
LEMMA DueAfterAppend ==
    ASSUME NEW q \in Seq(Stamped), NEW s \in Stamped, NEW now, DueBy(q, now), s.tick <= now
    PROVE  DueBy(Append(q, s), now)
  <1>1. /\ Len(q) \in Nat /\ Len(Append(q, s)) = Len(q) + 1
        /\ Append(q, s)[Len(q) + 1] = s
        /\ \A i \in 1 .. Len(q) : Append(q, s)[i] = q[i]
    OBVIOUS
  <1> DEFINE a == Append(q, s)
  <1> HIDE DEF a
  <1>2. ASSUME NEW i \in 1 .. Len(a) PROVE a[i].tick <= now
    <2>1. CASE i = Len(q) + 1
      BY <1>1, <2>1 DEF a
    <2>2. CASE i # Len(q) + 1
      <3>1. i \in 1 .. Len(q)
        BY <1>1, <2>2 DEF a
      <3> QED
        BY <1>1, <3>1 DEF a, DueBy
    <2> QED
      BY <2>1, <2>2
  <1> QED
    BY <1>2 DEF a, DueBy

\* Queueing the stamped event.
LEMMA QueueEventKeeps ==
    ASSUME TypeOK, QueueInv, QueueEvent
    PROVE  QueueInv'
  <1>1. /\ accepted \in Seq(Stamped) /\ evt_queue \in Seq(Stamped)
        /\ Len(applied) \in Nat
    BY DEF TypeOK
  <1>2. PICK s \in Stamped : stamped = <<s>>
    BY DEF QueueEvent, TypeOK
  <1>3. /\ evt_queue' = Append(evt_queue, s) /\ accepted' = Append(accepted, s)
        /\ applied' = applied /\ tick' = tick /\ stamped' = <<>>
        /\ UNCHANGED <<loop, evt, overlapped>>
    BY <1>1, <1>2 DEF QueueEvent, gameVars, loopVars
  <1>4. s.tick <= tick
    BY <1>2, <1>3 DEF QueueInv, StampIsDue, QueueEvent
  <1>5. QueueIsDue'
    BY <1>1, <1>3, <1>4, DueAfterAppend DEF QueueInv, QueueIsDue, DueBy
  <1>6. ASSUME ~overlapped PROVE Tally' /\ InHand'
    <2> DEFINE r == Rest
    <2>1. Tally /\ InHand /\ r \in Seq(Stamped)
      BY <1>6, RestType DEF QueueInv
    <2>2. Rest' = Append(r, s)
      <3>1. CASE loop = "pop"
        <4>1. evt_queue # <<>>
          BY <2>1, <3>1 DEF InHand
        <4>2. Tail(Append(evt_queue, s)) = Append(Tail(evt_queue), s)
          BY <1>1, <4>1
        <4> QED
          BY <1>3, <3>1, <4>2 DEF Rest
      <3>2. CASE loop # "pop"
        BY <1>3, <3>2 DEF Rest
      <3> QED
        BY <3>1, <3>2
    <2>3. /\ Len(accepted) = Len(applied) + Len(r)
          /\ \A i \in 1 .. Len(applied) : accepted[i] = applied[i].evt
          /\ \A i \in 1 .. Len(r) : accepted[Len(applied) + i] = r[i]
      BY <2>1 DEF Tally
    <2> HIDE DEF r
    <2>4. /\ Len(r) \in Nat /\ Len(Rest') = Len(r) + 1 /\ Rest'[Len(r) + 1] = s
          /\ \A i \in 1 .. Len(r) : Rest'[i] = r[i]
      BY <2>1, <2>2
    <2>5. /\ Len(accepted') = Len(accepted) + 1
          /\ accepted'[Len(accepted) + 1] = s
          /\ \A i \in 1 .. Len(accepted) : accepted'[i] = accepted[i]
      BY <1>1, <1>3
    <2>6. ASSUME NEW i \in 1 .. Len(applied') PROVE accepted'[i] = applied'[i].evt
      BY <1>1, <1>3, <2>3, <2>4, <2>5, <2>6
    <2>7. ASSUME NEW i \in 1 .. Len(Rest') PROVE accepted'[Len(applied') + i] = Rest'[i]
      <3>1. CASE i = Len(r) + 1
        BY <1>1, <1>3, <2>3, <2>4, <2>5, <3>1
      <3>2. CASE i # Len(r) + 1
        <4>1. i \in 1 .. Len(r) /\ Len(applied) + i \in 1 .. Len(accepted)
          BY <1>1, <2>3, <2>4, <3>2
        <4> QED
          BY <1>3, <2>3, <2>4, <2>5, <4>1
      <3> QED
        BY <3>1, <3>2
    <2>8. Len(accepted') = Len(applied') + Len(Rest')
      BY <1>1, <1>3, <2>3, <2>4, <2>5
    <2>9. Tally'
      BY <2>6, <2>7, <2>8 DEF Tally
    <2>10. InHand'
      <3>1. evt_queue' # <<>>
        BY <1>1, <1>3
      <3>2. evt_queue # <<>> => Head(evt_queue') = Head(evt_queue)
        BY <1>1, <1>3
      <3> QED
        BY <1>3, <2>1, <3>1, <3>2 DEF InHand
    <2> QED
      BY <2>9, <2>10
  <1> QED
    BY <1>3, <1>5, <1>6 DEF QueueInv, StampIsDue

\* Applying the event in hand.
LEMMA ApplyEventKeeps ==
    ASSUME TypeOK, HasEvent, QueueInv, ApplyEvent
    PROVE  QueueInv'
  <1> DEFINE e == [evt |-> evt[1], at |-> tick]
             q == evt_queue
  <1>1. /\ accepted \in Seq(Stamped) /\ applied \in Seq(Applied) /\ q \in Seq(Stamped)
    BY DEF TypeOK
  <1>2. e \in Applied
    BY EventInHand DEF ApplyEvent, HasEvent
  <1>3. /\ applied' = Append(applied, e) /\ evt_queue' = evt_queue /\ overlapped' = overlapped
        /\ accepted' = accepted /\ tick' = tick /\ stamped' = stamped
        /\ loop = "apply" /\ loop' = "pop"
    BY DEF ApplyEvent, gameVars
  <1>4. e.evt = evt[1]
    OBVIOUS
  <1> HIDE DEF e
  <1>5. /\ Len(applied') = Len(applied) + 1
        /\ applied'[Len(applied) + 1] = e
        /\ \A i \in 1 .. Len(applied) : applied'[i] = applied[i]
        /\ Len(applied) \in Nat
    BY <1>1, <1>2, <1>3
  <1>6. ASSUME ~overlapped PROVE Tally' /\ InHand'
    <2>1. Tally /\ q # <<>> /\ evt[1] = Head(q) /\ Rest = q /\ Rest' = Tail(q)
      BY <1>3, <1>6 DEF QueueInv, InHand, Rest
    <2>2. /\ Len(accepted) = Len(applied) + Len(q)
          /\ \A i \in 1 .. Len(applied) : accepted[i] = applied[i].evt
          /\ \A i \in 1 .. Len(q) : accepted[Len(applied) + i] = q[i]
      BY <2>1 DEF Tally
    <2> HIDE DEF q
    <2>3. /\ Len(q) \in Nat \ {0} /\ Head(q) = q[1]
          /\ Len(Tail(q)) = Len(q) - 1
          /\ \A i \in 1 .. Len(q) - 1 : Tail(q)[i] = q[i + 1]
      BY <1>1, <2>1, FrontOfQueue
    <2>4. Len(accepted') = Len(applied') + Len(Rest')
      BY <1>3, <1>5, <2>1, <2>2, <2>3
    <2>5. ASSUME NEW i \in 1 .. Len(applied') PROVE accepted'[i] = applied'[i].evt
      <3>1. CASE i = Len(applied) + 1
        BY <1>3, <1>4, <1>5, <2>1, <2>2, <2>3, <3>1
      <3>2. CASE i # Len(applied) + 1
        <4>1. i \in 1 .. Len(applied)
          BY <1>5, <3>2
        <4> QED
          BY <1>3, <1>5, <2>2, <4>1
      <3> QED
        BY <3>1, <3>2
    <2>6. ASSUME NEW i \in 1 .. Len(Rest') PROVE accepted'[Len(applied') + i] = Rest'[i]
      <3>1. i + 1 \in 1 .. Len(q) /\ i \in 1 .. Len(q) - 1
        BY <2>1, <2>3
      <3>2. Rest'[i] = q[i + 1]
        BY <2>1, <2>3, <3>1
      <3>3. accepted[Len(applied) + (i + 1)] = q[i + 1]
        BY <2>2, <3>1
      <3>4. Len(applied') + i = Len(applied) + (i + 1)
        BY <1>5, <3>1
      <3> QED
        BY <1>3, <3>2, <3>3, <3>4
    <2>7. InHand'
      BY <1>3, <2>1 DEF InHand, q
    <2> QED
      BY <2>4, <2>5, <2>6, <2>7 DEF Tally
  <1> QED
    BY <1>3, <1>6 DEF QueueInv, QueueIsDue, StampIsDue

\* The pop of what is in front.
LEMMA PopEventKeeps ==
    ASSUME TypeOK, QueueInv, PopEvent
    PROVE  QueueInv'
  <1>1. /\ UNCHANGED <<tick, stamped, evt, overlapped, accepted, applied>>
        /\ loop = "pop" /\ loop' = "events"
        /\ evt_queue' = IF evt_queue = <<>> THEN evt_queue ELSE Tail(evt_queue)
    BY DEF PopEvent, gameVars, history
  <1>2. QueueIsDue'
    <2>1. CASE evt_queue = <<>>
      BY <1>1, <2>1 DEF QueueIsDue
    <2>2. CASE evt_queue # <<>>
      <3>1. evt_queue' = Tail(evt_queue) /\ evt_queue \in Seq(Stamped)
        BY <1>1, <2>2 DEF TypeOK
      <3>2. /\ Len(evt_queue) \in Nat \ {0} /\ Len(evt_queue') = Len(evt_queue) - 1
            /\ \A i \in 1 .. Len(evt_queue) - 1 : evt_queue'[i] = evt_queue[i + 1]
        BY <2>2, <3>1, FrontOfQueue
      <3>3. ASSUME NEW i \in 1 .. Len(evt_queue') PROVE evt_queue'[i].tick <= tick'
        <4>1. i + 1 \in 1 .. Len(evt_queue) /\ i \in 1 .. Len(evt_queue) - 1
          BY <3>2
        <4> QED
          BY <1>1, <3>2, <4>1 DEF QueueInv, QueueIsDue
      <3> QED
        BY <3>3 DEF QueueIsDue
    <2> QED
      BY <2>1, <2>2
  <1>3. ASSUME ~overlapped PROVE Tally' /\ InHand'
    <2>1. Tally /\ evt_queue # <<>>
      BY <1>1, <1>3 DEF QueueInv, InHand
    <2>2. Rest' = Rest
      BY <1>1, <2>1 DEF Rest
    <2> QED
      BY <1>1, <2>1, <2>2 DEF Tally, InHand
  <1> QED
    BY <1>1, <1>2, <1>3 DEF QueueInv, StampIsDue

\* Every step preserves QueueInv.
LEMMA NextQueue == TypeOK /\ HasEvent /\ QueueInv /\ [Next]_vars => QueueInv'
  <1> SUFFICES ASSUME TypeOK, HasEvent, QueueInv, [Next]_vars PROVE QueueInv'
    OBVIOUS
  <1> USE DEF QueueInv, Tally, InHand, Rest, QueueIsDue, StampIsDue
  <1>1. ASSUME UNCHANGED <<tick, evt_queue, stamped, overlapped, accepted, applied>>,
               UNCHANGED <<loop, evt>> \/ (loop' \in {"events", "wait"} /\ loop # "pop")
        PROVE  QueueInv'
    BY <1>1
  <1>2. ASSUME NEW e \in Evts, ReceiveEvent(e) PROVE QueueInv'
    <2>1. /\ UNCHANGED <<tick, evt_queue, loop, evt, overlapped, accepted, applied>>
          /\ stamped' = <<[evt |-> e, tick |-> tick, game |-> games]>>
      BY <1>2 DEF ReceiveEvent, Stamp, gameVars, loopVars, history
    <2>2. stamped'[1].tick = tick /\ tick \in Nat
      BY <2>1 DEF TypeOK, Ticks
    <2> QED
      BY <2>1, <2>2
  <1>3. ASSUME StartGame PROVE QueueInv'
    <2>1. /\ evt_queue' = <<>> /\ accepted' = <<>> /\ applied' = <<>> /\ stamped' = <<>>
          /\ loop # "wait" => overlapped'
          /\ loop = "wait" => loop' = "wait"
      BY <1>3 DEF StartGame, NewGame, QueueOfNewGame
    <2> QED
      BY <2>1
  <1>4. ASSUME TakeFront \/ CompareTick PROVE QueueInv'
    <2>1. /\ UNCHANGED <<tick, evt_queue, stamped, overlapped, accepted, applied>>
          /\ loop # "pop" /\ loop' # "pop"
      BY <1>4 DEF TakeFront, CompareTick, Due, gameVars, history
    <2>2. InHand \/ overlapped => InHand' \/ overlapped
      BY <1>4, <2>1 DEF TakeFront, CompareTick, Due
    <2> QED
      BY <2>1, <2>2
  <1>5. ASSUME ProcessTick PROVE QueueInv'
    <2>1. /\ UNCHANGED <<evt_queue, stamped, overlapped, accepted, applied>>
          /\ tick' = tick + 1 /\ loop # "pop" /\ loop' = "end"
      BY <1>5 DEF ProcessTick, history
    <2>2. \A q \in Stamped : q.tick \in Nat
      BY DEF Stamped, Ticks
    <2>3. \A i \in 1 .. Len(evt_queue) : evt_queue[i].tick \in Nat
      <3>1. \A i \in 1 .. Len(evt_queue) : evt_queue[i] \in Stamped
        BY DEF TypeOK
      <3> QED
        BY <2>2, <3>1
    <2>4. stamped # <<>> => stamped[1].tick \in Nat
      <3> SUFFICES ASSUME stamped # <<>> PROVE stamped[1].tick \in Nat
        OBVIOUS
      <3>1. PICK q \in Stamped : stamped = <<q>>
        BY DEF TypeOK
      <3> QED
        BY <2>2, <3>1
    <2>5. tick \in Nat
      BY DEF TypeOK, Ticks
    <2> QED
      BY <2>1, <2>3, <2>4, <2>5
  <1> HIDE DEF QueueInv, Tally, InHand, Rest, QueueIsDue, StampIsDue
  <1>6. ASSUME StartGameCrashes \/ WaitEnds \/ EndRound PROVE QueueInv'
    BY <1>1, <1>6 DEF gameVars, loopVars, history, StartGameCrashes, WaitEnds, EndRound
  <1>7. ASSUME UNCHANGED vars PROVE QueueInv'
    BY <1>1, <1>7 DEF vars, gameVars, loopVars, history
  <1> QED
    BY <1>2, <1>3, <1>4, <1>5, <1>6, <1>7, QueueEventKeeps, ApplyEventKeeps, PopEventKeeps
       DEF Next, Loop, Round

\* The facts about the queue that hold of every game.
LEMMA QueueFacts == Spec => [](TypeOK /\ QueueInv)
  <1>1. Init => QueueInv
    BY DEF Init, QueueInv, Tally, InHand, Rest, QueueIsDue, StampIsDue
  <1> QED
    BY <1>1, InitType, NextType, NextQueue, PTL DEF Spec

\* A game applies its events once each and in the order they were accepted,
\* unless start_game met a running game_main_loop.
THEOREM InOrder == Spec => []InOrderOnce
  <1>1. TypeOK /\ QueueInv => InOrderOnce
    BY TallyIsInOrder
  <1> QED
    BY <1>1, QueueFacts, PTL

\* No event of the queue is ahead of the tick.
THEOREM NeverAhead == Spec => []QueueIsDue
  <1>1. TypeOK /\ QueueInv => QueueIsDue
    BY DEF QueueInv
  <1> QED
    BY <1>1, QueueFacts, PTL

-----------------------------------------------------------------------------
(* Events of the game before                                                *)

\* What is stamped or queued is of this game.  So is the event in hand, unless
\* start_game met the round that has it, and then nothing was applied since.
EventsAreOfGame ==
    /\ \A i \in 1 .. Len(evt_queue) : evt_queue[i].game = games
    /\ stamped # <<>> => stamped[1].game = games
    /\ evt # <<>> => loop \in {"compare", "apply"}
    /\ evt # <<>> /\ evt[1].game # games => overlapped /\ applied = <<>>

\* The event that ReceiveEvent has stamped goes to the end of the queue.
LEMMA QueuedIsOfGame ==
    ASSUME TypeOK, EventsAreOfGame, QueueEvent
    PROVE  \A i \in 1 .. Len(evt_queue') : evt_queue'[i].game = games
  <1>1. PICK s \in Stamped : stamped = <<s>>
    BY DEF QueueEvent, TypeOK
  <1>2. evt_queue \in Seq(Stamped) /\ evt_queue' = evt_queue \o <<s>>
    BY <1>1 DEF QueueEvent, TypeOK
  <1>3. s.game = games
    BY <1>1 DEF EventsAreOfGame
  <1>4. /\ Len(evt_queue') = Len(evt_queue) + 1
        /\ evt_queue'[Len(evt_queue) + 1] = s
        /\ \A i \in 1 .. Len(evt_queue) : evt_queue'[i] = evt_queue[i]
    BY <1>2
  <1> SUFFICES ASSUME NEW i \in 1 .. Len(evt_queue') PROVE evt_queue'[i].game = games
    OBVIOUS
  <1>5. CASE i = Len(evt_queue) + 1
    BY <1>3, <1>4, <1>5
  <1>6. CASE i # Len(evt_queue) + 1
    <2>1. i \in 1 .. Len(evt_queue)
      BY <1>2, <1>4, <1>6
    <2> QED
      BY <1>4, <2>1 DEF EventsAreOfGame
  <1> QED
    BY <1>5, <1>6

\* An event that is applied is of this game, or the first one.
LEMMA AppliedIsOfGame ==
    ASSUME TypeOK, HasEvent, EventsAreOfGame, OldEventIsFirst, ApplyEvent
    PROVE  OldEventIsFirst'
  <1> DEFINE e == [evt |-> evt[1], at |-> tick]
  <1>1. e \in Applied
    BY EventInHand DEF ApplyEvent, HasEvent
  <1>2. /\ applied' = Append(applied, e) /\ applied \in Seq(Applied)
        /\ UNCHANGED <<games, overlapped>>
    BY DEF ApplyEvent, TypeOK, gameVars
  <1>3. e.evt.game # games => overlapped /\ Len(applied) = 0
    BY DEF EventsAreOfGame, HasEvent, ApplyEvent
  <1> HIDE DEF e
  <1>4. /\ Len(applied') = Len(applied) + 1
        /\ applied'[Len(applied) + 1] = e
        /\ \A i \in 1 .. Len(applied) : applied'[i] = applied[i]
    BY <1>1, <1>2
  <1>5. ASSUME NEW i \in 1 .. Len(applied'), applied'[i].evt.game # games
        PROVE  overlapped /\ i = 1
    <2>1. CASE i = Len(applied) + 1
      BY <1>3, <1>4, <1>5, <2>1
    <2>2. CASE i # Len(applied) + 1
      <3>1. i \in 1 .. Len(applied)
        BY <1>2, <1>4, <2>2
      <3> QED
        BY <1>4, <1>5, <3>1 DEF OldEventIsFirst
    <2> QED
      BY <2>1, <2>2
  <1> QED
    BY <1>2, <1>5 DEF OldEventIsFirst

\* Every step preserves OldEventIsFirst together with EventsAreOfGame.
LEMMA NextOldEvents ==
    ASSUME TypeOK, HasEvent, EventsAreOfGame, OldEventIsFirst, [Next]_vars
    PROVE  EventsAreOfGame' /\ OldEventIsFirst'
  <1> DEFINE Goal == EventsAreOfGame' /\ OldEventIsFirst'
  <1>1. ASSUME UNCHANGED <<games, evt_queue, stamped, evt, overlapped, applied>>,
               loop' = loop \/ evt = <<>>
        PROVE  Goal
    BY <1>1 DEF EventsAreOfGame, OldEventIsFirst
  <1>2. ASSUME NEW e \in Evts, ReceiveEvent(e) PROVE Goal
    <2>1. /\ UNCHANGED <<games, evt_queue, loop, evt, overlapped, applied>>
          /\ stamped' = <<[evt |-> e, tick |-> tick, game |-> games]>>
      BY <1>2 DEF ReceiveEvent, Stamp, gameVars, loopVars, history
    <2>2. stamped'[1].game = games
      BY <2>1
    <2> QED
      BY <2>1, <2>2 DEF EventsAreOfGame, OldEventIsFirst
  <1>3. ASSUME QueueEvent PROVE Goal
    <2>1. /\ UNCHANGED <<games, loop, evt, overlapped, applied>> /\ stamped' = <<>>
      BY <1>3 DEF QueueEvent, gameVars, loopVars
    <2> QED
      BY <1>3, <2>1, QueuedIsOfGame DEF EventsAreOfGame, OldEventIsFirst
  <1>4. ASSUME StartGame PROVE Goal
    <2>1. /\ evt_queue' = <<>> /\ applied' = <<>> /\ stamped' = <<>>
          /\ evt' = <<>> \/ (evt' = evt /\ loop' = loop)
          /\ overlapped' = (overlapped \/ loop # "wait")
      BY <1>4 DEF StartGame, NewGame, QueueOfNewGame
    <2>2. evt' # <<>> => loop' \in {"compare", "apply"} /\ overlapped'
      BY <2>1 DEF EventsAreOfGame
    <2>3. Len(evt_queue') = 0 /\ Len(applied') = 0
      BY <2>1
    <2> QED
      BY <2>1, <2>2, <2>3 DEF EventsAreOfGame, OldEventIsFirst
  <1>5. ASSUME TakeFront PROVE Goal
    <2>1. /\ UNCHANGED <<games, evt_queue, stamped, overlapped, applied>>
          /\ evt_queue # <<>> /\ evt' = <<Head(evt_queue)>> /\ loop' = "compare"
      BY <1>5 DEF TakeFront, gameVars, history
    <2>2. evt'[1] = evt_queue[1] /\ 1 \in 1 .. Len(evt_queue)
      BY <2>1 DEF TypeOK
    <2> QED
      BY <2>1, <2>2 DEF EventsAreOfGame, OldEventIsFirst
  <1>6. ASSUME CompareTick PROVE Goal
    BY <1>6 DEF CompareTick, gameVars, history, EventsAreOfGame, OldEventIsFirst
  <1>7. ASSUME ApplyEvent PROVE Goal
    <2>1. EventsAreOfGame'
      BY <1>7 DEF ApplyEvent, gameVars, EventsAreOfGame
    <2> QED
      BY <1>7, <2>1, AppliedIsOfGame
  <1>8. ASSUME PopEvent PROVE Goal
    <2>1. UNCHANGED <<games, stamped, evt, overlapped, applied>> /\ evt = <<>>
      BY <1>8 DEF PopEvent, gameVars, history, EventsAreOfGame
    <2>2. \A i \in 1 .. Len(evt_queue') : evt_queue'[i].game = games
      <3>1. CASE evt_queue' = evt_queue
        BY <3>1 DEF EventsAreOfGame
      <3>2. CASE evt_queue # <<>> /\ evt_queue' = Tail(evt_queue)
        <4>1. evt_queue \in Seq(Stamped)
          BY DEF TypeOK
        <4>2. \A i \in 1 .. Len(evt_queue') :
                  i + 1 \in 1 .. Len(evt_queue) /\ evt_queue'[i] = evt_queue[i + 1]
          BY <3>2, <4>1
        <4> QED
          BY <4>2 DEF EventsAreOfGame
      <3> QED
        BY <1>8, <3>1, <3>2 DEF PopEvent
    <2> QED
      BY <2>1, <2>2 DEF EventsAreOfGame, OldEventIsFirst
  <1>9. ASSUME ProcessTick PROVE Goal
    BY <1>9 DEF ProcessTick, history, EventsAreOfGame, OldEventIsFirst
  <1>10. ASSUME StartGameCrashes \/ WaitEnds \/ EndRound PROVE Goal
    <2>1. UNCHANGED <<games, evt_queue, stamped, evt, overlapped, applied>>
      BY <1>10 DEF StartGameCrashes, WaitEnds, EndRound, gameVars, loopVars, history
    <2>2. loop' = loop \/ evt = <<>>
      BY <1>10 DEF StartGameCrashes, WaitEnds, EndRound, loopVars, EventsAreOfGame
    <2> QED
      BY <1>1, <2>1, <2>2
  <1>11. ASSUME UNCHANGED vars PROVE Goal
    BY <1>1, <1>11 DEF vars, gameVars, loopVars, history
  <1> HIDE DEF Goal
  <1>12. Goal
    BY <1>2, <1>3, <1>4, <1>5, <1>6, <1>7, <1>8, <1>9, <1>10, <1>11 DEF Next, Loop, Round
  <1> QED
    BY <1>12 DEF Goal

\* No game applies an event of the one before it but, first of all, the one that a
\* running game_main_loop had in hand when start_game met it.
THEOREM OldEventsComeFirst == Spec => []OldEventIsFirst
  <1>1. Init => EventsAreOfGame /\ OldEventIsFirst
    BY DEF Init, EventsAreOfGame, OldEventIsFirst
  <1>2. TypeOK /\ HasEvent /\ EventsAreOfGame /\ OldEventIsFirst /\ [Next]_vars
            => EventsAreOfGame' /\ OldEventIsFirst'
    BY NextOldEvents
  <1> QED
    BY <1>1, <1>2, InitType, NextType, PTL DEF Spec
=============================================================================
