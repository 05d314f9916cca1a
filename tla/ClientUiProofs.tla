----------------------------- MODULE ClientUiProofs -----------------------------
(****************************************************************************)
(* Proofs about ClientUi, for every application: any stages, inputs, keys,  *)
(* windows and fingers.                                                     *)
(****************************************************************************)
EXTENDS ClientUi, WellFoundedInduction, TLAPS

-----------------------------------------------------------------------------
(* The stage of an engine                                                   *)

StageFields == {"stages", "active_stage_id", "must_run_on_enter_stage", "active_input",
                "entered", "redirected"}

IsEngine(e) == StageFields \subseteq DOMAIN e

\* What a method leaves alone that has nothing to do with stages.
SameStage(e, d) ==
    /\ IsEngine(d)
    /\ d.stages = e.stages
    /\ d.active_stage_id = e.active_stage_id
    /\ d.must_run_on_enter_stage = e.must_run_on_enter_stage
    /\ d.active_input = e.active_input
    /\ d.entered = e.entered
    /\ d.redirected = e.redirected

\* The invariant of an engine: StageInSync, and the active stage was created.  A
\* stage that another's on_enter_stage made active is not waiting for its own.
InputInSync(e) == e.active_input # NoInput => OwnerOf[e.active_input] = e.active_stage_id
Awaited(e) ==
    \/ (e.must_run_on_enter_stage \/ e.entered) /\ InputInSync(e)
    \/ e.redirected
InSync(e) ==
    /\ IsEngine(e)
    /\ e.stages \subseteq Creatable
    /\ e.active_stage_id \in e.stages
    /\ e.active_input \in Inputs \cup {NoInput}
    /\ Awaited(e)
    /\ e.redirected => ~e.must_run_on_enter_stage

LEMMA SameStageKeepsSync ==
    \A e, d : SameStage(e, d) /\ InSync(e) => InSync(d)
  BY DEF SameStage, InSync, Awaited, InputInSync

LEMMA SetActiveTouchKeysSame ==
    \A e, t : IsEngine(e) => SameStage(e, SetActiveTouchKeys(e, t))
  BY DEF IsEngine, StageFields, SameStage, SetActiveTouchKeys

LEMMA SetButtonsSame ==
    \A e, pad : IsEngine(e) => SameStage(e, SetButtons(e, pad))
  BY DEF IsEngine, StageFields, SameStage, SetButtons

\* What a handler makes of an engine that is in sync.
Handled(e, d) ==
    /\ InSync(d)
    /\ d.redirected => e.redirected
    /\ d.entered => d.active_stage_id = e.active_stage_id

LEMMA SetStageHandled == \A e, s : InSync(e) => Handled(e, SetStage(e, s))
  <1> SUFFICES ASSUME NEW e, NEW s, InSync(e) PROVE Handled(e, SetStage(e, s))
    OBVIOUS
  <1>1. CASE s \in e.stages \cup Creatable
    <2> DEFINE d == Activated(e, s)
    <2>1. /\ IsEngine(d) /\ d.stages = e.stages \cup {s} /\ d.active_stage_id = s
          /\ d.must_run_on_enter_stage = TRUE /\ d.active_input = NoInput
          /\ d.entered = FALSE /\ d.redirected = FALSE
      BY DEF InSync, IsEngine, StageFields, Activated
    <2>2. SetStage(e, s) = d
      BY <1>1 DEF SetStage
    <2> HIDE DEF d
    <2>3. e.stages \cup {s} \subseteq Creatable
      BY <1>1 DEF InSync
    <2>4. Awaited(d)
      BY <2>1 DEF Awaited, InputInSync
    <2>5. InSync(d)
      BY <2>1, <2>3, <2>4 DEF InSync
    <2> QED
      BY <2>1, <2>2, <2>5 DEF Handled
  <1>2. CASE s \notin e.stages \cup Creatable
    <2>1. SetStage(e, s) = e
      BY <1>2 DEF SetStage
    <2> QED
      BY <2>1 DEF Handled
  <1> QED
    BY <1>1, <1>2

\* A handler of a stage keeps the engine in sync, if the stage is the active one
\* or this one was made active by an on_enter_stage.
LEMMA StageHandlerInSync ==
    \A e, s : InSync(e) /\ (s = e.active_stage_id \/ e.redirected) =>
        \A d \in StageHandler(e, s) : Handled(e, d)
  <1> SUFFICES ASSUME NEW e, NEW s, InSync(e), s = e.active_stage_id \/ e.redirected,
                      NEW d \in StageHandler(e, s)
               PROVE  Handled(e, d)
    OBVIOUS
  <1>1. CASE d = e
    BY <1>1 DEF Handled
  <1>2. ASSUME NEW r \in Stages, d = SetStage(e, r) PROVE Handled(e, d)
    BY <1>2, SetStageHandled
  <1>3. ASSUME NEW pad \in Pads, d = SetButtons(e, pad) PROVE Handled(e, d)
    <2>1. SameStage(e, d)
      BY <1>3, SetButtonsSame DEF InSync
    <2> QED
      BY <2>1, SameStageKeepsSync DEF Handled, SameStage
  <1>4. ASSUME NEW i \in Inputs \cup {NoInput}, i = NoInput \/ OwnerOf[i] = s, d = [e EXCEPT !.active_input = i]
        PROVE  Handled(e, d)
    <2>1. /\ IsEngine(d) /\ d.stages = e.stages /\ d.active_stage_id = e.active_stage_id
          /\ d.must_run_on_enter_stage = e.must_run_on_enter_stage
          /\ d.active_input = i /\ d.entered = e.entered /\ d.redirected = e.redirected
      BY <1>4 DEF InSync, IsEngine, StageFields
    <2>2. Awaited(d)
      BY <1>4, <2>1 DEF InSync, InputInSync, Awaited
    <2>3. InSync(d)
      BY <2>1, <2>2 DEF InSync
    <2> QED
      BY <2>1, <2>3 DEF Handled
  <1> QED
    BY <1>1, <1>2, <1>3, <1>4 DEF StageHandler

-----------------------------------------------------------------------------
(* Events                                                                   *)

LEMMA OtherInSync == \A e : InSync(e) => \A d \in OnOtherEvent(e) : InSync(d)
  BY StageHandlerInSync DEF OnOtherEvent, Handled

LEMMA KeyDownInSync == \A e, k : InSync(e) => \A d \in OnKeyDown(e, k) : InSync(d)
  <1> SUFFICES ASSUME NEW e, NEW k, InSync(e), NEW d \in OnKeyDown(e, k) PROVE InSync(d)
    OBVIOUS
  <1> DEFINE b == [e EXCEPT !.keys = @ \cup {Bound(k)}]
  <1>1. SameStage(e, b)
    BY DEF InSync, IsEngine, StageFields, SameStage
  <1>2. d \in OnOtherEvent(b)
    BY DEF OnKeyDown
  <1> HIDE DEF b
  <1> QED
    BY <1>1, <1>2, SameStageKeepsSync, OtherInSync

LEMMA KeyUpInSync == \A e, k : InSync(e) => \A d \in OnKeyUp(e, k) : InSync(d)
  <1> SUFFICES ASSUME NEW e, NEW k, InSync(e), NEW d \in OnKeyUp(e, k) PROVE InSync(d)
    OBVIOUS
  <1> DEFINE b == [e EXCEPT !.keys = @ \ {Bound(k)}, !.cleared = @ \ {Bound(k)},
                            !.lost = @ \cap UNION {FingersOn(e, t) : t \in Sets}]
  <1>1. SameStage(e, b)
    BY DEF InSync, IsEngine, StageFields, SameStage
  <1>2. d \in OnOtherEvent(b)
    BY DEF OnKeyUp
  <1> HIDE DEF b
  <1> QED
    BY <1>1, <1>2, SameStageKeepsSync, OtherInSync

LEMMA TouchBeginInSync == \A e, p : InSync(e) => \A d \in OnTouchBegin(e, p) : InSync(d)
  <1> SUFFICES ASSUME NEW e, NEW p, InSync(e), NEW d \in OnTouchBegin(e, p) PROVE InSync(d)
    OBVIOUS
  <1>1. \A t : InSync(SetActiveTouchKeys(e, t))
    BY SetActiveTouchKeysSame, SameStageKeepsSync DEF InSync
  <1>2. d \in OnOtherEvent(e) \/ \E t : d \in OnOtherEvent(SetActiveTouchKeys(e, t))
    BY DEF OnTouchBegin
  <1> QED
    BY <1>1, <1>2, OtherInSync

\* Pressing and releasing buttons, arranging them, and losing a touch.
LEMMA ButtonsSame ==
    \A e, h, a, l : IsEngine(e) =>
        /\ SameStage(e, [e EXCEPT !.held = h])
        /\ SameStage(e, [e EXCEPT !.areas = a])
        /\ SameStage(e, [e EXCEPT !.lost = l])
  BY DEF IsEngine, StageFields, SameStage

\* on_enter_stage, and the flag that is cleared after it.
LEMMA EnterStageInSync ==
    \A e : InSync(e) /\ e.must_run_on_enter_stage =>
        \A x \in EnterStage(e) :
            InSync(x) /\ (x.active_stage_id = e.active_stage_id \/ x.redirected)
  <1> SUFFICES ASSUME NEW e, InSync(e), e.must_run_on_enter_stage, NEW x \in EnterStage(e)
               PROVE  InSync(x) /\ (x.active_stage_id = e.active_stage_id \/ x.redirected)
    OBVIOUS
  <1> DEFINE b == [e EXCEPT !.entered = TRUE]
  <1>1. /\ IsEngine(b) /\ b.stages = e.stages /\ b.active_stage_id = e.active_stage_id
        /\ b.must_run_on_enter_stage = e.must_run_on_enter_stage
        /\ b.active_input = e.active_input /\ b.entered = TRUE
        /\ b.redirected = e.redirected
    BY DEF InSync, IsEngine, StageFields
  <1>2. PICK d \in StageHandler(b, e.active_stage_id) :
            x = [d EXCEPT !.must_run_on_enter_stage = FALSE, !.redirected = ~d.entered]
    BY DEF EnterStage
  <1> HIDE DEF b
  <1>3. InSync(b) /\ ~b.redirected
    BY <1>1 DEF InSync, Awaited, InputInSync
  <1>4. Handled(b, d)
    BY <1>1, <1>2, <1>3, StageHandlerInSync
  <1>5. InSync(d) /\ ~d.redirected /\ (d.entered => d.active_stage_id = e.active_stage_id)
    BY <1>1, <1>3, <1>4 DEF Handled
  <1>6. /\ IsEngine(x) /\ x.stages = d.stages /\ x.active_stage_id = d.active_stage_id
        /\ x.must_run_on_enter_stage = FALSE /\ x.active_input = d.active_input
        /\ x.entered = d.entered /\ x.redirected = ~d.entered
    BY <1>2, <1>5 DEF InSync, IsEngine, StageFields
  <1>7. Awaited(x)
    BY <1>5, <1>6 DEF InSync, Awaited, InputInSync
  <1>8. InSync(x)
    BY <1>5, <1>6, <1>7 DEF InSync
  <1> QED
    BY <1>5, <1>6, <1>8

\* Every step keeps the engine in sync.
LEMMA NextInSync ==
    ASSUME InSync(engine), [Next]_vars
    PROVE  InSync(engine')
  <1>0. IsEngine(engine)
    BY DEF InSync
  <1>1. CASE engine' = engine
    BY <1>1
  <1>2. ASSUME NEW f \in Fingers, NEW p \in Points, TouchBegins(f, p) PROVE InSync(engine')
    <2>1. ASSUME NEW h, NEW e, e = [engine EXCEPT !.held = h] PROVE InSync(e)
      BY <1>0, <2>1, ButtonsSame, SameStageKeepsSync
    <2>2. \/ engine' \in OnTouchBegin(engine, p)
          \/ \E h, t : engine' = SetActiveTouchKeys([engine EXCEPT !.held = h], t)
          \/ \E h, k : \E e \in OnOtherEvent([engine EXCEPT !.held = h]) :
                 engine' \in OnKeyDown(e, k)
      BY <1>2 DEF TouchBegins
    <2>3. CASE engine' \in OnTouchBegin(engine, p)
      BY <2>3, TouchBeginInSync
    <2>4. ASSUME NEW h, NEW t, engine' = SetActiveTouchKeys([engine EXCEPT !.held = h], t)
          PROVE  InSync(engine')
      BY <2>1, <2>4, SetActiveTouchKeysSame, SameStageKeepsSync DEF InSync
    <2>5. ASSUME NEW h, NEW k, NEW e \in OnOtherEvent([engine EXCEPT !.held = h]),
                 engine' \in OnKeyDown(e, k)
          PROVE  InSync(engine')
      BY <2>1, <2>5, OtherInSync, KeyDownInSync
    <2> QED
      BY <2>2, <2>3, <2>4, <2>5
  <1>3. ASSUME NEW f \in Fingers, TouchEnds(f) PROVE InSync(engine')
    <2>1. \/ engine' \in OnOtherEvent(engine)
          \/ \E h, k : engine' \in OnKeyUp([engine EXCEPT !.held = h], k)
      BY <1>3 DEF TouchEnds
    <2>2. CASE engine' \in OnOtherEvent(engine)
      BY <2>2, OtherInSync
    <2>3. ASSUME NEW h, NEW k, engine' \in OnKeyUp([engine EXCEPT !.held = h], k)
          PROVE  InSync(engine')
      <3>1. InSync([engine EXCEPT !.held = h])
        BY <1>0, ButtonsSame, SameStageKeepsSync
      <3> QED
        BY <2>3, <3>1, KeyUpInSync
    <2> QED
      BY <2>1, <2>2, <2>3
  <1>4. ASSUME NEW f \in Fingers, TouchIsCancelled(f) PROVE InSync(engine')
    <2>1. \E l : engine' = [engine EXCEPT !.lost = l]
      BY <1>4 DEF TouchIsCancelled
    <2> QED
      BY <1>0, <2>1, ButtonsSame, SameStageKeepsSync
  <1>5. ASSUME NEW k \in KeysOfHardware, KeyDown(k) \/ KeyUp(k) PROVE InSync(engine')
    BY <1>5, KeyDownInSync, KeyUpInSync DEF KeyDown, KeyUp
  <1>6. CASE OtherEvent
    BY <1>6, OtherInSync DEF OtherEvent
  <1>7. ASSUME NEW w \in Windows, Resize(w) PROVE InSync(engine')
    <2>1. \E a : engine' = [engine EXCEPT !.areas = a]
      BY <1>7 DEF Resize
    <2> QED
      BY <1>0, <2>1, ButtonsSame, SameStageKeepsSync
  <1>8. CASE RunTick
    <2>1. PICK e \in IF engine.must_run_on_enter_stage THEN EnterStage(engine) ELSE {engine} :
              engine' \in StageHandler(e, engine.active_stage_id)
      BY <1>8 DEF RunTick
    <2>2. CASE ~engine.must_run_on_enter_stage
      <3>1. e = engine
        BY <2>1, <2>2
      <3> QED
        BY <2>1, <3>1, StageHandlerInSync DEF Handled
    <2>3. CASE engine.must_run_on_enter_stage
      <3>1. e \in EnterStage(engine)
        BY <2>1, <2>3
      <3>2. InSync(e) /\ (e.active_stage_id = engine.active_stage_id \/ e.redirected)
        BY <2>3, <3>1, EnterStageInSync
      <3> QED
        BY <2>1, <3>2, StageHandlerInSync DEF Handled
    <2> QED
      BY <2>2, <2>3
  <1> QED
    BY <1>1, <1>2, <1>3, <1>4, <1>5, <1>6, <1>7, <1>8 DEF Next, HandleEvent, LoopEnds, vars

LEMMA InitInSync == Init => InSync(engine)
  <1> SUFFICES ASSUME Init PROVE InSync(engine)
    OBVIOUS
  <1>1. /\ IsEngine(engine) /\ engine.stages = {FirstStage}
        /\ engine.active_stage_id = FirstStage /\ engine.must_run_on_enter_stage = TRUE
        /\ engine.active_input = NoInput /\ engine.redirected = FALSE
    BY DEF Init, IsEngine, StageFields
  <1> QED
    BY <1>1, StagesAssumption DEF InSync, Awaited, InputInSync

LEMMA InSyncTheorem == Spec => []InSync(engine)
  <1>1. InSync(engine) /\ [Next]_vars => InSync(engine)'
    BY NextInSync
  <1> QED
    BY <1>1, InitInSync, PTL DEF Spec

-----------------------------------------------------------------------------
(* The buttons of an engine, and the keys that are down                     *)

\* The layout of the application's buttons.
LayoutOfPad(pad) == FitButtons(pad.side, pad.size, Len(pad.keys))

LEMMA LayoutsOfPadsFit ==
    ASSUME LayoutsFit
    PROVE  /\ \A pad \in Pads : Arranged(LayoutOfPad(pad), pad.keys)
           /\ \A w \in Windows : ReArrange(LayoutOfPad(NoPad), w) = <<>>
  <1>1. Len(NoPad.keys) = 0
    BY DEF NoPad
  <1> QED
    BY <1>1 DEF LayoutsFit, LayoutOfPad

ButtonFields == {"keys", "active_touch_keys", "pad", "held", "areas", "lost", "cleared"}

\* The types of the buttons.
Shape(e) ==
    /\ ButtonFields \subseteq DOMAIN e
    /\ e.active_touch_keys \in Sets
    /\ e.pad \in Pads \cup {NoPad}
    /\ DOMAIN e.held = Sets /\ DOMAIN e.areas = Sets
    /\ \A t \in Sets :
           /\ DOMAIN e.held[t] = DOMAIN KeysOf(e, t)
           /\ \A i \in DOMAIN e.held[t] : e.held[t][i] \in Fingers \cup {NoFinger}
           /\ DOMAIN e.areas[t] = DOMAIN KeysOf(e, t)
    /\ e.lost \subseteq Fingers

\* The areas of the active set are those of the window w.
Placed(e, w) ==
    e.areas[e.active_touch_keys] = ReArrange(LayoutOf(e, e.active_touch_keys), w)

\* A button is pressed by one of the touches T, or by one that was lost.
Live(e, T) ==
    \A t \in Sets : \A i \in DOMAIN e.held[t] :
        e.held[t][i] \in T \cup e.lost \cup {NoFinger}

\* A touch that was not lost presses a button of the active set, and only one.
Single(e) ==
    \A t \in Sets : \A i \in DOMAIN e.held[t] :
        e.held[t][i] \notin e.lost \cup {NoFinger} =>
            /\ t = e.active_touch_keys
            /\ \A j \in DOMAIN e.held[t] : e.held[t][j] = e.held[t][i] => j = i

Buttons(e, T, w) == Shape(e) /\ Placed(e, w) /\ Live(e, T) /\ Single(e) /\ T \subseteq Fingers

\* Why a key is down, with touches T and keys Y of the hardware.
Justified(e, k, T, Y) ==
    \/ \E h \in Y : Bound(h) = k
    \/ \E t \in Sets : \E i \in DOMAIN e.held[t] :
           Bound(KeysOf(e, t)[i]) = k /\ e.held[t][i] \in T \cup e.lost
    \/ k \in e.cleared

\* The keys that are down are among K, all of which are justified.
Down(e, T, Y, K) == e.keys \subseteq K /\ \A k \in K : Justified(e, k, T, Y)

LEMMA DownOfFewer ==
    \A e, T, Y, K : Down(e, T, Y, K) => Down(e, T, Y, e.keys)
  BY DEF Down

SameButtons(e, d) ==
    /\ ButtonFields \subseteq DOMAIN d
    /\ d.active_touch_keys = e.active_touch_keys
    /\ d.pad = e.pad
    /\ d.held = e.held
    /\ d.areas = e.areas
    /\ d.lost = e.lost
    /\ d.cleared = e.cleared

LEMMA SameButtonsKeep ==
    \A e, d : SameButtons(e, d) =>
        /\ \A T, w : Buttons(e, T, w) => Buttons(d, T, w)
        /\ \A T, Y, K : Down(e, T, Y, K) /\ d.keys \subseteq K => Down(d, T, Y, K)
  <1> SUFFICES ASSUME NEW e, NEW d, SameButtons(e, d)
               PROVE  /\ \A T, w : Buttons(e, T, w) => Buttons(d, T, w)
                      /\ \A T, Y, K : Down(e, T, Y, K) /\ d.keys \subseteq K => Down(d, T, Y, K)
    OBVIOUS
  <1>1. \A t : KeysOf(d, t) = KeysOf(e, t) /\ LayoutOf(d, t) = LayoutOf(e, t)
    BY DEF SameButtons, KeysOf, LayoutOf
  <1>2. Shape(e) => Shape(d)
    BY <1>1 DEF SameButtons, Shape
  <1>3. \A w : Placed(e, w) => Placed(d, w)
    BY <1>1 DEF SameButtons, Placed
  <1>4. (\A T : Live(e, T) => Live(d, T)) /\ (Single(e) => Single(d))
    BY DEF SameButtons, Live, Single
  <1>5. \A T, Y, k : Justified(e, k, T, Y) => Justified(d, k, T, Y)
    BY <1>1 DEF SameButtons, Justified
  <1>6. \A T, Y, K : Down(e, T, Y, K) /\ d.keys \subseteq K => Down(d, T, Y, K)
    BY <1>5 DEF Down
  <1> QED
    BY <1>2, <1>3, <1>4, <1>6 DEF Buttons

\* More touches.
LEMMA MoreTouches ==
    \A e, T, Y, K, w : \A f \in Fingers :
        /\ Buttons(e, T, w) => Buttons(e, T \cup {f}, w)
        /\ Down(e, T, Y, K) => Down(e, T \cup {f}, Y, K)
  <1>1. \A e, T, f : Live(e, T) => Live(e, T \cup {f})
    BY DEF Live
  <1>2. \A e, k, T, Y, f : Justified(e, k, T, Y) => Justified(e, k, T \cup {f}, Y)
    BY DEF Justified
  <1>3. \A e, T, Y, K, f : Down(e, T, Y, K) => Down(e, T \cup {f}, Y, K)
    BY <1>2 DEF Down
  <1>4. \A e, T, w : \A f \in Fingers : Buttons(e, T, w) => Buttons(e, T \cup {f}, w)
    <2> SUFFICES ASSUME NEW e, NEW T, NEW w, NEW f \in Fingers, Buttons(e, T, w)
                 PROVE  Buttons(e, T \cup {f}, w)
      OBVIOUS
    <2> QED
      BY <1>1 DEF Buttons
  <1> QED
    BY <1>3, <1>4

\* An arrangement gives a touch one button at most.
LEMMA OneHit ==
    ASSUME LayoutsFit, NEW e, NEW T, NEW w \in Windows, Buttons(e, T, w), NEW p \in Points,
           NEW i \in Hit(e, p), NEW j \in Hit(e, p)
    PROVE  i = j
  <1> DEFINE t == e.active_touch_keys
             areas == e.areas[t]
  <1>1. /\ t \in Sets /\ areas = ReArrange(LayoutOf(e, t), w)
        /\ DOMAIN areas = DOMAIN KeysOf(e, t) /\ e.pad \in Pads \cup {NoPad}
    BY DEF Buttons, Shape, Placed
  <1>2. i \in DOMAIN areas /\ j \in DOMAIN areas /\ InArea(p, areas[i]) /\ InArea(p, areas[j])
    BY DEF Hit
  <1> HIDE DEF areas
  <1>3. KeysOf(e, t) \in {Keyboard.keys} \cup {pad.keys : pad \in Pads}
    <2>1. DOMAIN NoPad.keys = {}
      BY DEF NoPad
    <2>2. t = "touch_keys" => e.pad # NoPad
      BY <1>1, <1>2, <2>1 DEF KeysOf
    <2> QED
      BY <1>1, <2>2 DEF KeysOf, Sets
  <1>4. i \in Int /\ j \in Int
    <2>1. DOMAIN KeysOf(e, t) = 1 .. Len(KeysOf(e, t)) /\ Len(KeysOf(e, t)) \in Nat
      BY <1>3, KeysAssumption
    <2> QED
      BY <1>1, <1>2, <2>1
  <1>5. /\ \A k \in DOMAIN areas : /\ areas[k].x \in Int /\ areas[k].y \in Int
                                   /\ areas[k].w \in Int /\ areas[k].h \in Int
        /\ Fits(areas, w)
    <2>1. CASE t = "kb_touch_keys"
      BY <1>1, <2>1 DEF LayoutsFit, Arranged, LayoutOf
    <2>2. CASE t = "touch_keys"
      <3>1. LayoutOf(e, t) = LayoutOfPad(e.pad)
        BY <2>2 DEF LayoutOf, LayoutOfPad
      <3>2. e.pad \in Pads
        <4>1. DOMAIN NoPad.keys = {}
          BY DEF NoPad
        <4> QED
          BY <1>1, <1>2, <2>2, <4>1 DEF KeysOf
      <3> QED
        BY <1>1, <3>1, <3>2, LayoutsOfPadsFit DEF Arranged
    <2> QED
      BY <1>1, <2>1, <2>2 DEF Sets
  <1>6. p.x \in Int /\ p.y \in Int
    BY PointsAssumption
  <1>7. \A k, l \in DOMAIN areas : k < l =>
           \/ areas[k].x + areas[k].w <= areas[l].x
           \/ areas[k].y + areas[k].h <= areas[l].y
    BY <1>5 DEF Fits
  <1>8. ASSUME NEW k \in DOMAIN areas, NEW l \in DOMAIN areas, k < l,
               InArea(p, areas[k]), InArea(p, areas[l])
        PROVE  FALSE
    BY <1>5, <1>6, <1>7, <1>8 DEF InArea
  <1>9. ~(i < j) /\ ~(j < i)
    BY <1>2, <1>8
  <1> QED
    BY <1>4, <1>9

-----------------------------------------------------------------------------
(* What the methods do to them                                              *)

\* SetButtons, field by field.
ButtonsSet(e, pad, d) ==
    /\ ButtonFields \subseteq DOMAIN d /\ d.keys = e.keys
    /\ d.active_touch_keys = e.active_touch_keys /\ d.pad = pad
    /\ d.held = [e.held EXCEPT !["touch_keys"] = Unpressed(pad.keys)]
    /\ d.areas = [e.areas EXCEPT !["touch_keys"] = ReArrange(LayoutOfPad(pad), window)]
    /\ d.lost = e.lost \cap FingersOn(e, "kb_touch_keys")
    /\ d.cleared = e.cleared \cup
           {Bound(e.pad.keys[i]) :
               i \in {j \in DOMAIN e.pad.keys : e.held["touch_keys"][j] # NoFinger}}

LEMMA SetButtonsFields == \A e, pad : Shape(e) => ButtonsSet(e, pad, SetButtons(e, pad))
  BY DEF SetButtons, Shape, ButtonFields, LayoutOfPad, ButtonsSet

\* clear_buttons and add_button: the touches of the old buttons are forgotten, and
\* a key that one of them held down is cleared.
LEMMA SetButtonsKeeps ==
    ASSUME LayoutsFit, NEW e, NEW T, NEW Y, NEW K, window \in Windows,
           Buttons(e, T, window), Down(e, T, Y, K), NEW pad \in Pads
    PROVE  /\ Buttons(SetButtons(e, pad), T, window)
           /\ Down(SetButtons(e, pad), T, Y, K)
  <1> DEFINE d == SetButtons(e, pad)
             tk == "touch_keys"
             kb == "kb_touch_keys"
  <1>1. Shape(e) /\ Placed(e, window) /\ Live(e, T) /\ Single(e) /\ T \subseteq Fingers
    BY DEF Buttons
  <1>2. /\ ButtonFields \subseteq DOMAIN d /\ d.keys = e.keys
        /\ d.active_touch_keys = e.active_touch_keys /\ d.pad = pad
        /\ d.held = [e.held EXCEPT ![tk] = Unpressed(pad.keys)]
        /\ d.areas = [e.areas EXCEPT ![tk] = ReArrange(LayoutOfPad(pad), window)]
        /\ d.lost = e.lost \cap FingersOn(e, kb)
        /\ d.cleared = e.cleared \cup
               {Bound(e.pad.keys[i]) :
                   i \in {j \in DOMAIN e.pad.keys : e.held[tk][j] # NoFinger}}
    BY <1>1, SetButtonsFields DEF ButtonsSet
  <1> HIDE DEF d
  <1>3. /\ DOMAIN e.held = Sets /\ DOMAIN e.areas = Sets
        /\ e.active_touch_keys \in Sets /\ e.lost \subseteq Fingers
        /\ \A t \in Sets :
               /\ DOMAIN e.held[t] = DOMAIN KeysOf(e, t)
               /\ \A i \in DOMAIN e.held[t] : e.held[t][i] \in Fingers \cup {NoFinger}
               /\ DOMAIN e.areas[t] = DOMAIN KeysOf(e, t)
    BY <1>1 DEF Shape
  <1>4. /\ DOMAIN d.held = Sets /\ DOMAIN d.areas = Sets
        /\ d.held[tk] = Unpressed(pad.keys) /\ d.held[kb] = e.held[kb]
        /\ d.areas[tk] = ReArrange(LayoutOfPad(pad), window) /\ d.areas[kb] = e.areas[kb]
    BY <1>2, <1>3 DEF Sets
  <1>5. /\ DOMAIN d.held[tk] = DOMAIN pad.keys
        /\ \A i \in DOMAIN d.held[tk] : d.held[tk][i] = NoFinger
    BY <1>4 DEF Unpressed
  <1>6. KeysOf(d, tk) = pad.keys /\ KeysOf(d, kb) = KeysOf(e, kb) /\ KeysOf(e, tk) = e.pad.keys
    BY <1>2 DEF KeysOf
  <1>7. \A t \in Sets : t = tk \/ t = kb
    BY DEF Sets
  <1>8. DOMAIN d.areas[tk] = DOMAIN pad.keys
    BY <1>4, LayoutsOfPadsFit DEF Arranged
  <1>9. Shape(d)
    <2>1. \A t \in Sets :
               /\ DOMAIN d.held[t] = DOMAIN KeysOf(d, t)
               /\ \A i \in DOMAIN d.held[t] : d.held[t][i] \in Fingers \cup {NoFinger}
               /\ DOMAIN d.areas[t] = DOMAIN KeysOf(d, t)
      <3>1. kb \in Sets
        BY DEF Sets
      <3> QED
        BY <1>3, <1>4, <1>5, <1>6, <1>7, <1>8, <3>1
    <2> QED
      BY <1>2, <1>3, <1>4, <2>1 DEF Shape
  <1>10. Placed(d, window)
    <2>1. CASE e.active_touch_keys = tk
      BY <1>2, <1>4, <2>1 DEF Placed, LayoutOf, LayoutOfPad
    <2>2. CASE e.active_touch_keys = kb
      BY <1>1, <1>2, <1>4, <2>2 DEF Placed, LayoutOf
    <2> QED
      BY <1>3, <1>7, <2>1, <2>2
  <1>11. \A i \in DOMAIN e.held[kb] : e.held[kb][i] \in e.lost => e.held[kb][i] \in d.lost
    <2>1. NoFinger \notin e.lost
      BY <1>3, FingersAssumption
    <2> QED
      BY <1>2, <2>1 DEF FingersOn
  <1>12. kb \in Sets /\ tk \in Sets
    BY DEF Sets
  <1>13. Live(d, T)
    <2>1. \A i \in DOMAIN d.held[kb] : d.held[kb][i] \in T \cup d.lost \cup {NoFinger}
      BY <1>1, <1>4, <1>11, <1>12 DEF Live
    <2> QED
      BY <1>5, <1>7, <2>1 DEF Live
  <1>14. Single(d)
    <2> SUFFICES ASSUME NEW t \in Sets, NEW i \in DOMAIN d.held[t],
                        d.held[t][i] \notin d.lost \cup {NoFinger}
                 PROVE  /\ t = d.active_touch_keys
                        /\ \A j \in DOMAIN d.held[t] : d.held[t][j] = d.held[t][i] => j = i
      BY DEF Single
    <2>1. t = kb
      BY <1>5, <1>7
    <2>2. i \in DOMAIN e.held[kb] /\ e.held[kb][i] \notin e.lost \cup {NoFinger}
      BY <1>4, <1>11, <2>1
    <2> QED
      BY <1>1, <1>2, <1>4, <1>12, <2>1, <2>2 DEF Single
  <1>15. ASSUME NEW k, Justified(e, k, T, Y) PROVE Justified(d, k, T, Y)
    <2>1. CASE \E h \in Y : Bound(h) = k
      BY <2>1 DEF Justified
    <2>2. CASE k \in e.cleared
      BY <1>2, <2>2 DEF Justified
    <2>3. ASSUME NEW i \in DOMAIN e.held[kb], Bound(KeysOf(e, kb)[i]) = k,
                 e.held[kb][i] \in T \cup e.lost
          PROVE  Justified(d, k, T, Y)
      <3>1. e.held[kb][i] \in T \cup d.lost
        BY <1>11, <2>3
      <3> QED
        BY <1>4, <1>6, <1>12, <2>3, <3>1 DEF Justified
    <2>4. ASSUME NEW i \in DOMAIN e.held[tk], Bound(KeysOf(e, tk)[i]) = k,
                 e.held[tk][i] \in T \cup e.lost
          PROVE  Justified(d, k, T, Y)
      <3>1. e.held[tk][i] # NoFinger
        BY <1>1, <1>3, <2>4, FingersAssumption
      <3>2. i \in DOMAIN e.pad.keys
        BY <1>3, <1>6, <1>12
      <3>3. k \in d.cleared
        BY <1>2, <1>6, <2>4, <3>1, <3>2
      <3> QED
        BY <3>3 DEF Justified
    <2> QED
      BY <1>7, <1>15, <2>1, <2>2, <2>3, <2>4 DEF Justified
  <1>16. Down(d, T, Y, K)
    BY <1>2, <1>15 DEF Down
  <1> QED
    BY <1>1, <1>2, <1>9, <1>10, <1>13, <1>14, <1>16 DEF Buttons, d

\* Each key of the sets has its place in every window.
LEMMA PlaceForEach ==
    ASSUME LayoutsFit, NEW e, Shape(e), NEW t \in Sets, NEW w \in Windows
    PROVE  DOMAIN ReArrange(LayoutOf(e, t), w) = DOMAIN KeysOf(e, t)
  <1>1. CASE t = "kb_touch_keys"
    BY <1>1 DEF LayoutsFit, Arranged, LayoutOf, KeysOf
  <1>2. CASE t = "touch_keys"
    <2>1. LayoutOf(e, t) = LayoutOfPad(e.pad) /\ KeysOf(e, t) = e.pad.keys
      BY <1>2 DEF LayoutOf, LayoutOfPad, KeysOf
    <2>2. CASE e.pad \in Pads
      BY <2>1, <2>2, LayoutsOfPadsFit DEF Arranged
    <2>3. CASE e.pad = NoPad
      <3>1. NoPad.keys = <<>>
        BY DEF NoPad
      <3> QED
        BY <2>1, <2>3, <3>1, LayoutsOfPadsFit
    <2> QED
      BY <2>2, <2>3 DEF Shape
  <1> QED
    BY <1>1, <1>2 DEF Sets

\* set_active_touch_keys: the touches on the set that is left are lost.
LEMMA SetActiveTouchKeysKeeps ==
    ASSUME LayoutsFit, NEW e, NEW T, NEW Y, NEW K, window \in Windows,
           Buttons(e, T, window), Down(e, T, Y, K), NEW t \in Sets
    PROVE  /\ Buttons(SetActiveTouchKeys(e, t), T, window)
           /\ Down(SetActiveTouchKeys(e, t), T, Y, K)
  <1> DEFINE d == SetActiveTouchKeys(e, t)
             a == e.active_touch_keys
  <1>1. Shape(e) /\ Placed(e, window) /\ Live(e, T) /\ Single(e) /\ T \subseteq Fingers
    BY DEF Buttons
  <1>2. /\ ButtonFields \subseteq DOMAIN d /\ d.keys = e.keys
        /\ d.active_touch_keys = t /\ d.pad = e.pad /\ d.held = e.held
        /\ d.areas = [e.areas EXCEPT ![t] = ReArrange(LayoutOf(e, t), window)]
        /\ d.lost = e.lost \cup FingersOn(e, a)
        /\ d.cleared = e.cleared
    BY <1>1 DEF SetActiveTouchKeys, Shape, ButtonFields
  <1> HIDE DEF d
  <1>3. /\ DOMAIN e.held = Sets /\ DOMAIN e.areas = Sets
        /\ a \in Sets /\ e.lost \subseteq Fingers /\ e.pad \in Pads \cup {NoPad}
        /\ \A u \in Sets :
               /\ DOMAIN e.held[u] = DOMAIN KeysOf(e, u)
               /\ \A i \in DOMAIN e.held[u] : e.held[u][i] \in Fingers \cup {NoFinger}
               /\ DOMAIN e.areas[u] = DOMAIN KeysOf(e, u)
    BY <1>1 DEF Shape
  <1>4. \A u : KeysOf(d, u) = KeysOf(e, u) /\ LayoutOf(d, u) = LayoutOf(e, u)
    BY <1>2 DEF KeysOf, LayoutOf
  <1>5. /\ DOMAIN d.areas = Sets /\ d.areas[t] = ReArrange(LayoutOf(e, t), window)
        /\ \A u \in Sets \ {t} : d.areas[u] = e.areas[u]
    BY <1>2, <1>3
  <1>6. DOMAIN d.areas[t] = DOMAIN KeysOf(e, t)
    BY <1>1, <1>5, PlaceForEach
  <1>7. d.lost \subseteq Fingers
    BY <1>2, <1>3 DEF FingersOn
  <1>8. Shape(d)
    <2>1. \A u \in Sets : DOMAIN d.areas[u] = DOMAIN KeysOf(d, u)
      BY <1>3, <1>4, <1>5, <1>6
    <2> QED
      BY <1>2, <1>3, <1>4, <1>5, <1>7, <2>1 DEF Shape
  <1>9. Placed(d, window)
    BY <1>2, <1>4, <1>5 DEF Placed
  <1>10. Live(d, T)
    BY <1>1, <1>2 DEF Live
  <1>11. Single(d)
    <2> SUFFICES ASSUME NEW u \in Sets, NEW i \in DOMAIN e.held[u],
                        e.held[u][i] \notin d.lost \cup {NoFinger}
                 PROVE  FALSE
      BY <1>2 DEF Single
    <2>1. u = a
      BY <1>1, <1>2 DEF Single
    <2>2. e.held[u][i] \in FingersOn(e, a)
      BY <2>1 DEF FingersOn
    <2> QED
      BY <1>2, <2>2
  <1>12. ASSUME NEW k, Justified(e, k, T, Y) PROVE Justified(d, k, T, Y)
    BY <1>2, <1>4, <1>12 DEF Justified
  <1>13. Down(d, T, Y, K)
    BY <1>2, <1>12 DEF Down
  <1> QED
    BY <1>1, <1>2, <1>8, <1>9, <1>10, <1>11, <1>13 DEF Buttons, d

\* All of it, for an engine and what may become of it.
Keeps(e, d) ==
    \A T, Y, K : Buttons(e, T, window) /\ Down(e, T, Y, K) =>
                     Buttons(d, T, window) /\ Down(d, T, Y, K)

LEMMA StageHandlerKeeps ==
    ASSUME LayoutsFit, window \in Windows, NEW e, Shape(e), NEW s, NEW d \in StageHandler(e, s)
    PROVE  Keeps(e, d)
  <1>1. CASE d = e
    BY <1>1 DEF Keeps
  <1>2. ASSUME SameButtons(e, d), d.keys = e.keys PROVE Keeps(e, d)
    BY <1>2, SameButtonsKeep DEF Keeps, Down
  <1>3. ASSUME NEW r \in Stages, d = SetStage(e, r) PROVE Keeps(e, d)
    <2>1. SameButtons(e, Activated(e, r)) /\ Activated(e, r).keys = e.keys
      BY DEF Shape, SameButtons, ButtonFields, Activated
    <2> QED
      BY <1>1, <1>2, <1>3, <2>1 DEF SetStage
  <1>4. ASSUME NEW pad \in Pads, d = SetButtons(e, pad) PROVE Keeps(e, d)
    BY <1>4, SetButtonsKeeps DEF Keeps
  <1>5. ASSUME NEW i, d = [e EXCEPT !.active_input = i] PROVE Keeps(e, d)
    <2>1. SameButtons(e, d) /\ d.keys = e.keys
      BY <1>5 DEF Shape, SameButtons, ButtonFields
    <2> QED
      BY <1>2, <2>1
  <1> QED
    BY <1>1, <1>3, <1>4, <1>5 DEF StageHandler

\* A key goes down: it is one of those that are justified.
LEMMA KeyDownKeeps ==
    ASSUME LayoutsFit, window \in Windows, NEW e, NEW T, NEW Y, NEW K, NEW k,
           Buttons(e, T, window), Down(e, T, Y, K), Bound(k) \in K, NEW d \in OnKeyDown(e, k)
    PROVE  Buttons(d, T, window) /\ Down(d, T, Y, K)
  <1> DEFINE b == [e EXCEPT !.keys = @ \cup {Bound(k)}]
  <1>1. SameButtons(e, b) /\ b.keys = e.keys \cup {Bound(k)}
    BY DEF Buttons, Shape, SameButtons, ButtonFields
  <1>2. d \in StageHandler(b, b.active_stage_id)
    BY DEF OnKeyDown, OnOtherEvent
  <1> HIDE DEF b
  <1>3. b.keys \subseteq K
    BY <1>1 DEF Down
  <1>4. Buttons(b, T, window) /\ Down(b, T, Y, K)
    BY <1>1, <1>3, SameButtonsKeep
  <1>5. Shape(b)
    BY <1>4 DEF Buttons
  <1>6. Keeps(b, d)
    BY <1>2, <1>5, StageHandlerKeeps
  <1> QED
    BY <1>4, <1>6 DEF Keeps

\* A key goes up: the others are justified without it, and a touch that presses
\* nothing any more is not lost any more.
LEMMA KeyUpKeeps ==
    ASSUME LayoutsFit, window \in Windows, NEW e, NEW T, NEW Y, NEW K, NEW k,
           Buttons(e, T, window), e.keys \ {Bound(k)} \subseteq K, Bound(k) \notin K,
           \A j \in K : Justified(e, j, T, Y), NEW d \in OnKeyUp(e, k)
    PROVE  Buttons(d, T, window) /\ Down(d, T, Y, K)
  <1> DEFINE b == [e EXCEPT !.keys = @ \ {Bound(k)}, !.cleared = @ \ {Bound(k)},
                            !.lost = @ \cap UNION {FingersOn(e, t) : t \in Sets}]
  <1>1. /\ ButtonFields \subseteq DOMAIN b
        /\ b.keys = e.keys \ {Bound(k)} /\ b.cleared = e.cleared \ {Bound(k)}
        /\ b.lost = e.lost \cap UNION {FingersOn(e, t) : t \in Sets}
        /\ b.active_touch_keys = e.active_touch_keys /\ b.pad = e.pad
        /\ b.held = e.held /\ b.areas = e.areas
    BY DEF Buttons, Shape, ButtonFields
  <1>2. d \in StageHandler(b, b.active_stage_id)
    BY DEF OnKeyUp, OnOtherEvent
  <1> HIDE DEF b
  <1>3. \A t : KeysOf(b, t) = KeysOf(e, t) /\ LayoutOf(b, t) = LayoutOf(e, t)
    BY <1>1 DEF KeysOf, LayoutOf
  <1>4. Shape(e) /\ Placed(e, window) /\ Live(e, T) /\ Single(e) /\ T \subseteq Fingers
    BY DEF Buttons
  <1>5. \A t \in Sets : \A i \in DOMAIN e.held[t] :
            e.held[t][i] \in e.lost => e.held[t][i] \in b.lost
    <2> SUFFICES ASSUME NEW t \in Sets, NEW i \in DOMAIN e.held[t], e.held[t][i] \in e.lost
                 PROVE  e.held[t][i] \in b.lost
      OBVIOUS
    <2>1. e.held[t][i] # NoFinger
      BY <1>4, FingersAssumption DEF Shape
    <2>2. e.held[t][i] \in FingersOn(e, t)
      BY <2>1 DEF FingersOn
    <2> QED
      BY <1>1, <2>2
  <1>6. Shape(b)
    BY <1>1, <1>3, <1>4 DEF Shape
  <1>7. Placed(b, window)
    BY <1>1, <1>3, <1>4 DEF Placed
  <1>8. Live(b, T) /\ Single(b)
    BY <1>1, <1>4, <1>5 DEF Live, Single
  <1>9. ASSUME NEW j \in K PROVE Justified(b, j, T, Y)
    <2>1. j # Bound(k) /\ Justified(e, j, T, Y)
      OBVIOUS
    <2> QED
      BY <1>1, <1>3, <1>5, <2>1 DEF Justified
  <1>10. Buttons(b, T, window) /\ Down(b, T, Y, K)
    BY <1>1, <1>4, <1>6, <1>7, <1>8, <1>9 DEF Buttons, Down
  <1>11. Keeps(b, d)
    BY <1>2, <1>6, StageHandlerKeeps
  <1> QED
    BY <1>10, <1>11 DEF Keeps

\* A touch that met no button.
LEMMA TouchBeginKeeps ==
    ASSUME LayoutsFit, window \in Windows, NEW e, NEW T, NEW Y, NEW K,
           Buttons(e, T, window), Down(e, T, Y, K), NEW p, NEW d \in OnTouchBegin(e, p)
    PROVE  Buttons(d, T, window) /\ Down(d, T, Y, K)
  <1>1. PICK b : /\ d \in StageHandler(b, b.active_stage_id)
                 /\ b = e \/ \E t \in Sets : b = SetActiveTouchKeys(e, t)
    BY DEF OnTouchBegin, OnOtherEvent, Sets
  <1>2. Buttons(b, T, window) /\ Down(b, T, Y, K)
    BY <1>1, SetActiveTouchKeysKeeps
  <1>3. Shape(b)
    BY <1>2 DEF Buttons
  <1>4. Keeps(b, d)
    BY <1>1, <1>3, StageHandlerKeeps
  <1> QED
    BY <1>2, <1>4 DEF Keeps

\* on_enter_stage, and the flags that are set before and after it.
LEMMA EnterStageKeeps ==
    ASSUME LayoutsFit, window \in Windows, NEW e, Shape(e), NEW d \in EnterStage(e)
    PROVE  Keeps(e, d)
  <1> DEFINE b == [e EXCEPT !.entered = TRUE]
  <1>1. SameButtons(e, b) /\ b.keys = e.keys
    BY DEF Shape, SameButtons, ButtonFields
  <1>2. PICK x \in StageHandler(b, e.active_stage_id) :
            d = [x EXCEPT !.must_run_on_enter_stage = FALSE, !.redirected = ~x.entered]
    BY DEF EnterStage
  <1> HIDE DEF b
  <1> SUFFICES ASSUME NEW T, NEW Y, NEW K, Buttons(e, T, window), Down(e, T, Y, K)
               PROVE  Buttons(d, T, window) /\ Down(d, T, Y, K)
    BY DEF Keeps
  <1>3. Buttons(b, T, window) /\ Down(b, T, Y, K)
    BY <1>1, SameButtonsKeep DEF Down
  <1>4. Shape(b)
    BY <1>3 DEF Buttons
  <1>5. Keeps(b, x)
    BY <1>2, <1>4, StageHandlerKeeps
  <1>6. Buttons(x, T, window) /\ Down(x, T, Y, K)
    BY <1>3, <1>5 DEF Keeps
  <1>7. SameButtons(x, d) /\ d.keys = x.keys
    BY <1>2, <1>6 DEF Buttons, Shape, SameButtons, ButtonFields
  <1> QED
    BY <1>6, <1>7, SameButtonsKeep DEF Down

\* A touch that presses no button but as a lost one may go.
LEMMA FewerTouches ==
    ASSUME NEW e, NEW T, NEW Y, NEW w, NEW f, Buttons(e, T, w),
           \A t \in Sets : \A i \in DOMAIN e.held[t] : e.held[t][i] = f => f \in e.lost
    PROVE  /\ Buttons(e, T \ {f}, w)
           /\ \A k : Justified(e, k, T, Y) => Justified(e, k, T \ {f}, Y)
           /\ \A K : Down(e, T, Y, K) => Down(e, T \ {f}, Y, K)
  <1>1. Live(e, T \ {f})
    BY DEF Buttons, Live
  <1>2. \A k : Justified(e, k, T, Y) => Justified(e, k, T \ {f}, Y)
    BY DEF Justified
  <1> QED
    BY <1>1, <1>2 DEF Buttons, Down

-----------------------------------------------------------------------------
(* What events do to them                                                   *)

\* A set of numbers has a least one.
LEMMA LeastNumber ==
    ASSUME NEW T, T \subseteq Nat, T # {}
    PROVE  Min(T) \in T /\ \A y \in T : Min(T) <= y
  <1> DEFINE R == OpToRel(<, Nat)
  <1>1. \A x, y \in Nat : x < y => <<x, y>> \in R
    BY DEF OpToRel
  <1>2. IsWellFoundedOn(R, Nat)
    BY NatLessThanWellFounded
  <1> HIDE DEF R
  <1>3. PICK x \in T : \A y \in T : ~(<<y, x>> \in R)
    BY <1>2, WFMin
  <1>4. \A y \in T : ~(y < x)
    BY <1>1, <1>3
  <1>5. \A y \in T : x <= y
    <2>1. x \in Nat /\ \A y \in T : y \in Nat
      OBVIOUS
    <2> QED
      BY <1>4, <2>1
  <1> QED
    BY <1>5 DEF Min

\* Keys are numbered.
LEMMA KeysAreNumbered == \A e : Shape(e) => DOMAIN KeysOf(e, e.active_touch_keys) \subseteq Nat
  <1> SUFFICES ASSUME NEW e, Shape(e)
               PROVE  DOMAIN KeysOf(e, e.active_touch_keys) \subseteq Nat
    OBVIOUS
  <1>1. KeysOf(e, e.active_touch_keys)
            \in {Keyboard.keys, NoPad.keys} \cup {pad.keys : pad \in Pads}
    BY DEF Shape, KeysOf, Sets
  <1>2. DOMAIN NoPad.keys = {}
    BY DEF NoPad
  <1>3. \A keys \in {Keyboard.keys} \cup {pad.keys : pad \in Pads} : DOMAIN keys \subseteq Nat
    BY KeysAssumption
  <1> QED
    BY <1>1, <1>2, <1>3

\* The first button that a touch presses is one that it presses.
LEMMA ReleasedIsPressed ==
    ASSUME NEW e, Shape(e), NEW f, PressedBy(e, f) # {}
    PROVE  Released(e, f) \in PressedBy(e, f)
  <1>1. PressedBy(e, f) \subseteq DOMAIN KeysOf(e, e.active_touch_keys)
    BY DEF PressedBy, Shape
  <1> QED
    BY <1>1, KeysAreNumbered, LeastNumber DEF Released

\* A key is justified by a button that is pressed.
LEMMA ByButton ==
    \A e, T, Y : \A t \in Sets : \A i \in DOMAIN e.held[t] :
        e.held[t][i] \in T \cup e.lost => Justified(e, Bound(KeysOf(e, t)[i]), T, Y)
  BY DEF Justified

\* The engine after a finger pressed the button it is on.
With(e, i, f) ==
    [e EXCEPT !.held[e.active_touch_keys] = [j \in DOMAIN @ |-> IF j \in {i} THEN f ELSE @[j]]]

LEMMA Pressing ==
    ASSUME NEW e, NEW T, NEW Y, NEW K, NEW w, NEW f \in Fingers, f \notin T,
           Buttons(e, T, w), Down(e, T, Y, K), NEW i \in DOMAIN e.held[e.active_touch_keys]
    PROVE  /\ Buttons(With(e, i, f), T \cup {f}, w)
           /\ Down(With(e, i, f), T \cup {f}, Y, K)
           /\ Justified(With(e, i, f), Bound(KeysOf(e, e.active_touch_keys)[i]), T \cup {f}, Y)
  <1> DEFINE a == e.active_touch_keys
             b == With(e, i, f)
  <1>1. Shape(e) /\ Placed(e, w) /\ Live(e, T) /\ Single(e) /\ T \subseteq Fingers
    BY DEF Buttons
  <1>2. DOMAIN e.held = Sets /\ a \in Sets /\ f # NoFinger
    BY <1>1, FingersAssumption DEF Shape
  <1>3. /\ ButtonFields \subseteq DOMAIN b /\ b.keys = e.keys /\ b.cleared = e.cleared
        /\ b.lost = e.lost /\ b.active_touch_keys = a /\ b.pad = e.pad /\ b.areas = e.areas
        /\ b.held = [e.held EXCEPT ![a] =
                        [j \in DOMAIN e.held[a] |-> IF j \in {i} THEN f ELSE e.held[a][j]]]
    BY <1>1 DEF Shape, ButtonFields, With
  <1>4. /\ DOMAIN b.held = Sets
        /\ \A t \in Sets : DOMAIN b.held[t] = DOMAIN e.held[t]
        /\ \A t \in Sets : \A j \in DOMAIN e.held[t] :
               b.held[t][j] = IF t = a /\ j = i THEN f ELSE e.held[t][j]
    BY <1>2, <1>3
  <1>5. \A t : KeysOf(b, t) = KeysOf(e, t) /\ LayoutOf(b, t) = LayoutOf(e, t)
    BY <1>3 DEF KeysOf, LayoutOf
  <1> HIDE DEF a, b
  <1>6. Shape(b)
    BY <1>1, <1>2, <1>3, <1>4, <1>5 DEF Shape
  <1>7. Placed(b, w)
    BY <1>1, <1>3, <1>5 DEF Placed, a
  <1>8. Live(b, T \cup {f})
    BY <1>1, <1>3, <1>4 DEF Live
  <1>9. Single(b)
    <2> SUFFICES ASSUME NEW t \in Sets, NEW j \in DOMAIN e.held[t],
                        b.held[t][j] \notin e.lost \cup {NoFinger}
                 PROVE  /\ t = a
                        /\ \A l \in DOMAIN e.held[t] : b.held[t][l] = b.held[t][j] => l = j
      <3>1. \A t \in Sets : DOMAIN b.held[t] = DOMAIN e.held[t]
        BY <1>4
      <3> QED
        BY <1>3, <3>1 DEF Single
    <2>1. CASE b.held[t][j] = f
      <3>1. f \notin e.lost
        BY <2>1
      <3>2. \A u \in Sets : \A l \in DOMAIN e.held[u] : e.held[u][l] # f
        BY <1>1, <1>2, <3>1 DEF Live
      <3> QED
        BY <1>4, <2>1, <3>2
    <2>2. CASE b.held[t][j] # f
      <3>1. b.held[t][j] = e.held[t][j]
        BY <1>4, <2>2
      <3>2. t = a /\ \A l \in DOMAIN e.held[t] : e.held[t][l] = e.held[t][j] => l = j
        BY <1>1, <3>1 DEF Single, a
      <3> QED
        BY <1>4, <2>2, <3>1, <3>2
    <2> QED
      BY <2>1, <2>2
  <1>10. ASSUME NEW k, Justified(e, k, T, Y) PROVE Justified(b, k, T \cup {f}, Y)
    <2>1. \A t \in Sets : \A j \in DOMAIN e.held[t] :
              e.held[t][j] \in T \cup e.lost => b.held[t][j] \in T \cup {f} \cup b.lost
      BY <1>3, <1>4
    <2>2. CASE (\E h \in Y : Bound(h) = k) \/ k \in e.cleared
      BY <1>3, <2>2 DEF Justified
    <2>3. ASSUME NEW t \in Sets, NEW j \in DOMAIN e.held[t], Bound(KeysOf(e, t)[j]) = k,
                 e.held[t][j] \in T \cup e.lost
          PROVE  Justified(b, k, T \cup {f}, Y)
      <3>1. j \in DOMAIN b.held[t] /\ b.held[t][j] \in T \cup {f} \cup b.lost
        BY <1>4, <2>1, <2>3
      <3>2. Justified(b, Bound(KeysOf(b, t)[j]), T \cup {f}, Y)
        BY <3>1, ByButton
      <3> QED
        BY <1>5, <2>3, <3>2
    <2> QED
      BY <1>10, <2>2, <2>3 DEF Justified
  <1>11. Down(b, T \cup {f}, Y, K)
    BY <1>3, <1>10 DEF Down
  <1>12. Justified(b, Bound(KeysOf(e, a)[i]), T \cup {f}, Y)
    <2>1. i \in DOMAIN b.held[a] /\ b.held[a][i] = f
      BY <1>2, <1>4 DEF a
    <2>2. Justified(b, Bound(KeysOf(b, a)[i]), T \cup {f}, Y)
      BY <1>2, <2>1, ByButton
    <2> QED
      BY <1>5, <2>2
  <1>13. Buttons(b, T \cup {f}, w)
    BY <1>1, <1>6, <1>7, <1>8, <1>9 DEF Buttons
  <1> QED
    BY <1>11, <1>12, <1>13 DEF a, b

\* The engine after a button was released.
Without(e, i) == [e EXCEPT !.held[e.active_touch_keys][i] = NoFinger]

LEMMA Releasing ==
    ASSUME NEW e, NEW T, NEW Y, NEW w, NEW f \in T, Buttons(e, T, w),
           NEW i \in PressedBy(e, f)
    PROVE  /\ Buttons(Without(e, i), T \ {f}, w) /\ Without(e, i).keys = e.keys
           /\ \A k : Justified(e, k, T, Y) =>
                  \/ Justified(Without(e, i), k, T \ {f}, Y)
                  \/ k = Bound(KeysOf(e, e.active_touch_keys)[i])
  <1> DEFINE a == e.active_touch_keys
             b == Without(e, i)
  <1>1. Shape(e) /\ Placed(e, w) /\ Live(e, T) /\ Single(e) /\ T \subseteq Fingers
    BY DEF Buttons
  <1>2. /\ DOMAIN e.held = Sets /\ a \in Sets /\ f # NoFinger
        /\ i \in DOMAIN e.held[a] /\ e.held[a][i] = f
    BY <1>1, FingersAssumption DEF Shape, PressedBy
  <1>3. /\ ButtonFields \subseteq DOMAIN b /\ b.keys = e.keys /\ b.cleared = e.cleared
        /\ b.lost = e.lost /\ b.active_touch_keys = a /\ b.pad = e.pad /\ b.areas = e.areas
        /\ b.held = [e.held EXCEPT ![a] = [e.held[a] EXCEPT ![i] = NoFinger]]
    BY <1>1 DEF Shape, ButtonFields, Without
  <1>4. /\ DOMAIN b.held = Sets
        /\ \A t \in Sets : DOMAIN b.held[t] = DOMAIN e.held[t]
        /\ \A t \in Sets : \A j \in DOMAIN e.held[t] :
               b.held[t][j] = IF t = a /\ j = i THEN NoFinger ELSE e.held[t][j]
    BY <1>2, <1>3
  <1>5. \A t : KeysOf(b, t) = KeysOf(e, t) /\ LayoutOf(b, t) = LayoutOf(e, t)
    BY <1>3 DEF KeysOf, LayoutOf
  <1> HIDE DEF a, b
  <1>6. Shape(b)
    <2>1. \A t \in Sets :
              /\ DOMAIN b.held[t] = DOMAIN KeysOf(b, t)
              /\ \A j \in DOMAIN b.held[t] : b.held[t][j] \in Fingers \cup {NoFinger}
              /\ DOMAIN b.areas[t] = DOMAIN KeysOf(b, t)
      BY <1>1, <1>3, <1>4, <1>5 DEF Shape
    <2> QED
      BY <1>1, <1>2, <1>3, <1>4, <2>1 DEF Shape
  <1>7. Placed(b, w)
    BY <1>1, <1>3, <1>5 DEF Placed, a
  <1>8. Live(b, T) /\ Single(b)
    BY <1>1, <1>3, <1>4 DEF Live, Single, a
  <1>9. Buttons(b, T, w)
    BY <1>1, <1>6, <1>7, <1>8 DEF Buttons
  <1>10. \A t \in Sets : \A j \in DOMAIN b.held[t] : b.held[t][j] = f => f \in b.lost
    BY <1>1, <1>2, <1>3, <1>4 DEF Single, a
  <1>11. ASSUME NEW k, Justified(e, k, T, Y), k # Bound(KeysOf(e, a)[i])
         PROVE  Justified(b, k, T, Y)
    <2>1. CASE (\E h \in Y : Bound(h) = k) \/ k \in e.cleared
      BY <1>3, <2>1 DEF Justified
    <2>2. ASSUME NEW t \in Sets, NEW j \in DOMAIN e.held[t], Bound(KeysOf(e, t)[j]) = k,
                 e.held[t][j] \in T \cup e.lost
          PROVE  Justified(b, k, T, Y)
      <3>1. ~(t = a /\ j = i)
        BY <1>11, <2>2
      <3>2. j \in DOMAIN b.held[t] /\ b.held[t][j] = e.held[t][j]
        BY <1>4, <3>1
      <3>3. b.held[t][j] \in T \cup b.lost /\ KeysOf(b, t) = KeysOf(e, t)
        BY <1>3, <1>5, <2>2, <3>2
      <3>4. Justified(b, Bound(KeysOf(b, t)[j]), T, Y)
        BY <3>2, <3>3, ByButton
      <3> QED
        BY <2>2, <3>3, <3>4
    <2> QED
      BY <1>11, <2>1, <2>2 DEF Justified
  <1>12. Buttons(b, T \ {f}, w) /\ \A k : Justified(b, k, T, Y) => Justified(b, k, T \ {f}, Y)
    BY <1>9, <1>10, FewerTouches
  <1> QED
    BY <1>3, <1>11, <1>12 DEF a, b

\* re_arrange of the active set for the window w.
LEMMA Arranging ==
    ASSUME LayoutsFit, NEW e, NEW T, NEW Y, NEW K, NEW v, Buttons(e, T, v), Down(e, T, Y, K),
           NEW w \in Windows,
           NEW b, b = [e EXCEPT !.areas[e.active_touch_keys] =
                          ReArrange(LayoutOf(e, e.active_touch_keys), w)]
    PROVE  Buttons(b, T, w) /\ Down(b, T, Y, K)
  <1> DEFINE a == e.active_touch_keys
  <1>1. Shape(e) /\ Live(e, T) /\ Single(e) /\ T \subseteq Fingers
    BY DEF Buttons
  <1>2. DOMAIN e.areas = Sets /\ a \in Sets
    BY <1>1 DEF Shape
  <1>3. /\ ButtonFields \subseteq DOMAIN b /\ b.keys = e.keys /\ b.cleared = e.cleared
        /\ b.lost = e.lost /\ b.active_touch_keys = a /\ b.pad = e.pad /\ b.held = e.held
        /\ b.areas = [e.areas EXCEPT ![a] = ReArrange(LayoutOf(e, a), w)]
    BY <1>1 DEF Shape, ButtonFields
  <1>4. /\ DOMAIN b.areas = Sets /\ b.areas[a] = ReArrange(LayoutOf(e, a), w)
        /\ \A u \in Sets \ {a} : b.areas[u] = e.areas[u]
    BY <1>2, <1>3
  <1>5. \A u : KeysOf(b, u) = KeysOf(e, u) /\ LayoutOf(b, u) = LayoutOf(e, u)
    BY <1>3 DEF KeysOf, LayoutOf
  <1> HIDE DEF a
  <1>6. DOMAIN ReArrange(LayoutOf(e, a), w) = DOMAIN KeysOf(e, a)
    BY <1>1, <1>2, PlaceForEach
  <1>7. Shape(b)
    <2>1. \A u \in Sets : DOMAIN b.areas[u] = DOMAIN KeysOf(b, u)
      BY <1>1, <1>4, <1>5, <1>6 DEF Shape
    <2> QED
      BY <1>1, <1>2, <1>3, <1>4, <1>5, <2>1 DEF Shape
  <1>8. Placed(b, w)
    BY <1>3, <1>4, <1>5 DEF Placed
  <1>9. Live(b, T) /\ Single(b)
    BY <1>1, <1>3 DEF Live, Single, a
  <1>10. \A k : Justified(e, k, T, Y) => Justified(b, k, T, Y)
    BY <1>3, <1>5 DEF Justified
  <1> QED
    BY <1>1, <1>3, <1>7, <1>8, <1>9, <1>10 DEF Buttons, Down

\* The invariant of the buttons and the keys that are down.
ButtonsInv ==
    /\ window \in Windows
    /\ typed \subseteq KeysOfHardware
    /\ Buttons(engine, touching, window)
    /\ Down(engine, touching, typed, engine.keys)

\* A finger presses a button: it becomes a key, unless it is the keyboard's Enter.
LEMMA TouchBeginsKeeps ==
    ASSUME LayoutsFit, ButtonsInv, NEW f \in Fingers, NEW p \in Points, TouchBegins(f, p)
    PROVE  \E K : Buttons(engine', touching', window) /\ Down(engine', touching', typed, K)
  <1> DEFINE t == engine.active_touch_keys
             hit == Hit(engine, p)
             pressed == [engine EXCEPT !.held[t] =
                            [i \in DOMAIN @ |-> IF i \in hit THEN f ELSE @[i]]]
             key == KeysOf(engine, t)[Max(hit)]
             T == touching \cup {f}
  <1>1. /\ window \in Windows /\ Buttons(engine, touching, window)
        /\ Down(engine, touching, typed, engine.keys) /\ Shape(engine)
    BY DEF ButtonsInv, Buttons
  <1>2. f \notin touching /\ touching' = T
    BY DEF TouchBegins
  <1>3. \/ hit = {} /\ engine' \in OnTouchBegin(engine, p)
        \/ hit # {} /\ engine' = SetActiveTouchKeys(pressed, "touch_keys")
        \/ hit # {} /\ \E e \in OnOtherEvent(pressed) : engine' \in OnKeyDown(e, key)
    BY DEF TouchBegins
  <1>4. CASE hit = {} /\ engine' \in OnTouchBegin(engine, p)
    <2>1. Buttons(engine, T, window) /\ Down(engine, T, typed, engine.keys)
      BY <1>1, MoreTouches
    <2> QED
      BY <1>1, <1>2, <1>4, <2>1, TouchBeginKeeps
  <1>5. ASSUME hit # {}
        PROVE  \E i \in DOMAIN engine.held[t] : hit = {i} /\ key = KeysOf(engine, t)[i]
    <2>1. PICK i \in hit : TRUE
      BY <1>5
    <2>2. \A j \in hit : j = i
      BY <1>1, <2>1, OneHit
    <2>3. hit = {i}
      BY <2>1, <2>2
    <2>4. t \in Sets /\ i \in DOMAIN engine.areas[t]
      BY <1>1, <2>1 DEF Hit, Shape
    <2>5. i \in DOMAIN engine.held[t] /\ i \in DOMAIN KeysOf(engine, t)
      BY <1>1, <2>4 DEF Shape
    <2>6. i \in Nat
      BY <1>1, <2>4, <2>5, KeysAreNumbered
    <2>7. Max({i}) = i
      BY <2>6 DEF Max
    <2> QED
      BY <2>3, <2>5, <2>7
  <1>6. ASSUME hit # {}
        PROVE  /\ Buttons(pressed, T, window)
               /\ Down(pressed, T, typed, engine.keys) /\ Justified(pressed, Bound(key), T, typed)
    <2>1. PICK i \in DOMAIN engine.held[t] : hit = {i} /\ key = KeysOf(engine, t)[i]
      BY <1>5, <1>6
    <2>2. pressed = With(engine, i, f)
      BY <2>1 DEF With
    <2> HIDE DEF pressed, key, hit
    <2> QED
      BY <1>1, <1>2, <2>1, <2>2, Pressing
  <1> HIDE DEF pressed, key, hit, T
  <1>7. CASE hit # {} /\ engine' = SetActiveTouchKeys(pressed, "touch_keys")
    <2>1. "touch_keys" \in Sets
      BY DEF Sets
    <2> QED
      BY <1>1, <1>2, <1>6, <1>7, <2>1, SetActiveTouchKeysKeeps
  <1>8. ASSUME hit # {}, NEW e \in OnOtherEvent(pressed), engine' \in OnKeyDown(e, key)
        PROVE  \E K : Buttons(engine', touching', window) /\ Down(engine', touching', typed, K)
    <2> DEFINE K == engine.keys \cup {Bound(key)}
    <2>1. Down(pressed, T, typed, K)
      BY <1>6, <1>8 DEF Down
    <2>2. Keeps(pressed, e)
      BY <1>1, <1>6, <1>8, StageHandlerKeeps DEF OnOtherEvent, Buttons
    <2>3. Buttons(e, T, window) /\ Down(e, T, typed, K) /\ Bound(key) \in K
      BY <1>6, <1>8, <2>1, <2>2 DEF Keeps
    <2> HIDE DEF K
    <2> QED
      BY <1>1, <1>2, <1>8, <2>3, KeyDownKeeps
  <1> QED
    BY <1>3, <1>4, <1>7, <1>8

\* A finger that presses a button releases it, and the key with it.
LEMMA TouchEndsKeeps ==
    ASSUME LayoutsFit, ButtonsInv, NEW f \in Fingers, TouchEnds(f)
    PROVE  \E K : Buttons(engine', touching', window) /\ Down(engine', touching', typed, K)
  <1> DEFINE t == engine.active_touch_keys
             T == touching \ {f}
  <1>1. /\ window \in Windows /\ Buttons(engine, touching, window)
        /\ Down(engine, touching, typed, engine.keys) /\ Shape(engine)
    BY DEF ButtonsInv, Buttons
  <1>2. f \in touching /\ touching' = T /\ f # NoFinger
    BY FingersAssumption DEF TouchEnds
  <1>3. CASE PressedBy(engine, f) = {} /\ engine' \in OnOtherEvent(engine)
    <2>1. \A u \in Sets : \A i \in DOMAIN engine.held[u] :
              engine.held[u][i] = f => f \in engine.lost
      BY <1>1, <1>2, <1>3 DEF Buttons, Single, PressedBy
    <2>2. Buttons(engine, T, window) /\ Down(engine, T, typed, engine.keys)
      BY <1>1, <2>1, FewerTouches
    <2>3. Keeps(engine, engine')
      BY <1>1, <1>3, StageHandlerKeeps DEF OnOtherEvent
    <2> QED
      BY <1>2, <2>2, <2>3 DEF Keeps
  <1>4. ASSUME NEW i, i = Released(engine, f), PressedBy(engine, f) # {},
               engine' \in OnKeyUp([engine EXCEPT !.held[t][i] = NoFinger],
                                   KeysOf(engine, t)[i])
        PROVE  \E K : Buttons(engine', touching', window) /\ Down(engine', touching', typed, K)
    <2> DEFINE b == Without(engine, i)
               key == KeysOf(engine, t)[i]
               K == engine.keys \ {Bound(key)}
    <2>1. i \in PressedBy(engine, f)
      BY <1>1, <1>4, ReleasedIsPressed
    <2>2. /\ Buttons(b, T, window) /\ b.keys = engine.keys
          /\ \A k : Justified(engine, k, touching, typed) =>
                 Justified(b, k, T, typed) \/ k = Bound(key)
      BY <1>1, <1>2, <2>1, Releasing
    <2>3. engine' \in OnKeyUp(b, key)
      BY <1>4 DEF Without
    <2> HIDE DEF b, key
    <2>4. \A k \in K : Justified(b, k, T, typed)
      BY <1>1, <2>2 DEF Down
    <2>5. b.keys \ {Bound(key)} \subseteq K /\ Bound(key) \notin K
      BY <2>2
    <2> HIDE DEF K, T
    <2> QED
      BY <1>1, <1>2, <2>2, <2>3, <2>4, <2>5, KeyUpKeeps
  <1> QED
    BY <1>3, <1>4 DEF TouchEnds

\* The loop knows nothing of a touch that was cancelled: its button is lost.
LEMMA TouchIsCancelledKeeps ==
    ASSUME ButtonsInv, NEW f \in Fingers, TouchIsCancelled(f)
    PROVE  /\ Buttons(engine', touching', window)
           /\ Down(engine', touching', typed, engine.keys)
  <1> DEFINE a == engine.active_touch_keys
             l == engine.lost \cup ({f} \cap FingersOn(engine, a))
             b == [engine EXCEPT !.lost = l]
  <1>1. /\ Shape(engine) /\ Placed(engine, window) /\ Live(engine, touching) /\ Single(engine)
        /\ touching \subseteq Fingers /\ Down(engine, touching, typed, engine.keys)
    BY DEF ButtonsInv, Buttons
  <1>2. engine' = b /\ f \in touching /\ touching' = touching \ {f} /\ f # NoFinger
    BY FingersAssumption DEF TouchIsCancelled
  <1>3. /\ ButtonFields \subseteq DOMAIN b /\ b.keys = engine.keys /\ b.lost = l
        /\ b.active_touch_keys = a /\ b.pad = engine.pad /\ b.held = engine.held
        /\ b.areas = engine.areas /\ b.cleared = engine.cleared
    BY <1>1 DEF Shape, ButtonFields
  <1> HIDE DEF b
  <1>4. \A u : KeysOf(b, u) = KeysOf(engine, u) /\ LayoutOf(b, u) = LayoutOf(engine, u)
    BY <1>3 DEF KeysOf, LayoutOf
  <1>5. Shape(b) /\ Placed(b, window)
    BY <1>1, <1>3, <1>4 DEF Shape, Placed
  <1>6. Live(b, touching) /\ Single(b)
    BY <1>1, <1>3 DEF Live, Single
  <1>7. Buttons(b, touching, window)
    BY <1>1, <1>5, <1>6 DEF Buttons
  <1>8. \A k : Justified(engine, k, touching, typed) => Justified(b, k, touching, typed)
    BY <1>3, <1>4 DEF Justified
  <1>9. Down(b, touching, typed, engine.keys)
    BY <1>1, <1>3, <1>8 DEF Down
  <1>10. \A u \in Sets : \A i \in DOMAIN b.held[u] : b.held[u][i] = f => f \in b.lost
    BY <1>1, <1>2, <1>3 DEF Single, FingersOn
  <1> QED
    BY <1>2, <1>7, <1>9, <1>10, FewerTouches

\* Every step keeps the invariant.
LEMMA NextKeepsButtons ==
    ASSUME LayoutsFit, ButtonsInv, [Next]_vars
    PROVE  ButtonsInv'
  <1>1. /\ window \in Windows /\ typed \subseteq KeysOfHardware
        /\ Buttons(engine, touching, window)
        /\ Down(engine, touching, typed, engine.keys) /\ Shape(engine)
    BY DEF ButtonsInv, Buttons
  <1>2. ASSUME window' \in Windows, typed' \subseteq KeysOfHardware,
               Buttons(engine', touching', window'),
               NEW K, Down(engine', touching', typed', K)
        PROVE  ButtonsInv'
    BY <1>2, DownOfFewer DEF ButtonsInv
  <1>3. ASSUME engine' = engine, UNCHANGED <<window, touching, typed>> PROVE ButtonsInv'
    BY <1>1, <1>2, <1>3
  <1>4. ASSUME NEW f \in Fingers, NEW p \in Points, TouchBegins(f, p) PROVE ButtonsInv'
    <2>1. UNCHANGED <<window, typed>>
      BY <1>4 DEF TouchBegins
    <2> QED
      BY <1>1, <1>2, <1>4, <2>1, TouchBeginsKeeps
  <1>5. ASSUME NEW f \in Fingers, TouchEnds(f) PROVE ButtonsInv'
    <2>1. UNCHANGED <<window, typed>>
      BY <1>5 DEF TouchEnds
    <2> QED
      BY <1>1, <1>2, <1>5, <2>1, TouchEndsKeeps
  <1>6. ASSUME NEW f \in Fingers, TouchIsCancelled(f) PROVE ButtonsInv'
    <2>1. UNCHANGED <<window, typed>>
      BY <1>6 DEF TouchIsCancelled
    <2> QED
      BY <1>1, <1>2, <1>6, <2>1, TouchIsCancelledKeeps
  <1>7. ASSUME NEW k \in KeysOfHardware, KeyDown(k) PROVE ButtonsInv'
    <2> DEFINE K == engine.keys \cup {Bound(k)}
    <2>1. typed' = typed \cup {k} /\ engine' \in OnKeyDown(engine, k)
          /\ UNCHANGED <<window, touching>>
      BY <1>7 DEF KeyDown
    <2>2. Down(engine, touching, typed', K) /\ Bound(k) \in K
      BY <1>1, <2>1 DEF Down, Justified
    <2> HIDE DEF K
    <2>3. Buttons(engine', touching, window) /\ Down(engine', touching, typed', K)
      BY <1>1, <2>1, <2>2, KeyDownKeeps
    <2> QED
      BY <1>1, <1>2, <2>1, <2>3
  <1>8. ASSUME NEW k \in KeysOfHardware, KeyUp(k) PROVE ButtonsInv'
    <2> DEFINE K == engine.keys \ {Bound(k)}
    <2>1. typed' = typed \ {k} /\ engine' \in OnKeyUp(engine, k)
          /\ UNCHANGED <<window, touching>>
      BY <1>8 DEF KeyUp
    <2>2. \A j \in K : Justified(engine, j, touching, typed')
      BY <1>1, <2>1 DEF Down, Justified
    <2>3. engine.keys \ {Bound(k)} \subseteq K /\ Bound(k) \notin K
      OBVIOUS
    <2> HIDE DEF K
    <2>4. Buttons(engine', touching, window) /\ Down(engine', touching, typed', K)
      BY <1>1, <2>1, <2>2, <2>3, KeyUpKeeps
    <2> QED
      BY <1>1, <1>2, <2>1, <2>4
  <1>9. CASE OtherEvent
    <2>1. engine' \in OnOtherEvent(engine) /\ UNCHANGED <<window, touching, typed>>
      BY <1>9 DEF OtherEvent
    <2>2. Keeps(engine, engine')
      BY <1>1, <2>1, StageHandlerKeeps DEF OnOtherEvent
    <2> QED
      BY <1>1, <1>2, <2>1, <2>2 DEF Keeps
  <1>10. ASSUME NEW w \in Windows, Resize(w) PROVE ButtonsInv'
    <2> DEFINE t == engine.active_touch_keys
               b == [engine EXCEPT !.areas[t] = ReArrange(LayoutOf(engine, t), w)]
    <2>1. engine' = b /\ window' = w /\ UNCHANGED <<touching, typed>>
      BY <1>10 DEF Resize
    <2>2. Buttons(b, touching, w) /\ Down(b, touching, typed, engine.keys)
      BY <1>1, Arranging
    <2> HIDE DEF b
    <2> QED
      BY <1>1, <1>2, <2>1, <2>2
  <1>11. CASE RunTick
    <2>1. PICK e \in IF engine.must_run_on_enter_stage THEN EnterStage(engine) ELSE {engine} :
              engine' \in StageHandler(e, engine.active_stage_id)
      BY <1>11 DEF RunTick
    <2>2. UNCHANGED <<window, touching, typed>>
      BY <1>11 DEF RunTick
    <2>3. Keeps(engine, e)
      <3>1. e \in EnterStage(engine) \/ e = engine
        BY <2>1
      <3>2. CASE e = engine
        BY <3>2 DEF Keeps
      <3> QED
        BY <1>1, <3>1, <3>2, EnterStageKeeps
    <2>4. Buttons(e, touching, window) /\ Down(e, touching, typed, engine.keys)
      BY <1>1, <2>3 DEF Keeps
    <2>5. Keeps(e, engine')
      BY <1>1, <2>1, <2>4, StageHandlerKeeps DEF Buttons
    <2> QED
      BY <1>1, <1>2, <2>2, <2>4, <2>5 DEF Keeps
  <1> QED
    BY <1>3, <1>4, <1>5, <1>6, <1>7, <1>8, <1>9, <1>10, <1>11
       DEF Next, HandleEvent, LoopEnds, vars

LEMMA InitButtons == ASSUME LayoutsFit, Init PROVE ButtonsInv
  <1> DEFINE tk == "touch_keys"
             kb == "kb_touch_keys"
  <1>1. /\ ButtonFields \subseteq DOMAIN engine
        /\ engine.keys = {} /\ engine.active_touch_keys = tk /\ engine.pad = NoPad
        /\ engine.held = [t \in Sets |-> IF t = tk THEN <<>> ELSE Unpressed(Keyboard.keys)]
        /\ engine.areas = [t \in Sets |-> IF t = tk THEN <<>>
                                          ELSE ReArrange(Keyboard.rows, FirstWindow)]
        /\ engine.lost = {} /\ engine.cleared = {}
    BY DEF Init, ButtonFields
  <1>2. window = FirstWindow /\ touching = {} /\ typed = {} /\ FirstWindow \in Windows
    BY WindowsAssumption DEF Init
  <1>3. tk \in Sets /\ kb \in Sets /\ \A t \in Sets : t = tk \/ t = kb
    BY DEF Sets
  <1>4. /\ DOMAIN engine.held = Sets /\ DOMAIN engine.areas = Sets
        /\ engine.held[tk] = <<>> /\ engine.areas[tk] = <<>>
        /\ engine.held[kb] = Unpressed(Keyboard.keys)
        /\ engine.areas[kb] = ReArrange(Keyboard.rows, FirstWindow)
    BY <1>1, <1>3
  <1>5. KeysOf(engine, tk) = <<>> /\ KeysOf(engine, kb) = Keyboard.keys
    BY <1>1 DEF KeysOf, NoPad
  <1>6. /\ DOMAIN engine.held[kb] = DOMAIN Keyboard.keys
        /\ \A i \in DOMAIN engine.held[kb] : engine.held[kb][i] = NoFinger
    BY <1>4 DEF Unpressed
  <1>7. DOMAIN engine.areas[kb] = DOMAIN Keyboard.keys
    BY <1>2, <1>4 DEF LayoutsFit, Arranged
  <1>8. \A i : i \notin DOMAIN engine.held[tk]
    BY <1>4
  <1>9. Shape(engine)
    <2>1. \A t \in Sets :
              /\ DOMAIN engine.held[t] = DOMAIN KeysOf(engine, t)
              /\ \A i \in DOMAIN engine.held[t] : engine.held[t][i] \in Fingers \cup {NoFinger}
              /\ DOMAIN engine.areas[t] = DOMAIN KeysOf(engine, t)
      BY <1>3, <1>4, <1>5, <1>6, <1>7, <1>8
    <2> QED
      BY <1>1, <1>3, <1>4, <2>1 DEF Shape
  <1>10. Placed(engine, window)
    <2>1. LayoutOf(engine, tk) = LayoutOfPad(NoPad)
      BY <1>1 DEF LayoutOf, LayoutOfPad
    <2> QED
      BY <1>1, <1>2, <1>4, <2>1, LayoutsOfPadsFit DEF Placed
  <1>11. Live(engine, touching) /\ Single(engine)
    BY <1>3, <1>6, <1>8 DEF Live, Single
  <1> QED
    BY <1>1, <1>2, <1>9, <1>10, <1>11 DEF ButtonsInv, Buttons, Down

-----------------------------------------------------------------------------
(* Theorems                                                                 *)

\* In every application, stages are entered before they tick and keys edit only the
\* inputs of the stage that is shown, except where an on_enter_stage set a stage.
THEOREM StageInSyncTheorem == Spec => []StageInSync
  <1>1. InSync(engine) => StageInSync
    BY DEF InSync, Awaited, InputInSync, StageInSync
  <1> QED
    BY <1>1, InSyncTheorem, PTL

\* The invariant of the buttons, for every window, touch and key.
THEOREM ButtonsInvTheorem == ASSUME LayoutsFit PROVE Spec => []ButtonsInv
  <1>1. Init => ButtonsInv
    BY InitButtons
  <1>2. ButtonsInv /\ [Next]_vars => ButtonsInv'
    BY NextKeepsButtons
  <1> QED
    BY <1>1, <1>2, PTL DEF Spec

\* In every application whose layouts fit its windows, the active stage was created,
\* each button has an area and a finger or none, and the active input is an input.
THEOREM TypeOKTheorem == ASSUME LayoutsFit PROVE Spec => []TypeOK
  <1>1. ButtonsInv /\ InSync(engine) => TypeOK
    <2> SUFFICES ASSUME ButtonsInv, InSync(engine) PROVE TypeOK
      OBVIOUS
    <2>1. Shape(engine) /\ touching \subseteq Fingers /\ typed \subseteq KeysOfHardware
      BY DEF ButtonsInv, Buttons
    <2> QED
      BY <2>1 DEF InSync, Shape, TypeOK
  <1>2. Spec => []InSync(engine)
    BY InSyncTheorem
  <1> QED
    BY <1>1, <1>2, ButtonsInvTheorem, PTL

\* A key that get_key reports down is down on the hardware or pressed by a finger on
\* the screen, but for touches that were cancelled, sets of keys that were replaced
\* under a finger, and buttons that were cleared.
THEOREM DownIsPressedTheorem == ASSUME LayoutsFit PROVE Spec => []DownIsPressed
  <1>1. ButtonsInv => DownIsPressed
    BY DEF ButtonsInv, Down, Justified, DownIsPressed
  <1> QED
    BY <1>1, ButtonsInvTheorem, PTL

\* The buttons that touches are matched with are those of the layout in the window of
\* now, after any resizes, switches of the keyboard and changes of the buttons.
THEOREM ButtonsFitWindowTheorem == ASSUME LayoutsFit PROVE Spec => []ButtonsFitWindow
  <1>1. ButtonsInv => ButtonsFitWindow
    <2> SUFFICES ASSUME ButtonsInv PROVE ButtonsFitWindow
      OBVIOUS
    <2> DEFINE t == engine.active_touch_keys
               areas == engine.areas[t]
    <2>1. /\ window \in Windows /\ t \in Sets /\ engine.pad \in Pads \cup {NoPad}
          /\ areas = ReArrange(LayoutOf(engine, t), window)
      BY DEF ButtonsInv, Buttons, Shape, Placed
    <2>2. t = "touch_keys" => LayoutOf(engine, t) = LayoutOfPad(engine.pad)
      BY DEF LayoutOf, LayoutOfPad
    <2> HIDE DEF areas
    <2>3. CASE t = "kb_touch_keys"
      <3>1. LayoutOf(engine, t) = Keyboard.rows
        BY <2>3 DEF LayoutOf
      <3>2. Fits(areas, window)
        BY <2>1, <3>1 DEF LayoutsFit, Arranged
      <3> QED
        BY <2>1, <3>2 DEF ButtonsFitWindow, areas
    <2>4. CASE t = "touch_keys" /\ engine.pad \in Pads
      <3>1. Fits(areas, window)
        BY <2>1, <2>2, <2>4, LayoutsOfPadsFit DEF Arranged
      <3> QED
        BY <2>1, <3>1 DEF ButtonsFitWindow, areas
    <2>5. CASE t = "touch_keys" /\ engine.pad = NoPad
      <3>1. areas = <<>>
        BY <2>1, <2>2, <2>5, LayoutsOfPadsFit
      <3>2. \A i : i \notin DOMAIN areas
        BY <3>1
      <3>3. Fits(areas, window)
        BY <3>2 DEF Fits
      <3> QED
        BY <2>1, <3>3 DEF ButtonsFitWindow, areas
    <2> QED
      BY <2>1, <2>3, <2>4, <2>5 DEF Sets
  <1> QED
    BY <1>1, ButtonsInvTheorem, PTL
=============================================================================
