-------------------------------- MODULE ClientUi --------------------------------
(****************************************************************************)
(* The main loop of a client: BaseClient (src/src/client/baseclient.cpp),   *)
(* its stages, its inputs and its two sets of touch keys, the application's *)
(* and the on-screen keyboard (src/src/client/ui/touchkeys.cpp).  The loop  *)
(* handles one Allegro event at a time.                                     *)
(*                                                                          *)
(* `engine' is the BaseClient object; an operator named like a method gives *)
(* the object, or the set of objects, that the method may leave.  A stage   *)
(* is code of the application: each of its handlers makes at most one call. *)
(* What keys do to the text of an input is in Inputs.                       *)
(****************************************************************************)
EXTENDS TouchLayout, FiniteSets

CONSTANTS
    Stages, Creatable,      \* stage ids; those create_stage knows
    FirstStage,             \* the stage the application sets before run
    Inputs, OwnerOf,        \* inputs; the stage each belongs to
    TextInputs,             \* those of type INPUT_TYPE_TEXT
    Keyboard,               \* keys and rows of kb_touch_keys
    Pads,                   \* keys, side and size of the application's touch_keys
    Windows, FirstWindow,   \* sizes of the window, in units of get_scaled()
    Points, Icon,           \* places to touch; size of the keyboard icon
    Fingers, KeysOfHardware,
    NoInput, NoFinger

ASSUME StagesAssumption == FirstStage \in Creatable /\ Creatable \subseteq Stages
ASSUME InputsAssumption ==
    NoInput \notin Inputs /\ OwnerOf \in [Inputs -> Stages] /\ TextInputs \subseteq Inputs
ASSUME WindowsAssumption == FirstWindow \in Windows
ASSUME FingersAssumption == NoFinger \notin Fingers
ASSUME PointsAssumption == \A p \in Points : p.x \in Int /\ p.y \in Int
ASSUME KeysAssumption ==
    \A keys \in {Keyboard.keys} \cup {pad.keys : pad \in Pads} :
        Len(keys) \in Nat /\ DOMAIN keys = 1 .. Len(keys)

VARIABLES
    engine,
    window,     \* the size of the window
    touching,   \* fingers on the screen
    typed,      \* keys of the hardware keyboard that are down
    running     \* run has not returned

vars == <<engine, window, touching, typed, running>>

Sets == {"touch_keys", "kb_touch_keys"}
NoPad == [keys |-> <<>>, side |-> "FIT_BOTTOM", size |-> 1]

Unpressed(keycodes) == [i \in DOMAIN keycodes |-> NoFinger]

Init ==
    /\ engine = [stages |-> {FirstStage}, active_stage_id |-> FirstStage,
                 must_run_on_enter_stage |-> TRUE, active_input |-> NoInput,
                 keys |-> {}, active_touch_keys |-> "touch_keys",
                 pad |-> NoPad,
                 \* per button, the id of the touch that presses it
                 held |-> [t \in Sets |-> IF t = "touch_keys" THEN <<>>
                                          ELSE Unpressed(Keyboard.keys)],
                 \* where re_arrange last put each button
                 areas |-> [t \in Sets |-> IF t = "touch_keys" THEN <<>>
                                           ELSE ReArrange(Keyboard.rows, FirstWindow)],
                 \* history: on_enter_stage ran for the active stage; it was made
                 \* active by another one's; ids of touches with a button that another set
                 \* has replaced; keys down whose buttons were cleared
                 entered |-> FALSE, redirected |-> FALSE, lost |-> {}, cleared |-> {}]
    /\ window = FirstWindow
    /\ touching = {}
    /\ typed = {}
    /\ running = TRUE

-----------------------------------------------------------------------------
(* Touch keys                                                               *)

KeysOf(e, t) == IF t = "touch_keys" THEN e.pad.keys ELSE Keyboard.keys

LayoutOf(e, t) ==
    IF t = "kb_touch_keys" THEN Keyboard.rows
    ELSE FitButtons(e.pad.side, e.pad.size, Len(e.pad.keys))

PressedBy(e, f) ==
    {i \in DOMAIN e.held[e.active_touch_keys] : e.held[e.active_touch_keys][i] = f}

FingersOn(e, t) == {e.held[t][i] : i \in DOMAIN e.held[t]} \ {NoFinger}

\* set_active_touch_keys: buttons of the other set stay as they are.
SetActiveTouchKeysAsIs(e, t) ==
    [e EXCEPT !.active_touch_keys = t, !.lost = @ \cup FingersOn(e, e.active_touch_keys)]
SetActiveTouchKeys(e, t) ==
    [e EXCEPT !.active_touch_keys = t,
              !.areas[t] = ReArrange(LayoutOf(e, t), window),
              !.lost = @ \cup FingersOn(e, e.active_touch_keys)]

\* The back button is bound to Escape.
Bound(k) == IF k = "BACK" THEN "ESCAPE" ELSE k

-----------------------------------------------------------------------------
(* What a stage may call                                                    *)

Activated(e, s) ==
    [e EXCEPT !.stages = @ \cup {s}, !.active_stage_id = s,
              !.must_run_on_enter_stage = TRUE, !.active_input = NoInput,
              !.entered = FALSE, !.redirected = FALSE]

SetStageUnchecked(e, s) == Activated(e, s)
SetStageWhenNew(e, s) ==
    IF s \notin Creatable THEN e
    ELSE [Activated(e, s) EXCEPT !.must_run_on_enter_stage = s \notin e.stages]
\* stages holds only stages that create_stage has created.
SetStage(e, s) == IF s \in e.stages \cup Creatable THEN Activated(e, s) ELSE e

\* clear_buttons, add_button for each key, fit_buttons.
SetButtons(e, pad) ==
    [e EXCEPT !.pad = pad,
              !.held["touch_keys"] = Unpressed(pad.keys),
              !.areas["touch_keys"] =
                  ReArrange(FitButtons(pad.side, pad.size, Len(pad.keys)), window),
              !.lost = @ \cap FingersOn(e, "kb_touch_keys"),
              !.cleared = @ \cup {Bound(e.pad.keys[i]) :
                      i \in {j \in DOMAIN e.pad.keys : e.held["touch_keys"][j] # NoFinger}}]

\* A handler of stage s: it may also focus or blur its own inputs.
StageHandler(e, s) ==
    {e} \cup {SetStage(e, r) : r \in Stages}
        \cup {SetButtons(e, pad) : pad \in Pads}
        \cup {[e EXCEPT !.active_input = i] : i \in {j \in Inputs : OwnerOf[j] = s}}
        \cup (IF e.active_input # NoInput /\ OwnerOf[e.active_input] = s
              THEN {[e EXCEPT !.active_input = NoInput]} ELSE {})

-----------------------------------------------------------------------------
(* Events                                                                   *)

\* on_event with an event that is not about keys or the keyboard's icon.
OnOtherEvent(e) == StageHandler(e, e.active_stage_id)
OnKeyDown(e, k) == OnOtherEvent([e EXCEPT !.keys = @ \cup {Bound(k)}])
OnKeyUp(e, k) ==
    OnOtherEvent([e EXCEPT !.keys = @ \ {Bound(k)}, !.cleared = @ \ {Bound(k)},
                           !.lost = @ \cap UNION {FingersOn(e, t) : t \in Sets}])

\* on_event with a touch that met no button: the icon shows and hides the
\* keyboard while a text input is active.
OnTouchBegin(e, p) ==
    IF e.active_input \in TextInputs /\ p.x < Icon.w /\ p.y < Icon.h
    THEN OnOtherEvent(SetActiveTouchKeys(e,
             IF e.active_touch_keys = "touch_keys" THEN "kb_touch_keys" ELSE "touch_keys"))
    ELSE OnOtherEvent(e)

\* The buttons that a touch at p presses, in redefine_touch_event.
Hit(e, p) ==
    LET areas == e.areas[e.active_touch_keys]
    IN  {i \in DOMAIN areas : InArea(p, areas[i])}

\* redefine_touch_event and process_touch_keys: a touch on buttons presses them
\* and becomes a key, first as KEY_CHAR, then as KEY_DOWN; the keyboard's Enter
\* closes the keyboard, and nothing more.
TouchBegins(f, p) ==
    LET t == engine.active_touch_keys
        hit == Hit(engine, p)
        pressed == [engine EXCEPT !.held[t] = [i \in DOMAIN @ |-> IF i \in hit THEN f ELSE @[i]]]
        key == KeysOf(engine, t)[Max(hit)]
    IN  /\ f \notin touching
        /\ touching' = touching \cup {f}
        /\ \/ hit = {} /\ engine' \in OnTouchBegin(engine, p)
           \/ /\ hit # {} /\ t = "kb_touch_keys" /\ key = "ENTER"
              /\ engine' = SetActiveTouchKeys(pressed, "touch_keys")
           \/ /\ hit # {} /\ ~ (t = "kb_touch_keys" /\ key = "ENTER")
              /\ \E e \in OnOtherEvent(pressed) : engine' \in OnKeyDown(e, key)
        /\ UNCHANGED <<window, typed>>

\* The first button that this touch presses is released.
ReleasedLast(e, f) == Len(e.held[e.active_touch_keys])
Released(e, f) == Min(PressedBy(e, f))

TouchEnds(f) ==
    /\ f \in touching
    /\ touching' = touching \ {f}
    /\ \/ PressedBy(engine, f) = {} /\ engine' \in OnOtherEvent(engine)
       \/ /\ PressedBy(engine, f) # {}
          /\ LET t == engine.active_touch_keys
                 i == Released(engine, f)
             IN  engine' \in OnKeyUp([engine EXCEPT !.held[t][i] = NoFinger],
                                     KeysOf(engine, t)[i])
    /\ UNCHANGED <<window, typed>>

\* The loop does not look at ALLEGRO_EVENT_TOUCH_CANCEL.
TouchIsCancelled(f) ==
    /\ f \in touching
    /\ touching' = touching \ {f}
    /\ engine' = [engine EXCEPT !.lost = @ \cup ({f} \cap FingersOn(engine, engine.active_touch_keys))]
    /\ UNCHANGED <<window, typed>>

KeyDown(k) ==
    /\ k \notin typed
    /\ typed' = typed \cup {k}
    /\ engine' \in OnKeyDown(engine, k)
    /\ UNCHANGED <<window, touching>>

KeyUp(k) ==
    /\ k \in typed
    /\ typed' = typed \ {k}
    /\ engine' \in OnKeyUp(engine, k)
    /\ UNCHANGED <<window, touching>>

\* ALLEGRO_EVENT_KEY_CHAR and TOUCH_MOVE.
OtherEvent ==
    /\ typed \cup touching # {}
    /\ engine' \in OnOtherEvent(engine)
    /\ UNCHANGED <<window, touching, typed>>

Resize(w) ==
    /\ window' = w
    /\ LET t == engine.active_touch_keys
       IN  engine' = [engine EXCEPT !.areas[t] = ReArrange(LayoutOf(engine, t), w)]
    /\ UNCHANGED <<touching, typed>>

\* ALLEGRO_EVENT_TIMER, run_tick: the flag is cleared after on_enter_stage, so
\* that a stage which sets another one there takes that one's call away.
EnterStage(e) ==
    {[d EXCEPT !.must_run_on_enter_stage = FALSE, !.redirected = ~d.entered] :
        d \in StageHandler([e EXCEPT !.entered = TRUE], e.active_stage_id)}
RunTick ==
    /\ \E e \in IF engine.must_run_on_enter_stage THEN EnterStage(engine) ELSE {engine} :
           engine' \in StageHandler(e, engine.active_stage_id)
    /\ UNCHANGED <<window, touching, typed>>

\* DISPLAY_CLOSE, or the loop's condition after a handler that set finish.
LoopEnds ==
    /\ running' = FALSE
    /\ UNCHANGED <<engine, window, touching, typed>>

HandleEvent ==
    /\ \/ \E f \in Fingers :
              (\E p \in Points : TouchBegins(f, p)) \/ TouchEnds(f) \/ TouchIsCancelled(f)
       \/ \E k \in KeysOfHardware : KeyDown(k) \/ KeyUp(k)
       \/ OtherEvent
       \/ \E w \in Windows : Resize(w)
       \/ RunTick
    /\ UNCHANGED running

Next == running /\ (HandleEvent \/ LoopEnds)

Spec == Init /\ [][Next]_vars

-----------------------------------------------------------------------------
(* Properties                                                               *)

\* The type invariant; a stage is active, and stays so when one is asked for that
\* create_stage cannot create.
TypeOK ==
    /\ engine.stages \subseteq Creatable
    /\ engine.active_stage_id \in engine.stages
    /\ engine.active_input \in Inputs \cup {NoInput}
    /\ engine.active_touch_keys \in Sets
    /\ engine.pad \in Pads \cup {NoPad}
    /\ \A t \in Sets :
           /\ DOMAIN engine.held[t] = DOMAIN KeysOf(engine, t)
           /\ \A i \in DOMAIN engine.held[t] : engine.held[t][i] \in Fingers \cup {NoFinger}
           /\ DOMAIN engine.areas[t] = DOMAIN engine.held[t]
    /\ touching \subseteq Fingers /\ typed \subseteq KeysOfHardware

\* get_key says that a key is down only if it is, on the hardware or as a button that
\* a finger still presses, whatever several fingers, two keyboards, resizes and
\* switches between them do.  The exceptions are touches that were cancelled, or
\* whose set of keys was replaced under the finger, and clear_buttons under one.
DownIsPressed ==
    \A k \in engine.keys :
        \/ \E h \in typed : Bound(h) = k
        \/ \E t \in Sets : \E i \in DOMAIN engine.held[t] :
               Bound(KeysOf(engine, t)[i]) = k /\ engine.held[t][i] \in touching \cup engine.lost
        \/ k \in engine.cleared

\* No tick of a stage comes before its on_enter_stage, and the active input belongs
\* to the active stage, so that no key edits an input that is not shown: however
\* stages set each other and focus inputs in their handlers, unless a stage's
\* on_enter_stage made this one the active stage.
StageInSync ==
    \/ /\ engine.must_run_on_enter_stage \/ engine.entered
       /\ engine.active_input # NoInput =>
              OwnerOf[engine.active_input] = engine.active_stage_id
    \/ engine.redirected

\* In every window the layout has a place for each of the keys, in the window and
\* none under another.
Arranged(layout, keys) ==
    \A w \in Windows :
        LET areas == ReArrange(layout, w)
        IN  /\ DOMAIN areas = DOMAIN keys
            /\ \A i \in DOMAIN areas :
                   areas[i].x \in Int /\ areas[i].y \in Int /\ areas[i].w \in Int /\ areas[i].h \in Int
            /\ Fits(areas, w)

\* The layouts of an application are: those of the keyboard and of its own buttons
\* are arranged like that, and no buttons take no place.
LayoutsFit ==
    /\ Arranged(Keyboard.rows, Keyboard.keys)
    /\ \A pad \in Pads : Arranged(FitButtons(pad.side, pad.size, Len(pad.keys)), pad.keys)
    /\ \A w \in Windows : ReArrange(FitButtons(NoPad.side, NoPad.size, 0), w) = <<>>

\* The buttons that touches are matched with are where they belong in the window
\* of now, inside it and none under another, after any resize and switch.
ButtonsFitWindow ==
    LET t == engine.active_touch_keys
    IN  /\ engine.areas[t] = ReArrange(LayoutOf(engine, t), window)
        /\ Fits(engine.areas[t], window)
=============================================================================
