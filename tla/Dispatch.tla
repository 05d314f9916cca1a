-------------------------------- MODULE Dispatch --------------------------------
(****************************************************************************)
(* How a ConnectionHandler gives an event to its listeners:                 *)
(* dispatch_listeners, create_nelh and _remove_nelh                         *)
(* (src/src/connectionhandler.cpp) with the handlers they work on           *)
(* (src/src/neteventslistenershandler.cpp).  A listener may, while the      *)
(* dispatch goes on, add a listener, create a handler, dispose one, its own *)
(* included, or throw.  No listener of the repository removes a listener or *)
(* dispatches another event.                                                *)
(****************************************************************************)
EXTENDS Naturals, Sequences, FiniteSets, SequencesExt

CONSTANTS
    Types,          \* types of events
    NoType,
    MaxHandlers,    \* bound: handlers created
    MaxListeners,   \* bound: listeners of one handler
    MaxEvents       \* bound: events dispatched

ASSUME NoTypeAssumption == NoType \notin Types
ASSUME BoundsAssumption == MaxHandlers \in Nat /\ MaxListeners \in Nat /\ MaxEvents \in Nat

VARIABLES
    nelhs,      \* the handlers of the connection, numbered as they were created
    created,    \* number of them so far
    listeners,  \* listeners[h]: the types of the listeners of h, by id
    disposed,   \* handlers that are disposed, and no longer enabled
    type,       \* the event that is dispatched, or NoType
    i,          \* index of the loop over nelhs
    left,       \* <<handler, listener>>: the listeners of nelhs[i] still to call
    events,     \* events dispatched
    due,        \* history: listeners that this event is for
    called      \* history: those it was given to, in order

handlerVars == <<nelhs, created, listeners, disposed>>
loopVars == <<type, i, left>>
vars == <<handlerVars, loopVars, events, due, called>>

Handlers == 1 .. MaxHandlers

Init ==
    /\ nelhs = <<>>
    /\ created = 0
    /\ listeners = [h \in Handlers |-> <<>>]
    /\ disposed = {}
    /\ type = NoType
    /\ i = 0
    /\ left = {}
    /\ events = 0
    /\ due = {}
    /\ called = <<>>

\* get_listeners
Listeners(h, t) ==
    IF h \in disposed THEN {} ELSE {l \in DOMAIN listeners[h] : listeners[h][l] = t}

-----------------------------------------------------------------------------
(* What the application or a listener does with handlers                    *)

AddEventListener(h, t) ==
    /\ Len(listeners[h]) < MaxListeners
    /\ listeners' = [listeners EXCEPT ![h] = Append(@, t)]
    /\ UNCHANGED <<nelhs, created, disposed, due>>

\* A NetGroup creates a handler and adds its listeners at once; it hears of the
\* event of now, too.
CreateNelh(t) ==
    /\ created < MaxHandlers
    /\ created' = created + 1
    /\ nelhs' = Append(nelhs, created')
    /\ listeners' = [listeners EXCEPT ![created'] = <<t>>]
    /\ due' = IF t = type THEN due \cup {<<created', 1>>} ELSE due
    /\ UNCHANGED disposed

Dispose(h) ==
    /\ disposed' = disposed \cup {h}
    /\ UNCHANGED <<nelhs, created, listeners, due>>

Change ==
    \/ \E h \in Range(nelhs), t \in Types : AddEventListener(h, t)
    \/ \E t \in Types : CreateNelh(t)
    \/ \E h \in Range(nelhs) \ disposed : Dispose(h)

Application ==
    /\ type = NoType
    /\ Change
    /\ UNCHANGED <<loopVars, events, called>>

-----------------------------------------------------------------------------
(* dispatch_listeners                                                       *)

Dispatch(t) ==
    /\ type = NoType
    /\ events < MaxEvents
    /\ events' = events + 1
    /\ type' = t
    /\ i' = 0
    /\ left' = {}
    /\ due' = UNION {{h} \X Listeners(h, t) : h \in Range(nelhs)}
    /\ called' = <<>>
    /\ UNCHANGED handlerVars

\* The loop's condition: the vector may have grown.
HasNextBefore == i + 1 < Len(nelhs)
HasNext == i < Len(nelhs)

NextHandler ==
    /\ type # NoType
    /\ left = {}
    /\ HasNext
    /\ i' = i + 1
    /\ left' = {nelhs[i']} \X Listeners(nelhs[i'], type)
    /\ UNCHANGED <<handlerVars, type, events, due, called>>

\* After each call, the loop over the listeners ends if their handler is disposed.
RemainingAll(d) == left \ {d}
Remaining(d) == {e \in left : e # d /\ e[1] \notin disposed'}

\* The listeners of a handler are called in the order of a hash table.
CallListener ==
    /\ \E d \in left :
           /\ Change \/ UNCHANGED <<handlerVars, due>>
           /\ called' = Append(called, d)
           /\ left' = Remaining(d)
    /\ UNCHANGED <<type, i, events>>

\* What a listener throws leaves dispatch_listeners.
ListenerThrows ==
    /\ \E d \in left : called' = Append(called, d)
    /\ type' = NoType
    /\ left' = {}
    /\ due' = {}
    /\ UNCHANGED <<handlerVars, i, events>>

\* The disposed handlers are removed, and deleted; kept[n] is what is left of the
\* first n handlers.
Kept ==
    LET kept[n \in 0 .. Len(nelhs)] ==
            IF n = 0 THEN <<>>
            ELSE IF nelhs[n] \in disposed THEN kept[n - 1]
            ELSE Append(kept[n - 1], nelhs[n])
    IN  kept[Len(nelhs)]

EndDispatch ==
    /\ type # NoType
    /\ left = {}
    /\ ~HasNext
    /\ nelhs' = Kept
    /\ type' = NoType
    /\ UNCHANGED <<created, listeners, disposed, i, left, events, due, called>>

Next ==
    \/ Application
    \/ \E t \in Types : Dispatch(t)
    \/ NextHandler
    \/ CallListener
    \/ ListenerThrows
    \/ EndDispatch

Spec == Init /\ [][Next]_vars

-----------------------------------------------------------------------------
(* Properties                                                               *)

\* A disposed handler is not heard of again: the listeners of a NetGroup, which
\* refer to it, are not called once it is destroyed, not even by the dispatch in
\* which a listener destroys it.
DisposedIsSilent ==
    [][\A h \in disposed : called' = called \/ called' = <<>> \/ Last(called')[1] # h]_vars

\* Every listener that an event is for is called, and none twice, whatever other
\* listeners create, add and dispose on the way; handlers created on the way too.
\* Only listeners of a handler that was disposed meanwhile may be left out.
EachCalledOnce ==
    /\ \A m, n \in DOMAIN called : called[m] = called[n] => m = n
    /\ type = NoType =>
           \A d \in due : d \in Range(called) \/ d[1] \in disposed
=============================================================================
