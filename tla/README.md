# Formal models of serendipia-engine

TLA+ modules, TLC configurations and TLAPS proofs for the engine: how packages travel
between a client and the server and reach their listeners, how a client's connection
lives through its sessions, how the server's groups and the clients' copies of them
stay the same, how a game keeps its ticks, and how a client's main loop treats stages,
touch keys and inputs. Paths are relative to the repository; `src/udpcontroller.cpp` is
`src/src/udpcontroller.cpp` in `PROJECT.json`.

To run: `tlc -config MCUdpChannel.cfg MCUdpChannel` (each run of the table in section 3),
`tlapm M.tla` for each `M` of `UdpChannelProofs`, `TcpStreamProofs`, `SessionProofs`,
`DispatchProofs`, `GroupProofs`, `GameLoopProofs`, `ClientUiProofs`, `InputsProofs`.

## 1. The system

A game built with the engine is a server (`BaseServer`) and clients (`BaseClient`).
They exchange JSON packages; events go by UDP when it is up, requests by TCP.

| Component | State | Operations | What makes it correct |
|---|---|---|---|
| UDP channel, `UdpController`, `UdpChannelController` | channels by endpoint; per channel `next_pkg_id`, `unconfirmed_pkgs`, `pkgs_buffer`, `last_handled_pkg_id`, `confirmed_handshake`, callbacks, a timer wait per package | handshake, `send`, the retry check of `_send`, `handle_pkg`, `yield_pkgs_buffer` | in order and exactly once; nothing acknowledged and then forgotten; nothing that stays unconfirmed without a retry; both ends agree on the handshake |
| TCP stream, `ConnectionHandler` | `busy`, `pkg_queue`, `pending_data`, `stream_buffer`, `connection_state`, `receiving` | `qsend`, `_send`, `handle_qsent_content`, `handle_qread_content`, `close` | packages arrive whole and in order, however writes and reads cut them; a queue never waits without a write |
| Dispatch, `NetEventsListenersHandler` | handlers, their listeners, `requests_cbs` | `create_nelh`, `add_event_listener`, `dispatch_listeners`, `dispose`, `process_request` | every listener an event is for is called once; a disposed handler is not heard of again |
| Client session, `Connection` | socket, io thread, `io_context_running`, ping timer, what `ConnectionHandler` keeps | `connect`, `setup_udp`, `start_ping_task`, end of the io thread | one io thread; every session reads and writes; the application is announced first; `connect` ends |
| Server connections, `BaseServer`, `Client` | `clients`, `groups`, `app_validated` | accept, `on_new_connection`, `on_new_channel`, `remove_dead_connections`, `assign_client_to_group` | dead clients go, live ones stay reachable |
| Group, server side | `players`, `sorted_members_ids`, `owner_id`, ready states | `add_client`, `drop_member`, set_ready_state, `start_game` | map and vector agree with the open connections; a ready group starts |
| Group, client side, `NetGroup`, `NetGroupsHandler` | `members`, `sorted_members_ids`, `owner_id` | listeners of `groups/*` and `group/*` | a copy of the server's group |
| Game loop of a group | `game`, `evt_queue`, tick, a thread of its own | `game_main_loop`, game/event, game/desync | every client applies the same events at the same tick, or is resynchronised |
| Client main loop, `BaseClient` | stages, active stage and input, `must_run_on_enter_stage`, `keys[]`, the active set of touch keys | `run`, `on_event`, `run_tick`, `set_stage`, `set_active_touch_keys` | no tick before `on_enter_stage`; input and stage belong together; no key stays down by itself |
| Touch keys, `TouchKeys` | layout, areas, the touch that presses each button | `redefine_touch_event`, `re_arrange`, `fit_buttons`, `clear_buttons` | buttons are in the window, none under another; a release finds its press |
| Inputs, `TextInput`, `SelectInput` | text, position (twice), insert mode; options, chosen option | `process_key`, `set_from_json_value`, `set_options`, `is_valid` | the positions agree; the text field edits one text at one place; an arrow ends on an option |
| Allegro, media, logging, random numbers, objects | handles of a library | drawing, files | not modelled: input and output |

How they interact. On the server one io thread runs the accept loop, all reads, all
UDP handlers and all timers; each running game adds a thread that applies events and
may broadcast. On a client an io thread runs the connection, and the application's
thread calls `send_event` and `connect`; the same thread runs the main loop, which hands
events to the active stage, and the active input, one at a time. `ConnectionHandler` chooses the transport per
package (`qsend_udp`): UDP once `on_handshake_done` has set
`CONNECTION_STATE_CONNECTED_FULL`, TCP before. Packages of either transport reach
`handle_json_pkg`, then the listeners of the `NetEventsListenersHandler`s. `close`
resets the callbacks of the channel, which the `UdpController` keeps, and dispatches
`net/disconnect`, on which a group drops its member.

What is hard. The network loses, repeats and reorders datagrams. Timers race with
acknowledgements. A handler may throw in the middle of a package. `close` may run
several times, and late datagrams may come after it. The two transports are not ordered
with respect to each other. TCP cuts the stream anywhere. The application's thread
connects again while the io thread of the last session is on its way out. Listeners,
stages and touch keys are changed by the handlers that run because of them, and several
fingers and two keyboards press keys whose release is looked up later. Several threads
call `qsend` and `send` without a lock. `PROJECT.json` lists each hazard at its line with the
properties that would catch it, or a note on why none does yet.

## 2. The modules

| Module | What it is |
|---|---|
| `ReliableChannel` | abstract: per direction, a sequence sent and a growing prefix of it delivered |
| `UdpChannel` | the two ends of one UDP channel, with the network, `ConnectionHandler::close` and the server's registry |
| `TcpStream` | one direction of the TCP connection, from `qsend` to the packages handled |
| `Session` | a client's `Connection` over its sessions: two threads, the socket, what one session leaves to the next |
| `Dispatch` | the listeners and handlers of a connection while an event is given to them |
| `Group` | the server's groups, the packages about them, and the clients' `NetGroup`s |
| `GameLoop` | the game of one group: its event queue, its ticks, its thread and the io thread |
| `ClientUi` | the main loop of a client: stages, active input, keys and touch keys |
| `TouchLayout` | where `TouchKeys` puts its buttons: operators used by `ClientUi` |
| `Editor` | abstract: a text with a cursor in it |
| `Inputs` | `TextInput` and `SelectInput` |
| `XProofs` | theorems about `X`, for each `X` above but the two abstract ones and `TouchLayout` |
| `MCX` | constants and symmetry for TLC |

### UdpChannel

Variables have the names of the members they model, indexed by side. `net` is the set
of datagrams ever sent: receiving one leaves it there, so it may come again or late,
and nothing forces a receive, so it may be lost. `channel[s]` says that `s` has the
channel in its `UdpController`, which `close` does not change; `udp_channel[s]` is the
pointer in the `ConnectionHandler`, and "channel" also stands for the callbacks being
set, since `set_udp_channel` and `close` set and reset both together.

| Action | Code |
|---|---|
| `SetupUdp` | `Connection::setup_udp` on `net/set_client_id` |
| `ReceiveHandshake` | `start_receive` for an unknown endpoint, `on_new_channel`, `send_handshake_acknowledgement` |
| `ReceiveAck`, `ReceiveData` | `handle_pkg`; the loop `while (yield_pkgs_buffer())` is one step, as it is on the io thread |
| `Send` | `qsend_udp` on a full connection, `send`, `get_new_pkg_id`, the first `_send` |
| `CheckRetry` | the timer handler of `_send`: done, retransmit, or throw |
| `SendFails` | a completion handler that throws |
| `Close`, `CloseCrashes`, `RemoveClient` | `ConnectionHandler::close`, and `remove_dead_connections` with the destructor |

`Poison` is the set of packages whose handling may throw (a listener that throws, a
missing field). `YieldsTo` leaves such a package at the front of the buffer, as the
code does: the throw passes the lines that advance `last_handled_pkg_id` and erase it.
`CloseCrashes` is the outcome of reading the uninitialized `udp_channel`; the other
outcomes are those of `Close`. Abstracted: the content of packages, the delays of the
timers (any order of firing), JSON, the addresses. Duplicate handshakes are ignored by
`handle_pkg`, and so have no action. All calls come from the io thread (see section 6).

### TcpStream

A byte is a pair (package, position), so that losing, doubling or mixing bytes shows.
The terminator is two bytes instead of four: enough for a read to split it. `Chunk`
has two parameters because `_send` takes its package by reference:
`handle_qsent_content` passes `pending_data`, which `_send` assigns before it reads
the rest of its parameter. `ReadPackages` is the loop of `handle_qread_content`, round
by round: `extract_pkg` cuts the buffer at the first terminator, and an empty package
ends the loop, as in the code. `Parses` stands for `boost::json::parse`. It accepts the
packages that were sent, and no front of one, which lacks its closing brace. A package of
more than two buffers goes out as its first buffer, then all from the third on, then the
terminator: its closing brace is there, and whether the text still parses depends on its
content (a long string value does). `Lenient` is the set of the packages for which it does,
so that such a package is handled with a piece missing, or throws.

### Session

`con` is the `Connection` object with its socket; an operator with the name of a method
gives the object the method leaves. `pending` counts the asynchronous operations under
way, `ready` is the queue of completions whose handlers have not run. The application's
thread goes through `Connect`, `AsyncResolve` and `StartContextThread`, the parts of
`connect` and `start_context_thread` between which the io thread may act; `AppSends` is
`qsend`. The io thread is in one of the `Places` of the function that `start_context_thread`
gives it: before `run`, in `run`, in `connect_handler` after the state is set
(`greeting`), on its way to or in the `catch`, before and after `restart`. Each handler is
an action: `Resolved`, `Connected` with `Greet`, `ReadDone`, `WriteDone`,
`OperationFails` (which is `close`), `PingTask`, and those that throw. `threads` counts,
because the code may start a second thread; two threads that run handlers on the same
object are a data race, and from there on no handler is a step.

Five history variables name what the code does not prevent, so that the properties can
say what holds without it: `missed` (`connect` counted on a thread that had left `run`),
`crossed` (the state was set back to `DISCONNECTED` in the middle of `connect`),
`con.thrown` (a read handler threw since the last `close`), `con.early` (the application
sent before `send_app_info` had run), `con.overlapped` (`connect` was called while a
resolve or a connect of an earlier call was under way). The content of packages is in `TcpStream`, the UDP
channel and `setup_udp` in `UdpChannel`.

### Dispatch

`nelhs` is the vector of handlers, `i` the index of the loop of `dispatch_listeners`,
`left` the listeners of `nelhs[i]` still to be called, as pairs of a handler and a
listener; a hash table orders them, so any may be next. In `CallListener` a listener may
make one `Change`: add a listener, create a handler, dispose one, its own included; or it
throws. `EndDispatch` is the removal of the disposed handlers. `due` and `called` are
history: the pairs the event is for and those it was given to.

### Group

A member of `Clients` is one connection (ids are never used again). `lanes[c]` holds
what is on its way to `c`, per transport; each lane is in order, which `UdpChannel` and
`TcpStream` justify, and no order holds between the two. `groups` are the server's
records, `netgroup[c]` is the copy of client `c`.

| Action | Code |
|---|---|
| `Connect`, `HandshakeDone` | `on_new_connection` with the app info; `on_handshake_done`, before or after a login |
| `Login` | the listener of `client/login`, `assign_client_to_group`, `add_client` with all its broadcasts |
| `SetReadyState`, `Disconnect`, `CloseAgain` | a `group/set_ready_state` package, a `close` and a repeated one: `dispatch_listeners` begins |
| `RunListener` | one listener: `ReadyListener` with `start_game` and `new_game`, or `DropMember` |
| `Receive` | a client handles a package: the listeners of `NetGroupsHandler` and `NetGroup` |

The code does not refuse a `client/login` to a client that has logged in. Each login adds
it to a group that is not full, its own or another, and registers one more set of
listeners; `joined[c]` lists the groups of these sets, and a package or a close runs those
of every login, one `RunListener` each, before the server handles anything else. A client
that logged in twice to one group is in its map once and in `sorted_members_ids` twice. Its
`NetGroup` is that of the last `groups/join`; of a client in two groups it also takes the
packages of the other group, since they name none, and the properties about views leave
such a client out.

Where the code takes the first element of an `unordered_map` (the group to join, the new
owner, the order of `new_game`'s updates), the model takes any. `overtaken` is history: the
clients that handled a package by UDP before an earlier one by TCP. The model assumes that
no package of a client is handled after its close (the case in which one is appears among
the hazards).

### GameLoop

The io thread is `ReceiveEvent` and `QueueEvent` (the listener of `game/event`, cut
where it has read the tick and has not queued the event) and `StartGame`. The thread of
the game is `WaitEnds`, then rounds of the `while` in four steps, then `ProcessTick` and
`EndRound`, the parts of `game_main_loop`. The four steps are `TakeFront` (the size is
tested, the front is copied to `evt`), `CompareTick`, `ApplyEvent` (`process_game_event` on
the game of that moment) and `PopEvent` (which removes what is in front by then): the io
thread may act between any two of them. `waits` counts the pending waits of the timer:
`start_game` makes one, a round uses one up and makes the next. `applied` pairs an event
with the tick at which the server applied it, `synced` counts the applied events that the
last broadcast sync holds. `finished` is what the application's game answers, TRUE from
`MaxTick` on.

`start_game` deletes `io`, `t` and `game` and empties the queue with no regard to the
thread that uses them. `StartGame` and `StartGameCrashes` give the outcomes: the loop ends
with its context, the process ends, or a `game_main_loop` that was running goes on where it
was, with the new `game`, `t` and queue and the event it has in hand, and arms a second
wait. `overlapped` is history: a `start_game` met a running `game_main_loop`. A `pop` of an
empty queue is undefined, and the model takes the process to end. Left out: torn reads of
`evt_queue` (a push, a front, a pop and a tick are single steps), the reply to
`game/desync`, the index of the player, events before the first game. A loop overtaken by a
restart is assumed to end before the new game's first wait does, 1.25 s later.

### ClientUi and TouchLayout

`engine` is the `BaseClient` object, and every action is one turn of the loop of `run`:
a touch that begins, ends or is cancelled, a key, a resize, a tick, the end. A stage is
the application's code: `StageHandler` is what a handler of a stage may leave, at most
one call of `set_stage`, of the touch keys' set-up, or of focus and blur. A touch on a
button is redefined as a key: the handlers see `KEY_CHAR`, then `KEY_DOWN`. `held` is the
touch that presses each button, `areas` where `re_arrange` put it, one of each per set:
`set_active_touch_keys` replaces the set and leaves the presses of the other as they are.
`TOUCH_CANCEL` is no event of the loop. History: `entered` and `redirected` for the
stages, `lost` and `cleared` for the presses that the code forgets (section 3).

`TouchLayout` computes heights and widths with the integers of the code: `uint16_t`
lengths, `uint8_t` sums of shares. Its float divisions are taken as exact.

### Inputs and Editor

An iterator is its distance from `begin()`. The code keeps the position of a `TextInput`
twice, as `iter` and as `caret`; `insert` uses the one, `replace` the other. Every key of
`process_key` is an action, and so is every setter. `Editor` is the text field as seen by
the one who types: what stands before the cursor and after it. `RefinesEditor` maps
`before` to the text up to `caret` and `after` to the text from `iter`, so that the two
have to agree for a step to be one of `Editor`'s.

## 3. Runs

| Run | Checks | Result |
|---|---|---|
| `udp_channel` | `TypeOK`, `InOrderExactlyOnce`, `AckedMeansReceived`, `NoStuckPackage`, `BufferHoldsOnlyPending`, `HandshakeAgreement`, `ClosedClientStaysClosed`, `RefinesReliableChannel`, `SendResolves`, `SentIsHandled` | hold, 89 000 states |
| `udp_give_up` | `GivingUpOnlyStopsTrying` | violated: giving up throws out of `io_context::run` |
| `tcp_stream` | `TypeOK`, `FramedInOrder`, `QueueHasWriter`, `NothingLost`, `AcceptedIsHandled` | hold, 13 000 states |
| `tcp_damaged` | `LongPackagesParse` | violated: the tail of a long package is lost |
| `session` | `OneIoThread`, `ConnectionMoves`, `AppInfoFirst`, `ConnectResolves` | hold, 427 000 states |
| `session_first` | `AppInfoMustBeFirst` | violated: the application sends before `net/appInfo` |
| `dispatch` | `EachCalledOnce`, `DisposedIsSilent` | hold, 319 000 states |
| `group` | `TypeOK`, `MembershipAgrees`, `NoGameHeldBack`, `ViewsCatchUp`, `GameStartsWithView` | hold, 3 600 000 states |
| `group_switch` | `NetGroupIsTheGroup` | violated: UDP overtakes TCP |
| `game_loop` | `TypeOK`, `InOrderOnce`, `LateEventIsSynced`, `QueueIsDue`, `OneLoop`, `OldEventIsFirst`, `AcceptedIsApplied` | hold, 181 000 states |
| `client_ui` | `TypeOK`, `DownIsPressed`, `StageInSync`, `ButtonsFitWindow` | hold, 139 000 states |
| `inputs` | `CaretIsIter`, `KeysEndOnOption`, `RefinesEditor` | hold, 690 states |

### What the code does otherwise than it says

The four violated properties say what a comment of the code says; `findings` in
`PROJECT.json` quotes it. The counterexamples in short:

- `udp_give_up`: send, never acknowledged, the check finds `count > MaxTries`, throws.
- `tcp_damaged`: a package of 3 with a buffer of 2: the first write carries 2, the
  second should carry 1 and the terminator and carries the terminator alone.
- `session_first`: the state is `CONNECTED` (`src/client/connection.cpp:53`), the application
  calls `qsend`, `send_app_info` runs after it, although net/appInfo "is the first tcp pkg
  which must be sent to the server" (`src/client/connection.cpp:142`). The server ignores
  the application's package (`src/server/clients.cpp:67-71`).
- `group_switch`: login by TCP, `groups/join` on its way by TCP, handshake handled,
  another client joins, `member_join` arrives by UDP before there is a `NetGroup`.

Further places where the code parts from one of its comments. The models have these
steps, but for the last, and no run is devoted to them; a checked property that one of them
would break names it as its exception.

- A handshake handled after its client's connection was closed attaches a channel to the
  dead `Client` (`src/server/baseserver.cpp:40`) and sets its state to `CONNECTED_FULL`:
  `remove_dead_connections`, "get rid of dead connections" (`src/server/baseserver.cpp:162`),
  never deletes it (`Close`, then `ReceiveHandshake`).
- A package longer than two buffers loses its second one and keeps its end, and is handled
  in that state if it still parses, although `qsend` "Sends raw data via TCP socket"
  (`include/dp/connectionhandler.h:136`): `Lenient` in `TcpStream`, and the second case of
  what `FramedInOrder` allows.
- `connect` relies on a thread that is on its way out of `run` (`io_context_running` is
  still set, `src/client/connection.cpp:87`) and stays `CONNECTING` for good, although "the
  state will eventually change" (`include/dp/client/connection.h:59`): `missed`, the exception
  of `ConnectResolves`.
- An emptied group keeps its `owner_id` (`src/server/group.cpp:57`); the next client to join is
  told an owner who is no member, and `get_owner` throws, although "A group must always have
  a owner" (`include/dp/client/netgroup.h:68`).
- A `start_game` between the front and the application of an event empties the queue
  ("Vaciamos la cola de eventos", we empty the queue of events,
  `src/server/group.cpp:294`) and makes a new game, which is then given the event of the old
  one; the `pop` behind it takes an event of the new game that was not applied, or pops an
  empty queue. `OldEventIsFirst` shows that it is one event at most; `overlapped` is the
  exception of the other properties.
- With `max_chars` 0, "unlimited" (`include/dp/client/ui/textinput.h:49`) and the default,
  `is_valid` accepts any text and `get_validation_msg` (`src/client/ui/textinput.cpp:203`)
  answers "Max: 0 characters". Both are functions of the text alone and not modelled.

### Other behaviour worth a look

The models have these steps too, because the code does. They are not called violations
because what the repository says does not settle what should happen instead; where a
property would fail because of one, it names the exception and nothing wider.

- `close` reads a `udp_channel` that the server's constructor never set
  (`src/connectionhandler.cpp:63`): `CloseCrashes`.
- A second `client/login` puts a client in its group twice, or in a second group whose
  packages its `NetGroup` cannot tell from the first's (`src/server/baseserver.cpp:86`).
  `netgroup.cpp:68` has a TODO, "check key does not exist...", about the client's side of it.
- A lost handshake, or a lost acknowledgement of one, is never retried: UDP stays down, or
  up on the server only (`HandshakeAgreement` has one direction only).
- A package whose handler throws blocks the ones behind it and is handled again (`Poison`).
- A completion of the old socket, or the exception of an old handler, sets the state to
  `DISCONNECTED` in the middle of `connect`; another `connect` is let in and starts a
  second io thread (`crossed`).
- After a read handler that throws, `receiving` stays set and the next session never
  reads (`thrown`). Writing goes on: the aborted write clears `busy`.
- A resolve that outlives its `connect` (the state was set back, another `connect` was let
  in) opens the socket of the later one, or one that nobody greets: what the old session
  has queued may then be the first thing the server reads (`overlapped`), another way to
  break what `AppInfoMustBeFirst` says.
- A ping whose wait is cancelled by a reconnect pings at once, and cancels the next wait.
- A key stays down when its button's set is replaced, its buttons are cleared or its touch
  is cancelled (`lost`, `cleared`).
- A stage made active by another one's `on_enter_stage` is never entered (`redirected`).
- `SelectInput::get_value` reads `end()` after a value that is no option, until an arrow.

### Bounds

`udp_channel`: two packages, the second of which may arrive first, wait for the first and
then be handled in one go with it, and either of which may throw; two retransmissions
before giving up (`MaxTries = 1`; the 100 of the code only lengthens the chain), so that
late duplicates arrive before, between and after what they repeat; one sending side: the
two directions share only the handshake, the closes and the ends of the io threads, all of
which are there. The theorems cover both sides and any number of packages.
`tcp_stream`: packages as long as a write, of one byte more, and of two writes and one
byte, so that both sides of `>` and the rest of a rest occur, three of them, so that the
queue holds two; the first and the third parse if they are damaged in the middle, the
second does not. `tcp_damaged` has a shorter package too. `session`: three calls of
`connect`, so that a session is between two others and what is left of the first meets the
third; one package in the queue, so that a write finds it empty or not, and one is left
over. `dispatch`: three handlers, so that one is created, one disposed and one untouched in
the same dispatch; two listeners of a handler, so that the first can dispose it; two types,
of which a listener may be added for the other; two events, so that the second meets what
the first removed.

`group`: three clients and two places a group, so that a second group, a group that is full
for one of them, one that is filled again and a drop during a join occur; three logins, so
that a client logs in again, to its group or a second one, before and after the others'; two
changes of a ready state, which start one game; two closes, of two clients or twice of one;
a server step while a client has at most one package to handle, which a step can raise by up
to four. `game_loop`: three events, so that one on time follows a late one in the same round;
three ticks; a second game, so that a restart finds the loop waiting, at each of the four
steps of its round, or ended. `client_ui`: two fingers, two stages and an id that
`create_stage` refuses, a text input of one of them, a key of the hardware that the back
button of the touch keys also stands for, an on-screen keyboard with Enter and another key
in one row, two windows, three places to touch: in no button, and in a button of either
set, depending on the set and the window. `inputs`: texts one character longer than can be
typed, so that set and typed texts are below, at and above the limit; option lists
without options, with one, and with a value twice.

Deadlock is not checked: an end may stop for good (closed, thrown, or all bounds reached).

Symmetry, over connections in `MCGroup`, types of events in `MCDispatch` and fingers in
`MCClientUi`, is used only with invariants and one property of single steps
(`DisposedIsSilent`, which names none of the types); no run with liveness has it.

### Fairness

`UdpChannel!Fairness`: a timer wait that is pending fires (the `io_context` runs it);
nothing is assumed of the network, so a package is either acknowledged or given up.
`TcpStream!FairSpec`: the sockets move bytes and the `io_context` runs the completions
and reads; closing may still happen at any time. `Session!FairSpec`: the two threads are
scheduled, and a resolve and a connect end, in success or not, as the operating system's
time limits make them; reads, writes and calls of the application need not happen.
`GameLoop!FairSpec`: the thread of the game runs and its timer expires.

Every checked property has a mutant in `PROJECT.json`: a plausible mistake in the code
(one round instead of the loop, an order reversed, a callback not reset, a queue
forgotten, a thread always started, a remainder dropped) under which the property fails.

## 4. What is proved

All theorems hold for all values of the constants; the assumptions are those that the
modules name, types of the constants and `NoX \notin X`, and the hypothesis that the
table gives for `ClientUi`.

| Module | Theorem | Statement |
|---|---|---|
| `UdpChannelProofs` | `TypeCorrect` | `[]TypeOK` |
| | `Ordered`, `OnlyPending` | `[]InOrderExactlyOnce`, `[]BufferHoldsOnlyPending` |
| | `AckedIsReceived`, `NothingStuck` | `[]AckedMeansReceived`, `[]NoStuckPackage` |
| | `HandshakeAgreed`, `ClosedStaysClosed` | `[]HandshakeAgreement`, `ClosedClientStaysClosed` |
| | `Refinement` | `RefinesReliableChannel` |
| `TcpStreamProofs` | `TypeOKTheorem`, `QueueHasWriterTheorem` | `[]TypeOK`, `[]QueueHasWriter` |
| | `FramedInOrderTheorem`, `NothingLostTheorem` | `[]FramedInOrder`, `[]NothingLost` |
| `SessionProofs` | `OneIoThreadTheorem` | `[]OneIoThread` |
| | `ConnectionMovesTheorem`, `AppInfoFirstTheorem` | `[]ConnectionMoves`, `[]AppInfoFirst` |
| `DispatchProofs` | `DisposedIsSilentTheorem`, `EachCalledOnceTheorem` | `DisposedIsSilent`, `[]EachCalledOnce` |
| `GroupProofs` | `TypeCorrect`, `MembersAgree`, `StartsAreNotHeldBack` | `[]TypeOK`, `[]MembershipAgrees`, `[]NoGameHeldBack` |
| | `ViewsCatchUpTheorem`, `GameStartsTheorem` | `[]ViewsCatchUp`, `[]GameStartsWithView` |
| `GameLoopProofs` | `TypeCorrect`, `InOrder`, `NeverAhead` | `[]TypeOK`, `[]InOrderOnce`, `[]QueueIsDue` |
| | `LateIsSynced`, `LoopsOnce`, `OldEventsComeFirst` | `[]LateEventIsSynced`, `[]OneLoop`, `[]OldEventIsFirst` |
| `ClientUiProofs` | `StageInSyncTheorem` | `[]StageInSync` |
| | `TypeOKTheorem`, `DownIsPressedTheorem` | `[]TypeOK`, `[]DownIsPressed`, both if `LayoutsFit` |
| | `ButtonsFitWindowTheorem` | `[]ButtonsFitWindow`, if `LayoutsFit` |
| `InputsProofs` | `TypeOKTheorem`, `CaretIsIterTheorem` | `[]TypeOK`, `[]CaretIsIter` |
| | `KeysEndOnOptionTheorem`, `RefinesEditorTheorem` | `KeysEndOnOption`, `RefinesEditor` |

How the proofs go, and what each invariant needs beside itself:

- `UdpChannel`, three strengthenings. `OrderInv`: that the packages delivered are a prefix
  of those sent needs that ids number the sent packages (`Numbering`), that every datagram
  in the network, every timer and every buffer entry with id *i* holds the *i*-th package
  sent (`DataWasSent`, `TimersRepeat`, `BufferedWasSent`), and that `last_handled_pkg_id`
  counts the delivered ones. Then a yield from *last* to *n* appends exactly the packages
  *last+1 .. n* of the peer. `ReceiptInv`: that an acknowledged package is held needs the
  same of every acknowledgement still in the network (`AcksAreTrue`), and that what a side
  has it keeps (`PkgIsKept`). `HandshakeInv`: that a confirmed client has a server with a
  channel needs that every datagram for the client was sent after the handshake
  (`ServerAcksAfterHandshake`), and that a disconnected client is detached. The refinement
  maps `sent` and `delivered` to themselves: `Send` is `RC!Send`, `ReceiveData` is
  `RC!Deliver` or a stutter, all else stutters.
- `TcpStream`: `QueueHasWriter` is inductive as it stands. The framing needs `StreamInv`,
  about the bytes that have left the sender and are not yet part of a whole package.
  `WellFormed` says of each place which byte comes next (`After`: the next byte of the same
  package, but from place `MaxBuffer` the one behind two buffers, or the terminator if
  there is none; behind the terminator the first byte of the next package), that the first
  byte is that of the package after the last one handled, and `EndsAt` where the bytes
  stop. So it describes the damaged packages exactly, and it is what makes
  `FramedInOrder` inductive: a package cut off at a terminator has bytes of one package
  only, the next, from its first to its last, or to `MaxBuffer` when its end is lost. If it
  parses it is whole or lacks its second write, since no front of a package parses
  (`WhatWasSent`, `NextPackage`). Writes add to the end (`Begin`, `GoOn`, `Terminate`), `extract_pkg`
  takes from the front (`BehindTerminator`), a close cuts the end (`PrefixWellFormed`).
  The loop of `handle_qread_content` and the bytes of several packages are recursive
  functions; a set of loop states that each round keeps contains the last
  (`LoopInvariant`), by the least round that would leave it, and for `NothingLost` that
  set also says that no round changes the bytes handled plus those still held.
- `Session`: `IInv` is `Announced`, unless the state was set back: one thread at most, a
  thread that has not yet set `io_context_running` comes with a state that allows no
  `connect`, and any other has set it. Most of the proof is that no method called on the
  way (`Begin`, `Send`, `Qsend`, `StartPingTask`) touches `connection_state`.
  `ConnectionMoves` and `AppInfoFirst` share `SInv`, and the queue of `ConnectionMoves` needs
  `QueueInv` beside it: a connected object with packages in the queue is busy, but between
  `CONNECTED` and the end of the greeting, or while an exception is on its way. It says of the threads that one at
  most runs, or that several do with a resolve that none of them can handle (`Stuck`), so
  that handlers never meet a second thread; of the object that what is busy or receiving
  has an operation outstanding and that the socket's operations fit its state; and of a
  session that overlaps no other how far its connect has come (`Orderly`): at rest, or one
  resolve or one connect under way or waiting for its handler, behind which no completion
  of an earlier session's successful write is left. Each operation has a lemma on all the
  fields it leaves; handlers other than the connect's only append to the completions, or
  take one (`Beside`), and that keeps every stage. `SInv` was model-checked with four calls
  of `connect` before it was proved, where `AppInfoFirst` turned out to need the exception
  `overlapped`: three calls are too few to meet it.
- `Dispatch`: `LeftIsLive`, what is left to call belongs to no disposed handler. For
  `EachCalledOnce`, `Walk`: the handlers of the vector are distinct (the removal of the
  disposed ones keeps that, by induction over its loop), listeners called belong to the
  first `i` of them, and one that the event is for was called, is left to call, belongs to
  a handler that comes later (`Ahead`), or its handler is disposed.
- `Group`: `IInv` says of each group's record (`Records`) that its vector has each client as
  often as the client has registrations there that its close has not undone
  (`RegisteredIn`: all of those of an open client, of a closed one those among the listeners
  still to run), that its map has only clients with a registration, and all that are open,
  that there are at most `MaxPlayers` and that no start is held back. It counts
  registrations rather than clients because a repeated login makes another one, and a close
  undoes them one at a time. The lemmas on `Occurrences` say what `Append` and `RemoveFirst`
  do to a count.
  The client's copy needs `VInv`: nothing is on its way by UDP before the handshake is
  handled, and nothing at all before the first login (`LanesOf`); and of a client in one
  group that no package has overtaken, handling what is on its way leads to the server's
  record and finds every `game_start` with its list of players (`ViewIsKept`). What is on
  its way is the TCP lane followed by the UDP lane: what is sent goes to the end of it, and
  what is received is its front, or by UDP overtakes. `Views`, what a client makes of a
  sequence of packages, is a recursive function: that it has a solution, that it has only
  one, that the views of a concatenation are those of its parts and what is left when the
  first package is handled are proved once by induction over the places (`ViewsRecur` to
  `ViewsOfTail`). Each kind of package then turns the view of a group into the view of the
  changed group (`JoinApplies` to `GroupsJoinApplies`; `UpdatesApply` for the loop of
  `new_game`). For a client that a package has overtaken it is false, which the run
  `group_switch` shows.
- `GameLoop`: the types need `TickBound`: every chain of waits comes from a start of the
  game and passes the end of a game at most once. `LateEventIsSynced` needs that the flag
  is down between rounds, and up when an event that is late is about to be applied
  (`FlagIsOfRound`). `InOrderOnce` needs, unless `overlapped`, that the event in hand is the
  front of the queue from its copy to its pop (`InHand`) and that accepted events are
  tallied one by one with those applied and those left (`Tally`); `QueueIsDue` that a stamped
  event is due as well (`StampIsDue`); `OldEventIsFirst` that what is stamped or queued was
  stamped in this game, and that an event in hand that was not means that nothing has been
  applied since the restart (`EventsAreOfGame`).
- `ClientUi`: `InSync`, on the engine: the active stage was created, the flag or `entered`
  is set, the input belongs to the stage, and a redirected stage is not waiting for its
  own call. Each method that a stage may call keeps it.
  `ButtonsInv`, on its buttons: the areas of the active set are those of the window of now
  (`Placed`), a button is pressed by a touch on the screen or by a lost one (`Live`), and a
  touch that was not lost presses a button of the active set and only one (`Single`).
  `Single` is what makes the release of the first button that a touch presses enough: it
  needs that no two buttons overlap, and is the reason that a switch of the set loses the
  touches on it. A button press runs two handlers, the first of which may clear the
  buttons, so that the key that comes down in the second is carried along from the start
  (the `K` of `Down`). That the layouts fit the windows is the hypothesis `LayoutsFit`:
  a layout is a fold over rows, about which nothing can be proved for all layouts, and a
  layout of many shares does leave the window (sums of shares are `uint8_t`). The run
  `client_ui` evaluates `LayoutsFit` for its layouts and windows. The proof is then that no
  sequence of resizes, switches and set-ups leaves the areas of another window in force.
- `Inputs`: the types and `caret = iter` together are inductive, and with them each key is
  the step of `Editor` with its name; the rest is about sequences that are cut in two.

Only model-checked: the liveness properties (`SendResolves`, `SentIsHandled`,
`AcceptedIsHandled`, `ConnectResolves`, `AcceptedIsApplied`), since temporal reasoning with
fairness is out of reach of the prover; and `LayoutsFit`, since a layout is a fold.

## 5. Plan

Done: the modules of section 2, their runs and proofs. Worth adding:

1. `Accept`: the accept loop, `max_connections` (`include/dp/server/baseserver.h:52`) and
   the removal of dead connections before the next accept.
2. Requests and their callbacks: which of them an error or the end of a session leaves in
   `requests_cbs`.
3. The rest of the game: `player_key` after a member left in mid-game, the reply to
   `game/desync`.
4. A replicated group that changes atomically for all its members, which `Group`
   implements once messages are handled.

## 6. Not modelled

- Calls of `qsend` and `send` that overlap. `get_new_pkg_id`, `unconfirmed_pkgs`, `busy`,
  `pkg_queue` and `evt_queue` are used by several threads without a lock. What two threads
  do to a container at the same time is undefined, with no list of outcomes that would be
  faithful, so the models take each call as one step and `Session` stops where a second
  io thread would run handlers.
- Undefined behaviour other than the read of `udp_channel` and the restart of a running
  game: the lambdas that `close` resets while one of them runs, the buffer of an
  acknowledgement that is gone before the asynchronous send reads it, pending handlers of a
  deleted `Client`.
- `NetGroupsHandler`'s list of groups. `groups/create` is its only source: `groups/info`,
  which should list the groups for a client that connects, is never sent.
- `remove_event_listener`, and events dispatched by a listener: nothing in the repository
  does either. Binary transfers. `max_flex_height`, which no layout sets.
- A handler of a stage that makes several calls in one event: `ClientUi` has one call.
- The limit of retries is `MaxTries`; the code compares after the transmission, so that
  100 in the code gives 101 retransmissions. `TypeOK` has that bound.
- Drawing, Allegro's resources, the blinking caret, logging, configuration files, base64,
  the random sequence: input and output, or sequential code without state of its own.
