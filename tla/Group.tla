--------------------------------- MODULE Group ---------------------------------
(****************************************************************************)
(* Group membership: the server's groups (src/src/server/group.cpp and the  *)
(* login path of baseserver.cpp), the copies its clients keep (NetGroup and *)
(* NetGroupsHandler, src/src/client), and the packages that carry the       *)
(* changes from the one to the others.                                      *)
(*                                                                          *)
(* Every package of the server goes through ConnectionHandler::qsend_udp:   *)
(* over TCP until the UDP handshake of that client is handled, over UDP     *)
(* afterwards.  Each lane delivers in order (UdpChannel, TcpStream); nothing *)
(* orders one lane after the other.                                         *)
(*                                                                          *)
(* A member of Clients is one connection: its id is never used again.  The  *)
(* server runs on one thread; the game thread only reads groups.            *)
(*                                                                          *)
(* Each client/login of a connection, the first or not, adds it to a group  *)
(* and registers another set of listeners; a package or a close runs those  *)
(* of every login in turn, one step each (RunListener).                     *)
(****************************************************************************)
EXTENDS Naturals, Sequences, FiniteSets, SequencesExt

CONSTANTS
    Clients,        \* connections
    MaxPlayers,     \* max_players of a group
    MaxLogins,      \* bound: client/login packages handled
    MaxReady,       \* bound: group/set_ready_state packages handled
    MaxCloses,      \* bound: closes of connections, the first and the second of each
    MaxInFlight,    \* bound: the server acts while no client has more to receive
    NoOne,          \* the owner_id of a group nobody has joined
    NoGroup         \* NetGroupsHandler::group is nullptr

ASSUME MaxPlayersAssumption == MaxPlayers \in Nat \ {0}
ASSUME MaxLoginsAssumption == MaxLogins \in Nat
ASSUME MaxReadyAssumption == MaxReady \in Nat
ASSUME MaxClosesAssumption == MaxCloses \in Nat
ASSUME MaxInFlightAssumption == MaxInFlight \in Nat
ASSUME NoOneAssumption == NoOne \notin Clients
ASSUME NoGroupAssumption ==
    NoGroup \notin [owner_id : Clients, members : UNION {[D -> BOOLEAN] : D \in SUBSET Clients},
                    sorted_members_ids : Seq(Clients)]

VARIABLES
    conn,           \* "off", "connected", "full" or "closed", per client
    closed_again,   \* clients whose connection was closed a second time
    groups,         \* the server's groups, in order of id
    joined,         \* the groups of a client's logins, in order: its listeners
    dispatch,       \* the listeners still to run of what is being handled
    logins,         \* number of client/login packages handled
    readies,        \* number of set_ready_state packages handled
    lanes,          \* packages on the way to a client, per transport
    netgroup,       \* a client's NetGroup
    overtaken       \* history: clients that handled a package by UDP before one
                    \* that was sent to them earlier, by TCP

serverVars == <<conn, closed_again, groups, joined, dispatch, logins, readies>>
vars == <<serverVars, lanes, netgroup, overtaken>>

Transports == {"tcp", "udp"}
Open(c) == conn[c] \in {"connected", "full"}

\* The server handles nothing.
Idle == [event |-> "net/disconnect", client |-> NoOne, state |-> FALSE, groups |-> <<>>]

EmptyGroup == [owner_id |-> NoOne, players |-> <<>>, sorted_members_ids |-> <<>>]

Init ==
    /\ conn = [c \in Clients |-> "off"]
    /\ closed_again = {}
    /\ groups = <<>>
    /\ joined = [c \in Clients |-> <<>>]
    /\ dispatch = Idle
    /\ logins = 0
    /\ readies = 0
    /\ lanes = [c \in Clients |-> [t \in Transports |-> <<>>]]
    /\ netgroup = [c \in Clients |-> NoGroup]
    /\ overtaken = {}

-----------------------------------------------------------------------------
(* Packages                                                                 *)

Member(c, ready) == [client_id |-> c, ready |-> ready]

\* get_members_json.  It skips an id without a player: there is none when it runs.
Members(gr) ==
    [k \in DOMAIN gr.sorted_members_ids |->
        Member(gr.sorted_members_ids[k], gr.players[gr.sorted_members_ids[k]])]

GroupsJoin(gr) ==
    [type |-> "groups/join", owner_id |-> gr.owner_id, members |-> Members(gr)]
MemberJoin(c) == [type |-> "group/member_join", member |-> Member(c, FALSE)]
MemberLeave(c, owner) ==
    [type |-> "group/member_leave", client_id |-> c, new_owner_id |-> owner]
MemberUpdate(member) == [type |-> "group/member_update", member |-> member]
GameStart(order) == [type |-> "group/game_start", players_order |-> order]

\* qsend_udp to each client d of the packages pkgs[d]; broadcast skips a client
\* that is not connected.
Transport(c) == IF conn[c] = "full" THEN "udp" ELSE "tcp"
Send(pkgs) ==
    lanes' = [d \in Clients |->
                 IF Open(d)
                 THEN [lanes[d] EXCEPT ![Transport(d)] = @ \o pkgs[d]]
                 ELSE lanes[d]]

\* broadcast to the members of a group.
Broadcast(gr, pkgs) ==
    Send([d \in Clients |-> IF d \in DOMAIN gr.players THEN pkgs ELSE <<>>])

-----------------------------------------------------------------------------
(* Server                                                                   *)

IsFullTooLate(gr) == Cardinality(DOMAIN gr.players) > MaxPlayers
IsFull(gr) == Cardinality(DOMAIN gr.players) >= MaxPlayers

\* A client connects and its app info is accepted.
Connect(c) ==
    /\ dispatch = Idle
    /\ conn[c] = "off"
    /\ conn' = [conn EXCEPT ![c] = "connected"]
    /\ UNCHANGED <<closed_again, groups, joined, dispatch, logins, readies>>
    /\ UNCHANGED <<lanes, netgroup, overtaken>>

\* The server handles the client's UDP handshake (on_handshake_done).
HandshakeDone(c) ==
    /\ dispatch = Idle
    /\ conn[c] = "connected"
    /\ conn' = [conn EXCEPT ![c] = "full"]
    /\ UNCHANGED <<closed_again, groups, joined, dispatch, logins, readies>>
    /\ UNCHANGED <<lanes, netgroup, overtaken>>

\* add_client, without its packages: of a client that is a member already as well.
AddClient(gr, c) ==
    [owner_id |-> IF gr.owner_id = NoOne THEN c ELSE gr.owner_id,
     players |-> [d \in DOMAIN gr.players \cup {c} |->
                     IF d = c THEN FALSE ELSE gr.players[d]],
     sorted_members_ids |-> Append(gr.sorted_members_ids, c)]

\* client/login, once or again: assign_client_to_group and add_client.  Any group
\* that is not full may come first in the unordered_map.  The groups/create that
\* announces a new one changes no NetGroup, and is left out.
Login(c) ==
    /\ Open(c)
    /\ logins < MaxLogins
    /\ logins' = logins + 1
    /\ LET free == {g \in DOMAIN groups : ~IsFull(groups[g])}
           new == Len(groups) + 1
       IN  \E g \in IF free = {} THEN {new} ELSE free :
              LET gr == IF g = new THEN EmptyGroup ELSE groups[g]
                  gr2 == AddClient(gr, c)
              IN  /\ groups' = [h \in DOMAIN groups \cup {g} |->
                                   IF h = g THEN gr2 ELSE groups[h]]
                  /\ joined' = [joined EXCEPT ![c] = Append(@, g)]
                  /\ Send([d \in Clients |->
                             (IF d \in DOMAIN gr.players THEN <<MemberJoin(c)>> ELSE <<>>)
                             \o (IF d = c THEN <<GroupsJoin(gr2)>> ELSE <<>>)])
    /\ UNCHANGED <<conn, closed_again, dispatch, readies, netgroup, overtaken>>

\* dispatch_listeners: the listeners that a client's logins have registered for an
\* event, by their groups gs.
Listeners(event, c, state, gs) ==
    IF gs = <<>> THEN Idle
    ELSE [event |-> event, client |-> c, state |-> state, groups |-> gs]

\* group/set_ready_state.  Only a client that has a NetGroup sends it
\* (NetGroup::send_ready_state).
SetReadyState(c, state) ==
    /\ Open(c)
    /\ netgroup[c] # NoGroup
    /\ readies < MaxReady
    /\ readies' = readies + 1
    /\ dispatch' = Listeners("group/set_ready_state", c, state, joined[c])
    /\ UNCHANGED <<conn, closed_again, groups, joined, logins, lanes, netgroup, overtaken>>

\* The closes so far, which MaxCloses bounds.
Closes == Cardinality({c \in Clients : conn[c] = "closed"}) + Cardinality(closed_again)

\* close, after a read or write error of the client's connection.
Disconnect(c) ==
    /\ Open(c)
    /\ Closes < MaxCloses
    /\ conn' = [conn EXCEPT ![c] = "closed"]
    /\ dispatch' = Listeners("net/disconnect", c, FALSE, joined[c])
    /\ UNCHANGED <<closed_again, groups, joined, logins, readies, lanes, netgroup, overtaken>>

\* close runs again: in the handler of another aborted operation, or in the
\* destructor when remove_client deletes the Client.
CloseAgain(c) ==
    /\ conn[c] = "closed"
    /\ c \notin closed_again
    /\ Closes < MaxCloses
    /\ closed_again' = closed_again \cup {c}
    /\ dispatch' = Listeners("net/disconnect", c, FALSE, joined[c])
    /\ UNCHANGED <<conn, groups, joined, logins, readies, lanes, netgroup, overtaken>>

\* set_ready_state starts a game when that made every player of a full group
\* ready.
StartsGameBefore(before, after) == IsFull(after) /\ \A d \in DOMAIN after.players : before.players[d]
StartsGame(before, after) == IsFull(after) /\ \A d \in DOMAIN after.players : after.players[d]

\* new_game: nobody is ready, and every member is told of every other, in the order
\* of the unordered_map.
Unready(gr) == [gr EXCEPT !.players = [d \in DOMAIN @ |-> FALSE]]
Orders(players) == SetToSeqs(DOMAIN players)
NewGameUpdatesStale(gr, order) ==
    [k \in DOMAIN order |-> MemberUpdate(Member(order[k], gr.players[order[k]]))]
NewGameUpdates(gr, order) ==
    [k \in DOMAIN order |-> MemberUpdate(Member(order[k], Unready(gr).players[order[k]]))]

\* The listener of group/set_ready_state, and start_game when all are ready.
ReadyListener(g, c, state) ==
    LET gr == [groups[g] EXCEPT !.players[c] = state]
        update == <<MemberUpdate(Member(c, state))>>
    IN  IF StartsGame(groups[g], gr)
        THEN /\ groups' = [groups EXCEPT ![g] = Unready(gr)]
             /\ \E order \in Orders(gr.players) :
                   Broadcast(gr, update \o NewGameUpdates(gr, order)
                                        \o <<GameStart(gr.sorted_members_ids)>>)
        ELSE /\ groups' = [groups EXCEPT ![g] = gr]
             /\ Broadcast(gr, update)

WithoutErasing(ids, c) == ids
Without(ids, c) == RemoveFirst(ids, c)

\* drop_member: the listener of net/disconnect.  Any remaining player may come
\* first in the unordered_map and becomes the owner; an emptied group keeps its
\* owner and tells nobody.
DropMember(g, c) ==
    LET gr == [groups[g] EXCEPT
                  !.players = [d \in DOMAIN @ \ {c} |-> @[d]],
                  !.sorted_members_ids = Without(@, c)]
    IN  \/ /\ DOMAIN gr.players = {}
           /\ groups' = [groups EXCEPT ![g] = gr]
           /\ UNCHANGED lanes
        \/ \E owner \in DOMAIN gr.players :
              /\ groups' = [groups EXCEPT ![g] = [gr EXCEPT !.owner_id = owner]]
              /\ Broadcast(gr, <<MemberLeave(c, owner)>>)

\* The next listener of what is being handled.
RunListener ==
    /\ dispatch # Idle
    /\ LET g == Head(dispatch.groups)
           c == dispatch.client
       IN  \/ /\ dispatch.event = "group/set_ready_state"
              /\ ReadyListener(g, c, dispatch.state)
           \/ /\ dispatch.event = "net/disconnect"
              /\ DropMember(g, c)
    /\ dispatch' = Listeners(dispatch.event, dispatch.client, dispatch.state,
                             Tail(dispatch.groups))
    /\ UNCHANGED <<conn, closed_again, joined, logins, readies, netgroup, overtaken>>

-----------------------------------------------------------------------------
(* Client                                                                   *)

NewNetGroup(owner, members) ==
    LET ids == [k \in DOMAIN members |-> members[k].client_id]
    IN  [owner_id |-> owner,
         members |-> [d \in ToSet(ids) |->
                         members[CHOOSE k \in DOMAIN ids : ids[k] = d].ready],
         sorted_members_ids |-> ids]

Join(view, member) ==
    [view EXCEPT
        !.members = [d \in DOMAIN @ \cup {member.client_id} |->
                        IF d = member.client_id THEN member.ready ELSE @[d]],
        !.sorted_members_ids = Append(@, member.client_id)]

LeaveKeepsOwner(view, id, owner) ==
    [view EXCEPT
        !.members = [d \in DOMAIN @ \ {id} |-> @[d]],
        !.sorted_members_ids = RemoveFirst(@, id)]
Leave(view, id, owner) == [LeaveKeepsOwner(view, id, owner) EXCEPT !.owner_id = owner]

Update(view, member) ==
    IF member.client_id \in DOMAIN view.members
    THEN [view EXCEPT !.members[member.client_id] = member.ready]
    ELSE view

\* What a package does to a client's NetGroup: groups/join creates one (and
\* disposes of the previous one), the listeners of a NetGroup see the others.
Apply(view, pkg) ==
    CASE pkg.type = "groups/join" -> NewNetGroup(pkg.owner_id, pkg.members)
      [] pkg.type = "group/member_join" /\ view # NoGroup -> Join(view, pkg.member)
      [] pkg.type = "group/member_leave" /\ view # NoGroup ->
            Leave(view, pkg.client_id, pkg.new_owner_id)
      [] pkg.type = "group/member_update" /\ view # NoGroup -> Update(view, pkg.member)
      [] OTHER -> view

Receive(c, t) ==
    /\ lanes[c][t] # <<>>
    /\ netgroup' = [netgroup EXCEPT ![c] = Apply(@, Head(lanes[c][t]))]
    /\ lanes' = [lanes EXCEPT ![c][t] = Tail(@)]
    /\ overtaken' = IF t = "udp" /\ lanes[c]["tcp"] # <<>>
                    THEN overtaken \cup {c} ELSE overtaken
    /\ UNCHANGED serverVars

-----------------------------------------------------------------------------
Backlog(c) == Len(lanes[c]["tcp"]) + Len(lanes[c]["udp"])

ServerActs(c) ==
    /\ dispatch = Idle
    /\ \A d \in Clients : Backlog(d) <= MaxInFlight
    /\ \/ Login(c)
       \/ \E state \in BOOLEAN : SetReadyState(c, state)
       \/ Disconnect(c)
       \/ CloseAgain(c)

Next ==
    \/ \E c \in Clients :
        \/ Connect(c)
        \/ HandshakeDone(c)
        \/ ServerActs(c)
        \/ \E t \in Transports : Receive(c, t)
    \/ RunListener

Spec == Init /\ [][Next]_vars

-----------------------------------------------------------------------------
(* Properties                                                               *)

IsGroup(gr) ==
    /\ gr.owner_id \in Clients
    /\ DOMAIN gr.players \subseteq Clients
    /\ \A d \in DOMAIN gr.players : gr.players[d] \in BOOLEAN
    /\ gr.sorted_members_ids \in Seq(Clients)
    /\ Cardinality(DOMAIN gr.players) <= MaxPlayers

\* The type invariant; no group has more than max_players members.
TypeOK ==
    /\ conn \in [Clients -> {"off", "connected", "full", "closed"}]
    /\ closed_again \subseteq Clients
    /\ \A g \in DOMAIN groups : g \in 1 .. Len(groups) /\ IsGroup(groups[g])
    /\ joined \in [Clients -> Seq(1 .. Len(groups))]
    /\ dispatch = Idle \/ dispatch \in [event : {"net/disconnect", "group/set_ready_state"},
                                       client : Clients, state : BOOLEAN,
                                       groups : Seq(1 .. Len(groups))]
    /\ logins \in 0 .. MaxLogins
    /\ readies \in 0 .. MaxReady
    /\ overtaken \subseteq Clients

\* Between two things the server handles, the members of a group are the clients
\* that logged in to it and are still connected, in sorted_members_ids as often as
\* they logged in: no close (however often it is repeated) leaves a dead client to be
\* broadcast to, and no order of logins, repeated ones and drops parts the map from
\* the vector.
Occurrences(s, x) == Cardinality({k \in DOMAIN s : s[k] = x})
MembershipAgrees ==
    dispatch = Idle =>
        \A g \in DOMAIN groups : \A c \in Clients :
            LET times == IF Open(c) THEN Occurrences(joined[c], g) ELSE 0
            IN  /\ c \in DOMAIN groups[g].players <=> times > 0
                /\ Occurrences(groups[g].sorted_members_ids, c) = times

\* A full group whose players are all ready has started its game: nobody waits
\* for a start that only another set_ready_state would bring.
NoGameHeldBack ==
    \A g \in DOMAIN groups :
        ~ (IsFull(groups[g]) /\ \A d \in DOMAIN groups[g].players : groups[g].players[d])

InFlight(c) == lanes[c]["tcp"] \o lanes[c]["udp"]
ViewOf(gr) ==
    [owner_id |-> gr.owner_id, members |-> gr.players,
     sorted_members_ids |-> gr.sorted_members_ids]

\* The views of a client that handles pkgs: views[k] after the first k of them.
Views(view, pkgs) ==
    LET views[k \in 0 .. Len(pkgs)] ==
            IF k = 0 THEN view ELSE Apply(views[k - 1], pkgs[k])
    IN  views

\* Every login of c was to group g: its packages are of one group.
Follows(c, g) == ToSet(joined[c]) = {g}

\* Handling what is on its way turns a connected member's NetGroup into an exact
\* copy of the server's group, owner, ready states and order included, whatever
\* logins, repeated ones, leaves, updates and repeated closes cross on the wire: of a
\* client for which no package has overtaken another, and which is in one group.
ViewsCatchUp ==
    \A c \in Clients : \A g \in DOMAIN groups :
        Follows(c, g) /\ Open(c) /\ c \notin overtaken =>
            Views(netgroup[c], InFlight(c))[Len(InFlight(c))] = ViewOf(groups[g])

\* When such a client handles group/game_start, players_order is the member list its
\* own NetGroup has by then, of max_players clients with itself among them and nobody
\* ready any more: the player_key of an event means the same player at both ends.
GameStartsWithView ==
    \A c \in Clients : \A k \in DOMAIN InFlight(c) :
        LET pkg == InFlight(c)[k]
            view == Views(netgroup[c], InFlight(c))[k - 1]
        IN  /\ pkg.type = "group/game_start"
            /\ \E g \in DOMAIN groups : Follows(c, g)
            /\ c \notin overtaken
            => /\ view # NoGroup
               /\ view.sorted_members_ids = pkg.players_order
               /\ c \in ToSet(pkg.players_order)
               /\ Cardinality(ToSet(pkg.players_order)) = MaxPlayers
               /\ \A d \in DOMAIN view.members : ~view.members[d]

-----------------------------------------------------------------------------
(* What a comment of the code says and the code does not do.                *)

\* netgroup.h: members is "the list of members in the group", changed only by the
\* server's events: a client that logged in once and has nothing left to receive has
\* the server's list.  Fails when the handshake is handled after the login: the
\* transports reorder.
NetGroupIsTheGroup ==
    \A c \in Clients : \A g \in DOMAIN groups :
        joined[c] = <<g>> /\ Open(c) /\ InFlight(c) = <<>> =>
            netgroup[c] = ViewOf(groups[g])
=============================================================================
