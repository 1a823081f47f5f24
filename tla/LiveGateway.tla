---------------------------- MODULE LiveGateway ----------------------------
(***************************************************************************)
(* The WebSocket gateway (modules/live): its maps of connected users and   *)
(* of the sockets that view a venue, beside the rooms of socket.io, which  *)
(* decide who receives a broadcast. Handlers have no await, so each is one *)
(* action; what they emit to a room reaches its sockets in order.          *)
(* City, map and business rooms carry no state of the gateway.             *)
(***************************************************************************)
EXTENDS Integers, FiniteSets

CONSTANTS
  Sockets,   \* client.id of a connection: a reconnecting client has a new one
  Users, Venues,
  NoUser     \* the socket is in no map

ASSUME GatewayAssumption == NoUser \notin Users /\ IsFiniteSet(Sockets)

VARIABLES
  status,           \* external: per socket, "new", "open" or "closed"
  socketToUser,     \* Map socketId -> userId
  connectedUsers,   \* Map userId -> Set of socketIds; {} when there is no entry
  venueViewers,     \* Map venueId -> Set of socketIds; {} when there is no entry
  room,             \* external: per venue, the sockets in room venue:<id>
  shown             \* per socket and venue, the last VIEWING_COUNT it was sent

vars == <<status, socketToUser, connectedUsers, venueViewers, room, shown>>

NothingShown == -1

TypeOK ==
  /\ status \in [Sockets -> {"new", "open", "closed"}]
  /\ socketToUser \in [Sockets -> Users \cup {NoUser}]
  /\ connectedUsers \in [Users -> SUBSET Sockets]
  /\ venueViewers \in [Venues -> SUBSET Sockets]
  /\ room \in [Venues -> SUBSET Sockets]
  /\ shown \in [Sockets -> [Venues -> 0 .. Cardinality(Sockets) \cup {NothingShown}]]

-----------------------------------------------------------------------------
(* Variants named after a plausible slip in the definition that follows them
   serve to check that a property notices it. *)

(* A token that verifies names a user, known or not to the users table. *)
HandleConnectionAgain(s, u) ==
  /\ status[s] = "new"
  /\ status' = [status EXCEPT ![s] = "open"]
  /\ socketToUser' = [socketToUser EXCEPT ![s] = u]
  /\ connectedUsers' = [connectedUsers EXCEPT ![u] = {s}]
  /\ UNCHANGED <<venueViewers, room, shown>>
HandleConnection(s, u) ==
  /\ status[s] = "new"
  /\ status' = [status EXCEPT ![s] = "open"]
  /\ socketToUser' = [socketToUser EXCEPT ![s] = u]
  /\ connectedUsers' = [connectedUsers EXCEPT ![u] = @ \cup {s}]
  /\ UNCHANGED <<venueViewers, room, shown>>

(* No token, or one that does not verify: disconnected at once, before the
   gateway listens to its messages. *)
RejectConnection(s) ==
  /\ status[s] = "new"
  /\ status' = [status EXCEPT ![s] = "closed"]
  /\ UNCHANGED <<socketToUser, connectedUsers, venueViewers, room, shown>>

(* Each socket of members[v], for the venues v of vs, is sent the number of
   counted[v]. *)
EmitToSelf(vs, members, counted) == shown
EmitOneMore(vs, members, counted) ==
  [s \in Sockets |-> [v \in Venues |->
     IF v \in vs /\ s \in members[v] THEN Cardinality(counted[v]) + 1 ELSE shown[s][v]]]
EmitCount(vs, members, counted) ==
  [s \in Sockets |-> [v \in Venues |->
     IF v \in vs /\ s \in members[v] THEN Cardinality(counted[v]) ELSE shown[s][v]]]

HandleJoinVenue(s, v) ==
  /\ status[s] = "open"
  /\ room' = [room EXCEPT ![v] = @ \cup {s}]
  /\ venueViewers' = [venueViewers EXCEPT ![v] = @ \cup {s}]
  /\ shown' = EmitCount({v}, room', venueViewers')
  /\ UNCHANGED <<status, socketToUser, connectedUsers>>

(* The count goes out only when the venue has an entry. *)
HandleLeaveVenue(s, v) ==
  /\ status[s] = "open"
  /\ room' = [room EXCEPT ![v] = @ \ {s}]
  /\ venueViewers' = [venueViewers EXCEPT ![v] = @ \ {s}]
  /\ shown' = IF venueViewers[v] = {} THEN shown ELSE EmitCount({v}, room', venueViewers')
  /\ UNCHANGED <<status, socketToUser, connectedUsers>>

KeptWhenAlone(s, viewers) == IF viewers = {s} THEN viewers ELSE viewers \ {s}
Dropped(s, viewers) == viewers \ {s}

(* socket.io has taken the socket out of its rooms before the event. *)
HandleDisconnect(s) ==
  /\ status[s] = "open"
  /\ status' = [status EXCEPT ![s] = "closed"]
  /\ socketToUser' = [socketToUser EXCEPT ![s] = NoUser]
  /\ connectedUsers' = [u \in Users |->
       IF u = socketToUser[s] THEN connectedUsers[u] \ {s} ELSE connectedUsers[u]]
  /\ room' = [v \in Venues |-> room[v] \ {s}]
  /\ venueViewers' = [v \in Venues |-> Dropped(s, venueViewers[v])]
  /\ shown' = EmitCount({v \in Venues : s \in venueViewers[v]}, room', venueViewers')

Init ==
  /\ status = [s \in Sockets |-> "new"]
  /\ socketToUser = [s \in Sockets |-> NoUser]
  /\ connectedUsers = [u \in Users |-> {}]
  /\ venueViewers = [v \in Venues |-> {}]
  /\ room = [v \in Venues |-> {}]
  /\ shown = [s \in Sockets |-> [v \in Venues |-> NothingShown]]

Next ==
  \E s \in Sockets :
    \/ \E u \in Users : HandleConnection(s, u)
    \/ \E v \in Venues : HandleJoinVenue(s, v) \/ HandleLeaveVenue(s, v)
    \/ RejectConnection(s) \/ HandleDisconnect(s)

Spec == Init /\ [][Next]_vars

-----------------------------------------------------------------------------
(* Properties *)

(* The sockets counted as viewers of a venue are those a broadcast to the    *)
(* venue reaches, so the number and the audience cannot drift apart.         *)
ViewersAreTheRoom == venueViewers = room

(* Everyone who looks at a venue was last shown the number of its viewers,   *)
(* whatever joins, leaves and lost connections came before.                  *)
CountIsCurrent ==
  \A v \in Venues : \A s \in room[v] : shown[s][v] = Cardinality(venueViewers[v])

(* The two maps of connections are inverse, and hold the open ones: nothing  *)
(* is left behind by a lost connection of a user who has others.             *)
MapsAgree ==
  /\ \A u \in Users : connectedUsers[u] = {s \in Sockets : socketToUser[s] = u}
  /\ \A s \in Sockets : socketToUser[s] # NoUser <=> status[s] = "open"
=============================================================================
