------------------------------ MODULE Geofence ------------------------------
(***************************************************************************)
(* checkGeofence (modules/geofence) for one user: overlapping checks each  *)
(* count the user's log once against the hourly limit, and then go through *)
(* the venues nearby: cooldown query, notification, log. An action is one  *)
(* database statement and the code after it.                               *)
(***************************************************************************)
EXTENDS Integers, FiniteSets

CONSTANTS
  Slots,            \* checks of the user that may overlap
  Venues,
  NoVenue,          \* no venue is being notified
  MaxNear,          \* most venues within the radius of a place
  MaxPerHour,       \* MAX_NOTIFICATIONS_PER_HOUR
  Hour, Cooldown,   \* one hour and VENUE_COOLDOWN_HOURS, in ticks
  MaxNow, MaxLost,  \* bounds of the model: the last tick, and failures
  MaxNotices        \* bound of the model: notices after which no check finds a venue

Instants == 0 .. MaxNow

ASSUME GeofenceAssumption ==
  /\ MaxNear \in Nat \ {0} /\ MaxPerHour \in Nat \ {0}
  /\ Hour \in Nat \ {0} /\ Cooldown \in Nat \ {0}
  /\ MaxNow \in Nat /\ MaxLost \in Nat /\ MaxNotices \in Nat
  /\ NoVenue \notin Venues
  /\ IsFiniteSet(Slots) /\ IsFiniteSet(Venues)

VARIABLES
  now,
  notices,   \* table notifications: the PROXIMITY_OFFER rows of the user
  logs,      \* table geofence_logs: the rows of the user
  req,       \* per slot: where its check is
  lost       \* history: notices whose log was not written

geofenceVars == <<now, notices, logs, req, lost>>

(* id and by are history: the number of the notice, the same in its log, and
   the slot of the check. *)
Notice == [id : Nat, venue : Venues, at : Instants, by : Slots]
Log == [id : Nat, venue : Venues, at : Instants]

(* todo: venues nearby still to visit; venue: the one being notified *)
IdleReq == [pc |-> "idle", todo |-> {}, venue |-> NoVenue]
Req == [pc : {"idle", "cooldown", "notify", "log"},
        todo : SUBSET Venues, venue : Venues \cup {NoVenue}]

GeofenceTypeOK ==
  /\ now \in Instants
  /\ notices \subseteq Notice
  /\ logs \subseteq Log
  /\ req \in [Slots -> Req]
  /\ lost \subseteq notices

(* The number of the next notice, given to it when it is stored *)
NextId == Cardinality(notices)

Recent(rows, span) == {r \in rows : r.at > now - span}

-----------------------------------------------------------------------------
(* Variants named after a plausible slip in the definition that follows them
   serve to check that a property notices it. *)

LimitedLater == Cardinality(Recent(logs, Hour)) > MaxPerHour
RateLimited == Cardinality(Recent(logs, Hour)) >= MaxPerHour

(* Where a check goes on with the venues left: to the next, or to its answer *)
Visit(todo) ==
  IF todo = {} THEN IdleReq ELSE [pc |-> "cooldown", todo |-> todo, venue |-> NoVenue]

(* The venues are read, those within the radius kept, and the log of the last
   hour counted. *)
CheckGeofence(s, near) ==
  /\ req[s].pc = "idle"
  /\ near = {} \/ NextId < MaxNotices
  /\ req' = [req EXCEPT ![s] = IF RateLimited THEN IdleReq ELSE Visit(near)]
  /\ UNCHANGED <<now, notices, logs, lost>>

CoolingAnHour(v) == \E l \in Recent(logs, Hour) : l.venue = v
Cooling(v) == \E l \in Recent(logs, Cooldown) : l.venue = v

(* findOne of a log of the venue within the cooldown; else the offer is read. *)
CheckCooldown(s, v) ==
  /\ req[s].pc = "cooldown" /\ v \in req[s].todo
  /\ req' = [req EXCEPT ![s] =
       IF Cooling(v) THEN Visit(@.todo \ {v}) ELSE [@ EXCEPT !.pc = "notify", !.venue = v]]
  /\ UNCHANGED <<now, notices, logs, lost>>

Notify(s) ==
  /\ req[s].pc = "notify"
  /\ notices' = notices \cup
       {[id |-> NextId, venue |-> req[s].venue, at |-> now, by |-> s]}
  /\ req' = [req EXCEPT ![s].pc = "log"]
  /\ UNCHANGED <<now, logs, lost>>

(* The notice this slot has stored and not yet logged *)
Pending(s) ==
  {n \in notices \ lost : n.by = s /\ \A l \in logs : l.id # n.id}

WriteLog(s) ==
  /\ req[s].pc = "log"
  /\ logs' = logs \cup {[id |-> n.id, venue |-> req[s].venue, at |-> now] : n \in Pending(s)}
  /\ req' = [req EXCEPT ![s] = Visit(@.todo \ {@.venue})]
  /\ UNCHANGED <<now, notices, lost>>

(* A statement fails: the check throws. A notice that is stored stays without
   its log. *)
Fail(s) ==
  /\ req[s].pc # "idle"
  /\ Cardinality(lost) < MaxLost
  /\ lost' = lost \cup Pending(s)
  /\ req' = [req EXCEPT ![s] = IdleReq]
  /\ UNCHANGED <<now, notices, logs>>

GeofenceTick ==
  /\ now < MaxNow
  /\ now' = now + 1
  /\ UNCHANGED <<notices, logs, req, lost>>

GeofenceInit ==
  /\ now = 0
  /\ notices = {} /\ logs = {} /\ lost = {}
  /\ req = [s \in Slots |-> IdleReq]

Near == {near \in SUBSET Venues : Cardinality(near) <= MaxNear}

Check(s) ==
  \/ \E near \in Near : CheckGeofence(s, near)
  \/ \E v \in Venues : CheckCooldown(s, v)
  \/ Notify(s) \/ WriteLog(s) \/ Fail(s)

GeofenceNext == GeofenceTick \/ \E s \in Slots : Check(s)

GeofenceSpec == GeofenceInit /\ [][GeofenceNext]_geofenceVars

-----------------------------------------------------------------------------
(* Properties *)

(* A venue is announced twice within its cooldown only by checks that        *)
(* overlapped, or after a failure between the notice and its log.            *)
CooldownUnlessRaced ==
  \A m, n \in notices :
    (m.id < n.id /\ m.venue = n.venue /\ m.by = n.by /\ m \notin lost) =>
      n.at - m.at >= Cooldown

(* However many checks overlap, an hour has no more notices than the limit,  *)
(* those the checks in flight can still send, and those that were not logged.*)
HourBounded ==
  \A t \in Instants :
    Cardinality({n \in notices : n.at > t - Hour /\ n.at <= t})
      <= MaxPerHour - 1 + MaxNear * Cardinality(Slots) + Cardinality(lost)
=============================================================================
