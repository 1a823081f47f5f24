-------------------------------- MODULE Push --------------------------------
(***************************************************************************)
(* Push notifications: the alerts sent to the customers who saved a venue, *)
(* the weekly recap, the preferences and quiet hours that hold them back,  *)
(* the in-memory cache that suppresses repeats, and the devices they go to *)
(* (modules push, devices, cron, notifications).                           *)
(*                                                                         *)
(* A batch sends to one customer after another; for each it reads the      *)
(* preferences, then the devices, then calls the push service once per     *)
(* device. The server may crash, which empties the cache. Accounts are not *)
(* deleted meanwhile (see Accounts).                                       *)
(***************************************************************************)
EXTENDS Integers, FiniteSets

CONSTANTS
  Users, Tokens,          \* customers, and the push tokens of phones
  Savers,                 \* the customers who saved the venue the alerts are about
  Batches,                \* slots: requests and jobs that send
  NoPrefs, NoDevice,      \* rows that are not there
  Day,                    \* the instants of a day
  Window,                 \* the instants for which a repeat is suppressed
  SweepEvery,             \* the instants between two sweeps of the cache
  QuietHours,             \* <<start, end>> pairs customers choose, or <<>> for none
  MaxNow,                 \* bound of the model: the last instant
  MaxBatches,             \* bound of the model: the batches
  MaxEvents               \* bound of the model: changes of preferences or devices, and crashes

Types == {"vibe_alert", "weekly_recap"}
Fields == Types \cup {"quiet"}
PrefsOf(on, q) == [f \in Fields |-> IF f = "quiet" THEN q ELSE on[f]]
Prefs == {PrefsOf(on, q) : on \in [Types -> BOOLEAN], q \in QuietHours}
Defaults == PrefsOf([t \in Types |-> TRUE], <<>>)
Device == [user : Users, active : BOOLEAN]
Keys == Users \X Types
Instants == 0 .. MaxNow

ASSUME PushAssumption ==
  /\ NoPrefs \notin Prefs /\ NoDevice \notin Device
  /\ {Day, Window} \subseteq Nat \ {0}
  /\ {SweepEvery, MaxNow} \subseteq Nat
  /\ <<>> \in QuietHours
  /\ \A q \in QuietHours \ {<<>>} : q \in (0 .. Day - 1) \X (0 .. Day - 1)
  /\ Savers \subseteq Users /\ Savers # {} /\ Tokens # {}

VARIABLES
  now,
  prefs,       \* table notification_preferences, by customer
  device,      \* table devices, by token
  cache,       \* dedupeCache: key -> expiresAt, 0 when absent
  lastSweep,
  batch,       \* per slot: the batch it is sending
  update,      \* the change of preferences in progress
  reg,         \* the registration of a device in progress
  begun        \* bounds: how many batches, and other events, were begun

VARIABLES
  told,        \* history: per customer, what the answers to their requests promise
  unkept,      \* history: customers whose row is not what a request was answered
  sentAt,      \* history: per key, the end of the last push (-1: none)
  excused,     \* history: keys pushed by two batches at once, or before a crash
  crossed      \* history: tokens registered while a batch or a request held their row

rowVars == <<prefs, device>>
cacheVars == <<cache, lastSweep>>
histVars == <<told, unkept, sentAt, excused, crossed>>
vars == <<now, rowVars, cacheVars, batch, update, reg, begun, histVars>>

AUser == CHOOSE u \in Users : TRUE
AToken == CHOOSE t \in Tokens : TRUE
IdleBatch == [pc |-> "idle", type |-> "vibe_alert", left |-> {}, user |-> AUser,
              tokens |-> {}, hit |-> AToken, clear |-> TRUE]
IdleUpdate == [pc |-> "idle", user |-> AUser, field |-> "quiet", held |-> Defaults, dirty |-> {}]
IdleReg == [pc |-> "idle", user |-> AUser, token |-> AToken, dirty |-> {}]
Kinds == {"batch", "event"}

TypeOK ==
  /\ now \in Instants
  /\ \A u \in Users : prefs[u] \in Prefs \cup {NoPrefs} /\ told[u] \in Prefs
  /\ \A t \in Tokens : device[t] \in Device \cup {NoDevice}
  /\ cache \in [Keys -> 0 .. MaxNow + Window] /\ lastSweep \in Instants
  /\ batch \in [Batches -> [pc : {"idle", "prefs", "create", "devices", "send", "deactivate"},
                            type : Types, left : SUBSET Users, user : Users,
                            tokens : SUBSET Tokens, hit : Tokens, clear : BOOLEAN]]
  /\ update \in [pc : {"idle", "insert", "select", "update"}, user : Users, field : Fields,
                 held : Prefs, dirty : SUBSET Fields]
  /\ reg \in [pc : {"idle", "insert", "select", "update"}, user : Users, token : Tokens,
              dirty : SUBSET {"user", "active"}]
  /\ begun \in [Kinds -> 0 .. MaxBatches + MaxEvents]
  /\ unkept \subseteq Users /\ crossed \subseteq Tokens /\ excused \subseteq Keys
  /\ sentAt \in [Keys -> -1 .. MaxNow]

Begin(kind, max) ==
  /\ begun[kind] < max
  /\ begun' = [begun EXCEPT ![kind] = @ + 1]

-----------------------------------------------------------------------------
(* shouldSendPush and the dedupe cache *)

NoOvernight(q, t) == q[1] <= t /\ t < q[2]
InQuietHours(q, t) ==
  IF q[1] > q[2] THEN t >= q[1] \/ t < q[2] ELSE t >= q[1] /\ t < q[2]

Quiet(p) == p.quiet # <<>> /\ InQuietHours(p.quiet, now % Day)
ShouldSend(p, type) == p[type] /\ ~Quiet(p)

ExpiredNow(k) == now > cache[k]

Sweeping == now - lastSweep >= SweepEvery
(* what isDuplicate leaves of the cache: an expired entry of the key goes, and
   when it is time to sweep, all of them *)
Swept(k) == [x \in Keys |-> IF ExpiredNow(x) /\ (Sweeping \/ x = k) THEN 0 ELSE cache[x]]
IsDuplicate(k) == cache[k] # 0 /\ ~ExpiredNow(k)

-----------------------------------------------------------------------------
(* A batch *)

NextUser(j) ==
  IF j.left = {} THEN IdleBatch
  ELSE [IdleBatch EXCEPT !.pc = "prefs", !.type = j.type, !.left = j.left]

BeginBatch(b, type, users) ==
  /\ batch[b].pc = "idle"
  /\ Begin("batch", MaxBatches)
  /\ batch' = [batch EXCEPT ![b] = NextUser([IdleBatch EXCEPT !.left = users, !.type = type])]
  /\ UNCHANGED <<now, rowVars, cacheVars, update, reg, histVars>>

(* sendToUsers to the customers who saved a venue, once their rows of table
   notifications are stored *)
NotifySavedUsers(b) == BeginBatch(b, "vibe_alert", Savers)

(* the weekly job, to every active customer; once a week, so that one is over
   before the next *)
HandleWeeklyRecap(b) ==
  /\ \A x \in Batches : batch[x].pc = "idle" \/ batch[x].type # "weekly_recap"
  /\ BeginBatch(b, "weekly_recap", Users)

Past(x, k) ==
  /\ batch[x].pc \in {"devices", "send", "deactivate"}
  /\ <<batch[x].user, batch[x].type>> = k

(* the quiet hours by their meaning: the instants from start on, round the
   clock, before end *)
Cyclic(q) == IF q = <<>> THEN {} ELSE {(q[1] + i) % Day : i \in 0 .. ((q[2] - q[1] + Day) % Day) - 1}
WantedBy(u, type) == told[u][type] /\ now % Day \notin Cyclic(told[u].quiet)

(* the rest of shouldSendPush for preferences p, and isDuplicate *)
Decide(b, u, p) ==
  LET j == [batch[b] EXCEPT !.left = @ \ {u}]
      k == <<u, j.type>>
      go == ShouldSend(p, j.type) /\ ~IsDuplicate(k)
  IN
  /\ batch' = [batch EXCEPT ![b] =
       IF go THEN [j EXCEPT !.pc = "devices", !.user = u, !.clear = WantedBy(u, j.type)]
       ELSE NextUser(j)]
  /\ IF ShouldSend(p, j.type)
     THEN cache' = Swept(k) /\ lastSweep' = (IF Sweeping THEN now ELSE lastSweep)
     ELSE UNCHANGED cacheVars
  /\ excused' = IF go /\ \E x \in Batches \ {b} : Past(x, k) THEN excused \cup {k} ELSE excused

ReadPrefs(b) ==
  /\ batch[b].pc = "prefs"
  /\ \E u \in batch[b].left :
       IF prefs[u] # NoPrefs THEN Decide(b, u, prefs[u])
       ELSE /\ batch' = [batch EXCEPT ![b].pc = "create", ![b].user = u]
            /\ UNCHANGED <<cacheVars, excused>>
  /\ UNCHANGED <<now, rowVars, update, reg, begun, told, unkept, sentAt, crossed>>

(* getPreferences stores the defaults; when that fails, because another request
   has stored a row or for any other reason, it uses the defaults all the same *)
CreatePrefs(b) ==
  LET u == batch[b].user IN
  /\ batch[b].pc = "create"
  /\ Decide(b, u, Defaults)
  /\ \/ prefs[u] = NoPrefs /\ prefs' = [prefs EXCEPT ![u] = Defaults] /\ UNCHANGED unkept
     \/ UNCHANGED prefs /\ unkept' = IF prefs[u] = NoPrefs THEN unkept ELSE unkept \cup {u}
  /\ UNCHANGED <<now, device, update, reg, begun, told, sentAt, crossed>>

EveryDevice(u) == {t \in Tokens : device[t] # NoDevice}
ActiveDevices(u) == {t \in Tokens : device[t] # NoDevice /\ device[t].user = u /\ device[t].active}

(* getActiveDevicesByUserId. Without a device nothing is marked as sent. *)
FindDevices(b) ==
  LET ts == ActiveDevices(batch[b].user) IN
  /\ batch[b].pc = "devices"
  /\ batch' = [batch EXCEPT ![b] = IF ts = {} THEN NextUser(@) ELSE [@ EXCEPT !.pc = "send", !.tokens = ts]]
  /\ UNCHANGED <<now, rowVars, cacheVars, update, reg, begun, histVars>>

MarkedNow(k) == [cache EXCEPT ![k] = now]
MarkedSent(k) == [cache EXCEPT ![k] = now + Window]

(* after the last device the key is marked, whether or not any got the push *)
Continue(b, rest) ==
  LET k == <<batch[b].user, batch[b].type>> IN
  IF rest # {}
  THEN /\ batch' = [batch EXCEPT ![b].pc = "send", ![b].tokens = rest]
       /\ UNCHANGED <<cache, sentAt>>
  ELSE /\ batch' = [batch EXCEPT ![b] = NextUser(@)]
       /\ cache' = MarkedSent(k)
       /\ sentAt' = [sentAt EXCEPT ![k] = now]

(* sendToDevice: delivered or failed, or the token turned out to be invalid *)
SendToDevice(b) ==
  LET j == batch[b] IN
  /\ j.pc = "send"
  /\ \E t \in j.tokens :
       \/ Continue(b, j.tokens \ {t})
       \/ /\ batch' = [batch EXCEPT ![b].pc = "deactivate", ![b].hit = t, ![b].tokens = @ \ {t}]
          /\ UNCHANGED <<cache, sentAt>>
  /\ UNCHANGED <<now, rowVars, lastSweep, update, reg, begun, told, unkept, excused, crossed>>

(* UPDATE devices SET isActive = false *)
TurnOff(t) ==
  device' = [device EXCEPT ![t] = IF @ = NoDevice THEN @ ELSE [@ EXCEPT !.active = FALSE]]

MarkInactive(b) ==
  /\ batch[b].pc = "deactivate"
  /\ TurnOff(batch[b].hit)
  /\ Continue(b, batch[b].tokens)
  /\ crossed' = IF reg.token = batch[b].hit /\ reg.pc # "idle" THEN crossed \cup {reg.token} ELSE crossed
  /\ UNCHANGED <<now, prefs, lastSweep, update, reg, begun, told, unkept, excused>>

(* a database call throws: sendToUsers and handleWeeklyRecap give up the rest *)
BatchThrows(b) ==
  /\ batch[b].pc \in {"prefs", "devices"}
  /\ batch' = [batch EXCEPT ![b] = IdleBatch]
  /\ UNCHANGED <<now, rowVars, cacheVars, update, reg, begun, histVars>>

-----------------------------------------------------------------------------
(* PUT /users/notification-preferences, of one field. From the request on the
   customer may expect either value, from the answer on the new one. *)

Choices(field) == IF field = "quiet" THEN QuietHours ELSE BOOLEAN

UpdateFind ==
  /\ update.pc = "idle"
  /\ Begin("event", MaxEvents)
  /\ \E u \in Users, f \in Fields : \E v \in Choices(f) :
       /\ update' = [pc |-> IF prefs[u] = NoPrefs THEN "insert" ELSE "select", user |-> u,
                     field |-> f, dirty |-> {},
                     held |-> [(IF prefs[u] = NoPrefs THEN Defaults ELSE prefs[u]) EXCEPT ![f] = v]]
       /\ told' = [told EXCEPT ![u][f] = Defaults[f]]
  /\ UNCHANGED <<now, rowVars, cacheVars, batch, reg, unkept, sentAt, excused, crossed>>

Answered == /\ update' = IdleUpdate
            /\ told' = [told EXCEPT ![update.user][update.field] = update.held[update.field]]

(* Whatever save() throws is swallowed: the request is answered all the same. *)
NotStored == UNCHANGED prefs /\ unkept' = unkept \cup {update.user}

(* save() of a new row, which the unique userId refuses when there is one *)
UpdateInsert ==
  /\ update.pc = "insert"
  /\ \/ /\ prefs[update.user] = NoPrefs
        /\ prefs' = [prefs EXCEPT ![update.user] = update.held] /\ UNCHANGED unkept
     \/ NotStored
  /\ Answered
  /\ UNCHANGED <<now, device, cacheVars, batch, reg, begun, sentAt, excused, crossed>>

UpdateSelect ==
  LET dirty == {f \in Fields : update.held[f] # prefs[update.user][f]} IN
  /\ update.pc = "select"
  /\ \/ dirty = {} /\ Answered /\ UNCHANGED <<prefs, unkept>>
     \/ /\ dirty # {} /\ update' = [update EXCEPT !.pc = "update", !.dirty = dirty]
        /\ UNCHANGED <<told, prefs, unkept>>
     \/ NotStored /\ Answered
  /\ UNCHANGED <<now, device, cacheVars, batch, reg, begun, sentAt, excused, crossed>>

UpdateUpdate ==
  /\ update.pc = "update"
  /\ \/ /\ prefs' = [prefs EXCEPT ![update.user] =
             [f \in Fields |-> IF f \in update.dirty THEN update.held[f] ELSE @[f]]]
        /\ UNCHANGED unkept
     \/ NotStored
  /\ Answered
  /\ UNCHANGED <<now, device, cacheVars, batch, reg, begun, sentAt, excused, crossed>>

-----------------------------------------------------------------------------
(* POST /devices/register: the token's row goes to the customer, and is active *)

Holding(t) == \E b \in Batches : \/ t \in batch[b].tokens
                                 \/ batch[b].pc = "deactivate" /\ batch[b].hit = t

RegisterFind ==
  /\ reg.pc = "idle"
  /\ Begin("event", MaxEvents)
  /\ \E u \in Users, t \in Tokens :
       reg' = [pc |-> IF device[t] = NoDevice THEN "insert" ELSE "select",
               user |-> u, token |-> t, dirty |-> {}]
  /\ UNCHANGED <<now, rowVars, cacheVars, batch, update, histVars>>

RegisterInsert ==
  /\ reg.pc = "insert"
  /\ device' = [device EXCEPT ![reg.token] = [user |-> reg.user, active |-> TRUE]]
  /\ reg' = IdleReg
  /\ UNCHANGED <<now, prefs, cacheVars, batch, update, begun, histVars>>

Differs(d) == (IF d.user # reg.user THEN {"user"} ELSE {}) \cup (IF d.active THEN {} ELSE {"active"})

RegisterSelect ==
  /\ reg.pc = "select"
  /\ reg' = [reg EXCEPT !.pc = "update", !.dirty = Differs(device[reg.token])]
  /\ UNCHANGED <<now, rowVars, cacheVars, batch, update, begun, histVars>>

RegisterUpdate ==
  LET t == reg.token IN
  /\ reg.pc = "update"
  /\ device' = [device EXCEPT ![t] =
       [user |-> IF "user" \in reg.dirty THEN reg.user ELSE @.user,
        active |-> IF "active" \in reg.dirty THEN TRUE ELSE @.active]]
  /\ reg' = IdleReg
  /\ crossed' = IF Holding(t) THEN crossed \cup {t} ELSE crossed
  /\ UNCHANGED <<now, prefs, cacheVars, batch, update, begun, told, unkept, sentAt, excused>>

(* DELETE /devices/:id, of a device of one's own *)
DeactivateDevice(t) ==
  /\ Begin("event", MaxEvents)
  /\ device[t] # NoDevice /\ device[t].active
  /\ TurnOff(t)
  /\ crossed' = IF reg.token = t /\ reg.pc # "idle" THEN crossed \cup {t} ELSE crossed
  /\ UNCHANGED <<now, prefs, cacheVars, batch, update, reg, told, unkept, sentAt, excused>>

-----------------------------------------------------------------------------
(* The process dies and is started again: every request in progress is gone,
   and so is the cache. *)
Crash ==
  /\ Begin("event", MaxEvents)
  /\ cache' = [k \in Keys |-> 0] /\ lastSweep' = 0
  /\ batch' = [b \in Batches |-> IdleBatch]
  /\ update' = IdleUpdate /\ reg' = IdleReg
  /\ excused' = Keys
  /\ UNCHANGED <<now, rowVars, told, unkept, sentAt, crossed>>

Tick ==
  /\ now < MaxNow
  /\ now' = now + 1
  /\ UNCHANGED <<rowVars, cacheVars, batch, update, reg, begun, histVars>>

(* a customer has no preferences until they are first read; phones may be
   registered *)
Init ==
  /\ now = 0
  /\ prefs = [u \in Users |-> NoPrefs]
  /\ device \in [Tokens -> {NoDevice, [user |-> AUser, active |-> TRUE]}]
  /\ cache = [k \in Keys |-> 0] /\ lastSweep = 0
  /\ batch = [b \in Batches |-> IdleBatch]
  /\ update = IdleUpdate /\ reg = IdleReg
  /\ begun = [k \in Kinds |-> 0]
  /\ told = [u \in Users |-> Defaults] /\ unkept = {} /\ sentAt = [k \in Keys |-> -1]
  /\ excused = {} /\ crossed = {}

Next ==
  \/ \E b \in Batches : \/ NotifySavedUsers(b) \/ HandleWeeklyRecap(b) \/ ReadPrefs(b) \/ CreatePrefs(b) \/ FindDevices(b)
                        \/ SendToDevice(b) \/ MarkInactive(b) \/ BatchThrows(b)
  \/ UpdateFind \/ UpdateInsert \/ UpdateSelect \/ UpdateUpdate
  \/ RegisterFind \/ RegisterInsert \/ RegisterSelect \/ RegisterUpdate
  \/ \E t \in Tokens : DeactivateDevice(t)
  \/ Crash \/ Tick

Spec == Init /\ [][Next]_vars

-----------------------------------------------------------------------------
(* Properties *)

(* A customer gets the same push twice within the window only when two batches *)
(* sent it at once, for the key is marked after the last device has answered,  *)
(* or when the server was restarted.                                           *)
OncePerWindow ==
  [][\A k \in Keys : sentAt'[k] # sentAt[k] /\ sentAt[k] # -1 =>
       now > sentAt[k] + Window \/ k \in excused]_vars

(* No push goes to a customer whose preferences, as they were answered, forbid *)
(* it at the time they are read, quiet hours past midnight included. Excepted  *)
(* are the customers whose row is not what they were answered: a save of their *)
(* preferences failed, or two requests created their first row at once.        *)
OptOutRespected ==
  \A b \in Batches : batch[b].pc \in {"devices", "send", "deactivate"} =>
    batch[b].clear \/ batch[b].user \in unkept

(* A push goes to phones registered by its customer, unless a phone changed    *)
(* hands while the push was under way.                                         *)
PushReachesOwner ==
  \A b \in Batches : \A t \in batch[b].tokens :
    device[t].user = batch[b].user \/ t \in crossed
=============================================================================
