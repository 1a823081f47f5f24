----------------------------- MODULE StatusSync -----------------------------
(***************************************************************************)
(* The status of one venue - its row of table busyness and its row of      *)
(* table vibes - and everything that writes or shows it: the owner's       *)
(* status screen, the demo, customers' vibe checks, the offline queue of   *)
(* an owner's phone, the phone's delta pull and the live feed.             *)
(*                                                                         *)
(* Every writer finds a row, changes it in memory and saves the entity:    *)
(* save() is a SELECT and an UPDATE of the columns that differ. Its        *)
(* lastUpdated is such a column: an entity found before another writer's   *)
(* UPDATE carries the old stamp and writes it back; otherwise an UPDATE    *)
(* stamps the row with its own time.                                       *)
(*                                                                         *)
(* The phone's clock is taken to agree with the server's, and the venue is *)
(* not deleted meanwhile. The other actions of the queue are elsewhere:    *)
(* OFFER_TOGGLE in Offers, VENUE_SAVE and VENUE_VIEW in Accounts;          *)
(* NOTIFICATION_READ sets one flag with one UPDATE and is left out.        *)
(***************************************************************************)
EXTENDS Integers, Sequences, FiniteSets

CONSTANTS
  Staff, Visitors, Uploads,          \* request slots, by what they do
  NoRow,                             \* findOne of a row that is not there
  MaxNow,                            \* bound of the model: the last instant
  MaxStatus, MaxChecks, MaxQueued, MaxUploads, MaxPulls  \* bounds: requests

Tables == {"busyness", "vibes"}
Values == {"low", "high"}   \* below 80% or not; without the live music tag or with
Writers == {"seed", "owner", "demo", "phone"}
Workers == Staff \cup Visitors \cup Uploads
Instants == 0 .. MaxNow

Row == [val : Values, by : Writers, responses : Nat, at : Instants]
Columns == {"val", "by", "responses", "at"}

ASSUME StatusAssumption ==
  /\ NoRow \notin Row
  /\ Staff \cap Visitors = {} /\ (Staff \cup Visitors) \cap Uploads = {}
  /\ "none" \notin Uploads /\ IsFiniteSet(Visitors)
  /\ {MaxNow, MaxStatus, MaxChecks, MaxQueued, MaxUploads, MaxPulls} \subseteq Nat

VARIABLES
  now,
  rows,      \* per table the stored row
  job,       \* per worker: the request it is in the middle of
  queue,     \* the phone: actions it has no answer for
  awaited,   \* the phone: the upload whose answer it waits for
  since,     \* the phone: lastSync of the last pull
  pull,      \* the phone: the delta pull in progress
  shown,     \* the phone: tables whose last write its screens show
  screen,    \* the busyness the live feed last announced
  begun      \* bounds: how many requests of each kind were begun

VARIABLES
  storedAt,  \* history: per table the true time of the last write
  raced,     \* history: tables written while another writer held an older row
  applied,   \* history: per queued action, its writes at a later time than its own
  missed,    \* history: tables written between a pull's query and its lastSync
  unsure     \* history: a broadcast was skipped, or two owners' requests overlapped

phoneVars == <<queue, awaited, since, pull, shown>>
writeVars == <<storedAt, raced, applied, missed>>
vars == <<now, rows, job, phoneVars, screen, begun, writeVars, unsure>>

Ids == 1 .. MaxQueued
Kinds == {"status", "check", "queued", "upload", "pull"}
Seeded == [val |-> "low", by |-> "seed", responses |-> 0, at |-> 0]

(* what a request does to one row: set its value, or add a vibe check. id and
   offline are those of a queued action *)
Change == [table : Tables, what : {"set", "check"}, val : Values,
           id : Ids \cup {0}, offline : Instants]
Set(t, v) == [table |-> t, what |-> "set", val |-> v, id |-> 0, offline |-> 0]
Check == [Set("vibes", "low") EXCEPT !.what = "check"]

Stages == {"idle", "find", "insert", "select", "update", "record", "notify", "answer"}
IdleJob == [stage |-> "idle", who |-> "seed", todo |-> <<>>, held |-> Seeded, dirty |-> {},
            said |-> "low", sent |-> 0]
NoPull == [stage |-> "idle", seen |-> {}, whole |-> FALSE]

TypeOK ==
  /\ now \in Instants
  /\ DOMAIN rows = Tables /\ \A t \in Tables : rows[t] \in Row \cup {NoRow}
  /\ DOMAIN job = Workers
  /\ \A w \in Workers :
       /\ job[w].stage \in Stages /\ job[w].who \in Writers
       /\ \A i \in DOMAIN job[w].todo : job[w].todo[i] \in Change
       /\ job[w].held \in Row /\ job[w].dirty \subseteq Columns
       /\ job[w].said \in Values /\ job[w].sent \in Nat
  /\ \A i \in DOMAIN queue : queue[i] \in Change
  /\ awaited \in Uploads \cup {"none"}
  /\ pull \in [stage : {"idle", "answer"}, seen : SUBSET Tables, whole : BOOLEAN]
  /\ shown \subseteq Tables /\ since \in Instants /\ screen \in Values
  /\ begun \in [Kinds -> Nat]
  /\ storedAt \in [Tables -> Instants] /\ raced \subseteq Tables /\ missed \subseteq Tables
  /\ applied \in [Ids -> Nat] /\ unsure \in BOOLEAN

-----------------------------------------------------------------------------
Begin(kind, max) ==
  /\ begun[kind] < max
  /\ begun' = [begun EXCEPT ![kind] = @ + 1]

Start(w, who, todo) ==
  /\ job[w].stage = "idle"
  /\ job' = [job EXCEPT ![w] = [IdleJob EXCEPT !.stage = "find", !.who = who, !.todo = todo,
                !.said = IF who = "owner" THEN todo[1].val ELSE @,
                !.sent = IF who = "phone" THEN Len(todo) ELSE @]]

Finish(w) == job' = [job EXCEPT ![w] = IdleJob]

(* what the two tables are set to, one after the other *)
Both(v) == <<Set("busyness", v), Set("vibes", v)>>

StatusRequest(w, who, todo) ==
  /\ w \in Staff
  /\ Begin("status", MaxStatus)
  /\ Start(w, who, todo)
  /\ UNCHANGED <<now, rows, phoneVars, screen, writeVars>>

(* updateVenueStatus past its ownership check; vibes are optional *)
UpdateVenueStatus(w) ==
  /\ \E v \in Values : \E todo \in {Both(v), <<Set("busyness", v)>>} : StatusRequest(w, "owner", todo)
  /\ unsure' = (unsure \/ \E x \in Staff : job[x].who = "owner")

(* the demo's clock, of which this venue is one step of a loop *)
SimulateTime(w) ==
  (\E v \in Values : StatusRequest(w, "demo", Both(v))) /\ UNCHANGED unsure

(* the demo's reset to what the seed stored *)
ResetDemo(w) == StatusRequest(w, "seed", Both(Seeded.val)) /\ UNCHANGED unsure

(* submitVibeCheck; without a row it is refused and changes nothing *)
VibeCheck(w) ==
  /\ w \in Visitors
  /\ rows["vibes"] # NoRow
  /\ Begin("check", MaxChecks)
  /\ Start(w, "seed", <<Check>>)
  /\ UNCHANGED <<now, rows, phoneVars, screen, writeVars, unsure>>

Upload(w) ==
  /\ w \in Uploads
  /\ queue # <<>> /\ awaited = "none"
  /\ Begin("upload", MaxUploads)
  /\ Start(w, "phone", queue)
  /\ awaited' = w
  /\ UNCHANGED <<now, rows, queue, since, pull, shown, screen, writeVars, unsure>>

-----------------------------------------------------------------------------
(* One change of a request. *)

ValueOnly(w, r, c) == [r EXCEPT !.val = c.val, !.responses = 0]
Changed(w, r, c) ==
  IF c.what = "check" THEN [r EXCEPT !.responses = @ + 1]
  ELSE [r EXCEPT !.val = c.val, !.by = job[w].who]

NeverConflicts(c, r) == FALSE
Conflicts(c, r) == c.id # 0 /\ c.offline < r.at

(* the change is over; after the last one the owner's request goes on to
   notify and broadcast, and an upload is answered *)
AfterLast(who) == IF who = "owner" THEN "notify" ELSE IF who = "phone" THEN "answer" ELSE "idle"
Proceed(j) ==
  IF Len(j.todo) > 1 THEN [j EXCEPT !.stage = "find", !.todo = Tail(@), !.held = Seeded, !.dirty = {}]
  ELSE IF AfterLast(j.who) = "idle" THEN IdleJob
  ELSE [j EXCEPT !.stage = AfterLast(j.who), !.todo = <<>>, !.held = Seeded, !.dirty = {}]

(* a queued action that is done is recorded in sync_actions first *)
Close(w) ==
  job' = [job EXCEPT ![w] = IF @.who = "phone" THEN [@ EXCEPT !.stage = "record", !.held = Seeded, !.dirty = {}]
                            ELSE Proceed(@)]

(* findOne and what the handler does before save(). Without a row the owner's
   screen and the demo's clock create one, a queued action is rejected, and the
   reset does nothing. *)
FindRow(w) ==
  LET c == Head(job[w].todo)
      r == rows[c.table] IN
  /\ job[w].stage = "find"
  /\ IF r = NoRow
     THEN job' = [job EXCEPT ![w] = IF @.who \in {"phone", "seed"} THEN Proceed(@)
                    ELSE [@ EXCEPT !.stage = "insert", !.held = Changed(w, Seeded, c)]]
     ELSE IF Conflicts(c, r) THEN Close(w)
     ELSE job' = [job EXCEPT ![w].stage = "select", ![w].held = Changed(w, r, c)]
  /\ UNCHANGED <<now, rows, phoneVars, screen, begun, writeVars, unsure>>

(* save(): the SELECT. No difference, no UPDATE. *)
SaveSelect(w) ==
  LET r == rows[Head(job[w].todo).table]
      dirty == {c \in Columns : job[w].held[c] # r[c]} IN
  /\ job[w].stage = "select"
  /\ IF dirty = {} THEN Close(w)
     ELSE job' = [job EXCEPT ![w].stage = "update", ![w].dirty = dirty]
  /\ UNCHANGED <<now, rows, phoneVars, screen, begun, writeVars, unsure>>

Holds(x, t) == job[x].stage \in {"select", "update"} /\ Head(job[x].todo).table = t

NoteWrite(w, c) ==
  LET t == c.table IN
  /\ storedAt' = [storedAt EXCEPT ![t] = now]
  /\ raced' = IF \E x \in Workers \ {w} : Holds(x, t) THEN raced \cup {t} ELSE raced
  /\ applied' = IF c.id # 0 /\ c.offline < now THEN [applied EXCEPT ![c.id] = @ + 1] ELSE applied
  /\ missed' = IF pull.stage = "idle" THEN missed \ {t} ELSE missed \cup {t}
  /\ shown' = shown \ {t}
  /\ pull' = [pull EXCEPT !.seen = @ \ {t}]

StampKept(held, r, dirty) == r.at
Stamp(held, r, dirty) == IF "at" \in dirty THEN held.at ELSE now

(* save(): the UPDATE *)
SaveUpdate(w) ==
  LET c == Head(job[w].todo)
      r == rows[c.table]
      held == job[w].held
      dirty == job[w].dirty
  IN
  /\ job[w].stage = "update"
  /\ rows' = [rows EXCEPT ![c.table] =
       [val |-> IF "val" \in dirty THEN held.val ELSE r.val,
        by |-> IF "by" \in dirty THEN held.by ELSE r.by,
        responses |-> IF "responses" \in dirty THEN held.responses ELSE r.responses,
        at |-> Stamp(held, r, dirty)]]
  /\ NoteWrite(w, c)
  /\ Close(w)
  /\ UNCHANGED <<now, queue, awaited, since, screen, begun, unsure>>

(* save() of a new entity; venueId is unique, so a second one is refused and
   the request ends *)
SaveInsert(w) ==
  LET c == Head(job[w].todo) IN
  /\ job[w].stage = "insert"
  /\ IF rows[c.table] = NoRow
     THEN /\ rows' = [rows EXCEPT ![c.table] = [job[w].held EXCEPT !.at = now]]
          /\ NoteWrite(w, c)
          /\ Close(w)
          /\ UNCHANGED unsure
     ELSE /\ Finish(w)
          /\ unsure' = (unsure \/ job[w].who = "owner")
          /\ UNCHANGED <<rows, writeVars, pull, shown>>
  /\ UNCHANGED <<now, queue, awaited, since, screen, begun>>

(* saveSyncAction, or a database call of a queued action throws: either way
   the loop goes on with the next action, and this one is answered *)
RecordAction(w) ==
  /\ job[w].who = "phone"
  /\ job[w].stage \in {"find", "select", "update", "record"}
  /\ job' = [job EXCEPT ![w] = Proceed(@)]
  /\ UNCHANGED <<now, rows, phoneVars, screen, begun, writeVars, unsure>>

(* a database call of the owner's or the demo's request throws: it ends, and
   what it stored stays. (A vibe check that throws is one that was not made.) *)
RequestFails(w) ==
  /\ w \in Staff
  /\ job[w].stage \in {"find", "insert", "select", "update"}
  /\ unsure' = (unsure \/ job[w].who = "owner")
  /\ Finish(w)
  /\ UNCHANGED <<now, rows, phoneVars, screen, begun, writeVars>>

(* the answer to an upload, which sent the head of the queue; the phone drops
   the answer when it has given up waiting *)
Answer(w) ==
  /\ job[w].stage = "answer"
  /\ IF awaited = w
     THEN /\ queue' = SubSeq(queue, job[w].sent + 1, Len(queue))
          /\ awaited' = "none"
     ELSE UNCHANGED <<queue, awaited>>
  /\ Finish(w)
  /\ UNCHANGED <<now, rows, since, pull, shown, screen, begun, writeVars, unsure>>

LastValue(j) == "high"
AnnouncedValue(j) == j.said

(* vibe and live music alerts, the activity log, then the broadcast of what
   the request asked for. An alert that cannot be stored ends the request
   before the broadcast. *)
Broadcast(w) ==
  /\ job[w].stage = "notify"
  /\ \/ screen' = AnnouncedValue(job[w]) /\ UNCHANGED unsure
     \/ unsure' = TRUE /\ UNCHANGED screen
  /\ Finish(w)
  /\ UNCHANGED <<now, rows, phoneVars, begun, writeVars>>

-----------------------------------------------------------------------------
(* The phone *)

Enqueue ==
  /\ Begin("queued", MaxQueued)
  /\ \E t \in Tables, v \in Values :
       queue' = Append(queue, [table |-> t, what |-> "set", val |-> v,
                               id |-> begun["queued"] + 1, offline |-> now])
  /\ UNCHANGED <<now, rows, job, awaited, since, pull, shown, screen, writeVars, unsure>>

GiveUp ==
  /\ awaited # "none"
  /\ awaited' = "none"
  /\ UNCHANGED <<now, rows, job, queue, since, pull, shown, screen, begun, writeVars, unsure>>

(* getVenuesSyncSince: the query returns the whole venue when either row was
   stamped since *)
PullQuery ==
  /\ pull.stage = "idle"
  /\ Begin("pull", MaxPulls)
  /\ LET whole == \E t \in Tables : rows[t] # NoRow /\ rows[t].at >= since IN
     pull' = [stage |-> "answer", seen |-> IF whole THEN Tables ELSE {}, whole |-> whole]
  /\ UNCHANGED <<now, rows, job, queue, awaited, since, shown, screen, writeVars, unsure>>

(* lastSync, computed after the query, and the answer. (A pull whose answer is
   lost changes nothing: it is one that was not made.) *)
PullAnswer ==
  /\ pull.stage = "answer"
  /\ pull' = NoPull
  /\ shown' = IF pull.whole THEN pull.seen ELSE shown
  /\ since' = now
  /\ UNCHANGED <<now, rows, job, queue, awaited, screen, begun, writeVars, unsure>>

Tick ==
  /\ now < MaxNow
  /\ now' = now + 1
  /\ UNCHANGED <<rows, job, phoneVars, screen, begun, writeVars, unsure>>

-----------------------------------------------------------------------------
(* createVenue inserts the venue, then the two rows: it may have stopped
   before the second *)
Init ==
  /\ now = 0
  /\ rows \in {[t \in Tables |-> Seeded], [t \in Tables |-> IF t = "vibes" THEN NoRow ELSE Seeded]}
  /\ job = [w \in Workers |-> IdleJob]
  /\ queue = <<>> /\ awaited = "none"
  /\ since = 0 /\ pull = NoPull /\ shown = {}
  /\ screen = "low"
  /\ begun = [k \in Kinds |-> 0]
  /\ storedAt = [t \in Tables |-> 0] /\ raced = {} /\ missed = {} /\ unsure = FALSE
  /\ applied = [i \in Ids |-> 0]

Work(w) ==
  \/ FindRow(w) \/ SaveSelect(w) \/ SaveUpdate(w) \/ SaveInsert(w) \/ RecordAction(w)
  \/ RequestFails(w)
  \/ Answer(w) \/ Broadcast(w)

Next ==
  \/ \E w \in Workers : \/ UpdateVenueStatus(w) \/ SimulateTime(w) \/ ResetDemo(w)
                        \/ VibeCheck(w) \/ Upload(w) \/ Work(w)
  \/ Enqueue \/ GiveUp \/ PullQuery \/ PullAnswer \/ Tick

Spec == Init /\ [][Next]_vars

-----------------------------------------------------------------------------
(* Properties *)

(* Last write wins: an update made offline replaces a value stored after it   *)
(* was made only if some write fell between another writer's find and save.   *)
OldNeverReplacesNew ==
  [][\A w \in Uploads :
       job[w].stage = "update" /\ rows' # rows /\ job'[w] # job[w] =>
         LET c == Head(job[w].todo) IN c.offline >= storedAt[c.table] \/ c.table \in raced]_vars

(* An action uploaded again, because the phone gave up on the answer, is not  *)
(* applied a second time, although its id is never looked up: the stamp of    *)
(* the first time makes it a conflict. Only overlapping writes break that.    *)
AppliedOnce == \A i \in Ids : applied[i] > 1 => raced # {}

(* What the phone shows is what was last stored, or the next pull will bring  *)
(* it; a write between a pull's query and its lastSync it may never see.      *)
NextPullBrings ==
  \A t \in Tables : rows[t] # NoRow /\ t \notin shown =>
    rows[t].at >= since \/ t \in missed \cup raced

(* No vibe check is made up, and none is lost but by overlapping writes.      *)
ChecksCounted ==
  LET n == rows["vibes"].responses
      checking == {w \in Visitors : job[w].stage # "idle"} IN
  rows["vibes"] # NoRow =>
    /\ n <= begun["check"]
    /\ n + Cardinality(checking) >= begun["check"] \/ "vibes" \in raced

(* After an owner's request, the live feed shows the busyness it stored; no   *)
(* later write by an owner leaves it behind, unless two of their requests     *)
(* overlapped or one failed before its broadcast. (Writes of the offline      *)
(* queue and of the demo are never broadcast.)                                *)
FeedShowsOwner ==
  /\ \A w \in Staff : job[w].who # "owner"
  /\ ~unsure /\ "busyness" \notin raced
  /\ rows["busyness"].by = "owner"
  => screen = rows["busyness"].val
=============================================================================
