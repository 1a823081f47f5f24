--------------------------- MODULE VenueAnalytics ---------------------------
(***************************************************************************)
(* The counters of one venue on one day (table venue_analytics), as the    *)
(* handlers of offers, users, sync and venues change them: find the row of *)
(* the day, change one counter in memory, save the entity.                 *)
(*                                                                         *)
(* save() of an entity that has an id is two statements: a SELECT of the   *)
(* stored row and an UPDATE of the columns in which the entity differs     *)
(* from what the SELECT returned. Another request may run between the      *)
(* find, the SELECT and the UPDATE.                                        *)
(***************************************************************************)
EXTENDS Integers, FiniteSets

CONSTANTS
  Workers,      \* concurrent requests that may touch the counters
  RowIds,       \* ids the database can give to rows of this venue and day
  NoRow,        \* an id under which nothing is stored
  Fields,       \* the counters modelled, a subset of Counters
  FieldBound    \* bound of the model: no counter is raised above it

Counters == {"totalViews", "totalSaves", "offerClicks", "redemptions"}
Row == [Fields -> Nat]

ASSUME AnalyticsAssumption ==
  /\ Fields \subseteq Counters
  /\ FieldBound \in Nat
  /\ NoRow \notin Row
  /\ RowIds # {}

VARIABLES
  rows,   \* the stored rows
  job     \* per worker: the counter update it is in the middle of

analyticsVars == <<rows, job>>

Stored == {i \in RowIds : rows[i] # NoRow}

ZeroRow == [f \in Fields |-> 0]
AnyId == CHOOSE i \in RowIds : TRUE
IdleJob == [stage |-> "idle", id |-> AnyId, copy |-> ZeroRow, dirty |-> {}]

Job == [stage : {"idle", "insert", "select", "update"},
        id : RowIds, copy : Row, dirty : SUBSET Fields]

AnalyticsTypeOK ==
  /\ rows \in [RowIds -> Row \cup {NoRow}]
  /\ job \in [Workers -> Job]

(* A found row stays stored: nothing in these handlers deletes one. *)
JobRowStored ==
  \A w \in Workers : job[w].stage \in {"select", "update"} => job[w].id \in Stored

AnalyticsInit ==
  /\ rows = [i \in RowIds |-> NoRow]
  /\ job = [w \in Workers |-> IdleJob]

(* Variants named after a plausible slip in the definition that follows them
   serve to check that a property notices it. *)

BumpedTwice(n, delta) == n + 2 * delta

(* Math.max(0, (analytics[field] || 0) + delta) *)
Bumped(n, delta) == IF n + delta < 0 THEN 0 ELSE n + delta

Seen == Stored

(* findOne of the day's row; when there is none, a new entity. Nothing makes
   the row of a day unique, so with two rows findOne may return either. *)
AnalyticsFind(w, field, delta) ==
  /\ job[w].stage = "idle"
  /\ \/ \E i \in Seen :
          /\ rows[i][field] + delta <= FieldBound
          /\ job' = [job EXCEPT ![w] =
               [stage |-> "select", id |-> i, dirty |-> {},
                copy |-> [rows[i] EXCEPT ![field] = Bumped(@, delta)]]]
     \/ /\ Seen = {}
        /\ job' = [job EXCEPT ![w] =
             [stage |-> "insert", id |-> AnyId, dirty |-> {},
              copy |-> [ZeroRow EXCEPT ![field] = Bumped(@, delta)]]]
  /\ UNCHANGED rows

(* save() of the entity made when no row was found *)
AnalyticsInsert(w) ==
  /\ job[w].stage = "insert"
  /\ \E i \in RowIds \ Stored : rows' = [rows EXCEPT ![i] = job[w].copy]
  /\ job' = [job EXCEPT ![w] = IdleJob]

DirtyForgotten(copy, row) == {}
Dirty(copy, row) == {f \in Fields : copy[f] # row[f]}

(* save() of a found entity: the SELECT. No difference, no UPDATE. *)
AnalyticsSelect(w) ==
  LET dirty == Dirty(job[w].copy, rows[job[w].id]) IN
  /\ job[w].stage = "select"
  /\ job' = [job EXCEPT ![w] =
       IF dirty = {} THEN IdleJob
       ELSE [@ EXCEPT !.stage = "update", !.dirty = dirty]]
  /\ UNCHANGED rows

(* save() of a found entity: the UPDATE of the columns found different *)
AnalyticsUpdate(w) ==
  LET i == job[w].id IN
  /\ job[w].stage = "update"
  /\ rows' = [rows EXCEPT ![i] =
       [f \in Fields |-> IF f \in job[w].dirty THEN job[w].copy[f] ELSE rows[i][f]]]
  /\ job' = [job EXCEPT ![w] = IdleJob]

AnalyticsSave(w) == AnalyticsInsert(w) \/ AnalyticsSelect(w) \/ AnalyticsUpdate(w)

(* A database call of the worker throws: nothing more of the update happens. *)
AnalyticsAbort(w) ==
  /\ job' = [job EXCEPT ![w] = IdleJob]
  /\ UNCHANGED rows
=============================================================================
