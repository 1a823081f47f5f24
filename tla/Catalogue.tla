----------------------------- MODULE Catalogue -----------------------------
(***************************************************************************)
(* The venues of one city: how the seed and the owners fill the tables     *)
(* (seed/seed.service.ts, the venue management of modules/business), and   *)
(* how a visitor's phone pages through them (modules/venues). Handlers     *)
(* have no transaction; an action is one statement with the code after it, *)
(* and a save() of a loaded entity is a SELECT and an UPDATE of the columns *)
(* in which the entity differs. Name, address, images and the like are one *)
(* column, details; the rows of other tables that the body of an update    *)
(* may list are left out.                                                  *)
(***************************************************************************)
EXTENDS Seeding, FiniteSets

CONSTANTS
  Seeded, Fresh,       \* ids of seeded venues, and of venues owners create
  SeedOwner,           \* the owner the seed gives a seeded venue, or NoOwner
  SeedPercent,         \* the busyness the seed gives it
  NoOwner, NoVenue,    \* businessUserId is null; no row
  Owners,              \* business users
  Slots,               \* owner requests in flight
  Details,             \* values of the other columns
  Percents, NoLevel,   \* busyness percentages; no busyness row
  Near,                \* venues within the radius the visitor asks for
  Atmospheres,         \* the filters visitors choose from, AnyAtmosphere among them
  AnyAtmosphere,       \* no filter
  Limit                \* venues per page

VenueIds == Seeded \cup Fresh
NewPercent == 25                       \* the column default and createVenue's value
VenueRow == [owner : Owners \cup {NoOwner}, details : Details]
VenueCols == {"owner", "details"}

ASSUME CatalogueAssumption ==
  /\ VenueIds \subseteq Nat /\ Seeded \cap Fresh = {} /\ IsFiniteSet(Seeded)
  /\ SeedOwner \in [Seeded -> Owners \cup {NoOwner}]
  /\ SeedPercent \in [Seeded -> Percents]
  /\ AnyAtmosphere \in Atmospheres
  /\ Atmospheres \subseteq {AnyAtmosphere, "quiet", "lively", "packed"}
  /\ NoOwner \notin Owners /\ NoVenue \notin VenueRow
  /\ NewPercent \in Percents /\ Percents \subseteq Nat /\ NoLevel = 0 - 1
  /\ Near \subseteq VenueIds /\ Limit \in Nat \ {0} /\ Details # {}

VARIABLES
  venue,     \* table venues
  level,     \* table busyness, the percentage by venue
  req,       \* per slot: the owner's request in flight
  removed,   \* history: venues whose owner removed them, see Record
  visit      \* the visitor: the page to read next and what was shown so far

tables == <<venue, level>>
vars == <<seedVars, tables, req, removed, visit>>

Stored == {v \in VenueIds : venue[v] # NoVenue}
Serving == \E s \in Servers : server[s] = Up

AnyDetails == CHOOSE d \in Details : TRUE
NoCopy == [owner |-> NoOwner, details |-> AnyDetails]
IdleReq == [pc |-> "idle", op |-> "none", owner |-> NoOwner, venue |-> 0,
            copy |-> NoCopy, dirty |-> {}, named |-> FALSE]
Request == [pc : {"idle", "insertVenue", "insertBusyness", "insertVibe", "verify",
                  "find", "saveSelect", "saveInsert", "saveUpdate"},
            op : {"none", "create", "update", "delete"},
            owner : Owners \cup {NoOwner}, venue : VenueIds \cup {0},
            copy : VenueRow, dirty : SUBSET VenueCols, named : BOOLEAN]
NoVisit == [pc |-> "idle", atmosphere |-> AnyAtmosphere, page |-> 1, total |-> 0,
            shown |-> [v \in VenueIds |-> 0]]

TypeOK ==
  /\ SeedTypeOK
  /\ venue \in [VenueIds -> VenueRow \cup {NoVenue}]
  /\ level \in [VenueIds -> Percents \cup {NoLevel}]
  /\ req \in [Slots -> Request]
  /\ removed \subseteq VenueIds
  /\ visit \in [pc : {"idle", "count", "page", "done"}, atmosphere : Atmospheres,
                page : Nat, total : Nat, shown : [VenueIds -> Nat]]
-----------------------------------------------------------------------------
(* The seed's saves, with the rows that matter here. A row of busyness is  *)
(* UNIQUE by venue; venues without an account are not in the save of the   *)
(* owners. The rows of vibes, and the filter by vibe, are left out.          *)

SeededVenue == [owner |-> NoOwner, details |-> AnyDetails]
SeedVenueRows(t) ==
  venue' = [v \in VenueIds |->
    CASE t = "venues" /\ v \in Seeded -> SeededVenue
      [] t = "owners" /\ v \in Seeded /\ SeedOwner[v] # NoOwner ->
           [venue[v] EXCEPT !.owner = SeedOwner[v]]
      [] OTHER -> venue[v]]
SeedLevels(t) ==
  level' = IF t = "busyness"
           THEN [v \in VenueIds |-> IF v \in Seeded THEN SeedPercent[v] ELSE level[v]]
           ELSE level

Fill(s) ==
  LET t == SeedOrder[server[s]] IN
  /\ SeedSave(s)
  /\ IF copies' = copies THEN UNCHANGED tables
     ELSE /\ SeedVenueRows(t)
          /\ SeedLevels(t)

\* With the last server the requests end too.
Boot(s) ==
  /\ Start(s) \/ CountVenues(s) \/ ServerEnds(s)
  /\ req' = IF \E t \in Servers : server'[t] = Up THEN req ELSE [c \in Slots |-> IdleReq]
  /\ UNCHANGED tables
-----------------------------------------------------------------------------
(* Owner requests                                                          *)

Goto(c, pc) == req' = [req EXCEPT ![c].pc = pc]
Finish(c) == req' = [req EXCEPT ![c] = IdleReq]
Begin(c, op, pc, o, v) ==
  /\ Serving /\ req[c].pc = "idle"
  /\ req' = [req EXCEPT ![c] = [IdleReq EXCEPT !.pc = pc, !.op = op, !.owner = o, !.venue = v]]
  /\ UNCHANGED tables
CreateVenue(c, o) == Begin(c, "create", "insertVenue", o, 0)
UpdateVenue(c, o, v) == Begin(c, "update", "verify", o, v)
DeleteVenue(c, o, v) == Begin(c, "delete", "verify", o, v)

InsertVenue(c) ==
  /\ req[c].pc = "insertVenue"
  /\ \E v \in Fresh \ Stored, d \in Details :
       /\ venue' = [venue EXCEPT ![v] = [owner |-> req[c].owner, details |-> d]]
       /\ req' = [req EXCEPT ![c].pc = "insertBusyness", ![c].venue = v]
  /\ UNCHANGED level

\* A status update may have made the row first; the insert then throws.
InsertBusyness(c) ==
  LET v == req[c].venue IN
  /\ req[c].pc = "insertBusyness"
  /\ IF level[v] = NoLevel
     THEN level' = [level EXCEPT ![v] = NewPercent] /\ Goto(c, "insertVibe")
     ELSE Finish(c) /\ UNCHANGED level
  /\ UNCHANGED venue

\* The last one; its row, which may be refused like that of busyness, and the
\* log entry that follows are in no table of this module.
InsertVibe(c) ==
  /\ req[c].pc = "insertVibe"
  /\ Finish(c)
  /\ UNCHANGED tables

\* verifyOwnership: a venue of somebody else, or of nobody, is refused
Verify(c) ==
  /\ req[c].pc = "verify"
  /\ IF req[c].venue \in Stored /\ venue[req[c].venue].owner = req[c].owner
     THEN Goto(c, "find") ELSE Finish(c)
  /\ UNCHANGED tables

\* The entity the handler finds again. (A mutant: the one verifyOwnership read.)
Remembered(c) == [venue[req[c].venue] EXCEPT !.owner = req[c].owner]
Found(c) == venue[req[c].venue]

\* What updateVenue and deleteVenue make of it. No one validates the body of an
\* update: it may name a businessUserId, and an id, beside the details. The save
\* is then one of the venue with that id, which need not exist. ("named" is
\* history: the body names another owner or id than the found ones.)
Assigned(copy, d, o) == [copy EXCEPT !.details = d, !.owner = o]
Detached(copy) == [copy EXCEPT !.owner = NoOwner]

FindToUpdate(c) ==
  /\ req[c].pc = "find" /\ req[c].op = "update"
  /\ \E d \in Details, o \in Owners \cup {NoOwner}, v \in Stored \cup Fresh :
       req' = [req EXCEPT ![c].pc = "saveSelect", ![c].venue = v,
                 ![c].copy = Assigned(Found(c), d, o),
                 ![c].named = o # Found(c).owner \/ v # req[c].venue]
  /\ UNCHANGED tables

FindToDelete(c) ==
  /\ req[c].pc = "find" /\ req[c].op = "delete"
  /\ req' = [req EXCEPT ![c].pc = "saveSelect", ![c].copy = Detached(Found(c))]
  /\ UNCHANGED tables

SaveSelect(c) ==
  LET v == req[c].venue
      dirty == {col \in VenueCols : req[c].copy[col] # venue[v][col]}
  IN
  /\ req[c].pc = "saveSelect"
  /\ \/ v \notin Stored /\ Goto(c, "saveInsert")
     \/ v \in Stored /\ dirty = {} /\ Finish(c)
     \/ /\ v \in Stored /\ dirty # {}
        /\ req' = [req EXCEPT ![c].pc = "saveUpdate", ![c].dirty = dirty]
  /\ UNCHANGED tables

\* The id may have been stored since; the primary key then refuses the row.
SaveInsert(c) ==
  LET v == req[c].venue IN
  /\ req[c].pc = "saveInsert"
  /\ venue' = IF v \in Stored THEN venue ELSE [venue EXCEPT ![v] = req[c].copy]
  /\ Finish(c)
  /\ UNCHANGED level

SaveUpdate(c) ==
  LET v == req[c].venue IN
  /\ req[c].pc = "saveUpdate"
  /\ venue' = [venue EXCEPT ![v] = [col \in VenueCols |->
       IF col \in req[c].dirty THEN req[c].copy[col] ELSE venue[v][col]]]
  /\ Finish(c)
  /\ UNCHANGED level

\* A statement throws; what was stored before it stays.
RequestFails(c) == req[c].pc # "idle" /\ Finish(c) /\ UNCHANGED tables

OwnerRequest(c) ==
  \/ \E o \in Owners : \/ CreateVenue(c, o)
                      \/ \E v \in VenueIds : UpdateVenue(c, o, v) \/ DeleteVenue(c, o, v)
  \/ InsertVenue(c) \/ InsertBusyness(c) \/ InsertVibe(c)
  \/ Verify(c) \/ FindToUpdate(c) \/ FindToDelete(c)
  \/ SaveSelect(c) \/ SaveInsert(c) \/ SaveUpdate(c) \/ RequestFails(c)

\* updateVenueStatus, the statements of which StatusSync interleaves: it sets
\* the venue's row, and makes it when it is missing.
SetStatus(v) ==
  /\ Serving /\ v \in Stored /\ venue[v].owner # NoOwner
  /\ \E p \in Percents : level' = [level EXCEPT ![v] = p]
  /\ UNCHANGED <<venue, req>>
-----------------------------------------------------------------------------
(* The visitor: GET /venues with a radius, page after page                 *)

\* The atmosphere filter; SQL finds no missing row in any range.
Matches(v, atmosphere) ==
  CASE atmosphere = "quiet" -> level[v] # NoLevel /\ level[v] <= 33
    [] atmosphere = "lively" -> level[v] >= 34 /\ level[v] <= 66
    [] atmosphere = "packed" -> level[v] >= 67
    [] OTHER -> TRUE
Listed == {v \in Stored : Matches(v, visit.atmosphere)}

\* ORDER BY busyness.percentage DESC: PostgreSQL puts a missing row first.
\* TypeORM adds the primary key when it pages over joined tables.
Ahead(v, w) ==
  \/ level[v] = NoLevel /\ level[w] # NoLevel
  \/ level[v] # NoLevel /\ level[w] # NoLevel /\ level[v] > level[w]
  \/ level[v] = level[w] /\ v < w
Rank(v) == Cardinality({w \in Listed : Ahead(w, v)})

SkipPage(page) == page * Limit
Skip(page) == (page - 1) * Limit
Pages(total) == (total + Limit - 1) \div Limit

\* findAll counts, then reads one page, then drops what is out of the radius.
CountList ==
  /\ Serving
  /\ \/ /\ visit.pc = "idle"
        /\ \E a \in Atmospheres :
             visit' = [visit EXCEPT !.pc = "page", !.atmosphere = a,
                         !.total = Cardinality({v \in Stored : Matches(v, a)})]
     \/ /\ visit.pc = "count"
        /\ visit' = [visit EXCEPT !.pc = "page", !.total = Cardinality(Listed)]

ReadPage ==
  /\ Serving /\ visit.pc = "page"
  /\ LET first == Skip(visit.page)
         page == {v \in Listed : Rank(v) \in first .. first + Limit - 1}
         last == visit.page >= Pages(visit.total)
     IN visit' = [visit EXCEPT
          !.shown = [v \in VenueIds |-> @[v] + (IF v \in page \cap Near THEN 1 ELSE 0)],
          !.page = IF last THEN 1 ELSE @ + 1,
          !.total = 0,
          !.pc = IF last THEN "done" ELSE "count"]

LeaveList == visit.pc = "done" /\ visit' = NoVisit
-----------------------------------------------------------------------------
NoVenues == [v \in VenueIds |-> NoVenue]
Init ==
  /\ SeedInit
  /\ venue = NoVenues /\ level = [v \in VenueIds |-> NoLevel]
  /\ req = [c \in Slots |-> IdleReq]
  /\ removed = {}
  /\ visit = NoVisit

\* Does an update hold a copy to write to v? Does its body name v, or an owner?
Holds(c, v) == req[c].op = "update" /\ req[c].venue = v
               /\ req[c].pc \in {"saveSelect", "saveInsert", "saveUpdate"}
Held(v) == \E c \in Slots : Holds(c, v)
Named(v) == \E c \in Slots : Holds(c, v) /\ req[c].named

\* A removal counts when no update holds the venue and the seed has given out
\* the owners, until an update names the venue or an owner for it.
Removed == {v \in Stored : venue[v].owner # NoOwner /\ venue'[v].owner = NoOwner}
Counted == {v \in Removed : ~Held(v) /\ (v \in Seeded => copies["owners"] > 0)}
Record == removed' = {v \in removed \cup Counted : ~Named(v)'}

Step ==
  \/ \E s \in Servers : (Fill(s) /\ UNCHANGED req) \/ Boot(s)
  \/ \E c \in Slots : OwnerRequest(c) /\ UNCHANGED seedVars
  \/ \E v \in VenueIds : SetStatus(v) /\ UNCHANGED seedVars
Visiting == CountList \/ ReadPage \/ LeaveList

\* A visit is followed no further once the listing has changed under it.
Next ==
  /\ \/ Step /\ visit' = IF <<Stored, level>>' = <<Stored, level>> THEN visit ELSE NoVisit
     \/ Visiting /\ UNCHANGED <<seedVars, tables, req>>
  /\ Record

Spec == Init /\ [][Next]_vars
-----------------------------------------------------------------------------
(* "Venue removed from account" (business.controller.ts), but for two      *)
(* cases: the venue comes back only through an update that had read it     *)
(* before the removal and writes its stale businessUserId after it, or     *)
(* whose body names a businessUserId or an id.                             *)
(* The second find and the comparison of save() are what this rests on: an *)
(* update verified before the removal that finds the venue after it writes *)
(* no owner of its own.                                                    *)
RemovedForGood ==
  \A v \in removed : venue[v].owner = NoOwner

(* A visitor who read every page was shown every venue of that atmosphere  *)
(* within the radius, and none twice, unless a venue was created or a      *)
(* percentage changed between the pages: pages are counted before the      *)
(* radius is applied, and venues that are equally busy keep one order.     *)
PagesCover ==
  visit.pc = "done" =>
    \A v \in VenueIds : visit.shown[v] = IF v \in Listed \cap Near THEN 1 ELSE 0
=============================================================================
