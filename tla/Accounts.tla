------------------------------ MODULE Accounts ------------------------------
(***************************************************************************)
(* One customer's row of the users table, the requests that change it, and *)
(* the deletion of the account with the rows of other tables that refer to *)
(* it: some by a foreign key, some only by a userId column.                *)
(*                                                                         *)
(* Every handler finds the whole entity, changes the columns it is about   *)
(* and saves the whole entity. save() is a SELECT, then an UPDATE of the   *)
(* columns in which the entity differs from what the SELECT returned, or   *)
(* an INSERT when it returned nothing. Handlers that put a venue on the    *)
(* list or take it off go on to count that in venue_analytics.             *)
(***************************************************************************)
EXTENDS VenueAnalytics, Sequences

CONSTANTS
  Venues,       \* venues that can be saved
  Tracked,      \* the venue whose counters VenueAnalytics keeps
  NoUser,       \* what a findOne returns for a row that is not there
  MaxRequests,  \* bound of the model: requests that edit the row
  MaxViews,     \* bound of the model: views and clicks of the tracked venue
  Arriving      \* bound of the model: tables that get rows while it runs

Columns == {"preferences", "savedVenues", "password", "profile", "isVerified", "appState",
            "location"}

(* A value of a column is the number of the request that chose it. *)
UserRow == [preferences : 0 .. MaxRequests, password : 0 .. MaxRequests,
            profile : 0 .. MaxRequests, appState : 0 .. MaxRequests,
            location : 0 .. MaxRequests,
            isVerified : BOOLEAN, savedVenues : SUBSET Venues]

Purged == <<"notifications", "refresh_tokens", "redemptions", "devices",
            "notification_preferences">>
Referring == {Purged[i] : i \in 1 .. Len(Purged)}

(* Tables with a userId that is no foreign key. The deletion passes them by. *)
Loose == {"geofence_logs", "sync_actions"}
Tables == Referring \cup Loose

ASSUME AccountsAssumption ==
  /\ Tracked \in Venues
  /\ NoUser \notin UserRow
  /\ MaxRequests \in Nat \ {0}
  /\ MaxViews \in Nat
  /\ Arriving \subseteq Tables
  /\ {"totalSaves", "totalViews", "offerClicks"} \subseteq Fields

VARIABLES
  user,       \* the stored row, or NoUser
  children,   \* the tables that hold a row of this user
  cascading,  \* the tables whose foreign key deletes with the user's row
  req,        \* per worker: the request it is in the middle of
  served,     \* how many editing requests were begun
  views       \* how many views and clicks were asked for

VARIABLES
  fresh,      \* history: per column, the value last stored by a request about it
  exposed,    \* history: columns stored while another request held an older row
  erased,     \* history: the row was deleted while no save of it was under way
  raised,     \* history: per counter, how often it was asked to go up
  overlap     \* history: two counter updates were once in progress together

dbVars == <<user, children, cascading>>
histVars == <<fresh, exposed, erased, raised, overlap>>
vars == <<rows, job, dbVars, req, served, views, histVars>>

NewUser == [c \in Columns |-> CASE c = "isVerified" -> FALSE [] c = "savedVenues" -> {} [] OTHER -> 0]
IdleReq == [pc |-> "idle", held |-> NewUser, own |-> {}, dirty |-> {}, delta |-> 0,
            left |-> <<>>]
Request == [pc : {"idle", "select", "insert", "update", "count", "purge", "remove"},
            held : UserRow, own : SUBSET Columns, dirty : SUBSET Columns,
            delta : {-1, 0, 1}, left : {SubSeq(Purged, i, Len(Purged)) : i \in 1 .. 6}]

TypeOK ==
  /\ AnalyticsTypeOK
  /\ user \in UserRow \cup {NoUser}
  /\ children \subseteq Tables
  /\ cascading \subseteq Tables
  /\ req \in [Workers -> Request]
  /\ served \in 0 .. MaxRequests
  /\ views \in 0 .. MaxViews
  /\ fresh \in UserRow
  /\ exposed \subseteq Columns
  /\ erased \in BOOLEAN
  /\ raised \in [Fields -> Nat]
  /\ overlap \in BOOLEAN

(* In production the migrations give every foreign key ON DELETE CASCADE. Elsewhere
   the schema is synchronised from the entities, of which two say so. *)
Schemas == {Referring, {"devices", "notification_preferences"}}

Init ==
  /\ AnalyticsInit
  /\ user = NewUser
  /\ children = {"refresh_tokens"}
  /\ cascading \in Schemas
  /\ req = [w \in Workers |-> IdleReq]
  /\ served = 0 /\ views = 0
  /\ fresh = NewUser /\ exposed = {} /\ erased = FALSE
  /\ raised = [f \in Fields |-> 0] /\ overlap = FALSE

-----------------------------------------------------------------------------
(* What each handler makes of the entity r it found; n is the value it was
   sent. "own" are the columns the request is about, delta what it goes on to
   add to totalSaves. *)

Edit(held, own, delta) == [held |-> held, own |-> own, delta |-> delta]

SavePreferences(r, n) == Edit([r EXCEPT !.preferences = n], {"preferences"}, 0)
UpdateProfile(r, n) ==
  {Edit([c \in Columns |-> IF c \in own THEN n ELSE r[c]], own, 0)
     : own \in (SUBSET {"profile", "location"}) \ {{}}}
ResetPassword(r, n) == Edit([r EXCEPT !.password = n], {"password"}, 0)
ChangePassword(r, n) == Edit([r EXCEPT !.password = n], {"password"}, 0)
VerifyEmail(r) ==
  IF r.isVerified THEN {} ELSE {Edit([r EXCEPT !.isVerified = TRUE], {"isVerified"}, 0)}

SaveVenue(r) ==
  {Edit([r EXCEPT !.savedVenues = @ \cup {v}], {"savedVenues"}, IF v = Tracked THEN 1 ELSE 0)
     : v \in Venues \ r.savedVenues}
UnsaveVenue(r) ==
  {Edit([r EXCEPT !.savedVenues = @ \ {v}], {"savedVenues"}, 0) : v \in Venues}

(* a VENUE_SAVE of the offline queue: unlike the request, taking the venue off
   the list lowers the counter *)
SyncedSave(r) ==
  SaveVenue(r) \cup
  {Edit([r EXCEPT !.savedVenues = @ \ {v}], {"savedVenues"},
        IF v = Tracked /\ v \in r.savedVenues THEN -1 ELSE 0) : v \in Venues}

(* the state upload replaces what the phone sent, any of three columns *)
SaveUserState(r, n, vs) ==
  {Edit([c \in Columns |-> IF c \notin own THEN r[c] ELSE IF c = "savedVenues" THEN vs ELSE n],
        own, 0)
     : own \in (SUBSET {"preferences", "appState", "savedVenues"}) \ {{}}}

Edits(r, n) ==
  {SavePreferences(r, n), ResetPassword(r, n), ChangePassword(r, n)}
    \cup UpdateProfile(r, n) \cup VerifyEmail(r) \cup SaveVenue(r) \cup UnsaveVenue(r)
    \cup SyncedSave(r) \cup UNION {SaveUserState(r, n, vs) : vs \in SUBSET Venues}

(* findOne and what the handler does before save(). A row that is not there
   ends the request. *)
Find(w) ==
  /\ req[w].pc = "idle" /\ job[w].stage = "idle"
  /\ served < MaxRequests
  /\ user # NoUser
  /\ served' = served + 1
  /\ \E e \in Edits(user, served + 1) :
       req' = [req EXCEPT ![w] =
         [IdleReq EXCEPT !.pc = "select", !.held = e.held, !.own = e.own, !.delta = e.delta]]
  /\ UNCHANGED <<rows, job, dbVars, views, histVars>>

Saved(w) == IF req[w].delta = 0 THEN IdleReq ELSE [IdleReq EXCEPT !.pc = "count", !.delta = req[w].delta]

EveryColumn(held, row) == Columns
Differing(held, row) == {c \in Columns : held[c] # row[c]}

(* save(): the SELECT *)
SaveSelect(w) ==
  /\ req[w].pc = "select"
  /\ req' = [req EXCEPT ![w] =
       IF user = NoUser THEN [@ EXCEPT !.pc = "insert"]
       ELSE LET dirty == Differing(@.held, user) IN
            IF dirty = {} THEN Saved(w) ELSE [@ EXCEPT !.pc = "update", !.dirty = dirty]]
  /\ UNCHANGED <<rows, job, dbVars, served, views, histVars>>

HoldsRow(w) == req[w].pc = "select"

(* save(): the UPDATE of the columns found different; of a row that has gone
   since, it updates nothing, and save() does not notice *)
SaveUpdate(w) ==
  LET written == IF user = NoUser THEN {} ELSE req[w].dirty IN
  /\ req[w].pc = "update"
  /\ user' = IF user = NoUser THEN user
             ELSE [c \in Columns |-> IF c \in written THEN req[w].held[c] ELSE user[c]]
  /\ fresh' = [c \in Columns |->
                 IF c \in written \cap req[w].own THEN req[w].held[c] ELSE fresh[c]]
  /\ exposed' = IF \E x \in Workers \ {w} : HoldsRow(x)
                THEN exposed \cup (written \cap req[w].own) ELSE exposed
  /\ req' = [req EXCEPT ![w] = Saved(w)]
  /\ UNCHANGED <<rows, job, children, cascading, served, views, erased, raised, overlap>>

(* save(): the INSERT of an entity whose row was not there any more. The
   primary key refuses it when another request has done the same. *)
SaveInsert(w) ==
  /\ req[w].pc = "insert"
  /\ IF user = NoUser
     THEN /\ user' = req[w].held
          /\ fresh' = req[w].held
          /\ exposed' = IF \E x \in Workers \ {w} : HoldsRow(x) THEN Columns ELSE exposed
          /\ req' = [req EXCEPT ![w] = Saved(w)]
     ELSE /\ req' = [req EXCEPT ![w] = IdleReq]
          /\ UNCHANGED <<user, fresh, exposed>>
  /\ UNCHANGED <<rows, job, children, cascading, served, views, erased, raised, overlap>>

(* updateUserLocation and updateLocationConsent are one UPDATE of their own
   columns, without a findOne *)
UpdateLocation ==
  /\ served < MaxRequests
  /\ user # NoUser
  /\ served' = served + 1
  /\ user' = [user EXCEPT !.location = served + 1]
  /\ fresh' = [fresh EXCEPT !.location = served + 1]
  /\ exposed' = IF \E x \in Workers : HoldsRow(x) THEN exposed \cup {"location"} ELSE exposed
  /\ UNCHANGED <<rows, job, children, cascading, req, views, erased, raised, overlap>>

-----------------------------------------------------------------------------
(* The counters of the tracked venue *)

Counting == {w \in Workers : job[w].stage # "idle"}
NoteOverlap == overlap' = (overlap \/ Counting # {})

CountSave(w) ==
  /\ req[w].pc = "count"
  /\ AnalyticsFind(w, "totalSaves", req[w].delta)
  /\ raised' = IF req[w].delta = 1 THEN [raised EXCEPT !["totalSaves"] = @ + 1] ELSE raised
  /\ NoteOverlap
  /\ req' = [req EXCEPT ![w] = IdleReq]
  /\ UNCHANGED <<dbVars, served, views, fresh, exposed, erased>>

Track(w, field) ==
  /\ req[w].pc = "idle" /\ job[w].stage = "idle"
  /\ views < MaxViews
  /\ views' = views + 1
  /\ AnalyticsFind(w, field, 1)
  /\ raised' = [raised EXCEPT ![field] = @ + 1]
  /\ NoteOverlap
  /\ UNCHANGED <<dbVars, req, served, fresh, exposed, erased>>

(* trackView of the venue page, and a VENUE_VIEW of the offline queue *)
TrackView(w) == Track(w, "totalViews")

(* trackClick of one of the venue's offers *)
TrackClick(w) == Track(w, "offerClicks")

SaveCounters(w) ==
  /\ AnalyticsSave(w)
  /\ UNCHANGED <<dbVars, req, served, views, histVars>>

-----------------------------------------------------------------------------
(* Deleting the account *)

DeleteFind(w) ==
  /\ req[w].pc = "idle" /\ job[w].stage = "idle"
  /\ user # NoUser
  /\ req' = [req EXCEPT ![w] = [IdleReq EXCEPT !.pc = "purge", !.left = Purged]]
  /\ UNCHANGED <<rows, job, dbVars, served, views, histVars>>

(* one DELETE ... WHERE "userId" per table *)
DeleteChildren(w) ==
  /\ req[w].pc = "purge"
  /\ children' = children \ {Head(req[w].left)}
  /\ req' = [req EXCEPT ![w].left = Tail(@),
                        ![w].pc = IF Len(req[w].left) = 1 THEN "remove" ELSE "purge"]
  /\ UNCHANGED <<rows, job, user, cascading, served, views, histVars>>

Refusing == (children \cap Referring) \ cascading

(* remove(user): refused while a table without ON DELETE CASCADE still has a
   row of the user, and then the request ends with what it deleted deleted *)
DeleteUser(w) ==
  /\ req[w].pc = "remove"
  /\ req' = [req EXCEPT ![w] = IdleReq]
  /\ IF user = NoUser \/ Refusing # {}
     THEN UNCHANGED <<user, children, erased>>
     ELSE /\ user' = NoUser
          /\ children' = children \ cascading
          /\ erased' = (\A x \in Workers : req[x].pc \notin {"select", "insert"})
  /\ UNCHANGED <<rows, job, cascading, served, views, fresh, exposed, raised, overlap>>

AnyOwner(t) == TRUE
OwnerStored(t) == t \in Referring => user # NoUser

(* INSERT of a row that refers to the user, by a sign-in, a notification, a
   claim, the registration of a device or the first read of the preferences; or
   by a geofence check or an uploaded action. Their token is not checked against
   users, but a foreign key is. *)
InsertChild(t) ==
  /\ OwnerStored(t)
  /\ children' = children \cup {t}
  /\ UNCHANGED <<rows, job, user, cascading, req, served, views, histVars>>

-----------------------------------------------------------------------------
EditStep(w) == SaveSelect(w) \/ SaveUpdate(w) \/ SaveInsert(w) \/ CountSave(w) \/ SaveCounters(w)
DeleteStep(w) == DeleteChildren(w) \/ DeleteUser(w)

Next ==
  \/ \E w \in Workers : Find(w) \/ EditStep(w) \/ TrackView(w) \/ TrackClick(w) \/ DeleteFind(w) \/ DeleteStep(w)
  \/ UpdateLocation
  \/ \E t \in Arriving : InsertChild(t)

Spec == Init /\ [][Next]_vars

-----------------------------------------------------------------------------
(* Properties *)

(* A stored column differs from what the last request about it stored only if *)
(* that request stored it between another request's findOne and the SELECT of *)
(* its save(): the window in which the handlers can undo one another is that  *)
(* one, and it does not reach to the UPDATE.                                  *)
StaleOnlyIfExposed ==
  user # NoUser => \A c \in Columns : user[c] # fresh[c] => c \in exposed

(* An account deleted while no save of its row was under way stays deleted,   *)
(* whatever its still valid tokens are used for, and no row that refers to it *)
(* by a foreign key is left or comes back. "Delete user account (GDPR -       *)
(* permanent)" (users.controller.ts) is more than that: the rows of Loose do  *)
(* stay, and more of them can be uploaded.                                    *)
ErasedForGood == erased => user = NoUser /\ children \cap Referring = {}

(* What a counter shows over all the rows of the day, unit by unit *)
Units(f) == UNION {{i} \X (1 .. rows[i][f]) : i \in Stored}
Shown(f) == Cardinality(Units(f))

(* A venue's owner is never shown more saves, views or clicks than happened,  *)
(* over all the rows of the day, although every save may write back old       *)
(* values.                                                                    *)
NeverOverReports == \A f \in Fields : Shown(f) <= raised[f]

(* Views and clicks are lost only by overlap: updates of the counters that    *)
(* ran one after the other are all in them.                                   *)
ExactWithoutOverlap ==
  ~overlap /\ Counting = {} =>
    \A f \in {"totalViews", "offerClicks"} : Shown(f) = raised[f]
=============================================================================
