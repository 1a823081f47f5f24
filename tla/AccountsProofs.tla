--------------------------- MODULE AccountsProofs ---------------------------
(***************************************************************************)
(* StaleOnlyIfExposed, ErasedForGood, NeverOverReports and                 *)
(* ExactWithoutOverlap, for any number of requests, edits, venues and rows *)
(* of counters.                                                            *)
(***************************************************************************)
EXTENDS Accounts, SequenceTheorems, FiniteSetTheorems, TLAPS

(* Which values a column holds is of no concern to these properties.       *)
Value == Int \cup BOOLEAN \cup SUBSET Venues
AnyRow == {r \in [Columns -> Value] : r["savedVenues"] \in SUBSET Venues}
Names == {"notifications", "refresh_tokens", "redemptions", "devices", "notification_preferences"}
AnyRequest == [pc : {"idle", "select", "insert", "update", "count", "purge", "remove"},
               held : AnyRow, own : SUBSET Columns, dirty : SUBSET Columns,
               delta : {-1, 0, 1}, left : Seq(Names)]

Shaped ==
  /\ user \in AnyRow \cup {NoUser} /\ fresh \in AnyRow
  /\ req \in [Workers -> AnyRequest]
  /\ served \in Int
  /\ \A w \in Workers : req[w].pc = "purge" => req[w].left # <<>>

(* Until a column is exposed, a request before its SELECT holds the freshest *)
(* value of every column it is not about, ...                               *)
HeldFresh == \A w \in Workers : req[w].pc = "select" =>
  \A c \in Columns \ req[w].own : c \notin exposed => req[w].held[c] = fresh[c]

(* ... so its UPDATE will write no such column. *)
DirtyOwn == \A w \in Workers : req[w].pc = "update" => req[w].dirty \subseteq req[w].own \cup exposed

(* No request is left that could insert an erased account again. *)
NothingHeld == erased =>
  /\ user = NoUser /\ children \cap Referring = {}
  /\ \A w \in Workers : req[w].pc \notin {"select", "insert"}

AInv == Shaped /\ HeldFresh /\ DirtyOwn /\ StaleOnlyIfExposed /\ NothingHeld

-----------------------------------------------------------------------------
LEMMA RowExcept ==
  ASSUME NEW r \in AnyRow, NEW f \in Columns, NEW x \in Value,
         f = "savedVenues" => x \in SUBSET Venues
  PROVE  /\ [r EXCEPT ![f] = x] \in AnyRow
         /\ \A c \in Columns \ {f} : [r EXCEPT ![f] = x][c] = r[c]
PROOF
  <1> DEFINE q == [r EXCEPT ![f] = x]
  <1>1. /\ r \in [Columns -> Value] /\ r["savedVenues"] \in SUBSET Venues
        /\ "savedVenues" \in Columns
    BY DEF AnyRow, Columns
  <1>2. /\ q \in [Columns -> Value]
        /\ \A c \in Columns : q[c] = IF c = f THEN x ELSE r[c]
    BY <1>1
  <1> HIDE DEF q
  <1>3. q["savedVenues"] \in SUBSET Venues
    BY <1>1, <1>2
  <1>4. q \in AnyRow /\ \A c \in Columns \ {f} : q[c] = r[c]
    BY <1>2, <1>3 DEF AnyRow
  <1> QED
    BY <1>4 DEF q

(* A handler changes no column of the entity but those it is about. *)
LEMMA EditsOwn ==
  ASSUME NEW r \in AnyRow, NEW n \in Int, NEW e \in Edits(r, n)
  PROVE  /\ e.held \in AnyRow /\ e.own \subseteq Columns /\ e.delta \in {-1, 0, 1}
         /\ \A c \in Columns \ e.own : e.held[c] = r[c]
PROOF
  <1> DEFINE Good(x) == /\ x.held \in AnyRow /\ x.own \subseteq Columns /\ x.delta \in {-1, 0, 1}
                        /\ \A c \in Columns \ x.own : x.held[c] = r[c]
  <1>1. ASSUME NEW f \in Columns, NEW x \in Value, f = "savedVenues" => x \in SUBSET Venues,
               NEW d \in {-1, 0, 1}
        PROVE  Good(Edit([r EXCEPT ![f] = x], {f}, d))
    BY <1>1, RowExcept DEF Edit
  <1>2. /\ \A x \in Value : Good(Edit([r EXCEPT !.preferences = x], {"preferences"}, 0))
        /\ \A x \in Value : Good(Edit([r EXCEPT !.password = x], {"password"}, 0))
        /\ \A x \in Value : Good(Edit([r EXCEPT !.isVerified = x], {"isVerified"}, 0))
        /\ \A x \in SUBSET Venues, d \in {-1, 0, 1} :
             Good(Edit([r EXCEPT !.savedVenues = x], {"savedVenues"}, d))
    <2>1. {"preferences", "password", "isVerified", "savedVenues"} \subseteq Columns
      BY DEF Columns
    <2>2. SUBSET Venues \subseteq Value
      BY DEF Value
    <2> HIDE DEF Good
    <2> QED
      BY <1>1, <2>1, <2>2
  <1>3. ASSUME NEW own \in SUBSET Columns, NEW h \in AnyRow, \A c \in Columns \ own : h[c] = r[c]
        PROVE  Good(Edit(h, own, 0))
    BY <1>3 DEF Edit
  <1>4. ASSUME NEW own \in SUBSET (Columns \ {"savedVenues"})
        PROVE  Good(Edit([c \in Columns |-> IF c \in own THEN n ELSE r[c]], own, 0))
    <2> DEFINE h == [c \in Columns |-> IF c \in own THEN n ELSE r[c]]
    <2>1. h \in [Columns -> Value] /\ h["savedVenues"] = r["savedVenues"]
      BY DEF AnyRow, Value, Columns
    <2>2. \A c \in Columns \ own : h[c] = r[c]
      OBVIOUS
    <2>3. h \in AnyRow
      <3> HIDE DEF h
      <3> QED
        BY <2>1 DEF AnyRow
    <2> HIDE DEF h, Good
    <2>4. Good(Edit(h, own, 0))
      BY <1>3, <2>2, <2>3
    <2> QED
      BY <2>4 DEF h
  <1>5. ASSUME NEW own \in SUBSET Columns, NEW vs \in SUBSET Venues
        PROVE  Good(Edit([c \in Columns |-> IF c \notin own THEN r[c]
                                    ELSE IF c = "savedVenues" THEN vs ELSE n], own, 0))
    <2> DEFINE h == [c \in Columns |-> IF c \notin own THEN r[c]
                                    ELSE IF c = "savedVenues" THEN vs ELSE n]
    <2>1. h \in [Columns -> Value] /\ h["savedVenues"] \in {vs, r["savedVenues"]}
      BY DEF AnyRow, Value, Columns
    <2>2. \A c \in Columns \ own : h[c] = r[c]
      OBVIOUS
    <2>3. h \in AnyRow
      <3> HIDE DEF h
      <3> QED
        BY <2>1 DEF AnyRow
    <2> HIDE DEF h, Good
    <2>4. Good(Edit(h, own, 0))
      BY <1>3, <2>2, <2>3
    <2> QED
      BY <2>4 DEF h
  <1> HIDE DEF Good
  <1>6. Good(SavePreferences(r, n)) /\ Good(ResetPassword(r, n)) /\ Good(ChangePassword(r, n))
    BY <1>2 DEF SavePreferences, ResetPassword, ChangePassword, Value
  <1>7. \A x \in VerifyEmail(r) : Good(x)
    BY <1>2 DEF VerifyEmail, Value
  <1>8. \A x \in SaveVenue(r) \cup UnsaveVenue(r) \cup SyncedSave(r) : Good(x)
    <2>1. r.savedVenues \subseteq Venues
      BY DEF AnyRow
    <2>2. \A x \in SaveVenue(r) : Good(x)
      BY <1>2, <2>1 DEF SaveVenue
    <2>3. \A x \in UnsaveVenue(r) : Good(x)
      BY <1>2, <2>1 DEF UnsaveVenue
    <2>4. \A x \in SyncedSave(r) : Good(x)
      BY <1>2, <2>1, <2>2 DEF SyncedSave
    <2> QED
      BY <2>2, <2>3, <2>4
  <1>9. \A x \in UpdateProfile(r, n) : Good(x)
    BY <1>4 DEF UpdateProfile, Columns
  <1>10. \A vs \in SUBSET Venues : \A x \in SaveUserState(r, n, vs) : Good(x)
    BY <1>5 DEF SaveUserState, Columns
  <1>11. Good(e)
    BY <1>6, <1>7, <1>8, <1>9, <1>10 DEF Edits
  <1> QED
    BY <1>11 DEF Good

-----------------------------------------------------------------------------
(* The steps that change neither the row nor what is known of it, and begin   *)
(* no save.                                                                   *)
LEMMA RowKept ==
  ASSUME AInv, user' = user, fresh' = fresh, exposed' = exposed, served' \in Int,
         req' \in [Workers -> AnyRequest],
         \A w \in Workers :
           /\ req'[w].pc \in {"select", "insert", "update"} => req'[w] = req[w]
           /\ req'[w].pc = "purge" => req'[w].left # <<>>,
         erased' => user' = NoUser /\ children' \cap Referring = {},
         erased' => \A w \in Workers : req[w].pc \notin {"select", "insert"}
  PROVE  AInv'
PROOF
  <1>1. Shaped'
    BY DEF AInv, Shaped
  <1>2. HeldFresh' /\ DirtyOwn'
    BY DEF AInv, HeldFresh, DirtyOwn
  <1>3. StaleOnlyIfExposed'
    BY DEF AInv, StaleOnlyIfExposed
  <1>4. NothingHeld'
    BY DEF NothingHeld
  <1> QED
    BY <1>1, <1>2, <1>3, <1>4 DEF AInv

LEMMA NewUserShape == NewUser \in AnyRow
PROOF
  <1>1. NewUser \in [Columns -> Value]
    BY DEF NewUser, Columns, Value
  <1>2. NewUser["savedVenues"] = {}
    BY DEF NewUser, Columns
  <1> QED
    BY <1>1, <1>2 DEF AnyRow

LEMMA IdleShape == IdleReq \in AnyRequest /\ IdleReq.pc = "idle"
  BY NewUserShape DEF IdleReq, AnyRequest

LEMMA SavedShape ==
  ASSUME AInv, NEW w \in Workers
  PROVE  Saved(w) \in AnyRequest /\ Saved(w).pc \in {"idle", "count"}
  BY IdleShape DEF Saved, AInv, Shaped, AnyRequest

(* findOne: what is held of the other columns is what is stored. *)
LEMMA FindKeeps ==
  ASSUME AInv, NEW w \in Workers, Find(w)
  PROVE  AInv'
PROOF
  <1>1. /\ user # NoUser /\ user \in AnyRow /\ req[w].pc = "idle"
        /\ UNCHANGED <<user, fresh, exposed, erased, children>>
        /\ served \in Int /\ served + 1 \in Int /\ served' = served + 1
        /\ req \in [Workers -> AnyRequest]
    BY DEF Find, AInv, Shaped, dbVars, histVars
  <1>2. PICK e \in Edits(user, served + 1) :
          req' = [req EXCEPT ![w] =
            [IdleReq EXCEPT !.pc = "select", !.held = e.held, !.own = e.own, !.delta = e.delta]]
    BY DEF Find
  <1>3. /\ e.held \in AnyRow /\ e.own \subseteq Columns /\ e.delta \in {-1, 0, 1}
        /\ \A c \in Columns \ e.own : e.held[c] = user[c]
    BY <1>1, EditsOwn
  <1> DEFINE q == [IdleReq EXCEPT !.pc = "select", !.held = e.held, !.own = e.own, !.delta = e.delta]
  <1>4. q \in AnyRequest /\ q.pc = "select" /\ q.held = e.held /\ q.own = e.own
    BY <1>3, IdleShape DEF AnyRequest
  <1> HIDE DEF q
  <1>5. /\ req' \in [Workers -> AnyRequest] /\ req'[w] = q
        /\ \A x \in Workers \ {w} : req'[x] = req[x]
    BY <1>1, <1>2, <1>4 DEF q
  <1>6. Shaped'
    BY <1>1, <1>4, <1>5 DEF AInv, Shaped
  <1>7. HeldFresh'
    BY <1>1, <1>3, <1>4, <1>5 DEF AInv, HeldFresh, StaleOnlyIfExposed
  <1>8. DirtyOwn' /\ StaleOnlyIfExposed'
    BY <1>1, <1>4, <1>5 DEF AInv, DirtyOwn, StaleOnlyIfExposed
  <1>9. NothingHeld'
    BY <1>1 DEF AInv, NothingHeld
  <1> QED
    BY <1>6, <1>7, <1>8, <1>9 DEF AInv

(* The SELECT: a column it finds different, that the request is not about, is *)
(* an exposed one.                                                            *)
LEMMA SelectKeeps ==
  ASSUME AInv, NEW w \in Workers, SaveSelect(w)
  PROVE  AInv'
PROOF
  <1> DEFINE dirty == Differing(req[w].held, user)
  <1>1. /\ req[w].pc = "select" /\ req[w] \in AnyRequest /\ req \in [Workers -> AnyRequest]
        /\ UNCHANGED <<user, fresh, exposed, erased, children, served>>
    BY DEF SaveSelect, AInv, Shaped, dbVars, histVars
  <1>2. dirty \subseteq Columns
    BY DEF Differing
  <1>3. user # NoUser => dirty \subseteq req[w].own \cup exposed
    BY <1>1 DEF AInv, HeldFresh, StaleOnlyIfExposed, Differing
  <1>4. req' = [req EXCEPT ![w] =
                  IF user = NoUser THEN [req[w] EXCEPT !.pc = "insert"]
                  ELSE IF dirty = {} THEN Saved(w)
                  ELSE [req[w] EXCEPT !.pc = "update", !.dirty = dirty]]
    BY <1>1 DEF SaveSelect
  <1> HIDE DEF dirty
  <1>5. /\ req' \in [Workers -> AnyRequest]
        /\ \A x \in Workers \ {w} : req'[x] = req[x]
        /\ req'[w].pc \in {"insert", "update", "idle", "count"}
        /\ req'[w].pc = "update" => /\ user # NoUser /\ req'[w].dirty = dirty
                                    /\ req'[w].own = req[w].own
    <2>1. CASE user = NoUser
      BY <1>1, <1>4, <2>1 DEF AnyRequest
    <2>2. CASE user # NoUser /\ dirty = {}
      BY <1>1, <1>4, <2>2, SavedShape
    <2>3. CASE user # NoUser /\ dirty # {}
      BY <1>1, <1>2, <1>4, <2>3 DEF AnyRequest
    <2> QED
      BY <2>1, <2>2, <2>3
  <1>6. Shaped'
    BY <1>1, <1>5 DEF AInv, Shaped
  <1>7. HeldFresh'
    BY <1>1, <1>5 DEF AInv, HeldFresh
  <1>8. DirtyOwn'
    BY <1>1, <1>3, <1>5 DEF AInv, DirtyOwn
  <1>9. StaleOnlyIfExposed' /\ NothingHeld'
    BY <1>1, <1>5 DEF AInv, StaleOnlyIfExposed, NothingHeld
  <1> QED
    BY <1>6, <1>7, <1>8, <1>9 DEF AInv

(* The UPDATE writes columns its request is about, and others only if they    *)
(* were exposed; the former it exposes to the requests that hold the row.     *)
LEMMA UpdateKeeps ==
  ASSUME AInv, NEW w \in Workers, SaveUpdate(w)
  PROVE  AInv'
PROOF
  <1> DEFINE written == IF user = NoUser THEN {} ELSE req[w].dirty
             own == req[w].own
             held == req[w].held
  <1>1. /\ req[w].pc = "update" /\ req[w] \in AnyRequest /\ req \in [Workers -> AnyRequest]
        /\ UNCHANGED <<erased, children, served>>
        /\ written \subseteq Columns /\ held \in AnyRow
        /\ user \in AnyRow \cup {NoUser} /\ fresh \in AnyRow
    BY DEF SaveUpdate, AInv, Shaped, AnyRequest
  <1>2. /\ user' = IF user = NoUser THEN user
                   ELSE [c \in Columns |-> IF c \in written THEN held[c] ELSE user[c]]
        /\ fresh' = [c \in Columns |-> IF c \in written \cap own THEN held[c] ELSE fresh[c]]
        /\ exposed' = IF \E x \in Workers \ {w} : HoldsRow(x)
                      THEN exposed \cup (written \cap own) ELSE exposed
    BY DEF SaveUpdate
  <1>3. written \subseteq own \cup exposed
    BY <1>1 DEF AInv, DirtyOwn
  <1>4. /\ req' \in [Workers -> AnyRequest] /\ req'[w].pc \in {"idle", "count"}
        /\ \A x \in Workers \ {w} : req'[x] = req[x]
    BY <1>1, SavedShape DEF SaveUpdate
  <1> HIDE DEF written, own, held
  <1>5. /\ fresh' \in AnyRow
        /\ \A c \in Columns : fresh'[c] = IF c \in written \cap own THEN held[c] ELSE fresh[c]
    BY <1>1, <1>2 DEF AnyRow, Columns
  <1>6. /\ user' \in AnyRow \cup {NoUser}
        /\ user = NoUser => user' = NoUser
        /\ user # NoUser =>
             \A c \in Columns : user'[c] = IF c \in written THEN held[c] ELSE user[c]
    BY <1>1, <1>2 DEF AnyRow, Columns
  <1>7. Shaped'
    BY <1>1, <1>4, <1>5, <1>6 DEF AInv, Shaped
  <1>8. HeldFresh'
    <2>1. ASSUME NEW x \in Workers, req'[x].pc = "select",
                 NEW c \in Columns \ req'[x].own, c \notin exposed'
          PROVE  req'[x].held[c] = fresh'[c]
      <3>1. x # w /\ req'[x] = req[x] /\ HoldsRow(x)
        BY <1>4, <2>1 DEF HoldsRow
      <3>2. c \notin exposed /\ c \notin written \cap own
        BY <1>2, <2>1, <3>1
      <3> QED
        BY <1>5, <2>1, <3>1, <3>2 DEF AInv, HeldFresh
    <2> QED
      BY <2>1 DEF HeldFresh
  <1>9. DirtyOwn'
    BY <1>2, <1>4 DEF AInv, DirtyOwn
  <1>10. StaleOnlyIfExposed'
    <2>1. exposed \subseteq exposed'
      BY <1>2
    <2> QED
      BY <1>3, <1>5, <1>6, <2>1 DEF AInv, StaleOnlyIfExposed
  <1>11. NothingHeld'
    BY <1>1, <1>4, <1>6 DEF AInv, NothingHeld
  <1> QED
    BY <1>7, <1>8, <1>9, <1>10, <1>11 DEF AInv

(* The INSERT makes every column the freshest, and exposes every column.      *)
LEMMA InsertKeeps ==
  ASSUME AInv, NEW w \in Workers, SaveInsert(w)
  PROVE  AInv'
PROOF
  <1>1. /\ req[w].pc = "insert" /\ req[w] \in AnyRequest /\ req \in [Workers -> AnyRequest]
        /\ UNCHANGED <<erased, children, served>> /\ ~erased
    BY DEF SaveInsert, AInv, Shaped, NothingHeld
  <1>2. /\ req' \in [Workers -> AnyRequest] /\ req'[w].pc \in {"idle", "count"}
        /\ \A x \in Workers \ {w} : req'[x] = req[x]
    BY <1>1, SavedShape, IdleShape DEF SaveInsert
  <1>3. CASE user = NoUser
    <2>1. /\ user' = req[w].held /\ fresh' = req[w].held /\ req[w].held \in AnyRow
          /\ exposed' = IF \E x \in Workers \ {w} : HoldsRow(x) THEN Columns ELSE exposed
      BY <1>1, <1>3 DEF SaveInsert, AnyRequest
    <2>2. Shaped'
      BY <1>1, <1>2, <2>1 DEF AInv, Shaped
    <2>3. HeldFresh'
      BY <1>2, <2>1 DEF HeldFresh, HoldsRow
    <2>4. DirtyOwn'
      <3>1. \A x \in Workers : req[x].dirty \subseteq Columns
        BY <1>1 DEF AnyRequest
      <3> QED
        BY <1>2, <2>1, <3>1 DEF AInv, DirtyOwn
    <2>5. StaleOnlyIfExposed' /\ NothingHeld'
      BY <1>1, <2>1 DEF StaleOnlyIfExposed, NothingHeld
    <2> QED
      BY <2>2, <2>3, <2>4, <2>5 DEF AInv
  <1>4. CASE user # NoUser
    <2>1. UNCHANGED <<user, fresh, exposed>>
      BY <1>4 DEF SaveInsert
    <2>2. served' \in Int
      BY <1>1 DEF AInv, Shaped
    <2>3. \A x \in Workers :
            /\ req'[x].pc \in {"select", "insert", "update"} => req'[x] = req[x]
            /\ req'[x].pc = "purge" => req'[x].left # <<>>
      BY <1>2 DEF AInv, Shaped
    <2> QED
      BY <1>1, <1>2, <2>1, <2>2, <2>3, RowKept
  <1> QED
    BY <1>3, <1>4

(* The UPDATE of the location alone exposes it to the requests that hold the  *)
(* row.                                                                       *)
LEMMA LocationKeeps ==
  ASSUME AInv, UpdateLocation
  PROVE  AInv'
PROOF
  <1>1. /\ user # NoUser /\ user \in AnyRow /\ fresh \in AnyRow
        /\ UNCHANGED <<req, erased, children>>
        /\ served + 1 \in Int /\ served' = served + 1
        /\ "location" \in Columns /\ Int \subseteq Value
    BY DEF UpdateLocation, AInv, Shaped, Columns, Value
  <1> DEFINE n == served + 1
             l == "location"
  <1>a. /\ n \in Value /\ l \in Columns /\ l # "savedVenues"
        /\ user' = [user EXCEPT ![l] = n] /\ fresh' = [fresh EXCEPT ![l] = n]
    BY <1>1 DEF UpdateLocation
  <1> HIDE DEF n, l
  <1>b. user \in AnyRow /\ fresh \in AnyRow
    BY <1>1
  <1>2. /\ user' \in AnyRow
        /\ \A c \in Columns \ {l} : user'[c] = user[c]
    <2>1. /\ [user EXCEPT ![l] = n] \in AnyRow
          /\ \A c \in Columns \ {l} : [user EXCEPT ![l] = n][c] = user[c]
      BY <1>a, <1>b, RowExcept
    <2> QED
      BY <1>a, <2>1
  <1>3. /\ fresh' \in AnyRow
        /\ \A c \in Columns \ {l} : fresh'[c] = fresh[c]
    <2>1. /\ [fresh EXCEPT ![l] = n] \in AnyRow
          /\ \A c \in Columns \ {l} : [fresh EXCEPT ![l] = n][c] = fresh[c]
      BY <1>a, <1>b, RowExcept
    <2> QED
      BY <1>a, <2>1
  <1>4. user'[l] = fresh'[l]
    BY <1>1, <1>a DEF AnyRow
  <1>5. exposed' = IF \E x \in Workers : HoldsRow(x) THEN exposed \cup {l} ELSE exposed
    BY DEF UpdateLocation, l
  <1>6. Shaped'
    BY <1>1, <1>2, <1>3 DEF AInv, Shaped
  <1>7. HeldFresh'
    BY <1>1, <1>3, <1>5 DEF AInv, HeldFresh, HoldsRow
  <1>8. DirtyOwn' /\ StaleOnlyIfExposed'
    BY <1>1, <1>2, <1>3, <1>4, <1>5 DEF AInv, DirtyOwn, StaleOnlyIfExposed
  <1>9. NothingHeld'
    BY <1>1 DEF AInv, NothingHeld
  <1> QED
    BY <1>6, <1>7, <1>8, <1>9 DEF AInv

(* The steps of counters do not touch the row. *)
LEMMA CountersKeep ==
  ASSUME AInv, NEW w \in Workers,
         CountSave(w) \/ TrackView(w) \/ TrackClick(w) \/ SaveCounters(w)
  PROVE  AInv'
PROOF
  <1>1. /\ UNCHANGED <<user, children, fresh, exposed, erased, served>>
        /\ req' \in [Workers -> AnyRequest] /\ served \in Int
        /\ \A x \in Workers : req'[x] = req[x] \/ req'[x].pc = "idle"
    BY IdleShape DEF AInv, Shaped, CountSave, TrackView, TrackClick, Track, SaveCounters,
       dbVars, histVars
  <1>2. \A x \in Workers :
          /\ req'[x].pc \in {"select", "insert", "update"} => req'[x] = req[x]
          /\ req'[x].pc = "purge" => req'[x].left # <<>>
    BY <1>1 DEF AInv, Shaped
  <1> QED
    BY <1>1, <1>2, RowKept DEF AInv, NothingHeld

LEMMA FiveLong ==
  ASSUME NEW S, NEW a \in S, NEW b \in S, NEW c \in S, NEW d \in S, NEW e \in S
  PROVE  <<a, b, c, d, e>> \in Seq(S)
  OBVIOUS

LEMMA TailLeft ==
  ASSUME NEW s \in Seq(Names), s # <<>>
  PROVE  Tail(s) \in Seq(Names) /\ (Len(s) # 1 => Tail(s) # <<>>)
PROOF
  <1>1. Tail(s) \in Seq(Names) /\ Len(Tail(s)) = Len(s) - 1 /\ Len(s) \in Nat
    BY HeadTailProperties, LenProperties
  <1>2. Len(s) # 1 => Len(Tail(s)) # 0
    BY <1>1
  <1> QED
    BY <1>1, <1>2, EmptySeq

(* Deleting the account, up to its row. *)
LEMMA PurgeKeeps ==
  ASSUME AInv, NEW w \in Workers, DeleteFind(w) \/ DeleteChildren(w)
  PROVE  AInv'
PROOF
  <1>1. /\ UNCHANGED <<user, fresh, exposed, erased, served>>
        /\ children' \subseteq children
        /\ req \in [Workers -> AnyRequest] /\ req[w] \in AnyRequest /\ served \in Int
    BY DEF DeleteFind, DeleteChildren, AInv, Shaped, dbVars, histVars
  <1>2. /\ req' \in [Workers -> AnyRequest]
        /\ req'[w].pc \in {"purge", "remove"}
        /\ req'[w].pc = "purge" => req'[w].left # <<>>
        /\ \A x \in Workers \ {w} : req'[x] = req[x]
    <2>1. CASE DeleteFind(w)
      <3>1. Purged \in Seq(Names) /\ Purged # <<>>
        <4>1. Purged \in Seq(Names)
          BY FiveLong DEF Purged, Names
        <4>2. Len(Purged) = 5
          BY DEF Purged
        <4> QED
          BY <4>1, <4>2, EmptySeq
      <3> DEFINE q == [IdleReq EXCEPT !.pc = "purge", !.left = Purged]
      <3>2. q \in AnyRequest /\ q.pc = "purge" /\ q.left = Purged
        BY <3>1, IdleShape DEF AnyRequest
      <3> HIDE DEF q
      <3>3. req' = [req EXCEPT ![w] = q]
        BY <2>1 DEF DeleteFind, q
      <3> QED
        BY <1>1, <3>1, <3>2, <3>3
    <2>2. CASE DeleteChildren(w)
      <3> DEFINE l == req[w].left
                 p == IF Len(l) = 1 THEN "remove" ELSE "purge"
                 q == [req[w] EXCEPT !.left = Tail(l), !.pc = p]
      <3>1. l \in Seq(Names) /\ l # <<>>
        BY <1>1, <2>2 DEF DeleteChildren, AInv, Shaped, AnyRequest
      <3>2. Tail(l) \in Seq(Names) /\ (p = "purge" => Tail(l) # <<>>) /\ p \in {"remove", "purge"}
        BY <3>1, TailLeft
      <3>3. req' = [req EXCEPT ![w] = q]
        BY <1>1, <2>2 DEF DeleteChildren
      <3> HIDE DEF l, p
      <3>4. q \in AnyRequest /\ q.pc = p /\ q.left = Tail(l)
        BY <1>1, <3>2 DEF AnyRequest
      <3> HIDE DEF q
      <3> QED
        BY <1>1, <3>2, <3>3, <3>4
    <2> QED
      BY <2>1, <2>2
  <1>3. \A x \in Workers :
          /\ req'[x].pc \in {"select", "insert", "update"} => req'[x] = req[x]
          /\ req'[x].pc = "purge" => req'[x].left # <<>>
    BY <1>2 DEF AInv, Shaped
  <1> QED
    BY <1>1, <1>2, <1>3, RowKept DEF AInv, NothingHeld

(* remove(user) erases only when no request is left that could insert it.     *)
LEMMA DeleteUserKeeps ==
  ASSUME AInv, NEW w \in Workers, DeleteUser(w)
  PROVE  AInv'
PROOF
  <1>1. /\ UNCHANGED <<fresh, exposed, served>>
        /\ req' \in [Workers -> AnyRequest]
        /\ \A x \in Workers \ {w} : req'[x] = req[x]
        /\ req'[w].pc = "idle"
    BY IdleShape DEF DeleteUser, AInv, Shaped
  <1>2. \/ UNCHANGED <<user, children, erased>>
        \/ /\ user' = NoUser /\ children' \cap Referring = {}
           /\ erased' = (\A x \in Workers : req[x].pc \notin {"select", "insert"})
    BY DEF DeleteUser, Refusing
  <1>3. Shaped'
    BY <1>1, <1>2 DEF AInv, Shaped
  <1>4. HeldFresh' /\ DirtyOwn'
    BY <1>1 DEF AInv, HeldFresh, DirtyOwn
  <1>5. StaleOnlyIfExposed'
    BY <1>1, <1>2 DEF AInv, StaleOnlyIfExposed
  <1>6. NothingHeld'
    BY <1>1, <1>2 DEF AInv, NothingHeld
  <1> QED
    BY <1>3, <1>4, <1>5, <1>6 DEF AInv

(* A foreign key refuses a row of a user who is not stored. *)
LEMMA ChildKeeps ==
  ASSUME AInv, NEW t, InsertChild(t)
  PROVE  AInv'
PROOF
  <1>1. /\ UNCHANGED <<user, req, served, fresh, exposed, erased>>
        /\ erased => user = NoUser /\ children' \cap Referring = {}
        /\ erased => \A w \in Workers : req[w].pc \notin {"select", "insert"}
    BY DEF InsertChild, OwnerStored, histVars, AInv, NothingHeld
  <1>2. served' \in Int /\ req' \in [Workers -> AnyRequest]
    BY <1>1 DEF AInv, Shaped
  <1>3. \A x \in Workers : req'[x].pc = "purge" => req'[x].left # <<>>
    BY <1>1 DEF AInv, Shaped
  <1> QED
    BY <1>1, <1>2, <1>3, RowKept

-----------------------------------------------------------------------------
LEMMA AInvStarts == Init => AInv
PROOF
  <1> SUFFICES ASSUME Init PROVE AInv
    OBVIOUS
  <1>1. /\ user = NewUser /\ fresh = NewUser /\ ~erased /\ served = 0
        /\ req \in [Workers -> AnyRequest]
        /\ \A w \in Workers : req[w].pc = "idle"
    BY IdleShape DEF Init
  <1> QED
    BY <1>1, NewUserShape
       DEF AInv, Shaped, HeldFresh, DirtyOwn, StaleOnlyIfExposed, NothingHeld

LEMMA AInvKept == AInv /\ [Next]_vars => AInv'
PROOF
  <1> SUFFICES ASSUME AInv, [Next]_vars PROVE AInv'
    OBVIOUS
  <1>1. CASE UNCHANGED vars
    BY <1>1 DEF vars, dbVars, histVars, AInv, Shaped, HeldFresh, DirtyOwn, StaleOnlyIfExposed,
       NothingHeld
  <1>2. ASSUME NEW w \in Workers, Find(w) PROVE AInv'
    BY <1>2, FindKeeps
  <1>3. ASSUME NEW w \in Workers, EditStep(w) PROVE AInv'
    BY <1>3, SelectKeeps, UpdateKeeps, InsertKeeps, CountersKeep DEF EditStep
  <1>4. ASSUME NEW w \in Workers, TrackView(w) \/ TrackClick(w) PROVE AInv'
    BY <1>4, CountersKeep
  <1>5. ASSUME NEW w \in Workers, DeleteFind(w) \/ DeleteStep(w) PROVE AInv'
    BY <1>5, PurgeKeeps, DeleteUserKeeps DEF DeleteStep
  <1>6. CASE UpdateLocation
    BY <1>6, LocationKeeps
  <1>7. ASSUME NEW t \in Arriving, InsertChild(t) PROVE AInv'
    BY <1>7, ChildKeeps
  <1> QED
    BY <1>1, <1>2, <1>3, <1>4, <1>5, <1>6, <1>7 DEF Next

(* However many requests edit the row at once, a column that differs from what *)
(* the last request about it stored was stored between another request's       *)
(* findOne and the SELECT of its save() (users.service.ts, sync.service.ts).   *)
THEOREM StaleOnlyThroughTheWindow == Spec => []StaleOnlyIfExposed
PROOF
  <1>1. AInv => StaleOnlyIfExposed
    BY DEF AInv
  <1> QED
    BY AInvStarts, AInvKept, <1>1, PTL DEF Spec

(* deleteAccount: an account deleted while no save of its row was under way    *)
(* stays deleted, and no row that refers to it by a foreign key is left or      *)
(* comes back, under either schema. Rows that only keep its id do stay.         *)
THEOREM DeletionIsFinal == Spec => []ErasedForGood
PROOF
  <1>1. AInv => ErasedForGood
    BY DEF AInv, NothingHeld, ErasedForGood
  <1> QED
    BY AInvStarts, AInvKept, <1>1, PTL DEF Spec

-----------------------------------------------------------------------------
(* The counters of the tracked venue.                                        *)

CountersTyped ==
  /\ AnalyticsTypeOK /\ JobRowStored
  /\ raised \in [Fields -> Nat]
  /\ \A w \in Workers : job[w].stage = "insert" => \A f \in Fields : job[w].copy[f] \in {0, 1}

(* findOne: the row of the day with one counter changed, or a new entity. *)
LEMMA FindShape ==
  ASSUME CountersTyped, NEW w \in Workers, NEW g \in Fields, NEW d \in {-1, 0, 1},
         AnalyticsFind(w, g, d)
  PROVE  /\ rows' = rows /\ job[w].stage = "idle"
         /\ \E q \in Job :
              /\ job' = [job EXCEPT ![w] = q]
              /\ \/ /\ q.stage = "select" /\ q.id \in Stored
                    /\ \A f \in Fields :
                         q.copy[f] = IF f = g THEN Bumped(rows[q.id][f], d) ELSE rows[q.id][f]
                 \/ /\ q.stage = "insert" /\ Stored = {}
                    /\ \A f \in Fields : q.copy[f] = IF f = g THEN Bumped(0, d) ELSE 0
PROOF
  <1>1. rows' = rows /\ job[w].stage = "idle" /\ AnyId \in RowIds
    BY AnalyticsAssumption DEF AnalyticsFind, AnyId
  <1>2. ASSUME NEW i \in Stored,
               job' = [job EXCEPT ![w] =
                 [stage |-> "select", id |-> i, dirty |-> {},
                  copy |-> [rows[i] EXCEPT ![g] = Bumped(@, d)]]]
        PROVE  \E q \in Job :
                 /\ job' = [job EXCEPT ![w] = q] /\ q.stage = "select" /\ q.id \in Stored
                 /\ \A f \in Fields :
                      q.copy[f] = IF f = g THEN Bumped(rows[q.id][f], d) ELSE rows[q.id][f]
    <2> DEFINE copy == [rows[i] EXCEPT ![g] = Bumped(@, d)]
               q == [stage |-> "select", id |-> i, dirty |-> {}, copy |-> copy]
    <2>1. i \in RowIds /\ rows[i] \in Row
      BY DEF Stored, CountersTyped, AnalyticsTypeOK
    <2>2. copy \in Row
      BY <2>1 DEF Row, Bumped
    <2>3. \A f \in Fields : copy[f] = IF f = g THEN Bumped(rows[i][f], d) ELSE rows[i][f]
      BY <2>1 DEF Row
    <2> HIDE DEF copy
    <2>4. q \in Job /\ q.stage = "select" /\ q.id = i /\ q.copy = copy
      BY <2>1, <2>2 DEF Job
    <2>5. job' = [job EXCEPT ![w] = q]
      BY <1>2 DEF copy
    <2> HIDE DEF q
    <2> QED
      BY <2>3, <2>4, <2>5
  <1>3. ASSUME Stored = {},
               job' = [job EXCEPT ![w] =
                 [stage |-> "insert", id |-> AnyId, dirty |-> {},
                  copy |-> [ZeroRow EXCEPT ![g] = Bumped(@, d)]]]
        PROVE  \E q \in Job :
                 /\ job' = [job EXCEPT ![w] = q] /\ q.stage = "insert"
                 /\ \A f \in Fields : q.copy[f] = IF f = g THEN Bumped(0, d) ELSE 0
    <2> DEFINE copy == [ZeroRow EXCEPT ![g] = Bumped(@, d)]
               q == [stage |-> "insert", id |-> AnyId, dirty |-> {}, copy |-> copy]
    <2>1. copy \in Row
      BY DEF Row, ZeroRow, Bumped
    <2>2. \A f \in Fields : copy[f] = IF f = g THEN Bumped(0, d) ELSE 0
      BY DEF ZeroRow
    <2> HIDE DEF copy
    <2>3. q \in Job /\ q.stage = "insert" /\ q.copy = copy
      BY <1>1, <2>1 DEF Job
    <2>4. job' = [job EXCEPT ![w] = q]
      BY <1>3 DEF copy
    <2> HIDE DEF q
    <2> QED
      BY <2>2, <2>3, <2>4
  <1> QED
    BY <1>1, <1>2, <1>3 DEF AnalyticsFind, Seen

LEMMA IdleJobShape == IdleJob \in Job /\ IdleJob.stage = "idle"
PROOF
  <1>1. AnyId \in RowIds /\ ZeroRow \in Row
    BY AnalyticsAssumption DEF AnyId, ZeroRow, Row
  <1> QED
    BY <1>1 DEF IdleJob, Job

(* save(): a new row, a row found equal, the columns to write, the columns   *)
(* written.                                                                  *)
Inserting(w) ==
  /\ job[w].stage = "insert"
  /\ job' = [job EXCEPT ![w] = IdleJob]
  /\ \E i \in RowIds \ Stored : rows' = [rows EXCEPT ![i] = job[w].copy]
FoundEqual(w) ==
  /\ job[w].stage = "select"
  /\ job' = [job EXCEPT ![w] = IdleJob] /\ rows' = rows
  /\ \A f \in Fields : job[w].copy[f] = rows[job[w].id][f]
FoundDirty(w) ==
  /\ job[w].stage = "select" /\ rows' = rows
  /\ \E q \in Job :
       /\ job' = [job EXCEPT ![w] = q]
       /\ q.stage = "update" /\ q.id = job[w].id /\ q.copy = job[w].copy
       /\ \A f \in Fields : f \in q.dirty \/ q.copy[f] = rows[q.id][f]
Writing(w) ==
  /\ job[w].stage = "update"
  /\ job' = [job EXCEPT ![w] = IdleJob]
  /\ \E row \in Row :
       /\ rows' = [rows EXCEPT ![job[w].id] = row]
       /\ \A f \in Fields :
            row[f] = IF f \in job[w].dirty THEN job[w].copy[f] ELSE rows[job[w].id][f]

LEMMA SaveShape ==
  ASSUME CountersTyped, NEW w \in Workers, AnalyticsSave(w)
  PROVE  Inserting(w) \/ FoundEqual(w) \/ FoundDirty(w) \/ Writing(w)
PROOF
  <1>1. job[w] \in Job /\ (job[w].stage \in {"select", "update"} => rows[job[w].id] \in Row)
    BY DEF CountersTyped, AnalyticsTypeOK, JobRowStored, Stored
  <1>2. CASE AnalyticsInsert(w)
    BY <1>2 DEF AnalyticsInsert, Inserting
  <1>3. CASE AnalyticsSelect(w)
    <2> DEFINE dirty == Dirty(job[w].copy, rows[job[w].id])
               q == [job[w] EXCEPT !.stage = "update", !.dirty = dirty]
    <2>1. /\ job[w].stage = "select" /\ rows' = rows
          /\ job' = [job EXCEPT ![w] = IF dirty = {} THEN IdleJob ELSE q]
      BY <1>3 DEF AnalyticsSelect
    <2>2. \A f \in Fields : f \in dirty \/ job[w].copy[f] = rows[job[w].id][f]
      BY DEF Dirty
    <2>3. dirty \subseteq Fields
      BY DEF Dirty
    <2> HIDE DEF dirty
    <2>4. /\ q \in Job /\ q.stage = "update" /\ q.id = job[w].id /\ q.copy = job[w].copy
          /\ q.dirty = dirty
      BY <1>1, <2>3 DEF Job
    <2> HIDE DEF q
    <2>5. CASE dirty = {}
      BY <2>1, <2>2, <2>5 DEF FoundEqual
    <2>6. CASE dirty # {}
      BY <2>1, <2>2, <2>4, <2>6 DEF FoundDirty
    <2> QED
      BY <2>5, <2>6
  <1>4. CASE AnalyticsUpdate(w)
    <2> DEFINE row == [f \in Fields |-> IF f \in job[w].dirty
                                         THEN job[w].copy[f] ELSE rows[job[w].id][f]]
    <2>1. /\ job[w].stage = "update" /\ job' = [job EXCEPT ![w] = IdleJob]
          /\ rows' = [rows EXCEPT ![job[w].id] = row]
      BY <1>4 DEF AnalyticsUpdate
    <2>2. row \in Row
      BY <1>1, <2>1 DEF Row, Job
    <2>3. \A f \in Fields :
            row[f] = IF f \in job[w].dirty THEN job[w].copy[f] ELSE rows[job[w].id][f]
      OBVIOUS
    <2> HIDE DEF row
    <2> QED
      BY <2>1, <2>2, <2>3 DEF Writing
  <1> QED
    BY <1>2, <1>3, <1>4 DEF AnalyticsSave

(* All that the steps of Accounts do to the counters                         *)
Begins(w, g, d) ==
  /\ AnalyticsFind(w, g, d)
  /\ raised' = IF d = 1 THEN [raised EXCEPT ![g] = @ + 1] ELSE raised
  /\ NoteOverlap
GoesOn(w) == AnalyticsSave(w) /\ UNCHANGED <<raised, overlap>>

LEMMA CounterSteps ==
  ASSUME AInv, Next
  PROVE  \/ \E w \in Workers, d \in {-1, 0, 1} : Begins(w, "totalSaves", d)
         \/ \E w \in Workers, g \in {"totalViews", "offerClicks"} : Begins(w, g, 1)
         \/ \E w \in Workers : GoesOn(w)
         \/ UNCHANGED <<rows, job, raised, overlap>>
PROOF
  <1>1. ASSUME NEW w \in Workers, CountSave(w)
        PROVE  \E d \in {-1, 0, 1} : Begins(w, "totalSaves", d)
    BY <1>1 DEF CountSave, Begins, AInv, Shaped, AnyRequest
  <1>2. ASSUME NEW w \in Workers, TrackView(w) \/ TrackClick(w)
        PROVE  \E g \in {"totalViews", "offerClicks"} : Begins(w, g, 1)
    BY <1>2 DEF TrackView, TrackClick, Track, Begins
  <1>3. ASSUME NEW w \in Workers, SaveCounters(w) PROVE GoesOn(w)
    BY <1>3 DEF SaveCounters, GoesOn, histVars
  <1>4. ASSUME NEW w \in Workers,
               Find(w) \/ SaveSelect(w) \/ SaveUpdate(w) \/ SaveInsert(w)
                 \/ DeleteFind(w) \/ DeleteStep(w)
        PROVE  UNCHANGED <<rows, job, raised, overlap>>
    BY <1>4, Zenon DEF Find, SaveSelect, SaveUpdate, SaveInsert, DeleteFind, DeleteStep,
       DeleteChildren, DeleteUser, histVars
  <1>5. ASSUME UpdateLocation \/ \E t \in Arriving : InsertChild(t)
        PROVE  UNCHANGED <<rows, job, raised, overlap>>
    BY <1>5, Zenon DEF UpdateLocation, InsertChild, histVars
  <1> QED
    BY <1>1, <1>2, <1>3, <1>4, <1>5 DEF Next, EditStep

LEMMA TypedBegins ==
  ASSUME CountersTyped, NEW w \in Workers, NEW g \in Fields, NEW d \in {-1, 0, 1},
         Begins(w, g, d)
  PROVE  CountersTyped'
PROOF
  <1>1. PICK q \in Job :
          /\ job' = [job EXCEPT ![w] = q]
          /\ \/ q.stage = "select" /\ q.id \in Stored
             \/ /\ q.stage = "insert"
                /\ \A f \in Fields : q.copy[f] = IF f = g THEN Bumped(0, d) ELSE 0
    BY FindShape DEF Begins
  <1>2. rows' = rows /\ Stored' = Stored
    BY DEF Begins, AnalyticsFind, Stored
  <1>3. /\ job' \in [Workers -> Job] /\ job'[w] = q
        /\ \A x \in Workers : x # w => job'[x] = job[x]
    BY <1>1 DEF CountersTyped, AnalyticsTypeOK
  <1>4. AnalyticsTypeOK' /\ JobRowStored'
    BY <1>1, <1>2, <1>3 DEF CountersTyped, AnalyticsTypeOK, JobRowStored
  <1>5. raised' \in [Fields -> Nat]
    BY DEF Begins, CountersTyped
  <1>6. \A x \in Workers : job'[x].stage = "insert" =>
          \A f \in Fields : job'[x].copy[f] \in {0, 1}
    BY <1>1, <1>3 DEF CountersTyped, Bumped
  <1> QED
    BY <1>4, <1>5, <1>6 DEF CountersTyped

LEMMA TypedGoesOn ==
  ASSUME CountersTyped, NEW w \in Workers, GoesOn(w)
  PROVE  CountersTyped'
PROOF
  <1>1. Inserting(w) \/ FoundEqual(w) \/ FoundDirty(w) \/ Writing(w)
    BY SaveShape DEF GoesOn
  <1>2. /\ job \in [Workers -> Job] /\ rows \in [RowIds -> Row \cup {NoRow}]
        /\ job[w] \in Job /\ job[w].id \in RowIds /\ job[w].copy \in Row /\ NoRow \notin Row
        /\ UNCHANGED raised
    BY AnalyticsAssumption DEF CountersTyped, AnalyticsTypeOK, Job, GoesOn
  <1>3. PICK q \in Job :
          /\ job' = [job EXCEPT ![w] = q]
          /\ \/ q.stage = "idle"
             \/ q.stage = "update" /\ q.id = job[w].id /\ job[w].stage = "select"
    BY <1>1, IdleJobShape DEF Inserting, FoundEqual, FoundDirty, Writing
  <1>4. rows' \in [RowIds -> Row \cup {NoRow}] /\ Stored \subseteq Stored'
    <2>1. CASE Inserting(w)
      BY <1>2, <2>1 DEF Inserting, Stored
    <2>2. CASE Writing(w)
      BY <1>2, <2>2 DEF Writing, Stored
    <2>3. CASE rows' = rows
      BY <1>2, <2>3 DEF Stored
    <2> QED
      BY <1>1, <2>1, <2>2, <2>3 DEF FoundEqual, FoundDirty
  <1>5. /\ job' \in [Workers -> Job] /\ job'[w] = q
        /\ \A x \in Workers : x # w => job'[x] = job[x]
    BY <1>2, <1>3
  <1>6. JobRowStored'
    BY <1>3, <1>4, <1>5 DEF CountersTyped, JobRowStored
  <1>7. \A x \in Workers : job'[x].stage = "insert" =>
          \A f \in Fields : job'[x].copy[f] \in {0, 1}
    BY <1>3, <1>5 DEF CountersTyped
  <1> QED
    BY <1>2, <1>4, <1>5, <1>6, <1>7 DEF CountersTyped, AnalyticsTypeOK

-----------------------------------------------------------------------------
(* NeverOverReports: what a save in progress can still write counts as if it *)
(* were written. Reach are the units of the rows and of the entities held of *)
(* them, New the entities not yet inserted that will show one.               *)

Holding == {"select", "update"}
Reach(f) ==
  {p \in RowIds \X Nat :
     /\ p[2] >= 1
     /\ \/ p[1] \in Stored /\ p[2] <= rows[p[1]][f]
        \/ \E w \in Workers : /\ job[w].stage \in Holding /\ job[w].id = p[1]
                              /\ p[2] <= job[w].copy[f]}
New(f) == {w \in Workers : job[w].stage = "insert" /\ job[w].copy[f] = 1}

ReachBound(f) ==
  /\ IsFiniteSet(Reach(f)) /\ IsFiniteSet(New(f))
  /\ Cardinality(Reach(f)) + Cardinality(New(f)) <= raised[f]
ReachInv == \A f \in Fields : ReachBound(f)

LEMMA NoMore ==
  ASSUME NEW S, NEW T, IsFiniteSet(S), T \subseteq S
  PROVE  /\ IsFiniteSet(T) /\ Cardinality(T) <= Cardinality(S)
         /\ Cardinality(T) \in Nat /\ Cardinality(S) \in Nat
  BY FS_Subset, FS_CardinalityType

LEMMA OneMore ==
  ASSUME NEW S, NEW T, NEW x, IsFiniteSet(S), T \subseteq S \cup {x}
  PROVE  /\ IsFiniteSet(T) /\ Cardinality(T) <= Cardinality(S) + 1
         /\ Cardinality(T) \in Nat /\ Cardinality(S) \in Nat
PROOF
  <1>1. /\ IsFiniteSet(S \cup {x}) /\ Cardinality(S) \in Nat
        /\ Cardinality(S \cup {x}) \in {Cardinality(S), Cardinality(S) + 1}
    BY FS_AddElement, FS_CardinalityType
  <1>2. IsFiniteSet(T) /\ Cardinality(T) <= Cardinality(S \cup {x}) /\ Cardinality(T) \in Nat
    BY <1>1, NoMore
  <1> QED
    BY <1>1, <1>2

LEMMA OneLess ==
  ASSUME NEW S, NEW T, NEW x \in S, IsFiniteSet(S), T \subseteq S \ {x}
  PROVE  /\ IsFiniteSet(T) /\ Cardinality(T) <= Cardinality(S) - 1
         /\ Cardinality(T) \in Nat /\ Cardinality(S) \in Nat
PROOF
  <1>1. /\ IsFiniteSet(S \ {x}) /\ Cardinality(S) \in Nat
        /\ Cardinality(S \ {x}) = Cardinality(S) - 1
    BY FS_RemoveElement, FS_CardinalityType
  <1>2. IsFiniteSet(T) /\ Cardinality(T) <= Cardinality(S \ {x}) /\ Cardinality(T) \in Nat
    BY <1>1, NoMore
  <1> QED
    BY <1>1, <1>2

(* How the two sets may change when the counter was, or was not, asked to go *)
(* up.                                                                       *)
LEMMA BoundKept ==
  ASSUME NEW f \in Fields, ReachBound(f), raised[f] \in Nat, raised'[f] \in Nat, NEW x, NEW w,
         \/ /\ raised[f] <= raised'[f]
            /\ Reach(f)' \subseteq Reach(f) /\ New(f)' \subseteq New(f)
         \/ /\ raised'[f] = raised[f] + 1
            /\ Reach(f)' \subseteq Reach(f) \cup {x} /\ New(f)' \subseteq New(f)
         \/ /\ raised'[f] = raised[f] + 1
            /\ Reach(f)' \subseteq Reach(f) /\ New(f)' \subseteq New(f) \cup {w}
         \/ /\ raised'[f] = raised[f] /\ w \in New(f)
            /\ Reach(f)' \subseteq Reach(f) \cup {x} /\ New(f)' \subseteq New(f) \ {w}
  PROVE  ReachBound(f)'
PROOF
  <1> DEFINE R == Reach(f)
             N == New(f)
             Rn == Reach(f)'
             Nn == New(f)'
             n == raised[f]
             m == raised'[f]
  <1>1. /\ IsFiniteSet(R) /\ IsFiniteSet(N) /\ n \in Nat /\ m \in Nat
        /\ Cardinality(R) + Cardinality(N) <= n
    BY DEF ReachBound
  <1>2. \/ n <= m /\ Rn \subseteq R /\ Nn \subseteq N
        \/ m = n + 1 /\ Rn \subseteq R \cup {x} /\ Nn \subseteq N
        \/ m = n + 1 /\ Rn \subseteq R /\ Nn \subseteq N \cup {w}
        \/ m = n /\ w \in N /\ Rn \subseteq R \cup {x} /\ Nn \subseteq N \ {w}
    OBVIOUS
  <1> HIDE DEF R, N, Rn, Nn, n, m
  <1>3. IsFiniteSet(Rn) /\ IsFiniteSet(Nn) /\ Cardinality(Rn) + Cardinality(Nn) <= m
    <2>1. CASE n <= m /\ Rn \subseteq R /\ Nn \subseteq N
      BY <1>1, <2>1, NoMore
    <2>2. CASE m = n + 1 /\ Rn \subseteq R \cup {x} /\ Nn \subseteq N
      <3>1. /\ IsFiniteSet(Nn) /\ Cardinality(Nn) <= Cardinality(N)
            /\ Cardinality(Nn) \in Nat /\ Cardinality(N) \in Nat
        BY <1>1, <2>2, NoMore
      <3>2. /\ IsFiniteSet(Rn) /\ Cardinality(Rn) <= Cardinality(R) + 1
            /\ Cardinality(Rn) \in Nat /\ Cardinality(R) \in Nat
        BY <1>1, <2>2, OneMore
      <3> QED
        BY <1>1, <2>2, <3>1, <3>2
    <2>3. CASE m = n + 1 /\ Rn \subseteq R /\ Nn \subseteq N \cup {w}
      <3>1. /\ IsFiniteSet(Rn) /\ Cardinality(Rn) <= Cardinality(R)
            /\ Cardinality(Rn) \in Nat /\ Cardinality(R) \in Nat
        BY <1>1, <2>3, NoMore
      <3>2. /\ IsFiniteSet(Nn) /\ Cardinality(Nn) <= Cardinality(N) + 1
            /\ Cardinality(Nn) \in Nat /\ Cardinality(N) \in Nat
        BY <1>1, <2>3, OneMore
      <3> QED
        BY <1>1, <2>3, <3>1, <3>2
    <2>4. CASE m = n /\ w \in N /\ Rn \subseteq R \cup {x} /\ Nn \subseteq N \ {w}
      <3>1. IsFiniteSet(Nn) /\ Cardinality(Nn) <= Cardinality(N) - 1
              /\ Cardinality(Nn) \in Nat /\ Cardinality(N) \in Nat
        BY <1>1, <2>4, OneLess
      <3>2. IsFiniteSet(Rn) /\ Cardinality(Rn) <= Cardinality(R) + 1
              /\ Cardinality(Rn) \in Nat /\ Cardinality(R) \in Nat
        BY <1>1, <2>4, OneMore
      <3> QED
        BY <1>1, <2>4, <3>1, <3>2
    <2> QED
      BY <1>2, <2>1, <2>2, <2>3, <2>4
  <1> QED
    BY <1>3 DEF ReachBound, Rn, Nn, m

LEMMA ReachBegins ==
  ASSUME CountersTyped, ReachInv, NEW w \in Workers, NEW g \in Fields, NEW d \in {-1, 0, 1},
         Begins(w, g, d)
  PROVE  ReachInv'
PROOF
  <1>1. PICK q \in Job :
          /\ job' = [job EXCEPT ![w] = q]
          /\ \/ /\ q.stage = "select" /\ q.id \in Stored
                /\ \A f \in Fields :
                     q.copy[f] = IF f = g THEN Bumped(rows[q.id][f], d) ELSE rows[q.id][f]
             \/ /\ q.stage = "insert" /\ Stored = {}
                /\ \A f \in Fields : q.copy[f] = IF f = g THEN Bumped(0, d) ELSE 0
    BY FindShape DEF Begins
  <1>2. /\ rows' = rows /\ Stored' = Stored /\ job[w].stage = "idle"
        /\ job'[w] = q /\ \A x \in Workers : x # w => job'[x] = job[x]
    BY <1>1 DEF Begins, AnalyticsFind, Stored, CountersTyped, AnalyticsTypeOK
  <1>3. ASSUME NEW f \in Fields PROVE ReachBound(f)'
    <2> DEFINE n == raised[f]
               m == raised'[f]
    <2>1. n \in Nat /\ m \in Nat /\ m = IF f = g /\ d = 1 THEN n + 1 ELSE n
      BY DEF Begins, CountersTyped
    <2>2. ReachBound(f)
      BY DEF ReachInv
    <2>3. CASE q.stage = "select"
      <3> DEFINE i == q.id
                 k == rows[i][f]
      <3>1. i \in Stored /\ q.copy[f] = IF f = g THEN Bumped(k, d) ELSE k
        BY <1>1, <2>3
      <3>2. k \in Nat
        BY <3>1 DEF Stored, CountersTyped, AnalyticsTypeOK, Row
      <3>3. New(f)' \subseteq New(f)
        BY <1>2, <2>3 DEF New
      <3> HIDE DEF k, i, n, m
      <3>4. \A x \in Reach(f)' :
              x \in Reach(f) \/ (x[1] = i /\ x[2] \in Nat /\ k < x[2] /\ x[2] <= q.copy[f])
        BY <1>2, <2>3, <3>1, <3>2 DEF Reach, Holding, k, i
      <3>5. CASE f = g /\ d = 1
        <4>1. q.copy[f] = k + 1
          BY <3>1, <3>2, <3>5 DEF Bumped
        <4>2. Reach(f)' \subseteq Reach(f) \cup {<<i, k + 1>>}
          BY <3>2, <3>4, <4>1 DEF Reach
        <4>3. m = n + 1
          BY <2>1, <3>5
        <4> QED
          BY <2>1, <2>2, <3>3, <4>2, <4>3, BoundKept DEF n, m
      <3>6. CASE ~(f = g /\ d = 1)
        <4>1. q.copy[f] <= k /\ q.copy[f] \in Nat
          BY <3>1, <3>2, <3>6 DEF Bumped
        <4>2. Reach(f)' \subseteq Reach(f)
          BY <3>2, <3>4, <4>1
        <4>3. n <= m
          BY <2>1
        <4> QED
          BY <2>1, <2>2, <3>3, <4>2, <4>3, BoundKept DEF n, m
      <3> QED
        BY <3>5, <3>6
    <2>4. CASE q.stage = "insert"
      <3>1. Reach(f)' \subseteq Reach(f)
        BY <1>2, <2>4 DEF Reach, Holding
      <3>2. q.copy[f] = IF f = g THEN Bumped(0, d) ELSE 0
        BY <1>1, <2>4
      <3> HIDE DEF n, m
      <3>3. CASE f = g /\ d = 1
        <4>1. New(f)' \subseteq New(f) \cup {w}
          BY <1>2 DEF New
        <4>2. m = n + 1
          BY <2>1, <3>3
        <4> QED
          BY <2>1, <2>2, <3>1, <4>1, <4>2, BoundKept DEF n, m
      <3>4. CASE ~(f = g /\ d = 1)
        <4>1. q.copy[f] = 0
          BY <3>2, <3>4 DEF Bumped
        <4>2. New(f)' \subseteq New(f)
          BY <1>2, <4>1 DEF New
        <4>3. n <= m
          BY <2>1
        <4> QED
          BY <2>1, <2>2, <3>1, <4>2, <4>3, BoundKept DEF n, m
      <3> QED
        BY <3>3, <3>4
    <2> QED
      BY <1>1, <2>3, <2>4
  <1> QED
    BY <1>3 DEF ReachInv

LEMMA ReachGoesOn ==
  ASSUME CountersTyped, ReachInv, NEW w \in Workers, GoesOn(w)
  PROVE  ReachInv'
PROOF
  <1>1. Inserting(w) \/ FoundEqual(w) \/ FoundDirty(w) \/ Writing(w)
    BY SaveShape DEF GoesOn
  <1>2. /\ job \in [Workers -> Job] /\ rows \in [RowIds -> Row \cup {NoRow}]
        /\ job[w] \in Job /\ job[w].id \in RowIds /\ job[w].copy \in Row /\ NoRow \notin Row
        /\ raised' = raised /\ IdleJob.stage = "idle"
    BY AnalyticsAssumption, IdleJobShape DEF CountersTyped, AnalyticsTypeOK, Job, GoesOn
  <1>3. ASSUME NEW f \in Fields PROVE ReachBound(f)'
    <2> DEFINE n == raised[f]
    <2>1. n \in Nat /\ raised'[f] = n /\ ReachBound(f)
      BY <1>2 DEF CountersTyped, ReachInv
    <2> HIDE DEF n
    <2>2. CASE Reach(f)' \subseteq Reach(f) /\ New(f)' \subseteq New(f)
      BY <2>1, <2>2, BoundKept DEF n
    <2>3. CASE Inserting(w)
      <3>1. PICK i \in RowIds \ Stored : rows' = [rows EXCEPT ![i] = job[w].copy]
        BY <2>3 DEF Inserting
      <3> DEFINE c == job[w].copy
      <3>2. /\ rows'[i] = c /\ \A j \in RowIds : j # i => rows'[j] = rows[j]
            /\ \A x \in Workers : job'[x] = IF x = w THEN IdleJob ELSE job[x]
            /\ job[w].stage = "insert"
        BY <1>2, <2>3, <3>1 DEF Inserting
      <3>3. c[f] \in {0, 1}
        BY <3>2 DEF CountersTyped
      <3> HIDE DEF c
      <3>4. Stored' \subseteq Stored \cup {i}
        BY <3>2 DEF Stored
      <3>5. \A x \in Reach(f)' : x \in Reach(f) \/ (x[1] = i /\ x[2] \in Nat /\ 1 <= x[2] /\ x[2] <= c[f])
        BY <1>2, <3>2, <3>4 DEF Reach, Holding
      <3>6. New(f)' \subseteq New(f) \ {w}
        BY <1>2, <3>2 DEF New
      <3>7. CASE c[f] = 0
        BY <2>2, <3>5, <3>6, <3>7
      <3>8. CASE c[f] = 1
        <4>1. Reach(f)' \subseteq Reach(f) \cup {<<i, 1>>}
          BY <3>5, <3>8 DEF Reach
        <4>2. w \in New(f)
          BY <3>2, <3>8 DEF New, c
        <4> QED
          BY <2>1, <3>6, <4>1, <4>2, BoundKept DEF n
      <3> QED
        BY <3>3, <3>7, <3>8
    <2>4. CASE FoundEqual(w)
      <3>1. /\ rows' = rows /\ Stored' = Stored
            /\ \A x \in Workers : job'[x] = IF x = w THEN IdleJob ELSE job[x]
        BY <1>2, <2>4 DEF FoundEqual, Stored
      <3> QED
        BY <1>2, <2>2, <3>1 DEF Reach, New, Holding
    <2>5. CASE FoundDirty(w)
      <3>1. PICK q \in Job :
              /\ job' = [job EXCEPT ![w] = q]
              /\ q.stage = "update" /\ q.id = job[w].id /\ q.copy = job[w].copy
        BY <2>5 DEF FoundDirty
      <3>2. /\ rows' = rows /\ Stored' = Stored /\ job[w].stage = "select"
            /\ \A x \in Workers : job'[x] = IF x = w THEN q ELSE job[x]
        BY <1>2, <2>5, <3>1 DEF FoundDirty, Stored
      <3>3. New(f)' \subseteq New(f)
        BY <3>1, <3>2 DEF New
      <3>4. Reach(f)' \subseteq Reach(f)
        BY <3>1, <3>2 DEF Reach, Holding
      <3> QED
        BY <2>2, <3>3, <3>4
    <2>6. CASE Writing(w)
      <3> DEFINE i == job[w].id
                 c == job[w].copy
      <3>1. PICK row \in Row :
              /\ rows' = [rows EXCEPT ![job[w].id] = row]
              /\ row[f] = IF f \in job[w].dirty THEN c[f] ELSE rows[i][f]
        BY <2>6 DEF Writing
      <3>2. /\ rows'[i] = row /\ \A j \in RowIds : j # i => rows'[j] = rows[j]
            /\ \A x \in Workers : job'[x] = IF x = w THEN IdleJob ELSE job[x]
            /\ job[w].stage = "update" /\ i \in Stored
        BY <1>2, <2>6, <3>1 DEF Writing, CountersTyped, JobRowStored
      <3>3. Stored' = Stored
        BY <1>2, <3>2 DEF Stored
      <3>4. row[f] = c[f] \/ row[f] = rows[i][f]
        BY <3>1
      <3>5. New(f)' \subseteq New(f)
        BY <1>2, <3>2 DEF New
      <3>6. Reach(f)' \subseteq Reach(f)
        <4>1. SUFFICES ASSUME NEW p \in Reach(f)' PROVE p \in Reach(f)
          OBVIOUS
        <4>2. p \in RowIds \X Nat /\ p[2] >= 1
          BY DEF Reach
        <4>3. CASE p[1] \in Stored' /\ p[2] <= rows'[p[1]][f]
          <5>1. CASE p[1] = i
            BY <3>2, <3>3, <3>4, <4>2, <4>3, <5>1 DEF Reach, Holding
          <5>2. CASE p[1] # i
            BY <3>2, <3>3, <4>2, <4>3, <5>2 DEF Reach
          <5> QED
            BY <5>1, <5>2
        <4>4. CASE \E x \in Workers : /\ job'[x].stage \in Holding /\ job'[x].id = p[1]
                                      /\ p[2] <= job'[x].copy[f]
          BY <1>2, <3>2, <4>2, <4>4 DEF Reach, Holding
        <4> QED
          BY <4>3, <4>4 DEF Reach
      <3> QED
        BY <2>2, <3>5, <3>6
    <2> QED
      BY <1>1, <2>3, <2>4, <2>5, <2>6
  <1> QED
    BY <1>3 DEF ReachInv

-----------------------------------------------------------------------------
(* ExactWithoutOverlap: while no two updates have overlapped there is one    *)
(* row at most, and one update at most, which holds all there was.           *)

Viewed == {"totalViews", "offerClicks"}
OneAtATime ==
  /\ \A i, j \in Stored : i = j
  /\ \A w, x \in Counting : w = x
  /\ \A w \in Workers : job[w].stage = "insert" => Stored = {}
ViewsHeld ==
  /\ Counting = {} => /\ Stored = {} => \A f \in Viewed : raised[f] = 0
                      /\ \A i \in Stored, f \in Viewed : rows[i][f] = raised[f]
  /\ \A w \in Counting, f \in Viewed : job[w].copy[f] = raised[f]
  /\ \A w \in Counting, f \in Viewed : job[w].stage = "update" =>
       f \in job[w].dirty \/ job[w].copy[f] = rows[job[w].id][f]
SoleInv == ~overlap => OneAtATime /\ ViewsHeld

LEMMA SoleBegins ==
  ASSUME CountersTyped, SoleInv, NEW w \in Workers, NEW g \in Fields, NEW d \in {-1, 0, 1},
         g \in Viewed => d = 1, Begins(w, g, d)
  PROVE  SoleInv'
PROOF
  <1>1. PICK q \in Job :
          /\ job' = [job EXCEPT ![w] = q]
          /\ \/ /\ q.stage = "select" /\ q.id \in Stored
                /\ \A f \in Fields :
                     q.copy[f] = IF f = g THEN Bumped(rows[q.id][f], d) ELSE rows[q.id][f]
             \/ /\ q.stage = "insert" /\ Stored = {}
                /\ \A f \in Fields : q.copy[f] = IF f = g THEN Bumped(0, d) ELSE 0
    BY FindShape DEF Begins
  <1> SUFFICES ASSUME ~overlap' PROVE (OneAtATime /\ ViewsHeld)'
    BY DEF SoleInv
  <1>2. ~overlap /\ Counting = {} /\ OneAtATime /\ ViewsHeld
    BY DEF Begins, NoteOverlap, SoleInv
  <1>3. /\ rows' = rows /\ Stored' = Stored /\ job'[w] = q
        /\ \A x \in Workers : x # w => job'[x] = job[x]
    BY <1>1 DEF Begins, AnalyticsFind, Stored, CountersTyped, AnalyticsTypeOK
  <1>4. Counting' = {w} /\ w \in Counting' /\ q.stage # "update"
    BY <1>1, <1>2, <1>3 DEF Counting
  <1>5. OneAtATime'
    BY <1>1, <1>2, <1>3, <1>4 DEF OneAtATime, Counting
  <1>6. Viewed \subseteq Fields
    BY AccountsAssumption DEF Viewed
  <1>7. ASSUME NEW f \in Viewed PROVE q.copy[f] = raised'[f]
    <2>1. raised[f] \in Nat /\ raised'[f] = IF f = g THEN raised[f] + 1 ELSE raised[f]
      BY <1>6 DEF Begins, CountersTyped
    <2>2. CASE q.stage = "select"
      <3>1. rows[q.id][f] = raised[f] /\ q.id \in Stored
        BY <1>1, <1>2, <2>2 DEF ViewsHeld
      <3> QED
        BY <1>1, <1>6, <2>1, <2>2, <3>1 DEF Bumped
    <2>3. CASE q.stage = "insert"
      <3>1. raised[f] = 0
        BY <1>1, <1>2, <2>3 DEF ViewsHeld
      <3> QED
        BY <1>1, <1>6, <2>1, <2>3, <3>1 DEF Bumped
    <2> QED
      BY <1>1, <2>2, <2>3
  <1>8. ViewsHeld'
    BY <1>3, <1>4, <1>7 DEF ViewsHeld
  <1> QED
    BY <1>5, <1>8

LEMMA SoleGoesOn ==
  ASSUME CountersTyped, SoleInv, NEW w \in Workers, GoesOn(w)
  PROVE  SoleInv'
PROOF
  <1>1. Inserting(w) \/ FoundEqual(w) \/ FoundDirty(w) \/ Writing(w)
    BY SaveShape DEF GoesOn
  <1>2. /\ job \in [Workers -> Job] /\ rows \in [RowIds -> Row \cup {NoRow}]
        /\ job[w] \in Job /\ job[w].id \in RowIds /\ job[w].copy \in Row /\ NoRow \notin Row
        /\ raised' = raised /\ overlap' = overlap /\ IdleJob.stage = "idle"
    BY AnalyticsAssumption, IdleJobShape DEF CountersTyped, AnalyticsTypeOK, Job, GoesOn
  <1> SUFFICES ASSUME ~overlap PROVE (OneAtATime /\ ViewsHeld)'
    BY <1>2 DEF SoleInv
  <1>3. OneAtATime /\ ViewsHeld /\ Viewed \subseteq Fields
    BY AccountsAssumption DEF SoleInv, Viewed
  <1>4. w \in Counting /\ Counting = {w}
    BY <1>1, <1>3 DEF Inserting, FoundEqual, FoundDirty, Writing, Counting, OneAtATime
  <1>5. \A f \in Viewed : job[w].copy[f] = raised[f]
    BY <1>3, <1>4 DEF ViewsHeld
  (* The update ends, in the one row there is. *)
  <1>6. ASSUME job' = [job EXCEPT ![w] = IdleJob], NEW i \in RowIds, Stored' = {i},
               \A f \in Viewed : rows'[i][f] = raised[f]
        PROVE  (OneAtATime /\ ViewsHeld)'
    <2>1. Counting' = {}
      BY <1>2, <1>4, <1>6 DEF Counting
    <2>2. \A x \in Workers : job'[x].stage # "insert"
      BY <2>1 DEF Counting
    <2> QED
      BY <1>2, <1>6, <2>1, <2>2 DEF OneAtATime, ViewsHeld
  <1>7. CASE Inserting(w)
    <2>1. PICK i \in RowIds \ Stored : rows' = [rows EXCEPT ![i] = job[w].copy]
      BY <1>7 DEF Inserting
    <2>2. job[w].stage = "insert" /\ Stored = {}
      BY <1>3, <1>7 DEF Inserting, OneAtATime
    <2>3. rows'[i] = job[w].copy /\ \A j \in RowIds : j # i => rows'[j] = rows[j]
      BY <1>2, <2>1
    <2>4. Stored' = {i}
      BY <1>2, <2>2, <2>3 DEF Stored
    <2> QED
      BY <1>5, <1>6, <1>7, <2>3, <2>4 DEF Inserting
  <1>8. CASE FoundEqual(w)
    <2>1. /\ job[w].id \in Stored /\ rows' = rows /\ Stored' = Stored
          /\ \A f \in Fields : job[w].copy[f] = rows[job[w].id][f]
      BY <1>8 DEF FoundEqual, CountersTyped, JobRowStored, Stored
    <2>2. Stored' = {job[w].id}
      BY <1>3, <2>1 DEF OneAtATime
    <2> QED
      BY <1>2, <1>3, <1>5, <1>6, <1>8, <2>1, <2>2 DEF FoundEqual
  <1>9. CASE Writing(w)
    <2> DEFINE i == job[w].id
    <2>1. PICK row \in Row :
            /\ rows' = [rows EXCEPT ![job[w].id] = row]
            /\ \A f \in Fields :
                 row[f] = IF f \in job[w].dirty THEN job[w].copy[f] ELSE rows[job[w].id][f]
      BY <1>9 DEF Writing
    <2>2. /\ rows'[i] = row /\ \A j \in RowIds : j # i => rows'[j] = rows[j]
          /\ job[w].stage = "update" /\ i \in Stored
      BY <1>2, <1>9, <2>1 DEF Writing, CountersTyped, JobRowStored
    <2>3. Stored' = {i}
      BY <1>2, <1>3, <2>2 DEF Stored, OneAtATime
    <2>4. ASSUME NEW f \in Viewed PROVE rows'[i][f] = raised[f]
      BY <1>3, <1>4, <1>5, <2>1, <2>2 DEF ViewsHeld
    <2> QED
      BY <1>2, <1>6, <1>9, <2>3, <2>4 DEF Writing
  <1>10. CASE FoundDirty(w)
    <2>1. PICK q \in Job :
            /\ job' = [job EXCEPT ![w] = q]
            /\ q.stage = "update" /\ q.id = job[w].id /\ q.copy = job[w].copy
            /\ \A f \in Fields : f \in q.dirty \/ q.copy[f] = rows[q.id][f]
      BY <1>10 DEF FoundDirty
    <2>2. /\ rows' = rows /\ Stored' = Stored /\ job'[w] = q
          /\ \A x \in Workers : x # w => job'[x] = job[x]
      BY <1>2, <1>10, <2>1 DEF FoundDirty, Stored
    <2>3. Counting' = {w}
      BY <1>4, <2>1, <2>2 DEF Counting
    <2>4. OneAtATime'
      BY <1>3, <2>1, <2>2, <2>3 DEF OneAtATime
    <2>5. ViewsHeld'
      BY <1>2, <1>3, <1>5, <2>1, <2>2, <2>3 DEF ViewsHeld
    <2> QED
      BY <2>4, <2>5
  <1> QED
    BY <1>1, <1>7, <1>8, <1>9, <1>10

-----------------------------------------------------------------------------
CountersInv == CountersTyped /\ ReachInv /\ SoleInv

LEMMA CountersStart == Init => CountersInv
PROOF
  <1> SUFFICES ASSUME Init PROVE CountersInv
    OBVIOUS
  <1>1. /\ rows = [i \in RowIds |-> NoRow] /\ job = [w \in Workers |-> IdleJob]
        /\ raised = [f \in Fields |-> 0]
    BY DEF Init, AnalyticsInit
  <1>2. Stored = {} /\ Counting = {} /\ \A w \in Workers : job[w].stage = "idle"
    BY <1>1, IdleJobShape DEF Stored, Counting
  <1>3. CountersTyped
    BY <1>1, <1>2, IdleJobShape DEF CountersTyped, AnalyticsTypeOK, JobRowStored
  <1>4. ASSUME NEW f \in Fields PROVE ReachBound(f)
    <2>1. Reach(f) = {} /\ New(f) = {} /\ raised[f] = 0
      BY <1>1, <1>2 DEF Reach, New, Holding
    <2>2. IsFiniteSet({}) /\ Cardinality({}) = 0
      BY FS_EmptySet
    <2> QED
      BY <2>1, <2>2 DEF ReachBound
  <1>5. SoleInv
    BY <1>1, <1>2, AccountsAssumption DEF SoleInv, OneAtATime, ViewsHeld, Viewed
  <1> QED
    BY <1>3, <1>4, <1>5 DEF CountersInv, ReachInv

LEMMA CountersKept == AInv /\ CountersInv /\ [Next]_vars => CountersInv'
PROOF
  <1> SUFFICES ASSUME AInv, CountersInv, [Next]_vars PROVE CountersInv'
    OBVIOUS
  <1>1. {"totalSaves", "totalViews", "offerClicks"} \subseteq Fields
    BY AccountsAssumption
  <1>2. ASSUME NEW w \in Workers, NEW d \in {-1, 0, 1}, Begins(w, "totalSaves", d)
        PROVE  CountersInv'
    BY <1>1, <1>2, TypedBegins, ReachBegins, SoleBegins DEF CountersInv, Viewed
  <1>3. ASSUME NEW w \in Workers, NEW g \in {"totalViews", "offerClicks"}, Begins(w, g, 1)
        PROVE  CountersInv'
    BY <1>1, <1>3, TypedBegins, ReachBegins, SoleBegins DEF CountersInv
  <1>4. ASSUME NEW w \in Workers, GoesOn(w) PROVE CountersInv'
    BY <1>4, TypedGoesOn, ReachGoesOn, SoleGoesOn DEF CountersInv
  <1>5. CASE UNCHANGED <<rows, job, raised, overlap>>
    <2>1. CountersTyped'
      BY <1>5 DEF CountersInv, CountersTyped, AnalyticsTypeOK, JobRowStored, Stored
    <2>2. ASSUME NEW f \in Fields PROVE ReachBound(f)'
      <3>1. Reach(f)' = Reach(f) /\ New(f)' = New(f) /\ raised' = raised
        BY <1>5 DEF Reach, New, Stored
      <3> QED
        BY <3>1 DEF CountersInv, ReachInv, ReachBound
    <2>3. SoleInv'
      BY <1>5 DEF CountersInv, SoleInv, OneAtATime, ViewsHeld, Stored, Counting
    <2> QED
      BY <2>1, <2>2, <2>3 DEF CountersInv, ReachInv
  <1>6. CASE UNCHANGED vars
    BY <1>5, <1>6 DEF vars, histVars
  <1> QED
    BY <1>2, <1>3, <1>4, <1>5, <1>6, CounterSteps

(* incrementAnalytic and its copies in users and sync: whatever old values   *)
(* their saves write back, a counter shows no more over all the rows of the  *)
(* day than it was asked to go up, for any number of requests and rows.      *)
THEOREM NothingMadeUp == Spec => []NeverOverReports
PROOF
  <1>1. CountersInv => NeverOverReports
    <2> SUFFICES ASSUME CountersInv, NEW f \in Fields PROVE Shown(f) <= raised[f]
      BY DEF NeverOverReports
    <2>1. Units(f) \subseteq Reach(f)
      <3>1. ASSUME NEW i \in Stored, NEW k \in 1 .. rows[i][f] PROVE <<i, k>> \in Reach(f)
        <4>1. rows[i][f] \in Nat /\ i \in RowIds
          BY DEF CountersInv, CountersTyped, AnalyticsTypeOK, Stored, Row
        <4> QED
          BY <4>1 DEF Reach
      <3> QED
        BY <3>1 DEF Units
    <2>2. ReachBound(f) /\ raised[f] \in Nat
      BY DEF CountersInv, ReachInv, CountersTyped
    <2>3. Cardinality(Units(f)) <= Cardinality(Reach(f))
      BY <2>1, <2>2, NoMore DEF ReachBound
    <2>4. Cardinality(Units(f)) \in Nat /\ Cardinality(Reach(f)) \in Nat
            /\ Cardinality(New(f)) \in Nat
      BY <2>1, <2>2, NoMore, FS_CardinalityType DEF ReachBound
    <2> QED
      BY <2>2, <2>3, <2>4 DEF ReachBound, Shown
  <1> QED
    BY AInvStarts, AInvKept, CountersStart, CountersKept, <1>1, PTL DEF Spec

(* Counter updates that never overlapped lose no view and no click.          *)
THEOREM ViewsExactAlone == Spec => []ExactWithoutOverlap
PROOF
  <1>1. CountersInv => ExactWithoutOverlap
    <2> SUFFICES ASSUME CountersInv, ~overlap, Counting = {}, NEW f \in Viewed
                 PROVE  Shown(f) = raised[f]
      BY DEF ExactWithoutOverlap, Viewed
    <2>1. OneAtATime /\ ViewsHeld /\ f \in Fields
      BY AccountsAssumption DEF CountersInv, SoleInv, Viewed
    <2>2. CASE Stored = {}
      <3>1. Units(f) = {}
        BY <2>2 DEF Units
      <3>2. Shown(f) = 0
        BY <3>1, FS_EmptySet DEF Shown
      <3>3. raised[f] = 0
        BY <2>1, <2>2 DEF ViewsHeld
      <3> QED
        BY <3>2, <3>3
    <2>3. ASSUME NEW i \in Stored PROVE Shown(f) = raised[f]
      <3> DEFINE n == rows[i][f]
      <3>1. Stored = {i} /\ n = raised[f] /\ n \in Nat
        BY <2>1 DEF OneAtATime, ViewsHeld, CountersInv, CountersTyped
      <3>2. Units(f) = {i} \X (1 .. n)
        BY <3>1 DEF Units
      <3> HIDE DEF n
      <3>3. IsFiniteSet({i}) /\ Cardinality({i}) = 1
        BY FS_Singleton, Zenon
      <3>4. IsFiniteSet(1 .. n) /\ Cardinality(1 .. n) = IF 1 > n THEN 0 ELSE n - 1 + 1
        <4>1. 1 \in Int /\ n \in Int
          BY <3>1
        <4> QED
          BY <4>1, FS_Interval, Zenon
      <3>5. /\ IsFiniteSet({i}) /\ Cardinality({i}) = 1
            /\ IsFiniteSet(1 .. n) /\ Cardinality(1 .. n) = n
        BY <3>1, <3>3, <3>4
      <3>6. Cardinality({i} \X (1 .. n)) = 1 * n
        <4>1. Cardinality({i} \X (1 .. n)) = Cardinality({i}) * Cardinality(1 .. n)
          BY <3>5, FS_Product, Zenon
        <4> QED
          BY <3>5, <4>1, Zenon
      <3>7. 1 * n = n
        BY <3>1
      <3>8. Cardinality(Units(f)) = n
        BY <3>2, <3>6, <3>7, Zenon
      <3> QED
        BY <3>1, <3>8 DEF Shown
    <2> QED
      BY <2>2, <2>3
  <1> QED
    BY AInvStarts, AInvKept, CountersStart, CountersKept, <1>1, PTL DEF Spec
=============================================================================
