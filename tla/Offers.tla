------------------------------- MODULE Offers -------------------------------
(***************************************************************************)
(* Claiming and redeeming offers, concurrently with the edits a business   *)
(* makes to the same offers (modules/offers, the offer part of             *)
(* modules/business and the OFFER_TOGGLE action of modules/sync).          *)
(*                                                                         *)
(* Every handler is an async function without a transaction: between two   *)
(* awaits any other request may run. A consumer request claims an offer or *)
(* redeems a voucher; an editor request toggles, deletes or updates an     *)
(* offer. An action is one database statement with the synchronous code    *)
(* after it. A save() is a SELECT and an UPDATE of the columns in which    *)
(* the entity held in memory differs from it.                              *)
(***************************************************************************)
EXTENDS VenueAnalytics

CONSTANTS
  OfferIds, Users, Vouchers,   \* offers, customers, possible voucher codes
  Consumers, Editors,          \* request slots: customer and business requests
  Faulty,                      \* consumer slots whose database calls may throw
  Saving,                      \* savingValue of each offer
  Caps,                        \* values maxRedemptions can have (0 = unlimited)
  Never,                       \* expiresAt is null
  NoClaim,                     \* a voucher code nobody holds
  MaxNow,                      \* bound of the model: the last instant
  CountBound                   \* bound of the model on redemptionCount

Times == 0 .. MaxNow
OfferRow == [isActive : BOOLEAN, expiresAt : Times \cup {Never},
             redemptionCount : Nat, maxRedemptions : Caps]
OfferCols == {"isActive", "expiresAt", "redemptionCount", "maxRedemptions"}
Claim == [offer : OfferIds, user : Users,
          status : {"active", "redeemed"}, savingValue : Nat]
ClaimCols == {"status", "savingValue"}

ASSUME OffersAssumption ==
  /\ Workers = Consumers
  /\ "redemptions" \in Fields
  /\ Saving \in [OfferIds -> Nat]
  /\ Caps \subseteq Nat
  /\ MaxNow \in Nat /\ CountBound \in Nat
  /\ Never \notin Times
  /\ NoClaim \notin Claim
  /\ Faulty \subseteq Consumers
  /\ OfferIds # {} /\ Users # {} /\ Vouchers # {}
  /\ IsFiniteSet(Vouchers) /\ IsFiniteSet(Consumers)

VARIABLES
  now,        \* the clock
  offers,     \* table offers
  claims,     \* table redemptions, by voucher code (UNIQUE)
  req,        \* per consumer request: where it is and what it holds
  edit,       \* per editor request: where it is and the entity it holds
  counted,    \* history: how often a voucher was counted as redeemed
  deleted     \* history: offers deleted, and given no new expiry since

offerVars == <<now, offers, claims, req, edit, counted, deleted>>
vars == <<rows, job, offerVars>>

AnOffer == CHOOSE o \in OfferIds : TRUE
AUser == CHOOSE u \in Users : TRUE
AVoucher == CHOOSE v \in Vouchers : TRUE

Req == [pc : {"idle", "findActiveClaim", "insertClaim", "findVoucher", "reread",
              "count", "analytics", "analyticsSave", "saveSelect", "saveUpdate"},
        offer : OfferIds, user : Users, voucher : Vouchers,
        savingValue : Nat, dirty : SUBSET ClaimCols]
IdleReq == [pc |-> "idle", offer |-> AnOffer, user |-> AUser,
            voucher |-> AVoucher, savingValue |-> 0, dirty |-> {}]

Edit == [pc : {"idle", "verify", "patch", "saveSelect", "saveUpdate"},
         op : {"toggleOn", "toggleOff", "delete", "update"},
         offer : OfferIds, copy : OfferRow, dirty : SUBSET OfferCols]

TypeOK ==
  /\ AnalyticsTypeOK
  /\ now \in Times
  /\ offers \in [OfferIds -> OfferRow]
  /\ claims \in [Vouchers -> Claim \cup {NoClaim}]
  /\ req \in [Consumers -> Req]
  /\ edit \in [Editors -> Edit]
  /\ counted \in [Vouchers -> Nat]
  /\ deleted \subseteq OfferIds

-----------------------------------------------------------------------------
(* isOfferAvailableNow without rules 2 and 3, which depend on the weekday, *)
(* the hour and a flag: they may say no at any time.                        *)

Expired(row) == row.expiresAt # Never /\ now > row.expiresAt
SoldOut(row) == row.maxRedemptions > 0 /\ row.redemptionCount >= row.maxRedemptions
Claimable(row) == row.isActive /\ ~Expired(row) /\ ~SoldOut(row)

Issued == {v \in Vouchers : claims[v] # NoClaim}
ActiveClaims(o, u) ==
  {v \in Issued : /\ claims[v].offer = o
                  /\ claims[v].user = u
                  /\ claims[v].status = "active"}

(* Variants named after a plausible slip in the definition that follows them
   serve to check that a property notices it. *)

Goto(c, pc) == req' = [req EXCEPT ![c].pc = pc]
Finish(c) == req' = [req EXCEPT ![c] = IdleReq]

-----------------------------------------------------------------------------
(* POST /offers/:id/claim *)

(* findById, then the availability check. A refusal changes nothing. *)
ClaimStart(c, o, u) ==
  /\ req[c].pc = "idle"
  /\ Claimable(offers[o])
  /\ req' = [req EXCEPT ![c] = [IdleReq EXCEPT
               !.pc = "findActiveClaim", !.offer = o, !.user = u]]
  /\ UNCHANGED <<rows, job, now, offers, claims, edit, counted, deleted>>

SkipActiveClaim(o, u) == FALSE
HasActiveClaim(o, u) == ActiveClaims(o, u) # {}

(* findActiveClaimByUser: an active claim found is returned as it is. *)
ClaimFindActive(c) ==
  /\ req[c].pc = "findActiveClaim"
  /\ IF HasActiveClaim(req[c].offer, req[c].user)
       THEN Finish(c) ELSE Goto(c, "insertClaim")
  /\ UNCHANGED <<rows, job, now, offers, claims, edit, counted, deleted>>

CodeReused(v) == TRUE
CodeFree(v) == v \notin Issued

(* claimOffer: INSERT under a random code. A code in use breaks UNIQUE and
   the request fails. *)
ClaimInsert(c) ==
  /\ req[c].pc = "insertClaim"
  /\ \E v \in Vouchers :
       claims' = IF CodeFree(v)
                   THEN [claims EXCEPT ![v] =
                          [offer |-> req[c].offer, user |-> req[c].user,
                           status |-> "active", savingValue |-> 0]]
                   ELSE claims
  /\ Finish(c)
  /\ UNCHANGED <<rows, job, now, offers, edit, counted, deleted>>

-----------------------------------------------------------------------------
(* POST /offers/:id/redeem *)

(* findById of the offer in the URL; its savingValue is what will be stored,
   whichever offer the voucher is for. Any code can be sent. *)
RedeemStart(c, o, u, v) ==
  /\ req[c].pc = "idle"
  /\ req' = [req EXCEPT ![c] = [IdleReq EXCEPT
               !.pc = "findVoucher", !.user = u, !.voucher = v,
               !.savingValue = Saving[o]]]
  /\ UNCHANGED <<rows, job, now, offers, claims, edit, counted, deleted>>

RedeemsAgain(v, u) == v \in Issued /\ claims[v].user = u
MayRedeem(v, u) ==
  v \in Issued /\ claims[v].user = u /\ claims[v].status # "redeemed"

(* findClaimByVoucherCode, then the three refusals *)
RedeemFindVoucher(c) ==
  /\ req[c].pc = "findVoucher"
  /\ IF MayRedeem(req[c].voucher, req[c].user)
       THEN Goto(c, "reread") ELSE Finish(c)
  /\ UNCHANGED <<rows, job, now, offers, claims, edit, counted, deleted>>

CountForgotten == "analytics"
FirstUpdate == "count"

(* redeemOffer: findOne by id and, in memory only, the new values *)
RedeemReread(c) ==
  /\ req[c].pc = "reread"
  /\ Goto(c, FirstUpdate)
  /\ UNCHANGED <<rows, job, now, offers, claims, edit, counted, deleted>>

CountedDown(row) == [row EXCEPT !.redemptionCount = @ - 1]
CountedTwice(row) == [row EXCEPT !.redemptionCount = @ + 2]
CountedUp(row) == [row EXCEPT !.redemptionCount = @ + 1]

(* increment(): one atomic UPDATE ... SET redemptionCount = redemptionCount + 1.
   offerId is the claim's, and no code writes it after the INSERT. *)
RedeemCount(c) ==
  LET v == req[c].voucher
      o == claims[v].offer
  IN
  /\ req[c].pc = "count"
  /\ offers[o].redemptionCount < CountBound
  /\ offers' = [offers EXCEPT ![o] = CountedUp(@)]
  /\ counted' = [counted EXCEPT ![v] = @ + 1]
  /\ Goto(c, "analytics")
  /\ UNCHANGED <<rows, job, now, claims, edit, deleted>>

RedeemAnalytics(c) ==
  /\ req[c].pc = "analytics"
  /\ AnalyticsFind(c, "redemptions", 1)
  /\ Goto(c, "analyticsSave")
  /\ UNCHANGED <<now, offers, claims, edit, counted, deleted>>

(* One statement of incrementAnalytic's save(); the request goes on when the
   save is over. *)
RedeemAnalyticsSave(c) ==
  /\ req[c].pc = "analyticsSave"
  /\ AnalyticsSave(c)
  /\ IF job'[c].stage = "idle" THEN Goto(c, "saveSelect") ELSE UNCHANGED req
  /\ UNCHANGED <<now, offers, claims, edit, counted, deleted>>

StatusUnchanged(row, saving) == {"savingValue"}
RedeemDirty(row, saving) ==
  {col \in ClaimCols : \/ col = "status" /\ row.status # "redeemed"
                       \/ col = "savingValue" /\ row.savingValue # saving}

(* save(redemption): the SELECT. redeemedAt always differs, so there always
   is an UPDATE. *)
RedeemSaveSelect(c) ==
  /\ req[c].pc = "saveSelect"
  /\ req' = [req EXCEPT ![c].pc = "saveUpdate",
               ![c].dirty = RedeemDirty(claims[req[c].voucher], req[c].savingValue)]
  /\ UNCHANGED <<rows, job, now, offers, claims, edit, counted, deleted>>

RedeemSaveUpdate(c) ==
  LET v == req[c].voucher
      row == claims[v]
      dirty == req[c].dirty
  IN
  /\ req[c].pc = "saveUpdate"
  /\ claims' = [claims EXCEPT ![v] =
       [offer |-> row.offer, user |-> row.user,
        status |-> IF "status" \in dirty THEN "redeemed" ELSE row.status,
        savingValue |-> IF "savingValue" \in dirty
                          THEN req[c].savingValue ELSE row.savingValue]]
  /\ Finish(c)
  /\ UNCHANGED <<rows, job, now, offers, edit, counted, deleted>>

-----------------------------------------------------------------------------
(* A database call throws or the process dies: the request ends where it is. *)
Fail(c) ==
  /\ c \in Faulty
  /\ req[c].pc # "idle"
  /\ Finish(c)
  /\ AnalyticsAbort(c)
  /\ UNCHANGED <<now, offers, claims, edit, counted, deleted>>

-----------------------------------------------------------------------------
(* Business edits: toggleOffer, deleteOffer, updateOffer, and OFFER_TOGGLE   *)
(* of the offline queue. *)

NoRowCopy == [isActive |-> FALSE, expiresAt |-> Never, redemptionCount |-> 0,
              maxRedemptions |-> CHOOSE m \in Caps : TRUE]
IdleEdit == [pc |-> "idle", op |-> "update", offer |-> AnOffer,
             copy |-> NoRowCopy, dirty |-> {}]

FinishEdit(e) == edit' = [edit EXCEPT ![e] = IdleEdit]

(* findOne of the offer by a business handler *)
EditStart(e, op, o) ==
  /\ edit[e].pc = "idle"
  /\ edit' = [edit EXCEPT ![e] = [pc |-> "verify", op |-> op, offer |-> o,
                                  copy |-> offers[o], dirty |-> {}]]
  /\ UNCHANGED <<rows, job, now, offers, claims, req, counted, deleted>>

DeletedKeepingExpiry(copy) == [copy EXCEPT !.isActive = FALSE]
Deleted(copy) == [copy EXCEPT !.isActive = FALSE, !.expiresAt = now]

Toggled(copy, op) == [copy EXCEPT !.isActive = (op = "toggleOn")]

(* verifyOwnership throws, or the entity in memory takes its new values *)
EditVerify(e) ==
  LET op == edit[e].op IN
  /\ edit[e].pc = "verify"
  /\ \/ FinishEdit(e)
     \/ /\ op = "update"
        /\ edit' = [edit EXCEPT ![e].pc = "patch"]
     \/ /\ op \in {"toggleOn", "toggleOff"}
        /\ edit' = [edit EXCEPT ![e].pc = "saveSelect", ![e].copy = Toggled(@, op)]
     \/ /\ op = "delete"
        /\ edit' = [edit EXCEPT ![e].pc = "saveSelect", ![e].copy = Deleted(@)]
  /\ UNCHANGED <<rows, job, now, offers, claims, req, counted, deleted>>

(* processOfferToggle: no ownership check, an expired offer is rejected, and
   a toggle without a value flips the copy *)
SyncToggle(e, op, o) ==
  /\ edit[e].pc = "idle"
  /\ op \in {"toggleOn", "toggleOff"}
  /\ ~Expired(offers[o])
  /\ edit' = [edit EXCEPT ![e] =
       [pc |-> "saveSelect", op |-> op, offer |-> o, dirty |-> {},
        copy |-> Toggled(offers[o], op)]]
  /\ UNCHANGED <<rows, job, now, offers, claims, req, counted, deleted>>

(* update(offerId, payload): one UPDATE of the columns of the payload *)
EditPatch(e) ==
  LET o == edit[e].offer IN
  /\ edit[e].pc = "patch"
  /\ \/ /\ \E m \in Caps : offers' = [offers EXCEPT ![o].maxRedemptions = m]
        /\ UNCHANGED deleted
     \/ /\ \E t \in Times : offers' = [offers EXCEPT ![o].expiresAt = t]
        /\ deleted' = deleted \ {o}
  /\ FinishEdit(e)
  /\ UNCHANGED <<rows, job, now, claims, req, counted>>

(* save(offer): the SELECT. No difference, no UPDATE. *)
EditSaveSelect(e) ==
  LET o == edit[e].offer
      copy == edit[e].copy
      row == offers[o]
      dirty == {col \in OfferCols :
                  \/ col = "isActive" /\ copy.isActive # row.isActive
                  \/ col = "expiresAt" /\ copy.expiresAt # row.expiresAt
                  \/ col = "redemptionCount" /\ copy.redemptionCount # row.redemptionCount
                  \/ col = "maxRedemptions" /\ copy.maxRedemptions # row.maxRedemptions}
  IN
  /\ edit[e].pc = "saveSelect"
  /\ edit' = [edit EXCEPT ![e] = IF dirty = {} THEN IdleEdit
                ELSE [@ EXCEPT !.pc = "saveUpdate", !.dirty = dirty]]
  /\ deleted' = IF dirty = {} /\ edit[e].op = "delete" THEN deleted \cup {o} ELSE deleted
  /\ UNCHANGED <<rows, job, now, offers, claims, req, counted>>

(* save(offer): the UPDATE of the columns found different, whoever changed
   them since they were read *)
EditSaveUpdate(e) ==
  LET o == edit[e].offer
      row == offers[o]
      copy == edit[e].copy
      dirty == edit[e].dirty
  IN
  /\ edit[e].pc = "saveUpdate"
  /\ offers' = [offers EXCEPT ![o] =
       [isActive |-> IF "isActive" \in dirty THEN copy.isActive ELSE row.isActive,
        expiresAt |-> IF "expiresAt" \in dirty THEN copy.expiresAt ELSE row.expiresAt,
        redemptionCount |-> IF "redemptionCount" \in dirty
                              THEN copy.redemptionCount ELSE row.redemptionCount,
        maxRedemptions |-> IF "maxRedemptions" \in dirty
                             THEN copy.maxRedemptions ELSE row.maxRedemptions]]
  /\ deleted' = IF edit[e].op = "delete" THEN deleted \cup {o} ELSE deleted
  /\ FinishEdit(e)
  /\ UNCHANGED <<rows, job, now, claims, req, counted>>

Tick ==
  /\ now < MaxNow
  /\ now' = now + 1
  /\ UNCHANGED <<rows, job, offers, claims, req, edit, counted, deleted>>

-----------------------------------------------------------------------------
(* createOffer: active, nothing redeemed, any expiry, a cap that is not 0 *)
NewOffers == {[isActive |-> TRUE, expiresAt |-> t,
               redemptionCount |-> 0, maxRedemptions |-> m] :
                t \in Times \cup {Never}, m \in Caps \ {0}}

Init ==
  /\ AnalyticsInit
  /\ now = 0
  /\ offers \in [OfferIds -> NewOffers]
  /\ claims = [v \in Vouchers |-> NoClaim]
  /\ req = [c \in Consumers |-> IdleReq]
  /\ edit = [e \in Editors |-> IdleEdit]
  /\ counted = [v \in Vouchers |-> 0]
  /\ deleted = {}

ClaimRequest(c) ==
  \/ \E o \in OfferIds, u \in Users : ClaimStart(c, o, u)
  \/ ClaimFindActive(c)
  \/ ClaimInsert(c)

RedeemRequest(c) ==
  \/ \E o \in OfferIds, u \in Users, v \in Vouchers : RedeemStart(c, o, u, v)
  \/ RedeemFindVoucher(c)
  \/ RedeemReread(c)
  \/ RedeemCount(c)
  \/ RedeemAnalytics(c)
  \/ RedeemAnalyticsSave(c)
  \/ RedeemSaveSelect(c)
  \/ RedeemSaveUpdate(c)

EditRequest(e) ==
  \/ \E o \in OfferIds, op \in {"toggleOn", "toggleOff", "delete", "update"} :
       EditStart(e, op, o) \/ SyncToggle(e, op, o)
  \/ EditVerify(e)
  \/ EditPatch(e)
  \/ EditSaveSelect(e)
  \/ EditSaveUpdate(e)

Next ==
  \/ \E c \in Consumers : ClaimRequest(c) \/ RedeemRequest(c) \/ Fail(c)
  \/ \E e \in Editors : EditRequest(e)
  \/ Tick

Spec == Init /\ [][Next]_vars

(* Node runs a handler to its end once its database answers: the steps of a
   started request are fair, the arrival of requests is not. *)
Continue(c) ==
  \/ ClaimFindActive(c) \/ ClaimInsert(c)
  \/ RedeemFindVoucher(c) \/ RedeemReread(c) \/ RedeemCount(c)
  \/ RedeemAnalytics(c) \/ RedeemAnalyticsSave(c)
  \/ RedeemSaveSelect(c) \/ RedeemSaveUpdate(c)

FairSpec == Spec /\ \A c \in Consumers : WF_vars(Continue(c))

-----------------------------------------------------------------------------
(* Properties *)

(* A request past the refusals of redeem holds a voucher that exists and     *)
(* belongs to its customer.                                                  *)
PastRefusals == {"reread", "count", "analytics", "analyticsSave", "saveSelect", "saveUpdate"}
HoldsOwnVoucher ==
  \A c \in Consumers : req[c].pc \in PastRefusals =>
    req[c].voucher \in Issued /\ claims[req[c].voucher].user = req[c].user

Redeemed(o) == {v \in Issued : claims[v].offer = o /\ claims[v].status = "redeemed"}

(* A voucher recorded as redeemed was counted: redeemOffer increments the    *)
(* offer before it saves the redemption, so a crash between the two may      *)
(* count too much and never too little. Editors break it: see the README.    *)
CountCoversRedeemed ==
  \A o \in OfferIds : offers[o].redemptionCount >= Cardinality(Redeemed(o))

(* The check of findActiveClaimByUser and the INSERT of claimOffer are not   *)
(* atomic, so duplicates are possible; but each duplicate needs a request of *)
(* its own that was past the check: one request at a time never issues two.  *)
DuplicatesBounded ==
  \A o \in OfferIds, u \in Users :
    Cardinality(ActiveClaims(o, u)) <= Cardinality(Consumers)

(* Likewise the ALREADY_REDEEMED check: a voucher is counted at most once    *)
(* per request that was past the check when the first one finished. (With no *)
(* request failing half-way.)                                                *)
DoubleRedeemBounded ==
  \A v \in Vouchers : counted[v] <= Cardinality(Consumers)

(* The times vouchers of the offer were counted as redeemed *)
Countings(o) ==
  UNION {{v} \X (1 .. counted[v]) : v \in {w \in Issued : claims[w].offer = o}}

(* The stored redemptionCount never exceeds the redemptions that were really *)
(* counted: the full-entity saves of the business edits can lose counts but  *)
(* never make one up, so a cap is never reached too early.                   *)
CountNotInvented ==
  \A o \in OfferIds : offers[o].redemptionCount <= Cardinality(Countings(o))

(* A voucher becomes redeemed only by a request of the customer it was       *)
(* issued to, although the check of userId is five statements earlier.       *)
OnlyOwnerRedeems ==
  [][\A v \in Issued :
       claims'[v].status # claims[v].status =>
         \E c \in Consumers : /\ req[c].pc = "saveUpdate"
                              /\ req[c].voucher = v
                              /\ req[c].user = claims[v].user]_vars

(* deleteOffer closes an offer by giving it an expiry that has come; it      *)
(* keeps one until updateOffer sets another.                                 *)
DeletedKeepsExpiry ==
  \A o \in deleted : offers[o].expiresAt \in 0 .. now

(* The life of a row of table redemptions is the one module Voucher promises: *)
(* issued once under a code nobody holds, to one customer for one offer,     *)
(* worth nothing until redeemed and never un-redeemed. (Rows go only with    *)
(* the customer's account, which is outside this module.)                    *)
Lifecycle == INSTANCE Voucher WITH
  ledger <- claims, Values <- {Saving[o] : o \in OfferIds}
VoucherLifecycle == Lifecycle!AbstractSpec

(* A redeem request that has counted a voucher marks it redeemed. *)
RedeemCompletes ==
  \A c \in Consumers, v \in Vouchers :
    (req[c].pc = "analytics" /\ req[c].voucher = v)
      ~> (v \in Issued /\ claims[v].status = "redeemed")
=============================================================================
