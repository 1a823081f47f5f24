---------------------------- MODULE OffersProofs ----------------------------
(* Theorems of module Offers, for every number of requests, offers, vouchers *)
(* and rows.                                                                 *)
EXTENDS Offers, FiniteSetTheorems, TLAPS

-----------------------------------------------------------------------------
(* The values of idle slots are well typed. *)

LEMMA IdleTypes ==
  /\ IdleJob \in Job
  /\ IdleReq \in Req
  /\ ZeroRow \in Row
<1>1. AnyId \in RowIds
  BY AnalyticsAssumption DEF AnyId
<1>2. ZeroRow \in Row
  BY DEF ZeroRow, Row
<1>3. IdleJob \in Job
  BY <1>1, <1>2 DEF IdleJob, Job
<1>4. AnOffer \in OfferIds /\ AUser \in Users /\ AVoucher \in Vouchers
  BY OffersAssumption DEF AnOffer, AUser, AVoucher
<1>5. IdleReq \in Req
  BY <1>4 DEF IdleReq, Req
<1>6. QED
  BY <1>2, <1>3, <1>5

LEMMA IdleEditType ==
  ASSUME NEW o \in OfferIds, NEW row \in OfferRow
  PROVE  IdleEdit \in Edit
<1>1. (CHOOSE m \in Caps : TRUE) \in Caps
  BY DEF OfferRow
<1>2. NoRowCopy \in OfferRow
  BY <1>1 DEF NoRowCopy, OfferRow
<1>3. AnOffer \in OfferIds
  BY DEF AnOffer
<1>4. QED
  BY <1>2, <1>3 DEF IdleEdit, Edit

-----------------------------------------------------------------------------
(* The counter rows: what each statement of a counter update preserves. *)

CounterInv == AnalyticsTypeOK /\ JobRowStored

LEMMA FindKeepsCounters ==
  ASSUME NEW w \in Workers, NEW f \in Fields, CounterInv, AnalyticsFind(w, f, 1)
  PROVE  CounterInv'
<1> USE DEF CounterInv, AnalyticsTypeOK, JobRowStored, Stored, Seen
<1>1. CASE \E i \in Stored :
             job' = [job EXCEPT ![w] =
               [stage |-> "select", id |-> i, dirty |-> {},
                copy |-> [rows[i] EXCEPT ![f] = Bumped(@, 1)]]]
  <2>1. PICK i \in Stored :
          job' = [job EXCEPT ![w] =
            [stage |-> "select", id |-> i, dirty |-> {},
             copy |-> [rows[i] EXCEPT ![f] = Bumped(@, 1)]]]
    BY <1>1
  <2>2. rows[i] \in Row
    OBVIOUS
  <2>3. [rows[i] EXCEPT ![f] = Bumped(@, 1)] \in Row
    BY <2>2 DEF Row, Bumped
  <2>4. [stage |-> "select", id |-> i, dirty |-> {},
         copy |-> [rows[i] EXCEPT ![f] = Bumped(@, 1)]] \in Job
    BY <2>3 DEF Job
  <2>5. rows' = rows
    BY DEF AnalyticsFind
  <2>6. QED
    BY <2>1, <2>4, <2>5
<1>2. CASE job' = [job EXCEPT ![w] =
             [stage |-> "insert", id |-> AnyId, dirty |-> {},
              copy |-> [ZeroRow EXCEPT ![f] = Bumped(@, 1)]]]
  <2>1. [ZeroRow EXCEPT ![f] = Bumped(@, 1)] \in Row
    BY DEF ZeroRow, Row, Bumped
  <2>2. [stage |-> "insert", id |-> AnyId, dirty |-> {},
         copy |-> [ZeroRow EXCEPT ![f] = Bumped(@, 1)]] \in Job
    BY <2>1, AnalyticsAssumption DEF Job, AnyId
  <2>3. rows' = rows
    BY DEF AnalyticsFind
  <2>4. QED
    BY <1>2, <2>2, <2>3
<1>3. QED
  BY <1>1, <1>2 DEF AnalyticsFind

LEMMA SaveKeepsCounters ==
  ASSUME NEW w \in Workers, CounterInv, AnalyticsSave(w)
  PROVE  CounterInv'
<1> USE DEF CounterInv, AnalyticsTypeOK, JobRowStored, Stored
<1>1. CASE AnalyticsInsert(w)
  <2>1. PICK i \in RowIds \ Stored : rows' = [rows EXCEPT ![i] = job[w].copy]
    BY <1>1 DEF AnalyticsInsert
  <2>2. job[w].copy \in Row
    BY DEF Job
  <2>3. job' = [job EXCEPT ![w] = IdleJob]
    BY <1>1 DEF AnalyticsInsert
  <2>4. rows' \in [RowIds -> Row \cup {NoRow}] /\ rows'[i] # NoRow
    BY <2>1, <2>2, AnalyticsAssumption
  <2>5. job' \in [Workers -> Job] /\ IdleJob.stage = "idle"
    BY <2>3, IdleTypes DEF IdleJob
  <2>6. QED
    BY <2>1, <2>3, <2>4, <2>5
<1>2. CASE AnalyticsSelect(w)
  <2> DEFINE dirty == {f \in Fields : job[w].copy[f] # rows[job[w].id][f]}
  <2>1. job' = [job EXCEPT ![w] =
          IF dirty = {} THEN IdleJob
          ELSE [job[w] EXCEPT !.stage = "update", !.dirty = dirty]]
    BY <1>2 DEF AnalyticsSelect, Dirty
  <2>2. [job[w] EXCEPT !.stage = "update", !.dirty = dirty] \in Job
    BY DEF Job
  <2>3. rows' = rows /\ job[w].stage = "select"
    BY <1>2 DEF AnalyticsSelect, Dirty
  <2>4. job' \in [Workers -> Job]
    BY <2>1, <2>2, IdleTypes
  <2>5. job'[w].stage \in {"select", "update"} => job'[w].id = job[w].id
    BY <2>1 DEF Job, IdleJob
  <2>6. \A x \in Workers : x # w => job'[x] = job[x]
    BY <2>1
  <2>7. QED
    BY <2>3, <2>4, <2>5, <2>6
<1>3. CASE AnalyticsUpdate(w)
  <2> DEFINE i == job[w].id
             row == [f \in Fields |-> IF f \in job[w].dirty
                                        THEN job[w].copy[f] ELSE rows[i][f]]
  <2>1. i \in Stored /\ job[w].copy \in Row
    BY <1>3 DEF AnalyticsUpdate, Job
  <2>2. rows[i] \in Row
    BY <2>1
  <2>3. row \in Row
    BY <2>1, <2>2 DEF Row
  <2>4. rows' = [rows EXCEPT ![i] = row] /\ job' = [job EXCEPT ![w] = IdleJob]
    BY <1>3 DEF AnalyticsUpdate
  <2>5. row # NoRow
    BY <2>3, AnalyticsAssumption
  <2> HIDE DEF row
  <2>6. rows' \in [RowIds -> Row \cup {NoRow}] /\ rows'[i] # NoRow
    BY <2>1, <2>3, <2>4, <2>5
  <2>7. job' \in [Workers -> Job] /\ IdleJob.stage = "idle"
    BY <2>4, IdleTypes DEF IdleJob
  <2>8. QED
    BY <2>1, <2>4, <2>6, <2>7
<1>4. QED
  BY <1>1, <1>2, <1>3 DEF AnalyticsSave

LEMMA AbortKeepsCounters ==
  ASSUME NEW w \in Workers, CounterInv, AnalyticsAbort(w)
  PROVE  CounterInv'
  BY IdleTypes DEF CounterInv, AnalyticsTypeOK, JobRowStored, Stored, AnalyticsAbort, IdleJob

-----------------------------------------------------------------------------
(* Type correctness, with what it rests on: a counter row being saved is     *)
(* stored, a voucher being redeemed exists and is the requester's.           *)

Inv == TypeOK /\ JobRowStored /\ HoldsOwnVoucher

LEMMA InvInit == Init => Inv
<1> SUFFICES ASSUME Init PROVE Inv
  OBVIOUS
<1> USE DEF Init, AnalyticsInit
<1>1. AnalyticsTypeOK /\ JobRowStored
  BY IdleTypes DEF AnalyticsTypeOK, JobRowStored, IdleJob
<1>2. now \in Times
  BY OffersAssumption DEF Times
<1>3. offers \in [OfferIds -> OfferRow]
  <2>1. ASSUME NEW t \in Times \cup {Never}, NEW m \in Caps \ {0}
        PROVE  [isActive |-> TRUE, expiresAt |-> t,
                redemptionCount |-> 0, maxRedemptions |-> m] \in OfferRow
    BY DEF OfferRow
  <2>2. ASSUME NEW row \in NewOffers PROVE row \in OfferRow
    BY <2>1 DEF NewOffers
  <2>3. QED
    BY <2>2
<1>4. req \in [Consumers -> Req] /\ HoldsOwnVoucher
  BY IdleTypes DEF HoldsOwnVoucher, IdleReq, PastRefusals
<1>5. edit \in [Editors -> Edit]
  <2>1. PICK o \in OfferIds : TRUE
    BY OffersAssumption
  <2>2. offers[o] \in OfferRow
    BY <1>3
  <2>3. QED
    BY <2>1, <2>2, IdleEditType
<1>6. claims \in [Vouchers -> Claim \cup {NoClaim}] /\ counted \in [Vouchers -> Nat]
        /\ deleted \subseteq OfferIds
  OBVIOUS
<1>7. QED
  BY <1>1, <1>2, <1>3, <1>4, <1>5, <1>6 DEF Inv, TypeOK

(* A step that changes nothing but the state of one request, and leaves it   *)
(* before the refusals or with the voucher it held, preserves Inv.           *)
LEMMA RequestStep ==
  ASSUME Inv, NEW c \in Consumers, NEW r \in Req,
         req' = [req EXCEPT ![c] = r],
         \/ r.pc \notin PastRefusals
         \/ r.voucher \in Issued /\ claims[r.voucher].user = r.user,
         UNCHANGED <<rows, job, now, offers, claims, edit, counted, deleted>>
  PROVE  Inv'
<1> USE DEF Inv, TypeOK
<1>1. AnalyticsTypeOK' /\ JobRowStored'
  BY DEF AnalyticsTypeOK, JobRowStored, Stored
<1>2. req' \in [Consumers -> Req]
  OBVIOUS
<1>3. HoldsOwnVoucher'
  BY DEF HoldsOwnVoucher, Issued
<1>4. QED
  BY <1>1, <1>2, <1>3

LEMMA ClaimKeepsInv ==
  ASSUME Inv, NEW c \in Consumers, ClaimRequest(c)
  PROVE  Inv'
<1> USE DEF Inv, TypeOK
<1>1. CASE \E o \in OfferIds, u \in Users : ClaimStart(c, o, u)
  <2>1. PICK o \in OfferIds, u \in Users : ClaimStart(c, o, u)
    BY <1>1
  <2> DEFINE r == [IdleReq EXCEPT !.pc = "findActiveClaim", !.offer = o, !.user = u]
  <2>2. r \in Req /\ r.pc \notin PastRefusals
    BY IdleTypes DEF Req, PastRefusals
  <2>3. req' = [req EXCEPT ![c] = r]
    BY <2>1 DEF ClaimStart
  <2>4. QED
    BY <2>1, <2>2, <2>3, RequestStep DEF ClaimStart
<1>2. CASE ClaimFindActive(c)
  <2> DEFINE r == [req[c] EXCEPT !.pc = "insertClaim"]
  <2>1. r \in Req /\ r.pc \notin PastRefusals
    BY DEF Req, PastRefusals
  <2>2. IdleReq \in Req /\ IdleReq.pc \notin PastRefusals
    BY IdleTypes DEF IdleReq, PastRefusals
  <2>3. \/ req' = [req EXCEPT ![c] = r]
        \/ req' = [req EXCEPT ![c] = IdleReq]
    BY <1>2 DEF ClaimFindActive, Finish, Goto
  <2>4. QED
    BY <1>2, <2>1, <2>2, <2>3, RequestStep DEF ClaimFindActive
<1>3. CASE ClaimInsert(c)
  <2> DEFINE new == [offer |-> req[c].offer, user |-> req[c].user,
                     status |-> "active", savingValue |-> 0]
  <2>1. PICK v \in Vouchers :
          claims' = IF CodeFree(v) THEN [claims EXCEPT ![v] = new] ELSE claims
    BY <1>3 DEF ClaimInsert
  <2>2. new \in Claim
    BY DEF Req, Claim
  <2>3. claims' \in [Vouchers -> Claim \cup {NoClaim}]
    BY <2>1, <2>2
  <2>4. \A x \in Issued : x \in Issued' /\ claims'[x] = claims[x]
    BY <2>1, <2>2, OffersAssumption DEF Issued, CodeFree
  <2>5. req' = [req EXCEPT ![c] = IdleReq]
    BY <1>3 DEF ClaimInsert, Finish
  <2>6. req' \in [Consumers -> Req]
    BY <2>5, IdleTypes
  <2>7. HoldsOwnVoucher'
    BY <2>4, <2>5, IdleTypes DEF HoldsOwnVoucher, IdleReq, PastRefusals, Req
  <2>8. UNCHANGED <<rows, job, now, offers, edit, counted, deleted>>
    BY <1>3 DEF ClaimInsert
  <2>9. AnalyticsTypeOK' /\ JobRowStored'
    BY <2>8 DEF AnalyticsTypeOK, JobRowStored, Stored
  <2>10. QED
    BY <2>3, <2>6, <2>7, <2>8, <2>9
<1>4. QED
  BY <1>1, <1>2, <1>3 DEF ClaimRequest

(* What a redeem request leaves unchanged once it is past the refusals.      *)
LEMMA MoveOn ==
  ASSUME Inv, NEW c \in Consumers, NEW pc \in PastRefusals,
         req[c].pc \in PastRefusals, Goto(c, pc)
  PROVE  /\ req' \in [Consumers -> Req]
         /\ (Issued' = Issued /\ claims' = claims) => HoldsOwnVoucher'
<1> DEFINE r == [req[c] EXCEPT !.pc = pc]
<1>1. r \in Req
  BY DEF Inv, TypeOK, Req, PastRefusals
<1>2. req' = [req EXCEPT ![c] = r]
  BY DEF Goto
<1>3. req' \in [Consumers -> Req]
  BY <1>1, <1>2 DEF Inv, TypeOK
<1>4. r.voucher = req[c].voucher /\ r.user = req[c].user
  BY DEF Inv, TypeOK, Req
<1>5. QED
  BY <1>1, <1>2, <1>3, <1>4 DEF Inv, TypeOK, HoldsOwnVoucher

LEMMA RedeemKeepsInv ==
  ASSUME Inv, NEW c \in Consumers, RedeemRequest(c)
  PROVE  Inv'
<1> USE DEF Inv, TypeOK
<1> USE OffersAssumption
<1>1. CASE \E o \in OfferIds, u \in Users, v \in Vouchers : RedeemStart(c, o, u, v)
  <2>1. PICK o \in OfferIds, u \in Users, v \in Vouchers : RedeemStart(c, o, u, v)
    BY <1>1
  <2> DEFINE r == [IdleReq EXCEPT !.pc = "findVoucher", !.user = u, !.voucher = v,
                                  !.savingValue = Saving[o]]
  <2>2. r \in Req /\ r.pc \notin PastRefusals
    BY IdleTypes DEF Req, PastRefusals
  <2>3. req' = [req EXCEPT ![c] = r]
    BY <2>1 DEF RedeemStart
  <2>4. QED
    BY <2>1, <2>2, <2>3, RequestStep DEF RedeemStart
<1>2. CASE RedeemFindVoucher(c)
  <2> DEFINE r == [req[c] EXCEPT !.pc = "reread"]
  <2>1. r \in Req /\ r.voucher = req[c].voucher /\ r.user = req[c].user
    BY DEF Req
  <2>2. IdleReq \in Req /\ IdleReq.pc \notin PastRefusals
    BY IdleTypes DEF IdleReq, PastRefusals
  <2>3. \/ /\ req' = [req EXCEPT ![c] = r]
           /\ MayRedeem(req[c].voucher, req[c].user)
        \/ req' = [req EXCEPT ![c] = IdleReq]
    BY <1>2 DEF RedeemFindVoucher, Finish, Goto
  <2>4. QED
    BY <1>2, <2>1, <2>2, <2>3, RequestStep DEF RedeemFindVoucher, MayRedeem
<1>3. CASE RedeemReread(c)
  <2>1. req' \in [Consumers -> Req] /\ HoldsOwnVoucher'
    BY <1>3, MoveOn DEF RedeemReread, FirstUpdate, PastRefusals, Issued
  <2>2. QED
    BY <1>3, <2>1 DEF RedeemReread, AnalyticsTypeOK, JobRowStored, Stored
<1>4. CASE RedeemCount(c)
  <2> DEFINE v == req[c].voucher
             o == claims[v].offer
  <2>1. req' \in [Consumers -> Req] /\ HoldsOwnVoucher'
    BY <1>4, MoveOn DEF RedeemCount, PastRefusals, Issued
  <2>2. v \in Vouchers /\ claims[v] \in Claim /\ o \in OfferIds
    BY <1>4 DEF RedeemCount, HoldsOwnVoucher, PastRefusals, Issued, Req, Claim
  <2>3. CountedUp(offers[o]) \in OfferRow
    BY <2>2 DEF CountedUp, OfferRow
  <2>4. offers' = [offers EXCEPT ![o] = CountedUp(offers[o])]
    BY <1>4 DEF RedeemCount
  <2>5. counted' \in [Vouchers -> Nat]
    BY <1>4, <2>2 DEF RedeemCount
  <2>6. QED
    BY <1>4, <2>1, <2>3, <2>4, <2>5 DEF RedeemCount, AnalyticsTypeOK, JobRowStored, Stored
<1>5. CASE RedeemAnalytics(c)
  <2>1. req' \in [Consumers -> Req] /\ HoldsOwnVoucher'
    BY <1>5, MoveOn DEF RedeemAnalytics, PastRefusals, Issued
  <2>2. CounterInv'
    BY <1>5, FindKeepsCounters DEF RedeemAnalytics, CounterInv
  <2>3. QED
    BY <1>5, <2>1, <2>2 DEF RedeemAnalytics, CounterInv
<1>6. CASE RedeemAnalyticsSave(c)
  <2>1. req' \in [Consumers -> Req] /\ HoldsOwnVoucher'
    <3>1. CASE Goto(c, "saveSelect")
      BY <1>6, <3>1, MoveOn DEF RedeemAnalyticsSave, PastRefusals, Issued
    <3>2. CASE UNCHANGED req
      BY <1>6, <3>2 DEF RedeemAnalyticsSave, HoldsOwnVoucher, Issued
    <3>3. QED
      BY <1>6, <3>1, <3>2 DEF RedeemAnalyticsSave
  <2>2. CounterInv'
    BY <1>6, SaveKeepsCounters DEF RedeemAnalyticsSave, CounterInv
  <2>3. QED
    BY <1>6, <2>1, <2>2 DEF RedeemAnalyticsSave, CounterInv
<1>7. CASE RedeemSaveSelect(c)
  <2> DEFINE dirty == RedeemDirty(claims[req[c].voucher], req[c].savingValue)
             r == [req[c] EXCEPT !.pc = "saveUpdate", !.dirty = dirty]
  <2>1. dirty \subseteq ClaimCols
    BY DEF RedeemDirty
  <2>2. req[c].pc \in PastRefusals
    BY <1>7 DEF RedeemSaveSelect, PastRefusals
  <2> HIDE DEF dirty
  <2>3. r \in Req /\ r.voucher = req[c].voucher /\ r.user = req[c].user
    BY <2>1 DEF Req
  <2>4. req' = [req EXCEPT ![c] = r]
    BY <1>7 DEF RedeemSaveSelect, dirty
  <2>5. r.voucher \in Issued /\ claims[r.voucher].user = r.user
    BY <2>2, <2>3 DEF HoldsOwnVoucher
  <2>6. UNCHANGED <<rows, job, now, offers, claims, edit, counted, deleted>>
    BY <1>7 DEF RedeemSaveSelect
  <2> HIDE DEF r
  <2>7. QED
    BY <2>3, <2>4, <2>5, <2>6, RequestStep
<1>8. CASE RedeemSaveUpdate(c)
  <2> DEFINE v == req[c].voucher
             row == claims[v]
             dirty == req[c].dirty
             new == [offer |-> row.offer, user |-> row.user,
                     status |-> IF "status" \in dirty THEN "redeemed" ELSE row.status,
                     savingValue |-> IF "savingValue" \in dirty
                                       THEN req[c].savingValue ELSE row.savingValue]
  <2>1. v \in Issued /\ v \in Vouchers /\ row \in Claim
    BY <1>8 DEF RedeemSaveUpdate, HoldsOwnVoucher, PastRefusals, Issued, Req
  <2>2. req[c].savingValue \in Nat
    BY DEF Req
  <2>3. new \in Claim /\ new.user = row.user
    BY <2>1, <2>2 DEF Claim
  <2>4. claims' = [claims EXCEPT ![v] = new] /\ req' = [req EXCEPT ![c] = IdleReq]
    BY <1>8 DEF RedeemSaveUpdate, Finish
  <2> HIDE DEF new
  <2>5. claims' \in [Vouchers -> Claim \cup {NoClaim}]
    BY <2>3, <2>4
  <2>6. \A x \in Issued : x \in Issued' /\ claims'[x].user = claims[x].user
    BY <2>1, <2>3, <2>4 DEF Issued
  <2>7. req' \in [Consumers -> Req] /\ HoldsOwnVoucher'
    BY <2>4, <2>6, IdleTypes DEF HoldsOwnVoucher, IdleReq, PastRefusals
  <2>8. QED
    BY <1>8, <2>5, <2>7 DEF RedeemSaveUpdate, AnalyticsTypeOK, JobRowStored, Stored
<1>9. QED
  BY <1>1, <1>2, <1>3, <1>4, <1>5, <1>6, <1>7, <1>8 DEF RedeemRequest

LEMMA FailKeepsInv ==
  ASSUME Inv, NEW c \in Consumers, Fail(c)
  PROVE  Inv'
<1> USE DEF Inv, TypeOK
<1>1. CounterInv'
  BY AbortKeepsCounters, OffersAssumption DEF Fail, CounterInv
<1>2. req' \in [Consumers -> Req] /\ HoldsOwnVoucher'
  BY IdleTypes DEF Fail, Finish, HoldsOwnVoucher, IdleReq, PastRefusals, Issued
<1>3. QED
  BY <1>1, <1>2 DEF Fail, CounterInv

LEMMA EditKeepsInv ==
  ASSUME Inv, NEW e \in Editors, EditRequest(e)
  PROVE  Inv'
<1> USE DEF Inv, TypeOK
<1>0. UNCHANGED <<rows, job, now, claims, req, counted>>
  BY DEF EditRequest, EditStart, SyncToggle, EditVerify, EditPatch,
         EditSaveSelect, EditSaveUpdate
<1>1. /\ now' \in Times /\ claims' \in [Vouchers -> Claim \cup {NoClaim}]
      /\ req' \in [Consumers -> Req] /\ counted' \in [Vouchers -> Nat]
      /\ AnalyticsTypeOK' /\ JobRowStored' /\ HoldsOwnVoucher'
  BY <1>0 DEF AnalyticsTypeOK, JobRowStored, Stored, HoldsOwnVoucher, Issued
<1>2. IdleEdit \in Edit
  <2>1. PICK o \in OfferIds : TRUE
    BY OffersAssumption
  <2>2. QED
    BY <2>1, IdleEditType
<1>3. ASSUME NEW o \in OfferIds, NEW op \in {"toggleOn", "toggleOff", "delete", "update"},
             EditStart(e, op, o)
      PROVE  Inv'
  <2>1. [pc |-> "verify", op |-> op, offer |-> o, copy |-> offers[o], dirty |-> {}] \in Edit
    BY DEF Edit
  <2>2. QED
    BY <1>1, <1>3, <2>1 DEF EditStart
<1>4. ASSUME NEW o \in OfferIds, NEW op \in {"toggleOn", "toggleOff", "delete", "update"},
             SyncToggle(e, op, o)
      PROVE  Inv'
  <2> DEFINE copy == Toggled(offers[o], op)
  <2>1. copy \in OfferRow
    BY DEF OfferRow, Toggled
  <2>2. [pc |-> "saveSelect", op |-> op, offer |-> o, dirty |-> {}, copy |-> copy] \in Edit
    BY <1>4, <2>1 DEF Edit, SyncToggle
  <2>3. QED
    BY <1>1, <1>4, <2>2 DEF SyncToggle
<1>5. CASE EditVerify(e)
  <2>1. edit[e] \in Edit /\ edit[e].copy \in OfferRow
    BY DEF Edit
  <2>2. [edit[e] EXCEPT !.pc = "patch"] \in Edit
    BY <2>1 DEF Edit
  <2> DEFINE toggled == Toggled(edit[e].copy, edit[e].op)
  <2>3. toggled \in OfferRow
    BY <2>1 DEF OfferRow, Toggled
  <2>4. Deleted(edit[e].copy) \in OfferRow
    BY <2>1 DEF OfferRow, Deleted
  <2>5. ASSUME NEW copy \in OfferRow
        PROVE  [edit[e] EXCEPT !.pc = "saveSelect", !.copy = copy] \in Edit
    BY <2>1 DEF Edit
  <2>6. \/ edit' = [edit EXCEPT ![e] = IdleEdit]
        \/ edit' = [edit EXCEPT ![e] = [edit[e] EXCEPT !.pc = "patch"]]
        \/ edit' = [edit EXCEPT ![e] = [edit[e] EXCEPT !.pc = "saveSelect", !.copy = toggled]]
        \/ edit' = [edit EXCEPT ![e] =
                     [edit[e] EXCEPT !.pc = "saveSelect", !.copy = Deleted(edit[e].copy)]]
    BY <1>5 DEF EditVerify, FinishEdit
  <2> HIDE DEF toggled
  <2>7. edit' \in [Editors -> Edit]
    BY <1>2, <2>2, <2>3, <2>4, <2>5, <2>6
  <2>8. QED
    BY <1>1, <1>5, <2>7 DEF EditVerify
<1>6. CASE EditPatch(e)
  <2> DEFINE o == edit[e].offer
  <2>1. o \in OfferIds /\ offers[o] \in OfferRow
    BY DEF Edit
  <2>2. \/ \E m \in Caps : offers' = [offers EXCEPT ![o] = [offers[o] EXCEPT !.maxRedemptions = m]]
        \/ \E t \in Times : offers' = [offers EXCEPT ![o] = [offers[o] EXCEPT !.expiresAt = t]]
    BY <1>6 DEF EditPatch
  <2>3. ASSUME NEW m \in Caps PROVE [offers[o] EXCEPT !.maxRedemptions = m] \in OfferRow
    BY <2>1 DEF OfferRow
  <2>4. ASSUME NEW t \in Times PROVE [offers[o] EXCEPT !.expiresAt = t] \in OfferRow
    BY <2>1 DEF OfferRow
  <2>5. offers' \in [OfferIds -> OfferRow]
    BY <2>2, <2>3, <2>4
  <2>6. edit' \in [Editors -> Edit] /\ deleted' \subseteq OfferIds
    BY <1>2, <1>6 DEF EditPatch, FinishEdit
  <2>7. QED
    BY <1>1, <2>5, <2>6
<1>7. CASE EditSaveSelect(e)
  <2>1. edit[e] \in Edit /\ edit[e].offer \in OfferIds
    BY DEF Edit
  <2>2. ASSUME NEW d \in SUBSET OfferCols
        PROVE  [edit[e] EXCEPT !.pc = "saveUpdate", !.dirty = d] \in Edit
    BY <2>1 DEF Edit
  <2>3. \E d \in SUBSET OfferCols :
          edit' = [edit EXCEPT ![e] = IF d = {} THEN IdleEdit
                    ELSE [edit[e] EXCEPT !.pc = "saveUpdate", !.dirty = d]]
    <3> DEFINE copy == edit[e].copy
               row == offers[edit[e].offer]
               d == {col \in OfferCols :
                       \/ col = "isActive" /\ copy.isActive # row.isActive
                       \/ col = "expiresAt" /\ copy.expiresAt # row.expiresAt
                       \/ col = "redemptionCount" /\ copy.redemptionCount # row.redemptionCount
                       \/ col = "maxRedemptions" /\ copy.maxRedemptions # row.maxRedemptions}
    <3>1. d \in SUBSET OfferCols
      OBVIOUS
    <3>2. edit' = [edit EXCEPT ![e] = IF d = {} THEN IdleEdit
                    ELSE [edit[e] EXCEPT !.pc = "saveUpdate", !.dirty = d]]
      BY <1>7 DEF EditSaveSelect
    <3> HIDE DEF d
    <3>3. QED
      BY <3>1, <3>2
  <2>4. edit' \in [Editors -> Edit]
    BY <1>2, <2>2, <2>3
  <2>5. QED
    BY <1>1, <1>7, <2>1, <2>4 DEF EditSaveSelect
<1>8. CASE EditSaveUpdate(e)
  <2> DEFINE o == edit[e].offer
             row == offers[o]
             copy == edit[e].copy
             dirty == edit[e].dirty
             new == [isActive |-> IF "isActive" \in dirty THEN copy.isActive ELSE row.isActive,
                     expiresAt |-> IF "expiresAt" \in dirty THEN copy.expiresAt ELSE row.expiresAt,
                     redemptionCount |-> IF "redemptionCount" \in dirty
                              THEN copy.redemptionCount ELSE row.redemptionCount,
                     maxRedemptions |-> IF "maxRedemptions" \in dirty
                             THEN copy.maxRedemptions ELSE row.maxRedemptions]
  <2>1. o \in OfferIds /\ row \in OfferRow /\ copy \in OfferRow
    BY DEF Edit
  <2>2. new \in OfferRow
    BY <2>1 DEF OfferRow
  <2>3. offers' = [offers EXCEPT ![o] = new]
    BY <1>8 DEF EditSaveUpdate
  <2> HIDE DEF new
  <2>4. offers' \in [OfferIds -> OfferRow]
    BY <2>2, <2>3
  <2>5. edit' \in [Editors -> Edit] /\ deleted' \subseteq OfferIds
    BY <1>2, <1>8, <2>1 DEF EditSaveUpdate, FinishEdit
  <2>6. QED
    BY <1>1, <2>4, <2>5
<1>9. QED
  BY <1>3, <1>4, <1>5, <1>6, <1>7, <1>8 DEF EditRequest

LEMMA InvNext == Inv /\ [Next]_vars => Inv'
<1> SUFFICES ASSUME Inv, [Next]_vars PROVE Inv'
  OBVIOUS
<1>1. ASSUME NEW c \in Consumers, ClaimRequest(c) \/ RedeemRequest(c) \/ Fail(c)
      PROVE  Inv'
  BY <1>1, ClaimKeepsInv, RedeemKeepsInv, FailKeepsInv
<1>2. ASSUME NEW e \in Editors, EditRequest(e)
      PROVE  Inv'
  BY <1>2, EditKeepsInv
<1>3. CASE Tick
  <2>1. now' \in Times
    BY <1>3, OffersAssumption DEF Tick, Times, Inv, TypeOK
  <2>2. QED
    BY <1>3, <2>1 DEF Tick, Inv, TypeOK, AnalyticsTypeOK, JobRowStored, Stored,
                      HoldsOwnVoucher, Issued
<1>4. CASE UNCHANGED vars
  BY <1>4 DEF vars, offerVars, Inv, TypeOK, AnalyticsTypeOK, JobRowStored, Stored,
              HoldsOwnVoucher, Issued
<1>5. QED
  BY <1>1, <1>2, <1>3, <1>4 DEF Next

LEMMA InvAlways == Spec => []Inv
  BY InvInit, InvNext, PTL DEF Spec

(* Every table row and every request stays within its type, for any number   *)
(* of concurrent requests, failing or not: no counter becomes negative, no   *)
(* save writes a column of the wrong kind.                                   *)
THEOREM TypeCorrect == Spec => []TypeOK
<1>1. Inv => TypeOK
  BY DEF Inv
<1>2. QED
  BY <1>1, InvAlways, PTL

-----------------------------------------------------------------------------
(* Only the customer a voucher was issued to can make it redeemed.           *)

LEMMA StatusStep ==
  ASSUME Inv, [Next]_vars, NEW v \in Issued, claims'[v].status # claims[v].status
  PROVE  \E c \in Consumers : /\ req[c].pc = "saveUpdate"
                              /\ req[c].voucher = v
                              /\ req[c].user = claims[v].user
<1>1. claims' # claims
  OBVIOUS
<1>2. ASSUME NEW c \in Consumers, ClaimInsert(c)
      PROVE  FALSE
  <2>1. \E x \in Vouchers : x \notin Issued /\ \A y \in Vouchers : y # x => claims'[y] = claims[y]
    BY <1>1, <1>2 DEF ClaimInsert, CodeFree, Inv, TypeOK
  <2>2. QED
    BY <2>1 DEF Issued
<1>3. ASSUME NEW c \in Consumers, RedeemSaveUpdate(c)
      PROVE  req[c].pc = "saveUpdate" /\ req[c].voucher = v /\ req[c].user = claims[v].user
  <2>1. req[c].pc = "saveUpdate" /\ req[c].user = claims[req[c].voucher].user
    BY <1>3 DEF RedeemSaveUpdate, Inv, HoldsOwnVoucher, PastRefusals
  <2>2. \A y \in Vouchers : y # req[c].voucher => claims'[y] = claims[y]
    BY <1>3 DEF RedeemSaveUpdate, Inv, TypeOK
  <2>3. QED
    BY <2>1, <2>2 DEF Issued
<1>4. \/ \E c \in Consumers : ClaimInsert(c) \/ RedeemSaveUpdate(c)
      \/ claims' = claims
  BY DEF Next, vars, offerVars, ClaimRequest, RedeemRequest, EditRequest, Tick, Fail,
         ClaimStart, ClaimFindActive, RedeemStart, RedeemFindVoucher, RedeemReread,
         RedeemCount, RedeemAnalytics, RedeemAnalyticsSave, RedeemSaveSelect,
         EditStart, SyncToggle, EditVerify, EditPatch, EditSaveSelect, EditSaveUpdate
<1>5. QED
  BY <1>1, <1>2, <1>3, <1>4

(* A voucher becomes redeemed only by a request of its own customer, for any *)
(* number of requests between the userId check and the save.                 *)
THEOREM OwnerRedeems == Spec => OnlyOwnerRedeems
<1> DEFINE Step == \A v \in Issued :
             claims'[v].status # claims[v].status =>
               \E c \in Consumers : /\ req[c].pc = "saveUpdate"
                                    /\ req[c].voucher = v
                                    /\ req[c].user = claims[v].user
<1>1. Inv /\ [Next]_vars => Step
  BY StatusStep
<1>2. QED
  BY <1>1, InvAlways, PTL DEF Spec, OnlyOwnerRedeems

-----------------------------------------------------------------------------
(* The promised life of a voucher. A save that omits a column relies on the  *)
(* value another request may have given it since: PendingSave says the value *)
(* is still one a redeemed voucher may have.                                 *)

Values == {Saving[o] : o \in OfferIds}

PendingSave ==
  \A c \in Consumers :
    /\ req[c].pc \in PastRefusals \cup {"findVoucher"} => req[c].savingValue \in Values
    /\ req[c].pc = "saveUpdate" =>
         /\ "status" \in req[c].dirty \/ claims[req[c].voucher].status = "redeemed"
         /\ "savingValue" \in req[c].dirty \/ claims[req[c].voucher].savingValue \in Values

(* A request keeps PendingSave if its own new state does and the rows only   *)
(* change as a redemption changes them.                                      *)
LEMMA PendingFrame ==
  ASSUME Inv, PendingSave, NEW c \in Consumers, NEW r \in Req,
         req' = [req EXCEPT ![c] = r],
         r.pc \in PastRefusals \cup {"findVoucher"} => r.savingValue \in Values,
         r.pc # "saveUpdate",
         \A v \in Issued : \/ claims'[v] = claims[v]
                           \/ /\ claims'[v].status = "redeemed"
                              /\ claims'[v].savingValue \in Values
  PROVE  PendingSave'
<1>1. ASSUME NEW d \in Consumers, d # c
      PROVE  /\ req'[d] = req[d]
             /\ req[d].pc = "saveUpdate" => req[d].voucher \in Issued
  BY <1>1 DEF Inv, TypeOK, HoldsOwnVoucher, PastRefusals
<1>2. req'[c] = r
  BY DEF Inv, TypeOK
<1>3. QED
  BY <1>1, <1>2 DEF PendingSave, Values

LEMMA PendingNext == Inv /\ PendingSave /\ [Next]_vars => PendingSave'
<1> SUFFICES ASSUME Inv, PendingSave, [Next]_vars PROVE PendingSave'
  OBVIOUS
<1>1. ASSUME NEW c \in Consumers, ClaimRequest(c) \/ RedeemRequest(c) \/ Fail(c)
      PROVE  PendingSave'
  <2> DEFINE At(pc) == [req[c] EXCEPT !.pc = pc]
  <2>1. ASSUME NEW pc \in PastRefusals \cup {"insertClaim"}, pc # "saveUpdate",
               req[c].pc \in PastRefusals \cup {"findVoucher"} \/ pc = "insertClaim",
               Goto(c, pc), claims' = claims
        PROVE  PendingSave'
    <3>1. At(pc) \in Req /\ At(pc).savingValue = req[c].savingValue /\ At(pc).pc = pc
      BY DEF Inv, TypeOK, Req, PastRefusals
    <3>2. req' = [req EXCEPT ![c] = At(pc)]
      BY <2>1 DEF Goto
    <3>3. pc = "insertClaim" => pc \notin PastRefusals \cup {"findVoucher"}
      BY DEF PastRefusals
    <3> HIDE DEF At
    <3>4. QED
      BY <2>1, <3>1, <3>2, <3>3, PendingFrame DEF PendingSave
  <2>2. ASSUME Finish(c),
               \A v \in Issued : \/ claims'[v] = claims[v]
                                 \/ /\ claims'[v].status = "redeemed"
                                    /\ claims'[v].savingValue \in Values
        PROVE  PendingSave'
    <3>1. IdleReq \in Req /\ IdleReq.pc \notin PastRefusals \cup {"findVoucher"}
            /\ IdleReq.pc # "saveUpdate"
      BY IdleTypes DEF IdleReq, PastRefusals
    <3>2. QED
      BY <2>2, <3>1, PendingFrame DEF Finish
  <2>3. CASE \E o \in OfferIds, u \in Users : ClaimStart(c, o, u)
    <3>1. PICK o \in OfferIds, u \in Users : ClaimStart(c, o, u)
      BY <2>3
    <3> DEFINE r == [IdleReq EXCEPT !.pc = "findActiveClaim", !.offer = o, !.user = u]
    <3>2. r \in Req /\ r.pc = "findActiveClaim"
      BY IdleTypes DEF Req
    <3>3. req' = [req EXCEPT ![c] = r] /\ claims' = claims
      BY <3>1 DEF ClaimStart
    <3> HIDE DEF r
    <3>4. QED
      BY <3>2, <3>3, PendingFrame DEF PastRefusals
  <2>4. CASE \E o \in OfferIds, u \in Users, v \in Vouchers : RedeemStart(c, o, u, v)
    <3>1. PICK o \in OfferIds, u \in Users, v \in Vouchers : RedeemStart(c, o, u, v)
      BY <2>4
    <3> DEFINE r == [IdleReq EXCEPT !.pc = "findVoucher", !.user = u, !.voucher = v,
                                    !.savingValue = Saving[o]]
    <3>2. r \in Req /\ r.pc = "findVoucher" /\ r.savingValue \in Values
      BY IdleTypes, OffersAssumption DEF Req, Values
    <3>3. req' = [req EXCEPT ![c] = r] /\ claims' = claims
      BY <3>1 DEF RedeemStart
    <3> HIDE DEF r
    <3>4. QED
      BY <3>2, <3>3, PendingFrame
  <2>5. CASE ClaimFindActive(c)
    BY <2>1, <2>2, <2>5 DEF ClaimFindActive
  <2>6. CASE ClaimInsert(c)
    <3>1. \A v \in Issued : claims'[v] = claims[v]
      BY <2>6 DEF ClaimInsert, CodeFree, Issued, Inv, TypeOK
    <3>2. QED
      BY <2>2, <2>6, <3>1 DEF ClaimInsert
  <2>7. CASE RedeemFindVoucher(c) \/ RedeemReread(c) \/ RedeemCount(c) \/ RedeemAnalytics(c)
    BY <2>1, <2>2, <2>7 DEF RedeemFindVoucher, RedeemReread, RedeemCount, RedeemAnalytics,
                            FirstUpdate, PastRefusals
  <2>8. CASE RedeemAnalyticsSave(c)
    BY <2>1, <2>8 DEF RedeemAnalyticsSave, PastRefusals, PendingSave
  <2>9. CASE RedeemSaveSelect(c)
    <3> DEFINE v == req[c].voucher
               dirty == RedeemDirty(claims[v], req[c].savingValue)
    <3>1. req[c].savingValue \in Values
      BY <2>9 DEF RedeemSaveSelect, PendingSave, PastRefusals
    <3>2. /\ "status" \in dirty \/ claims[v].status = "redeemed"
          /\ "savingValue" \in dirty \/ claims[v].savingValue \in Values
      BY <3>1 DEF RedeemDirty, ClaimCols
    <3> HIDE DEF dirty
    <3>3. req' = [req EXCEPT ![c] = [req[c] EXCEPT !.pc = "saveUpdate", !.dirty = dirty]]
      BY <2>9 DEF RedeemSaveSelect, dirty
    <3>4. /\ req'[c].savingValue = req[c].savingValue /\ req'[c].voucher = v
          /\ req'[c].dirty = dirty
          /\ \A d \in Consumers : d # c => req'[d] = req[d]
      BY <3>3 DEF Inv, TypeOK, Req
    <3>5. claims' = claims
      BY <2>9 DEF RedeemSaveSelect
    <3>6. QED
      BY <3>1, <3>2, <3>4, <3>5 DEF PendingSave, Values
  <2>10. CASE RedeemSaveUpdate(c)
    <3> DEFINE v == req[c].voucher
    <3>1. v \in Issued /\ v \in Vouchers
      BY <2>10 DEF RedeemSaveUpdate, Inv, HoldsOwnVoucher, PastRefusals, Issued
    <3>2. claims'[v].status = "redeemed" /\ claims'[v].savingValue \in Values
      BY <2>10, <3>1 DEF RedeemSaveUpdate, PendingSave, PastRefusals, Inv, TypeOK
    <3>3. \A x \in Issued : x # v => claims'[x] = claims[x]
      BY <2>10 DEF RedeemSaveUpdate, Inv, TypeOK, Issued
    <3>4. QED
      BY <2>2, <2>10, <3>2, <3>3 DEF RedeemSaveUpdate
  <2>11. CASE Fail(c)
    BY <2>2, <2>11 DEF Fail
  <2>12. QED
    BY <1>1, <2>3, <2>4, <2>5, <2>6, <2>7, <2>8, <2>9, <2>10, <2>11
       DEF ClaimRequest, RedeemRequest
<1>2. CASE UNCHANGED <<req, claims>>
  BY <1>2 DEF PendingSave, Values
<1>3. QED
  BY <1>1, <1>2 DEF Next, vars, offerVars, EditRequest, Tick, EditStart, SyncToggle,
                    EditVerify, EditPatch, EditSaveSelect, EditSaveUpdate

LEMMA PendingInit == Init => PendingSave
  BY DEF Init, PendingSave, IdleReq, PastRefusals

LEMMA LifecycleStep ==
  Inv /\ PendingSave /\ [Next]_vars => [Lifecycle!AbstractNext]_claims
<1> SUFFICES ASSUME Inv, PendingSave, [Next]_vars, claims' # claims
             PROVE  Lifecycle!AbstractNext
  OBVIOUS
<1>1. ASSUME NEW c \in Consumers, ClaimInsert(c)
      PROVE  Lifecycle!AbstractNext
  <2>1. req[c].offer \in OfferIds /\ req[c].user \in Users
    BY DEF Inv, TypeOK, Req
  <2>2. PICK v \in Vouchers :
          /\ claims[v] = NoClaim
          /\ claims' = [claims EXCEPT ![v] =
               [offer |-> req[c].offer, user |-> req[c].user,
                status |-> "active", savingValue |-> 0]]
    BY <1>1 DEF ClaimInsert, CodeFree, Issued
  <2>3. Lifecycle!Issue(v, req[c].offer, req[c].user)
    BY <2>2 DEF Lifecycle!Issue
  <2>4. QED
    BY <2>1, <2>3 DEF Lifecycle!AbstractNext
<1>2. ASSUME NEW c \in Consumers, RedeemSaveUpdate(c)
      PROVE  Lifecycle!AbstractNext
  <2> DEFINE v == req[c].voucher
             row == claims[v]
             dirty == req[c].dirty
             status == IF "status" \in dirty THEN "redeemed" ELSE row.status
             value == IF "savingValue" \in dirty THEN req[c].savingValue ELSE row.savingValue
  <2>1. v \in Vouchers /\ row # NoClaim
    BY <1>2 DEF RedeemSaveUpdate, Inv, HoldsOwnVoucher, PastRefusals, Issued
  <2>2. status = "redeemed" /\ value \in Values
    BY <1>2 DEF RedeemSaveUpdate, PendingSave, PastRefusals
  <2>3. claims' = [claims EXCEPT ![v] =
          [offer |-> row.offer, user |-> row.user, status |-> status, savingValue |-> value]]
    BY <1>2 DEF RedeemSaveUpdate
  <2> HIDE DEF status, value
  <2>4. Lifecycle!Redeem(v, value)
    BY <2>1, <2>2, <2>3 DEF Lifecycle!Redeem
  <2>5. QED
    BY <2>1, <2>2, <2>4 DEF Lifecycle!AbstractNext, Values
<1>3. \/ \E c \in Consumers : ClaimInsert(c) \/ RedeemSaveUpdate(c)
      \/ claims' = claims
  BY DEF Next, vars, offerVars, ClaimRequest, RedeemRequest, EditRequest, Tick, Fail,
         ClaimStart, ClaimFindActive, RedeemStart, RedeemFindVoucher, RedeemReread,
         RedeemCount, RedeemAnalytics, RedeemAnalyticsSave, RedeemSaveSelect,
         EditStart, SyncToggle, EditVerify, EditPatch, EditSaveSelect, EditSaveUpdate
<1>4. QED
  BY <1>1, <1>2, <1>3

(* Whatever the requests do, the rows of table redemptions behave as module  *)
(* Voucher promises: one owner and one offer for ever, worth nothing while   *)
(* active, redeemed for good.                                                *)
THEOREM VouchersKeepPromise == Spec => VoucherLifecycle
<1>1. Init => Lifecycle!AbstractInit
  BY DEF Init, Lifecycle!AbstractInit
<1>2. QED
  BY <1>1, InvInit, InvNext, PendingInit, PendingNext, LifecycleStep, PTL
     DEF Spec, VoucherLifecycle, Lifecycle!AbstractSpec

-----------------------------------------------------------------------------
(* No redeemed voucher is missing from its offer's count, as long as no      *)
(* business request saves an offer. Counting the vouchers that are redeemed  *)
(* would not be inductive: between increment() and save() a voucher has been *)
(* counted and is not yet redeemed.                                          *)

PastCount == {"analytics", "analyticsSave", "saveSelect", "saveUpdate"}
Settled(o) ==
  {v \in Issued : /\ claims[v].offer = o
                  /\ \/ claims[v].status = "redeemed"
                     \/ \E c \in Consumers : req[c].pc \in PastCount /\ req[c].voucher = v}
CountInv == \A o \in OfferIds : offers[o].redemptionCount >= Cardinality(Settled(o))

LEMMA SettledFinite ==
  /\ \A o \in OfferIds : IsFiniteSet(Settled(o)) /\ Cardinality(Settled(o)) \in Nat
  /\ \A o \in OfferIds : IsFiniteSet(Redeemed(o)) /\ Cardinality(Redeemed(o)) \in Nat
<1>1. \A o \in OfferIds : Settled(o) \in SUBSET Vouchers /\ Redeemed(o) \in SUBSET Vouchers
  BY DEF Settled, Redeemed, Issued
<1>2. \A T \in SUBSET Vouchers : IsFiniteSet(T)
  BY FS_Subset, OffersAssumption
<1>3. QED
  BY <1>1, <1>2, FS_CardinalityType

(* A step that counts nothing must not settle anything.                      *)
LEMMA CountFrame ==
  ASSUME CountInv, Inv, offers' = offers,
         \A o \in OfferIds : Settled(o)' \in SUBSET Settled(o)
  PROVE  CountInv'
<1> SUFFICES ASSUME NEW o \in OfferIds
             PROVE  offers'[o].redemptionCount >= Cardinality(Settled(o)')
  BY DEF CountInv
<1>1. IsFiniteSet(Settled(o)) /\ Cardinality(Settled(o)) \in Nat
  BY SettledFinite
<1>2. Cardinality(Settled(o)') <= Cardinality(Settled(o)) /\ IsFiniteSet(Settled(o)')
  BY <1>1, FS_Subset
<1>3. Cardinality(Settled(o)') \in Nat
  BY <1>2, FS_CardinalityType
<1>4. offers[o].redemptionCount \in Nat
  BY DEF Inv, TypeOK, OfferRow
<1>5. offers[o].redemptionCount >= Cardinality(Settled(o))
  BY DEF CountInv
<1>6. QED
  BY <1>1, <1>2, <1>3, <1>4, <1>5

(* Requests that move without entering PastCount settle nothing.             *)
LEMMA SettledFrame ==
  ASSUME Inv,
         \A v \in Issued' : \/ v \in Issued /\ claims'[v] = claims[v]
                            \/ v \notin Issued /\ claims'[v].status = "active",
         \A c \in Consumers : req'[c].pc \in PastCount =>
                                req[c].pc \in PastCount /\ req'[c].voucher = req[c].voucher
  PROVE  \A o \in OfferIds : Settled(o)' \in SUBSET Settled(o)
<1> SUFFICES ASSUME NEW o \in OfferIds, NEW v \in Settled(o)' PROVE v \in Settled(o)
  OBVIOUS
<1>1. v \in Issued' /\ claims'[v].offer = o
  BY DEF Settled
<1>2. CASE claims'[v].status = "redeemed"
  BY <1>1, <1>2 DEF Settled
<1>3. ASSUME NEW c \in Consumers, req'[c].pc \in PastCount, req'[c].voucher = v
      PROVE  v \in Settled(o)
  <2>1. req[c].pc \in PastCount /\ req[c].voucher = v
    BY <1>3
  <2>2. v \in Issued
    BY <2>1 DEF Inv, HoldsOwnVoucher, PastCount, PastRefusals
  <2>3. QED
    BY <1>1, <2>1, <2>2 DEF Settled
<1>4. QED
  BY <1>2, <1>3 DEF Settled

LEMMA CountNext ==
  ASSUME Editors = {}
  PROVE  Inv /\ PendingSave /\ CountInv /\ [Next]_vars => CountInv'
<1> SUFFICES ASSUME Inv, PendingSave, CountInv, [Next]_vars PROVE CountInv'
  OBVIOUS
<1>1. ASSUME NEW c \in Consumers, RedeemCount(c)
      PROVE  CountInv'
  <2> DEFINE v == req[c].voucher
             p == claims[v].offer
  <2> SUFFICES ASSUME NEW o \in OfferIds
               PROVE  offers'[o].redemptionCount >= Cardinality(Settled(o)')
    BY DEF CountInv
  <2>1. v \in Issued /\ p \in OfferIds /\ claims' = claims /\ Issued' = Issued
    BY <1>1 DEF RedeemCount, Inv, TypeOK, HoldsOwnVoucher, PastRefusals, Issued, Claim
  <2>2. \A d \in Consumers : d # c => req'[d] = req[d]
    BY <1>1 DEF RedeemCount, Goto, Inv, TypeOK
  <2>3. req'[c].voucher = v
    BY <1>1 DEF RedeemCount, Goto, Inv, TypeOK, Req
  <2>4. Settled(o)' \in SUBSET (Settled(o) \cup {v})
    BY <2>1, <2>2, <2>3 DEF Settled
  <2>5. o # p => Settled(o)' \in SUBSET Settled(o)
    BY <2>1, <2>4 DEF Settled
  <2>6. offers[o].redemptionCount \in Nat /\ Cardinality(Settled(o)) \in Nat
          /\ IsFiniteSet(Settled(o)) /\ offers[o].redemptionCount >= Cardinality(Settled(o))
    BY SettledFinite DEF Inv, TypeOK, OfferRow, CountInv
  <2>7. CASE o # p
    <3>1. offers'[o] = offers[o]
      BY <1>1, <2>7 DEF RedeemCount, Inv, TypeOK
    <3>2. Cardinality(Settled(o)') <= Cardinality(Settled(o)) /\ IsFiniteSet(Settled(o)')
      BY <2>5, <2>6, <2>7, FS_Subset
    <3>3. Cardinality(Settled(o)') \in Nat
      BY <3>2, FS_CardinalityType
    <3>4. QED
      BY <2>6, <3>1, <3>2, <3>3
  <2>8. CASE o = p
    <3>1. offers'[o].redemptionCount = offers[o].redemptionCount + 1
      BY <1>1, <2>8 DEF RedeemCount, CountedUp, Inv, TypeOK, OfferRow
    <3>2. /\ IsFiniteSet(Settled(o) \cup {v})
          /\ Cardinality(Settled(o) \cup {v}) <= Cardinality(Settled(o)) + 1
          /\ Cardinality(Settled(o) \cup {v}) \in Nat
      <4> DEFINE S == Settled(o)
      <4>1. IsFiniteSet(S) /\ Cardinality(S) \in Nat
        BY <2>6
      <4> HIDE DEF S, v
      <4>2. IsFiniteSet(S \cup {v})
              /\ Cardinality(S \cup {v}) = IF v \in S THEN Cardinality(S) ELSE Cardinality(S) + 1
        BY <4>1, FS_AddElement
      <4>3. Cardinality(S \cup {v}) <= Cardinality(S) + 1 /\ Cardinality(S \cup {v}) \in Nat
        BY <4>1, <4>2
      <4>4. QED
        BY <4>2, <4>3 DEF S
    <3>3. /\ Cardinality(Settled(o)') <= Cardinality(Settled(o) \cup {v})
          /\ IsFiniteSet(Settled(o)')
      BY <2>4, <3>2, FS_Subset
    <3>4. Cardinality(Settled(o)') \in Nat
      BY <3>3, FS_CardinalityType
    <3>5. QED
      BY <2>6, <3>1, <3>2, <3>3, <3>4
  <2>9. QED
    BY <2>7, <2>8
<1>2. ASSUME NEW c \in Consumers, RedeemSaveUpdate(c)
      PROVE  CountInv'
  <2> DEFINE v == req[c].voucher
  <2>1. v \in Issued /\ claims[v] \in Claim /\ req[c].pc \in PastCount
    BY <1>2 DEF RedeemSaveUpdate, Inv, TypeOK, HoldsOwnVoucher, PastRefusals, Issued, PastCount
  <2>2. Issued' \in SUBSET Issued
    BY <1>2, <2>1 DEF RedeemSaveUpdate, Inv, TypeOK, Issued
  <2>3. \A x \in Issued : x # v => claims'[x] = claims[x]
    BY <1>2 DEF RedeemSaveUpdate, Inv, TypeOK, Issued
  <2>4. claims'[v].offer = claims[v].offer
    BY <1>2, <2>1 DEF RedeemSaveUpdate, Inv, TypeOK, Issued
  <2>5. \A d \in Consumers : req'[d].pc \in PastCount => req'[d] = req[d]
    BY <1>2 DEF RedeemSaveUpdate, Finish, IdleReq, PastCount, Inv, TypeOK
  <2>6. \A o \in OfferIds : Settled(o)' \in SUBSET Settled(o)
    BY <2>1, <2>2, <2>3, <2>4, <2>5 DEF Settled
  <2>7. QED
    BY <1>2, <2>6, CountFrame DEF RedeemSaveUpdate
<1>3. ASSUME NEW c \in Consumers, NEW r \in Req, req' = [req EXCEPT ![c] = r],
             r.pc \in PastCount => req[c].pc \in PastCount /\ r.voucher = req[c].voucher,
             offers' = offers,
             \A v \in Issued' : \/ v \in Issued /\ claims'[v] = claims[v]
                                \/ v \notin Issued /\ claims'[v].status = "active"
      PROVE  CountInv'
  <2>1. \A d \in Consumers : req'[d].pc \in PastCount =>
                               req[d].pc \in PastCount /\ req'[d].voucher = req[d].voucher
    BY <1>3 DEF Inv, TypeOK
  <2>2. QED
    BY <1>3, <2>1, SettledFrame, CountFrame
<1>4. ASSUME NEW c \in Consumers, claims' = claims, offers' = offers,
             \/ Finish(c)
             \/ \E pc : Goto(c, pc) /\ (pc \in PastCount => req[c].pc \in PastCount)
                                    /\ [req[c] EXCEPT !.pc = pc] \in Req
      PROVE  CountInv'
  <2>1. CASE Finish(c)
    BY <1>3, <1>4, <2>1, IdleTypes DEF Finish, IdleReq, PastCount, Issued
  <2>2. ASSUME NEW pc, Goto(c, pc), pc \in PastCount => req[c].pc \in PastCount,
               [req[c] EXCEPT !.pc = pc] \in Req
        PROVE  CountInv'
    <3> DEFINE r == [req[c] EXCEPT !.pc = pc]
    <3>1. r.pc = pc /\ r.voucher = req[c].voucher
      BY DEF Inv, TypeOK, Req
    <3>2. req' = [req EXCEPT ![c] = r] /\ r \in Req
      BY <2>2 DEF Goto
    <3> HIDE DEF r
    <3>3. QED
      BY <1>3, <1>4, <2>2, <3>1, <3>2 DEF Issued
  <2>3. QED
    BY <1>4, <2>1, <2>2
<1>5. ASSUME NEW c \in Consumers, ClaimRequest(c)
      PROVE  CountInv'
  <2>1. CASE \E o \in OfferIds, u \in Users : ClaimStart(c, o, u)
    <3>1. PICK o \in OfferIds, u \in Users : ClaimStart(c, o, u)
      BY <2>1
    <3> DEFINE r == [IdleReq EXCEPT !.pc = "findActiveClaim", !.offer = o, !.user = u]
    <3>2. r \in Req /\ r.pc \notin PastCount
      BY IdleTypes DEF Req, PastCount
    <3>3. req' = [req EXCEPT ![c] = r] /\ claims' = claims /\ offers' = offers
      BY <3>1 DEF ClaimStart
    <3> HIDE DEF r
    <3>4. QED
      BY <1>3, <3>2, <3>3 DEF Issued
  <2>2. CASE ClaimFindActive(c)
    <3>1. [req[c] EXCEPT !.pc = "insertClaim"] \in Req /\ "insertClaim" \notin PastCount
      BY DEF Inv, TypeOK, Req, PastCount
    <3>2. QED
      BY <1>4, <2>2, <3>1 DEF ClaimFindActive
  <2>3. CASE ClaimInsert(c)
    <3> DEFINE new == [offer |-> req[c].offer, user |-> req[c].user,
                       status |-> "active", savingValue |-> 0]
    <3>1. PICK v \in Vouchers :
            claims' = IF CodeFree(v) THEN [claims EXCEPT ![v] = new] ELSE claims
      BY <2>3 DEF ClaimInsert
    <3>2. new.status = "active"
      OBVIOUS
    <3> HIDE DEF new
    <3>3. \A x \in Issued' : \/ x \in Issued /\ claims'[x] = claims[x]
                             \/ x \notin Issued /\ claims'[x].status = "active"
      BY <3>1, <3>2 DEF CodeFree, Issued, Inv, TypeOK
    <3>4. req' = [req EXCEPT ![c] = IdleReq] /\ offers' = offers
      BY <2>3 DEF ClaimInsert, Finish
    <3>5. IdleReq \in Req /\ IdleReq.pc \notin PastCount
      BY IdleTypes DEF IdleReq, PastCount
    <3>6. QED
      BY <1>3, <3>3, <3>4, <3>5
  <2>4. QED
    BY <1>5, <2>1, <2>2, <2>3 DEF ClaimRequest
<1>6. ASSUME NEW c \in Consumers,
             \/ \E o \in OfferIds, u \in Users, v \in Vouchers : RedeemStart(c, o, u, v)
             \/ RedeemFindVoucher(c) \/ RedeemReread(c) \/ RedeemAnalytics(c)
             \/ RedeemAnalyticsSave(c) \/ RedeemSaveSelect(c) \/ Fail(c)
      PROVE  CountInv'
  <2>0. \A pc \in PastRefusals : [req[c] EXCEPT !.pc = pc] \in Req
    BY DEF Inv, TypeOK, Req, PastRefusals
  <2>1. CASE \E o \in OfferIds, u \in Users, v \in Vouchers : RedeemStart(c, o, u, v)
    <3>1. PICK o \in OfferIds, u \in Users, v \in Vouchers : RedeemStart(c, o, u, v)
      BY <2>1
    <3> DEFINE r == [IdleReq EXCEPT !.pc = "findVoucher", !.user = u, !.voucher = v,
                                    !.savingValue = Saving[o]]
    <3>2. r \in Req /\ r.pc \notin PastCount
      BY IdleTypes, OffersAssumption DEF Req, PastCount
    <3>3. req' = [req EXCEPT ![c] = r] /\ claims' = claims /\ offers' = offers
      BY <3>1 DEF RedeemStart
    <3> HIDE DEF r
    <3>4. QED
      BY <1>3, <3>2, <3>3 DEF Issued
  <2>2. CASE RedeemFindVoucher(c) \/ RedeemReread(c)
    BY <1>4, <2>0, <2>2 DEF RedeemFindVoucher, RedeemReread, FirstUpdate, PastCount, PastRefusals
  <2>3. CASE RedeemAnalytics(c)
    BY <1>4, <2>0, <2>3 DEF RedeemAnalytics, PastCount, PastRefusals
  <2>4. CASE RedeemAnalyticsSave(c)
    <3>1. CASE UNCHANGED req
      BY <2>4, <3>1, SettledFrame, CountFrame DEF RedeemAnalyticsSave, Issued
    <3>2. CASE Goto(c, "saveSelect")
      BY <1>4, <2>0, <2>4, <3>2 DEF RedeemAnalyticsSave, PastCount, PastRefusals
    <3>3. QED
      BY <2>4, <3>1, <3>2 DEF RedeemAnalyticsSave
  <2>5. CASE RedeemSaveSelect(c)
    <3> DEFINE dirty == RedeemDirty(claims[req[c].voucher], req[c].savingValue)
               r == [req[c] EXCEPT !.pc = "saveUpdate", !.dirty = dirty]
    <3>1. dirty \subseteq ClaimCols
      BY DEF RedeemDirty
    <3>2. req' = [req EXCEPT ![c] = r] /\ claims' = claims /\ offers' = offers
            /\ req[c].pc \in PastCount
      BY <2>5 DEF RedeemSaveSelect, PastCount
    <3> HIDE DEF dirty
    <3>3. r \in Req /\ r.voucher = req[c].voucher
      BY <3>1 DEF Inv, TypeOK, Req
    <3> HIDE DEF r
    <3>4. QED
      BY <1>3, <3>2, <3>3 DEF Issued
  <2>6. CASE Fail(c)
    BY <1>4, <2>6 DEF Fail
  <2>7. QED
    BY <1>6, <2>1, <2>2, <2>3, <2>4, <2>5, <2>6
<1>7. CASE Tick \/ UNCHANGED vars
  <2>1. UNCHANGED <<req, claims, offers>>
    BY <1>7 DEF Tick, vars, offerVars
  <2>2. QED
    BY <2>1, SettledFrame, CountFrame DEF Issued
<1>8. QED
  BY <1>1, <1>2, <1>5, <1>6, <1>7 DEF Next, RedeemRequest

(* Every voucher recorded as redeemed is in its offer's redemptionCount, for *)
(* any number of concurrent and failing customer requests, while no business *)
(* request edits an offer.                                                   *)
THEOREM CountIsComplete ==
  ASSUME Editors = {}
  PROVE  Spec => []CountCoversRedeemed
<1>1. Init => CountInv
  <2> SUFFICES ASSUME Init, NEW o \in OfferIds
               PROVE  offers[o].redemptionCount >= Cardinality(Settled(o))
    BY DEF CountInv
  <2>1. Settled(o) = {}
    BY DEF Init, Settled, Issued
  <2>2. offers[o].redemptionCount = 0
    BY DEF Init, NewOffers
  <2>3. QED
    BY <2>1, <2>2, FS_EmptySet
<1>2. Inv /\ CountInv => CountCoversRedeemed
  <2> SUFFICES ASSUME Inv, CountInv, NEW o \in OfferIds
               PROVE  offers[o].redemptionCount >= Cardinality(Redeemed(o))
    BY DEF CountCoversRedeemed
  <2>1. Redeemed(o) \in SUBSET Settled(o)
    BY DEF Redeemed, Settled
  <2>2. Cardinality(Redeemed(o)) <= Cardinality(Settled(o))
    BY <2>1, SettledFinite, FS_Subset
  <2>3. offers[o].redemptionCount \in Nat /\ offers[o].redemptionCount >= Cardinality(Settled(o))
    BY DEF CountInv, Inv, TypeOK, OfferRow
  <2>4. QED
    BY <2>2, <2>3, SettledFinite
<1>3. QED
  BY <1>1, <1>2, InvInit, InvNext, PendingInit, PendingNext, CountNext, PTL DEF Spec

-----------------------------------------------------------------------------
(* How many active vouchers one customer can come to hold for one offer: as  *)
(* many as the requests that were between the check and the INSERT.          *)

LEMMA SubsetSize ==
  ASSUME NEW S, IsFiniteSet(S), NEW T \in SUBSET S
  PROVE  /\ IsFiniteSet(T) /\ Cardinality(T) \in Nat
         /\ Cardinality(S) \in Nat /\ Cardinality(T) <= Cardinality(S)
  BY FS_Subset, FS_CardinalityType

(* Two disjoint parts of a finite set are together no larger than it.        *)
LEMMA DisjointSize ==
  ASSUME NEW S, IsFiniteSet(S), NEW A \in SUBSET S, NEW B \in SUBSET S, A \cap B = {}
  PROVE  Cardinality(A) + Cardinality(B) <= Cardinality(S)
<1>1. IsFiniteSet(A) /\ IsFiniteSet(B) /\ Cardinality(A) \in Nat /\ Cardinality(B) \in Nat
  BY SubsetSize
<1>2. Cardinality(A \cup B) = Cardinality(A) + Cardinality(B) - Cardinality(A \cap B)
  BY <1>1, FS_Union
<1>3. Cardinality(A \cap B) = 0
  BY FS_EmptySet
<1>4. Cardinality(A \cup B) <= Cardinality(S) /\ Cardinality(A \cup B) \in Nat
        /\ Cardinality(S) \in Nat
  <2>1. A \cup B \in SUBSET S
    OBVIOUS
  <2>2. QED
    BY <2>1, SubsetSize
<1>5. QED
  BY <1>1, <1>2, <1>3, <1>4

Inserting(o, u) ==
  {c \in Consumers : req[c].pc = "insertClaim" /\ req[c].offer = o /\ req[c].user = u}
IssueBound(o, u) ==
  Cardinality(ActiveClaims(o, u)) + Cardinality(Inserting(o, u)) <= Cardinality(Consumers)
IssueInv == \A o \in OfferIds, u \in Users : IssueBound(o, u)

LEMMA IssueSizes ==
  ASSUME NEW o, NEW u
  PROVE  /\ IsFiniteSet(ActiveClaims(o, u)) /\ Cardinality(ActiveClaims(o, u)) \in Nat
         /\ IsFiniteSet(Inserting(o, u)) /\ Cardinality(Inserting(o, u)) \in Nat
         /\ Cardinality(Inserting(o, u)) <= Cardinality(Consumers)
         /\ Cardinality(Consumers) \in Nat
<1>1. ActiveClaims(o, u) \in SUBSET Vouchers /\ Inserting(o, u) \in SUBSET Consumers
  BY DEF ActiveClaims, Issued, Inserting
<1>2. QED
  BY <1>1, SubsetSize, OffersAssumption

(* A step under which neither set grows keeps the bound.                     *)
LEMMA IssueFrame ==
  ASSUME NEW o, NEW u, IssueBound(o, u),
         ActiveClaims(o, u)' \in SUBSET ActiveClaims(o, u),
         Inserting(o, u)' \in SUBSET Inserting(o, u)
  PROVE  IssueBound(o, u)'
<1>1. /\ Cardinality(ActiveClaims(o, u)') <= Cardinality(ActiveClaims(o, u))
      /\ Cardinality(ActiveClaims(o, u)') \in Nat
  BY IssueSizes, SubsetSize
<1>2. /\ Cardinality(Inserting(o, u)') <= Cardinality(Inserting(o, u))
      /\ Cardinality(Inserting(o, u)') \in Nat
  BY IssueSizes, SubsetSize
<1>3. QED
  BY <1>1, <1>2, IssueSizes DEF IssueBound

LEMMA IssueNext == Inv /\ IssueInv /\ [Next]_vars => IssueInv'
<1> SUFFICES ASSUME Inv, IssueInv, [Next]_vars, NEW o \in OfferIds, NEW u \in Users
             PROVE  IssueBound(o, u)'
  BY DEF IssueInv
<1>0. IssueBound(o, u)
  BY DEF IssueInv
<1>a. ASSUME \A d \in Consumers : req'[d].pc = "insertClaim" => req'[d] = req[d],
             \A v \in Issued' : \/ v \in Issued /\ claims'[v] = claims[v]
                                \/ claims'[v].status = "redeemed"
      PROVE  IssueBound(o, u)'
  <2>1. Inserting(o, u)' \in SUBSET Inserting(o, u)
    BY <1>a DEF Inserting
  <2>2. ActiveClaims(o, u)' \in SUBSET ActiveClaims(o, u)
    BY <1>a DEF ActiveClaims
  <2>3. QED
    BY <1>0, <2>1, <2>2, IssueFrame
<1>b. ASSUME UNCHANGED <<req, claims>> PROVE IssueBound(o, u)'
  BY <1>a, <1>b DEF Issued
<1>1. ASSUME NEW c \in Consumers, ClaimFindActive(c)
      PROVE  IssueBound(o, u)'
  <2>1. claims' = claims /\ req[c].pc = "findActiveClaim"
    BY <1>1 DEF ClaimFindActive
  <2>2. CASE Finish(c)
    <3>1. \A d \in Consumers : req'[d].pc = "insertClaim" => req'[d] = req[d]
      BY <2>2 DEF Finish, IdleReq, Inv, TypeOK
    <3>2. QED
      BY <1>a, <2>1, <3>1 DEF Issued
  <2>3. CASE Goto(c, "insertClaim") /\ ~HasActiveClaim(req[c].offer, req[c].user)
    <3>1. /\ \A d \in Consumers : d # c => req'[d] = req[d]
          /\ req'[c].offer = req[c].offer /\ req'[c].user = req[c].user
      BY <2>3 DEF Goto, Inv, TypeOK, Req
    <3>2. ActiveClaims(o, u)' = ActiveClaims(o, u)
      BY <2>1 DEF ActiveClaims, Issued
    <3>3. CASE req[c].offer = o /\ req[c].user = u
      <4>1. ActiveClaims(o, u)' = {}
        BY <2>3, <3>2, <3>3 DEF HasActiveClaim
      <4>2. Cardinality(ActiveClaims(o, u)') = 0
        BY <4>1, FS_EmptySet
      <4>3. Inserting(o, u)' \in SUBSET Consumers
        BY DEF Inserting
      <4>4. Cardinality(Inserting(o, u)') <= Cardinality(Consumers)
              /\ Cardinality(Inserting(o, u)') \in Nat /\ Cardinality(Consumers) \in Nat
        BY <4>3, SubsetSize, OffersAssumption
      <4>5. QED
        BY <4>2, <4>4 DEF IssueBound
    <3>4. CASE ~(req[c].offer = o /\ req[c].user = u)
      <4>1. Inserting(o, u)' \in SUBSET Inserting(o, u)
        BY <3>1, <3>4 DEF Inserting
      <4>2. QED
        BY <1>0, <3>2, <4>1, IssueFrame
    <3>5. QED
      BY <3>3, <3>4
  <2>4. QED
    BY <1>1, <2>2, <2>3 DEF ClaimFindActive
<1>2. ASSUME NEW c \in Consumers, ClaimInsert(c)
      PROVE  IssueBound(o, u)'
  <2> DEFINE new == [offer |-> req[c].offer, user |-> req[c].user,
                     status |-> "active", savingValue |-> 0]
  <2>1. PICK v \in Vouchers :
          claims' = IF CodeFree(v) THEN [claims EXCEPT ![v] = new] ELSE claims
    BY <1>2 DEF ClaimInsert
  <2>2. new.offer = req[c].offer /\ new.user = req[c].user
    OBVIOUS
  <2> HIDE DEF new
  <2>3. \A x \in Issued' : x # v => x \in Issued /\ claims'[x] = claims[x]
    BY <2>1 DEF Issued, Inv, TypeOK
  <2>4. v \in Issued' => (v \in Issued /\ claims'[v] = claims[v]) \/ claims'[v] = new
    BY <2>1 DEF CodeFree, Issued, Inv, TypeOK
  <2>5. req[c].pc = "insertClaim" /\ req' = [req EXCEPT ![c] = IdleReq]
    BY <1>2 DEF ClaimInsert, Finish
  <2>6. Inserting(o, u)' \in SUBSET (Inserting(o, u) \ {c})
    BY <2>5 DEF Inserting, IdleReq, Inv, TypeOK
  <2>7. CASE req[c].offer = o /\ req[c].user = u
    <3> DEFINE A == ActiveClaims(o, u)
               I == Inserting(o, u)
    <3>1. ActiveClaims(o, u)' \in SUBSET (A \cup {v})
      BY <2>3 DEF ActiveClaims
    <3>2. c \in I
      BY <2>5, <2>7 DEF Inserting
    <3>3. /\ IsFiniteSet(A) /\ Cardinality(A) \in Nat
          /\ IsFiniteSet(I) /\ Cardinality(I) \in Nat
          /\ Cardinality(Consumers) \in Nat
          /\ Cardinality(A) + Cardinality(I) <= Cardinality(Consumers)
      BY <1>0, IssueSizes DEF IssueBound
    <3> HIDE DEF A, I
    <3>4. IsFiniteSet(A \cup {v})
            /\ Cardinality(A \cup {v}) = IF v \in A THEN Cardinality(A) ELSE Cardinality(A) + 1
      BY <3>3, FS_AddElement
    <3>5. Cardinality(ActiveClaims(o, u)') <= Cardinality(A \cup {v})
            /\ Cardinality(ActiveClaims(o, u)') \in Nat /\ Cardinality(A \cup {v}) \in Nat
      BY <3>1, <3>4, SubsetSize
    <3>6. IsFiniteSet(I \ {c})
            /\ Cardinality(I \ {c}) = IF c \in I THEN Cardinality(I) - 1 ELSE Cardinality(I)
      BY <3>3, FS_RemoveElement
    <3>7. Cardinality(Inserting(o, u)') <= Cardinality(I \ {c})
            /\ Cardinality(Inserting(o, u)') \in Nat /\ Cardinality(I \ {c}) \in Nat
      BY <2>6, <3>6, SubsetSize DEF I
    <3>8. Cardinality(ActiveClaims(o, u)') <= Cardinality(A) + 1
      BY <3>3, <3>4, <3>5
    <3>9. Cardinality(Inserting(o, u)') <= Cardinality(I) - 1
      BY <3>2, <3>3, <3>6, <3>7
    <3>10. QED
      BY <3>3, <3>5, <3>7, <3>8, <3>9 DEF IssueBound
  <2>8. CASE ~(req[c].offer = o /\ req[c].user = u)
    <3>1. ActiveClaims(o, u)' \in SUBSET ActiveClaims(o, u)
      BY <2>2, <2>3, <2>4, <2>8 DEF ActiveClaims
    <3>2. QED
      BY <1>0, <2>6, <3>1, IssueFrame
  <2>9. QED
    BY <2>7, <2>8
<1>3. ASSUME NEW c \in Consumers, RedeemSaveUpdate(c)
      PROVE  IssueBound(o, u)'
  <2> DEFINE v == req[c].voucher
  <2>1. v \in Issued /\ v \in Vouchers /\ claims[v] \in Claim
    BY <1>3 DEF RedeemSaveUpdate, Inv, TypeOK, HoldsOwnVoucher, PastRefusals, Issued
  <2>2. /\ claims'[v].offer = claims[v].offer /\ claims'[v].user = claims[v].user
        /\ claims'[v].status \in {"redeemed", claims[v].status}
    BY <1>3, <2>1 DEF RedeemSaveUpdate, Inv, TypeOK
  <2>3. \A x \in Vouchers : x # v => claims'[x] = claims[x]
    BY <1>3 DEF RedeemSaveUpdate, Inv, TypeOK
  <2>4. ActiveClaims(o, u)' \in SUBSET ActiveClaims(o, u)
    BY <2>1, <2>2, <2>3 DEF ActiveClaims, Issued
  <2>5. Inserting(o, u)' \in SUBSET Inserting(o, u)
    BY <1>3 DEF RedeemSaveUpdate, Finish, IdleReq, Inserting, Inv, TypeOK
  <2>6. QED
    BY <1>0, <2>4, <2>5, IssueFrame
<1>4. ASSUME NEW c \in Consumers,
             \/ \E p \in OfferIds, x \in Users : ClaimStart(c, p, x)
             \/ \E p \in OfferIds, x \in Users, v \in Vouchers : RedeemStart(c, p, x, v)
             \/ RedeemFindVoucher(c) \/ RedeemReread(c) \/ RedeemCount(c)
             \/ RedeemAnalytics(c) \/ RedeemAnalyticsSave(c) \/ RedeemSaveSelect(c)
             \/ Fail(c)
      PROVE  IssueBound(o, u)'
  <2>1. claims' = claims
    BY <1>4, Zenon DEF ClaimStart, RedeemStart, RedeemFindVoucher, RedeemReread, RedeemCount,
                RedeemAnalytics, RedeemAnalyticsSave, RedeemSaveSelect, Fail
  <2>2. \A d \in Consumers : req'[d].pc = "insertClaim" => req'[d] = req[d]
    <3>1. CASE \E p \in OfferIds, x \in Users : ClaimStart(c, p, x)
      BY <3>1 DEF ClaimStart, IdleReq, Inv, TypeOK
    <3>2. CASE \E p \in OfferIds, x \in Users, v \in Vouchers : RedeemStart(c, p, x, v)
      BY <3>2 DEF RedeemStart, IdleReq, Inv, TypeOK
    <3>3. CASE \/ RedeemFindVoucher(c) \/ RedeemReread(c) \/ RedeemCount(c)
               \/ RedeemAnalytics(c) \/ RedeemAnalyticsSave(c) \/ Fail(c)
      <4>1. \/ Finish(c) \/ UNCHANGED req
            \/ \E pc \in PastRefusals : Goto(c, pc)
        BY <3>3 DEF RedeemFindVoucher, RedeemReread, RedeemCount, RedeemAnalytics,
                    RedeemAnalyticsSave, Fail, FirstUpdate, PastRefusals
      <4>2. \A pc \in PastRefusals : Goto(c, pc) => req'[c].pc # "insertClaim"
        BY DEF Goto, Inv, TypeOK, Req, PastRefusals
      <4>3. QED
        BY <4>1, <4>2 DEF Goto, Finish, IdleReq, Inv, TypeOK
    <3>4. CASE RedeemSaveSelect(c)
      BY <3>4 DEF RedeemSaveSelect, Inv, TypeOK, Req
    <3>5. QED
      BY <1>4, <3>1, <3>2, <3>3, <3>4
  <2>3. QED
    BY <1>a, <2>1, <2>2 DEF Issued
<1>5. CASE Tick \/ UNCHANGED vars \/ \E e \in Editors : EditRequest(e)
  <2>1. UNCHANGED <<req, claims>>
    BY <1>5, Zenon DEF Tick, vars, offerVars, EditRequest, EditStart, SyncToggle, EditVerify,
                EditPatch, EditSaveSelect, EditSaveUpdate
  <2>2. QED
    BY <1>b, <2>1
<1>6. QED
  BY <1>1, <1>2, <1>3, <1>4, <1>5 DEF Next, ClaimRequest, RedeemRequest

(* A customer never holds more active vouchers for one offer than there are  *)
(* concurrent requests, whichever of them fail and whatever the businesses   *)
(* do meanwhile: findActiveClaimByUser keeps claims that do not overlap from *)
(* issuing a second one.                                                     *)
THEOREM DuplicatesNeedRequests == Spec => []DuplicatesBounded
<1>1. Init => IssueInv
  <2> SUFFICES ASSUME Init, NEW o \in OfferIds, NEW u \in Users PROVE IssueBound(o, u)
    BY DEF IssueInv
  <2>1. ActiveClaims(o, u) = {} /\ Inserting(o, u) = {}
    BY DEF Init, ActiveClaims, Issued, Inserting, IdleReq
  <2>2. QED
    BY <2>1, FS_EmptySet, IssueSizes DEF IssueBound
<1>2. IssueInv => DuplicatesBounded
  BY IssueSizes DEF IssueInv, IssueBound, DuplicatesBounded
<1>3. QED
  BY <1>1, <1>2, InvInit, InvNext, IssueNext, PTL DEF Spec

-----------------------------------------------------------------------------
(* How often one voucher can be counted: once per request that was past the  *)
(* ALREADY_REDEEMED check when the first of them recorded the redemption.    *)

RedeemedAlready(v) == v \in Issued /\ claims[v].status = "redeemed"
Ahead(v) == {c \in Consumers : req[c].pc \in {"reread", "count"} /\ req[c].voucher = v}
Behind(v) == {c \in Consumers : req[c].pc \in PastCount /\ req[c].voucher = v}
OnceBound(v) ==
  /\ RedeemedAlready(v) \/ counted[v] <= Cardinality(Behind(v))
  /\ counted[v] + Cardinality(Ahead(v)) <= Cardinality(Consumers)
OnceInv == \A v \in Vouchers : OnceBound(v)

LEMMA OnceSizes ==
  ASSUME NEW v
  PROVE  /\ IsFiniteSet(Ahead(v)) /\ Cardinality(Ahead(v)) \in Nat
         /\ IsFiniteSet(Behind(v)) /\ Cardinality(Behind(v)) \in Nat
         /\ Cardinality(Consumers) \in Nat
<1>1. Ahead(v) \in SUBSET Consumers /\ Behind(v) \in SUBSET Consumers
  BY DEF Ahead, Behind
<1>2. QED
  BY <1>1, SubsetSize, OffersAssumption

LEMMA OnceSizesNext ==
  ASSUME NEW v
  PROVE  /\ IsFiniteSet(Ahead(v)') /\ Cardinality(Ahead(v)') \in Nat
         /\ IsFiniteSet(Behind(v)') /\ Cardinality(Behind(v)') \in Nat
<1>1. Ahead(v)' \in SUBSET Consumers /\ Behind(v)' \in SUBSET Consumers
  BY DEF Ahead, Behind
<1>2. QED
  BY <1>1, SubsetSize, OffersAssumption

(* A step that counts nothing, lets nobody past the check and takes nobody   *)
(* from behind the count before the row is recorded keeps the bound.         *)
LEMMA OnceFrame ==
  ASSUME Inv, NEW v \in Vouchers, OnceBound(v), counted' = counted,
         RedeemedAlready(v) => RedeemedAlready(v)',
         Ahead(v)' \in SUBSET Ahead(v),
         RedeemedAlready(v)' \/ Behind(v) \in SUBSET Behind(v)'
  PROVE  OnceBound(v)'
<1>1. counted[v] \in Nat
  BY DEF Inv, TypeOK
<1>2. Cardinality(Ahead(v)') <= Cardinality(Ahead(v)) /\ Cardinality(Ahead(v)') \in Nat
  BY OnceSizes, SubsetSize
<1>3. RedeemedAlready(v)' \/ Cardinality(Behind(v)) <= Cardinality(Behind(v)')
  BY OnceSizesNext, SubsetSize
<1>4. QED
  BY <1>1, <1>2, <1>3, OnceSizes, OnceSizesNext DEF OnceBound

LEMMA OnceNext ==
  ASSUME Faulty = {}
  PROVE  Inv /\ PendingSave /\ OnceInv /\ [Next]_vars => OnceInv'
<1> SUFFICES ASSUME Inv, PendingSave, OnceInv, [Next]_vars, NEW v \in Vouchers
             PROVE  OnceBound(v)'
  BY DEF OnceInv
<1>0. OnceBound(v) /\ counted[v] \in Nat
  BY DEF OnceInv, Inv, TypeOK
(* The rows keep their status, and the requests only move on. *)
<1>a. ASSUME counted' = counted,
             \A x \in Issued : x \in Issued' /\ claims'[x].status = claims[x].status,
             \A d \in Consumers :
               \/ req'[d] = req[d]
               \/ /\ req[d].pc \notin PastCount
                  /\ req'[d].pc \notin {"reread", "count"}
               \/ /\ req[d].pc \in PastCount /\ req'[d].pc \in PastCount
                  /\ req'[d].voucher = req[d].voucher
               \/ /\ req[d].pc = "reread" /\ req'[d].pc = "count"
                  /\ req'[d].voucher = req[d].voucher
      PROVE  OnceBound(v)'
  <2>1. RedeemedAlready(v) => RedeemedAlready(v)'
    BY <1>a DEF RedeemedAlready
  <2>2. Ahead(v)' \in SUBSET Ahead(v)
    BY <1>a DEF Ahead, PastCount
  <2>3. Behind(v) \in SUBSET Behind(v)'
    BY <1>a DEF Behind, PastCount
  <2>4. QED
    BY <1>0, <1>a, <2>1, <2>2, <2>3, OnceFrame
<1>b. ASSUME UNCHANGED <<req, claims, counted>> PROVE OnceBound(v)'
  BY <1>a, <1>b DEF Issued
<1>1. ASSUME NEW c \in Consumers, RedeemFindVoucher(c)
      PROVE  OnceBound(v)'
  <2>1. claims' = claims /\ counted' = counted /\ req[c].pc = "findVoucher"
    BY <1>1 DEF RedeemFindVoucher
  <2>2. CASE Finish(c)
    <3>1. \A d \in Consumers : d # c => req'[d] = req[d]
      BY <2>2 DEF Finish, Inv, TypeOK
    <3>2. req'[c].pc = "idle"
      BY <2>2 DEF Finish, IdleReq, Inv, TypeOK
    <3>3. QED
      BY <1>a, <2>1, <3>1, <3>2 DEF Issued, PastCount
  <2>3. CASE Goto(c, "reread") /\ MayRedeem(req[c].voucher, req[c].user)
    <3>1. /\ \A d \in Consumers : d # c => req'[d] = req[d]
          /\ req'[c].voucher = req[c].voucher /\ req'[c].pc = "reread"
      BY <2>3 DEF Goto, Inv, TypeOK, Req
    <3>2. RedeemedAlready(v)' = RedeemedAlready(v)
      BY <2>1 DEF RedeemedAlready, Issued
    <3>3. Behind(v)' = Behind(v)
      BY <2>1, <3>1 DEF Behind, PastCount
    <3>4. CASE req[c].voucher = v
      <4>1. ~RedeemedAlready(v)
        BY <2>3, <3>4 DEF MayRedeem, RedeemedAlready
      <4>2. counted[v] <= Cardinality(Behind(v))
        BY <1>0, <4>1 DEF OnceBound
      <4>3. Ahead(v)' \in SUBSET Consumers /\ Behind(v) \in SUBSET Consumers
              /\ Ahead(v)' \cap Behind(v)' = {}
        BY DEF Ahead, Behind, PastCount
      <4>4. Cardinality(Ahead(v)') + Cardinality(Behind(v)) <= Cardinality(Consumers)
        BY <3>3, <4>3, DisjointSize, OffersAssumption
      <4>5. QED
        BY <1>0, <2>1, <3>3, <4>2, <4>4, OnceSizes, OnceSizesNext DEF OnceBound
    <3>5. CASE req[c].voucher # v
      <4>1. Ahead(v)' \in SUBSET Ahead(v)
        BY <3>1, <3>5 DEF Ahead
      <4>2. QED
        BY <1>0, <2>1, <3>2, <3>3, <4>1, OnceFrame
    <3>6. QED
      BY <3>4, <3>5
  <2>4. QED
    BY <1>1, <2>2, <2>3 DEF RedeemFindVoucher
<1>2. ASSUME NEW c \in Consumers, RedeemCount(c)
      PROVE  OnceBound(v)'
  <2>1. /\ \A d \in Consumers : d # c => req'[d] = req[d]
        /\ req'[c].voucher = req[c].voucher /\ req'[c].pc = "analytics"
        /\ req[c].pc = "count" /\ req[c].voucher \in Vouchers
    BY <1>2 DEF RedeemCount, Goto, Inv, TypeOK, Req
  <2>2. claims' = claims /\ counted' = [counted EXCEPT ![req[c].voucher] = @ + 1]
    BY <1>2 DEF RedeemCount
  <2>3. RedeemedAlready(v)' = RedeemedAlready(v)
    BY <2>2 DEF RedeemedAlready, Issued
  <2>4. CASE req[c].voucher = v
    <3> DEFINE A == Ahead(v)
               B == Behind(v)
    <3>1. counted'[v] = counted[v] + 1
      BY <2>2, <2>4 DEF Inv, TypeOK
    <3>2. c \in A /\ c \notin B
      BY <2>1, <2>4 DEF Ahead, Behind, PastCount
    <3>3. Ahead(v)' \in SUBSET (A \ {c})
      BY <2>1, <2>4 DEF Ahead
    <3>4. B \cup {c} \in SUBSET Behind(v)'
      BY <2>1, <2>4 DEF Behind, PastCount
    <3>5. /\ IsFiniteSet(A) /\ Cardinality(A) \in Nat
          /\ IsFiniteSet(B) /\ Cardinality(B) \in Nat
          /\ IsFiniteSet(Behind(v)') /\ Cardinality(Behind(v)') \in Nat
          /\ Cardinality(Consumers) \in Nat
          /\ RedeemedAlready(v) \/ counted[v] <= Cardinality(B)
          /\ counted[v] + Cardinality(A) <= Cardinality(Consumers)
      BY <1>0, OnceSizes, OnceSizesNext DEF OnceBound
    <3> HIDE DEF A, B
    <3>6. IsFiniteSet(A \ {c})
            /\ Cardinality(A \ {c}) = IF c \in A THEN Cardinality(A) - 1 ELSE Cardinality(A)
      BY <3>5, FS_RemoveElement
    <3>7. Cardinality(Ahead(v)') <= Cardinality(A \ {c}) /\ Cardinality(Ahead(v)') \in Nat
      BY <3>3, <3>6, SubsetSize
    <3>8. IsFiniteSet(B \cup {c})
            /\ Cardinality(B \cup {c}) = IF c \in B THEN Cardinality(B) ELSE Cardinality(B) + 1
      BY <3>5, FS_AddElement
    <3>9. Cardinality(B \cup {c}) <= Cardinality(Behind(v)')
      BY <3>4, <3>5, SubsetSize
    <3>10. Cardinality(Ahead(v)') <= Cardinality(A) - 1
      BY <3>2, <3>5, <3>6, <3>7
    <3>11. Cardinality(B) + 1 <= Cardinality(Behind(v)')
      BY <3>2, <3>8, <3>9
    <3>12. QED
      BY <1>0, <2>3, <3>1, <3>5, <3>7, <3>10, <3>11 DEF OnceBound
  <2>5. CASE req[c].voucher # v
    <3>1. counted'[v] = counted[v]
      BY <2>2, <2>5 DEF Inv, TypeOK
    <3>2. Ahead(v)' = Ahead(v) /\ Behind(v)' = Behind(v)
      BY <2>1, <2>5 DEF Ahead, Behind
    <3>3. QED
      BY <1>0, <2>3, <3>1, <3>2 DEF OnceBound
  <2>6. QED
    BY <2>4, <2>5
<1>3. ASSUME NEW c \in Consumers, RedeemSaveUpdate(c)
      PROVE  OnceBound(v)'
  <2> DEFINE x == req[c].voucher
  <2>1. x \in Issued /\ x \in Vouchers
    BY <1>3 DEF RedeemSaveUpdate, Inv, HoldsOwnVoucher, PastRefusals, Issued
  <2>2. claims' \in [Vouchers -> Claim \cup {NoClaim}]
    <3>1. Inv'
      BY <1>3, RedeemKeepsInv DEF RedeemRequest
    <3>2. QED
      BY <3>1 DEF Inv, TypeOK
  <2>3. claims'[x].status = "redeemed" /\ x \in Issued'
    <3>1. claims'[x].status = "redeemed"
      BY <1>3, <2>1 DEF RedeemSaveUpdate, PendingSave, Inv, TypeOK
    <3>2. claims[x] \in Claim /\ req[c] \in Req
      BY <2>1 DEF Inv, TypeOK, Issued
    <3>3. claims'[x] \in Claim
      BY <1>3, <2>1, <3>1, <3>2 DEF RedeemSaveUpdate, Inv, TypeOK, Claim, Req
    <3>4. QED
      BY <2>1, <3>1, <3>3, OffersAssumption DEF Issued
  <2>4. \A y \in Issued : y # x => y \in Issued' /\ claims'[y] = claims[y]
    BY <1>3 DEF RedeemSaveUpdate, Inv, TypeOK, Issued
  <2>5. /\ counted' = counted /\ req[c].pc = "saveUpdate"
        /\ req' = [req EXCEPT ![c] = IdleReq]
    BY <1>3 DEF RedeemSaveUpdate, Finish
  <2>6. RedeemedAlready(v) => RedeemedAlready(v)'
    BY <2>3, <2>4 DEF RedeemedAlready
  <2>7. Ahead(v)' \in SUBSET Ahead(v)
    BY <2>5 DEF Ahead, IdleReq, Inv, TypeOK
  <2>8. RedeemedAlready(v)' \/ Behind(v) \in SUBSET Behind(v)'
    <3>1. CASE v = x
      BY <2>3, <3>1 DEF RedeemedAlready
    <3>2. CASE v # x
      BY <2>5, <3>2 DEF Behind, IdleReq, Inv, TypeOK
    <3>3. QED
      BY <3>1, <3>2
  <2>9. QED
    BY <1>0, <2>5, <2>6, <2>7, <2>8, OnceFrame
<1>4. ASSUME NEW c \in Consumers, ClaimInsert(c)
      PROVE  OnceBound(v)'
  <2>1. counted' = counted /\ req[c].pc = "insertClaim" /\ req' = [req EXCEPT ![c] = IdleReq]
    BY <1>4 DEF ClaimInsert, Finish
  <2>2. \A x \in Issued : x \in Issued' /\ claims'[x].status = claims[x].status
    BY <1>4 DEF ClaimInsert, CodeFree, Issued, Inv, TypeOK
  <2>3. /\ \A d \in Consumers : d # c => req'[d] = req[d]
        /\ req'[c].pc = "idle"
    BY <2>1 DEF IdleReq, Inv, TypeOK
  <2>4. QED
    BY <1>a, <2>1, <2>2, <2>3 DEF PastCount
<1>5. ASSUME NEW c \in Consumers,
             \/ \E p \in OfferIds, x \in Users : ClaimStart(c, p, x)
             \/ \E p \in OfferIds, x \in Users, y \in Vouchers : RedeemStart(c, p, x, y)
             \/ ClaimFindActive(c) \/ RedeemReread(c) \/ RedeemAnalytics(c)
             \/ RedeemAnalyticsSave(c) \/ RedeemSaveSelect(c)
      PROVE  OnceBound(v)'
  <2>1. claims' = claims /\ counted' = counted
    BY <1>5, Zenon DEF ClaimStart, RedeemStart, ClaimFindActive, RedeemReread,
                       RedeemAnalytics, RedeemAnalyticsSave, RedeemSaveSelect
  <2>2. \A d \in Consumers : d # c => req'[d] = req[d]
    BY <1>5 DEF ClaimStart, RedeemStart, ClaimFindActive, RedeemReread,
                RedeemAnalytics, RedeemAnalyticsSave, RedeemSaveSelect, Goto, Finish,
                Inv, TypeOK
  <2>3. \/ req'[c] = req[c]
        \/ /\ req[c].pc \notin PastCount
           /\ req'[c].pc \notin {"reread", "count"}
        \/ /\ req[c].pc \in PastCount /\ req'[c].pc \in PastCount
           /\ req'[c].voucher = req[c].voucher
        \/ /\ req[c].pc = "reread" /\ req'[c].pc = "count"
           /\ req'[c].voucher = req[c].voucher
    <3> USE DEF Inv, TypeOK, PastCount
    <3>1. CASE \E p \in OfferIds, x \in Users : ClaimStart(c, p, x)
      BY <3>1 DEF ClaimStart, IdleReq
    <3>2. CASE \E p \in OfferIds, x \in Users, y \in Vouchers : RedeemStart(c, p, x, y)
      BY <3>2 DEF RedeemStart, IdleReq
    <3>3. CASE ClaimFindActive(c)
      BY <3>3 DEF ClaimFindActive, Goto, Finish, IdleReq, Req
    <3>4. CASE RedeemReread(c)
      BY <3>4 DEF RedeemReread, FirstUpdate, Goto, Req
    <3>5. CASE RedeemAnalytics(c)
      BY <3>5 DEF RedeemAnalytics, Goto, Req
    <3>6. CASE RedeemAnalyticsSave(c)
      BY <3>6 DEF RedeemAnalyticsSave, Goto, Req
    <3>7. CASE RedeemSaveSelect(c)
      BY <3>7 DEF RedeemSaveSelect, Req
    <3>8. QED
      BY <1>5, <3>1, <3>2, <3>3, <3>4, <3>5, <3>6, <3>7
  <2>4. QED
    BY <1>a, <2>1, <2>2, <2>3 DEF Issued
<1>6. CASE Tick \/ UNCHANGED vars \/ \E e \in Editors : EditRequest(e)
  <2>1. UNCHANGED <<req, claims, counted>>
    BY <1>6, Zenon DEF Tick, vars, offerVars, EditRequest, EditStart, SyncToggle, EditVerify,
                       EditPatch, EditSaveSelect, EditSaveUpdate
  <2>2. QED
    BY <1>b, <2>1
<1>7. QED
  BY <1>1, <1>2, <1>3, <1>4, <1>5, <1>6 DEF Next, ClaimRequest, RedeemRequest, Fail

(* While no request fails half-way, a voucher is counted no more often than  *)
(* there are concurrent requests: every request that counted it before it    *)
(* was recorded is still on its way to record it, and once one has, nobody   *)
(* new passes the ALREADY_REDEEMED check. (A request that fails after the    *)
(* increment leaves its count behind, and the voucher can be tried again.)   *)
THEOREM CountedOncePerRequest ==
  ASSUME Faulty = {}
  PROVE  Spec => []DoubleRedeemBounded
<1>1. Init => OnceInv
  <2> SUFFICES ASSUME Init, NEW v \in Vouchers PROVE OnceBound(v)
    BY DEF OnceInv
  <2>1. Ahead(v) = {} /\ Behind(v) = {} /\ counted[v] = 0
    BY DEF Init, Ahead, Behind, PastCount, IdleReq
  <2>2. QED
    BY <2>1, FS_EmptySet, OnceSizes DEF OnceBound
<1>2. Inv /\ OnceInv => DoubleRedeemBounded
  BY OnceSizes DEF OnceInv, OnceBound, DoubleRedeemBounded, Inv, TypeOK
<1>3. QED
  BY <1>1, <1>2, InvInit, InvNext, PendingInit, PendingNext, OnceNext, PTL DEF Spec

-----------------------------------------------------------------------------
(* A deleted offer keeps its expiry: with one business request at a time the *)
(* entity held in memory agrees with the row on expiresAt, which nobody else *)
(* writes, or is the deletion's own.                                         *)

CopyBound(e) ==
  LET copy == edit[e].copy
      row == offers[edit[e].offer]
      saving == edit[e].pc \in {"saveSelect", "saveUpdate"}
  IN
  /\ edit[e].pc = "verify" \/ (saving /\ edit[e].op # "delete") =>
       copy.expiresAt = row.expiresAt
  /\ saving /\ edit[e].op = "delete" => copy.expiresAt \in 0 .. now
  /\ edit[e].pc = "saveUpdate" =>
       "expiresAt" \in edit[e].dirty \/ copy.expiresAt = row.expiresAt
CopyInv == \A e \in Editors : CopyBound(e)
ExpiryInv == CopyInv /\ DeletedKeepsExpiry

LEMMA ExpiryNext ==
  ASSUME \A d, e \in Editors : d = e
  PROVE  Inv /\ ExpiryInv /\ [Next]_vars => ExpiryInv'
<1> SUFFICES ASSUME Inv, ExpiryInv, [Next]_vars PROVE ExpiryInv'
  OBVIOUS
<1> USE DEF Inv, TypeOK
(* The clock may advance and the rows change in any column but expiresAt. *)
<1>a. ASSUME edit' = edit, deleted' = deleted, now' \in Times, now <= now',
             \A o \in OfferIds : offers'[o].expiresAt = offers[o].expiresAt
      PROVE  ExpiryInv'
  <2>1. CopyInv'
    BY <1>a DEF ExpiryInv, CopyInv, CopyBound, Times, Edit
  <2>2. DeletedKeepsExpiry'
    BY <1>a DEF ExpiryInv, DeletedKeepsExpiry, Times
  <2>3. QED
    BY <2>1, <2>2 DEF ExpiryInv
(* An editor moves without writing to an offer. *)
<1>b. ASSUME NEW e \in Editors, NEW x \in Edit, edit' = [edit EXCEPT ![e] = x],
             offers' = offers, now' = now, deleted' = deleted,
             x.pc = "verify" \/ (x.pc = "saveSelect" /\ x.op # "delete") =>
               x.copy.expiresAt = offers[x.offer].expiresAt,
             x.pc = "saveSelect" /\ x.op = "delete" => x.copy.expiresAt \in 0 .. now,
             x.pc # "saveUpdate"
      PROVE  ExpiryInv'
  <2>1. \A d \in Editors : edit'[d] = x
    BY <1>b
  <2>2. CopyInv'
    BY <1>b, <2>1 DEF CopyInv, CopyBound
  <2>3. DeletedKeepsExpiry'
    BY <1>b DEF ExpiryInv, DeletedKeepsExpiry
  <2>4. QED
    BY <2>2, <2>3 DEF ExpiryInv
<1>i. ASSUME NEW o \in OfferIds
      PROVE  IdleEdit \in Edit /\ IdleEdit.pc = "idle"
  BY IdleEditType DEF IdleEdit
<1>1. ASSUME NEW e \in Editors, NEW o \in OfferIds,
             NEW op \in {"toggleOn", "toggleOff", "delete", "update"},
             EditStart(e, op, o)
      PROVE  ExpiryInv'
  <2> DEFINE x == [pc |-> "verify", op |-> op, offer |-> o,
                   copy |-> offers[o], dirty |-> {}]
  <2>1. x \in Edit
    BY DEF Edit
  <2>2. x.pc = "verify" /\ x.copy = offers[o] /\ x.offer = o
    OBVIOUS
  <2>3. edit' = [edit EXCEPT ![e] = x]
    BY <1>1 DEF EditStart
  <2> HIDE DEF x
  <2>4. QED
    BY <1>1, <1>b, <2>1, <2>2, <2>3 DEF EditStart
<1>2. ASSUME NEW e \in Editors, NEW o \in OfferIds, NEW op, SyncToggle(e, op, o)
      PROVE  ExpiryInv'
  <2> DEFINE copy == Toggled(offers[o], op)
             x == [pc |-> "saveSelect", op |-> op, offer |-> o, dirty |-> {},
                   copy |-> copy]
  <2>1. op \in {"toggleOn", "toggleOff"}
    BY <1>2 DEF SyncToggle
  <2>2. copy \in OfferRow /\ copy.expiresAt = offers[o].expiresAt
    BY DEF Toggled, OfferRow
  <2>3. edit' = [edit EXCEPT ![e] = x]
    BY <1>2 DEF SyncToggle
  <2> HIDE DEF copy
  <2>4. x \in Edit /\ x.pc = "saveSelect" /\ x.copy = copy /\ x.offer = o /\ x.op = op
    BY <2>1, <2>2 DEF Edit
  <2> HIDE DEF x
  <2>5. QED
    BY <1>2, <1>b, <2>1, <2>2, <2>3, <2>4 DEF SyncToggle
<1>3. ASSUME NEW e \in Editors, EditVerify(e)
      PROVE  ExpiryInv'
  <2> DEFINE q == edit[e]
  <2>1. /\ q \in Edit /\ q.pc = "verify" /\ q.copy \in OfferRow /\ q.offer \in OfferIds
        /\ q.copy.expiresAt = offers[q.offer].expiresAt
    BY <1>3 DEF EditVerify, ExpiryInv, CopyInv, CopyBound, Edit
  <2>2. offers' = offers /\ now' = now /\ deleted' = deleted
    BY <1>3 DEF EditVerify
  <2>3. CASE FinishEdit(e)
    BY <1>b, <1>i, <2>1, <2>2, <2>3 DEF FinishEdit
  <2>4. CASE edit' = [edit EXCEPT ![e].pc = "patch"]
    <3> DEFINE x == [q EXCEPT !.pc = "patch"]
    <3>1. x \in Edit /\ x.pc = "patch" /\ edit' = [edit EXCEPT ![e] = x]
      BY <2>1, <2>4 DEF Edit
    <3> HIDE DEF x
    <3>2. QED
      BY <1>b, <2>2, <3>1
  <2>5. CASE /\ q.op \in {"toggleOn", "toggleOff"}
             /\ edit' = [edit EXCEPT ![e].pc = "saveSelect", ![e].copy = Toggled(@, q.op)]
    <3> DEFINE copy == Toggled(q.copy, q.op)
               x == [q EXCEPT !.pc = "saveSelect", !.copy = copy]
    <3>1. copy \in OfferRow /\ copy.expiresAt = offers[q.offer].expiresAt
      BY <2>1 DEF Toggled, OfferRow
    <3>2. edit' = [edit EXCEPT ![e] = x]
      BY <2>5
    <3> HIDE DEF copy
    <3>3. x \in Edit /\ x.pc = "saveSelect" /\ x.copy = copy
            /\ x.offer = q.offer /\ x.op = q.op
      BY <2>1, <3>1 DEF Edit
    <3>4. x.op # "delete"
      BY <2>5, <3>3
    <3> HIDE DEF x
    <3>5. QED
      BY <1>b, <2>2, <3>1, <3>2, <3>3, <3>4
  <2>6. CASE /\ q.op = "delete"
             /\ edit' = [edit EXCEPT ![e].pc = "saveSelect", ![e].copy = Deleted(@)]
    <3> DEFINE copy == Deleted(q.copy)
               x == [q EXCEPT !.pc = "saveSelect", !.copy = copy]
    <3>1. copy \in OfferRow /\ copy.expiresAt = now
      BY <2>1 DEF Deleted, OfferRow
    <3>2. edit' = [edit EXCEPT ![e] = x]
      BY <2>6
    <3> HIDE DEF copy
    <3>3. x \in Edit /\ x.pc = "saveSelect" /\ x.copy = copy /\ x.op = "delete"
      BY <2>1, <2>6, <3>1 DEF Edit
    <3> HIDE DEF x
    <3>4. now \in 0 .. now
      BY DEF Times
    <3>5. QED
      BY <1>b, <2>2, <3>1, <3>2, <3>3, <3>4
  <2>7. QED
    BY <1>3, <2>3, <2>4, <2>5, <2>6 DEF EditVerify
<1>4. ASSUME NEW e \in Editors, EditPatch(e)
      PROVE  ExpiryInv'
  <2> DEFINE o == edit[e].offer
  <2>1. o \in OfferIds /\ now' = now /\ edit' = [edit EXCEPT ![e] = IdleEdit]
    BY <1>4 DEF EditPatch, FinishEdit, Edit
  <2>2. CopyInv'
    BY <1>i, <2>1 DEF CopyInv, CopyBound
  <2>3. \A p \in deleted' : p \in deleted /\ offers'[p].expiresAt = offers[p].expiresAt
    <3>1. ASSUME NEW m \in Caps, offers' = [offers EXCEPT ![o].maxRedemptions = m],
                 NEW p \in OfferIds
          PROVE  offers'[p].expiresAt = offers[p].expiresAt
      <4>1. offers[p] \in OfferRow
        OBVIOUS
      <4>2. [offers[p] EXCEPT !.maxRedemptions = m].expiresAt = offers[p].expiresAt
        BY <4>1 DEF OfferRow
      <4>3. offers'[p] \in {offers[p], [offers[p] EXCEPT !.maxRedemptions = m]}
        BY <3>1
      <4>4. QED
        BY <4>2, <4>3
    <3>2. ASSUME NEW t \in Times, offers' = [offers EXCEPT ![o].expiresAt = t],
                 NEW p \in OfferIds \ {o}
          PROVE  offers'[p].expiresAt = offers[p].expiresAt
      BY <3>2
    <3>3. CASE (\E m \in Caps : offers' = [offers EXCEPT ![o].maxRedemptions = m])
                 /\ UNCHANGED deleted
      BY <3>1, <3>3
    <3>4. CASE (\E t \in Times : offers' = [offers EXCEPT ![o].expiresAt = t])
                 /\ deleted' = deleted \ {o}
      BY <3>2, <3>4
    <3>5. QED
      BY <1>4, <3>3, <3>4 DEF EditPatch
  <2>4. DeletedKeepsExpiry'
    BY <2>1, <2>3 DEF ExpiryInv, DeletedKeepsExpiry
  <2>5. QED
    BY <2>2, <2>4 DEF ExpiryInv
<1>5. ASSUME NEW e \in Editors, EditSaveSelect(e)
      PROVE  ExpiryInv'
  <2> DEFINE q == edit[e]
             o == edit[e].offer
             row == offers[o]
             dirty == {col \in OfferCols :
                  \/ col = "isActive" /\ q.copy.isActive # row.isActive
                  \/ col = "expiresAt" /\ q.copy.expiresAt # row.expiresAt
                  \/ col = "redemptionCount" /\ q.copy.redemptionCount # row.redemptionCount
                  \/ col = "maxRedemptions" /\ q.copy.maxRedemptions # row.maxRedemptions}
             x == [q EXCEPT !.pc = "saveUpdate", !.dirty = dirty]
  <2>1. /\ q \in Edit /\ o \in OfferIds /\ q.pc = "saveSelect" /\ offers' = offers
        /\ now' = now
        /\ q.op # "delete" => q.copy.expiresAt = row.expiresAt
        /\ q.op = "delete" => q.copy.expiresAt \in 0 .. now
    BY <1>5 DEF EditSaveSelect, ExpiryInv, CopyInv, CopyBound, Edit
  <2>2. edit' = [edit EXCEPT ![e] = IF dirty = {} THEN IdleEdit ELSE x]
    BY <1>5 DEF EditSaveSelect
  <2>3. deleted' = IF dirty = {} /\ q.op = "delete" THEN deleted \cup {o} ELSE deleted
    BY <1>5 DEF EditSaveSelect
  <2>4. dirty \subseteq OfferCols /\ ("expiresAt" \in dirty \/ q.copy.expiresAt = row.expiresAt)
    BY DEF OfferCols
  <2> HIDE DEF dirty
  <2>5. x.pc = "saveUpdate" /\ x.op = q.op /\ x.offer = o /\ x.copy = q.copy /\ x.dirty = dirty
    BY <2>1 DEF Edit
  <2> HIDE DEF x
  <2>6. \A d \in Editors : edit'[d] = IF dirty = {} THEN IdleEdit ELSE x
    BY <2>2
  <2>7. CopyInv'
    BY <1>i, <2>1, <2>4, <2>5, <2>6 DEF CopyInv, CopyBound
  <2>8. dirty = {} /\ q.op = "delete" => row.expiresAt \in 0 .. now
    BY <2>1, <2>4
  <2>9. DeletedKeepsExpiry'
    BY <2>1, <2>3, <2>8 DEF ExpiryInv, DeletedKeepsExpiry
  <2>10. QED
    BY <2>7, <2>9 DEF ExpiryInv
<1>6. ASSUME NEW e \in Editors, EditSaveUpdate(e)
      PROVE  ExpiryInv'
  <2> DEFINE q == edit[e]
             o == edit[e].offer
  <2>1. /\ q \in Edit /\ o \in OfferIds /\ q.pc = "saveUpdate" /\ now' = now
        /\ edit' = [edit EXCEPT ![e] = IdleEdit]
        /\ q.op # "delete" => q.copy.expiresAt = offers[o].expiresAt
        /\ q.op = "delete" => q.copy.expiresAt \in 0 .. now
        /\ "expiresAt" \in q.dirty \/ q.copy.expiresAt = offers[o].expiresAt
    BY <1>6 DEF EditSaveUpdate, FinishEdit, ExpiryInv, CopyInv, CopyBound, Edit
  <2>2. CopyInv'
    BY <1>i, <2>1 DEF CopyInv, CopyBound
  <2>3. /\ offers'[o].expiresAt = IF "expiresAt" \in q.dirty
                                    THEN q.copy.expiresAt ELSE offers[o].expiresAt
        /\ \A p \in OfferIds : p # o => offers'[p] = offers[p]
    BY <1>6, <2>1 DEF EditSaveUpdate
  <2>4. deleted' = IF q.op = "delete" THEN deleted \cup {o} ELSE deleted
    BY <1>6 DEF EditSaveUpdate
  <2>5. offers'[o].expiresAt = q.copy.expiresAt
    BY <2>1, <2>3
  <2>6. \A p \in deleted' : offers'[p].expiresAt \in 0 .. now
    BY <2>1, <2>3, <2>4, <2>5 DEF ExpiryInv, DeletedKeepsExpiry
  <2>7. DeletedKeepsExpiry'
    BY <2>1, <2>6 DEF DeletedKeepsExpiry
  <2>8. QED
    BY <2>2, <2>7 DEF ExpiryInv
<1>7. ASSUME NEW c \in Consumers, ClaimRequest(c) \/ RedeemRequest(c) \/ Fail(c)
      PROVE  ExpiryInv'
  <2>1. edit' = edit /\ deleted' = deleted /\ now' = now
    BY <1>7 DEF ClaimRequest, ClaimStart, ClaimFindActive, ClaimInsert, RedeemRequest,
                RedeemStart, RedeemFindVoucher, RedeemReread, RedeemCount, RedeemAnalytics,
                RedeemAnalyticsSave, RedeemSaveSelect, RedeemSaveUpdate, Fail
  <2>2. \A o \in OfferIds : offers'[o].expiresAt = offers[o].expiresAt
    <3>1. CASE RedeemCount(c)
      BY <3>1 DEF RedeemCount, CountedUp, OfferRow
    <3>2. CASE offers' = offers
      BY <3>2
    <3>3. QED
      BY <1>7, <3>1, <3>2, Zenon
         DEF ClaimRequest, ClaimStart, ClaimFindActive, ClaimInsert, RedeemRequest,
             RedeemStart, RedeemFindVoucher, RedeemReread, RedeemAnalytics,
             RedeemAnalyticsSave, RedeemSaveSelect, RedeemSaveUpdate, Fail
  <2>3. now' \in Times /\ now <= now'
    BY <2>1 DEF Times
  <2>4. QED
    BY <1>a, <2>1, <2>2, <2>3
<1>8. CASE Tick
  <2>1. now' \in Times /\ now <= now'
    BY <1>8, OffersAssumption DEF Tick, Times
  <2>2. QED
    BY <1>8, <1>a, <2>1 DEF Tick
<1>9. CASE UNCHANGED vars
  <2>1. now' \in Times /\ now <= now'
    BY <1>9 DEF Times, vars, offerVars
  <2>2. QED
    BY <1>9, <1>a, <2>1 DEF vars, offerVars
<1>10. QED
  BY <1>1, <1>2, <1>3, <1>4, <1>5, <1>6, <1>7, <1>8, <1>9 DEF Next, EditRequest

(* A deleted offer stays expired until an update gives it a new expiry,      *)
(* however the customers' requests and the clock interleave, as long as      *)
(* business requests do not overlap. (A toggle that read the offer before    *)
(* the deletion and saves after it would restore the old expiry.)            *)
THEOREM DeletedStaysExpired ==
  ASSUME \A d, e \in Editors : d = e
  PROVE  Spec => []DeletedKeepsExpiry
<1>1. Init => ExpiryInv
  BY DEF Init, ExpiryInv, CopyInv, CopyBound, IdleEdit, DeletedKeepsExpiry
<1>2. ExpiryInv => DeletedKeepsExpiry
  BY DEF ExpiryInv
<1>3. QED
  BY <1>1, <1>2, InvInit, InvNext, ExpiryNext, PTL DEF Spec

-----------------------------------------------------------------------------
(* The stored count of an offer, and the count each editor holds of it, are  *)
(* within the times its vouchers were really counted.                        *)

(* The units of a family of counts: those of x are <<x, 1>>, ..., <<x, n[x]>> *)
LEMMA UnitsSame ==
  ASSUME NEW S, NEW T, S \subseteq T, NEW n, NEW m,
         \A x \in S : m[x] = n[x], \A x \in T \ S : m[x] = 0
  PROVE  UNION {{x} \X (1 .. m[x]) : x \in T} = UNION {{x} \X (1 .. n[x]) : x \in S}
<1>1. ASSUME NEW x \in T \ S PROVE {x} \X (1 .. m[x]) = {}
  BY <1>1
<1>2. ASSUME NEW x \in S PROVE {x} \X (1 .. m[x]) = {x} \X (1 .. n[x])
  BY <1>2
<1>3. QED
  BY <1>1, <1>2

LEMMA UnitsRaised ==
  ASSUME NEW S, NEW v \in S, NEW n, NEW m, n[v] \in Nat,
         m[v] = n[v] + 1, \A x \in S : x # v => m[x] = n[x]
  PROVE  UNION {{x} \X (1 .. m[x]) : x \in S}
           = (UNION {{x} \X (1 .. n[x]) : x \in S}) \cup {<<v, n[v] + 1>>}
<1>1. 1 .. m[v] = (1 .. n[v]) \cup {n[v] + 1}
  OBVIOUS
<1>2. {v} \X (1 .. m[v]) = ({v} \X (1 .. n[v])) \cup {<<v, n[v] + 1>>}
  BY <1>1
<1>3. ASSUME NEW x \in S, x # v PROVE {x} \X (1 .. m[x]) = {x} \X (1 .. n[x])
  BY <1>3
<1>4. QED
  BY <1>2, <1>3

Tallied(o) ==
  /\ IsFiniteSet(Countings(o))
  /\ offers[o].redemptionCount <= Cardinality(Countings(o))
TallyInv ==
  /\ \A o \in OfferIds : Tallied(o)
  /\ \A e \in Editors, o \in OfferIds :
       edit[e].offer = o => edit[e].copy.redemptionCount <= Cardinality(Countings(o))
  /\ \A v \in Vouchers \ Issued : counted[v] = 0

(* Issuing a voucher changes no countings: nobody has counted it yet. *)
LEMMA CountingsFrame ==
  ASSUME NEW o, counted' = counted, \A v \in Vouchers \ Issued : counted[v] = 0,
         \A v \in Issued : v \in Issued' /\ claims'[v].offer = claims[v].offer
  PROVE  Countings(o)' = Countings(o)
<1> DEFINE S == {w \in Issued : claims[w].offer = o}
           T == {w \in Issued' : claims'[w].offer = o}
<1>1. S \subseteq T /\ \A v \in T \ S : v \in Vouchers \ Issued
  BY DEF Issued
<1>2. \A v \in T \ S : counted[v] = 0
  BY <1>1
<1>3. Countings(o) = UNION {{v} \X (1 .. counted[v]) : v \in S}
  BY DEF Countings
<1>4. Countings(o)' = UNION {{v} \X (1 .. counted[v]) : v \in T}
  BY DEF Countings
<1> HIDE DEF S, T
<1>5. QED
  BY <1>1, <1>2, <1>3, <1>4, UnitsSame

(* While the countings stay, so does the invariant, if no offer and no copy  *)
(* takes a count from elsewhere than an offer or a copy of it.               *)
LEMMA TallyFrame ==
  ASSUME Inv, TallyInv, counted' = counted,
         \A v \in Issued : v \in Issued' /\ claims'[v].offer = claims[v].offer,
         \A o \in OfferIds :
           \/ offers'[o].redemptionCount = offers[o].redemptionCount
           \/ \E e \in Editors : /\ edit[e].offer = o
                                 /\ offers'[o].redemptionCount = edit[e].copy.redemptionCount,
         \A e \in Editors :
           \/ edit'[e] = IdleEdit
           \/ /\ edit'[e].offer = edit[e].offer
              /\ edit'[e].copy.redemptionCount = edit[e].copy.redemptionCount
           \/ /\ edit'[e].offer \in OfferIds
              /\ edit'[e].copy.redemptionCount = offers[edit'[e].offer].redemptionCount
  PROVE  TallyInv'
<1>1. \A o \in OfferIds : Countings(o)' = Countings(o)
  BY CountingsFrame DEF TallyInv
<1>2. ASSUME NEW o \in OfferIds PROVE Tallied(o)'
  BY <1>1, <1>2 DEF TallyInv, Tallied
<1>3. ASSUME NEW e \in Editors, NEW o \in OfferIds, edit'[e].offer = o
      PROVE  edit'[e].copy.redemptionCount <= Cardinality(Countings(o)')
  <2>1. Cardinality(Countings(o)) \in Nat
    BY FS_CardinalityType DEF TallyInv, Tallied
  <2>2. IdleEdit.copy.redemptionCount = 0
    BY DEF IdleEdit, NoRowCopy
  <2>3. QED
    BY <1>1, <1>3, <2>1, <2>2 DEF TallyInv, Tallied
<1>4. \A v \in Vouchers \ Issued' : counted'[v] = 0
  BY DEF TallyInv, Issued
<1>5. QED
  BY <1>2, <1>3, <1>4 DEF TallyInv

LEMMA TallyNext == Inv /\ TallyInv /\ [Next]_vars => TallyInv'
<1> SUFFICES ASSUME Inv, TallyInv, [Next]_vars PROVE TallyInv'
  OBVIOUS
<1> USE DEF Inv, TypeOK
(* A request leaves the offers and the editors alone. *)
<1>a. ASSUME UNCHANGED <<offers, edit, counted>>,
             \A v \in Issued : v \in Issued' /\ claims'[v].offer = claims[v].offer
      PROVE  TallyInv'
  BY <1>a, TallyFrame
(* An editor takes a step that writes to no offer. *)
<1>b. ASSUME NEW e \in Editors, NEW x, UNCHANGED <<offers, claims, counted>>,
             edit' = [edit EXCEPT ![e] = x],
             \/ x = IdleEdit
             \/ /\ x.offer = edit[e].offer
                /\ x.copy.redemptionCount = edit[e].copy.redemptionCount
             \/ /\ x.offer \in OfferIds
                /\ x.copy.redemptionCount = offers[x.offer].redemptionCount
      PROVE  TallyInv'
  <2>1. \A d \in Editors : edit'[d] = IF d = e THEN x ELSE edit[d]
    BY <1>b
  <2>2. \A v \in Issued : v \in Issued' /\ claims'[v].offer = claims[v].offer
    BY <1>b DEF Issued
  <2>3. QED
    BY <1>b, <2>1, <2>2, TallyFrame
<1>1. ASSUME NEW e \in Editors, NEW o \in OfferIds, NEW op, EditStart(e, op, o)
      PROVE  TallyInv'
  <2> DEFINE x == [pc |-> "verify", op |-> op, offer |-> o,
                   copy |-> offers[o], dirty |-> {}]
  <2>1. x.offer = o /\ x.copy = offers[o] /\ edit' = [edit EXCEPT ![e] = x]
    BY <1>1 DEF EditStart
  <2> HIDE DEF x
  <2>2. QED
    BY <1>1, <1>b, <2>1 DEF EditStart
<1>2. ASSUME NEW e \in Editors, NEW o \in OfferIds, NEW op, SyncToggle(e, op, o)
      PROVE  TallyInv'
  <2> DEFINE copy == Toggled(offers[o], op)
             x == [pc |-> "saveSelect", op |-> op, offer |-> o, dirty |-> {},
                   copy |-> copy]
  <2>1. copy.redemptionCount = offers[o].redemptionCount
    BY DEF Toggled, OfferRow
  <2>2. x.offer = o /\ x.copy = copy /\ edit' = [edit EXCEPT ![e] = x]
    BY <1>2 DEF SyncToggle
  <2> HIDE DEF copy, x
  <2>3. QED
    BY <1>2, <1>b, <2>1, <2>2 DEF SyncToggle
<1>3. ASSUME NEW e \in Editors, EditVerify(e)
      PROVE  TallyInv'
  <2> DEFINE q == edit[e]
  <2>1. q \in Edit /\ q.copy \in OfferRow
    BY DEF Edit
  <2>2. UNCHANGED <<offers, claims, counted>>
    BY <1>3 DEF EditVerify
  <2>3. CASE FinishEdit(e)
    BY <1>b, <2>2, <2>3 DEF FinishEdit
  <2>4. CASE edit' = [edit EXCEPT ![e].pc = "patch"]
    <3> DEFINE x == [q EXCEPT !.pc = "patch"]
    <3>1. x.offer = q.offer /\ x.copy = q.copy /\ edit' = [edit EXCEPT ![e] = x]
      BY <2>1, <2>4 DEF Edit
    <3> HIDE DEF x
    <3>2. QED
      BY <1>b, <2>2, <3>1
  <2>5. CASE edit' = [edit EXCEPT ![e].pc = "saveSelect", ![e].copy = Toggled(@, q.op)]
    <3> DEFINE copy == Toggled(q.copy, q.op)
               x == [q EXCEPT !.pc = "saveSelect", !.copy = copy]
    <3>1. copy.redemptionCount = q.copy.redemptionCount
      BY <2>1 DEF Toggled, OfferRow
    <3>2. x.offer = q.offer /\ x.copy = copy /\ edit' = [edit EXCEPT ![e] = x]
      BY <2>1, <2>5 DEF Edit
    <3> HIDE DEF copy, x
    <3>3. QED
      BY <1>b, <2>2, <3>1, <3>2
  <2>6. CASE edit' = [edit EXCEPT ![e].pc = "saveSelect", ![e].copy = Deleted(@)]
    <3> DEFINE copy == Deleted(q.copy)
               x == [q EXCEPT !.pc = "saveSelect", !.copy = copy]
    <3>1. copy.redemptionCount = q.copy.redemptionCount
      BY <2>1 DEF Deleted, OfferRow
    <3>2. x.offer = q.offer /\ x.copy = copy /\ edit' = [edit EXCEPT ![e] = x]
      BY <2>1, <2>6 DEF Edit
    <3> HIDE DEF copy, x
    <3>3. QED
      BY <1>b, <2>2, <3>1, <3>2
  <2>7. QED
    BY <1>3, <2>3, <2>4, <2>5, <2>6 DEF EditVerify
<1>4. ASSUME NEW e \in Editors, EditPatch(e)
      PROVE  TallyInv'
  <2> DEFINE o == edit[e].offer
  <2>1. o \in OfferIds /\ edit' = [edit EXCEPT ![e] = IdleEdit]
    BY <1>4 DEF EditPatch, FinishEdit, Edit
  <2>2. UNCHANGED <<claims, counted>>
    BY <1>4 DEF EditPatch
  <2>3. ASSUME NEW p \in OfferIds
        PROVE  offers'[p].redemptionCount = offers[p].redemptionCount
    <3>1. offers[p] \in OfferRow
      OBVIOUS
    <3>2. CASE \E m \in Caps : offers' = [offers EXCEPT ![o].maxRedemptions = m]
      BY <3>1, <3>2 DEF OfferRow
    <3>3. CASE \E t \in Times : offers' = [offers EXCEPT ![o].expiresAt = t]
      BY <3>1, <3>3 DEF OfferRow
    <3>4. QED
      BY <1>4, <3>2, <3>3 DEF EditPatch
  <2>4. \A d \in Editors : edit'[d] = IF d = e THEN IdleEdit ELSE edit[d]
    BY <2>1
  <2>5. \A v \in Issued : v \in Issued' /\ claims'[v].offer = claims[v].offer
    BY <2>2 DEF Issued
  <2>6. QED
    BY <2>2, <2>3, <2>4, <2>5, TallyFrame
<1>5. ASSUME NEW e \in Editors, EditSaveSelect(e)
      PROVE  TallyInv'
  <2>1. UNCHANGED <<offers, claims, counted>> /\ edit[e] \in Edit
    BY <1>5 DEF EditSaveSelect
  <2>2. PICK dirty : edit' = [edit EXCEPT ![e] =
                       IF dirty = {} THEN IdleEdit
                       ELSE [edit[e] EXCEPT !.pc = "saveUpdate", !.dirty = dirty]]
    BY <1>5 DEF EditSaveSelect
  <2> DEFINE x == [edit[e] EXCEPT !.pc = "saveUpdate", !.dirty = dirty]
  <2>3. x.offer = edit[e].offer /\ x.copy = edit[e].copy
    BY <2>1 DEF Edit
  <2>4. edit' = [edit EXCEPT ![e] = IdleEdit] \/ edit' = [edit EXCEPT ![e] = x]
    BY <2>2
  <2> HIDE DEF x
  <2>5. QED
    BY <1>b, <2>1, <2>3, <2>4
<1>6. ASSUME NEW e \in Editors, EditSaveUpdate(e)
      PROVE  TallyInv'
  <2> DEFINE o == edit[e].offer
  <2>1. /\ o \in OfferIds /\ edit' = [edit EXCEPT ![e] = IdleEdit]
        /\ UNCHANGED <<claims, counted>>
    BY <1>6 DEF EditSaveUpdate, FinishEdit, Edit
  <2>2. /\ offers'[o].redemptionCount
             \in {offers[o].redemptionCount, edit[e].copy.redemptionCount}
        /\ \A p \in OfferIds : p # o => offers'[p] = offers[p]
    BY <1>6, <2>1 DEF EditSaveUpdate
  <2>3. \A p \in OfferIds :
          \/ offers'[p].redemptionCount = offers[p].redemptionCount
          \/ \E d \in Editors : /\ edit[d].offer = p
                                /\ offers'[p].redemptionCount = edit[d].copy.redemptionCount
    BY <2>2
  <2>4. \A d \in Editors : edit'[d] = IF d = e THEN IdleEdit ELSE edit[d]
    BY <2>1
  <2>5. \A v \in Issued : v \in Issued' /\ claims'[v].offer = claims[v].offer
    BY <2>1 DEF Issued
  <2>6. QED
    BY <2>1, <2>3, <2>4, <2>5, TallyFrame
<1>7. ASSUME NEW c \in Consumers, ClaimInsert(c)
      PROVE  TallyInv'
  <2>1. PICK v \in Vouchers :
          claims' = IF CodeFree(v)
                      THEN [claims EXCEPT ![v] =
                             [offer |-> req[c].offer, user |-> req[c].user,
                              status |-> "active", savingValue |-> 0]]
                      ELSE claims
    BY <1>7 DEF ClaimInsert
  <2>2. \A x \in Issued : claims'[x] = claims[x] /\ x \in Issued'
    BY <2>1 DEF CodeFree, Issued
  <2>3. QED
    BY <1>7, <1>a, <2>2 DEF ClaimInsert
<1>8. ASSUME NEW c \in Consumers, RedeemSaveUpdate(c)
      PROVE  TallyInv'
  <2> DEFINE v == req[c].voucher
  <2>1. v \in Vouchers /\ v \in Issued
    BY <1>8 DEF RedeemSaveUpdate, HoldsOwnVoucher, PastRefusals, Req
  <2> DEFINE new == [offer |-> claims[v].offer, user |-> claims[v].user,
        status |-> IF "status" \in req[c].dirty THEN "redeemed" ELSE claims[v].status,
        savingValue |-> IF "savingValue" \in req[c].dirty
                          THEN req[c].savingValue ELSE claims[v].savingValue]
  <2>2. claims' = [claims EXCEPT ![v] = new] /\ new.offer = claims[v].offer
    BY <1>8 DEF RedeemSaveUpdate
  <2>3. new \in Claim
    BY <2>1 DEF Req, Claim, Issued
  <2> HIDE DEF new
  <2>4. \A x \in Issued : x \in Issued' /\ claims'[x].offer = claims[x].offer
    BY <2>1, <2>2, <2>3, OffersAssumption DEF Issued
  <2>5. QED
    BY <1>8, <1>a, <2>4 DEF RedeemSaveUpdate
(* The count: the offer of the voucher and its countings rise together. *)
<1>9. ASSUME NEW c \in Consumers, RedeemCount(c)
      PROVE  TallyInv'
  <2>1. PICK v \in Issued, o \in OfferIds : v = req[c].voucher /\ o = claims[v].offer
    BY <1>9 DEF RedeemCount, HoldsOwnVoucher, PastRefusals, Req, Issued, Claim
  <2>2. /\ UNCHANGED <<claims, edit>> /\ Issued' = Issued
        /\ offers' = [offers EXCEPT ![o] = CountedUp(@)]
        /\ counted' = [counted EXCEPT ![v] = @ + 1]
    BY <1>9, <2>1 DEF RedeemCount, Issued
  <2>3. /\ counted[v] \in Nat /\ counted'[v] = counted[v] + 1
        /\ \A x \in Vouchers : x # v => counted'[x] = counted[x]
    BY <2>2 DEF Issued
  <2>4. /\ offers'[o].redemptionCount = offers[o].redemptionCount + 1
        /\ \A p \in OfferIds : p # o => offers'[p] = offers[p]
        /\ offers[o].redemptionCount \in Nat
    BY <2>1, <2>2 DEF CountedUp, OfferRow
  <2>5. ASSUME NEW p \in OfferIds, p # o
        PROVE  Countings(p)' = Countings(p)
    <3> DEFINE S == {w \in Issued : claims[w].offer = p}
    <3>1. \A x \in S : counted'[x] = counted[x]
      BY <2>1, <2>3, <2>5 DEF Issued
    <3>2. Countings(p) = UNION {{w} \X (1 .. counted[w]) : w \in S}
      BY DEF Countings
    <3>3. Countings(p)' = UNION {{w} \X (1 .. counted'[w]) : w \in S}
      BY <2>2 DEF Countings
    <3> HIDE DEF S
    <3>4. QED
      BY <3>1, <3>2, <3>3, UnitsSame
  <2>6. Countings(o)' = Countings(o) \cup {<<v, counted[v] + 1>>}
    <3> DEFINE S == {w \in Issued : claims[w].offer = o}
    <3>1. v \in S /\ \A x \in S : x # v => counted'[x] = counted[x]
      BY <2>1, <2>3 DEF Issued
    <3>2. Countings(o) = UNION {{w} \X (1 .. counted[w]) : w \in S}
      BY DEF Countings
    <3>3. Countings(o)' = UNION {{w} \X (1 .. counted'[w]) : w \in S}
      BY <2>2 DEF Countings
    <3> HIDE DEF S
    <3>4. QED
      BY <2>3, <3>1, <3>2, <3>3, UnitsRaised
  <2>7. /\ IsFiniteSet(Countings(o)') /\ Cardinality(Countings(o)) \in Nat
        /\ Cardinality(Countings(o)') = Cardinality(Countings(o)) + 1
    <3>1. IsFiniteSet(Countings(o))
      BY <2>1 DEF TallyInv, Tallied
    <3>2. <<v, counted[v] + 1>> \notin Countings(o)
      BY <2>3 DEF Countings
    <3>3. QED
      BY <2>6, <3>1, <3>2, FS_AddElement, FS_CardinalityType
  <2>8. ASSUME NEW p \in OfferIds PROVE Tallied(p)'
    <3>1. CASE p = o
      BY <2>1, <2>4, <2>7, <3>1 DEF TallyInv, Tallied
    <3>2. CASE p # o
      BY <2>4, <2>5, <3>2 DEF TallyInv, Tallied
    <3>3. QED
      BY <3>1, <3>2
  <2>9. ASSUME NEW e \in Editors, NEW p \in OfferIds, edit'[e].offer = p
        PROVE  edit'[e].copy.redemptionCount <= Cardinality(Countings(p)')
    <3>1. edit[e].copy.redemptionCount \in Nat
      BY DEF Edit, OfferRow
    <3>2. edit[e].copy.redemptionCount <= Cardinality(Countings(p))
      BY <2>2, <2>9 DEF TallyInv
    <3>3. QED
      BY <2>2, <2>5, <2>7, <3>1, <3>2
  <2>10. \A x \in Vouchers \ Issued' : counted'[x] = 0
    BY <2>1, <2>2, <2>3 DEF TallyInv
  <2>11. QED
    BY <2>8, <2>9, <2>10 DEF TallyInv
<1>10. ASSUME NEW c \in Consumers, ClaimRequest(c) \/ RedeemRequest(c) \/ Fail(c),
              ~ClaimInsert(c), ~RedeemSaveUpdate(c), ~RedeemCount(c)
       PROVE  TallyInv'
  <2>1. UNCHANGED <<offers, edit, counted, claims>>
    BY <1>10, Zenon
       DEF ClaimRequest, ClaimStart, ClaimFindActive, RedeemRequest,
           RedeemStart, RedeemFindVoucher, RedeemReread, RedeemAnalytics,
           RedeemAnalyticsSave, RedeemSaveSelect, Fail
  <2>2. \A x \in Issued : x \in Issued' /\ claims'[x].offer = claims[x].offer
    BY <2>1 DEF Issued
  <2>3. QED
    BY <1>a, <2>1, <2>2
<1>11. CASE Tick \/ UNCHANGED vars
  <2>1. UNCHANGED <<offers, edit, counted, claims>>
    BY <1>11 DEF Tick, vars, offerVars
  <2>2. \A x \in Issued : x \in Issued' /\ claims'[x].offer = claims[x].offer
    BY <2>1 DEF Issued
  <2>3. QED
    BY <1>a, <2>1, <2>2
<1>12. QED
  BY <1>1, <1>2, <1>3, <1>4, <1>5, <1>6, <1>7, <1>8, <1>9, <1>10, <1>11 DEF Next, EditRequest

(* However stale the entity an edit saves, the stored count never exceeds    *)
(* the times the offer's vouchers were counted (redeemOffer, toggleOffer,    *)
(* deleteOffer, processOfferToggle), for any number of edits and requests.   *)
THEOREM CountsAreReal == Spec => []CountNotInvented
<1>1. Init => TallyInv
  <2> SUFFICES ASSUME Init PROVE TallyInv
    OBVIOUS
  <2>1. Issued = {}
    BY DEF Init, Issued
  <2>2. ASSUME NEW o \in OfferIds PROVE Countings(o) = {} /\ offers[o].redemptionCount = 0
    <3>1. Countings(o) = {}
      BY <2>1 DEF Countings
    <3>2. offers[o] \in NewOffers
      BY DEF Init
    <3>3. QED
      BY <3>1, <3>2 DEF NewOffers
  <2>3. \A e \in Editors : edit[e].copy.redemptionCount = 0
    BY DEF Init, IdleEdit, NoRowCopy
  <2>4. \A v \in Vouchers : counted[v] = 0
    BY DEF Init
  <2>5. \A o \in OfferIds : IsFiniteSet(Countings(o)) /\ Cardinality(Countings(o)) = 0
    BY <2>2, FS_EmptySet
  <2>6. QED
    BY <2>2, <2>3, <2>4, <2>5 DEF TallyInv, Tallied
<1>2. TallyInv => CountNotInvented
  BY DEF TallyInv, Tallied, CountNotInvented
<1>3. QED
  BY <1>1, <1>2, InvInit, InvNext, TallyNext, PTL DEF Spec
=============================================================================
