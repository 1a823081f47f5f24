----------------------------- MODULE OfferPull -----------------------------
(***************************************************************************)
(* A phone that keeps the offers and refreshes them with                   *)
(* GET /offers/sync?since=..., while businesses edit them                  *)
(* (getOffersSyncSince of modules/sync). Every offer was created at        *)
(* instant 0; the phone sends the lastSync of its previous answer.         *)
(***************************************************************************)
EXTENDS MCOffers

CONSTANT NotHeld     \* the phone holds no copy of the offer

VARIABLES
  phone,     \* per offer, the isActive the phone holds
  lastSync,  \* lastSync of the phone's last answer
  current    \* history: no offer was written since the last answer

Created == 0
\* WHERE "createdAt" >= since; an offer past its end is named in expired.
Selected == {o \in OfferIds : Created >= lastSync}

Pull ==
  /\ phone' = [o \in OfferIds |->
       IF o \notin Selected THEN phone[o]
       ELSE IF Expired(offers[o]) THEN NotHeld ELSE offers[o].isActive]
  /\ lastSync' = now
  /\ current' = TRUE
  /\ UNCHANGED vars

PullInit == Init /\ phone = [o \in OfferIds |-> NotHeld] /\ lastSync = 0 /\ current = FALSE
PullNext ==
  \/ Pull
  \/ Next /\ current' = (current /\ offers' = offers) /\ UNCHANGED <<phone, lastSync>>
PullSpec == PullInit /\ [][PullNext]_<<vars, phone, lastSync, current>>

(* "GET /offers/sync?since=TIMESTAMP -> only changed offers": an answer      *)
(* brings the phone every change made to an offer since the last answer.   *)
(* The code selects by the time of creation: what is done to an offer that  *)
(* was created before the last answer (switched off, given a new expiry)   *)
(* never reaches the phone.                                                *)
OfferPullBrings ==
  current => \A o \in OfferIds : ~Expired(offers[o]) => phone[o] = offers[o].isActive
=============================================================================
