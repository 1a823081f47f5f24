------------------------------ MODULE Voucher ------------------------------
(***************************************************************************)
(* What a voucher code promises, whatever requests run concurrently: it is *)
(* issued once, to one customer for one offer; it is worth nothing until   *)
(* it is redeemed; redeemed is final. The value recorded for a redeemed    *)
(* voucher is the one thing a racing redeem may still replace.             *)
(***************************************************************************)
EXTENDS Naturals

CONSTANTS OfferIds, Users, Vouchers, NoClaim,
          Values   \* what redeeming an offer can be worth

VARIABLE ledger

AbstractInit == ledger = [v \in Vouchers |-> NoClaim]

Issue(v, o, u) ==
  /\ ledger[v] = NoClaim
  /\ ledger' = [ledger EXCEPT ![v] =
       [offer |-> o, user |-> u, status |-> "active", savingValue |-> 0]]

Redeem(v, s) ==
  /\ ledger[v] # NoClaim
  /\ ledger' = [ledger EXCEPT ![v] =
       [offer |-> ledger[v].offer, user |-> ledger[v].user,
        status |-> "redeemed", savingValue |-> s]]

AbstractNext ==
  \E v \in Vouchers :
    \/ \E o \in OfferIds, u \in Users : Issue(v, o, u)
    \/ \E s \in Values : Redeem(v, s)

AbstractSpec == AbstractInit /\ [][AbstractNext]_ledger
=============================================================================
