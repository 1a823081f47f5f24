------------------------------ MODULE MCOffers ------------------------------
(* Instances of Offers for TLC. *)
EXTENDS Offers

CONSTANTS o1, o2, SavingOne, SavingTwo

MCSaving == [o \in OfferIds |-> IF o = o1 THEN SavingOne ELSE SavingTwo]
=============================================================================
