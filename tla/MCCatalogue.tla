---------------------------- MODULE MCCatalogue ----------------------------
(* An instance of Catalogue for TLC: one seeded venue has an owner. The    *)
(* servers, and the slots of requests, are interchangeable.                *)
EXTENDS Catalogue, TLC

MCSeedOwner == [v \in Seeded |-> CHOOSE o \in Owners : TRUE]
MCSeedPercent == [v \in Seeded |-> CHOOSE p \in Percents : \A q \in Percents : q <= p]
MCNoLevel == 0 - 1
Interchangeable == Permutations(Servers) \cup Permutations(Slots)
=============================================================================
