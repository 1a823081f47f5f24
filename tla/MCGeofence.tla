----------------------------- MODULE MCGeofence -----------------------------
(* Instances of Geofence for TLC: checks and venues are interchangeable. *)
EXTENDS Geofence, TLC

Interchangeable == Permutations(Slots) \cup Permutations(Venues)
=============================================================================
