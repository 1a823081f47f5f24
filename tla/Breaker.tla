------------------------------ MODULE Breaker ------------------------------
(***************************************************************************)
(* What withRetry promises the caller of an external API: calls are let    *)
(* through until Threshold of them have failed in a row; then none is let  *)
(* through for ResetTimeout, whatever the time between the failures; a     *)
(* call that answers ends the count. One call at a time.                   *)
(***************************************************************************)
EXTENDS Integers

CONSTANTS Threshold, ResetTimeout

VARIABLES
  row,      \* calls failed in a row, counted up to Threshold
  refuse,   \* for how long calls will still be refused
  busy      \* a call has been let through and has not ended

vars == <<row, refuse, busy>>

Init == row = 0 /\ refuse = 0 /\ busy = FALSE

LetThrough ==
  /\ ~busy /\ refuse = 0
  /\ busy' = TRUE
  /\ UNCHANGED <<row, refuse>>

Answered == busy /\ busy' = FALSE /\ row' = 0 /\ UNCHANGED refuse

Failed ==
  /\ busy /\ busy' = FALSE
  /\ row' = IF row < Threshold THEN row + 1 ELSE row
  /\ refuse' = IF row' = Threshold THEN ResetTimeout ELSE 0

Wait == refuse > 0 /\ refuse' = refuse - 1 /\ UNCHANGED <<row, busy>>

Next == LetThrough \/ Answered \/ Failed \/ Wait

Spec == Init /\ [][Next]_vars
=============================================================================
