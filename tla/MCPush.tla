------------------------------- MODULE MCPush -------------------------------
(* An instance of Push for TLC: no quiet hours, or from the last instant of *)
(* the day to the end of the first of the next. Batches are interchangeable. *)
EXTENDS Push, TLC

Slots == Permutations(Batches)
MCQuietHours == {<<>>, <<2, 1>>}
=============================================================================
