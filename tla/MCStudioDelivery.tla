--------------------------- MODULE MCStudioDelivery ---------------------------
(* One event for two workflows, swept by two workers.                         *)
EXTENDS StudioDelivery, TLC

CONSTANTS e1, w1, w2, p1, p2

Sweeps == Permutations({p1, p2})
================================================================================
