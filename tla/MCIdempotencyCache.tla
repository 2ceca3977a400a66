------------------------ MODULE MCIdempotencyCache ------------------------
(* Instances of the idempotency cache for TLC. *)
EXTENDS IdempotencyCache

(* The defaults, 45 s, 180 s and 630 s, in ticks: only their order matters. *)
ResumeWindowTicks == 1
TtlTicks == 2
PatienceTicks == 3
=============================================================================
