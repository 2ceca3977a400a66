------------------------------ MODULE RunOnce ------------------------------
(***************************************************************************)
(* What the leader's idempotency cache promises for the key of one call:    *)
(* it runs, it ends, and it does not run again until the time in which a    *)
(* re-send of it may still come is over.                                    *)
(***************************************************************************)
CONSTANT Keys

VARIABLE phase   \* each key: "fresh", "running", or "kept" after it ran

Init == phase = [k \in Keys |-> "fresh"]

Start(k) == phase[k] = "fresh" /\ phase' = [phase EXCEPT ![k] = "running"]

End(k) == phase[k] = "running" /\ phase' = [phase EXCEPT ![k] = "kept"]

(* Time passes for all keys alike, so several may be forgotten together.    *)
Forget(ks) ==
    /\ \A k \in ks : phase[k] = "kept"
    /\ phase' = [k \in Keys |-> IF k \in ks THEN "fresh" ELSE phase[k]]

Next ==
    \/ \E k \in Keys : Start(k) \/ End(k)
    \/ \E ks \in SUBSET Keys : Forget(ks)

Spec == Init /\ [][Next]_phase
=============================================================================
