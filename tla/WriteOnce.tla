----------------------------- MODULE WriteOnce -----------------------------
(***************************************************************************)
(* What a OnceLock promises: a cell that is empty until one value is       *)
(* written, and holds that value from then on.                             *)
(***************************************************************************)
CONSTANTS Values, Empty

VARIABLE cell

Init == cell = Empty

Write(v) == cell = Empty /\ cell' = v

Spec == Init /\ [][\E v \in Values : Write(v)]_cell
=============================================================================
