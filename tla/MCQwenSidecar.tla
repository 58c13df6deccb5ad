--------------------------- MODULE MCQwenSidecar ---------------------------
(* One request at a time, the default for a GPU provider, or two; three process
   slots, so that a dropped sidecar, its successor and a terminated one coexist. *)
EXTENDS QwenSidecar

CONSTANTS c1, c2, p1, p2, p3

OneCaller == {c1}
TwoCallers == {c1, c2}
ThreeProcs == {p1, p2, p3}
=============================================================================
