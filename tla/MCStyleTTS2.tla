---------------------------- MODULE MCStyleTTS2 ----------------------------
(* Three requests and the single slot of a GPU provider: one whose thread was
   abandoned, one with the slot, one that waits or loads.                     *)
EXTENDS StyleTTS2

CONSTANTS r1, r2, r3

ThreeCallers == {r1, r2, r3}
=============================================================================
