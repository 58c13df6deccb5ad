----------------------------- MODULE MCLifespan -----------------------------
(* A GPU provider with a sidecar that is required, a second one with a sidecar
   that is not and that has no voices, a remote one, configured twice, with two
   voices of which one is gone, and an id nobody knows.                        *)
EXTENDS Lifespan

List == <<"qwen3-0.6b", "typo", "edge", "qwen3-1.7b", "edge">>
Known == {"qwen3-0.6b", "qwen3-1.7b", "edge", "fake"}
QwenRequired == {"qwen3-0.6b"}
Qwens == {"qwen3-0.6b", "qwen3-1.7b"}
Catalogue == [p \in Known |-> CASE p = "edge" -> {"aria", "polina"}
                                [] p = "qwen3-0.6b" -> {"ref:en-owen"}
                                [] OTHER -> {}]
Gone == {"polina"}
=============================================================================
