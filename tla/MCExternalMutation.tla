------------------------- MODULE MCExternalMutation -------------------------
(* Instances of ExternalMutation: two ratifications of one store, and a     *)
(* promotion that replaces the medulla's copy and then the project's.       *)
EXTENDS ExternalMutation, TLC

CONSTANTS r1, r2, p1, blocks, medulla, source

MCFiles == (r1 :> <<blocks>>) @@ (r2 :> <<blocks>>) @@ (p1 :> <<medulla, source>>)
=============================================================================
