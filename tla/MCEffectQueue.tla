--------------------------- MODULE MCEffectQueue ---------------------------
(* Instances of EffectQueue for TLC. *)
EXTENDS EffectQueue

MCKinds == {"publish", "money", "broadcast"}
MCLimit == [k \in MCKinds |-> IF k = "broadcast" THEN 2 ELSE 0]
MCWatched == {"publish", "money"}
=============================================================================
