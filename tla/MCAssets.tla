------------------------------ MODULE MCAssets ------------------------------
(* Fixed assets for model checking: one asset of each method.              *)
EXTENDS Assets, TLC

CONSTANT WrittenDown
Methods == [a \in AssetIds |-> IF a = WrittenDown THEN "WDV" ELSE "SLM"]
TwoThirds == <<2, 3>>
NewPrice == {<<3, 0>>}
NextPrice == {<<3, 1>>}

(* Requests are alike.                                                      *)
Symmetry == Permutations(Sessions)

=============================================================================
