--------------------------- MODULE MCConfigStore ----------------------------
(* ConfigStore with model values; the ids and the keys are interchangeable,*)
(* and so are the exchanges.                                               *)
EXTENDS ConfigStore, TLC

ConfigSymmetry ==
    Permutations(Account) \cup Permutations(Exchange) \cup Permutations(Key)
============================================================================
