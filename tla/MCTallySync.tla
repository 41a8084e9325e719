---------------------------- MODULE MCTallySync ----------------------------
(* TLC instances of TallySync.  With three vouchers that can always be     *)
(* built the vouchers are interchangeable.  With two, the first cannot be  *)
(* built while the settings are incomplete.                                *)
EXTENDS TallySync, TLC

CONSTANTS b1, b2, b3, good, incomplete

TwoBatches   == {b1, b2}
ThreeBatches == {b1, b2, b3}

OneConfig    == {good}
TwoConfigs   == {good, incomplete}

AlwaysComplete     == {}
IncompleteSettings == {<<b1, incomplete>>}

Symmetry == Permutations(Batch)
=============================================================================
