-------------------------- MODULE MCTallySettings ---------------------------
(* TLC instances of TallySettings.                                         *)
EXTENDS TallySettings, TLC

CONSTANTS g1, g2, m1

\* A configuration with one master, and one that leaves a ledger blank too.
NeedsOfTwo == g1 :> {m1} @@ g2 :> {m1, NoMaster}

\* No products, or one whose unit or HSN code is blank.
BlankCatalog == {{}, {m1, NoMaster}}

Symmetry == Permutations(Company) \cup Permutations(Admin)
=============================================================================
