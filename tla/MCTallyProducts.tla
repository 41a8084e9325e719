-------------------------- MODULE MCTallyProducts ---------------------------
(* TLC instances of TallyProducts.                                         *)
EXTENDS TallyProducts, TLC

CONSTANTS name1, name2, code1, code2, tax1

\* Each name makes a code of its own.
CodeOfName == name1 :> code1 @@ name2 :> code2

\* The product that an import would create is already made by hand.
OneByHand == {<<code1, [name |-> name1, tax |-> tax1]>>}
=============================================================================
