--------------------------- MODULE MCNodeCommands ---------------------------
(* TLC instances of NodeCommands.                                          *)
EXTENDS NodeCommands, TLC

\* One franchise submits every receipt.
OwnerOne == [r \in Receipt |-> CHOOSE n \in Node : TRUE]

Symmetry == Permutations(Admin)
=============================================================================
