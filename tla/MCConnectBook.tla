--------------------------- MODULE MCConnectBook ---------------------------
(* Small instances of ConnectBook.                                         *)
EXTENDS ConnectBook, TLC

CONSTANTS a, b, c, r1

\* Connections differ only in their names.
Symmetry == Permutations({a, b, c})

NumberedGroups == {-1, 1, 2}
=============================================================================
