------------------------- MODULE MCServerLifecycle -------------------------
(* Small instances of ServerLifecycle.                                     *)
EXTENDS ServerLifecycle

(* The last three migrations: 024 and 026 may run twice, 025 may not.      *)
TwiceIsFine == {1, 3}
=============================================================================
