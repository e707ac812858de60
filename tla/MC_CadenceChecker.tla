------------------------- MODULE MC_CadenceChecker -------------------------
(* Model-checking instance: two identifiers, each undeclared, an Int, an   *)
(* array of Int, a resource or an array of resources, moved or destroyed   *)
(* or not, and every statement of up to two nested index expressions over *)
(* identifiers and literals.                                               *)
EXTENDS CadenceChecker

CONSTANTS u, w

MCVars == {u, w}
=============================================================================
