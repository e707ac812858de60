---------------------------- MODULE MC_TestBackend ----------------------------
EXTENDS TestBackend

CONSTANTS a, e1

MCBytes == {a, Tilde}

(* Addresses of one byte, one of them the separator byte.                  *)
MCOwners == {<<a>>, <<Tilde>>}

(* Keys with and without the separator byte, of lengths 0 to 2.            *)
MCKeys == {<<>>, <<a>>, <<Tilde>>, <<Tilde, a>>}

MCValues == {<<>>, <<a>>}

MCEventTypes == {e1}
=============================================================================
