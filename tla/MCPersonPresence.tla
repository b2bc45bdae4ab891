--------------------------- MODULE MCPersonPresence ---------------------------
(* Three people, one of whom may be deleted and brought back, and three    *)
(* delays.  The other two are interchangeable.                             *)
EXTENDS PersonPresence, TLC

CONSTANTS anna, ben, cora
MCPersons == {anna, ben, cora}
MCConfigs ==
  { [people |-> {anna, ben, cora}, absence_seconds |-> 1],
    [people |-> {anna, ben}, absence_seconds |-> 2],
    [people |-> {anna, ben, cora}, absence_seconds |-> 3] }
Symmetry == Permutations({anna, ben})
=============================================================================
