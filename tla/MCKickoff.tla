------------------------------ MODULE MCKickoff ------------------------------
(* Two kickoffs of one project, one of another, and a push to the first.    *)
EXTENDS Kickoff

CONSTANTS k1, k2, k3, q1

MCProject == [r \in {k1, k2, k3, q1} |-> IF r = k3 THEN "b" ELSE "a"]
=============================================================================
