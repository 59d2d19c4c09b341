----------------------------- MODULE MCHubFetch -----------------------------
(* HubFetch with two versions of the same size and one that is shorter.     *)
EXTENDS HubFetch
CONSTANTS p1, p2

MCSize == [v \in Versions |-> IF v = 3 THEN 2 ELSE 3]
MCAlways == [force : {FALSE}, verify : {TRUE}, adopt : {TRUE}]
MCVerified == [force : BOOLEAN, verify : {TRUE}, adopt : BOOLEAN]
=============================================================================
