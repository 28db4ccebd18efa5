---------------------------- MODULE MCOpportunities ----------------------------
(* Small instances of Opportunities for TLC. *)
EXTENDS Opportunities, TLC

CONSTANTS p1, p2, p3, h1, g1

\* Only the Runtime with a pool attends to anything.
MCInterest == [h \in Hosts |-> IF h = h1 THEN Packages ELSE {}]

\* The default of each kind of publication and of each kind of pool.
MCElastic  == [elastic : {TRUE}, parallel : {FALSE}]
MCPolicies == MCElastic \cup [elastic : {FALSE}, parallel : {TRUE}]
================================================================================
