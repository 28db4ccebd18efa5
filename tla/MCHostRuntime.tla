----------------------------- MODULE MCHostRuntime -----------------------------
(* Small instances of HostRuntime for TLC. *)
EXTENDS HostRuntime, TLC

CONSTANTS p1, p2, p3, h1

\* The first Host attends to every Kind, another one to all but one Package's.
MCInterest == [h \in Hosts |-> IF h = h1 THEN Packages ELSE Packages \ {p1}]
================================================================================
