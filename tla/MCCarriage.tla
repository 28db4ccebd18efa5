------------------------------ MODULE MCCarriage ------------------------------
(* A small instance of Carriage for TLC. *)
EXTENDS Carriage, TLC

CONSTANTS p1, l1, l2

\* Every lodgement of one Package.
MCOnePackage == [l \in Lodgements |-> p1]
===============================================================================
