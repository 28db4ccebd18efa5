------------------------------- MODULE MCTickets ------------------------------
(* A small instance of Tickets for TLC. *)
EXTENDS Tickets, TLC

CONSTANTS c1, c2

MCSymmetry == Permutations(Callers)
===============================================================================
