----------------------------- MODULE MCRendezvous -----------------------------
(* A small instance of Rendezvous for TLC: a peer that moves (f1), announces *)
(* a further move ahead (f2) and contradicts itself (x2).                    *)
EXTENDS Rendezvous

CONSTANTS q, gi, f1, f2, x2

MCGenesis       == [p \in Peers |-> gi]
MCPorterOf      == [f \in Facts |-> q]
MCPredecessorOf == [f \in Transitions |-> IF f = f1 THEN gi ELSE f1]
MCGenerationOf  == [f \in Facts |-> CASE f = gi -> 0 [] f = f1 -> 1 [] OTHER -> 2]
MCActivatesAt   == [f \in Facts |-> IF f = f2 THEN 1 ELSE 0]
===============================================================================
