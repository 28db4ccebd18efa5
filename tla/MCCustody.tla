------------------------------ MODULE MCCustody ------------------------------
(* Small instances of Custody for TLC. *)
EXTENDS CustodyInvariant, TLC

CONSTANTS p1, p2, t1, t2, h1, h2, r1

\* Every Package comes from a sender that holds an Introduction.
MCIntroduced == [p \in Packages |-> r1]

MCSymmetry == Permutations(Handlers) \cup Permutations(Hosts)
              \cup Permutations(Packages) \cup Permutations(AcceptanceIds)
              \cup Permutations(CollectionIds)
=============================================================================
