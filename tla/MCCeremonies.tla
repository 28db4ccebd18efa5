----------------------------- MODULE MCCeremonies -----------------------------
(* Small instances of Ceremonies for TLC. *)
EXTENDS CeremonyInvariant, TLC

CONSTANTS i0, i1, i2, c1, c2, p0, p1, t1, t2

\* c1 renews the first standing; c2 terminates what c1 selects.
MCPredecessor == [c \in Ceremonies |-> IF c = c1 THEN i0 ELSE i1]
MCSuccessor   == [c \in Ceremonies |-> IF c = c1 THEN i1 ELSE None]

\* A Package proved with the secret of each of the first two Introductions.
MCProof == [p \in Packages |-> IF p = p0 THEN i0 ELSE i1]

MCSymmetry == Permutations(Threads)
===============================================================================
