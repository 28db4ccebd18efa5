----------------------------- MODULE MCAllowance -----------------------------
(* Small instances of Allowance for TLC. *)
EXTENDS Allowance, TLC

CONSTANTS i0, i1, p0, p1, p2, p3, t1, t2

\* No ceremony: the standing is changed by another local process.
MCNoCeremony == [c \in {} |-> None]

\* Three Packages proved with the first standing, one with the second, which
\* allows less.
MCProof == [p \in Packages |-> IF p = p3 THEN i1 ELSE i0]

MCOutstanding == [i \in Introductions |-> IF i = i0 THEN 2 ELSE 1]

MCSymmetry == Permutations(Threads) \cup Permutations({p0, p1, p2})
===============================================================================
