--------------------------- MODULE MCNativeCarriage ---------------------------
(* Small instances of NativeCarriage for TLC. *)
EXTENDS NativeCarriage, TLC

CONSTANTS p1

MCOnePackage == [l \in Lodgements |-> p1]
MCSymmetry   == Permutations(Custodians) \cup Permutations(AcceptanceIds)
                 \cup Permutations(Receivers)
===============================================================================
