--------------------------- MODULE PackageCustody ---------------------------
(***************************************************************************)
(* What a recipient Porter promises about custody, whatever crashes: a     *)
(* Package is first accepted nowhere, then in the custody of the Porter    *)
(* under one Acceptance, then in the custody of the Host under that        *)
(* Acceptance and one Collection.  Nothing is taken back or renamed.       *)
(***************************************************************************)
CONSTANTS Packages, AcceptanceIds, CollectionIds, None

VARIABLE custody \* what custody(ipc, package) reports of every Package

NotAcceptedHere == [holder |-> "NOT_ACCEPTED_HERE",
                    acceptance |-> None, collection |-> None]
InPorter(a)     == [holder |-> "RECIPIENT_PORTER",
                    acceptance |-> a, collection |-> None]
InHost(a, c)    == [holder |-> "RECIPIENT_HOST",
                    acceptance |-> a, collection |-> c]

Init == custody = [p \in Packages |-> NotAcceptedHere]

Accept(p, a) ==
  /\ custody[p] = NotAcceptedHere
  /\ custody' = [custody EXCEPT ![p] = InPorter(a)]

\* A Collection identity names one Package.
Collect(p, a, c) ==
  /\ custody[p] = InPorter(a)
  /\ \A q \in Packages : custody[q].collection # c
  /\ custody' = [custody EXCEPT ![p] = InHost(a, c)]

Next == \E p \in Packages, a \in AcceptanceIds :
          Accept(p, a) \/ \E c \in CollectionIds : Collect(p, a, c)

Spec == Init /\ [][Next]_custody
=============================================================================
