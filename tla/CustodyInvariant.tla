-------------------------- MODULE CustodyInvariant --------------------------
(***************************************************************************)
(* The inductive invariants behind the theorems of CustodyProofs: why no   *)
(* interleaving of collectors, recoveries and crashes publishes a second   *)
(* CL, and why an introduced sender's AC is written once.                  *)
(***************************************************************************)
EXTENDS Custody

HandlerLabels == {"relationship", "accept", "write", "inbox", "repair",
                  "check", "publish", "reply"}
Answering  == {"inbox", "repair", "check", "publish", "reply", "list",
               "replace"}
Collecting == {"reserve", "fact", "collected", "associate", "unlink"}

\* Who can be where.
LabelInv ==
  /\ \A t \in Handlers : pc[t] \in HandlerLabels \cup {"ready", "list", "replace"}
  /\ \A w \in Workers \ Handlers : pc[w] \notin HandlerLabels
  /\ pc[Porter] # "lock"

\* What a worker works on has been accepted by the time that matters.
JobInv ==
  /\ \A t \in Handlers :
       /\ pc[t] # "ready" => job[t] # None
       /\ pc[t] \in Answering => answer[t] # None /\ job[t] \in Accepted
  /\ \A w \in Workers : pc[w] \in {"lock", "restore"} => job[w] \in Accepted
  /\ inbox \cup unlinked \cup unrestored \subseteq Accepted
  /\ \A f \in facts : f.package \in Accepted

\* A collector's claim: its Package is locked, its fact is absent up to
\* WriteFact and present after, and the reservation names it.
ClaimInv == \A w \in Workers :
  /\ pc[w] \in Collecting => claim[w] # None
  /\ claim[w] # None =>
       /\ w \notin Handlers
       /\ job[w] = claim[w].package
       /\ job[w] \in Accepted
       /\ packageLock[job[w]] = w
       /\ pc[w] \in Collecting \cup {"settle", "list", "replace"}
       /\ pc[w] \notin {"reserve", "fact"} => claim[w] \in facts
  /\ pc[w] \in {"reserve", "fact"} => \A f \in facts : f.package # job[w]
  /\ pc[w] = "fact" => association[job[w]] = claim[w].collection

\* A recovery holds the frontier lock from its listing to its last fact.
RecoveryInv ==
  /\ \A w \in Workers :
       /\ frontierLock = w => pc[w] = "audit" \/ claim[w] # None
       /\ pc[w] = "audit" => frontierLock = w
  /\ todo \subseteq facts

Named(f) == association[f.package] = f.collection

\* A Host past its recovery finds every CL by its association; a Host in its
\* recovery finds those it no longer has to materialize.
AssociationInv == \A h \in Hosts :
  /\ pc[h] \notin {"down", "recover"} /\ frontierLock # h =>
       \A f \in facts : Named(f)
  /\ frontierLock = h =>
       \A f \in facts : \/ Named(f)
                        \/ f \in todo
                        \/ claim[h] = f /\ pc[h] \in {"collected", "associate"}

CollectionInv ==
  /\ LabelInv /\ JobInv /\ ClaimInv /\ RecoveryInv /\ AssociationInv
  /\ OneCollectionPerPackage
  /\ CollectedNeedsFact

----------------------------------------------------------------------------
\* Every deposit of a Package takes its relationship lock: the sender holds an
\* Introduction, and the Porter requires one or keeps it in memory throughout.
AllIntroduced == \A p \in Packages : Relationship[p] # None

\* An absent AC is only written under the lock of its relationship.
WriterInv == \A t \in Handlers :
  /\ pc[t] = "accept" =>
       \/ acceptances[job[t]] # None
       \/ relationshipLock[Relationship[job[t]]] = t
  /\ pc[t] = "write" =>
       /\ acceptances[job[t]] = None
       /\ relationshipLock[Relationship[job[t]]] = t
  /\ pc[t] \in Answering => answer[t] = acceptances[job[t]]

\* What names an AC names the one the Porter holds.
NamingInv ==
  /\ CollectionNamesAcceptance
  /\ ReceiptNamesAcceptance
  /\ \A w \in Workers : claim[w] # None =>
       claim[w].acceptance = acceptances[claim[w].package]

\* The identity of a CL that is yet to be published is nobody else's.
FreshInv == \A w \in Workers : pc[w] \in {"reserve", "fact"} =>
  /\ \A f \in facts : f.collection # claim[w].collection
  /\ \A v \in Workers \ {w} :
       claim[v] # None => claim[v].collection # claim[w].collection

AcceptanceInv == WriterInv /\ NamingInv /\ FreshInv

----------------------------------------------------------------------------
\* What a starting Porter has yet to look at, and what only has a copy in the
\* Host's hands.
HeldInv ==
  /\ pc[Porter] \notin {"acceptances", "restore"} => unrestored = {}
  /\ \A w \in Workers :
       pc[w] \in {"associate", "unlink"} => job[w] \in collected
  /\ pc[Porter] # "down" => \A p \in Accepted :
       \/ p \in inbox \cup collected \cup unrestored
       \/ pc[Porter] = "restore" /\ job[Porter] = p
       \/ \E t \in Handlers : job[t] = p /\ pc[t] \in {"inbox", "repair"}
  /\ AcceptedIsHeld

\* Whoever rebuilds the projection holds its lock; a handler does because it
\* is unreadable.
RebuildInv ==
  /\ \A w \in Workers : pc[w] \in {"list", "replace"} => projectionLock = w
  /\ \A t \in Handlers : pc[t] \in {"list", "replace"} => ~readable

\* A worker between two Packages has none, a starting Porter that has one holds
\* the frontier.
IdleInv ==
  /\ \A w \in Workers :
       pc[w] \in {"down", "ready", "acceptances", "recover", "audit",
                 "rebuild"} => job[w] = None
  /\ \/ pc[Porter] \in Collecting \cup {"settle"}
     \/ pc[Porter] \in {"list", "replace"} /\ job[Porter] # None
     => frontierLock = Porter

\* Only the row of an associated Package is settled.
SettleInv ==
  /\ projection \subseteq Accepted
  /\ \A w \in Workers \ Handlers :
       pc[w] \in {"unlink", "settle", "list", "replace"} /\ job[w] # None =>
         job[w] \in Associated

\* What a rebuild listed is everything that awaits a Host, but for what is on
\* its way; a Host's rebuild that the Porter does not live to see may miss
\* more, and the next Porter rebuilds before it serves.
ListingInv ==
  \A w \in Workers :
    /\ pc[w] = "list" => listing \subseteq Associated
    /\ pc[w] = "replace" => listing \subseteq Accepted
    /\ pc[w] = "replace" /\ (Serving \/ w = Porter) =>
         \A p \in Accepted \ (Associated \cup listing) :
           \E t \in Handlers :
             job[t] = p /\ pc[t] \in {"inbox", "repair", "check", "publish",
                                     "replace"}

CandidateInv ==
  RebuildInv /\ IdleInv /\ SettleInv /\ ListingInv /\ NoCandidateStarves
=============================================================================
