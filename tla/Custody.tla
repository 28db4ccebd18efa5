------------------------------- MODULE Custody -------------------------------
(***************************************************************************)
(* A recipient: the Porter process (its starting thread and its request    *)
(* threads), the Host Runtimes and the callers of Collection Tickets that  *)
(* share one store, any of which may die at any moment, and the machine    *)
(* under all of them.                                                      *)
(***************************************************************************)
EXTENDS Acceptance, Collection

CONSTANTS
  MaxCrashes, \* bound: crashes of a process or of the machine
  PowerCuts   \* may the machine itself crash?

ASSUME BoundsType ==
  /\ MaxCrashes \in Nat
  /\ {PowerCuts, FaultyDisk, FaultyProjection} \subseteq BOOLEAN

Init ==
  /\ acceptances = [p \in Packages |-> None]
  /\ inbox = {} /\ collected = {}
  /\ association = [p \in Packages |-> None]
  /\ older = [p \in Packages |-> {}]
  /\ unlinked = {}
  /\ facts = {} /\ frontier = {}
  /\ readable = FALSE /\ projection = {}
  /\ packageLock = [p \in Packages |-> None]
  /\ projectionLock = None
  /\ frontierLock = None
  /\ relationshipLock = [r \in Relationships |-> None]
  /\ pc = [w \in Workers |-> IF w \in Recoverers THEN "down" ELSE "ready"]
  /\ job = [w \in Workers |-> None]
  /\ answer = [t \in Handlers |-> None]
  /\ claim = [w \in Workers |-> None]
  /\ listing = {} /\ audit = {} /\ todo = {} /\ unrestored = {}
  /\ receipts = {}
  /\ crashes = 0

\* The processes in dead lose their memory and, the kernel dropping their
\* flocks, their locks.
Die(dead) ==
  LET Drop(holder) == IF holder \in dead THEN None ELSE holder IN
  /\ crashes < MaxCrashes
  /\ crashes' = crashes + 1
  /\ pc' = [w \in Workers |->
              IF w \notin dead THEN pc[w]
              ELSE IF w \in Recoverers THEN "down" ELSE "ready"]
  /\ job' = [w \in Workers |-> IF w \in dead THEN None ELSE job[w]]
  /\ answer' = [t \in Handlers |-> IF t \in dead THEN None ELSE answer[t]]
  /\ claim' = [w \in Workers |-> IF w \in dead THEN None ELSE claim[w]]
  /\ listing' = IF projectionLock \in dead THEN {} ELSE listing
  /\ audit' = IF frontierLock \in dead THEN {} ELSE audit
  /\ todo' = IF frontierLock \in dead THEN {} ELSE todo
  /\ unrestored' = IF Porter \in dead THEN {} ELSE unrestored
  /\ packageLock' = [p \in Packages |-> Drop(packageLock[p])]
  /\ projectionLock' = Drop(projectionLock)
  /\ frontierLock' = Drop(frontierLock)
  /\ relationshipLock' = [r \in Relationships |-> Drop(relationshipLock[r])]
  /\ UNCHANGED receipts

PorterCrashes ==
  /\ pc[Porter] # "down"
  /\ Die({Porter} \cup Handlers)
  /\ UNCHANGED storeVars

HostCrashes(h) ==
  /\ pc[h] # "down"
  /\ Die({h})
  /\ UNCHANGED storeVars

CallerCrashes(c) ==
  /\ pc[c] # "ready"
  /\ Die({c})
  /\ UNCHANGED storeVars

\* A power cut keeps what was fsynced with its directory.  An association may
\* fall back to an earlier entry, an unlinked inbox entry may come back, and
\* the database may be an earlier image, unreadable or gone.
PowerCut ==
  /\ PowerCuts
  /\ Die(Workers)
  /\ association' \in [Packages -> CollectionIds \cup {None}]
  /\ \A p \in Packages : association'[p] \in {association[p]} \cup older[p]
  /\ older' = [p \in Packages |-> {}]
  /\ \E back \in SUBSET unlinked : inbox' = inbox \cup back
  /\ unlinked' = {}
  /\ readable' \in BOOLEAN
  /\ projection' \in IF readable' THEN SUBSET Accepted ELSE {{}}
  /\ UNCHANGED <<acceptances, collected, facts, frontier>>

Crash ==
  \/ PorterCrashes
  \/ \E h \in Hosts : HostCrashes(h)
  \/ \E c \in Callers : CallerCrashes(c)
  \/ PowerCut

PorterStep ==
  \/ RestoreStep
  \/ RecoveryStep(Porter)
  \/ CollectStep(Porter)
  \/ ProjectionStep(Porter)

\* What a request thread that has work does next.
RequestStep(t) == HandlerStep(t) \/ ProjectionStep(t)

HostStep(h) ==
  \/ VisitStep(h)
  \/ RecoveryStep(h)
  \/ CollectStep(h)
  \/ ProjectionStep(h)

CallerStep(c) == CollectStep(c) \/ ProjectionStep(c)

Arrival(t) == \E p \in Packages : Deposit(t, p)
Call(c)    == \E p \in Packages : CallCollect(c, p)

Next ==
  \/ PorterStep
  \/ \E t \in Handlers : Arrival(t) \/ RequestStep(t) \/ DepositRaises(t)
  \/ \E h \in Hosts : HostStep(h)
  \/ \E c \in Callers : Call(c) \/ CallerStep(c)
  \/ Crash

Spec == Init /\ [][Next]_vars

\* Every thread that can run runs; a dead process is started again.  Nothing
\* is assumed of arrivals and callers, nor of who gets a contended lock.
Fairness ==
  /\ WF_vars(PorterStep)
  /\ \A t \in Handlers : WF_vars(RequestStep(t))
  /\ \A h \in Hosts : WF_vars(HostStep(h))
  /\ \A c \in Callers : WF_vars(CallerStep(c))

FairSpec == Spec /\ Fairness

----------------------------------------------------------------------------
(* Safety. *)

\* At most one CL fact per Package, whatever the association said, whoever
\* collected and whatever was lost (host_runtime.py visit collects without
\* scanning the facts; INDEXED-ATTENTION-CHECK.md: a stale row "cannot create
\* a second CL").
OneCollectionPerPackage ==
  \A f, g \in facts : f.package = g.package => f = g

\* A CL names the AC the Porter holds now (custody.py collect_package copies
\* the acceptance identity into the fact).
CollectionNamesAcceptance ==
  \A f \in facts : f.acceptance = acceptances[f.package]

\* Evidence that left the Porter names the AC it still holds: a sender's
\* receipt is never contradicted (daemon.py deposit, acceptance_evidence).
ReceiptNamesAcceptance ==
  \A r \in receipts : r.acceptance = acceptances[r.package]

\* Host custody is materialized only from a canonical CL (custody.py
\* collect_package publishes the fact before materialize).
CollectedNeedsFact ==
  \A p \in collected : \E f \in facts : f.package = p

\* While the Porter serves, an accepted Package is in the inbox or in the
\* Host's hands unless its own handler is about to put it there (README:
\* "AC plus the recoverable inbox projection"; recover_acceptances).
AcceptedIsHeld ==
  Serving => \A p \in Accepted :
    \/ p \in inbox \cup collected
    \/ \E t \in Handlers : job[t] = p /\ pc[t] \in {"inbox", "repair"}

\* While the Porter serves, a readable projection lists every accepted Package
\* without an association, unless its handler is about to publish the row or
\* the rebuild under way will be followed by its publication
\* (CANDIDATE-PROJECTION-DURABILITY.md "Completeness and starvation").
NoCandidateStarves ==
  Serving /\ readable => \A p \in Accepted \ (Associated \cup projection) :
    \E t \in Handlers : job[t] = p /\ pc[t] \in {"inbox", "repair", "check",
                                                 "publish"}

\* A Host Runtime past its first recovery finds every CL by its association
\* alone: the comment in host_runtime.py visit that lets it skip the scan.
AssociationSufficesAfterRecovery ==
  \A h \in Hosts : pc[h] \notin {"down", "recover"} /\ frontierLock # h =>
    \A f \in facts : association[f.package] = f.collection

\* The Porter's account of custody (custody.py custody) ...
CustodyOf(p) ==
  LET found == {f \in facts : f.package = p}
      fact  == CHOOSE f \in found : TRUE
  IN IF found # {}
       THEN [holder |-> "RECIPIENT_HOST",
             acceptance |-> fact.acceptance, collection |-> fact.collection]
       ELSE IF p \in Accepted
              THEN [holder |-> "RECIPIENT_PORTER",
                    acceptance |-> acceptances[p], collection |-> None]
              ELSE [holder |-> "NOT_ACCEPTED_HERE",
                    acceptance |-> None, collection |-> None]

\* ... only ever moves from nowhere to the Porter to the Host, under one AC
\* and one CL, through every interleaving and crash.
Promise == INSTANCE PackageCustody
             WITH custody <- [p \in Packages |-> CustodyOf(p)]
CustodyPromise == Promise!Spec

----------------------------------------------------------------------------
(* Liveness, under FairSpec. *)

\* A reservation whose CL nobody is about to publish: a collector died between
\* collect_package's atomic_text and its atomic_json.
Stranded(p) ==
  /\ association[p] \notin {None} \cup {f.collection : f \in facts}
  /\ packageLock[p] = None

\* What the Porter accepts, a Host that keeps visiting collects, unless a
\* reservation hides it from every visit.
AcceptedIsCollected ==
  \A p \in Packages :
    p \in Accepted ~> Stranded(p) \/ \E f \in facts : f.package = p

\* The locks are taken in one order (frontier, Package, projection), so every
\* Package lock is released again and every deposit is answered.
LocksAreReleased ==
  \A p \in Packages : packageLock[p] # None ~> packageLock[p] = None
DepositsAreAnswered ==
  \A t \in Handlers : job[t] # None ~> job[t] = None

\* CONFORMANCE.md: "Canonical LG, AC and CL facts are immutable."
AcceptanceIsImmutable ==
  [][\A p \in Accepted : acceptances'[p] = acceptances[p]]_vars
=============================================================================
