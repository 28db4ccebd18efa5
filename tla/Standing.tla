------------------------------ MODULE Standing ------------------------------
(***************************************************************************)
(* The standing of one sender with a recipient Porter: Introductions that  *)
(* changes chain one to the next, the current one as the memory of the     *)
(* Porter (class Admission) knows it, and the threads that read it, change *)
(* it and rebuild it.  recover runs without the relationship lock, and a   *)
(* Porter that requires no Introduction admits a sender it knows none of   *)
(* without it.                                                             *)
(***************************************************************************)
EXTENDS Naturals, FiniteSets

CONSTANTS
  Introductions, \* IN-... identities of the relationship
  First,         \* the one its configuration established
  Ceremonies,    \* CM-... identities
  Predecessor,   \* the Introduction a ceremony replaces
  Successor,     \* the one it selects, or None: a termination
  Packages,      \* PKG-... identities of the sender
  Proof,         \* the Introduction whose secret proves a Package
  Local,         \* Introductions a local administrator may select
  Threads,       \* request threads of the recipient Porter
  Required,      \* require_introductions of its configuration
  Unproven,      \* of an AC: admitted under no Introduction
  None           \* no identity

Change == [successor : Introductions \cup {None},
           cause : Ceremonies \cup {None}]

ASSUME StandingConstants ==
  /\ IsFiniteSet(Introductions) /\ First \in Introductions
  /\ IsFiniteSet(Ceremonies)
  /\ Predecessor \in [Ceremonies -> Introductions]
  /\ Successor \in [Ceremonies -> (Introductions \ {First}) \cup {None}]
  /\ Proof \in [Packages -> Introductions]
  /\ Local \subseteq Introductions \ {First}
  /\ Required \in BOOLEAN
  /\ Unproven \notin Introductions \cup {None}
  /\ None \notin Introductions \cup Ceremonies \cup Packages \cup Threads
                 \cup Change

\* A successor identity is drawn for one change (uuid4).
ASSUME SuccessorsAreFresh ==
  /\ \A c, d \in Ceremonies :
       Successor[c] = Successor[d] => c = d \/ Successor[c] = None
  /\ \A c \in Ceremonies : Successor[c] \notin Local

VARIABLES
  introductions, \* introductions/facts
  changes,       \* introductions/changes/<predecessor>.json, or None
  standingLock,  \* flock of introductions/locks/<relationship>.lock
  accepted,      \* what an AC was admitted under, or None
  active,        \* Admission.active of the sender, or None
  pc,            \* where each request thread is
  job,           \* the Package or the ceremony it works on
  standing,      \* the Introduction authorize has verified a proof against
  back,          \* where a thread goes when recover is over
  listed,        \* the Introductions its recover has listed
  found          \* the current one its recover has derived

factVars     == <<introductions, changes>>
depositVars  == <<accepted, standing>>
recoveryVars == <<back, listed, found>>
standingVars == <<factVars, depositVars, recoveryVars, standingLock, active,
                  pc, job>>

Goto(t, label) == pc' = [pc EXCEPT ![t] = label]

Release(t) == standingLock' = IF standingLock = t THEN None ELSE standingLock

----------------------------------------------------------------------------
\* The chain of Introductions, and its derivation.

\* Introductions met by following the changes from the first one among those
\* listed; a successor that is not listed ends the walk with None.
Walk(facts) ==
  LET Met[n \in 0 .. Cardinality(Introductions)] ==
        IF n = 0 THEN First
        ELSE LET i == Met[n - 1] IN
             IF i = None \/ changes[i] = None THEN i
             ELSE IF changes[i].successor \in facts
                    THEN changes[i].successor ELSE None
  IN Met

Current(facts) == Walk(facts)[Cardinality(Introductions)]

\* The Introductions that changes have made current once: the least set that has
\* the first one and what a change selects for one of them.
Generations ==
  {i \in Introductions : \A G \in SUBSET Introductions :
     /\ First \in G
     /\ \A j \in G : changes[j] # None => changes[j].successor \in G \cup {None}
     => i \in G}

\* _refresh_if_changed: recover if the standing in memory has been changed.
Refresh(t, label) ==
  IF active # None /\ changes[active] # None
    THEN Goto(t, "facts") /\ back' = [back EXCEPT ![t] = label]
    ELSE Goto(t, label) /\ UNCHANGED back

ListFacts(t) ==
  /\ pc[t] = "facts"
  /\ listed' = [listed EXCEPT ![t] = introductions]
  /\ Goto(t, "changes")
  /\ UNCHANGED <<factVars, depositVars, back, found, standingLock, active, job>>

ListChanges(t) ==
  /\ pc[t] = "changes"
  /\ found' = [found EXCEPT ![t] = Current(listed[t])]
  /\ Goto(t, "forget")
  /\ UNCHANGED <<factVars, depositVars, back, listed, standingLock, active, job>>

\* recover empties Admission.active ...
Forget(t) ==
  /\ pc[t] = "forget"
  /\ active' = None
  /\ Goto(t, "remember")
  /\ UNCHANGED <<factVars, depositVars, recoveryVars, standingLock, job>>

\* ... and enters what it found, if anything.
Remember(t) ==
  /\ pc[t] = "remember"
  /\ active' = IF found[t] = None THEN active ELSE found[t]
  /\ Goto(t, back[t])
  /\ listed' = [listed EXCEPT ![t] = {}]
  /\ found' = [found EXCEPT ![t] = None]
  /\ back' = [back EXCEPT ![t] = None]
  /\ UNCHANGED <<factVars, depositVars, standingLock, job>>

RecoverStep(t) ==
  ListFacts(t) \/ ListChanges(t) \/ Forget(t) \/ Remember(t)

----------------------------------------------------------------------------
\* A deposit: authorize, and accept under its lock.

EndDeposit(t) ==
  /\ Goto(t, "ready")
  /\ job' = [job EXCEPT ![t] = None]
  /\ standing' = [standing EXCEPT ![t] = None]
  /\ Release(t)

\* Does authorize ask for no proof?
Unasked == ~Required /\ active = None

\* An accepted Package is answered from its AC and changes nothing here.
Deposit(t, p) ==
  /\ pc[t] = "ready"
  /\ accepted[p] = None
  /\ ~Unasked
  /\ job' = [job EXCEPT ![t] = p]
  /\ Refresh(t, "verify")
  /\ UNCHANGED <<factVars, depositVars, listed, found, standingLock, active>>

\* A sender that has no standing in memory, because it has none or because a
\* recover is between two of its steps: accept follows at once, and has not
\* found an AC either.
DepositUnproven(t, p) ==
  /\ pc[t] = "ready"
  /\ accepted[p] = None
  /\ Unasked
  /\ job' = [job EXCEPT ![t] = p]
  /\ Goto(t, "open")
  /\ UNCHANGED <<factVars, depositVars, recoveryVars, standingLock, active>>

Verify(t) ==
  /\ pc[t] = "verify"
  /\ active = Proof[job[t]]
  /\ standing' = [standing EXCEPT ![t] = active]
  /\ Goto(t, "relationship")
  /\ UNCHANGED <<factVars, accepted, recoveryVars, standingLock, active, job>>

\* Mistake: a shared flock where LOCK_EX is meant.
LockRelationshipShared(t) ==
  /\ pc[t] = "relationship"
  /\ standingLock' = t
  /\ Refresh(t, "confirm")
  /\ UNCHANGED <<factVars, depositVars, listed, found, active, job>>

LockRelationship(t) ==
  /\ pc[t] = "relationship"
  /\ standingLock = None
  /\ standingLock' = t
  /\ Refresh(t, "confirm")
  /\ UNCHANGED <<factVars, depositVars, listed, found, active, job>>

\* A standing change may have won while the proof was verified.
Confirm(t) ==
  /\ pc[t] = "confirm"
  /\ active = standing[t]
  /\ Goto(t, "accept")
  /\ UNCHANGED <<factVars, depositVars, recoveryVars, standingLock, active, job>>

\* Any of authorize's refusals: no or other standing, its terms, its proof,
\* its expiry, the outstanding allowance.
RefuseDeposit(t) ==
  /\ pc[t] \in {"verify", "confirm"}
  /\ EndDeposit(t)
  /\ UNCHANGED <<factVars, accepted, recoveryVars, active>>

\* accept looks for an AC ...
FindAcceptance(t) ==
  /\ pc[t] = "accept"
  /\ IF accepted[job[t]] = None
       THEN /\ Goto(t, "write")
            /\ UNCHANGED <<standing, standingLock, job>>
       ELSE EndDeposit(t)
  /\ UNCHANGED <<factVars, accepted, recoveryVars, active>>

\* ... and writes one, over what an unproven deposit has written since.
Accept(t) ==
  /\ pc[t] = "write"
  /\ accepted' = [accepted EXCEPT ![job[t]] = standing[t]]
  /\ EndDeposit(t)
  /\ UNCHANGED <<factVars, recoveryVars, active>>

\* The AC of an unproven deposit, under no lock.
AcceptUnproven(t) ==
  /\ pc[t] = "open"
  /\ accepted' = [accepted EXCEPT ![job[t]] = Unproven]
  /\ EndDeposit(t)
  /\ UNCHANGED <<factVars, recoveryVars, active>>

DepositStep(t) ==
  \/ \E p \in Packages : Deposit(t, p) \/ DepositUnproven(t, p)
  \/ Verify(t) \/ LockRelationship(t) \/ Confirm(t) \/ RefuseDeposit(t)
  \/ FindAcceptance(t) \/ Accept(t) \/ AcceptUnproven(t)

----------------------------------------------------------------------------
\* Admission.change, called for the ceremony job[t].

\* Mistake: a shared flock where LOCK_EX is meant.
LockStandingShared(t) ==
  /\ pc[t] = "lock"
  /\ standingLock' = t
  /\ Refresh(t, "slot")
  /\ UNCHANGED <<factVars, depositVars, listed, found, active, job>>

LockStanding(t) ==
  /\ pc[t] = "lock"
  /\ standingLock = None
  /\ standingLock' = t
  /\ Refresh(t, "slot")
  /\ UNCHANGED <<factVars, depositVars, listed, found, active, job>>

\* The predecessor must be current and its transition slot empty.
MayChange(t) ==
  /\ active = Predecessor[job[t]]
  /\ changes[Predecessor[job[t]]] = None

TakeSlot(t) ==
  /\ pc[t] = "slot"
  /\ MayChange(t)
  /\ Goto(t, "publish")
  /\ UNCHANGED <<factVars, depositVars, recoveryVars, standingLock, active, job>>

\* SC: the one file that changes standing.
PublishChange(t) ==
  /\ pc[t] = "publish"
  /\ changes' = [changes EXCEPT ![Predecessor[job[t]]] =
                   [successor |-> Successor[job[t]], cause |-> job[t]]]
  /\ Goto(t, "activate")
  /\ UNCHANGED <<introductions, depositVars, recoveryVars, standingLock, active,
                 job>>

Activate(t) ==
  /\ pc[t] = "activate"
  /\ active' = Successor[job[t]]
  /\ Release(t)
  /\ Goto(t, "count")
  /\ UNCHANGED <<factVars, depositVars, recoveryVars, job>>

ChangeStep(t) ==
  LockStanding(t) \/ TakeSlot(t) \/ PublishChange(t) \/ Activate(t)

\* Another local Porter process, whose memory is its own, changes the standing
\* under the same flock: a renewal.
Administer(i) ==
  /\ standingLock = None
  /\ i \notin introductions
  /\ Current(introductions) # None
  /\ changes[Current(introductions)] = None
  /\ introductions' = introductions \cup {i}
  /\ changes' = [changes EXCEPT ![Current(introductions)] =
                   [successor |-> i, cause |-> None]]
  /\ UNCHANGED <<depositVars, recoveryVars, standingLock, active, pc, job>>
=============================================================================
