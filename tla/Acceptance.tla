----------------------------- MODULE Acceptance -----------------------------
(***************************************************************************)
(* The acceptance boundary: Porter.deposit run by concurrent request       *)
(* threads, from authorize to the evidence it returns, and                 *)
(* recover_acceptances run by a starting Porter.                           *)
(***************************************************************************)
EXTENDS Candidates

CONSTANT FaultyDisk \* may a write of a projection file raise an OSError?

Serving == pc[Porter] = "ready"

Release(t) ==
  relationshipLock' = [r \in Relationships |->
                         IF relationshipLock[r] = t THEN None
                         ELSE relationshipLock[r]]

\* Mistake: authorize takes no lock.
DepositUnlocked(t, p) ==
  /\ Serving
  /\ pc[t] = "ready"
  /\ Goto(t, "accept")
  /\ job' = [job EXCEPT ![t] = p]
  /\ UNCHANGED <<storeVars, lockVars, answer, claim, passVars,
                 historyVars>>

\* A deposit arrives.  An existing AC, or a sender without an Introduction at
\* an open Porter, is authorized without the relationship lock.
Deposit(t, p) ==
  /\ Serving
  /\ pc[t] = "ready"
  /\ Goto(t, IF acceptances[p] # None \/ Relationship[p] = None
               THEN "accept" ELSE "relationship")
  /\ job' = [job EXCEPT ![t] = p]
  /\ UNCHANGED <<storeVars, lockVars, answer, claim, passVars,
                 historyVars>>

\* Mistake: a shared flock where LOCK_EX is meant.
LockRelationshipShared(t) ==
  /\ pc[t] = "relationship"
  /\ relationshipLock' = [relationshipLock EXCEPT ![Relationship[job[t]]] = t]
  /\ Goto(t, "accept")
  /\ UNCHANGED <<storeVars, packageLock, projectionLock, frontierLock, job,
                 answer, claim, passVars, historyVars>>

LockRelationship(t) ==
  /\ pc[t] = "relationship"
  /\ relationshipLock[Relationship[job[t]]] = None
  /\ relationshipLock' = [relationshipLock EXCEPT ![Relationship[job[t]]] = t]
  /\ Goto(t, "accept")
  /\ UNCHANGED <<storeVars, packageLock, projectionLock, frontierLock, job,
                 answer, claim, passVars, historyVars>>

\* Under the lock the standing has changed or the allowance is exhausted: the
\* lock is released and the thread answers 403.
Refuse(t) ==
  /\ pc[t] = "relationship"
  /\ relationshipLock[Relationship[job[t]]] = None
  /\ Goto(t, "ready")
  /\ job' = [job EXCEPT ![t] = None]
  /\ UNCHANGED <<storeVars, lockVars, answer, claim, passVars, historyVars>>

\* accept: is there an AC already?
LookForAcceptance(t) ==
  /\ pc[t] = "accept"
  /\ answer' = [answer EXCEPT ![t] = acceptances[job[t]]]
  /\ Goto(t, CASE acceptances[job[t]] = None -> "write"
               [] job[t] \in inbox \cup collected -> "check"
               [] OTHER -> "repair")
  /\ UNCHANGED <<storeVars, lockVars, job, claim, passVars, historyVars>>

FreshAcceptances(p) ==
  {a \in AcceptanceIds :
     /\ acceptances[p] # a
     /\ [package |-> p, acceptance |-> a] \notin receipts
     /\ \A t \in Handlers : answer[t] # a
     /\ \A f \in facts : f.acceptance # a}

WriteAcceptance(t) ==
  /\ pc[t] = "write"
  /\ \E a \in FreshAcceptances(job[t]) :
       /\ acceptances' = [acceptances EXCEPT ![job[t]] = a]
       /\ answer' = [answer EXCEPT ![t] = a]
  /\ Goto(t, "inbox")
  /\ UNCHANGED <<inboxVars, associationVars, projectionVars, facts,
                 collected, lockVars, job, claim, passVars, historyVars>>

\* Mistake: only a repeated arrival publishes its row.
WriteInboxUnpublished(t) ==
  /\ pc[t] \in {"inbox", "repair"}
  /\ WriteInbox(job[t])
  /\ Goto(t, IF pc[t] = "inbox" THEN "reply" ELSE "check")
  /\ UNCHANGED <<associationVars, projectionVars, acceptances, facts,
                 collected, lockVars, job, answer, claim, passVars, historyVars>>

\* The inbox projection of a new AC, or the repair of a missing one.
WriteInboxProjection(t) ==
  /\ pc[t] \in {"inbox", "repair"}
  /\ WriteInbox(job[t])
  /\ Goto(t, IF pc[t] = "inbox" THEN "publish" ELSE "check")
  /\ UNCHANGED <<associationVars, projectionVars, acceptances, facts,
                 collected, lockVars, job, answer, claim, passVars, historyVars>>

\* Mistake: a repeated arrival is looked at again while it is associated.
CheckAgain(t) ==
  /\ pc[t] = "check"
  /\ Goto(t, IF association[job[t]] = None THEN "publish" ELSE "accept")
  /\ UNCHANGED <<storeVars, lockVars, job, answer, claim, passVars,
                 historyVars>>

\* A repeated arrival publishes a row unless the Package has an association.
CheckAssociation(t) ==
  /\ pc[t] = "check"
  /\ Goto(t, IF association[job[t]] = None THEN "publish" ELSE "reply")
  /\ UNCHANGED <<storeVars, lockVars, job, answer, claim, passVars,
                 historyVars>>

\* The relationship lock is released and the evidence returned.
Reply(t) ==
  /\ pc[t] = "reply"
  /\ receipts' = receipts \cup {[package |-> job[t], acceptance |-> answer[t]]}
  /\ Release(t)
  /\ Goto(t, "ready")
  /\ job' = [job EXCEPT ![t] = None]
  /\ answer' = [answer EXCEPT ![t] = None]
  /\ UNCHANGED <<storeVars, packageLock, projectionLock, frontierLock,
                 claim, passVars, crashes>>

\* The inbox write raises: the thread answers 400 and the Porter lives on.
DepositRaises(t) ==
  /\ FaultyDisk
  /\ pc[t] \in {"inbox", "repair"}
  /\ Release(t)
  /\ Goto(t, "ready")
  /\ job' = [job EXCEPT ![t] = None]
  /\ answer' = [answer EXCEPT ![t] = None]
  /\ UNCHANGED <<storeVars, packageLock, projectionLock, frontierLock,
                 claim, passVars, historyVars>>

HandlerStep(t) ==
  \/ LockRelationship(t) \/ Refuse(t) \/ LookForAcceptance(t) \/ WriteAcceptance(t)
  \/ WriteInboxProjection(t) \/ CheckAssociation(t) \/ Reply(t)

----------------------------------------------------------------------------
\* recover_acceptances, one acceptance at a time.

\* Mistake: a Porter that starts without recover_acceptances.
StartPorterUnrestored ==
  /\ pc[Porter] = "down"
  /\ Goto(Porter, "acceptances")
  /\ UNCHANGED <<storeVars, lockVars, job, answer, claim, passVars,
                 historyVars>>

StartPorter ==
  /\ pc[Porter] = "down"
  /\ unrestored' = Accepted
  /\ Goto(Porter, "acceptances")
  /\ UNCHANGED <<storeVars, lockVars, job, answer, claim, listing, audit,
                 todo, historyVars>>

ExamineAcceptance(p) ==
  /\ pc[Porter] = "acceptances"
  /\ p \in unrestored
  /\ unrestored' = unrestored \ {p}
  /\ IF p \in inbox \cup collected
       THEN UNCHANGED <<pc, job>>
       ELSE Goto(Porter, "restore") /\ job' = [job EXCEPT ![Porter] = p]
  /\ UNCHANGED <<storeVars, lockVars, answer, claim, listing, audit, todo,
                 historyVars>>

RestoreInbox ==
  /\ pc[Porter] = "restore"
  /\ WriteInbox(job[Porter])
  /\ Goto(Porter, "acceptances")
  /\ job' = [job EXCEPT ![Porter] = None]
  /\ UNCHANGED <<associationVars, projectionVars, acceptances, facts,
                 collected, lockVars, answer, claim, passVars, historyVars>>

AcceptancesRestored ==
  /\ pc[Porter] = "acceptances"
  /\ unrestored = {}
  /\ Goto(Porter, "recover")
  /\ UNCHANGED <<storeVars, lockVars, job, answer, claim, passVars,
                 historyVars>>

RestoreStep ==
  \/ StartPorter
  \/ \E p \in Packages : ExamineAcceptance(p)
  \/ RestoreInbox
  \/ AcceptancesRestored
============================================================================
