----------------------------- MODULE Collection -----------------------------
(***************************************************************************)
(* The transfer into Host custody: collect_package as the Host Runtime and *)
(* the Collection Tickets call it, and the recovery of the collection      *)
(* projections that a Porter and a Host Runtime run when they start.       *)
(***************************************************************************)
EXTENDS Candidates

\* find_collection: the fact the association names or, for a caller that
\* scans, any fact of the Package.  A Host Runtime passes scan_missing=False.
Scans(w) == w \in Callers

Known(w, p) ==
  LET named == {f \in facts : f.package = p /\ f.collection = association[p]}
  IN IF named = {} /\ Scans(w) THEN {f \in facts : f.package = p} ELSE named

FreshCollections ==
  {c \in CollectionIds :
     /\ \A f \in facts : f.collection # c
     /\ \A p \in Packages : c # association[p] /\ c \notin older[p]
     /\ \A w \in Workers : claim[w] # None => claim[w].collection # c}

\* by-package/<p> is replaced; its directory is never fsynced.
WriteAssociation(p, c) ==
  /\ association' = [association EXCEPT ![p] = c]
  /\ older' = [older EXCEPT ![p] = @ \cup {association[p]}]
  /\ frontier' = FrontierWithout(p)

\* collect_package takes the Package lock and looks for a CL.
LockPackage(w) ==
  /\ pc[w] = "lock"
  /\ packageLock[job[w]] = None
  /\ packageLock' = [packageLock EXCEPT ![job[w]] = w]
  /\ IF Known(w, job[w]) # {}
       THEN /\ \E f \in Known(w, job[w]) : claim' = [claim EXCEPT ![w] = f]
            /\ Goto(w, "collected")
       ELSE /\ \E c \in FreshCollections :
                 claim' = [claim EXCEPT ![w] =
                             [collection |-> c, package |-> job[w],
                              acceptance |-> acceptances[job[w]]]]
            /\ Goto(w, "reserve")
  /\ UNCHANGED <<storeVars, projectionLock, frontierLock, relationshipLock,
                 job, answer, passVars, historyVars>>

\* Mistake: the association is left to materialize, as before the reservation.
ReserveNothing(w) ==
  /\ pc[w] = "reserve"
  /\ Goto(w, "fact")
  /\ UNCHANGED <<storeVars, lockVars, job, answer, claim, passVars,
                 historyVars>>

\* The association is reserved before the fact exists.
Reserve(w) ==
  /\ pc[w] = "reserve"
  /\ WriteAssociation(job[w], claim[w].collection)
  /\ Goto(w, "fact")
  /\ UNCHANGED <<inboxVars, projectionVars, acceptances, facts, collected,
                 lockVars, job, answer, claim, passVars, historyVars>>

\* The canonical CL fact: custody is the Host's from here.
WriteFact(w) ==
  /\ pc[w] = "fact"
  /\ facts' = facts \cup {claim[w]}
  /\ Goto(w, "collected")
  /\ UNCHANGED <<inboxVars, associationVars, projectionVars, acceptances,
                 collected, lockVars, job, answer, claim, passVars, historyVars>>

\* materialize: collected/, by-package/, inbox/ and (Settle) the candidates.
MaterializeCollected(w) ==
  /\ pc[w] = "collected"
  /\ collected' = collected \cup {job[w]}
  /\ frontier' = IF job[w] \in collected THEN frontier
                 ELSE FrontierWithout(job[w])
  /\ Goto(w, "associate")
  /\ UNCHANGED <<inboxVars, projectionVars, acceptances, facts,
                 association, older, lockVars, job, answer, claim, passVars,
                 historyVars>>

MaterializeAssociation(w) ==
  /\ pc[w] = "associate"
  /\ IF association[job[w]] = claim[w].collection
       THEN UNCHANGED <<association, older, frontier>>
       ELSE WriteAssociation(job[w], claim[w].collection)
  /\ Goto(w, "unlink")
  /\ UNCHANGED <<inboxVars, projectionVars, acceptances, facts, collected,
                 lockVars, job, answer, claim, passVars, historyVars>>

\* Mistake: unlink without missing_ok, and another try.
UnlinkPresent(w) ==
  /\ pc[w] = "unlink"
  /\ inbox' = inbox \ {job[w]}
  /\ unlinked' = unlinked \cup (inbox \cap {job[w]})
  /\ Goto(w, IF job[w] \in inbox THEN "settle" ELSE "collected")
  /\ UNCHANGED <<associationVars, projectionVars, acceptances, facts,
                 collected, lockVars, job, answer, claim, passVars, historyVars>>

UnlinkInbox(w) ==
  /\ pc[w] = "unlink"
  /\ inbox' = inbox \ {job[w]}
  /\ unlinked' = unlinked \cup (inbox \cap {job[w]})
  /\ Goto(w, "settle")
  /\ UNCHANGED <<associationVars, projectionVars, acceptances, facts,
                 collected, lockVars, job, answer, claim, passVars, historyVars>>

CollectStep(w) ==
  \/ LockPackage(w) \/ Reserve(w) \/ WriteFact(w) \/ MaterializeCollected(w)
  \/ MaterializeAssociation(w) \/ UnlinkInbox(w)

----------------------------------------------------------------------------
\* A Host Runtime visit, one Package of its selection at a time.

Inspect(h) ==
  /\ pc[h] = "ready"
  /\ ~readable
  /\ Goto(h, "rebuild")
  /\ UNCHANGED <<storeVars, lockVars, job, answer, claim, passVars,
                 historyVars>>

\* A row is a hint: without an AC, or with an association, it is settled.
Select(h, p) ==
  /\ pc[h] = "ready"
  /\ readable
  /\ p \in projection
  /\ job' = [job EXCEPT ![h] = p]
  /\ Goto(h, IF acceptances[p] = None \/ association[p] # None
               THEN "settle" ELSE "lock")
  /\ UNCHANGED <<storeVars, lockVars, answer, claim, passVars,
                 historyVars>>

\* Mistake: any Package may be collected.
CallCollectUnaccepted(c, p) ==
  /\ pc[c] = "ready"
  /\ job' = [job EXCEPT ![c] = p]
  /\ Goto(c, "lock")
  /\ UNCHANGED <<storeVars, lockVars, answer, claim, passVars,
                 historyVars>>

\* tickets.collect: a held Return, or a CL whose Host copy is missing.
CallCollect(c, p) ==
  /\ pc[c] = "ready"
  /\ \/ p \in inbox
     \/ p \notin collected /\ \E f \in facts : f.package = p
  /\ job' = [job EXCEPT ![c] = p]
  /\ Goto(c, "lock")
  /\ UNCHANGED <<storeVars, lockVars, answer, claim, passVars,
                 historyVars>>

----------------------------------------------------------------------------
\* recover_collections_for_runtime.

StartHost(h) ==
  /\ pc[h] = "down"
  /\ Goto(h, "recover")
  /\ UNCHANGED <<storeVars, lockVars, job, answer, claim, passVars,
                 historyVars>>

VisitStep(h) == StartHost(h) \/ Inspect(h) \/ \E p \in Packages : Select(h, p)

\* Mistake: a frontier record is trusted as long as its fact exists.
AuditsName(f) == f \in facts

Audits(f) ==
  /\ f \in facts
  /\ f.package \in collected
  /\ association[f.package] = f.collection

BeginRecovery(w) ==
  /\ pc[w] = "recover"
  /\ frontierLock = None
  /\ frontierLock' = w
  /\ audit' = facts
  /\ todo' = IF \A f \in frontier : Audits(f) THEN facts \ frontier ELSE facts
  /\ Goto(w, "audit")
  /\ UNCHANGED <<storeVars, packageLock, projectionLock, relationshipLock,
                 job, answer, claim, listing, unrestored, historyVars>>

RecoverFact(w, f) ==
  /\ pc[w] = "audit"
  /\ f \in todo
  /\ packageLock[f.package] = None
  /\ packageLock' = [packageLock EXCEPT ![f.package] = w]
  /\ todo' = todo \ {f}
  /\ job' = [job EXCEPT ![w] = f.package]
  /\ claim' = [claim EXCEPT ![w] = f]
  /\ Goto(w, "collected")
  /\ UNCHANGED <<storeVars, projectionLock, frontierLock, relationshipLock,
                 answer, listing, audit, unrestored, historyVars>>

EndRecovery(w) ==
  /\ pc[w] = "audit"
  /\ todo = {}
  /\ frontier' = audit
  /\ audit' = {}
  /\ frontierLock' = None
  /\ Goto(w, IF w = Porter THEN "rebuild" ELSE "ready")
  /\ UNCHANGED <<inboxVars, projectionVars, acceptances, facts, collected,
                 association, older, packageLock, projectionLock, relationshipLock,
                 job, answer, claim, listing, todo, unrestored, historyVars>>

RecoveryStep(w) ==
  \/ BeginRecovery(w)
  \/ \E f \in todo : RecoverFact(w, f)
  \/ EndRecovery(w)
============================================================================
