----------------------------- MODULE Candidates -----------------------------
(***************************************************************************)
(* The candidate projection: a disposable table of the Packages that await *)
(* a Host.  Its writers hold candidates/.projection.lock; nothing else in  *)
(* the store waits for it, so a rebuild reads two directories that other   *)
(* processes keep changing.                                                *)
(***************************************************************************)
EXTENDS Store

CONSTANT FaultyProjection \* may a statement on the database fail?

MayTakeProjection(w) == projectionLock \in {None, w}

\* _rebuild_locked lists by-package first ...
BeginRebuild(w) ==
  /\ \/ pc[w] = "rebuild"
     \/ pc[w] \in {"publish", "settle"} /\ ~readable
  /\ projectionLock = None
  /\ projectionLock' = w
  /\ listing' = Associated
  /\ Goto(w, "list")
  /\ UNCHANGED <<storeVars, packageLock, frontierLock, relationshipLock,
                 job, answer, claim, audit, todo, unrestored, historyVars>>

\* ... then acceptances, keeping those without an association ...
ListAcceptances(w) ==
  /\ pc[w] = "list"
  /\ listing' = Accepted \ listing
  /\ Goto(w, "replace")
  /\ UNCHANGED <<storeVars, lockVars, job, answer, claim, audit, todo,
                 unrestored, historyVars>>

\* ... and replaces the database.  publish and settle go on to their own row
\* under the same lock; rebuild() itself is over.
Replace(w) ==
  /\ pc[w] = "replace"
  /\ projection' = listing /\ readable' = TRUE
  /\ listing' = {}
  /\ IF job[w] = None
       THEN projectionLock' = None /\ Goto(w, "ready")
       ELSE /\ UNCHANGED projectionLock
            /\ Goto(w, IF w \in Handlers THEN "publish" ELSE "settle")
  /\ UNCHANGED <<inboxVars, associationVars, acceptances, facts, collected,
                 packageLock, frontierLock, relationshipLock, job, answer, claim,
                 audit, todo, unrestored, historyVars>>

\* Mistake: a failed statement leaves the database in place.
UpdateInPlace(w, rows) ==
  /\ readable
  /\ MayTakeProjection(w)
  /\ projection' \in {rows, IF FaultyProjection THEN projection ELSE rows}
  /\ projectionLock' = None
  /\ UNCHANGED readable

\* A statement on the database commits, or fails and the database is removed
\* whole (invalidate); on one that a power cut spoiled it fails.
Update(w, rows) ==
  /\ readable \/ FaultyProjection
  /\ MayTakeProjection(w)
  /\ readable' \in {readable, readable /\ ~FaultyProjection}
  /\ projection' = IF readable' THEN rows ELSE {}
  /\ projectionLock' = None

Publish(w) ==
  /\ pc[w] = "publish"
  /\ Update(w, projection \cup {job[w]})
  /\ Goto(w, "reply")
  /\ UNCHANGED <<inboxVars, associationVars, acceptances, facts, collected,
                 packageLock, frontierLock, relationshipLock, job, answer, claim,
                 passVars, historyVars>>

\* Mistake: a recovery ends with its first fact.
AfterSettleOnce(w) == IF w = Porter THEN "rebuild" ELSE "ready"

\* Where a worker goes when materialize, or the removal of a stale row, ends.
AfterSettle(w) ==
  IF frontierLock = w THEN "audit" ELSE "ready"

\* settle ends materialize: the Package lock goes with it.
Settle(w) ==
  /\ pc[w] = "settle"
  /\ Update(w, projection \ {job[w]})
  /\ packageLock' = [p \in Packages |->
                       IF packageLock[p] = w THEN None ELSE packageLock[p]]
  /\ Goto(w, AfterSettle(w))
  /\ job' = [job EXCEPT ![w] = None]
  /\ claim' = [claim EXCEPT ![w] = None]
  /\ UNCHANGED <<inboxVars, associationVars, acceptances, facts, collected,
                 frontierLock, relationshipLock, answer, passVars, historyVars>>

ProjectionStep(w) ==
  BeginRebuild(w) \/ ListAcceptances(w) \/ Replace(w) \/ Publish(w) \/ Settle(w)
============================================================================
