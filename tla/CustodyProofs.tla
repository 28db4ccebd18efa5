---------------------------- MODULE CustodyProofs ----------------------------
(***************************************************************************)
(* Theorems about Custody for all Packages, identities, workers and        *)
(* crashes: type correctness, at most one CL per Package, and why a Host   *)
(* Runtime may find CLs by their association alone.  A step of the system  *)
(* falls in one of ten groups (NextGroups); each conjunct of the invariant *)
(* has a lemma that it is preserved, with one step per group.              *)
(***************************************************************************)
EXTENDS CustodyInvariant, TLAPS

\* The tuples of variables are expanded everywhere.
USE DEF vars, storeVars, lockVars, workerVars, passVars, historyVars,
        inboxVars, associationVars, projectionVars

\* Every step is one of a projection writer, a collector, a recoverer, a
\* request thread, the starting Porter, a visit, a call, or a crash.
LEMMA NextGroups ==
  ASSUME Next
  PROVE  \/ \E w \in Workers : ProjectionStep(w)
         \/ \E w \in Workers \ Handlers : CollectStep(w)
         \/ \E w \in Recoverers : RecoveryStep(w)
         \/ \E t \in Handlers :
              Arrival(t) \/ HandlerStep(t) \/ DepositRaises(t)
         \/ RestoreStep
         \/ \E h \in Hosts : VisitStep(h)
         \/ \E c \in Callers : Call(c)
         \/ Crash
BY WorkersDistinct DEF Next, PorterStep, RequestStep, HostStep, CallerStep,
    Workers, Recoverers

\* The canonical facts and the Host's copies are written by three operations
\* only: WriteAcceptance, WriteFact and MaterializeCollected.
LEMMA CanonicalFrame ==
  ASSUME Next
  PROVE  \/ UNCHANGED <<facts, acceptances, collected>>
         \/ \E w \in Workers \ Handlers :
              WriteFact(w) \/ MaterializeCollected(w)
         \/ \E t \in Handlers : WriteAcceptance(t)
<1>1. ASSUME NEW w \in Workers, ProjectionStep(w)
      PROVE  UNCHANGED <<facts, acceptances, collected>>
  BY <1>1 DEF ProjectionStep, BeginRebuild, ListAcceptances, Replace, Publish,
      Settle
<1>2. ASSUME NEW w \in Workers \ Handlers, CollectStep(w)
      PROVE  \/ UNCHANGED <<facts, acceptances, collected>>
             \/ WriteFact(w) \/ MaterializeCollected(w)
  BY <1>2 DEF CollectStep, LockPackage, Reserve, MaterializeAssociation,
      UnlinkInbox
<1>3. ASSUME NEW w \in Recoverers, RecoveryStep(w)
      PROVE  UNCHANGED <<facts, acceptances, collected>>
  BY <1>3 DEF RecoveryStep, BeginRecovery, RecoverFact, EndRecovery
<1>4. ASSUME NEW t \in Handlers,
             Arrival(t) \/ HandlerStep(t) \/ DepositRaises(t)
      PROVE  UNCHANGED <<facts, acceptances, collected>> \/ WriteAcceptance(t)
  BY <1>4 DEF Arrival, Deposit, HandlerStep, LockRelationship, Refuse,
      LookForAcceptance, WriteInboxProjection, CheckAssociation, Reply,
      DepositRaises
<1>5. ASSUME RestoreStep
      PROVE  UNCHANGED <<facts, acceptances, collected>>
  BY <1>5 DEF RestoreStep, StartPorter, ExamineAcceptance, RestoreInbox,
      AcceptancesRestored
<1>6. ASSUME NEW h \in Hosts, VisitStep(h)
      PROVE  UNCHANGED <<facts, acceptances, collected>>
  BY <1>6 DEF VisitStep, StartHost, Inspect, Select
<1>7. ASSUME NEW c \in Callers, Call(c)
      PROVE  UNCHANGED <<facts, acceptances, collected>>
  BY <1>7 DEF Call, CallCollect
<1>8. ASSUME Crash
      PROVE  UNCHANGED <<facts, acceptances, collected>>
  BY <1>8 DEF Crash, PorterCrashes, HostCrashes, CallerCrashes, PowerCut
<1> QED BY NextGroups, <1>1, <1>2, <1>3, <1>4, <1>5, <1>6, <1>7, <1>8

----------------------------------------------------------------------------
(* Type correctness. *)

\* A statement on the candidate database, committed or failed, leaves rows of
\* Packages and releases the projection lock.
LEMMA UpdateType ==
  ASSUME TypeOK, NEW w \in Workers, NEW rows \in SUBSET Packages,
         Update(w, rows)
  PROVE  /\ readable' \in BOOLEAN
         /\ projection' \subseteq Packages
         /\ projectionLock' = None
<1>1. readable' \in BOOLEAN
  BY Zenon DEF Update, TypeOK
<1> QED BY <1>1 DEF Update

\* publish writes the row of a Package: a handler that publishes has one.
LEMMA PublishType ==
  ASSUME TypeOK, CollectionInv, NEW w \in Workers, Publish(w)
  PROVE  TypeOK'
<1>1. job[w] \in Packages
  BY DEF Publish, TypeOK, CollectionInv, LabelInv, HandlerLabels, JobInv
<1>2. /\ Update(w, projection \cup {job[w]})
      /\ projection \cup {job[w]} \in SUBSET Packages
  BY <1>1 DEF Publish, TypeOK
<1>3. /\ readable' \in BOOLEAN
      /\ projection' \subseteq Packages
      /\ projectionLock' = None
  BY <1>2, UpdateType
<1> QED BY <1>3 DEF Publish, Goto, TypeOK, Labels

\* settle removes a row, whatever it is of.
LEMMA SettleType ==
  ASSUME TypeOK, CollectionInv, NEW w \in Workers, Settle(w)
  PROVE  TypeOK'
<1>1. /\ Update(w, projection \ {job[w]})
      /\ projection \ {job[w]} \in SUBSET Packages
  BY DEF Settle, TypeOK
<1>2. /\ readable' \in BOOLEAN
      /\ projection' \subseteq Packages
      /\ projectionLock' = None
  BY <1>1, UpdateType
<1> QED BY <1>2 DEF Settle, Goto, AfterSettle, TypeOK, Labels

\* A relationship lock is taken by a request thread.
LEMMA LockRelationshipType ==
  ASSUME TypeOK, CollectionInv, NEW t \in Handlers, LockRelationship(t)
  PROVE  TypeOK'
<1>1. relationshipLock' \in [Relationships -> Handlers \cup {None}]
  BY DEF LockRelationship, TypeOK
<1> QED BY <1>1 DEF LockRelationship, Goto, TypeOK, Labels, Workers

\* Every step preserves the types; what a collector, a recoverer or a handler
\* holds has the type of what it works on (JobInv, ClaimInv).
LEMMA TypeOKStep ==
  ASSUME TypeOK, CollectionInv, Next
  PROVE  TypeOK'
<1>1. ASSUME NEW w \in Workers, ProjectionStep(w)
      PROVE  TypeOK'
  <2>1. CASE BeginRebuild(w)
    BY <2>1 DEF BeginRebuild, Associated, Goto, TypeOK, Labels
  <2>2. CASE ListAcceptances(w)
    BY <2>2 DEF ListAcceptances, Accepted, Goto, TypeOK, Labels
  <2>3. CASE Replace(w)
    BY <2>3 DEF Replace, Goto, TypeOK, Labels
  <2>4. CASE Publish(w)
    BY <2>4, PublishType
  <2>5. CASE Settle(w)
    BY <2>5, SettleType
  <2> QED BY <1>1, <2>1, <2>2, <2>3, <2>4, <2>5 DEF ProjectionStep
<1>2. ASSUME NEW w \in Workers \ Handlers, CollectStep(w)
      PROVE  TypeOK'
  <2>1. CASE LockPackage(w)
    BY <2>1 DEF CollectionInv, LockPackage, Known, Goto, FreshCollections,
        Workers, TypeOK, Fact, Labels, JobInv, Answering, Accepted
  <2>2. CASE Reserve(w)
    BY <2>2 DEF CollectionInv, Reserve, WriteAssociation, Goto,
        FrontierWithout, TypeOK, Fact, Labels, ClaimInv, Collecting
  <2>3. CASE WriteFact(w)
    BY <2>3 DEF CollectionInv, WriteFact, Goto, TypeOK, Labels, ClaimInv,
        Collecting
  <2>4. CASE MaterializeCollected(w)
    BY <2>4 DEF CollectionInv, MaterializeCollected, FrontierWithout, Goto,
        TypeOK, Labels, ClaimInv, Collecting, Accepted
  <2>5. CASE MaterializeAssociation(w)
    BY SMTT(20), <2>5 DEF CollectionInv, MaterializeAssociation, WriteAssociation,
        Goto, FrontierWithout, TypeOK, Fact, Labels, ClaimInv, Collecting
  <2>6. CASE UnlinkInbox(w)
    BY <2>6 DEF UnlinkInbox, Goto, TypeOK, Labels
  <2> QED BY <1>2, <2>1, <2>2, <2>3, <2>4, <2>5, <2>6 DEF CollectStep
<1>3. ASSUME NEW w \in Recoverers, RecoveryStep(w)
      PROVE  TypeOK'
  BY <1>3, WorkersDistinct, RelationshipType DEF RecoveryStep, BeginRecovery,
      RecoverFact, EndRecovery, Goto, TypeOK, Fact, Workers, Recoverers,
      Labels
<1>4. ASSUME NEW t \in Handlers, HandlerStep(t)
      PROVE  TypeOK'
  <2>1. CASE LockRelationship(t)
    BY <2>1, LockRelationshipType
  <2>2. CASE Refuse(t)
    BY <2>2 DEF Refuse, Goto, TypeOK, Workers, Labels
  <2>3. CASE LookForAcceptance(t)
    BY <2>3 DEF CollectionInv, LookForAcceptance, Goto, TypeOK, Workers,
        Labels, JobInv
  <2>4. CASE WriteAcceptance(t)
    BY <2>4 DEF CollectionInv, WriteAcceptance, FreshAcceptances, Goto,
        TypeOK, Workers, Labels, JobInv
  <2>5. CASE WriteInboxProjection(t)
    BY <2>5 DEF CollectionInv, WriteInboxProjection, WriteInbox, Goto,
        TypeOK, Workers, Labels, JobInv
  <2>6. CASE CheckAssociation(t)
    BY <2>6 DEF CheckAssociation, Goto, TypeOK, Workers, Labels
  <2>7. CASE Reply(t)
    BY <2>7 DEF CollectionInv, Reply, Release, Goto, TypeOK, Workers,
        Labels, JobInv, Answering
  <2> QED BY <1>4, <2>1, <2>2, <2>3, <2>4, <2>5, <2>6, <2>7 DEF HandlerStep
<1>5. ASSUME NEW t \in Handlers, Arrival(t)
      PROVE  TypeOK'
  BY <1>5 DEF Arrival, Deposit, Goto, TypeOK, Workers, Labels
<1>6. ASSUME NEW t \in Handlers, DepositRaises(t)
      PROVE  TypeOK'
  BY <1>6 DEF DepositRaises, Release, Goto, TypeOK, Workers, Labels
<1>7. CASE RestoreStep
  BY <1>7 DEF CollectionInv, RestoreStep, StartPorter, ExamineAcceptance,
      RestoreInbox, AcceptancesRestored, Accepted, Goto, WriteInbox, TypeOK,
      Workers, Labels, JobInv
<1>8. ASSUME NEW h \in Hosts, VisitStep(h)
      PROVE  TypeOK'
  BY <1>8 DEF VisitStep, StartHost, Inspect, Select, Goto, TypeOK, Labels
<1>9. ASSUME NEW c \in Callers, Call(c)
      PROVE  TypeOK'
  BY <1>9 DEF Call, CallCollect, Goto, TypeOK, Workers, Labels
<1>10. CASE Crash
  BY <1>10 DEF Crash, PorterCrashes, HostCrashes, CallerCrashes, PowerCut,
      Die, Accepted, TypeOK, Labels
<1> QED BY NextGroups, <1>1, <1>2, <1>3, <1>4, <1>5, <1>6, <1>7, <1>8, <1>9,
    <1>10

----------------------------------------------------------------------------
(* The conjuncts of CollectionInv. *)

\* Handlers, collectors and the Porter keep to their own labels.
LEMMA LabelInvStep ==
  ASSUME TypeOK, CollectionInv, Next
  PROVE  LabelInv'
<1>1. ASSUME NEW w \in Workers, ProjectionStep(w)
      PROVE  LabelInv'
  BY <1>1 DEF CollectionInv, ProjectionStep, BeginRebuild, ListAcceptances,
      Replace, Publish, Settle, Goto, AfterSettle, LabelInv, HandlerLabels,
      Workers, TypeOK
<1>2. ASSUME NEW w \in Workers \ Handlers, CollectStep(w)
      PROVE  LabelInv'
  BY <1>2 DEF CollectionInv, CollectStep, LockPackage, Reserve, WriteFact,
      MaterializeCollected, MaterializeAssociation, UnlinkInbox, Goto,
      Workers, LabelInv, HandlerLabels, TypeOK
<1>3. ASSUME NEW w \in Recoverers, RecoveryStep(w)
      PROVE  LabelInv'
  BY <1>3 DEF CollectionInv, RecoveryStep, BeginRecovery, RecoverFact,
      EndRecovery, Goto, LabelInv, HandlerLabels, Workers, TypeOK
<1>4. ASSUME NEW t \in Handlers, HandlerStep(t)
      PROVE  LabelInv'
  BY <1>4 DEF CollectionInv, HandlerStep, LockRelationship, Refuse,
      LookForAcceptance, WriteAcceptance, WriteInboxProjection,
      CheckAssociation, Reply, Goto, LabelInv, HandlerLabels, Workers, TypeOK
<1>5. ASSUME NEW t \in Handlers, Arrival(t)
      PROVE  LabelInv'
  BY <1>5 DEF CollectionInv, Arrival, Deposit, Goto, LabelInv, HandlerLabels
<1>6. ASSUME NEW t \in Handlers, DepositRaises(t)
      PROVE  LabelInv'
  BY <1>6 DEF CollectionInv, DepositRaises, Goto, LabelInv
<1>7. CASE RestoreStep
  BY <1>7 DEF CollectionInv, RestoreStep, StartPorter, ExamineAcceptance,
      RestoreInbox, AcceptancesRestored, Goto, LabelInv, HandlerLabels,
      Workers, TypeOK
<1>8. ASSUME NEW h \in Hosts, VisitStep(h)
      PROVE  LabelInv'
  BY <1>8, WorkersDistinct DEF CollectionInv, VisitStep, StartHost, Inspect,
      Select, Goto, LabelInv, HandlerLabels, Workers, TypeOK
<1>9. ASSUME NEW c \in Callers, Call(c)
      PROVE  LabelInv'
  BY <1>9, WorkersDistinct DEF CollectionInv, Call, CallCollect, Goto,
      LabelInv, HandlerLabels
<1>10. CASE Crash
  BY <1>10, WorkersDistinct DEF CollectionInv, Crash, PorterCrashes,
      HostCrashes, CallerCrashes, PowerCut, Die, Workers, Recoverers,
      LabelInv, HandlerLabels
<1> QED BY NextGroups, <1>1, <1>2, <1>3, <1>4, <1>5, <1>6, <1>7, <1>8, <1>9,
    <1>10

\* What is worked on, projected or collected has been accepted: an AC is never
\* removed.
LEMMA JobInvStep ==
  ASSUME TypeOK, CollectionInv, Next
  PROVE  JobInv'
<1>1. ASSUME NEW w \in Workers, ProjectionStep(w)
      PROVE  JobInv'
  BY <1>1 DEF CollectionInv, ProjectionStep, BeginRebuild, ListAcceptances,
      Replace, Publish, Settle, Goto, Accepted, AfterSettle, JobInv,
      Answering, Workers, TypeOK, LabelInv, HandlerLabels
<1>2. ASSUME NEW w \in Workers \ Handlers, CollectStep(w)
      PROVE  JobInv'
  BY <1>2 DEF CollectionInv, CollectStep, LockPackage, Reserve, WriteFact,
      MaterializeCollected, MaterializeAssociation, UnlinkInbox, Goto,
      Workers, JobInv, Accepted, TypeOK, ClaimInv, Collecting
<1>3. ASSUME NEW w \in Recoverers, RecoveryStep(w)
      PROVE  JobInv'
  BY <1>3, NoneDistinct DEF CollectionInv, RecoveryStep, BeginRecovery,
      RecoverFact, EndRecovery, Goto, JobInv, Answering, Accepted, Workers,
      TypeOK, Fact
<1>4. ASSUME NEW t \in Handlers, HandlerStep(t)
      PROVE  JobInv'
  <2>1. CASE LockRelationship(t)
    BY <2>1 DEF CollectionInv, LockRelationship, Goto, JobInv, Answering,
        Accepted
  <2>2. CASE Refuse(t)
    BY <2>2 DEF CollectionInv, Refuse, Goto, JobInv, Answering, Accepted,
        TypeOK
  <2>3. CASE LookForAcceptance(t)
    BY <2>3 DEF CollectionInv, LookForAcceptance, Goto, JobInv, Answering,
        Accepted, TypeOK, CollectedNeedsFact
  <2>4. CASE WriteAcceptance(t)
    BY <2>4, NoneDistinct DEF CollectionInv, WriteAcceptance,
        FreshAcceptances, Goto, JobInv, Accepted, TypeOK
  <2>5. CASE WriteInboxProjection(t)
    BY <2>5 DEF CollectionInv, WriteInboxProjection, WriteInbox, Goto,
        JobInv, Answering, Accepted
  <2>6. CASE CheckAssociation(t)
    BY <2>6 DEF CollectionInv, CheckAssociation, Goto, JobInv, Answering,
        Accepted
  <2>7. CASE Reply(t)
    BY <2>7 DEF CollectionInv, Reply, Goto, JobInv, Answering, Accepted,
        Workers, TypeOK
  <2> QED BY <1>4, <2>1, <2>2, <2>3, <2>4, <2>5, <2>6, <2>7 DEF HandlerStep
<1>5. ASSUME NEW t \in Handlers, Arrival(t)
      PROVE  JobInv'
  BY <1>5, NoneDistinct DEF CollectionInv, Arrival, Deposit, Goto, JobInv,
      Answering, Accepted, TypeOK
<1>6. ASSUME NEW t \in Handlers, DepositRaises(t)
      PROVE  JobInv'
  BY <1>6 DEF CollectionInv, DepositRaises, Goto, JobInv, Answering,
      Accepted, Workers, TypeOK
<1>7. CASE RestoreStep
  BY <1>7, WorkersDistinct DEF CollectionInv, RestoreStep, StartPorter,
      ExamineAcceptance, RestoreInbox, AcceptancesRestored, Accepted, Goto,
      WriteInbox, JobInv, Workers, TypeOK
<1>8. ASSUME NEW h \in Hosts, VisitStep(h)
      PROVE  JobInv'
  BY <1>8, WorkersDistinct DEF CollectionInv, VisitStep, StartHost, Inspect,
      Select, Goto, JobInv, Accepted, Workers, TypeOK
<1>9. ASSUME NEW c \in Callers, Call(c)
      PROVE  JobInv'
  BY <1>9, NoneDistinct DEF CollectionInv, Call, CallCollect, Goto, JobInv,
      Answering, Accepted, TypeOK
<1>10. CASE Crash
  BY <1>10, WorkersDistinct DEF CollectionInv, Crash, PorterCrashes,
      HostCrashes, CallerCrashes, PowerCut, Die, Workers, Accepted,
      Recoverers, JobInv, Answering
<1> QED BY NextGroups, <1>1, <1>2, <1>3, <1>4, <1>5, <1>6, <1>7, <1>8, <1>9,
    <1>10

\* A claim is made under the Package lock, which nobody else takes or releases
\* but by a crash of its holder; a collector that found no CL is right, because
\* a caller scans the facts and a Host relies on AssociationInv.
LEMMA ClaimInvStep ==
  ASSUME TypeOK, CollectionInv, Next
  PROVE  ClaimInv'
<1>1. ASSUME NEW w \in Workers, ProjectionStep(w)
      PROVE  ClaimInv'
  BY <1>1, NoneDistinct DEF CollectionInv, ProjectionStep, BeginRebuild,
      ListAcceptances, Replace, Publish, Settle, Goto, Accepted, AfterSettle,
      ClaimInv, Collecting, TypeOK
<1>2. ASSUME NEW w \in Workers \ Handlers, CollectStep(w)
      PROVE  ClaimInv'
  <2> USE NoneDistinct DEF CollectionInv, Goto, Workers, ClaimInv, Collecting,
          Accepted, TypeOK, JobInv, Answering
  <2>1. CASE LockPackage(w)
    <3>1. job[w] \in Accepted /\ job[w] \in Packages /\ claim[w] = None
      BY <1>2, <2>1 DEF LockPackage
    <3>2. \A f \in Known(w, job[w]) : f \in facts /\ f.package = job[w]
      BY DEF Known
    <3>3. Known(w, job[w]) = {} => \A f \in facts : f.package # job[w]
      BY <1>2, <2>1, <3>1 DEF LockPackage, Known, Scans, AssociationInv, Named,
         RecoveryInv, LabelInv, Recoverers
    <3>4. \A v \in Workers \ {w} : pc'[v] = pc[v] /\ claim'[v] = claim[v]
      BY <2>1 DEF LockPackage
    <3>5. \A v \in Workers \ {w} : claim[v] # None =>
            packageLock[job[v]] = v /\ packageLock'[job[v]] = v
      BY <1>2, <2>1, <3>1 DEF LockPackage
    <3>6. CASE Known(w, job[w]) # {}
      <4>1. PICK f \in Known(w, job[w]) : claim' = [claim EXCEPT ![w] = f]
        BY <2>1, <3>6 DEF LockPackage
      <4>2. f \in facts /\ f.package = job[w] /\ f # None
        BY <3>2, <4>1 DEF Fact
      <4>3. claim'[w] = f /\ pc'[w] = "collected" /\ packageLock'[job[w]] = w
        BY <1>2, <2>1, <3>1, <3>6, <4>1 DEF LockPackage
      <4> QED
        BY <1>2, <2>1, <3>1, <3>4, <3>5, <4>2, <4>3 DEF LockPackage
    <3>7. CASE Known(w, job[w]) = {}
      <4>1. PICK c \in CollectionIds :
              claim' = [claim EXCEPT ![w] =
                          [collection |-> c, package |-> job[w],
                           acceptance |-> acceptances[job[w]]]]
        BY <2>1, <3>7 DEF LockPackage, FreshCollections
      <4>2. /\ claim'[w].package = job[w] /\ claim'[w] # None
            /\ pc'[w] = "reserve" /\ packageLock'[job[w]] = w
        BY <1>2, <2>1, <3>1, <3>7, <4>1 DEF LockPackage, Fact
      <4> QED
        BY <1>2, <2>1, <3>1, <3>3, <3>4, <3>5, <3>7, <4>2 DEF LockPackage
    <3> QED
      BY <3>6, <3>7
  <2>2. CASE Reserve(w)
    BY <1>2, <2>2 DEF Reserve, FreshCollections, WriteAssociation
  <2>3. CASE WriteFact(w)
    BY <1>2, <2>3 DEF WriteFact, Fact
  <2>4. CASE MaterializeCollected(w)
    BY <1>2, <2>4 DEF MaterializeCollected
  <2>5. CASE MaterializeAssociation(w)
    BY <1>2, <2>5 DEF MaterializeAssociation, WriteAssociation
  <2>6. CASE UnlinkInbox(w)
    BY <1>2, <2>6 DEF UnlinkInbox
  <2> QED
    BY <1>2, <2>1, <2>2, <2>3, <2>4, <2>5, <2>6 DEF CollectStep
<1>3. ASSUME NEW w \in Recoverers, RecoveryStep(w)
      PROVE  ClaimInv'
  BY <1>3, WorkersDistinct, NoneDistinct DEF CollectionInv, RecoveryStep,
      BeginRecovery, RecoverFact, EndRecovery, Goto, ClaimInv, Collecting,
      Accepted, TypeOK, Recoverers, JobInv, RecoveryInv
<1>4. ASSUME NEW t \in Handlers, HandlerStep(t)
      PROVE  ClaimInv'
  <2>1. CASE LockRelationship(t)
    BY <2>1 DEF CollectionInv, LockRelationship, Goto, ClaimInv,
        Collecting, Accepted
  <2>2. CASE Refuse(t)
    BY <2>2 DEF CollectionInv, Refuse, Goto, ClaimInv, Collecting, Accepted
  <2>3. CASE LookForAcceptance(t)
    BY <2>3 DEF CollectionInv, LookForAcceptance, Goto, ClaimInv,
        Collecting, Accepted
  <2>4. CASE WriteAcceptance(t)
    BY <2>4, NoneDistinct DEF CollectionInv, WriteAcceptance,
        FreshAcceptances, Goto, ClaimInv, Collecting, Accepted
  <2>5. CASE WriteInboxProjection(t)
    BY <2>5 DEF CollectionInv, WriteInboxProjection, Goto, ClaimInv,
        Collecting, Accepted
  <2>6. CASE CheckAssociation(t)
    BY <2>6 DEF CollectionInv, CheckAssociation, Goto, ClaimInv,
        Collecting, Accepted
  <2>7. CASE Reply(t)
    BY <2>7 DEF CollectionInv, Reply, Goto, ClaimInv, Collecting, Accepted
  <2> QED BY <1>4, <2>1, <2>2, <2>3, <2>4, <2>5, <2>6, <2>7 DEF HandlerStep
<1>5. ASSUME NEW t \in Handlers, Arrival(t)
      PROVE  ClaimInv'
  BY <1>5 DEF CollectionInv, Arrival, Deposit, Goto, ClaimInv, Collecting,
      Accepted
<1>6. ASSUME NEW t \in Handlers, DepositRaises(t)
      PROVE  ClaimInv'
  BY <1>6 DEF CollectionInv, DepositRaises, Goto, ClaimInv, Collecting,
      Accepted
<1>7. CASE RestoreStep
  BY <1>7 DEF CollectionInv, RestoreStep, StartPorter, ExamineAcceptance,
      RestoreInbox, AcceptancesRestored, Accepted, Goto, ClaimInv,
      Collecting, TypeOK
<1>8. ASSUME NEW h \in Hosts, VisitStep(h)
      PROVE  ClaimInv'
  BY <1>8 DEF CollectionInv, VisitStep, StartHost, Inspect, Select, Goto,
      ClaimInv, Collecting, Accepted, TypeOK
<1>9. ASSUME NEW c \in Callers, Call(c)
      PROVE  ClaimInv'
  BY <1>9 DEF CollectionInv, Call, CallCollect, Goto, ClaimInv, Collecting,
      Accepted
<1>10. CASE Crash
  BY <1>10 DEF CollectionInv, Crash, PorterCrashes, HostCrashes,
      CallerCrashes, PowerCut, Die, Accepted, ClaimInv, Collecting
<1> QED BY NextGroups, <1>1, <1>2, <1>3, <1>4, <1>5, <1>6, <1>7, <1>8, <1>9,
    <1>10

\* One recoverer at a time has the frontier lock, from listing to last fact.
LEMMA RecoveryInvStep ==
  ASSUME TypeOK, CollectionInv, Next
  PROVE  RecoveryInv'
<1>1. ASSUME NEW w \in Workers, ProjectionStep(w)
      PROVE  RecoveryInv'
  BY <1>1 DEF CollectionInv, ProjectionStep, BeginRebuild, ListAcceptances,
      Replace, Publish, Settle, Goto, AfterSettle, RecoveryInv, TypeOK
<1>2. ASSUME NEW w \in Workers \ Handlers, CollectStep(w)
      PROVE  RecoveryInv'
  BY <1>2 DEF CollectionInv, CollectStep, LockPackage, Reserve, WriteFact,
      MaterializeCollected, MaterializeAssociation, UnlinkInbox, Goto,
      RecoveryInv, TypeOK, ClaimInv, Collecting
<1>3. ASSUME NEW w \in Recoverers, RecoveryStep(w)
      PROVE  RecoveryInv'
  BY <1>3, NoneDistinct DEF CollectionInv, RecoveryStep, BeginRecovery,
      RecoverFact, EndRecovery, Goto, RecoveryInv, Workers, TypeOK,
      Recoverers
<1>4. ASSUME NEW t \in Handlers, HandlerStep(t)
      PROVE  RecoveryInv'
  BY <1>4 DEF CollectionInv, HandlerStep, LockRelationship, Refuse,
      LookForAcceptance, WriteAcceptance, WriteInboxProjection,
      CheckAssociation, Reply, Goto, RecoveryInv, TypeOK
<1>5. ASSUME NEW t \in Handlers, Arrival(t)
      PROVE  RecoveryInv'
  BY <1>5 DEF CollectionInv, Arrival, Deposit, Goto, RecoveryInv
<1>6. ASSUME NEW t \in Handlers, DepositRaises(t)
      PROVE  RecoveryInv'
  BY <1>6 DEF CollectionInv, DepositRaises, Goto, RecoveryInv
<1>7. CASE RestoreStep
  BY <1>7 DEF CollectionInv, RestoreStep, StartPorter, ExamineAcceptance,
      RestoreInbox, AcceptancesRestored, Goto, RecoveryInv, TypeOK
<1>8. ASSUME NEW h \in Hosts, VisitStep(h)
      PROVE  RecoveryInv'
  BY <1>8 DEF CollectionInv, VisitStep, StartHost, Inspect, Select, Goto,
      RecoveryInv, TypeOK
<1>9. ASSUME NEW c \in Callers, Call(c)
      PROVE  RecoveryInv'
  BY <1>9 DEF CollectionInv, Call, CallCollect, Goto, RecoveryInv
<1>10. CASE Crash
  BY <1>10, NoneDistinct DEF CollectionInv, Crash, PorterCrashes,
      HostCrashes, CallerCrashes, PowerCut, Die, RecoveryInv
<1> QED BY NextGroups, <1>1, <1>2, <1>3, <1>4, <1>5, <1>6, <1>7, <1>8, <1>9,
    <1>10

\* Only a collector of the Package itself moves an association away from a CL,
\* and then its CL is not there yet; a power cut stops every Host, which must
\* recover before it relies on associations again.
LEMMA AssociationInvStep ==
  ASSUME TypeOK, CollectionInv, Next
  PROVE  AssociationInv'
<1>1. ASSUME NEW w \in Workers, ProjectionStep(w)
      PROVE  AssociationInv'
  BY <1>1 DEF CollectionInv, ProjectionStep, BeginRebuild, ListAcceptances,
      Replace, Publish, Settle, Goto, AssociationInv, Named, TypeOK, Workers
<1>2. ASSUME NEW w \in Workers \ Handlers, CollectStep(w)
      PROVE  AssociationInv'
  BY <1>2 DEF CollectionInv, CollectStep, LockPackage, Reserve, WriteFact,
      MaterializeCollected, MaterializeAssociation, UnlinkInbox, Goto,
      WriteAssociation, Workers, AssociationInv, Named, TypeOK, Fact,
      Recoverers, ClaimInv, Collecting, Accepted, OneCollectionPerPackage
<1>3. ASSUME NEW w \in Recoverers, RecoveryStep(w)
      PROVE  AssociationInv'
  BY <1>3, NoneDistinct DEF CollectionInv, RecoveryStep, BeginRecovery,
      RecoverFact, EndRecovery, Audits, Goto, AssociationInv, Named, TypeOK,
      Workers, Recoverers, RecoveryInv
<1>4. ASSUME NEW t \in Handlers, HandlerStep(t)
      PROVE  AssociationInv'
  BY <1>4 DEF CollectionInv, HandlerStep, LockRelationship, Refuse,
      LookForAcceptance, WriteAcceptance, WriteInboxProjection,
      CheckAssociation, Reply, Goto, AssociationInv, Named, TypeOK, Workers
<1>5. ASSUME NEW t \in Handlers, Arrival(t)
      PROVE  AssociationInv'
  BY <1>5 DEF CollectionInv, Arrival, Deposit, Goto, AssociationInv, Named
<1>6. ASSUME NEW t \in Handlers, DepositRaises(t)
      PROVE  AssociationInv'
  BY <1>6 DEF CollectionInv, DepositRaises, Goto, AssociationInv, Named
<1>7. CASE RestoreStep
  BY <1>7, WorkersDistinct DEF CollectionInv, RestoreStep, StartPorter,
      ExamineAcceptance, RestoreInbox, AcceptancesRestored, Goto,
      AssociationInv, Named, TypeOK, Workers
<1>8. ASSUME NEW h \in Hosts, VisitStep(h)
      PROVE  AssociationInv'
  BY <1>8 DEF CollectionInv, VisitStep, StartHost, Inspect, Select, Goto,
      AssociationInv, Named, TypeOK, Workers
<1>9. ASSUME NEW c \in Callers, Call(c)
      PROVE  AssociationInv'
  BY <1>9 DEF CollectionInv, Call, CallCollect, Goto, AssociationInv, Named
<1>10. CASE Crash
  BY <1>10, NoneDistinct DEF CollectionInv, Crash, PorterCrashes,
      HostCrashes, CallerCrashes, PowerCut, Die, Workers, Recoverers,
      AssociationInv, Named
<1> QED BY NextGroups, <1>1, <1>2, <1>3, <1>4, <1>5, <1>6, <1>7, <1>8, <1>9,
    <1>10

\* WriteFact publishes the CL of a Package that has none (ClaimInv).
LEMMA OneCollectionPerPackageStep ==
  ASSUME CollectionInv, Next
  PROVE  OneCollectionPerPackage'
<1>1. ASSUME NEW w \in Workers \ Handlers, WriteFact(w)
      PROVE  OneCollectionPerPackage'
  <2>1. \A f \in facts : f.package # claim[w].package
    BY <1>1 DEF WriteFact, CollectionInv, ClaimInv, Collecting
  <2>2. facts' = facts \cup {claim[w]}
    BY <1>1 DEF WriteFact
  <2> QED BY <2>1, <2>2 DEF CollectionInv, OneCollectionPerPackage
<1>2. CASE UNCHANGED facts
  BY <1>2 DEF CollectionInv, OneCollectionPerPackage
<1> QED BY CanonicalFrame, <1>1, <1>2 DEF WriteAcceptance, MaterializeCollected

\* materialize copies a Package whose CL is published (ClaimInv).
LEMMA CollectedNeedsFactStep ==
  ASSUME CollectionInv, Next
  PROVE  CollectedNeedsFact'
<1>1. ASSUME NEW w \in Workers \ Handlers, MaterializeCollected(w)
      PROVE  CollectedNeedsFact'
  <2>1. claim[w] \in facts /\ claim[w].package = job[w]
    BY <1>1 DEF MaterializeCollected, CollectionInv, ClaimInv, Collecting
  <2>2. collected' = collected \cup {job[w]} /\ facts' = facts
    BY <1>1 DEF MaterializeCollected
  <2> QED BY <2>1, <2>2 DEF CollectionInv, CollectedNeedsFact
<1>2. CASE UNCHANGED collected /\ facts \subseteq facts'
  BY <1>2 DEF CollectionInv, CollectedNeedsFact
<1> QED BY CanonicalFrame, <1>1, <1>2 DEF WriteFact, WriteAcceptance

----------------------------------------------------------------------------
(* The theorems. *)

\* An empty store and processes that are down satisfy the invariant.
LEMMA InitInvariant == Init => TypeOK /\ CollectionInv
<1> SUFFICES ASSUME Init PROVE TypeOK /\ CollectionInv
  OBVIOUS
<1>1. TypeOK
  BY WorkersDistinct, NoneDistinct DEF Init, TypeOK, Labels, Workers,
      Recoverers
<1>2. LabelInv
  BY WorkersDistinct DEF Init, LabelInv, HandlerLabels, Workers, Recoverers
<1>3. JobInv
  BY WorkersDistinct DEF Init, JobInv, Answering, Workers, Recoverers, Accepted
<1>4. ClaimInv
  BY DEF Init, ClaimInv, Collecting
<1>5. RecoveryInv
  BY NoneDistinct DEF Init, RecoveryInv, Workers, Recoverers
<1>6. AssociationInv
  BY NoneDistinct DEF Init, AssociationInv
<1>7. OneCollectionPerPackage /\ CollectedNeedsFact
  BY DEF Init, OneCollectionPerPackage, CollectedNeedsFact
<1> QED BY <1>1, <1>2, <1>3, <1>4, <1>5, <1>6, <1>7 DEF CollectionInv

\* CollectionInv is preserved by every step, whole.
LEMMA CollectionInvStep ==
  ASSUME TypeOK, CollectionInv, Next
  PROVE  CollectionInv'
BY LabelInvStep, JobInvStep, ClaimInvStep, RecoveryInvStep, AssociationInvStep,
   OneCollectionPerPackageStep, CollectedNeedsFactStep DEF CollectionInv

\* A step that changes nothing preserves everything.
LEMMA Stuttering ==
  ASSUME TypeOK, CollectionInv, UNCHANGED vars
  PROVE  TypeOK' /\ CollectionInv'
<1>1. TypeOK'
  BY DEF TypeOK
<1>2. LabelInv' /\ JobInv' /\ ClaimInv'
  BY DEF CollectionInv, LabelInv, JobInv, ClaimInv, Answering, Collecting,
         HandlerLabels, Accepted
<1>3. /\ RecoveryInv' /\ AssociationInv'
      /\ OneCollectionPerPackage' /\ CollectedNeedsFact'
  BY DEF CollectionInv, RecoveryInv, AssociationInv, Named,
         OneCollectionPerPackage, CollectedNeedsFact
<1> QED BY <1>1, <1>2, <1>3 DEF CollectionInv

\* TypeOK and CollectionInv hold of every reachable state, however many
\* processes run, collect, recover and crash.
LEMMA InductiveInvariant == Spec => [](TypeOK /\ CollectionInv)
<1>1. TypeOK /\ CollectionInv /\ [Next]_vars => (TypeOK /\ CollectionInv)'
  BY TypeOKStep, CollectionInvStep, Stuttering
<1> QED BY InitInvariant, <1>1, PTL DEF Spec

\* Every file, lock and local variable keeps its type.
THEOREM TypeCorrectness == Spec => []TypeOK
BY InductiveInvariant, PTL

\* Claims, locks, associations and recoveries stay consistent with the CL facts
\* through any number of Packages, processes and crashes.
THEOREM CollectionInvariance == Spec => []CollectionInv
BY InductiveInvariant, PTL

\* A Package never has two CL facts: collect_package and the recoveries of
\* custody.py, run by anybody at any time and killed anywhere.
THEOREM OneCollection == Spec => []OneCollectionPerPackage
<1>1. CollectionInv => OneCollectionPerPackage
  BY DEF CollectionInv
<1> QED BY <1>1, CollectionInvariance, PTL

\* A Host's copy of a Package exists only after its canonical CL (materialize).
THEOREM CopyNeedsCollection == Spec => []CollectedNeedsFact
<1>1. CollectionInv => CollectedNeedsFact
  BY DEF CollectionInv
<1> QED BY <1>1, CollectionInvariance, PTL

\* A Host Runtime past its recovery may pass scan_missing=False: every CL is
\* found by its association (the comment in host_runtime.py visit).
THEOREM AssociationSuffices == Spec => []AssociationSufficesAfterRecovery
<1>1. CollectionInv => AssociationSufficesAfterRecovery
  BY DEF CollectionInv, AssociationInv, Named, AssociationSufficesAfterRecovery
<1> QED BY <1>1, CollectionInvariance, PTL

----------------------------------------------------------------------------
(***************************************************************************)
(* Acceptance at a Porter whose senders all hold an Introduction: an AC is *)
(* written once, whatever names it stays right, and the store implements   *)
(* the abstract promise of PackageCustody.                                 *)
(***************************************************************************)

(* The conjuncts of AcceptanceInv. *)

\* A thread that saw no AC under its relationship lock still sees none when it
\* writes: nobody else gets past authorize for a Package of that relationship.
LEMMA WriterInvStep ==
  ASSUME TypeOK, CollectionInv, AcceptanceInv,
         AllIntroduced, Next
  PROVE  WriterInv'
<1>1. ASSUME NEW w \in Workers, ProjectionStep(w)
      PROVE  WriterInv'
  BY <1>1 DEF CollectionInv, AcceptanceInv, ProjectionStep, BeginRebuild,
      ListAcceptances, Replace, Publish, Settle, Goto, WriterInv, Answering,
      TypeOK, Workers, LabelInv, HandlerLabels
<1>2. ASSUME NEW w \in Workers \ Handlers, CollectStep(w)
      PROVE  WriterInv'
  BY <1>2, WorkersDistinct, NoneDistinct DEF AcceptanceInv, CollectStep,
      LockPackage, Reserve, WriteFact, MaterializeCollected,
      MaterializeAssociation, UnlinkInbox, Goto, Workers, WriterInv, TypeOK
<1>3. ASSUME NEW w \in Recoverers, RecoveryStep(w)
      PROVE  WriterInv'
  BY <1>3 DEF AcceptanceInv, RecoveryStep, BeginRecovery, RecoverFact,
      EndRecovery, Goto, WriterInv, Answering, TypeOK, Workers
<1>4. ASSUME NEW t \in Handlers, HandlerStep(t)
      PROVE  WriterInv'
  <2>1. CASE LockRelationship(t)
    BY <2>1, NoneDistinct, RelationshipType DEF CollectionInv,
        AcceptanceInv, LockRelationship, Goto, WriterInv, Answering,
        TypeOK, Workers, JobInv, AllIntroduced
  <2>2. CASE Refuse(t)
    BY <2>2 DEF AcceptanceInv, Refuse, Goto, WriterInv, Answering
  <2>3. CASE LookForAcceptance(t)
    BY <2>3 DEF AcceptanceInv, LookForAcceptance, Goto, WriterInv, TypeOK
  <2>4. CASE WriteAcceptance(t)
    BY <2>4 DEF CollectionInv, AcceptanceInv, WriteAcceptance, Goto,
        WriterInv, TypeOK, Workers, JobInv
  <2>5. CASE WriteInboxProjection(t)
    BY <2>5 DEF AcceptanceInv, WriteInboxProjection, Goto, WriterInv,
        Answering
  <2>6. CASE CheckAssociation(t)
    BY <2>6 DEF AcceptanceInv, CheckAssociation, Goto, WriterInv, Answering
  <2>7. CASE Reply(t)
    BY <2>7, RelationshipType DEF CollectionInv, AcceptanceInv, Reply,
        Release, Goto, WriterInv, Answering, TypeOK, Workers, JobInv,
        AllIntroduced
  <2> QED BY <1>4, <2>1, <2>2, <2>3, <2>4, <2>5, <2>6, <2>7 DEF HandlerStep
<1>5. ASSUME NEW t \in Handlers, Arrival(t)
      PROVE  WriterInv'
  BY <1>5 DEF AcceptanceInv, Arrival, Deposit, Goto, WriterInv, Answering,
      TypeOK, AllIntroduced
<1>6. ASSUME NEW t \in Handlers, DepositRaises(t)
      PROVE  WriterInv'
  BY <1>6, RelationshipType DEF CollectionInv, AcceptanceInv, DepositRaises,
      Release, Goto, WriterInv, Answering, TypeOK, Workers, JobInv,
      AllIntroduced
<1>7. CASE RestoreStep
  BY <1>7 DEF AcceptanceInv, RestoreStep, StartPorter, ExamineAcceptance,
      RestoreInbox, AcceptancesRestored, Goto, WriterInv, Answering, TypeOK,
      Workers
<1>8. ASSUME NEW h \in Hosts, VisitStep(h)
      PROVE  WriterInv'
  BY <1>8 DEF AcceptanceInv, VisitStep, StartHost, Inspect, Select, Goto,
      WriterInv, Answering, TypeOK, Workers
<1>9. ASSUME NEW c \in Callers, Call(c)
      PROVE  WriterInv'
  BY <1>9 DEF AcceptanceInv, Call, CallCollect, Goto, WriterInv, Answering
<1>10. CASE Crash
  BY <1>10, WorkersDistinct DEF AcceptanceInv, Crash, PorterCrashes,
      HostCrashes, CallerCrashes, PowerCut, Die, Workers, WriterInv,
      Answering, TypeOK
<1> QED BY NextGroups, <1>1, <1>2, <1>3, <1>4, <1>5, <1>6, <1>7, <1>8, <1>9,
    <1>10

\* CLs, receipts and claims copy the AC they name, and WriteAcceptance only
\* writes one that nothing names yet.
LEMMA NamingInvStep ==
  ASSUME TypeOK, CollectionInv, AcceptanceInv, Next
  PROVE  NamingInv'
<1>1. ASSUME NEW w \in Workers, ProjectionStep(w)
      PROVE  NamingInv'
  BY <1>1 DEF AcceptanceInv, ProjectionStep, BeginRebuild, ListAcceptances,
      Replace, Publish, Settle, NamingInv, CollectionNamesAcceptance,
      ReceiptNamesAcceptance, TypeOK
<1>2. ASSUME NEW w \in Workers \ Handlers, CollectStep(w)
      PROVE  NamingInv'
  BY <1>2, WorkersDistinct, NoneDistinct DEF CollectionInv, AcceptanceInv,
      CollectStep, LockPackage, Reserve, WriteFact, MaterializeCollected,
      MaterializeAssociation, UnlinkInbox, Known, NamingInv,
      CollectionNamesAcceptance, ReceiptNamesAcceptance, TypeOK,
      HandlerLabels, JobInv, Answering, ClaimInv, Collecting
<1>3. ASSUME NEW w \in Recoverers, RecoveryStep(w)
      PROVE  NamingInv'
  BY <1>3 DEF CollectionInv, AcceptanceInv, RecoveryStep, BeginRecovery,
      RecoverFact, EndRecovery, NamingInv, CollectionNamesAcceptance,
      ReceiptNamesAcceptance, TypeOK, RecoveryInv
<1>4. ASSUME NEW t \in Handlers, HandlerStep(t)
      PROVE  NamingInv'
  <2>1. CASE LockRelationship(t)
    BY <2>1 DEF AcceptanceInv, LockRelationship, NamingInv,
        CollectionNamesAcceptance, ReceiptNamesAcceptance
  <2>2. CASE Refuse(t)
    BY <2>2 DEF AcceptanceInv, Refuse, NamingInv,
        CollectionNamesAcceptance, ReceiptNamesAcceptance
  <2>3. CASE LookForAcceptance(t)
    BY <2>3 DEF AcceptanceInv, LookForAcceptance, NamingInv,
        CollectionNamesAcceptance, ReceiptNamesAcceptance
  <2>4. CASE WriteAcceptance(t)
    BY <2>4, NoneDistinct DEF AcceptanceInv, WriteAcceptance, NamingInv,
        CollectionNamesAcceptance, ReceiptNamesAcceptance, TypeOK, Fact,
        WriterInv
  <2>5. CASE WriteInboxProjection(t)
    BY <2>5 DEF AcceptanceInv, WriteInboxProjection, NamingInv,
        CollectionNamesAcceptance, ReceiptNamesAcceptance
  <2>6. CASE CheckAssociation(t)
    BY <2>6 DEF AcceptanceInv, CheckAssociation, NamingInv,
        CollectionNamesAcceptance, ReceiptNamesAcceptance
  <2>7. CASE Reply(t)
    BY <2>7 DEF AcceptanceInv, Reply, NamingInv, CollectionNamesAcceptance,
        ReceiptNamesAcceptance, WriterInv, Answering
  <2> QED BY <1>4, <2>1, <2>2, <2>3, <2>4, <2>5, <2>6, <2>7 DEF HandlerStep
<1>5. ASSUME NEW t \in Handlers, Arrival(t)
      PROVE  NamingInv'
  BY <1>5 DEF AcceptanceInv, Arrival, Deposit, NamingInv,
      CollectionNamesAcceptance, ReceiptNamesAcceptance
<1>6. ASSUME NEW t \in Handlers, DepositRaises(t)
      PROVE  NamingInv'
  BY <1>6 DEF AcceptanceInv, DepositRaises, NamingInv,
      CollectionNamesAcceptance, ReceiptNamesAcceptance
<1>7. CASE RestoreStep
  BY <1>7 DEF AcceptanceInv, RestoreStep, StartPorter, ExamineAcceptance,
      RestoreInbox, AcceptancesRestored, NamingInv,
      CollectionNamesAcceptance, ReceiptNamesAcceptance
<1>8. ASSUME NEW h \in Hosts, VisitStep(h)
      PROVE  NamingInv'
  BY <1>8 DEF AcceptanceInv, VisitStep, StartHost, Inspect, Select,
      NamingInv, CollectionNamesAcceptance, ReceiptNamesAcceptance
<1>9. ASSUME NEW c \in Callers, Call(c)
      PROVE  NamingInv'
  BY <1>9 DEF AcceptanceInv, Call, CallCollect, NamingInv,
      CollectionNamesAcceptance, ReceiptNamesAcceptance
<1>10. CASE Crash
  BY <1>10 DEF AcceptanceInv, Crash, PorterCrashes, HostCrashes,
      CallerCrashes, PowerCut, Die, NamingInv, CollectionNamesAcceptance,
      ReceiptNamesAcceptance
<1> QED BY NextGroups, <1>1, <1>2, <1>3, <1>4, <1>5, <1>6, <1>7, <1>8, <1>9,
    <1>10

\* A drawn CL identity is not that of a fact nor of another claim.
LEMMA FreshInvStep ==
  ASSUME TypeOK, CollectionInv, AcceptanceInv, Next
  PROVE  FreshInv'
<1>1. ASSUME NEW w \in Workers, ProjectionStep(w)
      PROVE  FreshInv'
  BY <1>1 DEF AcceptanceInv, ProjectionStep, BeginRebuild, ListAcceptances,
      Replace, Publish, Settle, Goto, AfterSettle, FreshInv, TypeOK
<1>2. ASSUME NEW w \in Workers \ Handlers, CollectStep(w)
      PROVE  FreshInv'
  BY <1>2 DEF CollectionInv, AcceptanceInv, CollectStep, LockPackage,
      Reserve, WriteFact, MaterializeCollected, MaterializeAssociation,
      UnlinkInbox, Known, Goto, FreshCollections, FreshInv, TypeOK, ClaimInv,
      Collecting, Accepted
<1>3. ASSUME NEW w \in Recoverers, RecoveryStep(w)
      PROVE  FreshInv'
  BY <1>3 DEF CollectionInv, AcceptanceInv, RecoveryStep, BeginRecovery,
      RecoverFact, EndRecovery, Goto, FreshInv, TypeOK, RecoveryInv
<1>4. ASSUME NEW t \in Handlers, HandlerStep(t)
      PROVE  FreshInv'
  BY <1>4 DEF AcceptanceInv, HandlerStep, LockRelationship, Refuse,
      LookForAcceptance, WriteAcceptance, WriteInboxProjection,
      CheckAssociation, Reply, Goto, FreshInv, TypeOK
<1>5. ASSUME NEW t \in Handlers, Arrival(t)
      PROVE  FreshInv'
  BY <1>5 DEF AcceptanceInv, Arrival, Deposit, Goto, FreshInv
<1>6. ASSUME NEW t \in Handlers, DepositRaises(t)
      PROVE  FreshInv'
  BY <1>6 DEF AcceptanceInv, DepositRaises, Goto, FreshInv
<1>7. CASE RestoreStep
  BY <1>7 DEF AcceptanceInv, RestoreStep, StartPorter, ExamineAcceptance,
      RestoreInbox, AcceptancesRestored, Goto, FreshInv, TypeOK
<1>8. ASSUME NEW h \in Hosts, VisitStep(h)
      PROVE  FreshInv'
  BY <1>8 DEF AcceptanceInv, VisitStep, StartHost, Inspect, Select, Goto,
      FreshInv, TypeOK
<1>9. ASSUME NEW c \in Callers, Call(c)
      PROVE  FreshInv'
  BY <1>9 DEF AcceptanceInv, Call, CallCollect, Goto, FreshInv
<1>10. CASE Crash
  BY <1>10 DEF AcceptanceInv, Crash, PorterCrashes, HostCrashes,
      CallerCrashes, PowerCut, Die, FreshInv
<1> QED BY NextGroups, <1>1, <1>2, <1>3, <1>4, <1>5, <1>6, <1>7, <1>8, <1>9,
    <1>10

\* An empty store satisfies AcceptanceInv.
LEMMA InitAcceptance == Init => AcceptanceInv
<1> SUFFICES ASSUME Init PROVE AcceptanceInv
  OBVIOUS
<1>1. WriterInv
  BY DEF Init, WriterInv, Answering, Workers, Recoverers
<1>2. NamingInv
  BY DEF Init, NamingInv, CollectionNamesAcceptance, ReceiptNamesAcceptance
<1>3. FreshInv
  BY DEF Init, FreshInv
<1> QED BY <1>1, <1>2, <1>3 DEF AcceptanceInv

\* A step that changes nothing preserves AcceptanceInv.
LEMMA AcceptanceStuttering ==
  ASSUME AcceptanceInv, UNCHANGED vars
  PROVE  AcceptanceInv'
BY DEF AcceptanceInv, WriterInv, NamingInv, FreshInv, Answering,
       CollectionNamesAcceptance, ReceiptNamesAcceptance

----------------------------------------------------------------------------
(* The theorems about ACs. *)

\* With introduced senders, AcceptanceInv holds of every reachable state.
THEOREM AcceptanceInvariance ==
  ASSUME AllIntroduced
  PROVE  Spec => []AcceptanceInv
<1>1. /\ TypeOK /\ CollectionInv /\ AcceptanceInv
      /\ [Next]_vars
      => AcceptanceInv'
  BY WriterInvStep, NamingInvStep, FreshInvStep, AcceptanceStuttering
     DEF AcceptanceInv
<1> QED BY InitAcceptance, InductiveInvariant, <1>1, PTL DEF Spec

\* Every CL names the AC the Porter holds (custody.py collect_package).
THEOREM CollectionNaming ==
  ASSUME AllIntroduced
  PROVE  Spec => []CollectionNamesAcceptance
<1>1. AcceptanceInv => CollectionNamesAcceptance
  BY DEF AcceptanceInv, NamingInv
<1> QED BY <1>1, AcceptanceInvariance, PTL

\* Evidence that left the Porter is never contradicted by the AC it holds
\* (daemon.py deposit, carriage.py acceptance_evidence).
THEOREM ReceiptNaming ==
  ASSUME AllIntroduced
  PROVE  Spec => []ReceiptNamesAcceptance
<1>1. AcceptanceInv => ReceiptNamesAcceptance
  BY DEF AcceptanceInv, NamingInv
<1> QED BY <1>1, AcceptanceInvariance, PTL

\* Only WriteAcceptance writes an AC, and only of a Package that has none.
LEMMA ImmutableStep ==
  ASSUME TypeOK, CollectionInv, AcceptanceInv, [Next]_vars
  PROVE  \A p \in Accepted : acceptances'[p] = acceptances[p]
<1>1. ASSUME NEW t \in Handlers, WriteAcceptance(t), NEW p \in Accepted
      PROVE  acceptances'[p] = acceptances[p]
  <2>1. acceptances[job[t]] = None /\ job[t] # p
    BY <1>1 DEF WriteAcceptance, AcceptanceInv, WriterInv, Accepted
  <2> QED BY <1>1, <2>1 DEF WriteAcceptance, TypeOK, Accepted
<1>2. ASSUME NEW w \in Workers \ Handlers, WriteFact(w)
      PROVE  acceptances' = acceptances
  BY <1>2 DEF WriteFact
<1> QED BY CanonicalFrame, <1>1, <1>2 DEF MaterializeCollected

\* No AC is ever replaced or removed (CONFORMANCE.md: canonical facts "are
\* immutable"), as long as every sender holds an Introduction.
THEOREM AcceptanceImmutable ==
  ASSUME AllIntroduced
  PROVE  Spec => AcceptanceIsImmutable
<1>1. /\ TypeOK /\ CollectionInv /\ AcceptanceInv
      /\ [Next]_vars
      => [\A p \in Accepted : acceptances'[p] = acceptances[p]]_vars
  BY ImmutableStep
<1> QED BY InductiveInvariant, AcceptanceInvariance, <1>1, PTL
        DEF Spec, AcceptanceIsImmutable

----------------------------------------------------------------------------
(* The store implements PackageCustody. *)

\* What custody() reports of every Package.
Reported == [p \in Packages |-> CustodyOf(p)]

\* A Package with a CL is reported in the Host's custody, under that CL.
LEMMA ReportedInHost ==
  OneCollectionPerPackage =>
    \A g \in facts :
      CustodyOf(g.package) = Promise!InHost(g.acceptance, g.collection)
<1> SUFFICES ASSUME OneCollectionPerPackage, NEW g \in facts
             PROVE  CustodyOf(g.package) =
                      Promise!InHost(g.acceptance, g.collection)
  OBVIOUS
<1>1. \A f \in {f \in facts : f.package = g.package} : f = g
  BY DEF OneCollectionPerPackage
<1>2. g \in {f \in facts : f.package = g.package}
  OBVIOUS
<1>3. (CHOOSE f \in {f \in facts : f.package = g.package} : TRUE) = g
  BY <1>1, <1>2
<1> QED BY <1>2, <1>3 DEF CustodyOf, Promise!InHost

\* A Package without a CL is reported in the Porter's custody, or nowhere.
LEMMA ReportedElsewhere ==
  \A q \in Packages : (\A f \in facts : f.package # q) =>
    CustodyOf(q) = IF acceptances[q] # None
                     THEN Promise!InPorter(acceptances[q])
                     ELSE Promise!NotAcceptedHere
<1> SUFFICES ASSUME NEW q \in Packages, \A f \in facts : f.package # q
             PROVE  CustodyOf(q) = IF acceptances[q] # None
                                     THEN Promise!InPorter(acceptances[q])
                                     ELSE Promise!NotAcceptedHere
  OBVIOUS
<1>1. {f \in facts : f.package = q} = {}
  OBVIOUS
<1> QED BY <1>1 DEF CustodyOf, Accepted, Promise!InPorter,
    Promise!NotAcceptedHere

\* Writing an AC is the abstract Accept.
LEMMA AcceptPromised ==
  ASSUME TypeOK, CollectionInv, AcceptanceInv,
         NEW t \in Handlers, WriteAcceptance(t)
  PROVE  Promise!Next
<1>1. PICK p \in Packages : p = job[t]
  BY NoneDistinct DEF WriteAcceptance, TypeOK, CollectionInv, JobInv, Workers
<1>2. PICK a \in AcceptanceIds : acceptances' = [acceptances EXCEPT ![p] = a]
  BY <1>1 DEF WriteAcceptance, FreshAcceptances
<1>3. /\ acceptances[p] = None
      /\ \A f \in facts : f.package # p
      /\ facts' = facts
  BY <1>1 DEF WriteAcceptance, TypeOK, CollectionInv, JobInv, AcceptanceInv,
      WriterInv, Accepted
<1>4. CustodyOf(p) = Promise!NotAcceptedHere
  BY <1>3, ReportedElsewhere
<1>5. CustodyOf(p)' = Promise!InPorter(a)
  <2>1. {f \in facts' : f.package = p} = {}
    BY <1>3
  <2>2. acceptances'[p] = a /\ a # None
    BY <1>2, NoneDistinct DEF TypeOK
  <2> QED BY <2>1, <2>2 DEF CustodyOf, Accepted, Promise!InPorter
<1>6. ASSUME NEW q \in Packages, q # p
      PROVE  CustodyOf(q)' = CustodyOf(q)
  BY <1>2, <1>3, <1>6 DEF CustodyOf, Accepted, TypeOK
<1>7. Reported' = [Reported EXCEPT ![p] = Promise!InPorter(a)]
  BY <1>5, <1>6, Zenon DEF Reported
<1> QED BY <1>4, <1>7 DEF Promise!Next, Promise!Accept, Reported

\* Publishing a CL is the abstract Collect, under the AC accepted.
LEMMA CollectPromised ==
  ASSUME TypeOK, CollectionInv, OneCollectionPerPackage', AcceptanceInv,
         NEW w \in Workers \ Handlers, WriteFact(w)
  PROVE  Promise!Next
<1>1. PICK f \in Fact : f = claim[w]
  BY DEF WriteFact, TypeOK, CollectionInv, ClaimInv, Collecting
<1>2. PICK p \in Packages : p = f.package
  BY DEF Fact
<1>3. /\ facts' = facts \cup {f}
      /\ UNCHANGED acceptances
      /\ acceptances[p] = f.acceptance
  BY <1>1, <1>2, NoneDistinct DEF WriteFact, AcceptanceInv, NamingInv
<1>4. \A g \in facts : g.package # p /\ g.collection # f.collection
  BY <1>1, <1>2, NoneDistinct DEF WriteFact, CollectionInv, ClaimInv,
      Collecting, AcceptanceInv, FreshInv
<1>5. CustodyOf(p) = Promise!InPorter(f.acceptance)
  BY <1>3, <1>4, ReportedElsewhere, NoneDistinct DEF Fact
<1>6. ASSUME NEW q \in Packages
      PROVE  CustodyOf(q).collection # f.collection
  <2>1. ASSUME NEW g \in facts, g.package = q
        PROVE  CustodyOf(q).collection # f.collection
    <3>1. CustodyOf(q) = Promise!InHost(g.acceptance, g.collection)
      BY <2>1, ReportedInHost DEF CollectionInv
    <3> QED BY <1>4, <3>1 DEF Promise!InHost
  <2>2. CASE \A g \in facts : g.package # q
    <3>1. CustodyOf(q).collection = None
      BY <2>2, ReportedElsewhere DEF Promise!InPorter, Promise!NotAcceptedHere
    <3> QED BY <3>1, NoneDistinct DEF Fact
  <2> QED BY <2>1, <2>2
<1>7. CustodyOf(p)' = Promise!InHost(f.acceptance, f.collection)
  <2>1. (OneCollectionPerPackage =>
    \A g \in facts :
      CustodyOf(g.package) = Promise!InHost(g.acceptance, g.collection))'
    BY ReportedInHost, PTL
  <2> QED BY <1>2, <1>3, <2>1
<1>8. ASSUME NEW q \in Packages, q # p
      PROVE  CustodyOf(q)' = CustodyOf(q)
  <2>1. {g \in facts : g.package = q}' = {g \in facts : g.package = q}
    BY <1>2, <1>3, <1>8
  <2> QED BY <1>3, <2>1 DEF CustodyOf, Accepted
<1>9. Reported' = [Reported EXCEPT
                     ![p] = Promise!InHost(f.acceptance, f.collection)]
  BY <1>7, <1>8, Zenon DEF Reported
<1> QED BY <1>5, <1>6, <1>9 DEF Promise!Next, Promise!Collect, Reported, Fact

\* Every other step leaves what is reported alone.
LEMMA PromiseStep ==
  ASSUME TypeOK, CollectionInv, CollectionInv', AcceptanceInv, [Next]_vars
  PROVE  [Promise!Next]_Reported
<1>1. CASE UNCHANGED <<facts, acceptances>>
  <2>1. Reported' = Reported
    BY <1>1 DEF Reported, CustodyOf, Accepted
  <2> QED BY <2>1
<1>2. ASSUME NEW t \in Handlers, WriteAcceptance(t)
      PROVE  Promise!Next
  BY <1>2, AcceptPromised
<1>3. ASSUME NEW w \in Workers \ Handlers, WriteFact(w)
      PROVE  Promise!Next
  BY <1>3, CollectPromised DEF CollectionInv
<1> QED BY CanonicalFrame, <1>1, <1>2, <1>3 DEF MaterializeCollected

\* An empty store is reported as nothing accepted.
LEMMA PromiseInit == Init => Promise!Init
BY DEF Init, Promise!Init, CustodyOf, Accepted, Promise!NotAcceptedHere

\* With introduced senders the store implements the abstract promise: custody
\* moves from nowhere to the Porter to the Host, under one AC and one CL.
THEOREM PromiseKept ==
  ASSUME AllIntroduced
  PROVE  Spec => CustodyPromise
<1>1. /\ TypeOK /\ CollectionInv /\ CollectionInv' /\ AcceptanceInv
      /\ [Next]_vars
      => [Promise!Next]_[p \in Packages |-> CustodyOf(p)]
  BY PromiseStep DEF Reported
<1> QED BY PromiseInit, InductiveInvariant, AcceptanceInvariance, <1>1, PTL
        DEF Spec, CustodyPromise, Promise!Spec

----------------------------------------------------------------------------
(* Where a Package is, on a disk that does not fail.  HeldInv says that every
   accepted Package is in the Porter's inbox, in the Host's copies, or in the
   hands of a live process that is about to write one; CandidateInv that every
   one that awaits a Host is a row of the candidate projection, or on its way
   there.  FaultyDisk = FALSE is the case in which no inbox write of a request
   thread raises: where one does, its handler answers 400 and leaves an AC in
   neither hand and in no row before a restart or a repeated arrival.
   Statements on the candidate database may fail (FaultyProjection) and the
   power may be cut (PowerCuts). *)

\* What a crash does to the living and the dead.
Fell(dead) ==
  /\ dead \subseteq Workers
  /\ \/ Porter \in dead /\ Handlers \subseteq dead
     \/ Porter \notin dead /\ Handlers \cap dead = {}
  /\ \A w \in dead : /\ pc'[w] = IF w \in Recoverers THEN "down" ELSE "ready"
                     /\ job'[w] = None
  /\ \A w \in Workers \ dead : pc'[w] = pc[w] /\ job'[w] = job[w]
  /\ listing' = IF projectionLock \in dead THEN {} ELSE listing
  /\ unrestored' = IF Porter \in dead THEN {} ELSE unrestored
  /\ projectionLock' = IF projectionLock \in dead THEN None ELSE projectionLock
  /\ frontierLock' = IF frontierLock \in dead THEN None ELSE frontierLock
  /\ UNCHANGED <<acceptances, collected>> /\ inbox \subseteq inbox'
  /\ \/ UNCHANGED <<association, readable, projection>>
     \/ dead = Workers /\ projection' \subseteq Accepted

LEMMA CrashFells ==
  ASSUME TypeOK, Crash
  PROVE  \E dead : Fell(dead)
<1> USE WorkersDistinct, NoneDistinct
<1>1. CASE PorterCrashes
  <2>1. Fell({Porter} \cup Handlers)
    BY <1>1 DEF PorterCrashes, Die, Fell, Workers, Recoverers
  <2> QED
    BY <2>1
<1>2. ASSUME NEW h \in Hosts, HostCrashes(h)
      PROVE  \E dead : Fell(dead)
  <2>1. Fell({h})
    BY <1>2 DEF HostCrashes, Die, Fell, Workers, Recoverers
  <2> QED
    BY <2>1
<1>3. ASSUME NEW c \in Callers, CallerCrashes(c)
      PROVE  \E dead : Fell(dead)
  <2>1. Fell({c})
    BY <1>3 DEF CallerCrashes, Die, Fell, Workers, Recoverers
  <2> QED
    BY <2>1
<1>4. CASE PowerCut
  <2>1. Fell(Workers)
    <3>1. projection' \subseteq Accepted /\ inbox \subseteq inbox'
      BY <1>4 DEF PowerCut
    <3> QED
      BY <1>4, <3>1 DEF PowerCut, Die, Fell, Workers, Recoverers
  <2> QED
    BY <2>1
<1> QED
  BY <1>1, <1>2, <1>3, <1>4 DEF Crash

\* A worker between two Packages has none.
LEMMA IdleInvStep ==
  ASSUME TypeOK, CollectionInv, FaultyDisk = FALSE, Next, IdleInv
  PROVE  IdleInv'
<1>0. /\ pc \in [Workers -> Labels]
      /\ job \in [Workers -> Packages \cup {None}]
      /\ Handlers \subseteq Workers /\ Hosts \subseteq Workers
      /\ Callers \subseteq Workers /\ Porter \in Workers
      /\ Recoverers \subseteq Workers
      /\ Porter \notin Handlers \cup Hosts \cup Callers
  BY WorkersDistinct DEF TypeOK, Workers, Recoverers
<1>1. ASSUME NEW w \in Workers, BeginRebuild(w)
      PROVE  IdleInv'
  BY <1>1, <1>0, WorkersDistinct, NoneDistinct
     DEF BeginRebuild, CollectionInv, LabelInv, HandlerLabels, IdleInv, Goto,
         Collecting
<1>2. ASSUME NEW w \in Workers, ListAcceptances(w)
      PROVE  IdleInv'
  BY <1>2, <1>0, WorkersDistinct, NoneDistinct
     DEF ListAcceptances, IdleInv, Goto, Collecting
<1>3. ASSUME NEW w \in Workers, Replace(w)
      PROVE  IdleInv'
  BY <1>3, <1>0, WorkersDistinct, NoneDistinct
     DEF Replace, CollectionInv, LabelInv, HandlerLabels, IdleInv, Goto,
         Collecting
<1>4. ASSUME NEW w \in Workers, Publish(w)
      PROVE  IdleInv'
  BY <1>4, <1>0, WorkersDistinct, NoneDistinct
     DEF Publish, Update, IdleInv, Goto, Collecting
<1>5. ASSUME NEW w \in Workers, Settle(w)
      PROVE  IdleInv'
  BY <1>5, <1>0, WorkersDistinct, NoneDistinct
     DEF Settle, AfterSettle, Update, CollectionInv, LabelInv, IdleInv, Goto,
         Collecting
<1>6. ASSUME NEW w \in Workers \ Handlers, LockPackage(w)
      PROVE  IdleInv'
  BY <1>6, <1>0, WorkersDistinct, NoneDistinct
     DEF LockPackage, CollectionInv, LabelInv, IdleInv, Goto, Collecting
<1>7. ASSUME NEW w \in Workers \ Handlers, Reserve(w)
      PROVE  IdleInv'
  BY <1>7, <1>0, WorkersDistinct, NoneDistinct
     DEF Reserve, IdleInv, Goto, Collecting
<1>8. ASSUME NEW w \in Workers \ Handlers, WriteFact(w)
      PROVE  IdleInv'
  BY <1>8, <1>0, WorkersDistinct, NoneDistinct
     DEF WriteFact, IdleInv, Goto, Collecting
<1>9. ASSUME NEW w \in Workers \ Handlers, MaterializeCollected(w)
      PROVE  IdleInv'
  BY <1>9, <1>0, WorkersDistinct, NoneDistinct
     DEF MaterializeCollected, IdleInv, Goto, Collecting
<1>10. ASSUME NEW w \in Workers \ Handlers, MaterializeAssociation(w)
      PROVE  IdleInv'
  BY <1>10, <1>0, WorkersDistinct, NoneDistinct
     DEF MaterializeAssociation, IdleInv, Goto, Collecting
<1>11. ASSUME NEW w \in Workers \ Handlers, UnlinkInbox(w)
      PROVE  IdleInv'
  BY <1>11, <1>0, WorkersDistinct, NoneDistinct
     DEF UnlinkInbox, IdleInv, Goto, Collecting
<1>12. ASSUME NEW w \in Recoverers, BeginRecovery(w)
      PROVE  IdleInv'
  BY <1>12, <1>0, WorkersDistinct, NoneDistinct
     DEF BeginRecovery, IdleInv, Goto, Collecting
<1>13. ASSUME NEW w \in Recoverers, NEW f \in todo, RecoverFact(w, f)
      PROVE  IdleInv'
  BY <1>13, <1>0, WorkersDistinct, NoneDistinct
     DEF RecoverFact, CollectionInv, RecoveryInv, IdleInv, Goto, Collecting
<1>14. ASSUME NEW w \in Recoverers, EndRecovery(w)
      PROVE  IdleInv'
  BY <1>14, <1>0, WorkersDistinct, NoneDistinct
     DEF EndRecovery, CollectionInv, RecoveryInv, IdleInv, Goto, Collecting
<1>15. ASSUME NEW t \in Handlers, NEW p \in Packages, Deposit(t, p)
      PROVE  IdleInv'
  BY <1>15, <1>0, WorkersDistinct, NoneDistinct
     DEF Deposit, IdleInv, Goto, Collecting
<1>16. ASSUME NEW t \in Handlers, LockRelationship(t)
      PROVE  IdleInv'
  BY <1>16, <1>0, WorkersDistinct, NoneDistinct
     DEF LockRelationship, IdleInv, Goto, Collecting
<1>17. ASSUME NEW t \in Handlers, Refuse(t)
      PROVE  IdleInv'
  BY <1>17, <1>0, WorkersDistinct, NoneDistinct
     DEF Refuse, IdleInv, Goto, Collecting
<1>18. ASSUME NEW t \in Handlers, LookForAcceptance(t)
      PROVE  IdleInv'
  BY <1>18, <1>0, WorkersDistinct, NoneDistinct
     DEF LookForAcceptance, IdleInv, Goto, Collecting
<1>19. ASSUME NEW t \in Handlers, WriteAcceptance(t)
      PROVE  IdleInv'
  BY <1>19, <1>0, WorkersDistinct, NoneDistinct
     DEF WriteAcceptance, IdleInv, Goto, Collecting
<1>20. ASSUME NEW t \in Handlers, WriteInboxProjection(t)
      PROVE  IdleInv'
  BY <1>20, <1>0, WorkersDistinct, NoneDistinct
     DEF WriteInboxProjection, IdleInv, Goto, Collecting
<1>21. ASSUME NEW t \in Handlers, CheckAssociation(t)
      PROVE  IdleInv'
  BY <1>21, <1>0, WorkersDistinct, NoneDistinct
     DEF CheckAssociation, IdleInv, Goto, Collecting
<1>22. ASSUME NEW t \in Handlers, Reply(t)
      PROVE  IdleInv'
  BY <1>22, <1>0, WorkersDistinct, NoneDistinct
     DEF Reply, IdleInv, Goto, Collecting
<1>23. ASSUME StartPorter
      PROVE  IdleInv'
  BY <1>23, <1>0, WorkersDistinct, NoneDistinct
     DEF StartPorter, IdleInv, Goto, Collecting
<1>24. ASSUME NEW p \in Packages, ExamineAcceptance(p)
      PROVE  IdleInv'
  BY <1>24, <1>0, WorkersDistinct, NoneDistinct
     DEF ExamineAcceptance, IdleInv, Goto, Collecting
<1>25. ASSUME RestoreInbox
      PROVE  IdleInv'
  BY <1>25, <1>0, WorkersDistinct, NoneDistinct
     DEF RestoreInbox, IdleInv, Goto, Collecting
<1>26. ASSUME AcceptancesRestored
      PROVE  IdleInv'
  BY <1>26, <1>0, WorkersDistinct, NoneDistinct
     DEF AcceptancesRestored, IdleInv, Goto, Collecting
<1>27. ASSUME NEW h \in Hosts, StartHost(h)
      PROVE  IdleInv'
  BY <1>27, <1>0, WorkersDistinct, NoneDistinct
     DEF StartHost, IdleInv, Goto, Collecting
<1>28. ASSUME NEW h \in Hosts, Inspect(h)
      PROVE  IdleInv'
  BY <1>28, <1>0, WorkersDistinct, NoneDistinct
     DEF Inspect, IdleInv, Goto, Collecting
<1>29. ASSUME NEW h \in Hosts, NEW p \in Packages, Select(h, p)
      PROVE  IdleInv'
  BY <1>29, <1>0, WorkersDistinct, NoneDistinct
     DEF Select, IdleInv, Goto, Collecting
<1>30. ASSUME NEW c \in Callers, NEW p \in Packages, CallCollect(c, p)
      PROVE  IdleInv'
  BY <1>30, <1>0, WorkersDistinct, NoneDistinct
     DEF CallCollect, IdleInv, Goto, Collecting
<1>31. ASSUME Crash
      PROVE  IdleInv'
  <2>1. PICK dead : Fell(dead)
    BY <1>31, CrashFells
  <2> QED
    BY <1>0, <2>1, WorkersDistinct, NoneDistinct
       DEF Fell, IdleInv, Collecting, Recoverers, Workers
<1> QED
  BY NextGroups, FaultyDisk = FALSE, <1>1, <1>2, <1>3, <1>4, <1>5, <1>6, <1>7,
     <1>8, <1>9, <1>10, <1>11, <1>12, <1>13, <1>14, <1>15, <1>16, <1>17, <1>18,
     <1>19, <1>20, <1>21, <1>22, <1>23, <1>24, <1>25, <1>26, <1>27, <1>28,
     <1>29, <1>30, <1>31
     DEF ProjectionStep, CollectStep, RecoveryStep, Arrival, HandlerStep,
         DepositRaises, RestoreStep, VisitStep, Call

\* Whoever rebuilds holds the lock of the projection.
LEMMA RebuildInvStep ==
  ASSUME TypeOK, CollectionInv, FaultyDisk = FALSE, Next, RebuildInv
  PROVE  RebuildInv'
<1>0. /\ pc \in [Workers -> Labels]
      /\ job \in [Workers -> Packages \cup {None}]
      /\ Handlers \subseteq Workers /\ Hosts \subseteq Workers
      /\ Callers \subseteq Workers /\ Porter \in Workers
      /\ Recoverers \subseteq Workers
      /\ Porter \notin Handlers \cup Hosts \cup Callers
  BY WorkersDistinct DEF TypeOK, Workers, Recoverers
<1>1. ASSUME NEW w \in Workers, BeginRebuild(w)
      PROVE  RebuildInv'
  BY <1>1, <1>0, WorkersDistinct, NoneDistinct
     DEF BeginRebuild, TypeOK, CollectionInv, LabelInv, HandlerLabels,
         RebuildInv, Goto
<1>2. ASSUME NEW w \in Workers, ListAcceptances(w)
      PROVE  RebuildInv'
  BY <1>2, <1>0, WorkersDistinct, NoneDistinct
     DEF ListAcceptances, RebuildInv, Goto
<1>3. ASSUME NEW w \in Workers, Replace(w)
      PROVE  RebuildInv'
  BY <1>3, <1>0, WorkersDistinct, NoneDistinct DEF Replace, RebuildInv, Goto
<1>4. ASSUME NEW w \in Workers, Publish(w)
      PROVE  RebuildInv'
  BY <1>4, <1>0, WorkersDistinct, NoneDistinct
     DEF Publish, Update, MayTakeProjection, RebuildInv, Goto
<1>5. ASSUME NEW w \in Workers, Settle(w)
      PROVE  RebuildInv'
  BY <1>5, <1>0, WorkersDistinct, NoneDistinct
     DEF Settle, AfterSettle, Update, MayTakeProjection, CollectionInv,
         LabelInv, HandlerLabels, RebuildInv, Goto
<1>6. ASSUME NEW w \in Workers \ Handlers, LockPackage(w)
      PROVE  RebuildInv'
  BY <1>6, <1>0, WorkersDistinct, NoneDistinct
     DEF LockPackage, RebuildInv, Goto
<1>7. ASSUME NEW w \in Workers \ Handlers, Reserve(w)
      PROVE  RebuildInv'
  BY <1>7, <1>0, WorkersDistinct, NoneDistinct DEF Reserve, RebuildInv, Goto
<1>8. ASSUME NEW w \in Workers \ Handlers, WriteFact(w)
      PROVE  RebuildInv'
  BY <1>8, <1>0, WorkersDistinct, NoneDistinct DEF WriteFact, RebuildInv, Goto
<1>9. ASSUME NEW w \in Workers \ Handlers, MaterializeCollected(w)
      PROVE  RebuildInv'
  BY <1>9, <1>0, WorkersDistinct, NoneDistinct
     DEF MaterializeCollected, RebuildInv, Goto
<1>10. ASSUME NEW w \in Workers \ Handlers, MaterializeAssociation(w)
      PROVE  RebuildInv'
  BY <1>10, <1>0, WorkersDistinct, NoneDistinct
     DEF MaterializeAssociation, RebuildInv, Goto
<1>11. ASSUME NEW w \in Workers \ Handlers, UnlinkInbox(w)
      PROVE  RebuildInv'
  BY <1>11, <1>0, WorkersDistinct, NoneDistinct
     DEF UnlinkInbox, RebuildInv, Goto
<1>12. ASSUME NEW w \in Recoverers, BeginRecovery(w)
      PROVE  RebuildInv'
  BY <1>12, <1>0, WorkersDistinct, NoneDistinct
     DEF BeginRecovery, RebuildInv, Goto
<1>13. ASSUME NEW w \in Recoverers, NEW f \in todo, RecoverFact(w, f)
      PROVE  RebuildInv'
  BY <1>13, <1>0, WorkersDistinct, NoneDistinct
     DEF RecoverFact, RebuildInv, Goto
<1>14. ASSUME NEW w \in Recoverers, EndRecovery(w)
      PROVE  RebuildInv'
  BY <1>14, <1>0, WorkersDistinct, NoneDistinct
     DEF EndRecovery, RebuildInv, Goto
<1>15. ASSUME NEW t \in Handlers, NEW p \in Packages, Deposit(t, p)
      PROVE  RebuildInv'
  BY <1>15, <1>0, WorkersDistinct, NoneDistinct DEF Deposit, RebuildInv, Goto
<1>16. ASSUME NEW t \in Handlers, LockRelationship(t)
      PROVE  RebuildInv'
  BY <1>16, <1>0, WorkersDistinct, NoneDistinct
     DEF LockRelationship, RebuildInv, Goto
<1>17. ASSUME NEW t \in Handlers, Refuse(t)
      PROVE  RebuildInv'
  BY <1>17, <1>0, WorkersDistinct, NoneDistinct DEF Refuse, RebuildInv, Goto
<1>18. ASSUME NEW t \in Handlers, LookForAcceptance(t)
      PROVE  RebuildInv'
  BY <1>18, <1>0, WorkersDistinct, NoneDistinct
     DEF LookForAcceptance, RebuildInv, Goto
<1>19. ASSUME NEW t \in Handlers, WriteAcceptance(t)
      PROVE  RebuildInv'
  BY <1>19, <1>0, WorkersDistinct, NoneDistinct
     DEF WriteAcceptance, RebuildInv, Goto
<1>20. ASSUME NEW t \in Handlers, WriteInboxProjection(t)
      PROVE  RebuildInv'
  BY <1>20, <1>0, WorkersDistinct, NoneDistinct
     DEF WriteInboxProjection, RebuildInv, Goto
<1>21. ASSUME NEW t \in Handlers, CheckAssociation(t)
      PROVE  RebuildInv'
  BY <1>21, <1>0, WorkersDistinct, NoneDistinct
     DEF CheckAssociation, RebuildInv, Goto
<1>22. ASSUME NEW t \in Handlers, Reply(t)
      PROVE  RebuildInv'
  BY <1>22, <1>0, WorkersDistinct, NoneDistinct DEF Reply, RebuildInv, Goto
<1>23. ASSUME StartPorter
      PROVE  RebuildInv'
  BY <1>23, <1>0, WorkersDistinct, NoneDistinct
     DEF StartPorter, RebuildInv, Goto
<1>24. ASSUME NEW p \in Packages, ExamineAcceptance(p)
      PROVE  RebuildInv'
  BY <1>24, <1>0, WorkersDistinct, NoneDistinct
     DEF ExamineAcceptance, RebuildInv, Goto
<1>25. ASSUME RestoreInbox
      PROVE  RebuildInv'
  BY <1>25, <1>0, WorkersDistinct, NoneDistinct
     DEF RestoreInbox, RebuildInv, Goto
<1>26. ASSUME AcceptancesRestored
      PROVE  RebuildInv'
  BY <1>26, <1>0, WorkersDistinct, NoneDistinct
     DEF AcceptancesRestored, RebuildInv, Goto
<1>27. ASSUME NEW h \in Hosts, StartHost(h)
      PROVE  RebuildInv'
  BY <1>27, <1>0, WorkersDistinct, NoneDistinct DEF StartHost, RebuildInv, Goto
<1>28. ASSUME NEW h \in Hosts, Inspect(h)
      PROVE  RebuildInv'
  BY <1>28, <1>0, WorkersDistinct, NoneDistinct DEF Inspect, RebuildInv, Goto
<1>29. ASSUME NEW h \in Hosts, NEW p \in Packages, Select(h, p)
      PROVE  RebuildInv'
  BY <1>29, <1>0, WorkersDistinct, NoneDistinct DEF Select, RebuildInv, Goto
<1>30. ASSUME NEW c \in Callers, NEW p \in Packages, CallCollect(c, p)
      PROVE  RebuildInv'
  BY <1>30, <1>0, WorkersDistinct, NoneDistinct
     DEF CallCollect, RebuildInv, Goto
<1>31. ASSUME Crash
      PROVE  RebuildInv'
  <2>1. PICK dead : Fell(dead)
    BY <1>31, CrashFells
  <2> QED
    BY <1>0, <2>1, WorkersDistinct, NoneDistinct
       DEF Fell, RebuildInv, TypeOK
<1> QED
  BY NextGroups, FaultyDisk = FALSE, <1>1, <1>2, <1>3, <1>4, <1>5, <1>6, <1>7,
     <1>8, <1>9, <1>10, <1>11, <1>12, <1>13, <1>14, <1>15, <1>16, <1>17, <1>18,
     <1>19, <1>20, <1>21, <1>22, <1>23, <1>24, <1>25, <1>26, <1>27, <1>28,
     <1>29, <1>30, <1>31
     DEF ProjectionStep, CollectStep, RecoveryStep, Arrival, HandlerStep,
         DepositRaises, RestoreStep, VisitStep, Call

\* An association is there before a row is settled.
LEMMA SettleInvStep ==
  ASSUME TypeOK, CollectionInv, FaultyDisk = FALSE, Next, IdleInv, SettleInv,
         ListingInv
  PROVE  SettleInv'
<1>0. /\ pc \in [Workers -> Labels]
      /\ job \in [Workers -> Packages \cup {None}]
      /\ Handlers \subseteq Workers /\ Hosts \subseteq Workers
      /\ Callers \subseteq Workers /\ Porter \in Workers
      /\ Recoverers \subseteq Workers
      /\ Porter \notin Handlers \cup Hosts \cup Callers
  BY WorkersDistinct DEF TypeOK, Workers, Recoverers
<1>1. ASSUME NEW w \in Workers, BeginRebuild(w)
      PROVE  SettleInv'
  BY <1>1, <1>0, WorkersDistinct, NoneDistinct
     DEF BeginRebuild, IdleInv, CollectionInv, LabelInv, HandlerLabels,
         SettleInv, Associated, Accepted, Goto
<1>2. ASSUME NEW w \in Workers, ListAcceptances(w)
      PROVE  SettleInv'
  BY <1>2, <1>0, WorkersDistinct, NoneDistinct
     DEF ListAcceptances, SettleInv, Associated, Accepted, Goto
<1>3. ASSUME NEW w \in Workers, Replace(w)
      PROVE  SettleInv'
  <2>1. listing \subseteq Accepted
    BY <1>3 DEF Replace, ListingInv
  <2> QED
    BY <1>3, <2>1, <1>0, WorkersDistinct, NoneDistinct
       DEF Replace, SettleInv, Associated, Accepted, Goto
<1>4. ASSUME NEW w \in Workers, Publish(w)
      PROVE  SettleInv'
  <2>1. w \in Handlers /\ job[w] \in Accepted
    BY <1>4, <1>0 DEF Publish, CollectionInv, LabelInv, HandlerLabels, JobInv,
       Answering
  <2>2. projection' \subseteq Accepted
    BY <1>4, <2>1 DEF Publish, Update, SettleInv
  <2>3. UNCHANGED <<acceptances, association, job>>
    BY <1>4 DEF Publish
  <2>4. \A v \in Workers \ Handlers : pc'[v] = pc[v]
    BY <1>4, <2>1, <1>0 DEF Publish, Goto
  <2> QED
    BY <2>2, <2>3, <2>4 DEF SettleInv, Accepted, Associated
<1>5. ASSUME NEW w \in Workers, Settle(w)
      PROVE  SettleInv'
  BY <1>5, <1>0, WorkersDistinct, NoneDistinct
     DEF Settle, Update, AfterSettle, SettleInv, Associated, Accepted, Goto
<1>6. ASSUME NEW w \in Workers \ Handlers, LockPackage(w)
      PROVE  SettleInv'
  BY <1>6, <1>0, WorkersDistinct, NoneDistinct
     DEF LockPackage, SettleInv, Associated, Accepted, Goto
<1>7. ASSUME NEW w \in Workers \ Handlers, Reserve(w)
      PROVE  SettleInv'
  BY <1>7, <1>0, WorkersDistinct, NoneDistinct
     DEF Reserve, WriteAssociation, TypeOK, Fact, CollectionInv, ClaimInv,
         Collecting, LabelInv, HandlerLabels, SettleInv, Associated, Accepted,
         Goto
<1>8. ASSUME NEW w \in Workers \ Handlers, WriteFact(w)
      PROVE  SettleInv'
  BY <1>8, <1>0, WorkersDistinct, NoneDistinct
     DEF WriteFact, SettleInv, Associated, Accepted, Goto
<1>9. ASSUME NEW w \in Workers \ Handlers, MaterializeCollected(w)
      PROVE  SettleInv'
  BY <1>9, <1>0, WorkersDistinct, NoneDistinct
     DEF MaterializeCollected, SettleInv, Associated, Accepted, Goto
<1>10. ASSUME NEW w \in Workers \ Handlers, MaterializeAssociation(w)
      PROVE  SettleInv'
  BY <1>10, <1>0, WorkersDistinct, NoneDistinct
     DEF MaterializeAssociation, WriteAssociation, TypeOK, Fact, CollectionInv,
         ClaimInv, Collecting, LabelInv, HandlerLabels, SettleInv, Associated,
         Accepted, Goto
<1>11. ASSUME NEW w \in Workers \ Handlers, UnlinkInbox(w)
      PROVE  SettleInv'
  BY <1>11, <1>0, WorkersDistinct, NoneDistinct
     DEF UnlinkInbox, SettleInv, Associated, Accepted, Goto
<1>12. ASSUME NEW w \in Recoverers, BeginRecovery(w)
      PROVE  SettleInv'
  BY <1>12, <1>0, WorkersDistinct, NoneDistinct
     DEF BeginRecovery, SettleInv, Associated, Accepted, Goto
<1>13. ASSUME NEW w \in Recoverers, NEW f \in todo, RecoverFact(w, f)
      PROVE  SettleInv'
  BY <1>13, <1>0, WorkersDistinct, NoneDistinct
     DEF RecoverFact, SettleInv, Associated, Accepted, Goto
<1>14. ASSUME NEW w \in Recoverers, EndRecovery(w)
      PROVE  SettleInv'
  BY <1>14, <1>0, WorkersDistinct, NoneDistinct
     DEF EndRecovery, SettleInv, Associated, Accepted, Goto
<1>15. ASSUME NEW t \in Handlers, NEW p \in Packages, Deposit(t, p)
      PROVE  SettleInv'
  BY <1>15, <1>0, WorkersDistinct, NoneDistinct
     DEF Deposit, SettleInv, Associated, Accepted, Goto
<1>16. ASSUME NEW t \in Handlers, LockRelationship(t)
      PROVE  SettleInv'
  BY <1>16, <1>0, WorkersDistinct, NoneDistinct
     DEF LockRelationship, SettleInv, Associated, Accepted, Goto
<1>17. ASSUME NEW t \in Handlers, Refuse(t)
      PROVE  SettleInv'
  BY <1>17, <1>0, WorkersDistinct, NoneDistinct
     DEF Refuse, SettleInv, Associated, Accepted, Goto
<1>18. ASSUME NEW t \in Handlers, LookForAcceptance(t)
      PROVE  SettleInv'
  BY <1>18, <1>0, WorkersDistinct, NoneDistinct
     DEF LookForAcceptance, SettleInv, Associated, Accepted, Goto
<1>19. ASSUME NEW t \in Handlers, WriteAcceptance(t)
      PROVE  SettleInv'
  <2>1. Accepted \subseteq Accepted'
    BY <1>19, NoneDistinct
       DEF WriteAcceptance, FreshAcceptances, Accepted, TypeOK
  <2>2. UNCHANGED <<projection, association, job>>
    BY <1>19 DEF WriteAcceptance
  <2>3. \A v \in Workers \ Handlers : pc'[v] = pc[v]
    BY <1>19, <1>0 DEF WriteAcceptance, Goto
  <2> QED
    BY <2>1, <2>2, <2>3 DEF SettleInv, Associated
<1>20. ASSUME NEW t \in Handlers, WriteInboxProjection(t)
      PROVE  SettleInv'
  BY <1>20, <1>0, WorkersDistinct, NoneDistinct
     DEF WriteInboxProjection, SettleInv, Associated, Accepted, Goto
<1>21. ASSUME NEW t \in Handlers, CheckAssociation(t)
      PROVE  SettleInv'
  BY <1>21, <1>0, WorkersDistinct, NoneDistinct
     DEF CheckAssociation, SettleInv, Associated, Accepted, Goto
<1>22. ASSUME NEW t \in Handlers, Reply(t)
      PROVE  SettleInv'
  BY <1>22, <1>0, WorkersDistinct, NoneDistinct
     DEF Reply, SettleInv, Associated, Accepted, Goto
<1>23. ASSUME StartPorter
      PROVE  SettleInv'
  BY <1>23, <1>0, WorkersDistinct, NoneDistinct
     DEF StartPorter, SettleInv, Associated, Accepted, Goto
<1>24. ASSUME NEW p \in Packages, ExamineAcceptance(p)
      PROVE  SettleInv'
  BY <1>24, <1>0, WorkersDistinct, NoneDistinct
     DEF ExamineAcceptance, SettleInv, Associated, Accepted, Goto
<1>25. ASSUME RestoreInbox
      PROVE  SettleInv'
  BY <1>25, <1>0, WorkersDistinct, NoneDistinct
     DEF RestoreInbox, SettleInv, Associated, Accepted, Goto
<1>26. ASSUME AcceptancesRestored
      PROVE  SettleInv'
  BY <1>26, <1>0, WorkersDistinct, NoneDistinct
     DEF AcceptancesRestored, SettleInv, Associated, Accepted, Goto
<1>27. ASSUME NEW h \in Hosts, StartHost(h)
      PROVE  SettleInv'
  BY <1>27, <1>0, WorkersDistinct, NoneDistinct
     DEF StartHost, SettleInv, Associated, Accepted, Goto
<1>28. ASSUME NEW h \in Hosts, Inspect(h)
      PROVE  SettleInv'
  BY <1>28, <1>0, WorkersDistinct, NoneDistinct
     DEF Inspect, SettleInv, Associated, Accepted, Goto
<1>29. ASSUME NEW h \in Hosts, NEW p \in Packages, Select(h, p)
      PROVE  SettleInv'
  BY <1>29, <1>0, WorkersDistinct, NoneDistinct
     DEF Select, SettleInv, Associated, Accepted, Goto
<1>30. ASSUME NEW c \in Callers, NEW p \in Packages, CallCollect(c, p)
      PROVE  SettleInv'
  BY <1>30, <1>0, WorkersDistinct, NoneDistinct
     DEF CallCollect, SettleInv, Associated, Accepted, Goto
<1>31. ASSUME Crash
      PROVE  SettleInv'
  <2>1. PICK dead : Fell(dead)
    BY <1>31, CrashFells
  <2> QED
    BY <1>0, <2>1, WorkersDistinct, NoneDistinct
       DEF Fell, SettleInv, Associated, Accepted, Recoverers, Workers
<1> QED
  BY NextGroups, FaultyDisk = FALSE, <1>1, <1>2, <1>3, <1>4, <1>5, <1>6, <1>7,
     <1>8, <1>9, <1>10, <1>11, <1>12, <1>13, <1>14, <1>15, <1>16, <1>17, <1>18,
     <1>19, <1>20, <1>21, <1>22, <1>23, <1>24, <1>25, <1>26, <1>27, <1>28,
     <1>29, <1>30, <1>31
     DEF ProjectionStep, CollectStep, RecoveryStep, Arrival, HandlerStep,
         DepositRaises, RestoreStep, VisitStep, Call

\* No step takes an accepted Package out of both hands.
LEMMA HeldInvStep ==
  ASSUME TypeOK, CollectionInv, FaultyDisk = FALSE, Next, HeldInv
  PROVE  HeldInv'
<1>0. /\ pc \in [Workers -> Labels]
      /\ job \in [Workers -> Packages \cup {None}]
      /\ Handlers \subseteq Workers /\ Hosts \subseteq Workers
      /\ Callers \subseteq Workers /\ Porter \in Workers
      /\ Recoverers \subseteq Workers
      /\ Porter \notin Handlers \cup Hosts \cup Callers
  BY WorkersDistinct DEF TypeOK, Workers, Recoverers
<1>1. ASSUME NEW w \in Workers, BeginRebuild(w)
      PROVE  HeldInv'
  BY <1>1, <1>0, WorkersDistinct, NoneDistinct
     DEF BeginRebuild, HeldInv, AcceptedIsHeld, Accepted, Serving, Goto
<1>2. ASSUME NEW w \in Workers, ListAcceptances(w)
      PROVE  HeldInv'
  BY <1>2, <1>0, WorkersDistinct, NoneDistinct
     DEF ListAcceptances, HeldInv, AcceptedIsHeld, Accepted, Serving, Goto
<1>3. ASSUME NEW w \in Workers, Replace(w)
      PROVE  HeldInv'
  BY <1>3, <1>0, WorkersDistinct, NoneDistinct
     DEF Replace, HeldInv, AcceptedIsHeld, Accepted, Serving, Goto
<1>4. ASSUME NEW w \in Workers, Publish(w)
      PROVE  HeldInv'
  BY <1>4, <1>0, WorkersDistinct, NoneDistinct
     DEF Publish, HeldInv, AcceptedIsHeld, Accepted, Serving, Goto
<1>5. ASSUME NEW w \in Workers, Settle(w)
      PROVE  HeldInv'
  BY <1>5, <1>0, WorkersDistinct, NoneDistinct
     DEF Settle, AfterSettle, CollectionInv, LabelInv, HandlerLabels, HeldInv,
         AcceptedIsHeld, Accepted, Serving, Goto
<1>6. ASSUME NEW w \in Workers \ Handlers, LockPackage(w)
      PROVE  HeldInv'
  BY <1>6, <1>0, WorkersDistinct, NoneDistinct
     DEF LockPackage, HeldInv, AcceptedIsHeld, Accepted, Serving, Goto
<1>7. ASSUME NEW w \in Workers \ Handlers, Reserve(w)
      PROVE  HeldInv'
  BY <1>7, <1>0, WorkersDistinct, NoneDistinct
     DEF Reserve, HeldInv, AcceptedIsHeld, Accepted, Serving, Goto
<1>8. ASSUME NEW w \in Workers \ Handlers, WriteFact(w)
      PROVE  HeldInv'
  BY <1>8, <1>0, WorkersDistinct, NoneDistinct
     DEF WriteFact, HeldInv, AcceptedIsHeld, Accepted, Serving, Goto
<1>9. ASSUME NEW w \in Workers \ Handlers, MaterializeCollected(w)
      PROVE  HeldInv'
  BY <1>9, <1>0, WorkersDistinct, NoneDistinct
     DEF MaterializeCollected, HeldInv, AcceptedIsHeld, Accepted, Serving, Goto
<1>10. ASSUME NEW w \in Workers \ Handlers, MaterializeAssociation(w)
      PROVE  HeldInv'
  BY <1>10, <1>0, WorkersDistinct, NoneDistinct
     DEF MaterializeAssociation, HeldInv, AcceptedIsHeld, Accepted, Serving,
         Goto
<1>11. ASSUME NEW w \in Workers \ Handlers, UnlinkInbox(w)
      PROVE  HeldInv'
  BY <1>11, <1>0, WorkersDistinct, NoneDistinct
     DEF UnlinkInbox, HeldInv, AcceptedIsHeld, Accepted, Serving, Goto
<1>12. ASSUME NEW w \in Recoverers, BeginRecovery(w)
      PROVE  HeldInv'
  BY <1>12, <1>0, WorkersDistinct, NoneDistinct
     DEF BeginRecovery, HeldInv, AcceptedIsHeld, Accepted, Serving, Goto
<1>13. ASSUME NEW w \in Recoverers, NEW f \in todo, RecoverFact(w, f)
      PROVE  HeldInv'
  BY <1>13, <1>0, WorkersDistinct, NoneDistinct
     DEF RecoverFact, HeldInv, AcceptedIsHeld, Accepted, Serving, Goto
<1>14. ASSUME NEW w \in Recoverers, EndRecovery(w)
      PROVE  HeldInv'
  BY <1>14, <1>0, WorkersDistinct, NoneDistinct
     DEF EndRecovery, HeldInv, AcceptedIsHeld, Accepted, Serving, Goto
<1>15. ASSUME NEW t \in Handlers, NEW p \in Packages, Deposit(t, p)
      PROVE  HeldInv'
  BY <1>15, <1>0, WorkersDistinct, NoneDistinct
     DEF Deposit, HeldInv, AcceptedIsHeld, Accepted, Serving, Goto
<1>16. ASSUME NEW t \in Handlers, LockRelationship(t)
      PROVE  HeldInv'
  BY <1>16, <1>0, WorkersDistinct, NoneDistinct
     DEF LockRelationship, HeldInv, AcceptedIsHeld, Accepted, Serving, Goto
<1>17. ASSUME NEW t \in Handlers, Refuse(t)
      PROVE  HeldInv'
  BY <1>17, <1>0, WorkersDistinct, NoneDistinct
     DEF Refuse, HeldInv, AcceptedIsHeld, Accepted, Serving, Goto
<1>18. ASSUME NEW t \in Handlers, LookForAcceptance(t)
      PROVE  HeldInv'
  BY <1>18, <1>0, WorkersDistinct, NoneDistinct
     DEF LookForAcceptance, HeldInv, AcceptedIsHeld, Accepted, Serving, Goto
<1>19. ASSUME NEW t \in Handlers, WriteAcceptance(t)
      PROVE  HeldInv'
  BY <1>19, <1>0, WorkersDistinct, NoneDistinct
     DEF WriteAcceptance, TypeOK, HeldInv, AcceptedIsHeld, Accepted, Serving,
         Goto
<1>20. ASSUME NEW t \in Handlers, WriteInboxProjection(t)
      PROVE  HeldInv'
  BY <1>20, <1>0, WorkersDistinct, NoneDistinct
     DEF WriteInboxProjection, WriteInbox, HeldInv, AcceptedIsHeld, Accepted,
         Serving, Goto
<1>21. ASSUME NEW t \in Handlers, CheckAssociation(t)
      PROVE  HeldInv'
  BY <1>21, <1>0, WorkersDistinct, NoneDistinct
     DEF CheckAssociation, HeldInv, AcceptedIsHeld, Accepted, Serving, Goto
<1>22. ASSUME NEW t \in Handlers, Reply(t)
      PROVE  HeldInv'
  BY <1>22, <1>0, WorkersDistinct, NoneDistinct
     DEF Reply, HeldInv, AcceptedIsHeld, Accepted, Serving, Goto
<1>23. ASSUME StartPorter
      PROVE  HeldInv'
  BY <1>23, <1>0, WorkersDistinct, NoneDistinct
     DEF StartPorter, TypeOK, HeldInv, AcceptedIsHeld, Accepted, Serving, Goto
<1>24. ASSUME NEW p \in Packages, ExamineAcceptance(p)
      PROVE  HeldInv'
  BY <1>24, <1>0, WorkersDistinct, NoneDistinct
     DEF ExamineAcceptance, TypeOK, HeldInv, AcceptedIsHeld, Accepted, Serving,
         Goto
<1>25. ASSUME RestoreInbox
      PROVE  HeldInv'
  BY <1>25, <1>0, WorkersDistinct, NoneDistinct
     DEF RestoreInbox, WriteInbox, HeldInv, AcceptedIsHeld, Accepted, Serving,
         Goto
<1>26. ASSUME AcceptancesRestored
      PROVE  HeldInv'
  BY <1>26, <1>0, WorkersDistinct, NoneDistinct
     DEF AcceptancesRestored, HeldInv, AcceptedIsHeld, Accepted, Serving, Goto
<1>27. ASSUME NEW h \in Hosts, StartHost(h)
      PROVE  HeldInv'
  BY <1>27, <1>0, WorkersDistinct, NoneDistinct
     DEF StartHost, HeldInv, AcceptedIsHeld, Accepted, Serving, Goto
<1>28. ASSUME NEW h \in Hosts, Inspect(h)
      PROVE  HeldInv'
  BY <1>28, <1>0, WorkersDistinct, NoneDistinct
     DEF Inspect, HeldInv, AcceptedIsHeld, Accepted, Serving, Goto
<1>29. ASSUME NEW h \in Hosts, NEW p \in Packages, Select(h, p)
      PROVE  HeldInv'
  BY <1>29, <1>0, WorkersDistinct, NoneDistinct
     DEF Select, HeldInv, AcceptedIsHeld, Accepted, Serving, Goto
<1>30. ASSUME NEW c \in Callers, NEW p \in Packages, CallCollect(c, p)
      PROVE  HeldInv'
  BY <1>30, <1>0, WorkersDistinct, NoneDistinct
     DEF CallCollect, HeldInv, AcceptedIsHeld, Accepted, Serving, Goto
<1>31. ASSUME Crash
      PROVE  HeldInv'
  <2>1. PICK dead : Fell(dead)
    BY <1>31, CrashFells
  <2> QED
    BY <1>0, <2>1, WorkersDistinct, NoneDistinct
       DEF Fell, HeldInv, AcceptedIsHeld, Accepted, Serving, Recoverers, Workers
<1> QED
  BY NextGroups, FaultyDisk = FALSE, <1>1, <1>2, <1>3, <1>4, <1>5, <1>6, <1>7,
     <1>8, <1>9, <1>10, <1>11, <1>12, <1>13, <1>14, <1>15, <1>16, <1>17, <1>18,
     <1>19, <1>20, <1>21, <1>22, <1>23, <1>24, <1>25, <1>26, <1>27, <1>28,
     <1>29, <1>30, <1>31
     DEF ProjectionStep, CollectStep, RecoveryStep, Arrival, HandlerStep,
         DepositRaises, RestoreStep, VisitStep, Call

\* A rebuild keeps listing whatever awaits a Host.
LEMMA ListingInvStep ==
  ASSUME TypeOK, CollectionInv, FaultyDisk = FALSE, Next, CandidateInv
  PROVE  ListingInv'
<1>0. /\ pc \in [Workers -> Labels]
      /\ job \in [Workers -> Packages \cup {None}]
      /\ Handlers \subseteq Workers /\ Hosts \subseteq Workers
      /\ Callers \subseteq Workers /\ Porter \in Workers
      /\ Recoverers \subseteq Workers
      /\ Porter \notin Handlers \cup Hosts \cup Callers
  BY WorkersDistinct DEF TypeOK, Workers, Recoverers
<1> USE DEF CandidateInv
<1>1. ASSUME NEW w \in Workers, BeginRebuild(w)
      PROVE  ListingInv'
  <2>1. \A v \in Workers \ {w} : pc[v] \notin {"list", "replace"}
    BY <1>1, NoneDistinct DEF BeginRebuild, RebuildInv, Workers
  <2>2. /\ pc' = [pc EXCEPT ![w] = "list"] /\ listing' = Associated
        /\ UNCHANGED association
    BY <1>1 DEF BeginRebuild, Goto
  <2> QED
    BY <1>0, <2>1, <2>2 DEF ListingInv, Associated
<1>2. ASSUME NEW w \in Workers, ListAcceptances(w)
      PROVE  ListingInv'
  <2>1. \A v \in Workers \ {w} : pc[v] \notin {"list", "replace"}
    BY <1>2, NoneDistinct DEF ListAcceptances, RebuildInv, Workers
  <2>2. /\ pc' = [pc EXCEPT ![w] = "replace"] /\ listing' = Accepted \ listing
        /\ listing \subseteq Associated
        /\ UNCHANGED <<association, acceptances>>
    BY <1>2 DEF ListAcceptances, Goto, ListingInv
  <2> QED
    BY <1>0, <2>1, <2>2 DEF ListingInv, Associated, Accepted
<1>3. ASSUME NEW w \in Workers, Replace(w)
      PROVE  ListingInv'
  <2>1. \A v \in Workers \ {w} : pc[v] \notin {"list", "replace"}
    BY <1>3, NoneDistinct DEF Replace, RebuildInv, Workers
  <2>2. \E label \in {"ready", "publish", "settle"} :
          pc' = [pc EXCEPT ![w] = label]
    BY <1>3 DEF Replace, Goto
  <2> QED
    BY <1>0, <2>1, <2>2 DEF ListingInv
<1>4. ASSUME NEW w \in Workers, Publish(w)
      PROVE  ListingInv'
  <2>1. \A v \in Workers \ {w} : pc[v] \notin {"list", "replace"}
    BY <1>4, NoneDistinct
       DEF Publish, Update, MayTakeProjection, RebuildInv, Workers
  <2>2. pc' = [pc EXCEPT ![w] = "reply"]
    BY <1>4 DEF Publish, Goto
  <2> QED
    BY <1>0, <2>1, <2>2 DEF ListingInv
<1>5. ASSUME NEW w \in Workers, Settle(w)
      PROVE  ListingInv'
  <2>1. \A v \in Workers \ {w} : pc[v] \notin {"list", "replace"}
    BY <1>5, NoneDistinct
       DEF Settle, Update, MayTakeProjection, RebuildInv, Workers
  <2>2. \E label \in {"audit", "ready"} : pc' = [pc EXCEPT ![w] = label]
    BY <1>5 DEF Settle, Goto, AfterSettle
  <2> QED
    BY <1>0, <2>1, <2>2 DEF ListingInv
<1>6. ASSUME NEW w \in Workers \ Handlers, LockPackage(w)
      PROVE  ListingInv'
  BY <1>6, <1>0, WorkersDistinct, NoneDistinct
     DEF LockPackage, ListingInv, Associated, Accepted, Serving, Goto
<1>7. ASSUME NEW w \in Workers \ Handlers, Reserve(w)
      PROVE  ListingInv'
  <2>1. Associated \subseteq Associated'
    <3>1. claim[w].collection \in CollectionIds
      BY <1>7, <1>0
         DEF Reserve, CollectionInv, ClaimInv, Collecting, TypeOK, Fact
    <3> QED
      BY <1>7, <3>1, NoneDistinct
         DEF Reserve, WriteAssociation, Associated, TypeOK
  <2>2. UNCHANGED <<acceptances, listing, job, readable, projection>>
    BY <1>7 DEF Reserve
  <2>3. \E label \in {"fact", "unlink"} : pc' = [pc EXCEPT ![w] = label]
    BY <1>7 DEF Reserve, Goto
  <2>4. Accepted' = Accepted /\ (Serving' <=> Serving)
    BY <1>7, <1>0, <2>2, <2>3 DEF Reserve, Accepted, Serving
  <2>5. \A v \in Workers : pc'[v] \in {"list", "replace"} => pc'[v] = pc[v]
    BY <1>0, <2>3
  <2>6. \A t \in Handlers : pc'[t] = pc[t]
    BY <1>0, <2>3
  <2> QED
    BY <2>1, <2>2, <2>4, <2>5, <2>6 DEF ListingInv
<1>8. ASSUME NEW w \in Workers \ Handlers, WriteFact(w)
      PROVE  ListingInv'
  BY <1>8, <1>0, WorkersDistinct, NoneDistinct
     DEF WriteFact, ListingInv, Associated, Accepted, Serving, Goto
<1>9. ASSUME NEW w \in Workers \ Handlers, MaterializeCollected(w)
      PROVE  ListingInv'
  BY <1>9, <1>0, WorkersDistinct, NoneDistinct
     DEF MaterializeCollected, ListingInv, Associated, Accepted, Serving, Goto
<1>10. ASSUME NEW w \in Workers \ Handlers, MaterializeAssociation(w)
      PROVE  ListingInv'
  <2>1. Associated \subseteq Associated'
    <3>1. claim[w].collection \in CollectionIds
      BY <1>10, <1>0
         DEF MaterializeAssociation, CollectionInv, ClaimInv, Collecting,
             TypeOK, Fact
    <3> QED
      BY <1>10, <3>1, NoneDistinct
         DEF MaterializeAssociation, WriteAssociation, Associated, TypeOK
  <2>2. UNCHANGED <<acceptances, listing, job, readable, projection>>
    BY <1>10 DEF MaterializeAssociation
  <2>3. \E label \in {"fact", "unlink"} : pc' = [pc EXCEPT ![w] = label]
    BY <1>10 DEF MaterializeAssociation, Goto
  <2>4. Accepted' = Accepted /\ (Serving' <=> Serving)
    BY <1>10, <1>0, <2>2, <2>3 DEF MaterializeAssociation, Accepted, Serving
  <2>5. \A v \in Workers : pc'[v] \in {"list", "replace"} => pc'[v] = pc[v]
    BY <1>0, <2>3
  <2>6. \A t \in Handlers : pc'[t] = pc[t]
    BY <1>0, <2>3
  <2> QED
    BY <2>1, <2>2, <2>4, <2>5, <2>6 DEF ListingInv
<1>11. ASSUME NEW w \in Workers \ Handlers, UnlinkInbox(w)
      PROVE  ListingInv'
  BY <1>11, <1>0, WorkersDistinct, NoneDistinct
     DEF UnlinkInbox, ListingInv, Associated, Accepted, Serving, Goto
<1>12. ASSUME NEW w \in Recoverers, BeginRecovery(w)
      PROVE  ListingInv'
  BY <1>12, <1>0, WorkersDistinct, NoneDistinct
     DEF BeginRecovery, ListingInv, Associated, Accepted, Serving, Goto
<1>13. ASSUME NEW w \in Recoverers, NEW f \in todo, RecoverFact(w, f)
      PROVE  ListingInv'
  BY <1>13, <1>0, WorkersDistinct, NoneDistinct
     DEF RecoverFact, ListingInv, Associated, Accepted, Serving, Goto
<1>14. ASSUME NEW w \in Recoverers, EndRecovery(w)
      PROVE  ListingInv'
  BY <1>14, <1>0, WorkersDistinct, NoneDistinct
     DEF EndRecovery, ListingInv, Associated, Accepted, Serving, Goto
<1>15. ASSUME NEW t \in Handlers, NEW p \in Packages, Deposit(t, p)
      PROVE  ListingInv'
  BY <1>15, <1>0, WorkersDistinct, NoneDistinct
     DEF Deposit, ListingInv, Associated, Accepted, Serving, Goto
<1>16. ASSUME NEW t \in Handlers, LockRelationship(t)
      PROVE  ListingInv'
  BY <1>16, <1>0, WorkersDistinct, NoneDistinct
     DEF LockRelationship, ListingInv, Associated, Accepted, Serving, Goto
<1>17. ASSUME NEW t \in Handlers, Refuse(t)
      PROVE  ListingInv'
  BY <1>17, <1>0, WorkersDistinct, NoneDistinct
     DEF Refuse, ListingInv, Associated, Accepted, Serving, Goto
<1>18. ASSUME NEW t \in Handlers, LookForAcceptance(t)
      PROVE  ListingInv'
  BY <1>18, <1>0, WorkersDistinct, NoneDistinct
     DEF LookForAcceptance, ListingInv, Associated, Accepted, Serving, Goto
<1>19. ASSUME NEW t \in Handlers, WriteAcceptance(t)
      PROVE  ListingInv'
  <2>1. /\ Accepted' = Accepted \cup {job[t]} /\ job[t] \in Packages
        /\ pc' = [pc EXCEPT ![t] = "inbox"] /\ pc[t] = "write"
        /\ UNCHANGED <<listing, association, job>>
    <3>1. job[t] \in Packages
      BY <1>19, <1>0 DEF WriteAcceptance, CollectionInv, JobInv
    <3>2. PICK a \in AcceptanceIds :
            acceptances' = [acceptances EXCEPT ![job[t]] = a]
      BY <1>19 DEF WriteAcceptance, FreshAcceptances
    <3>3. Accepted' = Accepted \cup {job[t]}
      BY <3>1, <3>2, NoneDistinct DEF Accepted, TypeOK
    <3> QED
      BY <1>19, <3>1, <3>3 DEF WriteAcceptance, Goto
  <2>2. Serving' => Serving
    BY <1>0, <2>1 DEF Serving
  <2>3. Associated' = Associated
    BY <2>1 DEF Associated
  <2>4. \A v \in Workers \ {t} : pc'[v] = pc[v]
    BY <1>0, <2>1
  <2>5. pc'[t] = "inbox"
    BY <1>0, <2>1
  <2>6. ASSUME NEW v \in Workers, pc'[v] = "replace", Serving \/ v = Porter,
               NEW p \in Accepted' \ (Associated' \cup listing')
        PROVE  \E u \in Handlers :
                 job'[u] = p /\ pc'[u] \in {"inbox", "repair", "check",
                                            "publish", "replace"}
    <3>1. CASE p = job[t]
      BY <2>1, <2>5, <3>1
    <3>2. CASE p \in Accepted
      <4>1. pc[v] = "replace"
        BY <1>0, <2>1, <2>4, <2>5, <2>6
      <4>2. PICK u \in Handlers :
              job[u] = p /\ pc[u] \in {"inbox", "repair", "check", "publish",
                                       "replace"}
        BY <2>1, <2>3, <2>6, <3>2, <4>1 DEF ListingInv
      <4>3. u # t
        BY <2>1, <4>2
      <4> QED
        BY <1>0, <2>1, <2>4, <4>2, <4>3
    <3> QED
      BY <2>1, <2>6, <3>1, <3>2
  <2> QED
    BY <1>0, <2>1, <2>2, <2>3, <2>4, <2>5, <2>6 DEF ListingInv
<1>20. ASSUME NEW t \in Handlers, WriteInboxProjection(t)
      PROVE  ListingInv'
  BY <1>20, <1>0, WorkersDistinct, NoneDistinct
     DEF WriteInboxProjection, ListingInv, Associated, Accepted, Serving, Goto
<1>21. ASSUME NEW t \in Handlers, CheckAssociation(t)
      PROVE  ListingInv'
  BY <1>21, <1>0, WorkersDistinct, NoneDistinct
     DEF CheckAssociation, ListingInv, Associated, Accepted, Serving, Goto
<1>22. ASSUME NEW t \in Handlers, Reply(t)
      PROVE  ListingInv'
  BY <1>22, <1>0, WorkersDistinct, NoneDistinct
     DEF Reply, ListingInv, Associated, Accepted, Serving, Goto
<1>23. ASSUME StartPorter
      PROVE  ListingInv'
  BY <1>23, <1>0, WorkersDistinct, NoneDistinct
     DEF StartPorter, ListingInv, Associated, Accepted, Serving, Goto
<1>24. ASSUME NEW p \in Packages, ExamineAcceptance(p)
      PROVE  ListingInv'
  BY <1>24, <1>0, WorkersDistinct, NoneDistinct
     DEF ExamineAcceptance, ListingInv, Associated, Accepted, Serving, Goto
<1>25. ASSUME RestoreInbox
      PROVE  ListingInv'
  BY <1>25, <1>0, WorkersDistinct, NoneDistinct
     DEF RestoreInbox, ListingInv, Associated, Accepted, Serving, Goto
<1>26. ASSUME AcceptancesRestored
      PROVE  ListingInv'
  BY <1>26, <1>0, WorkersDistinct, NoneDistinct
     DEF AcceptancesRestored, ListingInv, Associated, Accepted, Serving, Goto
<1>27. ASSUME NEW h \in Hosts, StartHost(h)
      PROVE  ListingInv'
  BY <1>27, <1>0, WorkersDistinct, NoneDistinct
     DEF StartHost, ListingInv, Associated, Accepted, Serving, Goto
<1>28. ASSUME NEW h \in Hosts, Inspect(h)
      PROVE  ListingInv'
  BY <1>28, <1>0, WorkersDistinct, NoneDistinct
     DEF Inspect, ListingInv, Associated, Accepted, Serving, Goto
<1>29. ASSUME NEW h \in Hosts, NEW p \in Packages, Select(h, p)
      PROVE  ListingInv'
  BY <1>29, <1>0, WorkersDistinct, NoneDistinct
     DEF Select, ListingInv, Associated, Accepted, Serving, Goto
<1>30. ASSUME NEW c \in Callers, NEW p \in Packages, CallCollect(c, p)
      PROVE  ListingInv'
  BY <1>30, <1>0, WorkersDistinct, NoneDistinct
     DEF CallCollect, ListingInv, Associated, Accepted, Serving, Goto
<1>31. ASSUME Crash
      PROVE  ListingInv'
  <2>1. PICK dead : Fell(dead)
    BY <1>31, CrashFells
  <2> QED
    BY <1>0, <2>1, WorkersDistinct, NoneDistinct
       DEF CandidateInv, Fell, ListingInv, Associated, Accepted, Serving,
           Recoverers, Workers, RebuildInv
<1> QED
  BY NextGroups, FaultyDisk = FALSE, <1>1, <1>2, <1>3, <1>4, <1>5, <1>6, <1>7,
     <1>8, <1>9, <1>10, <1>11, <1>12, <1>13, <1>14, <1>15, <1>16, <1>17, <1>18,
     <1>19, <1>20, <1>21, <1>22, <1>23, <1>24, <1>25, <1>26, <1>27, <1>28,
     <1>29, <1>30, <1>31
     DEF ProjectionStep, CollectStep, RecoveryStep, Arrival, HandlerStep,
         DepositRaises, RestoreStep, VisitStep, Call

\* Whatever awaits a Host is listed, or on its way.
LEMMA NoCandidateStarvesStep ==
  ASSUME TypeOK, CollectionInv, FaultyDisk = FALSE, Next, CandidateInv
  PROVE  NoCandidateStarves'
<1>0. /\ pc \in [Workers -> Labels]
      /\ job \in [Workers -> Packages \cup {None}]
      /\ Handlers \subseteq Workers /\ Hosts \subseteq Workers
      /\ Callers \subseteq Workers /\ Porter \in Workers
      /\ Recoverers \subseteq Workers
      /\ Porter \notin Handlers \cup Hosts \cup Callers
  BY WorkersDistinct DEF TypeOK, Workers, Recoverers
<1> USE DEF CandidateInv
<1>1. ASSUME NEW w \in Workers, BeginRebuild(w)
      PROVE  NoCandidateStarves'
  BY <1>1, <1>0, WorkersDistinct, NoneDistinct
     DEF BeginRebuild, NoCandidateStarves, Associated, Accepted, Serving, Goto
<1>2. ASSUME NEW w \in Workers, ListAcceptances(w)
      PROVE  NoCandidateStarves'
  BY <1>2, <1>0, WorkersDistinct, NoneDistinct
     DEF ListAcceptances, NoCandidateStarves, Associated, Accepted, Serving,
         Goto
<1>3. ASSUME NEW w \in Workers, Replace(w)
      PROVE  NoCandidateStarves'
  <2>1. \A v \in Workers \ {w} : pc[v] \notin {"list", "replace"}
    BY <1>3, NoneDistinct DEF Replace, RebuildInv, Workers
  <2>2. /\ UNCHANGED <<acceptances, association, job>>
        /\ readable' /\ projection' = listing
        /\ \A v \in Workers \ {w} : pc'[v] = pc[v]
    BY <1>3, <1>0 DEF Replace, Goto
  <2>3. w \in Handlers /\ job[w] # None => pc'[w] = "publish"
    BY <1>3, <1>0 DEF Replace, Goto
  <2>4. Serving' => Serving \/ w = Porter
    BY <1>0, <2>2 DEF Serving
  <2>5. ASSUME Serving', NEW p \in Accepted \ (Associated \cup listing)
        PROVE  \E t \in Handlers :
                 job[t] = p /\ pc'[t] \in {"inbox", "repair", "check",
                                           "publish"}
    <3>1. PICK t \in Handlers :
            job[t] = p /\ pc[t] \in {"inbox", "repair", "check", "publish",
                                     "replace"}
      BY <1>3, <2>4, <2>5 DEF Replace, ListingInv
    <3>2. CASE t = w
      BY <2>3, <3>1, <3>2, NoneDistinct DEF Accepted
    <3>3. CASE t # w
      BY <1>0, <2>1, <2>2, <3>1, <3>3
    <3> QED
      BY <3>2, <3>3
  <2> QED
    BY <2>2, <2>5 DEF NoCandidateStarves, Accepted, Associated
<1>4. ASSUME NEW w \in Workers, Publish(w)
      PROVE  NoCandidateStarves'
  <2>1. w \in Handlers
    BY <1>4, <1>0 DEF Publish, CollectionInv, LabelInv, HandlerLabels
  <2>2. readable' => readable /\ projection' = projection \cup {job[w]}
    BY <1>4 DEF Publish, Update
  <2>3. /\ UNCHANGED <<acceptances, association, job>>
        /\ \A t \in Handlers \ {w} : pc'[t] = pc[t]
    BY <1>4, <1>0 DEF Publish, Goto
  <2>4. Serving' => Serving
    BY <1>4, <1>0, <2>1 DEF Publish, Goto, Serving
  <2> QED
    BY <2>2, <2>3, <2>4 DEF NoCandidateStarves, Accepted, Associated
<1>5. ASSUME NEW w \in Workers, Settle(w)
      PROVE  NoCandidateStarves'
  <2>1. w \notin Handlers
    BY <1>5, <1>0 DEF Settle, CollectionInv, LabelInv, HandlerLabels
  <2>2. job[w] \notin Packages \/ job[w] \in Associated
    BY <1>5, <2>1, NoneDistinct DEF Settle, SettleInv
  <2>3. readable' => readable /\ projection' = projection \ {job[w]}
    BY <1>5 DEF Settle, Update
  <2>4. /\ UNCHANGED <<acceptances, association>>
        /\ \A t \in Handlers : pc'[t] = pc[t] /\ job'[t] = job[t]
    BY <1>5, <1>0, <2>1 DEF Settle, Goto
  <2>5. Serving' => Serving
    BY <1>5, <1>0 DEF Settle, Goto, AfterSettle, Serving, IdleInv
  <2> QED
    BY <2>2, <2>3, <2>4, <2>5 DEF NoCandidateStarves, Accepted, Associated
<1>6. ASSUME NEW w \in Workers \ Handlers, LockPackage(w)
      PROVE  NoCandidateStarves'
  BY <1>6, <1>0, WorkersDistinct, NoneDistinct
     DEF LockPackage, NoCandidateStarves, Associated, Accepted, Serving, Goto
<1>7. ASSUME NEW w \in Workers \ Handlers, Reserve(w)
      PROVE  NoCandidateStarves'
  <2>1. Associated \subseteq Associated'
    <3>1. claim[w].collection \in CollectionIds
      BY <1>7, <1>0
         DEF Reserve, CollectionInv, ClaimInv, Collecting, TypeOK, Fact
    <3> QED
      BY <1>7, <3>1, NoneDistinct
         DEF Reserve, WriteAssociation, Associated, TypeOK
  <2>2. UNCHANGED <<acceptances, listing, job, readable, projection>>
    BY <1>7 DEF Reserve
  <2>3. \E label \in {"fact", "unlink"} : pc' = [pc EXCEPT ![w] = label]
    BY <1>7 DEF Reserve, Goto
  <2>4. Accepted' = Accepted /\ (Serving' => Serving)
    BY <1>0, <2>2, <2>3 DEF Accepted, Serving
  <2>5. \A t \in Handlers : pc'[t] = pc[t]
    BY <1>0, <2>3
  <2> QED
    BY <2>1, <2>2, <2>4, <2>5 DEF NoCandidateStarves
<1>8. ASSUME NEW w \in Workers \ Handlers, WriteFact(w)
      PROVE  NoCandidateStarves'
  BY <1>8, <1>0, WorkersDistinct, NoneDistinct
     DEF WriteFact, NoCandidateStarves, Associated, Accepted, Serving, Goto
<1>9. ASSUME NEW w \in Workers \ Handlers, MaterializeCollected(w)
      PROVE  NoCandidateStarves'
  BY <1>9, <1>0, WorkersDistinct, NoneDistinct
     DEF MaterializeCollected, NoCandidateStarves, Associated, Accepted,
         Serving, Goto
<1>10. ASSUME NEW w \in Workers \ Handlers, MaterializeAssociation(w)
      PROVE  NoCandidateStarves'
  <2>1. Associated \subseteq Associated'
    <3>1. claim[w].collection \in CollectionIds
      BY <1>10, <1>0
         DEF MaterializeAssociation, CollectionInv, ClaimInv, Collecting,
             TypeOK, Fact
    <3> QED
      BY <1>10, <3>1, NoneDistinct
         DEF MaterializeAssociation, WriteAssociation, Associated, TypeOK
  <2>2. UNCHANGED <<acceptances, listing, job, readable, projection>>
    BY <1>10 DEF MaterializeAssociation
  <2>3. \E label \in {"fact", "unlink"} : pc' = [pc EXCEPT ![w] = label]
    BY <1>10 DEF MaterializeAssociation, Goto
  <2>4. Accepted' = Accepted /\ (Serving' => Serving)
    BY <1>0, <2>2, <2>3 DEF Accepted, Serving
  <2>5. \A t \in Handlers : pc'[t] = pc[t]
    BY <1>0, <2>3
  <2> QED
    BY <2>1, <2>2, <2>4, <2>5 DEF NoCandidateStarves
<1>11. ASSUME NEW w \in Workers \ Handlers, UnlinkInbox(w)
      PROVE  NoCandidateStarves'
  BY <1>11, <1>0, WorkersDistinct, NoneDistinct
     DEF UnlinkInbox, NoCandidateStarves, Associated, Accepted, Serving, Goto
<1>12. ASSUME NEW w \in Recoverers, BeginRecovery(w)
      PROVE  NoCandidateStarves'
  BY <1>12, <1>0, WorkersDistinct, NoneDistinct
     DEF BeginRecovery, NoCandidateStarves, Associated, Accepted, Serving, Goto
<1>13. ASSUME NEW w \in Recoverers, NEW f \in todo, RecoverFact(w, f)
      PROVE  NoCandidateStarves'
  BY <1>13, <1>0, WorkersDistinct, NoneDistinct
     DEF RecoverFact, NoCandidateStarves, Associated, Accepted, Serving, Goto
<1>14. ASSUME NEW w \in Recoverers, EndRecovery(w)
      PROVE  NoCandidateStarves'
  BY <1>14, <1>0, WorkersDistinct, NoneDistinct
     DEF EndRecovery, NoCandidateStarves, Associated, Accepted, Serving, Goto
<1>15. ASSUME NEW t \in Handlers, NEW p \in Packages, Deposit(t, p)
      PROVE  NoCandidateStarves'
  BY <1>15, <1>0, WorkersDistinct, NoneDistinct
     DEF Deposit, NoCandidateStarves, Associated, Accepted, Serving, Goto
<1>16. ASSUME NEW t \in Handlers, LockRelationship(t)
      PROVE  NoCandidateStarves'
  BY <1>16, <1>0, WorkersDistinct, NoneDistinct
     DEF LockRelationship, NoCandidateStarves, Associated, Accepted, Serving,
         Goto
<1>17. ASSUME NEW t \in Handlers, Refuse(t)
      PROVE  NoCandidateStarves'
  BY <1>17, <1>0, WorkersDistinct, NoneDistinct
     DEF Refuse, NoCandidateStarves, Associated, Accepted, Serving, Goto
<1>18. ASSUME NEW t \in Handlers, LookForAcceptance(t)
      PROVE  NoCandidateStarves'
  BY <1>18, <1>0, WorkersDistinct, NoneDistinct
     DEF LookForAcceptance, NoCandidateStarves, Associated, Accepted, Serving,
         Goto
<1>19. ASSUME NEW t \in Handlers, WriteAcceptance(t)
      PROVE  NoCandidateStarves'
  BY <1>19, <1>0, WorkersDistinct, NoneDistinct
     DEF WriteAcceptance, NoCandidateStarves, Associated, Accepted, Serving,
         Goto
<1>20. ASSUME NEW t \in Handlers, WriteInboxProjection(t)
      PROVE  NoCandidateStarves'
  BY <1>20, <1>0, WorkersDistinct, NoneDistinct
     DEF WriteInboxProjection, NoCandidateStarves, Associated, Accepted,
         Serving, Goto
<1>21. ASSUME NEW t \in Handlers, CheckAssociation(t)
      PROVE  NoCandidateStarves'
  BY <1>21, <1>0, WorkersDistinct, NoneDistinct
     DEF CheckAssociation, NoCandidateStarves, Associated, Accepted, Serving,
         Goto
<1>22. ASSUME NEW t \in Handlers, Reply(t)
      PROVE  NoCandidateStarves'
  BY <1>22, <1>0, WorkersDistinct, NoneDistinct
     DEF Reply, NoCandidateStarves, Associated, Accepted, Serving, Goto
<1>23. ASSUME StartPorter
      PROVE  NoCandidateStarves'
  BY <1>23, <1>0, WorkersDistinct, NoneDistinct
     DEF StartPorter, NoCandidateStarves, Associated, Accepted, Serving, Goto
<1>24. ASSUME NEW p \in Packages, ExamineAcceptance(p)
      PROVE  NoCandidateStarves'
  BY <1>24, <1>0, WorkersDistinct, NoneDistinct
     DEF ExamineAcceptance, NoCandidateStarves, Associated, Accepted, Serving,
         Goto
<1>25. ASSUME RestoreInbox
      PROVE  NoCandidateStarves'
  BY <1>25, <1>0, WorkersDistinct, NoneDistinct
     DEF RestoreInbox, NoCandidateStarves, Associated, Accepted, Serving, Goto
<1>26. ASSUME AcceptancesRestored
      PROVE  NoCandidateStarves'
  BY <1>26, <1>0, WorkersDistinct, NoneDistinct
     DEF AcceptancesRestored, NoCandidateStarves, Associated, Accepted,
         Serving, Goto
<1>27. ASSUME NEW h \in Hosts, StartHost(h)
      PROVE  NoCandidateStarves'
  BY <1>27, <1>0, WorkersDistinct, NoneDistinct
     DEF StartHost, NoCandidateStarves, Associated, Accepted, Serving, Goto
<1>28. ASSUME NEW h \in Hosts, Inspect(h)
      PROVE  NoCandidateStarves'
  BY <1>28, <1>0, WorkersDistinct, NoneDistinct
     DEF Inspect, NoCandidateStarves, Associated, Accepted, Serving, Goto
<1>29. ASSUME NEW h \in Hosts, NEW p \in Packages, Select(h, p)
      PROVE  NoCandidateStarves'
  BY <1>29, <1>0, WorkersDistinct, NoneDistinct
     DEF Select, NoCandidateStarves, Associated, Accepted, Serving, Goto
<1>30. ASSUME NEW c \in Callers, NEW p \in Packages, CallCollect(c, p)
      PROVE  NoCandidateStarves'
  BY <1>30, <1>0, WorkersDistinct, NoneDistinct
     DEF CallCollect, NoCandidateStarves, Associated, Accepted, Serving, Goto
<1>31. ASSUME Crash
      PROVE  NoCandidateStarves'
  <2>1. PICK dead : Fell(dead)
    BY <1>31, CrashFells
  <2>2. CASE Porter \in dead
    BY <1>0, <2>1, <2>2 DEF Fell, NoCandidateStarves, Serving, Recoverers
  <2>3. CASE Porter \notin dead
    <3>1. /\ UNCHANGED <<acceptances, association, readable, projection>>
          /\ \A t \in Handlers : pc'[t] = pc[t] /\ job'[t] = job[t]
          /\ pc'[Porter] = pc[Porter]
      BY <1>0, <2>1, <2>3 DEF Fell
    <3> QED
      BY <3>1 DEF NoCandidateStarves, Serving, Accepted, Associated
  <2> QED
    BY <2>2, <2>3
<1> QED
  BY NextGroups, FaultyDisk = FALSE, <1>1, <1>2, <1>3, <1>4, <1>5, <1>6, <1>7,
     <1>8, <1>9, <1>10, <1>11, <1>12, <1>13, <1>14, <1>15, <1>16, <1>17, <1>18,
     <1>19, <1>20, <1>21, <1>22, <1>23, <1>24, <1>25, <1>26, <1>27, <1>28,
     <1>29, <1>30, <1>31
     DEF ProjectionStep, CollectStep, RecoveryStep, Arrival, HandlerStep,
         DepositRaises, RestoreStep, VisitStep, Call


\* An empty store has nothing to lose.
LEMMA InitHeld == Init => HeldInv /\ CandidateInv
<1> SUFFICES ASSUME Init PROVE HeldInv /\ CandidateInv
  OBVIOUS
<1>0. Porter \in Workers /\ Handlers \subseteq Workers
  BY DEF Workers, Recoverers
<1>1. HeldInv
  BY <1>0 DEF Init, HeldInv, AcceptedIsHeld, Accepted, Serving
<1>2. RebuildInv /\ IdleInv
  BY <1>0, WorkersDistinct
     DEF Init, RebuildInv, IdleInv, Collecting, Workers, Recoverers
<1>3. SettleInv /\ ListingInv /\ NoCandidateStarves
  BY <1>0, WorkersDistinct
     DEF Init, SettleInv, ListingInv, NoCandidateStarves, Accepted, Associated,
         Serving, Workers, Recoverers
<1> QED
  BY <1>1, <1>2, <1>3 DEF CandidateInv

\* A step that changes nothing preserves both.
LEMMA HeldStuttering ==
  ASSUME UNCHANGED vars
  PROVE  (HeldInv => HeldInv') /\ (CandidateInv => CandidateInv')
<1>1. HeldInv => HeldInv'
  BY DEF HeldInv, AcceptedIsHeld, Accepted, Serving
<1>2. RebuildInv /\ IdleInv /\ SettleInv
      => RebuildInv' /\ IdleInv' /\ SettleInv'
  BY DEF RebuildInv, IdleInv, SettleInv, Collecting, Accepted, Associated
<1>3. ListingInv /\ NoCandidateStarves => ListingInv' /\ NoCandidateStarves'
  BY DEF ListingInv, NoCandidateStarves, Accepted, Associated, Serving
<1> QED
  BY <1>1, <1>2, <1>3 DEF CandidateInv

\* HeldInv holds of every reachable state: whoever is killed wherever, a
\* restarting Porter restores what only its AC still names (carriage.py
\* restore, custody.py materialize before the unlink of the inbox file).
THEOREM HeldInvariance ==
  ASSUME FaultyDisk = FALSE
  PROVE  Spec => []HeldInv
<1>1. TypeOK /\ CollectionInv /\ HeldInv /\ [Next]_vars => HeldInv'
  BY FaultyDisk = FALSE, HeldInvStep, HeldStuttering
<1> QED
  BY InitHeld, InductiveInvariant, <1>1, PTL DEF Spec

\* A Package the Porter has accepted is never out of both hands while it serves.
THEOREM AcceptedHeld ==
  ASSUME FaultyDisk = FALSE
  PROVE  Spec => []AcceptedIsHeld
<1>1. HeldInv => AcceptedIsHeld
  BY DEF HeldInv
<1> QED
  BY FaultyDisk = FALSE, HeldInvariance, <1>1, PTL

\* CandidateInv holds of every reachable state: rebuilds, publications and
\* settlements of any number of workers lose no row that awaits a Host
\* (candidates.py _rebuild, publish, settle).
THEOREM CandidateInvariance ==
  ASSUME FaultyDisk = FALSE
  PROVE  Spec => []CandidateInv
<1>1. TypeOK /\ CollectionInv /\ CandidateInv /\ [Next]_vars => CandidateInv'
  <2> SUFFICES ASSUME TypeOK, CollectionInv, CandidateInv, Next
               PROVE  CandidateInv'
    BY HeldStuttering
  <2>1. RebuildInv /\ IdleInv /\ SettleInv /\ ListingInv
    BY DEF CandidateInv
  <2>2. RebuildInv' /\ IdleInv' /\ SettleInv'
    BY FaultyDisk = FALSE, <2>1, RebuildInvStep, IdleInvStep, SettleInvStep
  <2>3. ListingInv' /\ NoCandidateStarves'
    BY FaultyDisk = FALSE, ListingInvStep, NoCandidateStarvesStep
  <2> QED
    BY <2>2, <2>3 DEF CandidateInv
<1> QED
  BY InitHeld, InductiveInvariant, <1>1, PTL DEF Spec

\* While the Porter serves and its projection is readable, an accepted Package
\* without an association is a row of it, or a request thread is about to add it.
THEOREM NoStarvation ==
  ASSUME FaultyDisk = FALSE
  PROVE  Spec => []NoCandidateStarves
<1>1. CandidateInv => NoCandidateStarves
  BY DEF CandidateInv
<1> QED
  BY FaultyDisk = FALSE, CandidateInvariance, <1>1, PTL
===============================================================================
