---------------------------- MODULE CeremonyProofs ----------------------------
(***************************************************************************)
(* Theorems about standing ceremonies: standing never forks, every result  *)
(* tells of a change its ceremony caused, and the outbound knowledge of    *)
(* the origin follows the recipient's changes, for any number of threads,  *)
(* ceremonies, Introductions and crashes.                                  *)
(***************************************************************************)
EXTENDS CeremonyInvariant, FiniteSetTheorems, WellFoundedInduction, TLAPS

\* The tuples of variables are expanded everywhere.
USE DEF vars, factVars, depositVars, recoveryVars, standingVars, serviceVars,
        drainVars, wireVars, originVars, carrierVars

\* None is no identity, no thread, no change and no answer.
LEMMA NoneDistinct ==
  /\ None \notin Introductions /\ None \notin Ceremonies
  /\ None \notin Threads /\ None \notin Change /\ None \notin Answers
BY StandingConstants, NoneIsNoAnswer

\* What a ceremony replaces, selects and leaves in its predecessor's slot.
LEMMA CeremonyTyping ==
  ASSUME NEW c \in Ceremonies
  PROVE  /\ Predecessor[c] \in Introductions
         /\ Successor[c] \in Introductions \cup {None}
         /\ [successor |-> Successor[c], cause |-> c] \in Change
BY StandingConstants DEF Change

----------------------------------------------------------------------------
(* Standing: who may write a change. *)

\* Changes are written by a thread at PublishChange, or by another process.
LEMMA ChangeWriters ==
  ASSUME Next, changes' # changes
  PROVE  \/ \E t \in Threads : PublishChange(t)
         \/ \E j \in Local : Administer(j)
<1>1. ASSUME NEW t \in Threads, ThreadStep(t), ~PublishChange(t)
      PROVE  changes' = changes
  <2>1. CASE RecoverStep(t)
    BY <2>1 DEF RecoverStep, ListFacts, ListChanges, Forget, Remember
  <2>2. CASE DepositStep(t)
    BY <2>2 DEF DepositStep, Deposit, DepositUnproven, Verify, LockRelationship,
        Confirm, RefuseDeposit, FindAcceptance, Accept, AcceptUnproven
  <2>3. CASE ChangeStep(t)
    BY <2>3, <1>1 DEF ChangeStep, LockStanding, TakeSlot, Activate
  <2>4. CASE ServiceStep(t)
    BY <2>4 DEF ServiceStep, Receive, RefreshStanding, Judge, Hold, IsHeld,
        Prepare, ChangeRaises, Count, WriteResult, ForgetPending, Drain,
        EndDrain, Scan
  <2> QED BY <1>1, <2>1, <2>2, <2>3, <2>4 DEF ThreadStep
<1>2. CASE OriginStep
  BY <1>2 DEF OriginStep, ReceiveAnswer, GiveUp, PutBack, RetainResult, Learn,
      Drop, StartOrigin, OriginStarted, Lodge, Reapply, Post
<1>3. CASE RecipientCrashes \/ OriginCrashes
  BY <1>3 DEF RecipientCrashes, OriginCrashes
<1> QED BY <1>1, <1>2, <1>3 DEF Next, AdministratorStep

\* A change is published into an empty slot by the thread that holds the lock,
\* or by another process while no thread does.
LEMMA ChangesGrow ==
  ASSUME CeremonyInv, Next, NEW i \in Introductions, changes[i] # None
  PROVE  changes'[i] = changes[i]
<1>1. ASSUME NEW t \in Threads, PublishChange(t)
      PROVE  changes'[i] = changes[i]
  BY <1>1 DEF PublishChange, CeremonyInv, CeremonyTypes, ThreadInv,
      StandingInv
<1>2. ASSUME NEW j \in Local, Administer(j)
      PROVE  changes'[i] = changes[i]
  BY <1>2 DEF Administer, CeremonyInv, CeremonyTypes
<1> QED BY <1>1, <1>2, ChangeWriters

\* A ceremony that has changed standing has done so for good.
LEMMA CausesStay ==
  ASSUME CeremonyInv, Next, NEW c \in Ceremonies, Causes(c)
  PROVE  Causes(c)'
<1>1. Predecessor[c] \in Introductions
  BY CeremonyTyping
<1> QED BY <1>1, ChangesGrow DEF Causes

----------------------------------------------------------------------------
(* The conjuncts of CeremonyInv. *)

\* receive answers, or goes back to the drain it was called in.
LEMMA ReplyTypes ==
  ASSUME CeremonyTypes, NEW t \in Threads, NEW state \in Answers,
         Reply(t, state)
  PROVE  /\ pending' \subseteq Ceremonies /\ answer' \in Answers \cup {None}
         /\ live' \in [Threads -> BOOLEAN] /\ pc' \in [Threads -> Labels]
         /\ job' \in [Threads -> Packages \cup Ceremonies \cup {None}]
         /\ outer' \in [Threads -> Ceremonies \cup {None}]
<1> USE DEF CeremonyTypes, Reply, Goto, Labels, ServiceLabels
<1>1. CASE outer[t] # None /\ state # "REFUSED"
  BY <1>1
<1>2. CASE ~(outer[t] # None /\ state # "REFUSED")
  BY <1>2
<1> QED BY <1>1, <1>2

\* receive finds a result, a change, or neither.
LEMMA ReceiveTypes ==
  ASSUME CeremonyInv, NEW t \in Threads, Receive(t),
         UNCHANGED <<originVars, carrierVars, crashes>>
  PROVE  CeremonyTypes'
<1> USE DEF CeremonyInv, CeremonyTypes, Receive
<1>1. job[t] \in Ceremonies
  BY DEF ThreadInv, StandingInv, At, AtCeremony, ServiceLabels, RecoverLabels
<1>2. CASE \E state \in Answers : Reply(t, state)
  BY <1>1, <1>2, ReplyTypes
<1>3. CASE Goto(t, "refresh") /\ UNCHANGED <<results, pending, job, outer, wireVars>>
  BY <1>3 DEF Goto, Labels, ServiceLabels
<1> QED BY <1>2, <1>3 DEF Answers

\* The scan of a drain fails, goes down or goes on.
LEMMA ScanTypes ==
  ASSUME CeremonyInv, NEW t \in Threads, NEW c \in Ceremonies, Scan(t, c),
         UNCHANGED <<originVars, carrierVars, crashes>>
  PROVE  CeremonyTypes'
<1> USE DEF CeremonyInv, CeremonyTypes, Scan
<1>1. CASE c \notin pending
  BY <1>1, ReplyTypes DEF Answers
<1>2. CASE c \in pending /\ active = Predecessor[c]
  <2>1. job[t] \in Ceremonies
    BY DEF ThreadInv, StandingInv, At, AtCeremony, ServiceLabels, RecoverLabels
  <2> QED BY <1>2, <2>1 DEF Goto, Labels, ServiceLabels
<1>3. CASE c \in pending /\ active # Predecessor[c]
  BY <1>3
<1> QED BY <1>1, <1>2, <1>3

\* Every step of a request thread keeps the types.
LEMMA ThreadTypes ==
  ASSUME CeremonyInv, NEW t \in Threads, ThreadStep(t)
  PROVE  CeremonyTypes'
<1> USE DEF CeremonyInv, CeremonyTypes, Goto, Labels, RecoverLabels,
        DepositLabels, ServiceLabels, ChangeLabels, Answers
<1>1. CASE RecoverStep(t) /\ StandingOnly
  <2>1. CASE ListFacts(t)
    BY <2>1, <1>1 DEF ListFacts, StandingOnly
  <2>2. CASE ListChanges(t)
    BY <2>2, <1>1 DEF ListChanges, StandingOnly
  <2>3. CASE Forget(t)
    BY <2>3, <1>1 DEF Forget, StandingOnly
  <2>4. CASE Remember(t)
    BY <2>4, <1>1 DEF Remember, StandingOnly, ThreadInv, StandingInv, At,
        AtCeremony
  <2> QED BY <1>1, <2>1, <2>2, <2>3, <2>4 DEF RecoverStep
<1>2. CASE DepositStep(t) /\ StandingOnly
  <2>1. ASSUME NEW p \in Packages, Deposit(t, p)
        PROVE  CeremonyTypes'
    BY <2>1, <1>2 DEF Deposit, Refresh, StandingOnly
  <2>2. CASE Verify(t)
    BY <2>2, <1>2 DEF Verify, StandingOnly
  <2>3. CASE LockRelationship(t)
    BY <2>3, <1>2 DEF LockRelationship, Refresh, StandingOnly
  <2>4. CASE Confirm(t)
    BY <2>4, <1>2 DEF Confirm, StandingOnly
  <2>5. CASE RefuseDeposit(t)
    BY <2>5, <1>2 DEF RefuseDeposit, EndDeposit, Release, StandingOnly
  <2>6. CASE Accept(t)
    BY <2>6, <1>2 DEF Accept, EndDeposit, Release, StandingOnly
  <2>7. CASE FindAcceptance(t)
    BY <2>7, <1>2 DEF FindAcceptance, EndDeposit, Release,
        StandingOnly
  <2>8. CASE AcceptUnproven(t)
    BY <2>8, <1>2 DEF AcceptUnproven, EndDeposit, Release,
        StandingOnly
  <2>9. ASSUME NEW p \in Packages, DepositUnproven(t, p)
        PROVE  CeremonyTypes'
    BY <2>9, <1>2 DEF DepositUnproven, StandingOnly
  <2> QED BY <1>2, <2>1, <2>2, <2>3, <2>4, <2>5, <2>6, <2>7, <2>8, <2>9
      DEF DepositStep
<1>3. CASE ChangeStep(t) /\ StandingOnly
  <2>1. CASE LockStanding(t)
    BY <2>1, <1>3 DEF LockStanding, Refresh, StandingOnly
  <2>2. CASE TakeSlot(t)
    BY <2>2, <1>3 DEF TakeSlot, MayChange, StandingOnly
  <2>3. CASE PublishChange(t)
    BY <2>3, <1>3, CeremonyTyping DEF PublishChange, StandingOnly, ThreadInv,
        StandingInv, At, AtCeremony
  <2>4. CASE Activate(t)
    BY <2>4, <1>3 DEF Activate, Release, StandingOnly
  <2> QED BY <1>3, <2>1, <2>2, <2>3, <2>4 DEF ChangeStep
<1>4. CASE ServiceStep(t) /\ UNCHANGED <<originVars, carrierVars, crashes>>
  <2>1. CASE Receive(t)
    BY <2>1, <1>4, ReceiveTypes
  <2>2. CASE RefreshStanding(t)
    BY <2>2, <1>4 DEF RefreshStanding, Refresh
  <2>3. CASE Judge(t)
    BY ZenonT(40), <2>3, <1>4 DEF Judge, Reply
  <2>4. CASE Hold(t)
    BY <2>4, <1>4 DEF Hold, ThreadInv, StandingInv, At, AtCeremony
  <2>5. CASE IsHeld(t)
    BY ZenonT(40), <2>5, <1>4 DEF IsHeld, Reply
  <2>6. CASE Prepare(t)
    BY <2>6, <1>4 DEF Prepare
  <2>7. CASE ChangeRaises(t)
    BY ZenonT(40), <2>7, <1>4 DEF ChangeRaises, Release, Reply, MayChange
  <2>8. CASE Count(t)
    BY <2>8, <1>4 DEF Count
  <2>9. CASE WriteResult(t)
    BY <2>9, <1>4 DEF WriteResult, ThreadInv, StandingInv, At, AtCeremony
  <2>10. CASE ForgetPending(t)
    BY <2>10, <1>4 DEF ForgetPending, Reply
  <2>11. CASE Drain(t)
    BY <2>11, <1>4 DEF Drain
  <2>12. CASE EndDrain(t)
    BY ZenonT(40), <2>12, <1>4 DEF EndDrain, Reply
  <2>13. ASSUME NEW c \in Ceremonies, Scan(t, c)
        PROVE  CeremonyTypes'
    BY <2>13, <1>4, ScanTypes
  <2> QED BY <1>4, <2>1, <2>2, <2>3, <2>4, <2>5, <2>6, <2>7, <2>8, <2>9, <2>10,
      <2>11, <2>12, <2>13 DEF ServiceStep
<1> QED BY <1>1, <1>2, <1>3, <1>4 DEF ThreadStep

\* What a step of one thread means to another: nothing it works on changes, the
\* lock it holds stays, and only the holder of the lock changes standing.
LEMMA ThreadFrame ==
  ASSUME CeremonyInv, NEW t \in Threads, ThreadStep(t),
         NEW u \in Threads \ {t}
  PROVE  /\ pc'[u] = pc[u] /\ back'[u] = back[u] /\ job'[u] = job[u]
         /\ outer'[u] = outer[u] /\ live'[u] = live[u]
         /\ standingLock = u => standingLock' = u /\ changes' = changes
         /\ live[u] => answer' = answer
         /\ carrier' = carrier /\ carried' = carried
<1> USE DEF CeremonyInv, CeremonyTypes, Goto
<1> DEFINE Frame ==
         /\ pc'[u] = pc[u] /\ back'[u] = back[u] /\ job'[u] = job[u]
         /\ outer'[u] = outer[u] /\ live'[u] = live[u]
         /\ standingLock = u => standingLock' = u /\ changes' = changes
         /\ live[u] => answer' = answer
         /\ carrier' = carrier /\ carried' = carried
<1>1. CASE RecoverStep(t) /\ StandingOnly
  <2>1. CASE ListFacts(t)
    BY <2>1, <1>1, NoneDistinct DEF ListFacts, StandingOnly
  <2>2. CASE ListChanges(t)
    BY <2>2, <1>1, NoneDistinct DEF ListChanges, StandingOnly
  <2>3. CASE Forget(t)
    BY <2>3, <1>1, NoneDistinct DEF Forget, StandingOnly
  <2>4. CASE Remember(t)
    BY <2>4, <1>1, NoneDistinct DEF Remember, StandingOnly
  <2> QED BY <1>1, <2>1, <2>2, <2>3, <2>4 DEF RecoverStep
<1>2. CASE DepositStep(t) /\ StandingOnly
  <2>1. ASSUME NEW p \in Packages, Deposit(t, p)
        PROVE  Frame
    BY <2>1, <1>2, NoneDistinct DEF Deposit, Refresh, StandingOnly
  <2>2. CASE Verify(t)
    BY <2>2, <1>2, NoneDistinct DEF Verify, StandingOnly
  <2>3. CASE LockRelationship(t)
    BY <2>3, <1>2, NoneDistinct DEF LockRelationship, Refresh, StandingOnly
  <2>4. CASE Confirm(t)
    BY <2>4, <1>2, NoneDistinct DEF Confirm, StandingOnly
  <2>5. CASE RefuseDeposit(t)
    BY <2>5, <1>2, NoneDistinct DEF RefuseDeposit, EndDeposit, Release,
        StandingOnly
  <2>6. CASE Accept(t)
    BY <2>6, <1>2, NoneDistinct DEF Accept, EndDeposit, Release, StandingOnly
  <2>7. CASE FindAcceptance(t)
    BY <2>7, <1>2, NoneDistinct DEF FindAcceptance, EndDeposit, Release,
        StandingOnly
  <2>8. CASE AcceptUnproven(t)
    BY <2>8, <1>2, NoneDistinct DEF AcceptUnproven, EndDeposit, Release,
        StandingOnly
  <2>9. ASSUME NEW p \in Packages, DepositUnproven(t, p)
        PROVE  Frame
    BY <2>9, <1>2, NoneDistinct DEF DepositUnproven, StandingOnly
  <2> QED BY <1>2, <2>1, <2>2, <2>3, <2>4, <2>5, <2>6, <2>7, <2>8, <2>9
      DEF DepositStep
<1>3. CASE ChangeStep(t) /\ StandingOnly
  <2>1. CASE LockStanding(t)
    BY <2>1, <1>3, NoneDistinct DEF LockStanding, Refresh, StandingOnly
  <2>2. CASE TakeSlot(t)
    BY <2>2, <1>3, NoneDistinct DEF TakeSlot, MayChange, StandingOnly
  <2>3. CASE PublishChange(t)
    BY <2>3, <1>3, NoneDistinct DEF PublishChange, StandingOnly, ThreadInv,
        StandingInv, At, Locked, RecoverLabels
  <2>4. CASE Activate(t)
    BY <2>4, <1>3, NoneDistinct DEF Activate, Release, StandingOnly
  <2> QED BY <1>3, <2>1, <2>2, <2>3, <2>4 DEF ChangeStep
<1>4. CASE ServiceStep(t) /\ UNCHANGED <<originVars, carrierVars, crashes>>
  <2>1. CASE Receive(t)
    BY <2>1, <1>4, NoneDistinct DEF Receive, Reply, LiveUnique
  <2>2. CASE RefreshStanding(t)
    BY <2>2, <1>4, NoneDistinct DEF RefreshStanding, Refresh
  <2>3. CASE Judge(t)
    BY <2>3, <1>4, NoneDistinct DEF Judge, Reply, LiveUnique
  <2>4. CASE Hold(t)
    BY <2>4, <1>4, NoneDistinct DEF Hold
  <2>5. CASE IsHeld(t)
    BY <2>5, <1>4, NoneDistinct DEF IsHeld, Reply, LiveUnique
  <2>6. CASE Prepare(t)
    BY <2>6, <1>4, NoneDistinct DEF Prepare
  <2>7. CASE ChangeRaises(t)
    BY <2>7, <1>4, NoneDistinct DEF ChangeRaises, Release, Reply, MayChange,
        LiveUnique
  <2>8. CASE Count(t)
    BY <2>8, <1>4, NoneDistinct DEF Count
  <2>9. CASE WriteResult(t)
    BY <2>9, <1>4, NoneDistinct DEF WriteResult
  <2>10. CASE ForgetPending(t)
    BY <2>10, <1>4, NoneDistinct DEF ForgetPending, Reply, LiveUnique
  <2>11. CASE Drain(t)
    BY <2>11, <1>4, NoneDistinct DEF Drain
  <2>12. CASE EndDrain(t)
    BY <2>12, <1>4, NoneDistinct DEF EndDrain, Reply, LiveUnique
  <2>13. ASSUME NEW c \in Ceremonies, Scan(t, c)
        PROVE  Frame
    BY <2>13, <1>4, NoneDistinct DEF Scan, Reply, LiveUnique
  <2> QED BY <1>4, <2>1, <2>2, <2>3, <2>4, <2>5, <2>6, <2>7, <2>8, <2>9, <2>10,
      <2>11, <2>12, <2>13 DEF ServiceStep
<1> QED BY <1>1, <1>2, <1>3, <1>4 DEF ThreadStep

\* A step of a thread keeps what the thread relies on.
LEMMA OwnInv ==
  ASSUME CeremonyInv, Next, NEW t \in Threads, ThreadStep(t)
  PROVE  ThreadInv(t)'
<1> USE DEF CeremonyInv, CeremonyTypes, ThreadInv, StandingInv, DrainInv,
          LiveInv, At, AtCeremony, Locked, Applied, Goto, Labels,
          RecoverLabels,
        DepositLabels, ServiceLabels, ChangeLabels, Causes
<1>1. CASE RecoverStep(t) /\ StandingOnly
  <2>1. CASE ListFacts(t)
    BY <2>1, <1>1, NoneDistinct DEF ListFacts, StandingOnly
  <2>2. CASE ListChanges(t)
    BY <2>2, <1>1, NoneDistinct DEF ListChanges, StandingOnly
  <2>3. CASE Forget(t)
    BY <2>3, <1>1, NoneDistinct DEF Forget, StandingOnly
  <2>4. CASE Remember(t)
    BY <2>4, <1>1, NoneDistinct DEF Remember, StandingOnly
  <2> QED BY <1>1, <2>1, <2>2, <2>3, <2>4 DEF RecoverStep
<1>2. CASE DepositStep(t) /\ StandingOnly
  <2>1. ASSUME NEW p \in Packages, Deposit(t, p)
        PROVE  ThreadInv(t)'
    BY <2>1, <1>2, NoneDistinct DEF Deposit, Refresh, StandingOnly
  <2>2. CASE Verify(t)
    BY <2>2, <1>2, NoneDistinct DEF Verify, StandingOnly
  <2>3. CASE LockRelationship(t)
    BY <2>3, <1>2, NoneDistinct DEF LockRelationship, Refresh, StandingOnly
  <2>4. CASE Confirm(t)
    BY <2>4, <1>2, NoneDistinct DEF Confirm, StandingOnly
  <2>5. CASE RefuseDeposit(t)
    BY <2>5, <1>2, NoneDistinct DEF RefuseDeposit, EndDeposit, Release,
        StandingOnly
  <2>6. CASE Accept(t)
    BY <2>6, <1>2, NoneDistinct DEF Accept, EndDeposit, Release, StandingOnly
  <2>7. CASE FindAcceptance(t)
    BY <2>7, <1>2, NoneDistinct DEF FindAcceptance, EndDeposit, Release,
        StandingOnly
  <2>8. CASE AcceptUnproven(t)
    BY <2>8, <1>2, NoneDistinct DEF AcceptUnproven, EndDeposit, Release,
        StandingOnly
  <2>9. ASSUME NEW p \in Packages, DepositUnproven(t, p)
        PROVE  ThreadInv(t)'
    BY <2>9, <1>2, NoneDistinct DEF DepositUnproven, StandingOnly
  <2> QED BY <1>2, <2>1, <2>2, <2>3, <2>4, <2>5, <2>6, <2>7, <2>8, <2>9
      DEF DepositStep
<1>3. CASE ChangeStep(t) /\ StandingOnly
  <2>1. CASE LockStanding(t)
    BY <2>1, <1>3, NoneDistinct DEF LockStanding, Refresh, StandingOnly
  <2>2. CASE TakeSlot(t)
    BY <2>2, <1>3, NoneDistinct DEF TakeSlot, MayChange, StandingOnly
  <2>3. CASE PublishChange(t)
    BY <2>3, <1>3, NoneDistinct, CeremonyTyping DEF PublishChange,
        StandingOnly
  <2>4. CASE Activate(t)
    BY <2>4, <1>3, NoneDistinct DEF Activate, Release, StandingOnly
  <2> QED BY <1>3, <2>1, <2>2, <2>3, <2>4 DEF ChangeStep
<1>4. CASE ServiceStep(t) /\ UNCHANGED <<originVars, carrierVars, crashes>>
  <2>1. CASE Receive(t)
    BY <2>1, <1>4, NoneDistinct DEF Receive, Reply, ResultInv
  <2>2. CASE RefreshStanding(t)
    BY <2>2, <1>4, NoneDistinct DEF RefreshStanding, Refresh
  <2>3. CASE Judge(t)
    BY <2>3, <1>4, NoneDistinct DEF Judge, Reply
  <2>4. CASE Hold(t)
    BY <2>4, <1>4, NoneDistinct DEF Hold
  <2>5. CASE IsHeld(t)
    BY <2>5, <1>4, NoneDistinct DEF IsHeld, Reply
  <2>6. CASE Prepare(t)
    BY <2>6, <1>4, NoneDistinct DEF Prepare
  <2>7. CASE ChangeRaises(t)
    BY <2>7, <1>4, NoneDistinct DEF ChangeRaises, Release, Reply, MayChange
  <2>8. CASE Count(t)
    BY <2>8, <1>4, NoneDistinct DEF Count
  <2>9. CASE WriteResult(t)
    BY <2>9, <1>4, NoneDistinct DEF WriteResult
  <2>10. CASE ForgetPending(t)
    BY <2>10, <1>4, NoneDistinct DEF ForgetPending, Reply
  <2>11. CASE Drain(t)
    BY <2>11, <1>4, NoneDistinct DEF Drain
  <2>12. CASE EndDrain(t)
    BY <2>12, <1>4, NoneDistinct DEF EndDrain, Reply
  <2>13. ASSUME NEW c \in Ceremonies, Scan(t, c)
        PROVE  ThreadInv(t)'
    BY <2>13, <1>4, NoneDistinct DEF Scan, Reply
  <2> QED BY <1>4, <2>1, <2>2, <2>3, <2>4, <2>5, <2>6, <2>7, <2>8, <2>9, <2>10,
      <2>11, <2>12, <2>13 DEF ServiceStep
<1> QED BY <1>1, <1>2, <1>3, <1>4 DEF ThreadStep

\* A thread hangs up by itself only.
LEMMA ThreadLive ==
  ASSUME CeremonyInv, NEW t \in Threads, ThreadStep(t),
         NEW u \in Threads, live'[u]
  PROVE  live[u]
<1>1. CASE u # t
  BY <1>1, ThreadFrame
<1>2. CASE u = t
  BY <1>2 DEF ThreadStep, StandingOnly, ServiceStep, Receive, RefreshStanding,
      Judge, Hold, IsHeld, Prepare, ChangeRaises, Count, WriteResult,
      ForgetPending, Drain, EndDrain, Scan, Reply, CeremonyInv, CeremonyTypes
<1> QED BY <1>1, <1>2

\* A live thread is the one that answers, and it answers APPLIED only for a
\* ceremony that has changed standing.
LEMMA ThreadAnswers ==
  ASSUME CeremonyInv, NEW t \in Threads, ThreadStep(t), answer' # answer
  PROVE  /\ live[t]
         /\ answer' = "APPLIED" => carried \in Ceremonies /\ Causes(carried)
<1> USE DEF CeremonyInv, CeremonyTypes, ThreadInv, StandingInv, DrainInv,
        LiveInv, At, Applied, AtCeremony, ServiceLabels, ChangeLabels,
        RecoverLabels
<1>1. PICK state \in Answers :
         /\ Reply(t, state)
         /\ state = "APPLIED" /\ outer[t] = None => Causes(job[t])
  BY DEF ThreadStep, StandingOnly, ServiceStep, Receive, RefreshStanding,
      Judge, Hold, IsHeld, Prepare, ChangeRaises, Count, WriteResult,
      ForgetPending, Drain, EndDrain, Scan, Answers, ResultInv
<1> QED BY <1>1 DEF Reply

\* A result is written by the thread that caused it, or found to have.
LEMMA NewResults ==
  ASSUME CeremonyInv, NEW t \in Threads, ThreadStep(t),
         NEW c \in (results' \cup receipts') \ (results \cup receipts)
  PROVE  c = job[t] /\ ((Receive(t) /\ Causes(c)) \/ WriteResult(t))
BY DEF ThreadStep, StandingOnly, ServiceStep, Receive, RefreshStanding,
    Judge, Hold, IsHeld, Prepare, ChangeRaises, Count, WriteResult,
    ForgetPending, Drain, EndDrain, Scan, Reply

\* So do another process, the origin and a crash.
LEMMA OtherTypes ==
  ASSUME CeremonyInv,
         AdministratorStep \/ OriginStep \/ RecipientCrashes \/ OriginCrashes
  PROVE  CeremonyTypes'
<1> USE DEF CeremonyInv, CeremonyTypes
<1>1. CASE AdministratorStep
  <2>1. PICK i \in Local : Administer(i) /\ StandingOnly
    BY <1>1 DEF AdministratorStep
  <2>2. [successor |-> i, cause |-> None] \in Change
    BY StandingConstants DEF Change
  <2> QED BY <2>1, <2>2 DEF Administer, StandingOnly
<1>2. CASE OriginStep
  <2>1. CASE ReceiveAnswer
    BY <2>1 DEF ReceiveAnswer, CarrierLabels, Answers
  <2>2. CASE GiveUp
    BY <2>2 DEF GiveUp, HangUp, CarrierLabels
  <2>3. CASE PutBack
    BY <2>3 DEF PutBack, CarrierLabels
  <2>4. CASE RetainResult
    BY <2>4 DEF RetainResult, CarrierLabels, AnswerInv
  <2>5. CASE Learn
    BY <2>5, CeremonyTyping DEF Learn, KnowledgeAfter, CarrierLabels,
        AnswerInv
  <2>6. CASE Drop
    BY <2>6 DEF Drop, CarrierLabels
  <2>7. CASE StartOrigin
    BY <2>7 DEF StartOrigin, CarrierLabels
  <2>8. CASE OriginStarted
    BY <2>8 DEF OriginStarted, CarrierLabels
  <2>9. ASSUME NEW c \in Ceremonies, Lodge(c)
        PROVE  CeremonyTypes'
    BY <2>9 DEF Lodge, CarrierLabels
  <2>10. ASSUME NEW c \in Ceremonies, Reapply(c)
        PROVE  CeremonyTypes'
    BY <2>10, CeremonyTyping DEF Reapply, KnowledgeAfter, CarrierLabels
  <2>11. ASSUME NEW c \in Ceremonies, NEW t \in Threads, Post(c, t)
        PROVE  CeremonyTypes'
    BY <2>11 DEF Post, Goto, CarrierLabels, Labels, ServiceLabels
  <2> QED BY <1>2, <2>1, <2>2, <2>3, <2>4, <2>5, <2>6, <2>7, <2>8, <2>9, <2>10, <2>11
      DEF OriginStep
<1>3. CASE RecipientCrashes
  BY <1>3 DEF RecipientCrashes, Labels
<1>4. CASE OriginCrashes
  BY <1>4 DEF OriginCrashes, CarrierLabels, HangUp
<1> QED BY <1>1, <1>2, <1>3, <1>4

\* A step of a thread keeps what every other thread relies on.
LEMMA OthersInv ==
  ASSUME CeremonyInv, Next, NEW t \in Threads, ThreadStep(t),
         NEW u \in Threads \ {t}
  PROVE  ThreadInv(u)'
<1>1. ThreadInv(u) /\ CeremonyTypes
  BY DEF CeremonyInv
<1>2. At(u)' = At(u)
  BY ThreadFrame DEF At
<1>3. StandingInv(u)'
  BY <1>1, <1>2, ThreadFrame, CausesStay DEF ThreadInv, StandingInv, At,
      Locked, Applied, AtCeremony, ServiceLabels, ChangeLabels, RecoverLabels
<1>4. DrainInv(u)'
  BY <1>1, <1>2, ThreadFrame, CausesStay DEF ThreadInv, DrainInv,
      CeremonyTypes
<1>5. LiveInv(u)'
  BY <1>1, <1>2, ThreadFrame DEF ThreadInv, LiveInv
<1> QED BY <1>3, <1>4, <1>5 DEF ThreadInv

\* Another process, the origin and a crash disturb no thread that goes on; a
\* posted ceremony is taken up by a thread that was ready.
LEMMA BystanderInv ==
  ASSUME CeremonyInv, Next, NEW u \in Threads,
         AdministratorStep \/ OriginStep \/ RecipientCrashes \/ OriginCrashes
  PROVE  ThreadInv(u)'
<1> USE DEF CeremonyInv, ThreadInv
<1>1. CASE AdministratorStep
  <2>1. PICK i \in Local : Administer(i) /\ StandingOnly
    BY <1>1 DEF AdministratorStep
  <2>2. At(u)' = At(u) /\ At(u) \notin Locked
    BY <2>1, NoneDistinct DEF Administer, At, StandingInv
  <2>3. StandingInv(u)'
    BY <2>1, <2>2, CausesStay DEF Administer, StandingInv, At, Locked,
        Applied, AtCeremony, ServiceLabels, ChangeLabels, RecoverLabels
  <2>4. DrainInv(u)' /\ LiveInv(u)'
    BY <2>1, <2>2, CausesStay DEF Administer, StandingOnly, DrainInv, LiveInv,
        CeremonyTypes
  <2> QED BY <2>3, <2>4
<1>2. ASSUME NEW c \in Ceremonies, NEW t \in Threads, Post(c, t)
      PROVE  ThreadInv(u)'
  <2>1. CASE u = t
    BY <1>2, <2>1 DEF Post, Goto, StandingInv, DrainInv, LiveInv, At, Locked,
        Applied, AtCeremony, ServiceLabels, ChangeLabels, RecoverLabels,
        CeremonyTypes, AnswerInv
  <2>2. CASE u # t
    <3>1. At(u)' = At(u)
      BY <1>2, <2>2 DEF Post, Goto, At, CeremonyTypes
    <3>2. StandingInv(u)' /\ DrainInv(u)'
      BY <1>2, <2>2, <3>1 DEF Post, Goto, StandingInv, DrainInv, Causes,
          CeremonyTypes
    <3>3. LiveInv(u)'
      BY <1>2, <2>2, <3>1 DEF Post, LiveInv, CeremonyTypes
    <3> QED BY <3>2, <3>3
  <2> QED BY <2>1, <2>2
<1>3. CASE OriginStep /\ ~\E c \in Ceremonies, t \in Threads : Post(c, t)
  <2>1. UNCHANGED <<pc, back, job, outer, standingLock, changes>>
    BY <1>3 DEF OriginStep, ReceiveAnswer, GiveUp, PutBack, RetainResult,
        Learn, Drop, StartOrigin, OriginStarted, Lodge, Reapply
  <2>2. LiveInv(u)'
    <3>1. CASE \E c \in Ceremonies : Lodge(c) \/ Reapply(c)
      BY <2>1, <3>1 DEF Lodge, Reapply, LiveInv, At
    <3>2. CASE GiveUp
      BY <3>2 DEF GiveUp, HangUp, LiveInv
    <3>3. CASE live' = live /\ (carrier # "wait" \/ answer # None)
      BY <3>3 DEF LiveInv
    <3> QED BY <1>3, <3>1, <3>2, <3>3 DEF OriginStep, ReceiveAnswer, PutBack,
            RetainResult, Learn, Drop, StartOrigin, OriginStarted
  <2> QED BY <2>1, <2>2 DEF StandingInv, DrainInv, At, Causes
<1>4. CASE RecipientCrashes
  BY <1>4 DEF RecipientCrashes, StandingInv, DrainInv, LiveInv, At, Locked,
      Applied, AtCeremony, ServiceLabels, ChangeLabels, RecoverLabels
<1>5. CASE OriginCrashes
  BY <1>5 DEF OriginCrashes, HangUp, StandingInv, DrainInv, LiveInv, At,
      Causes
<1> QED BY <1>1, <1>2, <1>3, <1>4, <1>5 DEF OriginStep

\* Only the change of a ceremony names a cause, and it does what was asked.
LEMMA ChangeInvStep ==
  ASSUME CeremonyInv, Next
  PROVE  ChangeInv'
<1> USE DEF CeremonyInv
<1>1. ASSUME NEW i \in Introductions, changes'[i] # changes[i], changes'[i] # None,
             changes'[i].cause # None
      PROVE  /\ Predecessor[changes'[i].cause] = i
             /\ changes'[i].successor = Successor[changes'[i].cause]
  <2>1. ASSUME NEW t \in Threads, PublishChange(t)
        PROVE  /\ Predecessor[changes'[i].cause] = i
               /\ changes'[i].successor = Successor[changes'[i].cause]
    BY <1>1, <2>1 DEF PublishChange, CeremonyTypes
  <2>2. ASSUME NEW j \in Local, Administer(j)
        PROVE  changes'[i].cause = None
    BY <1>1, <2>2 DEF Administer, CeremonyTypes
  <2> QED BY <1>1, <2>1, <2>2, ChangeWriters
<1> QED BY <1>1 DEF ChangeInv

\* A thread becomes live when nobody is.
LEMMA LiveUniqueStep ==
  ASSUME CeremonyInv, Next
  PROVE  LiveUnique'
<1> USE DEF CeremonyInv, CeremonyTypes, LiveUnique
<1>1. ASSUME NEW t \in Threads, ThreadStep(t)
      PROVE  \A u \in Threads : live'[u] => live[u]
  BY <1>1, ThreadLive
<1>2. ASSUME NEW c \in Ceremonies, NEW t \in Threads, Post(c, t)
      PROVE  LiveUnique'
  BY <1>2 DEF Post, ThreadInv, LiveInv
<1>3. CASE \/ AdministratorStep \/ RecipientCrashes \/ OriginCrashes
           \/ OriginStep /\ ~\E c \in Ceremonies, t \in Threads : Post(c, t)
  BY <1>3 DEF AdministratorStep, StandingOnly, RecipientCrashes,
      OriginCrashes, HangUp, OriginStep, ReceiveAnswer, GiveUp, PutBack,
      RetainResult, Learn, Drop, StartOrigin, OriginStarted, Lodge, Reapply
<1> QED BY <1>1, <1>2, <1>3 DEF Next

\* An answer is about the ceremony carried, and APPLIED only when that
\* ceremony has changed standing.
LEMMA AnswerInvStep ==
  ASSUME CeremonyInv, Next
  PROVE  AnswerInv'
<1> USE DEF CeremonyInv, AnswerInv
<1>1. \A c \in Ceremonies : Causes(c) => Causes(c)'
  BY CausesStay
<1>2. ASSUME NEW t \in Threads, ThreadStep(t)
      PROVE  AnswerInv'
  <2>1. UNCHANGED <<carrier, carried, lodged, receipts>>
    BY <1>2 DEF ThreadStep, StandingOnly
  <2>2. answer' # answer => carrier = "wait"
    BY <1>2, ThreadAnswers DEF ThreadInv, LiveInv
  <2>3. answer' = "APPLIED" => carried \in Ceremonies /\ Causes(carried)'
    BY <1>1, <1>2, <2>1, ThreadAnswers DEF Causes
  <2> QED BY <1>1, <2>1, <2>2, <2>3, NoneDistinct DEF Answers, Causes
<1>3. CASE AdministratorStep
  BY <1>1, <1>3 DEF AdministratorStep, StandingOnly, Causes
<1>4. CASE OriginStep
  <2>1. CASE ReceiveAnswer
    <3>1. answer \in Answers
      BY <2>1 DEF ReceiveAnswer, CeremonyTypes
    <3>2. /\ carrier' \in {"retain", "drop", "back"}
          /\ carrier' = "retain" => answer = "APPLIED"
      BY <2>1, <3>1 DEF ReceiveAnswer, Answers
    <3> QED BY <1>1, <2>1, <3>2, NoneDistinct DEF ReceiveAnswer, Answers,
            Causes
  <2>2. CASE GiveUp \/ PutBack \/ Drop \/ StartOrigin \/ OriginStarted
    BY <1>1, <2>2, NoneDistinct DEF GiveUp, HangUp, PutBack, Drop, StartOrigin,
        OriginStarted, Answers, Causes
  <2>3. CASE RetainResult
    BY <1>1, <2>3, NoneDistinct DEF RetainResult, Answers, Causes
  <2>4. CASE Learn
    BY <1>1, <2>4, NoneDistinct DEF Learn, Answers, Causes
  <2>5. ASSUME NEW c \in Ceremonies, Lodge(c) \/ Reapply(c)
        PROVE  AnswerInv'
    BY <1>1, <2>5 DEF Lodge, Reapply, Causes
  <2>6. ASSUME NEW c \in Ceremonies, NEW t \in Threads, Post(c, t)
        PROVE  AnswerInv'
    BY <1>1, <2>6, NoneDistinct DEF Post, Answers, Causes, CeremonyTypes
  <2> QED BY <1>4, <2>1, <2>2, <2>3, <2>4, <2>5, <2>6 DEF OriginStep
<1>5. CASE RecipientCrashes
  BY <1>1, <1>5 DEF RecipientCrashes, Causes
<1>6. CASE OriginCrashes
  BY <1>6, NoneDistinct DEF OriginCrashes, HangUp, Answers
<1> QED BY <1>2, <1>3, <1>4, <1>5, <1>6 DEF Next

\* A result is written, and retained, for a ceremony that changed standing.
LEMMA ResultInvStep ==
  ASSUME CeremonyInv, Next
  PROVE  ResultInv'
<1> USE DEF CeremonyInv
<1>1. ASSUME NEW c \in results' \cup receipts', c \notin results \cup receipts
      PROVE  c \in Ceremonies /\ Causes(c)
  <2>1. ASSUME NEW t \in Threads, ThreadStep(t)
        PROVE  c \in Ceremonies /\ Causes(c)
    <3>1. c = job[t] /\ ((Receive(t) /\ Causes(c)) \/ WriteResult(t))
      BY <1>1, <2>1, NewResults
    <3> QED BY <3>1 DEF Receive, WriteResult, ThreadInv, StandingInv, At,
            AtCeremony, Applied, ServiceLabels, RecoverLabels
  <2>2. CASE RetainResult
    BY <1>1, <2>2 DEF RetainResult, AnswerInv
  <2>3. CASE OriginStep /\ ~RetainResult
    BY <1>1, <2>3 DEF OriginStep, ReceiveAnswer, GiveUp, PutBack, Learn, Drop,
        StartOrigin, OriginStarted, Lodge, Reapply, Post
  <2>4. CASE AdministratorStep \/ RecipientCrashes \/ OriginCrashes
    BY <1>1, <2>4 DEF AdministratorStep, StandingOnly, RecipientCrashes,
        OriginCrashes
  <2> QED BY <2>1, <2>2, <2>3, <2>4 DEF Next
<1>2. results \cup receipts \subseteq Ceremonies
  BY DEF CeremonyTypes
<1> QED BY <1>1, <1>2, CausesStay DEF ResultInv

\* The origin learns from a result it has retained.
LEMMA LearntFrom ==
  ASSUME CeremonyInv, Next, outbound' # outbound
  PROVE  \E c \in Ceremonies : Causes(c) /\ outbound' = KnowledgeAfter(c)
<1> USE DEF CeremonyInv
<1>1. CASE Learn
  BY <1>1 DEF Learn, AnswerInv
<1>2. ASSUME NEW c \in Ceremonies, Reapply(c)
      PROVE  Causes(c) /\ outbound' = KnowledgeAfter(c)
  BY <1>2 DEF Reapply, ResultInv, CeremonyTypes
<1>3. CASE OriginStep /\ ~Learn /\ ~\E c \in Ceremonies : Reapply(c)
  BY <1>3 DEF OriginStep, ReceiveAnswer, GiveUp, PutBack, RetainResult, Drop,
      StartOrigin, OriginStarted, Lodge, Post
<1>4. CASE \/ AdministratorStep \/ RecipientCrashes \/ OriginCrashes
           \/ \E t \in Threads : ThreadStep(t)
  BY <1>4 DEF AdministratorStep, ThreadStep, StandingOnly, RecipientCrashes,
      OriginCrashes
<1> QED BY <1>1, <1>2, <1>3, <1>4 DEF Next

----------------------------------------------------------------------------
(* The theorems. *)

\* An empty store and its first Introduction satisfy the invariant.
LEMMA CeremonyInvInit == Init => CeremonyInv
<1> SUFFICES ASSUME Init PROVE CeremonyInv
  OBVIOUS
<1>1. CeremonyTypes /\ ChangeInv /\ LiveUnique
  BY StandingConstants DEF Init, CeremonyTypes, ChangeInv, LiveUnique, Labels,
      CarrierLabels
<1>2. AnswerInv /\ ResultInv
  BY NoneDistinct DEF Init, AnswerInv, ResultInv, Answers
<1>3. \A t \in Threads : ThreadInv(t)
  BY DEF Init, ThreadInv, StandingInv, DrainInv, LiveInv, At, RecoverLabels,
      Locked, Applied, AtCeremony, ServiceLabels, ChangeLabels
<1> QED BY <1>1, <1>2, <1>3 DEF CeremonyInv

\* Every step, and a stutter, keeps the invariant.
LEMMA CeremonyInvStep == CeremonyInv /\ [Next]_vars => CeremonyInv'
<1> SUFFICES ASSUME CeremonyInv, [Next]_vars PROVE CeremonyInv'
  OBVIOUS
<1>1. CASE Next
  <2>1. CeremonyTypes'
    BY <1>1, ThreadTypes, OtherTypes DEF Next
  <2>2. ChangeInv' /\ LiveUnique' /\ AnswerInv' /\ ResultInv'
    BY <1>1, ChangeInvStep, LiveUniqueStep, AnswerInvStep, ResultInvStep
  <2>3. \A u \in Threads : ThreadInv(u)'
    BY <1>1, OwnInv, OthersInv, BystanderInv DEF Next
  <2> QED BY <2>1, <2>2, <2>3 DEF CeremonyInv
<1>2. CASE UNCHANGED vars
  BY <1>2 DEF CeremonyInv, CeremonyTypes, ChangeInv, LiveUnique, AnswerInv,
      ResultInv, ThreadInv, StandingInv, DrainInv, LiveInv, At, Causes
<1> QED BY <1>1, <1>2

\* The request threads, the drains and the origin keep CeremonyInv, whatever
\* recover derives and however requests, answers and crashes fall.
THEOREM CeremonyInvariance == Spec => []CeremonyInv
BY CeremonyInvInit, CeremonyInvStep, PTL DEF Spec

\* A transition slot is filled once (introduction.py change): the lock covers
\* its test and its write, so no thread and no other process fills it again.
THEOREM NeverForks == Spec => StandingNeverForks
<1>1. CeremonyInv /\ [Next]_vars =>
        [\A i \in Introductions :
           changes[i] # None => changes'[i] = changes[i]]_vars
  BY ChangesGrow
<1> QED BY <1>1, CeremonyInvariance, PTL DEF Spec, StandingNeverForks

\* A result at the recipient, and a receipt at the origin, is about a change
\* that very ceremony caused (ceremony.py receive, retain_result).
THEOREM ResultsTrue == Spec => []ResultsAreTrue
<1>1. CeremonyInv => ResultsAreTrue
  BY DEF CeremonyInv, ResultInv, ResultsAreTrue, Causes
<1> QED BY <1>1, CeremonyInvariance, PTL

\* The outbound standing of the origin moves along the recipient's changes and
\* never back (ceremony.py _apply_result, recover_origin).
THEOREM NeverRewinds == Spec => OutboundNeverRewinds
<1>1. ASSUME CeremonyInv, Next, outbound' # outbound
      PROVE  /\ outbound # None
             /\ changes[outbound] # None
             /\ changes[outbound].successor = outbound'
  <2>1. PICK c \in Ceremonies : Causes(c) /\ outbound' = KnowledgeAfter(c)
    BY <1>1, LearntFrom
  <2>2. outbound = Predecessor[c] /\ outbound' = Successor[c]
    BY <1>1, <2>1 DEF KnowledgeAfter
  <2> QED BY <1>1, <2>1, <2>2, CeremonyTyping, NoneDistinct DEF CeremonyInv,
          ChangeInv, Causes
<1>2. CeremonyInv /\ [Next]_vars =>
        [outbound' # outbound => /\ outbound # None
                                 /\ changes[outbound] # None
                                 /\ changes[outbound].successor = outbound']_vars
  BY <1>1
<1> QED BY <1>2, CeremonyInvariance, PTL DEF Spec, OutboundNeverRewinds

----------------------------------------------------------------------------
(* Iteration, and the walk of recover. *)

Below == {pair \in Nat \X Nat : pair[1] < pair[2]}

LEMMA BelowWF == IsWellFoundedOn(Below, Nat)
BY NatLessThanWellFounded DEF OpToRel, Below

LEMMA BelowIsLess ==
  ASSUME NEW m \in Nat, NEW n \in Nat, <<n, m>> \notin Below
  PROVE  m <= n
<1>1. <<n, m>> \in Nat \X Nat
  OBVIOUS
<1>2. ~(n < m)
  BY <1>1 DEF Below
<1> QED
  BY <1>2

\* A set of numbers has a least one.
LEMMA NatMin ==
  ASSUME NEW T \in SUBSET Nat, T # {}
  PROVE  \E m \in T : \A n \in T : m <= n
<1>1. PICK m \in T : \A n \in T : ~(<<n, m>> \in Below)
  BY BelowWF, WFMin
<1>2. ASSUME NEW n \in T PROVE m <= n
  BY <1>1, BelowIsLess
<1> QED
  BY <1>2

\* Induction, about a set of numbers.
LEMMA Induction ==
  ASSUME NEW T, 0 \in T, \A n \in Nat : n \in T => n + 1 \in T
  PROVE  Nat \subseteq T
<1> SUFFICES ASSUME ~(Nat \subseteq T)
             PROVE  FALSE
  OBVIOUS
<1>1. PICK m \in Nat \ T : \A n \in Nat \ T : m <= n
  BY NatMin
<1>2. m # 0 /\ m - 1 \in Nat
  BY <1>1
<1>3. m - 1 \in T
  BY <1>1, <1>2
<1>4. (m - 1) + 1 \in T
  BY <1>2, <1>3
<1>5. (m - 1) + 1 = m
  BY <1>1
<1> QED
  BY <1>1, <1>4, <1>5

\* A function iterated N times, from a.
Orbit(M, X, a, step, N) ==
  /\ M \in [0 .. N -> X] /\ M[0] = a
  /\ \A n \in 0 .. N - 1 : M[n + 1] = step[M[n]]

LEMMA Iterate ==
  ASSUME NEW X, NEW a \in X, NEW step \in [X -> X], NEW N \in Nat
  PROVE  \E M : Orbit(M, X, a, step, N)
<1> DEFINE T == {n \in Nat : \E M : Orbit(M, X, a, step, n)}
<1>1. 0 \in T
  <2>1. Orbit([n \in 0 .. 0 |-> a], X, a, step, 0)
    BY DEF Orbit
  <2> QED
    BY <2>1
<1>2. ASSUME NEW n \in Nat, n \in T
      PROVE  n + 1 \in T
  <2>1. PICK M : Orbit(M, X, a, step, n)
    BY <1>2
  <2> DEFINE L == [k \in 0 .. n + 1 |-> IF k = n + 1 THEN step[M[n]] ELSE M[k]]
  <2>2. L \in [0 .. n + 1 -> X] /\ L[0] = a
    BY <2>1 DEF Orbit
  <2>3. \A k \in 0 .. n : L[k + 1] = step[L[k]]
    BY <2>1 DEF Orbit
  <2> HIDE DEF L
  <2>4. Orbit(L, X, a, step, n + 1)
    BY <2>2, <2>3 DEF Orbit
  <2> QED
    BY <2>4
<1> HIDE DEF T
<1>3. N \in T
  BY <1>1, <1>2, Induction
<1> QED
  BY <1>3 DEF T


\* What the walk meets next.
Onward(facts, i) ==
  IF i = None \/ changes[i] = None THEN i
  ELSE IF changes[i].successor \in facts THEN changes[i].successor ELSE None

\* The recursive function Walk exists, and is what its equation says.
LEMMA WalkUnfolds ==
  ASSUME changes \in [Introductions -> Change \cup {None}],
         NEW facts \in SUBSET Introductions
  PROVE  LET Met == Walk(facts)
             N   == Cardinality(Introductions)
         IN /\ N \in Nat /\ Met[0] = First
            /\ \A n \in 1 .. N : Met[n] = Onward(facts, Met[n - 1])
<1> DEFINE N == Cardinality(Introductions)
           X == Introductions \cup {None}
           step == [i \in X |-> Onward(facts, i)]
<1>1. N \in Nat /\ First \in X
  BY StandingConstants, FS_CardinalityType
<1>2. step \in [X -> X]
  BY DEF Onward
<1>3. PICK M : Orbit(M, X, First, step, N)
  <2> HIDE DEF X, step, N
  <2> QED
    BY <1>1, <1>2, Iterate
<1>4. \A n \in 0 .. N : n # 0 => M[n] = Onward(facts, M[n - 1])
  <2> SUFFICES ASSUME NEW n \in 0 .. N, n # 0
               PROVE  M[n] = Onward(facts, M[n - 1])
    OBVIOUS
  <2> HIDE DEF X, step, N
  <2>1. /\ n - 1 \in 0 .. N - 1 /\ (n - 1) + 1 = n
        /\ n - 1 \in 0 .. N
    BY <1>1
  <2>2. M[(n - 1) + 1] = step[M[n - 1]]
    BY <1>3, <2>1 DEF Orbit
  <2>3. M[n - 1] \in X
    BY <1>3, <2>1 DEF Orbit
  <2> QED
    BY <2>1, <2>2, <2>3 DEF step
<1>5. M = [n \in 0 .. N |-> IF n = 0 THEN First ELSE Onward(facts, M[n - 1])]
  <2> HIDE DEF N
  <2> QED
    BY <1>3, <1>4 DEF Orbit
<1>6. Walk(facts) =
        [n \in 0 .. N |->
           IF n = 0 THEN First ELSE Onward(facts, Walk(facts)[n - 1])]
  <2> HIDE DEF X, step
  <2> QED
    BY <1>5, Zenon DEF Walk, Onward
<1> HIDE DEF N
<1>7. Walk(facts)[0] = First
  BY <1>1, <1>6
<1>8. \A n \in 1 .. N : Walk(facts)[n] = Onward(facts, Walk(facts)[n - 1])
  BY <1>1, <1>6
<1> QED
  BY <1>1, <1>7, <1>8 DEF N

\* The first Introduction has been current, and what a change selects for one
\* that has.
LEMMA GenerationsClosed ==
  ASSUME changes \in [Introductions -> Change \cup {None}]
  PROVE  /\ First \in Generations /\ Generations \subseteq Introductions
         /\ \A i \in Generations : changes[i] # None =>
              changes[i].successor \in Generations \cup {None}
<1>1. First \in Generations /\ Generations \subseteq Introductions
  BY StandingConstants DEF Generations
<1>2. ASSUME NEW i \in Generations, changes[i] # None,
             changes[i].successor # None
      PROVE  changes[i].successor \in Generations
  <2>1. changes[i].successor \in Introductions
    BY <1>1, <1>2 DEF Change
  <2> SUFFICES ASSUME NEW G \in SUBSET Introductions, First \in G,
                      \A j \in G : changes[j] # None =>
                        changes[j].successor \in G \cup {None}
               PROVE  changes[i].successor \in G
    BY <2>1 DEF Generations
  <2>2. i \in G
    BY DEF Generations
  <2> QED
    BY <1>2, <2>2
<1> QED
  BY <1>1, <1>2

\* What recover derives has been current, whichever facts it listed.
LEMMA CurrentWasMet ==
  ASSUME changes \in [Introductions -> Change \cup {None}],
         NEW facts \in SUBSET Introductions
  PROVE  Current(facts) \in Generations \cup {None}
<1> DEFINE N == Cardinality(Introductions)
           Met == Walk(facts)
           G == Generations \cup {None}
           T == {n \in Nat : n <= N => Met[n] \in G}
<1>1. /\ N \in Nat /\ Met[0] = First
      /\ \A n \in 1 .. N : Met[n] = Onward(facts, Met[n - 1])
  BY WalkUnfolds
<1>2. \A i \in G : Onward(facts, i) \in G
  BY GenerationsClosed DEF Onward
<1> HIDE DEF N, Met, G
<1>3. 0 \in T
  BY <1>1, GenerationsClosed DEF G
<1>4. ASSUME NEW n \in Nat, n \in T
      PROVE  n + 1 \in T
  <2> SUFFICES ASSUME n + 1 <= N PROVE Met[n + 1] \in G
    OBVIOUS
  <2>1. n + 1 \in 1 .. N /\ (n + 1) - 1 = n /\ n <= N
    BY <1>1
  <2>2. Met[n + 1] = Onward(facts, Met[n])
    BY <1>1, <2>1
  <2> QED
    BY <1>2, <1>4, <2>1, <2>2
<1>5. N \in T
  <2> HIDE DEF T
  <2> QED
    BY <1>1, <1>3, <1>4, Induction
<1> QED
  BY <1>1, <1>5 DEF Current, N, Met, G

----------------------------------------------------------------------------
(* The memory of the Porter. *)

\* What the memory, a recover and a deposit hold has been current, and a change
\* is made to what has.
MemoryInv ==
  /\ introductions \subseteq Introductions
  /\ listed \in [Threads -> SUBSET Introductions]
  /\ accepted \in [Packages -> Generations \cup {Unproven, None}]
  /\ standing \in [Threads -> Generations \cup {None}]
  /\ found \in [Threads -> Generations \cup {None}]
  /\ active \in Generations \cup {None}
  /\ \A t \in Threads : pc[t] \in {"publish", "activate"} =>
       Predecessor[job[t]] \in Generations

\* What has been current once has been for good.
LEMMA GenerationsGrow ==
  ASSUME CeremonyInv, Next
  PROVE  Generations \subseteq Generations'
<1> SUFFICES ASSUME NEW i \in Generations, NEW G \in SUBSET Introductions,
                    First \in G,
                    \A j \in G : changes'[j] # None =>
                      changes'[j].successor \in G \cup {None}
             PROVE  i \in G
  BY DEF Generations
<1>1. \A j \in G : changes[j] # None => changes[j].successor \in G \cup {None}
  BY ChangesGrow
<1> QED
  BY <1>1 DEF Generations

LEMMA MemoryInvStep ==
  ASSUME CeremonyInv, MemoryInv, Next
  PROVE  MemoryInv'
<1> USE DEF MemoryInv, Goto
<1>0. /\ CeremonyTypes /\ CeremonyTypes' /\ ChangeInv
      /\ \A t \in Threads : StandingInv(t)
  BY CeremonyInvStep DEF CeremonyInv, ThreadInv
<1>1. Generations \subseteq Generations'
  BY GenerationsGrow
<1>2. ASSUME NEW t \in Threads, ThreadStep(t),
             \/ /\ UNCHANGED <<introductions, listed, found>>
                /\ accepted' \in [Packages -> Generations \cup {Unproven, None}]
                /\ standing' \in [Threads -> Generations \cup {None}]
                /\ active' \in Generations' \cup {None}
             \/ /\ UNCHANGED depositVars
                /\ introductions' \subseteq Introductions
                /\ listed' \in [Threads -> SUBSET Introductions]
                /\ found' \in [Threads -> Generations \cup {None}]
                /\ active' \in Generations \cup {None},
             pc'[t] \in {"publish", "activate"} =>
               Predecessor[job'[t]] \in Generations
      PROVE  MemoryInv'
  <2>1. \A u \in Threads \ {t} : pc'[u] = pc[u] /\ job'[u] = job[u]
    BY <1>2, ThreadFrame
  <2> QED
    BY <1>1, <1>2, <2>1
<1>3. ASSUME NEW t \in Threads, RecoverStep(t) /\ StandingOnly
      PROVE  MemoryInv'
  <2>1. CASE ListFacts(t)
    BY <1>0, <1>2, <1>3, <2>1 DEF ThreadStep, ListFacts, CeremonyTypes
  <2>2. CASE ListChanges(t)
    <3>1. Current(listed[t]) \in Generations \cup {None}
      BY <1>0, CurrentWasMet DEF CeremonyTypes
    <3> QED
      BY <1>0, <1>2, <1>3, <2>2, <3>1 DEF ThreadStep, ListChanges,
         CeremonyTypes
  <2>3. CASE Forget(t)
    BY <1>0, <1>2, <1>3, <2>3 DEF ThreadStep, Forget, CeremonyTypes
  <2>4. CASE Remember(t)
    <3>1. back[t] \in {"verify", "confirm", "judge", "slot"}
      BY <1>0, <2>4 DEF StandingInv, Remember, RecoverLabels
    <3> QED
      BY <1>0, <1>2, <1>3, <2>4, <3>1 DEF ThreadStep, Remember, CeremonyTypes
  <2> QED
    BY <1>3, <2>1, <2>2, <2>3, <2>4 DEF RecoverStep
<1>4. ASSUME NEW t \in Threads, DepositStep(t) /\ StandingOnly
      PROVE  MemoryInv'
  <2>1. /\ UNCHANGED <<introductions, listed, found, active>>
        /\ accepted' \in [Packages -> Generations \cup {Unproven, None}]
        /\ standing' \in [Threads -> Generations \cup {None}]
    BY <1>4 DEF DepositStep, Deposit, DepositUnproven, Verify, LockRelationship,
       Confirm, RefuseDeposit, FindAcceptance, Accept, AcceptUnproven,
       EndDeposit
  <2>2. pc'[t] \notin {"publish", "activate"}
    BY <1>0, <1>4 DEF DepositStep, Deposit, DepositUnproven, Verify,
       LockRelationship, Confirm, RefuseDeposit, FindAcceptance, Accept,
       AcceptUnproven, EndDeposit, Refresh, CeremonyTypes
  <2> QED
    BY <1>1, <1>2, <1>4, <2>1, <2>2 DEF ThreadStep
<1>5. ASSUME NEW t \in Threads, ChangeStep(t) /\ StandingOnly
      PROVE  MemoryInv'
  <2>1. CASE LockStanding(t)
    BY <1>0, <1>1, <1>2, <1>5, <2>1 DEF ThreadStep, LockStanding, Refresh,
       CeremonyTypes
  <2>2. CASE TakeSlot(t)
    <3>1. Predecessor[job[t]] \in Introductions
      BY <1>0, <2>2, CeremonyTyping DEF TakeSlot, StandingInv, At, AtCeremony,
         RecoverLabels, ChangeLabels
    <3>2. Predecessor[job[t]] \in Generations
      BY <2>2, <3>1, NoneDistinct DEF TakeSlot, MayChange
    <3> QED
      BY <1>0, <1>1, <1>2, <1>5, <2>2, <3>2 DEF ThreadStep, TakeSlot,
         CeremonyTypes
  <2>3. CASE PublishChange(t)
    BY <1>0, <1>1, <1>2, <1>5, <2>3 DEF ThreadStep, PublishChange,
       CeremonyTypes
  <2>4. CASE Activate(t)
    <3>1. /\ job[t] \in Ceremonies /\ Causes(job[t])
          /\ Predecessor[job[t]] \in Generations
      BY <1>0, <2>4 DEF Activate, StandingInv, At, AtCeremony, Applied,
         RecoverLabels, ChangeLabels
    <3>2. changes[Predecessor[job[t]]].successor = Successor[job[t]]
      BY <1>0, <3>1, NoneDistinct, CeremonyTyping DEF ChangeInv, Causes
    <3>3. Successor[job[t]] \in Generations \cup {None}
      BY <1>0, <3>1, <3>2, GenerationsClosed DEF Causes, CeremonyTypes
    <3> QED
      BY <1>0, <1>1, <1>2, <1>5, <2>4, <3>3 DEF ThreadStep, Activate,
         CeremonyTypes
  <2> QED
    BY <1>5, <2>1, <2>2, <2>3, <2>4 DEF ChangeStep
<1>6. ASSUME NEW t \in Threads,
             ServiceStep(t) /\ UNCHANGED <<originVars, carrierVars, crashes>>
      PROVE  MemoryInv'
  <2>1. UNCHANGED <<depositVars, listed, found, active>>
    BY <1>6 DEF ServiceStep, Receive, RefreshStanding, Judge, Hold, IsHeld,
       Prepare, ChangeRaises, Count, WriteResult, ForgetPending, Drain,
       EndDrain, Scan
  <2>2. introductions' \subseteq Introductions
    <3>1. CASE Prepare(t)
      <4>1. job[t] \in Ceremonies
        BY <1>0, <3>1 DEF Prepare, StandingInv, At, AtCeremony, RecoverLabels,
           ServiceLabels
      <4> QED
        BY <3>1, <4>1, CeremonyTyping DEF Prepare
    <3>2. CASE ~Prepare(t)
      BY <1>6, <3>2 DEF ServiceStep, Receive, RefreshStanding, Judge, Hold,
         IsHeld, ChangeRaises, Count, WriteResult, ForgetPending, Drain,
         EndDrain, Scan
    <3> QED
      BY <3>1, <3>2
  <2>3. pc'[t] \notin {"publish", "activate"}
    <3>1. CASE RefreshStanding(t) \/ Receive(t) \/ Judge(t) \/ IsHeld(t)
      BY <1>0, <3>1 DEF RefreshStanding, Refresh, Receive, Judge, IsHeld,
         Reply, CeremonyTypes
    <3>2. CASE ChangeRaises(t) \/ ForgetPending(t) \/ EndDrain(t)
      BY <1>0, <3>2 DEF ChangeRaises, ForgetPending, EndDrain, Reply,
         CeremonyTypes
    <3>3. CASE Hold(t) \/ Prepare(t) \/ Count(t) \/ WriteResult(t) \/ Drain(t)
      BY <1>0, <3>3 DEF Hold, Prepare, Count, WriteResult, Drain, CeremonyTypes
    <3>4. ASSUME NEW c \in Ceremonies, Scan(t, c)
          PROVE  pc'[t] \notin {"publish", "activate"}
      BY <1>0, <3>4 DEF Scan, Reply, CeremonyTypes
    <3> QED
      BY <1>6, <3>1, <3>2, <3>3, <3>4 DEF ServiceStep
  <2> QED
    BY <1>2, <1>6, <2>1, <2>2, <2>3 DEF ThreadStep
<1>7. CASE AdministratorStep
  <2>1. PICK i \in Local : Administer(i)
    BY <1>7 DEF AdministratorStep
  <2> QED
    BY <1>1, <2>1, StandingConstants DEF Administer
<1>8. CASE OriginStep
  <2>1. /\ UNCHANGED <<introductions, depositVars, listed, found, active>>
        /\ \A t \in Threads : pc'[t] \in {"publish", "activate"} =>
             pc'[t] = pc[t] /\ job'[t] = job[t]
    BY <1>0, <1>8 DEF OriginStep, ReceiveAnswer, GiveUp, PutBack, RetainResult,
       Learn, Drop, StartOrigin, OriginStarted, Lodge, Reapply, Post,
       CeremonyTypes
  <2> QED
    BY <1>1, <2>1
<1>9. CASE RecipientCrashes
  <2>1. Current(introductions) \in Generations \cup {None}
    BY <1>0, CurrentWasMet DEF CeremonyTypes
  <2> QED
    BY <1>1, <1>9, <2>1 DEF RecipientCrashes
<1>10. CASE OriginCrashes
  BY <1>1, <1>10 DEF OriginCrashes
<1> QED
  BY <1>3, <1>4, <1>5, <1>6, <1>7, <1>8, <1>9, <1>10 DEF Next, ThreadStep

\* No candidate is current, for the Porter or for an AC, before a change selects
\* it: however recover, change, crashes and another process interleave
\* (introduction.py recover, prepare, change, authorize).
THEOREM InertCandidates == Spec => []CandidatesAreInert
<1>1. Init => MemoryInv
  <2> SUFFICES ASSUME Init PROVE MemoryInv
    OBVIOUS
  <2>1. First \in Generations
    BY StandingConstants DEF Generations
  <2> QED
    BY <2>1, StandingConstants DEF Init, MemoryInv
<1>2. CeremonyInv /\ MemoryInv /\ [Next]_vars => MemoryInv'
  <2>1. ASSUME MemoryInv, UNCHANGED vars
        PROVE  MemoryInv'
    <3>1. Generations' = Generations
      BY <2>1 DEF Generations
    <3> QED
      BY <2>1, <3>1 DEF MemoryInv
  <2> QED
    BY <2>1, MemoryInvStep
<1>3. MemoryInv => CandidatesAreInert
  BY DEF MemoryInv, CandidatesAreInert
<1> QED
  BY <1>1, <1>2, <1>3, CeremonyInvariance, PTL DEF Spec
=============================================================================
