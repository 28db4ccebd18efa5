--------------------------- MODULE AllowanceProofs ---------------------------
(***************************************************************************)
(* The account of a sender is kept and its allowance holds for any number  *)
(* of threads, Packages, Introductions and deaths of the Porter.           *)
(***************************************************************************)
EXTENDS Allowance, FiniteSetTheorems, WellFoundedInduction, TLAPS

LEMMA InitAccount == Init => AccountInv
<1> SUFFICES ASSUME Init PROVE AccountInv
  OBVIOUS
<1> USE StandingConstants, AllowanceConstants, CountingLabels
<1>1. AllowanceTypeOK
  BY DEF Init, AllowanceTypeOK, Counting
<1>2. Accepted = {} /\ BeingCounted = {}
  BY DEF Init, Accepted, BeingCounted
<1>3. HolderInv
  BY DEF Init, HolderInv, Rebuilding, Admitting
<1>4. CounterInv
  BY <1>2 DEF Init, CounterInv, Responsible, Uncollected, Counting
<1>5. RoomInv
  BY DEF Init, RoomInv
<1> QED
  BY <1>1, <1>3, <1>4, <1>5 DEF AccountInv

\* Every step keeps the types.
LEMMA TypeStep ==
  ASSUME AllowanceTypeOK, HolderInv, [Next]_vars
  PROVE  AllowanceTypeOK'
<1> USE StandingConstants, AllowanceConstants, CountingLabels
<1>1. ASSUME NEW t \in Threads, RecountStep(t)
      PROVE  AllowanceTypeOK'
  <2>1. CASE ListCollected(t)
    BY <2>1
       DEF ListCollected, Goto, AllowanceTypeOK, HolderInv, Accepted,
           Uncollected, Counting, Rebuilding, Admitting, vars, standingVars,
           factVars, depositVars, recoveryVars, counterVars, recountVars,
           historyVars
  <2>2. CASE ListAcceptances(t)
    BY <2>2
       DEF ListAcceptances, Goto, AllowanceTypeOK, HolderInv, Accepted,
           Uncollected, Counting, Rebuilding, Admitting, vars, standingVars,
           factVars, depositVars, recoveryVars, counterVars, recountVars,
           historyVars
  <2>3. CASE ReplaceCounter(t)
    BY <2>3
       DEF ReplaceCounter, Goto, AllowanceTypeOK, HolderInv, Accepted,
           Uncollected, Counting, Rebuilding, Admitting, vars, standingVars,
           factVars, depositVars, recoveryVars, counterVars, recountVars,
           historyVars
  <2> QED
    BY <1>1, <2>1, <2>2, <2>3 DEF RecountStep
<1>2. ASSUME NEW t \in Threads, recount[t] = None, StandingStep(t)
      PROVE  AllowanceTypeOK'
  <2>1. ASSUME NEW p \in Packages, Deposit(t, p)
        PROVE  AllowanceTypeOK'
    BY <1>2, <2>1
       DEF Deposit, Refresh, StandingStep, CountersUnchanged, Goto,
           AllowanceTypeOK, HolderInv, Accepted, Uncollected, Counting,
           Rebuilding, Admitting, vars, standingVars, factVars, depositVars,
           recoveryVars, counterVars, recountVars, historyVars
  <2>2. CASE Verify(t)
    BY <1>2, <2>2
       DEF Verify, StandingStep, CountersUnchanged, Goto, AllowanceTypeOK,
           HolderInv, Accepted, Uncollected, Counting, Rebuilding, Admitting,
           vars, standingVars, factVars, depositVars, recoveryVars,
           counterVars, recountVars, historyVars
  <2>3. CASE LockRelationship(t)
    BY <1>2, <2>3
       DEF LockRelationship, Refresh, StandingStep, CountersUnchanged, Goto,
           AllowanceTypeOK, HolderInv, Accepted, Uncollected, Counting,
           Rebuilding, Admitting, vars, standingVars, factVars, depositVars,
           recoveryVars, counterVars, recountVars, historyVars
  <2>4. CASE Confirm(t)
    BY <1>2, <2>4
       DEF Confirm, StandingStep, CountersUnchanged, Goto, AllowanceTypeOK,
           HolderInv, Accepted, Uncollected, Counting, Rebuilding, Admitting,
           vars, standingVars, factVars, depositVars, recoveryVars,
           counterVars, recountVars, historyVars
  <2>5. CASE RefuseDeposit(t)
    BY <1>2, <2>5
       DEF RefuseDeposit, EndDeposit, Release, StandingStep, CountersUnchanged,
           Goto, AllowanceTypeOK, HolderInv, Accepted, Uncollected, Counting,
           Rebuilding, Admitting, vars, standingVars, factVars, depositVars,
           recoveryVars, counterVars, recountVars, historyVars
  <2>6. CASE ListFacts(t)
    BY <1>2, <2>6
       DEF ListFacts, StandingStep, CountersUnchanged, Goto, AllowanceTypeOK,
           HolderInv, Accepted, Uncollected, Counting, Rebuilding, Admitting,
           vars, standingVars, factVars, depositVars, recoveryVars,
           counterVars, recountVars, historyVars
  <2>7. CASE ListChanges(t)
    BY <1>2, <2>7
       DEF ListChanges, StandingStep, CountersUnchanged, Goto, AllowanceTypeOK,
           HolderInv, Accepted, Uncollected, Counting, Rebuilding, Admitting,
           vars, standingVars, factVars, depositVars, recoveryVars,
           counterVars, recountVars, historyVars
  <2>8. CASE Forget(t)
    BY <1>2, <2>8
       DEF Forget, StandingStep, CountersUnchanged, Goto, AllowanceTypeOK,
           HolderInv, Accepted, Uncollected, Counting, Rebuilding, Admitting,
           vars, standingVars, factVars, depositVars, recoveryVars,
           counterVars, recountVars, historyVars
  <2>9. ASSUME NEW p \in Packages, DepositUnproven(t, p)
        PROVE  AllowanceTypeOK'
    BY <1>2, <2>9
       DEF DepositUnproven, StandingStep, CountersUnchanged, Goto,
           AllowanceTypeOK, HolderInv, Accepted, Uncollected, Counting,
           Rebuilding, Admitting, vars, standingVars, factVars,
           depositVars, recoveryVars, counterVars, recountVars,
           historyVars
  <2> QED
    BY <1>2, <2>1, <2>2, <2>3, <2>4, <2>5, <2>6, <2>7, <2>8, <2>9 DEF
       StandingStep
<1>3. ASSUME NEW t \in Threads, recount[t] = None, AuthorizeStep(t)
      PROVE  AllowanceTypeOK'
  <2>1. CASE TakeCounter(t)
    <3>1. /\ pc' \in [Threads -> {"ready", "allow", "admit"} \cup {pc[u] : u \in Threads}]
          /\ job' \in [Threads -> Packages \cup {None}]
          /\ standing' \in [Threads -> Introductions \cup {None}]
      BY <2>1
         DEF TakeCounter, EndAuthorize, EndDeposit, Goto, AllowanceTypeOK,
             depositVars
    <3>2. UNCHANGED <<accepted, associated, raised, recount, unseen, back>>
      BY <2>1
         DEF TakeCounter, EndAuthorize, EndDeposit, recoveryVars, recountVars,
             historyVars
    <3>3. /\ counter' \subseteq Packages /\ taken' \subseteq Packages
          /\ replaced' \in BOOLEAN /\ missed' \subseteq Packages
          /\ tally' \in [Threads -> SUBSET Packages]
      BY <2>1
         DEF TakeCounter, AllowanceTypeOK, counterVars, recountVars,
             historyVars
    <3> QED
      BY <3>1, <3>2, <3>3 DEF AllowanceTypeOK, Admitting
  <2>2. CASE Allow(t)
    BY <1>3, <2>2
       DEF Allow, Goto, AllowanceTypeOK, HolderInv, Accepted, Uncollected,
           Counting, Rebuilding, Admitting, vars, standingVars, factVars,
           depositVars, recoveryVars, counterVars, recountVars, historyVars
  <2>3. CASE ListOutstanding(t)
    BY <1>3, <2>3
       DEF ListOutstanding, Goto, AllowanceTypeOK, HolderInv, Accepted,
           Uncollected, Counting, Rebuilding, Admitting, vars, standingVars,
           factVars, depositVars, recoveryVars, counterVars, recountVars,
           historyVars
  <2>4. ASSUME NEW p \in Packages, LookForAssociation(t, p)
        PROVE  AllowanceTypeOK'
    BY <1>3, <2>4
       DEF LookForAssociation, Goto, AllowanceTypeOK, HolderInv, Accepted,
           Uncollected, Counting, Rebuilding, Admitting, vars, standingVars,
           factVars, depositVars, recoveryVars, counterVars, recountVars,
           historyVars
  <2>5. CASE Reconcile(t)
    <3>1. /\ pc' \in [Threads -> {"ready", "allow", "admit"} \cup {pc[u] : u \in Threads}]
          /\ job' \in [Threads -> Packages \cup {None}]
          /\ standing' \in [Threads -> Introductions \cup {None}]
      BY <2>5
         DEF Reconcile, EndAuthorize, EndDeposit, Goto, AllowanceTypeOK,
             depositVars
    <3>2. UNCHANGED <<accepted, associated, raised, recount, unseen, back>>
      BY <2>5
         DEF Reconcile, EndAuthorize, EndDeposit, recoveryVars, recountVars,
             historyVars
    <3>3. /\ counter' \subseteq Packages /\ taken' \subseteq Packages
          /\ replaced' \in BOOLEAN /\ missed' \subseteq Packages
          /\ tally' \in [Threads -> SUBSET Packages]
      BY <2>5
         DEF Reconcile, AllowanceTypeOK, counterVars, recountVars, historyVars
    <3> QED
      BY <3>1, <3>2, <3>3 DEF AllowanceTypeOK, Admitting
  <2>6. CASE WriteAcceptance(t)
    BY <1>3, <2>6
       DEF WriteAcceptance, Goto, AllowanceTypeOK, HolderInv, Accepted,
           Uncollected, Counting, Rebuilding, Admitting, vars, standingVars,
           factVars, depositVars, recoveryVars, counterVars, recountVars,
           historyVars
  <2>7. CASE Increment(t)
    BY <1>3, <2>7
       DEF Increment, EndAuthorize, EndDeposit, Release, Goto, AllowanceTypeOK,
           HolderInv, Accepted, Uncollected, Counting, Rebuilding, Admitting,
           vars, standingVars, factVars, depositVars, recoveryVars,
           counterVars, recountVars, historyVars
  <2>8. CASE AcceptRaises(t)
    BY <1>3, <2>8
       DEF AcceptRaises, EndAuthorize, EndDeposit, Release, Goto,
           AllowanceTypeOK, HolderInv, Accepted, Uncollected, Counting,
           Rebuilding, Admitting, vars, standingVars, factVars, depositVars,
           recoveryVars, counterVars, recountVars, historyVars
  <2>9. CASE FindAdmitted(t)
    BY <1>3, <2>9
       DEF FindAdmitted, Goto, AllowanceTypeOK, HolderInv, Accepted,
           Uncollected, Counting, Rebuilding, Admitting, vars,
           standingVars, factVars, depositVars, recoveryVars,
           counterVars, recountVars, historyVars
  <2>10. CASE AdmitUnproven(t)
    BY <1>3, <2>10
       DEF AdmitUnproven, AcceptUnproven, EndDeposit, Release, Goto,
           AllowanceTypeOK, HolderInv, Accepted, Uncollected, Counting,
           Rebuilding, Admitting, vars, standingVars, factVars,
           depositVars, recoveryVars, counterVars, recountVars,
           historyVars
  <2> QED
    BY <1>3, <2>1, <2>2, <2>3, <2>4, <2>5, <2>6, <2>7, <2>8, <2>9, <2>10
       DEF AuthorizeStep
<1>4. ASSUME NEW t \in Threads, recount[t] = None, Rebuild(t)
      PROVE  AllowanceTypeOK'
  BY <1>4
     DEF Rebuild, Remember, Goto, AllowanceTypeOK, HolderInv, Accepted,
         Uncollected, Counting, Rebuilding, Admitting, vars, standingVars,
         factVars, depositVars, recoveryVars, counterVars, recountVars,
         historyVars
<1>5. ASSUME NEW p \in Packages, Associate(p)
      PROVE  AllowanceTypeOK'
  BY <1>5
     DEF Associate, Goto, AllowanceTypeOK, HolderInv, Accepted, Uncollected,
         Counting, Rebuilding, Admitting, vars, standingVars, factVars,
         depositVars, recoveryVars, counterVars, recountVars, historyVars
<1>6. CASE AdministratorStep
  BY <1>6
     DEF AdministratorStep, Administer, CountersUnchanged, Goto,
         AllowanceTypeOK, HolderInv, Accepted, Uncollected, Counting,
         Rebuilding, Admitting, vars, standingVars, factVars, depositVars,
         recoveryVars, counterVars, recountVars, historyVars
<1>7. CASE PorterCrashes
  BY <1>7
     DEF PorterCrashes, Goto, AllowanceTypeOK, HolderInv, Accepted,
         Uncollected, Counting, Rebuilding, Admitting, vars, standingVars,
         factVars, depositVars, recoveryVars, counterVars, recountVars,
         historyVars
<1>8. CASE UNCHANGED vars
  BY <1>8
     DEF AllowanceTypeOK, HolderInv, Accepted, Uncollected, Counting,
         Rebuilding, Admitting, vars, standingVars, factVars, depositVars,
         recoveryVars, counterVars, recountVars, historyVars
<1> QED
  BY <1>1, <1>2, <1>3, <1>4, <1>5, <1>6, <1>7, <1>8 DEF Next, ThreadStep

\* Every step keeps who holds the lock and where a thread is.
LEMMA HolderStep ==
  ASSUME AllowanceTypeOK, HolderInv, [Next]_vars, AllowanceTypeOK'
  PROVE  HolderInv'
<1> USE StandingConstants, AllowanceConstants, CountingLabels
<1>1. ASSUME NEW t \in Threads, RecountStep(t)
      PROVE  HolderInv'
  <2>1. CASE ListCollected(t)
    BY <2>1
       DEF ListCollected, Goto, AllowanceTypeOK, HolderInv, Accepted, Counting,
           Rebuilding, Admitting, vars, standingVars, factVars, depositVars,
           recoveryVars, counterVars, recountVars, historyVars
  <2>2. CASE ListAcceptances(t)
    BY <2>2
       DEF ListAcceptances, Goto, AllowanceTypeOK, HolderInv, Accepted,
           Counting, Rebuilding, Admitting, vars, standingVars, factVars,
           depositVars, recoveryVars, counterVars, recountVars, historyVars
  <2>3. CASE ReplaceCounter(t)
    BY <2>3
       DEF ReplaceCounter, Goto, AllowanceTypeOK, HolderInv, Accepted,
           Counting, Rebuilding, Admitting, vars, standingVars, factVars,
           depositVars, recoveryVars, counterVars, recountVars, historyVars
  <2> QED
    BY <1>1, <2>1, <2>2, <2>3 DEF RecountStep
<1>2. ASSUME NEW t \in Threads, recount[t] = None, StandingStep(t)
      PROVE  HolderInv'
  <2>1. ASSUME NEW p \in Packages, Deposit(t, p)
        PROVE  HolderInv'
    BY <1>2, <2>1
       DEF Deposit, Refresh, StandingStep, CountersUnchanged, Goto,
           AllowanceTypeOK, HolderInv, Accepted, Counting, Rebuilding,
           Admitting, vars, standingVars, factVars, depositVars, recoveryVars,
           counterVars, recountVars, historyVars
  <2>2. CASE Verify(t)
    BY <1>2, <2>2
       DEF Verify, StandingStep, CountersUnchanged, Goto, AllowanceTypeOK,
           HolderInv, Accepted, Counting, Rebuilding, Admitting, vars,
           standingVars, factVars, depositVars, recoveryVars, counterVars,
           recountVars, historyVars
  <2>3. CASE LockRelationship(t)
    BY <1>2, <2>3
       DEF LockRelationship, Refresh, StandingStep, CountersUnchanged, Goto,
           AllowanceTypeOK, HolderInv, Accepted, Counting, Rebuilding,
           Admitting, vars, standingVars, factVars, depositVars, recoveryVars,
           counterVars, recountVars, historyVars
  <2>4. CASE Confirm(t)
    BY <1>2, <2>4
       DEF Confirm, StandingStep, CountersUnchanged, Goto, AllowanceTypeOK,
           HolderInv, Accepted, Counting, Rebuilding, Admitting, vars,
           standingVars, factVars, depositVars, recoveryVars, counterVars,
           recountVars, historyVars
  <2>5. CASE RefuseDeposit(t)
    BY <1>2, <2>5
       DEF RefuseDeposit, EndDeposit, Release, StandingStep, CountersUnchanged,
           Goto, AllowanceTypeOK, HolderInv, Accepted, Counting, Rebuilding,
           Admitting, vars, standingVars, factVars, depositVars, recoveryVars,
           counterVars, recountVars, historyVars
  <2>6. CASE ListFacts(t)
    BY <1>2, <2>6
       DEF ListFacts, StandingStep, CountersUnchanged, Goto, AllowanceTypeOK,
           HolderInv, Accepted, Counting, Rebuilding, Admitting, vars,
           standingVars, factVars, depositVars, recoveryVars, counterVars,
           recountVars, historyVars
  <2>7. CASE ListChanges(t)
    BY <1>2, <2>7
       DEF ListChanges, StandingStep, CountersUnchanged, Goto, AllowanceTypeOK,
           HolderInv, Accepted, Counting, Rebuilding, Admitting, vars,
           standingVars, factVars, depositVars, recoveryVars, counterVars,
           recountVars, historyVars
  <2>8. CASE Forget(t)
    BY <1>2, <2>8
       DEF Forget, StandingStep, CountersUnchanged, Goto, AllowanceTypeOK,
           HolderInv, Accepted, Counting, Rebuilding, Admitting, vars,
           standingVars, factVars, depositVars, recoveryVars, counterVars,
           recountVars, historyVars
  <2>9. ASSUME NEW p \in Packages, DepositUnproven(t, p)
        PROVE  HolderInv'
    BY <1>2, <2>9
       DEF DepositUnproven, StandingStep, CountersUnchanged, Goto,
           AllowanceTypeOK, HolderInv, Accepted, Counting, Rebuilding,
           Admitting, vars, standingVars, factVars, depositVars,
           recoveryVars, counterVars, recountVars, historyVars
  <2> QED
    BY <1>2, <2>1, <2>2, <2>3, <2>4, <2>5, <2>6, <2>7, <2>8, <2>9 DEF
       StandingStep
<1>3. ASSUME NEW t \in Threads, recount[t] = None, AuthorizeStep(t)
      PROVE  HolderInv'
  <2>1. CASE TakeCounter(t)
    BY <1>3, <2>1
       DEF TakeCounter, EndAuthorize, EndDeposit, Release, Goto,
           AllowanceTypeOK, HolderInv, Accepted, Counting, Rebuilding,
           Admitting, vars, standingVars, factVars, depositVars, recoveryVars,
           counterVars, recountVars, historyVars
  <2>2. CASE Allow(t)
    BY <1>3, <2>2
       DEF Allow, Goto, AllowanceTypeOK, HolderInv, Accepted, Counting,
           Rebuilding, Admitting, vars, standingVars, factVars, depositVars,
           recoveryVars, counterVars, recountVars, historyVars
  <2>3. CASE ListOutstanding(t)
    BY <1>3, <2>3
       DEF ListOutstanding, Goto, AllowanceTypeOK, HolderInv, Accepted,
           Counting, Rebuilding, Admitting, vars, standingVars, factVars,
           depositVars, recoveryVars, counterVars, recountVars, historyVars
  <2>4. ASSUME NEW p \in Packages, LookForAssociation(t, p)
        PROVE  HolderInv'
    BY <1>3, <2>4
       DEF LookForAssociation, Goto, AllowanceTypeOK, HolderInv, Accepted,
           Counting, Rebuilding, Admitting, vars, standingVars, factVars,
           depositVars, recoveryVars, counterVars, recountVars, historyVars
  <2>5. CASE Reconcile(t)
    BY <1>3, <2>5
       DEF Reconcile, EndAuthorize, EndDeposit, Release, Goto, AllowanceTypeOK,
           HolderInv, Accepted, Counting, Rebuilding, Admitting, vars,
           standingVars, factVars, depositVars, recoveryVars, counterVars,
           recountVars, historyVars
  <2>6. CASE WriteAcceptance(t)
    BY <1>3, <2>6
       DEF WriteAcceptance, Goto, AllowanceTypeOK, HolderInv, Accepted,
           Counting, Rebuilding, Admitting, vars, standingVars, factVars,
           depositVars, recoveryVars, counterVars, recountVars, historyVars
  <2>7. CASE Increment(t)
    BY <1>3, <2>7
       DEF Increment, EndAuthorize, EndDeposit, Release, Goto, AllowanceTypeOK,
           HolderInv, Accepted, Counting, Rebuilding, Admitting, vars,
           standingVars, factVars, depositVars, recoveryVars, counterVars,
           recountVars, historyVars
  <2>8. CASE AcceptRaises(t)
    BY <1>3, <2>8
       DEF AcceptRaises, EndAuthorize, EndDeposit, Release, Goto,
           AllowanceTypeOK, HolderInv, Accepted, Counting, Rebuilding,
           Admitting, vars, standingVars, factVars, depositVars, recoveryVars,
           counterVars, recountVars, historyVars
  <2>9. CASE FindAdmitted(t)
    BY <1>3, <2>9
       DEF FindAdmitted, Goto, AllowanceTypeOK, HolderInv, Accepted,
           Counting, Rebuilding, Admitting, vars, standingVars,
           factVars, depositVars, recoveryVars, counterVars,
           recountVars, historyVars
  <2>10. CASE AdmitUnproven(t)
    BY <1>3, <2>10
       DEF AdmitUnproven, AcceptUnproven, EndDeposit, Release, Goto,
           AllowanceTypeOK, HolderInv, Accepted, Counting, Rebuilding,
           Admitting, vars, standingVars, factVars, depositVars,
           recoveryVars, counterVars, recountVars, historyVars
  <2> QED
    BY <1>3, <2>1, <2>2, <2>3, <2>4, <2>5, <2>6, <2>7, <2>8, <2>9, <2>10
       DEF AuthorizeStep
<1>4. ASSUME NEW t \in Threads, recount[t] = None, Rebuild(t)
      PROVE  HolderInv'
  BY <1>4
     DEF Rebuild, Remember, Goto, AllowanceTypeOK, HolderInv, Accepted,
         Counting, Rebuilding, Admitting, vars, standingVars, factVars,
         depositVars, recoveryVars, counterVars, recountVars, historyVars
<1>5. ASSUME NEW p \in Packages, Associate(p)
      PROVE  HolderInv'
  BY <1>5
     DEF Associate, Goto, AllowanceTypeOK, HolderInv, Accepted, Counting,
         Rebuilding, Admitting, vars, standingVars, factVars, depositVars,
         recoveryVars, counterVars, recountVars, historyVars
<1>6. CASE AdministratorStep
  BY <1>6
     DEF AdministratorStep, Administer, CountersUnchanged, Goto,
         AllowanceTypeOK, HolderInv, Accepted, Counting, Rebuilding, Admitting,
         vars, standingVars, factVars, depositVars, recoveryVars, counterVars,
         recountVars, historyVars
<1>7. CASE PorterCrashes
  BY <1>7
     DEF PorterCrashes, Goto, AllowanceTypeOK, HolderInv, Accepted, Counting,
         Rebuilding, Admitting, vars, standingVars, factVars, depositVars,
         recoveryVars, counterVars, recountVars, historyVars
<1>8. CASE UNCHANGED vars
  BY <1>8
     DEF AllowanceTypeOK, HolderInv, Accepted, Counting, Rebuilding, Admitting,
         vars, standingVars, factVars, depositVars, recoveryVars, counterVars,
         recountVars, historyVars
<1> QED
  BY <1>1, <1>2, <1>3, <1>4, <1>5, <1>6, <1>7, <1>8 DEF Next, ThreadStep

\* Every step keeps what the counters count.
LEMMA CounterStep ==
  ASSUME AllowanceTypeOK, HolderInv, CounterInv, [Next]_vars,
         AllowanceTypeOK', HolderInv'
  PROVE  CounterInv'
<1> USE StandingConstants, AllowanceConstants, CountingLabels
<1>1. ASSUME NEW t \in Threads, RecountStep(t)
      PROVE  CounterInv'
  <2>1. CASE ListCollected(t)
    BY <2>1
       DEF ListCollected, Goto, AllowanceTypeOK, HolderInv, CounterInv,
           Accepted, Uncollected, Responsible, BeingCounted, Counted,
           Overlooked, Counting, Rebuilding, Admitting, vars, standingVars,
           factVars, depositVars, recoveryVars, counterVars, recountVars,
           historyVars
  <2>2. CASE ListAcceptances(t)
    BY <2>2
       DEF ListAcceptances, Goto, AllowanceTypeOK, HolderInv, CounterInv,
           Accepted, Uncollected, Responsible, BeingCounted, Counted,
           Overlooked, Counting, Rebuilding, Admitting, vars, standingVars,
           factVars, depositVars, recoveryVars, counterVars, recountVars,
           historyVars
  <2>3. CASE ReplaceCounter(t)
    BY <2>3
       DEF ReplaceCounter, Goto, AllowanceTypeOK, HolderInv, CounterInv,
           Accepted, Uncollected, Responsible, BeingCounted, Counted,
           Overlooked, Counting, Rebuilding, Admitting, vars, standingVars,
           factVars, depositVars, recoveryVars, counterVars, recountVars,
           historyVars
  <2> QED
    BY <1>1, <2>1, <2>2, <2>3 DEF RecountStep
<1>2. ASSUME NEW t \in Threads, recount[t] = None, StandingStep(t)
      PROVE  CounterInv'
  <2>1. ASSUME NEW p \in Packages, Deposit(t, p)
        PROVE  CounterInv'
    BY <1>2, <2>1
       DEF Deposit, Refresh, StandingStep, CountersUnchanged, Goto,
           AllowanceTypeOK, HolderInv, CounterInv, Accepted, Uncollected,
           Responsible, BeingCounted, Counted, Overlooked, Counting,
           Rebuilding, Admitting, vars, standingVars, factVars, depositVars,
           recoveryVars, counterVars, recountVars, historyVars
  <2>2. CASE Verify(t)
    BY <1>2, <2>2
       DEF Verify, StandingStep, CountersUnchanged, Goto, AllowanceTypeOK,
           HolderInv, CounterInv, Accepted, Uncollected, Responsible,
           BeingCounted, Counted, Overlooked, Counting, Rebuilding, Admitting,
           vars, standingVars, factVars, depositVars, recoveryVars,
           counterVars, recountVars, historyVars
  <2>3. CASE LockRelationship(t)
    BY <1>2, <2>3
       DEF LockRelationship, Refresh, StandingStep, CountersUnchanged, Goto,
           AllowanceTypeOK, HolderInv, CounterInv, Accepted, Uncollected,
           Responsible, BeingCounted, Counted, Overlooked, Counting,
           Rebuilding, Admitting, vars, standingVars, factVars, depositVars,
           recoveryVars, counterVars, recountVars, historyVars
  <2>4. CASE Confirm(t)
    BY <1>2, <2>4
       DEF Confirm, StandingStep, CountersUnchanged, Goto, AllowanceTypeOK,
           HolderInv, CounterInv, Accepted, Uncollected, Responsible,
           BeingCounted, Counted, Overlooked, Counting, Rebuilding, Admitting,
           vars, standingVars, factVars, depositVars, recoveryVars,
           counterVars, recountVars, historyVars
  <2>5. CASE RefuseDeposit(t)
    BY <1>2, <2>5
       DEF RefuseDeposit, EndDeposit, Release, StandingStep, CountersUnchanged,
           Goto, AllowanceTypeOK, HolderInv, CounterInv, Accepted, Uncollected,
           Responsible, BeingCounted, Counted, Overlooked, Counting,
           Rebuilding, Admitting, vars, standingVars, factVars, depositVars,
           recoveryVars, counterVars, recountVars, historyVars
  <2>6. CASE ListFacts(t)
    BY <1>2, <2>6
       DEF ListFacts, StandingStep, CountersUnchanged, Goto, AllowanceTypeOK,
           HolderInv, CounterInv, Accepted, Uncollected, Responsible,
           BeingCounted, Counted, Overlooked, Counting, Rebuilding, Admitting,
           vars, standingVars, factVars, depositVars, recoveryVars,
           counterVars, recountVars, historyVars
  <2>7. CASE ListChanges(t)
    BY <1>2, <2>7
       DEF ListChanges, StandingStep, CountersUnchanged, Goto, AllowanceTypeOK,
           HolderInv, CounterInv, Accepted, Uncollected, Responsible,
           BeingCounted, Counted, Overlooked, Counting, Rebuilding, Admitting,
           vars, standingVars, factVars, depositVars, recoveryVars,
           counterVars, recountVars, historyVars
  <2>8. CASE Forget(t)
    BY <1>2, <2>8
       DEF Forget, StandingStep, CountersUnchanged, Goto, AllowanceTypeOK,
           HolderInv, CounterInv, Accepted, Uncollected, Responsible,
           BeingCounted, Counted, Overlooked, Counting, Rebuilding, Admitting,
           vars, standingVars, factVars, depositVars, recoveryVars,
           counterVars, recountVars, historyVars
  <2>9. ASSUME NEW p \in Packages, DepositUnproven(t, p)
        PROVE  CounterInv'
    BY <1>2, <2>9
       DEF DepositUnproven, StandingStep, CountersUnchanged, Goto,
           AllowanceTypeOK, HolderInv, CounterInv, Accepted,
           Uncollected, Responsible, BeingCounted, Counted, Overlooked,
           Counting, Rebuilding, Admitting, vars, standingVars,
           factVars, depositVars, recoveryVars, counterVars,
           recountVars, historyVars
  <2> QED
    BY <1>2, <2>1, <2>2, <2>3, <2>4, <2>5, <2>6, <2>7, <2>8, <2>9 DEF
       StandingStep
<1>3. ASSUME NEW t \in Threads, recount[t] = None, AuthorizeStep(t)
      PROVE  CounterInv'
  <2>1. CASE TakeCounter(t)
    BY <1>3, <2>1
       DEF TakeCounter, EndAuthorize, EndDeposit, Release, Goto,
           AllowanceTypeOK, HolderInv, CounterInv, Accepted, Uncollected,
           Responsible, BeingCounted, Counted, Overlooked, Counting,
           Rebuilding, Admitting, vars, standingVars, factVars, depositVars,
           recoveryVars, counterVars, recountVars, historyVars
  <2>2. CASE Allow(t)
    BY <1>3, <2>2
       DEF Allow, Goto, AllowanceTypeOK, HolderInv, CounterInv, Accepted,
           Uncollected, Responsible, BeingCounted, Counted, Overlooked,
           Counting, Rebuilding, Admitting, vars, standingVars, factVars,
           depositVars, recoveryVars, counterVars, recountVars, historyVars
  <2>3. CASE ListOutstanding(t)
    BY <1>3, <2>3
       DEF ListOutstanding, Goto, AllowanceTypeOK, HolderInv, CounterInv,
           Accepted, Uncollected, Responsible, BeingCounted, Counted,
           Overlooked, Counting, Rebuilding, Admitting, vars, standingVars,
           factVars, depositVars, recoveryVars, counterVars, recountVars,
           historyVars
  <2>4. ASSUME NEW p \in Packages, LookForAssociation(t, p)
        PROVE  CounterInv'
    BY <1>3, <2>4
       DEF LookForAssociation, Goto, AllowanceTypeOK, HolderInv, CounterInv,
           Accepted, Uncollected, Responsible, BeingCounted, Counted,
           Overlooked, Counting, Rebuilding, Admitting, vars, standingVars,
           factVars, depositVars, recoveryVars, counterVars, recountVars,
           historyVars
  <2>5. CASE Reconcile(t)
    BY <1>3, <2>5
       DEF Reconcile, EndAuthorize, EndDeposit, Release, Goto, AllowanceTypeOK,
           HolderInv, CounterInv, Accepted, Uncollected, Responsible,
           BeingCounted, Counted, Overlooked, Counting, Rebuilding, Admitting,
           vars, standingVars, factVars, depositVars, recoveryVars,
           counterVars, recountVars, historyVars
  <2>6. CASE WriteAcceptance(t)
    BY <1>3, <2>6
       DEF WriteAcceptance, Goto, AllowanceTypeOK, HolderInv, CounterInv,
           Accepted, Uncollected, Responsible, BeingCounted, Counted,
           Overlooked, Counting, Rebuilding, Admitting, vars, standingVars,
           factVars, depositVars, recoveryVars, counterVars, recountVars,
           historyVars
  <2>7. CASE Increment(t)
    BY <1>3, <2>7
       DEF Increment, EndAuthorize, EndDeposit, Release, Goto, AllowanceTypeOK,
           HolderInv, CounterInv, Accepted, Uncollected, Responsible,
           BeingCounted, Counted, Overlooked, Counting, Rebuilding, Admitting,
           vars, standingVars, factVars, depositVars, recoveryVars,
           counterVars, recountVars, historyVars
  <2>8. CASE AcceptRaises(t)
    BY <1>3, <2>8
       DEF AcceptRaises, EndAuthorize, EndDeposit, Release, Goto,
           AllowanceTypeOK, HolderInv, CounterInv, Accepted, Uncollected,
           Responsible, BeingCounted, Counted, Overlooked, Counting,
           Rebuilding, Admitting, vars, standingVars, factVars, depositVars,
           recoveryVars, counterVars, recountVars, historyVars
  <2>9. CASE FindAdmitted(t)
    BY <1>3, <2>9
       DEF FindAdmitted, Goto, AllowanceTypeOK, HolderInv, CounterInv,
           Accepted, Uncollected, Responsible, BeingCounted, Counted,
           Overlooked, Counting, Rebuilding, Admitting, vars,
           standingVars, factVars, depositVars, recoveryVars,
           counterVars, recountVars, historyVars
  <2>10. CASE AdmitUnproven(t)
    BY <1>3, <2>10
       DEF AdmitUnproven, AcceptUnproven, EndDeposit, Release, Goto,
           AllowanceTypeOK, HolderInv, CounterInv, Accepted,
           Uncollected, Responsible, BeingCounted, Counted, Overlooked,
           Counting, Rebuilding, Admitting, vars, standingVars,
           factVars, depositVars, recoveryVars, counterVars,
           recountVars, historyVars
  <2> QED
    BY <1>3, <2>1, <2>2, <2>3, <2>4, <2>5, <2>6, <2>7, <2>8, <2>9, <2>10
       DEF AuthorizeStep
<1>4. ASSUME NEW t \in Threads, recount[t] = None, Rebuild(t)
      PROVE  CounterInv'
  BY <1>4
     DEF Rebuild, Remember, Goto, AllowanceTypeOK, HolderInv, CounterInv,
         Accepted, Uncollected, Responsible, BeingCounted, Counted, Overlooked,
         Counting, Rebuilding, Admitting, vars, standingVars, factVars,
         depositVars, recoveryVars, counterVars, recountVars, historyVars
<1>5. ASSUME NEW p \in Packages, Associate(p)
      PROVE  CounterInv'
  BY <1>5
     DEF Associate, Goto, AllowanceTypeOK, HolderInv, CounterInv, Accepted,
         Uncollected, Responsible, BeingCounted, Counted, Overlooked, Counting,
         Rebuilding, Admitting, vars, standingVars, factVars, depositVars,
         recoveryVars, counterVars, recountVars, historyVars
<1>6. CASE AdministratorStep
  BY <1>6
     DEF AdministratorStep, Administer, CountersUnchanged, Goto,
         AllowanceTypeOK, HolderInv, CounterInv, Accepted, Uncollected,
         Responsible, BeingCounted, Counted, Overlooked, Counting, Rebuilding,
         Admitting, vars, standingVars, factVars, depositVars, recoveryVars,
         counterVars, recountVars, historyVars
<1>7. CASE PorterCrashes
  BY <1>7
     DEF PorterCrashes, Goto, AllowanceTypeOK, HolderInv, CounterInv, Accepted,
         Uncollected, Responsible, BeingCounted, Counted, Overlooked, Counting,
         Rebuilding, Admitting, vars, standingVars, factVars, depositVars,
         recoveryVars, counterVars, recountVars, historyVars
<1>8. CASE UNCHANGED vars
  BY <1>8
     DEF AllowanceTypeOK, HolderInv, CounterInv, Accepted, Uncollected,
         Responsible, BeingCounted, Counted, Overlooked, Counting, Rebuilding,
         Admitting, vars, standingVars, factVars, depositVars, recoveryVars,
         counterVars, recountVars, historyVars
<1> QED
  BY <1>1, <1>2, <1>3, <1>4, <1>5, <1>6, <1>7, <1>8 DEF Next, ThreadStep


\* A set that is a part of a smaller one is smaller.
LEMMA Fewer ==
  ASSUME NEW S \in SUBSET Packages, NEW R \in SUBSET S, NEW n \in Nat,
         Cardinality(S) < n
  PROVE  Cardinality(R) < n
<1>1. IsFiniteSet(S)
  BY AllowanceConstants, FS_Subset
<1> QED
  BY <1>1, FS_Subset, FS_CardinalityType


\* Where nobody new is admitted and nothing more is to be answered for, room
\* remains.
LEMMA RoomFrame ==
  ASSUME AllowanceTypeOK, HolderInv, RoomInv, Responsible' \subseteq Responsible,
         \A u \in Threads : pc'[u] \in {"admit", "write"} =>
           pc[u] \in {"admit", "write"} /\ standing'[u] = standing[u]
  PROVE  RoomInv'
<1> SUFFICES ASSUME NEW u \in Threads, pc'[u] \in {"admit", "write"}
             PROVE  Cardinality(Responsible') < Outstanding[standing'[u]]
  BY DEF RoomInv
<1>1. /\ Cardinality(Responsible) < Outstanding[standing[u]]
      /\ Outstanding[standing[u]] \in Nat
  BY AllowanceConstants DEF RoomInv, HolderInv, Admitting
<1>2. Responsible \in SUBSET Packages
  BY DEF Responsible, Uncollected, Accepted
<1> QED
  BY <1>1, <1>2, Fewer

\* Every step keeps room for who is about to be admitted.
LEMMA RoomStep ==
  ASSUME AllowanceTypeOK, HolderInv, CounterInv, RoomInv, [Next]_vars
  PROVE  RoomInv'
<1> USE StandingConstants, AllowanceConstants, CountingLabels
<1>1. ASSUME NEW t \in Threads, RecountStep(t)
      PROVE  RoomInv'
  <2>1. CASE ListCollected(t)
    BY RoomFrame, <2>1
       DEF ListCollected, Goto, AllowanceTypeOK, HolderInv, Accepted,
           Uncollected, Responsible, Counting, Rebuilding, Admitting, vars,
           standingVars, factVars, depositVars, recoveryVars, counterVars,
           recountVars, historyVars
  <2>2. CASE ListAcceptances(t)
    BY RoomFrame, <2>2
       DEF ListAcceptances, Goto, AllowanceTypeOK, HolderInv, Accepted,
           Uncollected, Responsible, Counting, Rebuilding, Admitting, vars,
           standingVars, factVars, depositVars, recoveryVars, counterVars,
           recountVars, historyVars
  <2>3. CASE ReplaceCounter(t)
    BY RoomFrame, <2>3
       DEF ReplaceCounter, Goto, AllowanceTypeOK, HolderInv, Accepted,
           Uncollected, Responsible, Counting, Rebuilding, Admitting, vars,
           standingVars, factVars, depositVars, recoveryVars, counterVars,
           recountVars, historyVars
  <2> QED
    BY <1>1, <2>1, <2>2, <2>3 DEF RecountStep
<1>2. ASSUME NEW t \in Threads, recount[t] = None, StandingStep(t)
      PROVE  RoomInv'
  <2>1. ASSUME NEW p \in Packages, Deposit(t, p)
        PROVE  RoomInv'
    BY RoomFrame, <1>2, <2>1
       DEF Deposit, Refresh, StandingStep, CountersUnchanged, Goto,
           AllowanceTypeOK, HolderInv, Accepted, Uncollected, Responsible,
           Counting, Rebuilding, Admitting, vars, standingVars, factVars,
           depositVars, recoveryVars, counterVars, recountVars, historyVars
  <2>2. CASE Verify(t)
    BY RoomFrame, <1>2, <2>2
       DEF Verify, StandingStep, CountersUnchanged, Goto, AllowanceTypeOK,
           HolderInv, Accepted, Uncollected, Responsible, Counting, Rebuilding,
           Admitting, vars, standingVars, factVars, depositVars, recoveryVars,
           counterVars, recountVars, historyVars
  <2>3. CASE LockRelationship(t)
    BY RoomFrame, <1>2, <2>3
       DEF LockRelationship, Refresh, StandingStep, CountersUnchanged, Goto,
           AllowanceTypeOK, HolderInv, Accepted, Uncollected, Responsible,
           Counting, Rebuilding, Admitting, vars, standingVars, factVars,
           depositVars, recoveryVars, counterVars, recountVars, historyVars
  <2>4. CASE Confirm(t)
    BY RoomFrame, <1>2, <2>4
       DEF Confirm, StandingStep, CountersUnchanged, Goto, AllowanceTypeOK,
           HolderInv, Accepted, Uncollected, Responsible, Counting, Rebuilding,
           Admitting, vars, standingVars, factVars, depositVars, recoveryVars,
           counterVars, recountVars, historyVars
  <2>5. CASE RefuseDeposit(t)
    BY RoomFrame, <1>2, <2>5
       DEF RefuseDeposit, EndDeposit, Release, StandingStep, CountersUnchanged,
           Goto, AllowanceTypeOK, HolderInv, Accepted, Uncollected,
           Responsible, Counting, Rebuilding, Admitting, vars, standingVars,
           factVars, depositVars, recoveryVars, counterVars, recountVars,
           historyVars
  <2>6. CASE ListFacts(t)
    BY RoomFrame, <1>2, <2>6
       DEF ListFacts, StandingStep, CountersUnchanged, Goto, AllowanceTypeOK,
           HolderInv, Accepted, Uncollected, Responsible, Counting, Rebuilding,
           Admitting, vars, standingVars, factVars, depositVars, recoveryVars,
           counterVars, recountVars, historyVars
  <2>7. CASE ListChanges(t)
    BY RoomFrame, <1>2, <2>7
       DEF ListChanges, StandingStep, CountersUnchanged, Goto, AllowanceTypeOK,
           HolderInv, Accepted, Uncollected, Responsible, Counting, Rebuilding,
           Admitting, vars, standingVars, factVars, depositVars, recoveryVars,
           counterVars, recountVars, historyVars
  <2>8. CASE Forget(t)
    BY RoomFrame, <1>2, <2>8
       DEF Forget, StandingStep, CountersUnchanged, Goto, AllowanceTypeOK,
           HolderInv, Accepted, Uncollected, Responsible, Counting, Rebuilding,
           Admitting, vars, standingVars, factVars, depositVars, recoveryVars,
           counterVars, recountVars, historyVars
  <2>9. ASSUME NEW p \in Packages, DepositUnproven(t, p)
        PROVE  RoomInv'
    BY RoomFrame, <1>2, <2>9
       DEF DepositUnproven, StandingStep, CountersUnchanged, Goto,
           AllowanceTypeOK, HolderInv, Accepted, Uncollected,
           Responsible, Counting, Rebuilding, Admitting, vars,
           standingVars, factVars, depositVars, recoveryVars,
           counterVars, recountVars, historyVars
  <2> QED
    BY <1>2, <2>1, <2>2, <2>3, <2>4, <2>5, <2>6, <2>7, <2>8, <2>9 DEF
       StandingStep
<1>3. ASSUME NEW t \in Threads, recount[t] = None, AuthorizeStep(t)
      PROVE  RoomInv'
  <2>1. CASE TakeCounter(t)
    BY RoomFrame, <1>3, <2>1
       DEF TakeCounter, EndAuthorize, EndDeposit, Release, Goto,
           AllowanceTypeOK, HolderInv, Accepted, Uncollected, Responsible,
           Counting, Rebuilding, Admitting, vars, standingVars, factVars,
           depositVars, recoveryVars, counterVars, recountVars, historyVars
  <2>2. CASE Allow(t)
    <3>1. \A u \in Threads : pc'[u] \in {"admit", "write"} => u = t
      BY <2>2
         DEF Allow, EndAuthorize, EndDeposit, Goto, AllowanceTypeOK, HolderInv,
             Admitting
    <3>2. ASSUME pc'[t] \in {"admit", "write"}
          PROVE  Cardinality(Responsible') < Outstanding[standing'[t]]
      <4>1. Outstanding[standing[t]] \in Nat /\ standing'[t] = standing[t]
        BY <3>2, <2>2, AllowanceConstants
           DEF Allow, EndAuthorize, EndDeposit, Goto, AllowanceTypeOK,
               HolderInv, Admitting, depositVars
      <4>2. Cardinality(Counted) < Outstanding[standing[t]]
        <5>1. IsFiniteSet(Counted)
          BY AllowanceConstants, FS_Subset DEF AllowanceTypeOK, Counted
        <5>2. ~Exhausted(t, Counted)
          BY <3>2, <2>2
             DEF Allow, EndAuthorize, EndDeposit, Goto, AllowanceTypeOK
        <5> QED
          BY <4>1, <5>1, <5>2, FS_CardinalityType DEF Exhausted
      <4>3. Responsible' \subseteq Counted /\ Counted \in SUBSET Packages
        BY <1>3, <2>2
           DEF Allow, EndAuthorize, AllowanceTypeOK, CounterInv, Counted,
               Responsible, Uncollected, Accepted, depositVars, historyVars
      <4> QED
        BY <4>1, <4>2, <4>3, Fewer
    <3> QED
      BY <3>1, <3>2 DEF RoomInv
  <2>3. CASE ListOutstanding(t)
    BY RoomFrame, <1>3, <2>3
       DEF ListOutstanding, Goto, AllowanceTypeOK, HolderInv, Accepted,
           Uncollected, Responsible, Counting, Rebuilding, Admitting, vars,
           standingVars, factVars, depositVars, recoveryVars, counterVars,
           recountVars, historyVars
  <2>4. ASSUME NEW p \in Packages, LookForAssociation(t, p)
        PROVE  RoomInv'
    BY RoomFrame, <1>3, <2>4
       DEF LookForAssociation, Goto, AllowanceTypeOK, HolderInv, Accepted,
           Uncollected, Responsible, Counting, Rebuilding, Admitting, vars,
           standingVars, factVars, depositVars, recoveryVars, counterVars,
           recountVars, historyVars
  <2>5. CASE Reconcile(t)
    <3>1. \A u \in Threads : pc'[u] \in {"admit", "write"} => u = t
      BY <2>5
         DEF Reconcile, EndAuthorize, EndDeposit, Goto, AllowanceTypeOK,
             HolderInv, Admitting
    <3>2. ASSUME pc'[t] \in {"admit", "write"}
          PROVE  Cardinality(Responsible') < Outstanding[standing'[t]]
      <4>1. Outstanding[standing[t]] \in Nat /\ standing'[t] = standing[t]
        BY <3>2, <2>5, AllowanceConstants
           DEF Reconcile, EndAuthorize, EndDeposit, Goto, AllowanceTypeOK,
               HolderInv, Admitting, depositVars
      <4>2. Cardinality(tally[t]) < Outstanding[standing[t]]
        <5>1. IsFiniteSet(tally[t])
          BY AllowanceConstants, FS_Subset DEF AllowanceTypeOK, Counted
        <5>2. ~Exhausted(t, tally[t])
          BY <3>2, <2>5
             DEF Reconcile, EndAuthorize, EndDeposit, Goto, AllowanceTypeOK
        <5> QED
          BY <4>1, <5>1, <5>2, FS_CardinalityType DEF Exhausted
      <4>3. Responsible' \subseteq tally[t] /\ tally[t] \in SUBSET Packages
        BY <1>3, <2>5
           DEF Reconcile, EndAuthorize, AllowanceTypeOK, CounterInv, Counted,
               Responsible, Uncollected, Accepted, Overlooked, depositVars,
               historyVars
      <4> QED
        BY <4>1, <4>2, <4>3, Fewer
    <3> QED
      BY <3>1, <3>2 DEF RoomInv
  <2>6. CASE WriteAcceptance(t)
    BY <1>3, <2>6
       DEF WriteAcceptance, Goto, AllowanceTypeOK, HolderInv, RoomInv,
           Admitting
  <2>7. CASE Increment(t)
    <3>1. \A u \in Threads : pc'[u] \notin {"admit", "write"}
      BY <2>7
         DEF Increment, EndAuthorize, EndDeposit, Goto, AllowanceTypeOK,
             HolderInv, Admitting
    <3> QED
      BY <3>1 DEF RoomInv
  <2>8. CASE AcceptRaises(t)
    BY RoomFrame, <1>3, <2>8
       DEF AcceptRaises, EndAuthorize, EndDeposit, Release, Goto,
           AllowanceTypeOK, HolderInv, Accepted, Uncollected, Responsible,
           Counting, Rebuilding, Admitting, vars, standingVars, factVars,
           depositVars, recoveryVars, counterVars, recountVars, historyVars
  <2>9. CASE FindAdmitted(t)
    BY RoomFrame, <1>3, <2>9
       DEF FindAdmitted, Goto, AllowanceTypeOK, HolderInv, Accepted,
           Uncollected, Responsible, Counting, Rebuilding, Admitting,
           vars, standingVars, factVars, depositVars, recoveryVars,
           counterVars, recountVars, historyVars
  <2>10. CASE AdmitUnproven(t)
    BY RoomFrame, <1>3, <2>10
       DEF AdmitUnproven, AcceptUnproven, EndDeposit, Release, Goto,
           AllowanceTypeOK, HolderInv, Accepted, Uncollected,
           Responsible, Counting, Rebuilding, Admitting, vars,
           standingVars, factVars, depositVars, recoveryVars,
           counterVars, recountVars, historyVars
  <2> QED
    BY <1>3, <2>1, <2>2, <2>3, <2>4, <2>5, <2>6, <2>7, <2>8, <2>9, <2>10
       DEF AuthorizeStep
<1>4. ASSUME NEW t \in Threads, recount[t] = None, Rebuild(t)
      PROVE  RoomInv'
  BY RoomFrame, <1>4
     DEF Rebuild, Remember, Goto, AllowanceTypeOK, HolderInv, Accepted,
         Uncollected, Responsible, Counting, Rebuilding, Admitting, vars,
         standingVars, factVars, depositVars, recoveryVars, counterVars,
         recountVars, historyVars
<1>5. ASSUME NEW p \in Packages, Associate(p)
      PROVE  RoomInv'
  BY RoomFrame, <1>5
     DEF Associate, Goto, AllowanceTypeOK, HolderInv, Accepted, Uncollected,
         Responsible, Counting, Rebuilding, Admitting, vars, standingVars,
         factVars, depositVars, recoveryVars, counterVars, recountVars,
         historyVars
<1>6. CASE AdministratorStep
  BY RoomFrame, <1>6
     DEF AdministratorStep, Administer, CountersUnchanged, Goto,
         AllowanceTypeOK, HolderInv, Accepted, Uncollected, Responsible,
         Counting, Rebuilding, Admitting, vars, standingVars, factVars,
         depositVars, recoveryVars, counterVars, recountVars, historyVars
<1>7. CASE PorterCrashes
  BY <1>7 DEF PorterCrashes, RoomInv
<1>8. CASE UNCHANGED vars
  BY RoomFrame, <1>8
     DEF AllowanceTypeOK, HolderInv, Accepted, Uncollected, Responsible,
         Counting, Rebuilding, Admitting, vars, standingVars, factVars,
         depositVars, recoveryVars, counterVars, recountVars, historyVars
<1> QED
  BY <1>1, <1>2, <1>3, <1>4, <1>5, <1>6, <1>7, <1>8 DEF Next, ThreadStep


\* The account of the sender is kept: the invariant AccountInv.
THEOREM AccountInvariance == Spec => []AccountInv
<1>1. Init => AccountInv
  BY InitAccount
<1>2. AccountInv /\ [Next]_vars => AccountInv'
  <2> SUFFICES ASSUME AccountInv, [Next]_vars PROVE AccountInv'
    OBVIOUS
  <2>1. AllowanceTypeOK'
    BY TypeStep DEF AccountInv
  <2>2. HolderInv'
    BY <2>1, HolderStep DEF AccountInv
  <2>3. CounterInv'
    BY <2>1, <2>2, CounterStep DEF AccountInv
  <2>4. RoomInv'
    BY RoomStep DEF AccountInv
  <2> QED
    BY <2>1, <2>2, <2>3, <2>4 DEF AccountInv
<1> QED
  BY <1>1, <1>2, PTL DEF Spec


\* Only a thread that was admitted, or asked for no proof, writes an AC.
LEMMA OnlyTheAdmittedAccept ==
  ASSUME [Next]_vars
  PROVE  \/ accepted' = accepted
         \/ \E t \in Threads : WriteAcceptance(t) \/ AdmitUnproven(t)
<1> USE DEF vars, standingVars, factVars, depositVars, recoveryVars
<1>1. ASSUME NEW t \in Threads, RecountStep(t)
      PROVE  accepted' = accepted
  BY <1>1 DEF RecountStep, ListCollected, ListAcceptances, ReplaceCounter
<1>2. ASSUME NEW t \in Threads, StandingStep(t)
      PROVE  accepted' = accepted
  BY <1>2 DEF StandingStep, Deposit, DepositUnproven, Verify, LockRelationship,
              Confirm, RefuseDeposit, ListFacts, ListChanges, Forget
<1>3. ASSUME NEW t \in Threads, Rebuild(t)
      PROVE  accepted' = accepted
  BY <1>3 DEF Rebuild, Remember
<1>4. ASSUME NEW t \in Threads, AuthorizeStep(t)
      PROVE  accepted' = accepted \/ WriteAcceptance(t) \/ AdmitUnproven(t)
  BY <1>4 DEF AuthorizeStep, TakeCounter, Allow, ListOutstanding, Reconcile,
              FindAdmitted, Increment, AcceptRaises, LookForAssociation
<1>5. ASSUME NEW p \in Packages, Associate(p)
      PROVE  accepted' = accepted
  BY <1>5 DEF Associate
<1>6. AdministratorStep \/ PorterCrashes \/ UNCHANGED vars => accepted' = accepted
  BY DEF AdministratorStep, Administer, PorterCrashes
<1> QED
  BY <1>1, <1>2, <1>3, <1>4, <1>5, <1>6 DEF Next, ThreadStep

\* The AC of an admitted Package takes the room that was found for it.
LEMMA AdmissionTakesRoom ==
  ASSUME AccountInv, NEW t \in Threads, WriteAcceptance(t)
  PROVE  Cardinality(Responsible') <= Outstanding[standing[t]]
<1>1. /\ Outstanding[standing[t]] \in Nat
      /\ Cardinality(Responsible) < Outstanding[standing[t]]
  BY AllowanceConstants
     DEF AccountInv, HolderInv, RoomInv, WriteAcceptance, Admitting
<1>2. IsFiniteSet(Responsible)
  BY AllowanceConstants, FS_Subset DEF Responsible, Uncollected, Accepted
<1>3. /\ IsFiniteSet(Responsible \cup {job[t]})
      /\ Cardinality(Responsible \cup {job[t]}) <= Cardinality(Responsible) + 1
  <2>1. Cardinality(Responsible) \in Nat
    BY <1>2, FS_CardinalityType
  <2> DEFINE R == Responsible
  <2>2. IsFiniteSet(R \cup {job[t]}) /\ Cardinality(R \cup {job[t]}) =
          IF job[t] \in R THEN Cardinality(R) ELSE Cardinality(R) + 1
    BY <1>2, FS_AddElement
  <2> HIDE DEF R
  <2>3. Cardinality(R \cup {job[t]}) <= Cardinality(R) + 1
    BY <2>1, <2>2 DEF R
  <2> QED
    BY <2>2, <2>3 DEF R
<1>4. Responsible' \subseteq Responsible \cup {job[t]}
  BY DEF AccountInv, AllowanceTypeOK, WriteAcceptance, Responsible,
         Uncollected, Accepted, historyVars
<1>5. Cardinality(Responsible') <= Cardinality(Responsible \cup {job[t]})
  BY <1>3, <1>4, FS_Subset
<1>6. /\ Cardinality(Responsible) \in Nat
      /\ Cardinality(Responsible \cup {job[t]}) \in Nat
      /\ Cardinality(Responsible') \in Nat
  BY <1>2, <1>3, <1>4, FS_CardinalityType, FS_Subset
<1> QED
  BY <1>1, <1>3, <1>5, <1>6

\* What is uncollected under every standing together stays within the terms it is
\* admitted under, but for what was missed, also where deposits that are asked for
\* no proof write ACs at any time: the property AllowanceHolds.
THEOREM AllowanceKept == Spec => AllowanceHolds
<1>1. AccountInv /\ [Next]_vars =>
        [\A p \in Packages :
           accepted'[p] # accepted[p] /\ accepted'[p] \in Introductions =>
             Cardinality(Responsible') <= Outstanding[accepted'[p]]]_vars
  <2> SUFFICES ASSUME AccountInv, [Next]_vars, NEW p \in Packages,
                      accepted'[p] # accepted[p],
                      accepted'[p] \in Introductions
               PROVE  Cardinality(Responsible') <= Outstanding[accepted'[p]]
    OBVIOUS
  <2>1. ASSUME NEW t \in Threads, AdmitUnproven(t)
        PROVE  FALSE
    BY <2>1, StandingConstants
       DEF AdmitUnproven, AcceptUnproven, AccountInv, AllowanceTypeOK
  <2>2. PICK t \in Threads : WriteAcceptance(t)
    BY <2>1, OnlyTheAdmittedAccept
  <2>3. accepted'[p] = standing[t]
    BY <2>2 DEF WriteAcceptance, AccountInv, AllowanceTypeOK
  <2> QED
    BY <2>2, <2>3, AdmissionTakesRoom
<1> QED
  BY <1>1, AccountInvariance, PTL DEF Spec, AllowanceHolds

----------------------------------------------------------------------------
(* The first standing: AllowanceIsExact. *)

Below == {pair \in Nat \X Nat : pair[1] < pair[2]}

LEMMA BelowWF == IsWellFoundedOn(Below, Nat)
BY NatLessThanWellFounded DEF OpToRel, Below

LEMMA BelowIsLess ==
  ASSUME NEW m \in Nat, NEW n \in Nat, <<n, m>> \notin Below
  PROVE  m <= n
<1>1. <<n, m>> \in Nat \X Nat
  OBVIOUS
<1>2. ~(n < m)
  BY <1>1 DEF Below
<1> QED
  BY <1>2

\* A set of numbers has a least one.
LEMMA NatMin ==
  ASSUME NEW T \in SUBSET Nat, T # {}
  PROVE  \E m \in T : \A n \in T : m <= n
<1>1. PICK m \in T : \A n \in T : ~(<<n, m>> \in Below)
  BY BelowWF, WFMin
<1>2. ASSUME NEW n \in T PROVE m <= n
  BY <1>1, BelowIsLess
<1> QED
  BY <1>2

\* Where nothing has been changed, the walk of recover stays where it begins.
LEMMA FirstIsCurrent ==
  ASSUME changes = [i \in Introductions |-> None], NEW facts
  PROVE  Current(facts) = First
<1> DEFINE N == Cardinality(Introductions)
           Onward(i) == IF i = None \/ changes[i] = None THEN i
                        ELSE IF changes[i].successor \in facts
                          THEN changes[i].successor ELSE None
           Met == Walk(facts)
           T == {n \in 0 .. N : Met[n] # First}
<1>1. N \in Nat
  BY StandingConstants, FS_CardinalityType
<1>2. Onward(First) = First
  BY StandingConstants
<1> HIDE DEF N, Onward
<1>3. [n \in 0 .. N |-> First] =
        [n \in 0 .. N |-> IF n = 0 THEN First
                          ELSE Onward([m \in 0 .. N |-> First][n - 1])]
  BY <1>1, <1>2
<1>4. Met = [n \in 0 .. N |-> IF n = 0 THEN First ELSE Onward(Met[n - 1])]
  <2>1. \E M : M = [n \in 0 .. N |->
                      IF n = 0 THEN First ELSE Onward(M[n - 1])]
    BY <1>3
  <2> QED
    BY <2>1, Zenon DEF Walk, Onward, N
<1> HIDE DEF Met
<1>5. T = {}
  <2> SUFFICES ASSUME T # {} PROVE FALSE
    OBVIOUS
  <2>1. PICK n \in T : \A m \in T : n <= m
    <3>1. T \in SUBSET Nat
      BY <1>1
    <3> HIDE DEF T
    <3> QED
      BY <3>1, NatMin
  <2>2. n # 0 /\ n \in 0 .. N /\ Met[n] = Onward(Met[n - 1])
    BY <1>1, <1>4
  <2>3. n - 1 \in 0 .. N /\ n - 1 \notin T
    BY <1>1, <2>1, <2>2
  <2>4. Met[n - 1] = First
    BY <2>3
  <2> QED
    BY <1>2, <2>2, <2>4
<1>6. Met[N] = First
  BY <1>1, <1>5
<1> QED
  BY <1>6 DEF Met, N, Current

\* Before a renewal nobody recovers, so that proof is asked of everybody, and no
\* count is replaced or lost.
FirstInv ==
  introductions = {First} =>
    /\ changes = [i \in Introductions |-> None]
    /\ active = First
    /\ \A t \in Threads : /\ pc[t] \notin Rebuilding \cup {"open"}
                          /\ recount[t] = None
                          /\ standing[t] \in {First, None}
    /\ ~replaced
    /\ ~raised => missed = {} /\ Cardinality(Uncollected) <= Outstanding[First]

\* The AC that is written while nothing was missed.
LEMMA ExactAtAdmission ==
  ASSUME AccountInv, FirstInv, NEW t \in Threads, WriteAcceptance(t),
         introductions = {First}, ~raised
  PROVE  missed' = {} /\ Cardinality(Uncollected') <= Outstanding[First]
<1>1. missed = {} /\ missed' = {} /\ standing[t] = First
  BY StandingConstants
     DEF FirstInv, AccountInv, HolderInv, WriteAcceptance, Admitting,
         historyVars
<1>2. Responsible' = Uncollected'
  BY <1>1 DEF Responsible
<1> QED
  BY <1>1, <1>2, AdmissionTakesRoom

\* Where no AC is added, what is uncollected does not exceed what it was.
LEMMA ExactWithoutAdmission ==
  ASSUME AccountInv, FirstInv, introductions = {First}, ~raised,
         accepted' = accepted, associated \subseteq associated'
  PROVE  Cardinality(Uncollected') <= Outstanding[First]
<1>1. Uncollected' \subseteq Uncollected /\ Uncollected \subseteq Packages
  BY DEF Uncollected, Accepted
<1>2. IsFiniteSet(Uncollected)
  BY <1>1, AllowanceConstants, FS_Subset
<1>3. Cardinality(Uncollected') <= Cardinality(Uncollected)
  BY <1>1, <1>2, FS_Subset
<1>4. /\ Cardinality(Uncollected) \in Nat /\ Cardinality(Uncollected') \in Nat
      /\ Outstanding[First] \in Nat
  BY <1>1, <1>2, FS_Subset, FS_CardinalityType, AllowanceConstants,
     StandingConstants
<1> QED
  BY <1>3, <1>4 DEF FirstInv

\* Whoever does not change what is accepted, associated, missed or raised.
LEMMA FirstFrame ==
  ASSUME AccountInv, FirstInv, introductions = {First},
         UNCHANGED <<changes, accepted, active>>,
         associated \subseteq associated', missed' \subseteq missed,
         raised' = raised, ~replaced', recount' = recount,
         \A t \in Threads : /\ pc'[t] \notin Rebuilding \cup {"open"}
                            /\ standing'[t] \in {First, None}
  PROVE  FirstInv'
<1>1. ~raised => Cardinality(Uncollected') <= Outstanding[First]
  BY ExactWithoutAdmission
<1> QED
  BY <1>1 DEF FirstInv

LEMMA FirstInvStep ==
  ASSUME AccountInv, FirstInv, Next
  PROVE  FirstInv'
<1> USE StandingConstants, AllowanceConstants, CountingLabels
        DEF standingVars, factVars, depositVars, recoveryVars, counterVars,
        recountVars, historyVars, Goto
<1> SUFFICES ASSUME introductions' = {First} PROVE FirstInv'
  BY DEF FirstInv
<1>0. AllowanceTypeOK /\ HolderInv
  BY DEF AccountInv
<1>1. CASE AdministratorStep
  BY <1>1 DEF AdministratorStep, Administer
<1>2. CASE ~AdministratorStep
  <2>1. introductions = {First}
    BY <1>2 DEF Next, ThreadStep, RecountStep, ListCollected,
       ListAcceptances, ReplaceCounter, StandingStep, Deposit,
       DepositUnproven, Verify, LockRelationship, Confirm, RefuseDeposit,
       ListFacts, ListChanges, Forget, Rebuild, Remember, AuthorizeStep,
       TakeCounter, Allow, ListOutstanding, Reconcile, FindAdmitted,
       WriteAcceptance, Increment, AcceptRaises, AdmitUnproven, AcceptUnproven,
       LookForAssociation, EndAuthorize, Associate, PorterCrashes
  <2>2. /\ changes = [i \in Introductions |-> None] /\ active = First
        /\ ~replaced /\ changes[active] = None
        /\ \A t \in Threads : /\ pc[t] \notin Rebuilding \cup {"open"}
                              /\ recount[t] = None
                              /\ standing[t] \in {First, None}
    BY <2>1 DEF FirstInv
  <2>3. ASSUME NEW t \in Threads, RecountStep(t)
        PROVE  FALSE
    BY <2>2, <2>3 DEF RecountStep, ListCollected, ListAcceptances,
       ReplaceCounter, Counting
  <2>4. ASSUME NEW t \in Threads, StandingStep(t)
        PROVE  FirstInv'
    <3>1. ASSUME NEW q \in Packages, Deposit(t, q)
          PROVE  FirstInv'
      BY <1>0, <2>1, <2>2, <2>4, <3>1, FirstFrame DEF StandingStep,
         CountersUnchanged, Deposit, Refresh, AllowanceTypeOK, Rebuilding
    <3>2. CASE Verify(t) \/ LockRelationship(t)
      BY <1>0, <2>1, <2>2, <2>4, <3>2, FirstFrame DEF StandingStep,
         CountersUnchanged, Verify, LockRelationship, Refresh,
         AllowanceTypeOK, Rebuilding
    <3>3. CASE Confirm(t) \/ RefuseDeposit(t)
      BY <1>0, <2>1, <2>2, <2>4, <3>3, FirstFrame DEF StandingStep,
         CountersUnchanged, Confirm, RefuseDeposit, EndDeposit,
         AllowanceTypeOK, Rebuilding
    <3>4. ~(ListFacts(t) \/ ListChanges(t) \/ Forget(t))
      BY <2>2 DEF ListFacts, ListChanges, Forget, Rebuilding
    <3>5. ~(\E q \in Packages : DepositUnproven(t, q))
      BY <2>2 DEF DepositUnproven, Unasked
    <3> QED
      BY <2>4, <3>1, <3>2, <3>3, <3>4, <3>5 DEF StandingStep
  <2>5. ASSUME NEW t \in Threads, Rebuild(t)
        PROVE  FALSE
    BY <2>2, <2>5 DEF Rebuild, Remember, Rebuilding
  <2>6. ASSUME NEW t \in Threads, AuthorizeStep(t)
        PROVE  FirstInv'
    <3>1. CASE TakeCounter(t) \/ Allow(t) \/ ListOutstanding(t) \/ FindAdmitted(t)
      BY <1>0, <2>1, <2>2, <3>1, FirstFrame DEF TakeCounter, Allow,
         ListOutstanding, FindAdmitted, EndAuthorize, EndDeposit,
         AllowanceTypeOK, Rebuilding
    <3>2. CASE Reconcile(t)
      BY <1>0, <2>1, <2>2, <3>2, FirstFrame DEF Reconcile, EndAuthorize,
         EndDeposit, AllowanceTypeOK, Rebuilding
    <3>3. CASE Increment(t)
      <4>1. missed' \subseteq missed
        <5>1. job[t] \in counter' /\ recount' = recount
          BY <2>2, <3>3 DEF Increment
        <5>2. \A u \in Threads : recount'[u] # "replace"
          BY <2>2, <5>1 DEF Counting
        <5>3. job[t] \notin Overlooked'
          BY <5>1, <5>2 DEF Overlooked
        <5> QED
          BY <3>3, <5>3 DEF Increment
      <4> QED
        BY <1>0, <2>1, <2>2, <3>3, <4>1, FirstFrame DEF Increment,
           EndAuthorize, EndDeposit, AllowanceTypeOK, Rebuilding
    <3>4. CASE AcceptRaises(t)
      <4>1. CASE job[t] \in Accepted
        BY <1>0, <2>1, <2>2, <3>4, <4>1 DEF AcceptRaises, EndAuthorize,
           EndDeposit, AllowanceTypeOK, Rebuilding, FirstInv
      <4>2. CASE job[t] \notin Accepted
        BY <1>0, <2>1, <2>2, <3>4, <4>2, FirstFrame DEF AcceptRaises,
           EndAuthorize, EndDeposit, AllowanceTypeOK, Rebuilding
      <4> QED
        BY <4>1, <4>2
    <3>5. CASE WriteAcceptance(t)
      <4>1. ~raised => missed' = {} /\ Cardinality(Uncollected') <= Outstanding[First]
        BY <2>1, <3>5, ExactAtAdmission
      <4> QED
        BY <1>0, <2>1, <2>2, <3>5, <4>1 DEF WriteAcceptance, AllowanceTypeOK,
           Rebuilding, FirstInv
    <3>6. ASSUME NEW q \in Packages, LookForAssociation(t, q)
          PROVE  FirstInv'
      BY <2>1, <2>2, <3>6, FirstFrame DEF LookForAssociation
    <3>7. ~AdmitUnproven(t)
      BY <2>2 DEF AdmitUnproven, AcceptUnproven
    <3> QED
      BY <2>6, <3>1, <3>2, <3>3, <3>4, <3>5, <3>6, <3>7 DEF AuthorizeStep
  <2>7. ASSUME NEW q \in Packages, Associate(q)
        PROVE  FirstInv'
    BY <2>1, <2>2, <2>7, FirstFrame DEF Associate
  <2>8. CASE PorterCrashes
    <3>1. active' = First
      BY <2>2, <2>8, FirstIsCurrent DEF PorterCrashes
    <3>2. ~raised => Cardinality(Uncollected') <= Outstanding[First]
      BY <2>1, <2>8, ExactWithoutAdmission DEF PorterCrashes
    <3> QED
      BY <2>1, <2>2, <2>8, <3>1, <3>2 DEF PorterCrashes, Rebuilding, FirstInv
  <2> QED
    BY <1>2, <2>3, <2>4, <2>5, <2>6, <2>7, <2>8 DEF Next, ThreadStep
<1> QED
  BY <1>1, <1>2

\* Under the first standing the uncollected Packages of a sender never exceed
\* its allowance, as long as no accept raised after its AC: no increment is lost
\* to a thread that reads, reconciles or starts (introduction.py authorize,
\* _reconcile_sender; carriage.py accept).
THEOREM AllowanceExact == Spec => []AllowanceIsExact
<1>1. Init => FirstInv
  <2> SUFFICES ASSUME Init PROVE FirstInv
    OBVIOUS
  <2>1. Uncollected = {}
    BY DEF Init, Uncollected, Accepted
  <2>2. Cardinality(Uncollected) <= Outstanding[First]
    BY <2>1, FS_EmptySet, AllowanceConstants, StandingConstants
  <2> QED
    BY <2>2 DEF Init, FirstInv, Rebuilding
<1>2. AccountInv /\ FirstInv /\ [Next]_vars => FirstInv'
  <2>1. ASSUME FirstInv, UNCHANGED vars
        PROVE  FirstInv'
    BY <2>1 DEF vars, standingVars, factVars, depositVars, recoveryVars,
       counterVars, recountVars, historyVars, FirstInv, Uncollected, Accepted
  <2> QED
    BY <2>1, FirstInvStep
<1>3. FirstInv => AllowanceIsExact
  BY DEF FirstInv, AllowanceIsExact
<1> QED
  BY <1>1, <1>2, <1>3, AccountInvariance, PTL DEF Spec
=============================================================================
