------------------------------ MODULE Allowance ------------------------------
(***************************************************************************)
(* The outstanding allowance of one sender.  authorize refuses a Package   *)
(* when the sender's uncollected ACs reach what its terms allow.  It reads *)
(* them off a counter in memory, which it raises after the AC is written,  *)
(* under the relationship lock; recover replaces the counter without it,   *)
(* and a deposit that is asked for no proof is not counted at all.  A      *)
(* counter is modelled as the set of Packages it counts.  What it says of  *)
(* their bytes, or of one counted twice, is left open: it may exhaust the  *)
(* allowance at any count.                                                 *)
(***************************************************************************)
EXTENDS Standing

CONSTANTS
  Outstanding,   \* max_outstanding_packages of each Introduction
  MayRaise,      \* may accept raise?
  MaxCrashes     \* bound: deaths of the Porter

ASSUME AllowanceConstants ==
  /\ Outstanding \in [Introductions -> Nat]
  /\ MayRaise \in BOOLEAN
  /\ MaxCrashes \in Nat
  /\ IsFiniteSet(Packages)

Counting == {"collected", "acceptances", "replace"}

ASSUME CountingLabels == None \notin Counting \cup {"verify", "confirm"}

VARIABLES
  associated,    \* collections/by-package: Packages no longer outstanding
  counter,       \* Admission.current of the sender
  taken,         \* the counter authorize refers to, once it is replaced
  replaced,      \* has it been replaced in Admission.current since?
  recount,       \* where the recount of a recover is, or None
  tally,         \* what a recount has listed, or counts
  unseen,        \* listed ACs whose association is yet to be looked for
  missed,        \* history: ACs whose increment was lost, or that have none
  raised,        \* history: an accept raised after its AC
  crashes

counterVars == <<counter, taken, replaced>>
recountVars == <<recount, tally, unseen>>
historyVars == <<missed, raised>>
vars == <<standingVars, associated, counterVars, recountVars, historyVars,
          crashes>>

Accepted    == {p \in Packages : accepted[p] # None}
Uncollected == Accepted \ associated

\* Packages that the counter, or a count about to replace it, leaves out.
Overlooked ==
  {p \in Packages :
     \/ p \notin counter
     \/ \E t \in Threads : recount[t] = "replace" /\ p \notin tally[t]}

Init ==
  /\ introductions = {First} /\ changes = [i \in Introductions |-> None]
  /\ standingLock = None
  /\ accepted = [p \in Packages |-> None]
  /\ active = First
  /\ pc = [t \in Threads |-> "ready"] /\ job = [t \in Threads |-> None]
  /\ standing = [t \in Threads |-> None] /\ back = [t \in Threads |-> None]
  /\ listed = [t \in Threads |-> {}] /\ found = [t \in Threads |-> None]
  /\ associated = {}
  /\ counter = {} /\ taken = {} /\ replaced = FALSE
  /\ recount = [t \in Threads |-> None]
  /\ tally = [t \in Threads |-> {}] /\ unseen = [t \in Threads |-> {}]
  /\ missed = {} /\ raised = FALSE
  /\ crashes = 0

----------------------------------------------------------------------------
\* recover, once it has entered the current standing: it lists the collected
\* Packages, then the ACs, and replaces every counter.

Rebuild(t) ==
  /\ Remember(t)
  /\ recount' = [recount EXCEPT ![t] = "collected"]
  /\ UNCHANGED <<associated, counterVars, tally, unseen, historyVars, crashes>>

ListCollected(t) ==
  /\ recount[t] = "collected"
  /\ tally' = [tally EXCEPT ![t] = associated]
  /\ recount' = [recount EXCEPT ![t] = "acceptances"]
  /\ UNCHANGED <<standingVars, associated, counterVars, unseen, historyVars,
                 crashes>>

ListAcceptances(t) ==
  /\ recount[t] = "acceptances"
  /\ tally' = [tally EXCEPT ![t] = Accepted \ tally[t]]
  /\ recount' = [recount EXCEPT ![t] = "replace"]
  /\ UNCHANGED <<standingVars, associated, counterVars, unseen, historyVars,
                 crashes>>

\* Whoever holds the lock goes on with the counter it took.
ReplaceCounter(t) ==
  /\ recount[t] = "replace"
  /\ counter' = tally[t]
  /\ replaced' = TRUE
  /\ taken' = IF replaced THEN taken ELSE counter
  /\ recount' = [recount EXCEPT ![t] = None]
  /\ tally' = [tally EXCEPT ![t] = {}]
  /\ UNCHANGED <<standingVars, associated, unseen, historyVars, crashes>>

RecountStep(t) == ListCollected(t) \/ ListAcceptances(t) \/ ReplaceCounter(t)

----------------------------------------------------------------------------
\* authorize under the relationship lock, from Confirm of Standing on.

Counted == IF replaced THEN taken ELSE counter

\* Mistake: the allowance is exceeded by one before anything is refused.
ExhaustedLate(t, count) == Cardinality(count) > Outstanding[standing[t]]

Exhausted(t, count) == Cardinality(count) >= Outstanding[standing[t]]

EndAuthorize(t) ==
  /\ EndDeposit(t)
  /\ UNCHANGED <<factVars, recoveryVars, active>>

\* The reference to the counter is taken; a Package accepted meanwhile is a
\* repetition and counts no more.
TakeCounter(t) ==
  /\ pc[t] = "accept"
  /\ replaced' = FALSE /\ taken' = {}
  /\ IF job[t] \in Accepted
       THEN EndAuthorize(t)
       ELSE /\ Goto(t, "allow")
            /\ UNCHANGED <<factVars, recoveryVars, standing, standingLock,
                           active, job>>
  /\ UNCHANGED <<accepted, associated, counter, recountVars, historyVars,
                 crashes>>

Allow(t) ==
  /\ pc[t] = "allow"
  /\ \/ ~Exhausted(t, Counted) /\ Goto(t, "admit")
     \/ Goto(t, "reconcile")
  /\ UNCHANGED <<factVars, depositVars, recoveryVars, standingLock, active, job,
                 associated, counterVars, recountVars, historyVars, crashes>>

\* _reconcile_sender lists the ACs and looks for the association of each.
ListOutstanding(t) ==
  /\ pc[t] = "reconcile"
  /\ unseen' = [unseen EXCEPT ![t] = Accepted]
  /\ Goto(t, "look")
  /\ UNCHANGED <<factVars, depositVars, recoveryVars, standingLock, active, job,
                 associated, counterVars, recount, tally, historyVars, crashes>>

\* Mistake: only the ACs of the present standing are counted.
LookAtPresentStanding(t, p) ==
  /\ pc[t] = "look"
  /\ p \in unseen[t]
  /\ unseen' = [unseen EXCEPT ![t] = @ \ {p}]
  /\ tally' = [tally EXCEPT ![t] =
                 IF accepted[p] = standing[t] THEN @ \cup ({p} \ associated)
                 ELSE @]
  /\ UNCHANGED <<standingVars, associated, counterVars, recount, historyVars,
                 crashes>>

LookForAssociation(t, p) ==
  /\ pc[t] = "look"
  /\ p \in unseen[t]
  /\ unseen' = [unseen EXCEPT ![t] = @ \ {p}]
  /\ tally' = [tally EXCEPT ![t] = @ \cup ({p} \ associated)]
  /\ UNCHANGED <<standingVars, associated, counterVars, recount, historyVars,
                 crashes>>

Reconcile(t) ==
  /\ pc[t] = "look"
  /\ unseen[t] = {}
  /\ counter' = tally[t]
  /\ replaced' = FALSE /\ taken' = {}
  /\ tally' = [tally EXCEPT ![t] = {}]
  /\ \/ EndAuthorize(t)
     \/ /\ ~Exhausted(t, tally[t])
        /\ Goto(t, "admit")
        /\ UNCHANGED <<factVars, recoveryVars, standing, standingLock, active,
                       job>>
  /\ UNCHANGED <<accepted, associated, recount, unseen, raised, crashes>>
  /\ missed' = missed \cap Overlooked'

\* accept looks for an AC once more; one of an unproven deposit is counted now.
FindAdmitted(t) ==
  /\ pc[t] = "admit"
  /\ Goto(t, IF job[t] \in Accepted THEN "increment" ELSE "write")
  /\ UNCHANGED <<factVars, depositVars, recoveryVars, standingLock, active, job,
                 associated, counterVars, recountVars, historyVars, crashes>>

WriteAcceptance(t) ==
  /\ pc[t] = "write"
  /\ accepted' = [accepted EXCEPT ![job[t]] = standing[t]]
  /\ Goto(t, "increment")
  /\ UNCHANGED <<factVars, standing, recoveryVars, standingLock, active, job,
                 associated, counterVars, recountVars, historyVars, crashes>>

Increment(t) ==
  /\ pc[t] = "increment"
  /\ counter' = IF replaced THEN counter ELSE counter \cup {job[t]}
  /\ EndAuthorize(t)
  /\ UNCHANGED <<accepted, associated, taken, replaced, recountVars, raised,
                 crashes>>
  /\ missed' = (missed \ {job[t]}) \cup ({job[t]} \cap Overlooked')

\* accept raises before its AC, or after it: nothing is counted then.
AcceptRaises(t) ==
  /\ MayRaise
  /\ pc[t] \in {"admit", "write", "increment", "open"}
  /\ raised' = (raised \/ job[t] \in Accepted)
  /\ EndAuthorize(t)
  /\ UNCHANGED <<accepted, associated, counterVars, recountVars, crashes>>
  /\ missed' = missed \cup ({job[t]} \cap Accepted \cap Overlooked')

\* An AC that was asked for no proof is counted by nobody who writes it.
AdmitUnproven(t) ==
  /\ AcceptUnproven(t)
  /\ missed' = missed \cup ({job[t]} \ Accepted)
  /\ UNCHANGED <<associated, counterVars, recountVars, raised, crashes>>

AuthorizeStep(t) ==
  \/ TakeCounter(t) \/ Allow(t) \/ ListOutstanding(t) \/ Reconcile(t)
  \/ FindAdmitted(t) \/ WriteAcceptance(t) \/ Increment(t)
  \/ AcceptRaises(t) \/ AdmitUnproven(t)
  \/ \E p \in Packages : LookForAssociation(t, p)

----------------------------------------------------------------------------
\* The steps of Standing that leave the counters alone.
CountersUnchanged ==
  UNCHANGED <<associated, counterVars, recountVars, historyVars, crashes>>

StandingStep(t) ==
  /\ \/ \E p \in Packages : Deposit(t, p) \/ DepositUnproven(t, p)
     \/ Verify(t) \/ LockRelationship(t) \/ Confirm(t) \/ RefuseDeposit(t)
     \/ ListFacts(t) \/ ListChanges(t) \/ Forget(t)
  /\ CountersUnchanged

ThreadStep(t) ==
  \/ RecountStep(t)
  \/ /\ recount[t] = None
     /\ StandingStep(t) \/ Rebuild(t) \/ AuthorizeStep(t)

\* A collector associates an accepted Package with the CL it is about to
\* publish: from then on the Package is outstanding no more.
Associate(p) ==
  /\ p \in Uncollected
  /\ associated' = associated \cup {p}
  /\ UNCHANGED <<standingVars, counterVars, recountVars, historyVars, crashes>>

AdministratorStep ==
  /\ \E i \in Local : Administer(i)
  /\ CountersUnchanged

\* A Porter that starts counts again before it serves.
PorterCrashes ==
  /\ crashes < MaxCrashes
  /\ crashes' = crashes + 1
  /\ active' = Current(introductions)
  /\ standingLock' = None
  /\ pc' = [t \in Threads |-> "ready"] /\ job' = [t \in Threads |-> None]
  /\ standing' = [t \in Threads |-> None] /\ back' = [t \in Threads |-> None]
  /\ listed' = [t \in Threads |-> {}] /\ found' = [t \in Threads |-> None]
  /\ counter' = Uncollected /\ taken' = {} /\ replaced' = FALSE
  /\ recount' = [t \in Threads |-> None]
  /\ tally' = [t \in Threads |-> {}] /\ unseen' = [t \in Threads |-> {}]
  /\ missed' = {}
  /\ UNCHANGED <<factVars, accepted, associated, raised>>

Next ==
  \/ \E t \in Threads : ThreadStep(t)
  \/ \E p \in Packages : Associate(p)
  \/ AdministratorStep \/ PorterCrashes

Spec == Init /\ [][Next]_vars

----------------------------------------------------------------------------
(* Properties. *)

Rebuilding   == {"facts", "changes", "forget", "remember"}
Admitting    == {"allow", "reconcile", "look", "admit", "write", "increment"}
Responsible  == Uncollected \ missed
BeingCounted ==
  {p \in Packages : \E t \in Threads : pc[t] = "increment" /\ job[t] = p}

AllowanceTypeOK ==
  /\ accepted \in [Packages -> Introductions \cup {Unproven, None}]
  /\ standing \in [Threads -> Introductions \cup {None}]
  /\ associated \subseteq Packages
  /\ counter \subseteq Packages /\ taken \subseteq Packages
  /\ replaced \in BOOLEAN /\ raised \in BOOLEAN
  /\ recount \in [Threads -> Counting \cup {None}]
  /\ tally \in [Threads -> SUBSET Packages]
  /\ unseen \in [Threads -> SUBSET Packages]
  /\ missed \subseteq Packages
  /\ pc \in [Threads -> {"ready", "open", "verify", "relationship", "confirm",
                         "accept"} \cup Rebuilding \cup Admitting]
  /\ back \in [Threads -> {"verify", "confirm", None}]
  /\ job \in [Threads -> Packages \cup {None}]

\* Past its second refresh a thread that proved its Package holds the lock, also
\* while it recovers on its way there; a recount precedes the step it goes back
\* to.
HolderInv ==
  \A t \in Threads :
    /\ pc[t] \in {"confirm", "accept"} \cup Admitting =>
         standingLock = t /\ standing[t] \in Introductions
    /\ pc[t] \in Rebuilding =>
         \/ back[t] = "verify"
         \/ back[t] = "confirm" /\ standingLock = t /\ standing[t] \in Introductions
    /\ pc[t] = "relationship" => standing[t] \in Introductions
    /\ recount[t] # None => pc[t] \in {"verify", "confirm"}
    /\ pc[t] # "ready" => job[t] \in Packages
    /\ pc[t] = "increment" => job[t] \in Accepted

\* What is uncollected and was not missed is in the counter, and in every count
\* that may become it, but for a Package about to be counted.
CounterInv ==
  /\ counter \cup taken \subseteq Accepted
  /\ Responsible \ BeingCounted \subseteq counter
  /\ \A t \in Threads :
       /\ recount[t] = "acceptances" => tally[t] \subseteq associated
       /\ recount[t] = "replace" =>
            Responsible \ BeingCounted \subseteq tally[t] /\ tally[t] \subseteq Accepted
       /\ recount[t] = None /\ pc[t] # "look" => tally[t] = {}
       /\ pc[t] = "look" =>
            Responsible \subseteq tally[t] \cup unseen[t] /\ tally[t] \subseteq Accepted
       /\ pc[t] = "look" => unseen[t] \subseteq Accepted
       /\ pc[t] = "allow" => Responsible \subseteq Counted

\* Who is about to be admitted has room.
RoomInv ==
  \A t \in Threads :
    pc[t] \in {"admit", "write"} =>
      Cardinality(Responsible) < Outstanding[standing[t]]

\* The account of the sender: who may touch it and what it counts, whatever
\* threads authorize, reconcile and recover at once (introduction.py authorize,
\* recover, _reconcile_sender).
AccountInv == AllowanceTypeOK /\ HolderInv /\ CounterInv /\ RoomInv

\* STANDING-SUCCESSION.md: "Every uncollected AC across old and new standing
\* counts together": when an AC is written under an Introduction, they stay within
\* its terms, but for those whose increment was lost and those that were asked
\* for no proof, until a thread lists them.
AllowanceHolds ==
  [][\A p \in Packages :
       accepted'[p] # accepted[p] /\ accepted'[p] \in Introductions =>
         Cardinality(Responsible') <= Outstanding[accepted'[p]]]_vars

\* SECURITY-CHECK.md: "Ten admissions, not forty, crossed a ten-Package
\* allowance": no increment is lost, and the allowance exact, as long as the
\* standing has not changed, of this one sender, and no accept raised after its
\* AC.
AllowanceIsExact ==
  introductions = {First} /\ ~raised =>
    Cardinality(Uncollected) <= Outstanding[First]
=============================================================================
