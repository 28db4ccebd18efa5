--------------------------- MODULE OpportunityProofs ---------------------------
(***************************************************************************)
(* A Runtime offers nothing it saw returned, every offer has its CL, and   *)
(* what a pool has and does stays within its bounds, for any number of     *)
(* Runtimes, Packages, batches, adapters, failures and deaths, and any     *)
(* policy.                                                                 *)
(***************************************************************************)
EXTENDS Opportunities, FiniteSetTheorems, TLAPS

(* A Host Runtime and its visits. *)

LEMMA InitVisit == Init => VisitInv
<1> USE RuntimeConstants
<1>1. Init => TypeOK /\ SelectedInv /\ PublisherInv
  BY DEF Init, TypeOK, SelectedInv, PublisherInv
<1>2. Init => StoreInv
  BY DEF Init, StoreInv, Returned, Collected
<1> QED
  BY <1>1, <1>2 DEF VisitInv

\* Every step keeps the types.
LEMMA VisitTypeStep ==
  ASSUME TypeOK, SelectedInv, [Next]_vars
  PROVE  TypeOK'
<1> USE RuntimeConstants
<1>1. ASSUME NEW h \in Hosts, Recover(h)
      PROVE  TypeOK'
  BY <1>1
     DEF Recover, Goto, Collected, TypeOK, SelectedInv, vars, storeVars,
         memoryVars
<1>2. ASSUME NEW h \in Hosts, Inspect(h)
      PROVE  TypeOK'
  <2>1. PICK page \in SUBSET (rows \cap Interest[h]) :
           /\ rows' = rows \ Stale(page)
           /\ IF Refills(h, page)
                THEN /\ batch' = [batch EXCEPT ![h] = Selected(h, page)]
                     /\ UNCHANGED <<pc, recovering>>
                ELSE /\ \E kept \in SUBSET Selected(h, page) :
                          batch' = [batch EXCEPT ![h] = kept]
                     /\ recovering' = [recovering EXCEPT ![h] = FALSE]
                     /\ Goto(h, "collect")
    BY <1>2 DEF Inspect, UpTo
  <2>2. Selected(h, page) \subseteq Packages
    BY <2>1 DEF Selected, Gaps, TypeOK
  <2>3. batch' \in [Hosts -> SUBSET Packages]
    BY <2>1, <2>2 DEF TypeOK
  <2>4. recovering' \in [Hosts -> BOOLEAN] /\ rows' \subseteq Packages
    BY <2>1 DEF TypeOK
  <2>5. pc' \in [Hosts -> {"down", "inspect", "collect", "reserve",
                           "publish", "offer", "offered"}]
    BY <2>1 DEF Goto, TypeOK
  <2> QED
    BY <1>2, <2>3, <2>4, <2>5 DEF Inspect, TypeOK
<1>3. ASSUME NEW h \in Hosts, EndVisit(h)
      PROVE  TypeOK'
  BY <1>3 DEF EndVisit, Goto, TypeOK, SelectedInv, vars, storeVars, memoryVars
<1>4. ASSUME NEW h \in Hosts, Reserve(h)
      PROVE  TypeOK'
  BY <1>4 DEF Reserve, Goto, TypeOK, SelectedInv, vars, storeVars, memoryVars
<1>5. ASSUME NEW h \in Hosts, Publish(h)
      PROVE  TypeOK'
  BY <1>5 DEF Publish, Goto, TypeOK, SelectedInv, vars, storeVars, memoryVars
<1>6. ASSUME NEW h \in Hosts, Offer(h)
      PROVE  TypeOK'
  BY <1>6 DEF Offer, Goto, TypeOK, SelectedInv, vars, storeVars, memoryVars
<1>7. ASSUME NEW h \in Hosts, Return(h)
      PROVE  TypeOK'
  BY <1>7 DEF Return, Goto, TypeOK, SelectedInv, vars, storeVars, memoryVars
<1>8. ASSUME NEW h \in Hosts, NEW p \in Packages, Collect(h, p)
      PROVE  TypeOK'
  BY <1>8
     DEF Collect, Goto, LockedPackages, TypeOK, SelectedInv, vars, storeVars,
         memoryVars
<1>9. ASSUME NEW h \in Hosts, Crash(h)
      PROVE  TypeOK'
  BY <1>9 DEF Crash, Goto, TypeOK, SelectedInv, vars, storeVars, memoryVars
<1>10. ASSUME NEW p \in Packages, Accept(p)
      PROVE  TypeOK'
  BY <1>10 DEF Accept, Goto, TypeOK, SelectedInv, vars, storeVars, memoryVars
<1>11. CASE UNCHANGED vars
  BY <1>11 DEF TypeOK, SelectedInv, vars, storeVars, memoryVars
<1> QED
  BY <1>1, <1>2, <1>3, <1>4, <1>5, <1>6, <1>7, <1>8, <1>9, <1>10, <1>11
     DEF Next, VisitStep

\* Every step keeps what is selected unreturned.
LEMMA SelectedStep ==
  ASSUME TypeOK, SelectedInv, [Next]_vars, TypeOK'
  PROVE  SelectedInv'
<1> USE RuntimeConstants
<1>1. ASSUME NEW h \in Hosts, Recover(h)
      PROVE  SelectedInv'
  BY <1>1
     DEF Recover, Goto, Collected, TypeOK, SelectedInv, vars, storeVars,
         memoryVars
<1>2. ASSUME NEW h \in Hosts, Inspect(h)
      PROVE  SelectedInv'
  BY <1>2
     DEF Inspect, Goto, UpTo, Stale, Selected, Gaps, Refills, Returned, TypeOK,
         SelectedInv, vars, storeVars, memoryVars
<1>3. ASSUME NEW h \in Hosts, EndVisit(h)
      PROVE  SelectedInv'
  BY <1>3 DEF EndVisit, Goto, TypeOK, SelectedInv, vars, storeVars, memoryVars
<1>4. ASSUME NEW h \in Hosts, Reserve(h)
      PROVE  SelectedInv'
  BY <1>4 DEF Reserve, Goto, TypeOK, SelectedInv, vars, storeVars, memoryVars
<1>5. ASSUME NEW h \in Hosts, Publish(h)
      PROVE  SelectedInv'
  BY <1>5 DEF Publish, Goto, TypeOK, SelectedInv, vars, storeVars, memoryVars
<1>6. ASSUME NEW h \in Hosts, Offer(h)
      PROVE  SelectedInv'
  BY <1>6 DEF Offer, Goto, TypeOK, SelectedInv, vars, storeVars, memoryVars
<1>7. ASSUME NEW h \in Hosts, Return(h)
      PROVE  SelectedInv'
  BY <1>7 DEF Return, Goto, TypeOK, SelectedInv, vars, storeVars, memoryVars
<1>8. ASSUME NEW h \in Hosts, NEW p \in Packages, Collect(h, p)
      PROVE  SelectedInv'
  BY <1>8
     DEF Collect, Goto, LockedPackages, TypeOK, SelectedInv, vars, storeVars,
         memoryVars
<1>9. ASSUME NEW h \in Hosts, Crash(h)
      PROVE  SelectedInv'
  BY <1>9 DEF Crash, Goto, TypeOK, SelectedInv, vars, storeVars, memoryVars
<1>10. ASSUME NEW p \in Packages, Accept(p)
      PROVE  SelectedInv'
  BY <1>10 DEF Accept, Goto, TypeOK, SelectedInv, vars, storeVars, memoryVars
<1>11. CASE UNCHANGED vars
  BY <1>11 DEF TypeOK, SelectedInv, vars, storeVars, memoryVars
<1> QED
  BY <1>1, <1>2, <1>3, <1>4, <1>5, <1>6, <1>7, <1>8, <1>9, <1>10, <1>11
     DEF Next, VisitStep

\* Every step leaves a Package to one publisher.
LEMMA PublisherStep ==
  ASSUME TypeOK, SelectedInv, PublisherInv, [Next]_vars, TypeOK', SelectedInv'
  PROVE  PublisherInv'
<1> USE RuntimeConstants
<1>1. ASSUME NEW h \in Hosts, Recover(h)
      PROVE  PublisherInv'
  BY <1>1
     DEF Recover, Goto, Collected, TypeOK, SelectedInv, PublisherInv, vars,
         storeVars, memoryVars
<1>2. ASSUME NEW h \in Hosts, Inspect(h)
      PROVE  PublisherInv'
  BY <1>2
     DEF Inspect, Goto, UpTo, Stale, Selected, Gaps, Refills, Returned, TypeOK,
         SelectedInv, PublisherInv, vars, storeVars, memoryVars
<1>3. ASSUME NEW h \in Hosts, EndVisit(h)
      PROVE  PublisherInv'
  BY <1>3
     DEF EndVisit, Goto, TypeOK, SelectedInv, PublisherInv, vars, storeVars,
         memoryVars
<1>4. ASSUME NEW h \in Hosts, Reserve(h)
      PROVE  PublisherInv'
  BY <1>4
     DEF Reserve, Goto, TypeOK, SelectedInv, PublisherInv, vars, storeVars,
         memoryVars
<1>5. ASSUME NEW h \in Hosts, Publish(h)
      PROVE  PublisherInv'
  BY <1>5
     DEF Publish, Goto, TypeOK, SelectedInv, PublisherInv, vars, storeVars,
         memoryVars
<1>6. ASSUME NEW h \in Hosts, Offer(h)
      PROVE  PublisherInv'
  BY <1>6
     DEF Offer, Goto, TypeOK, SelectedInv, PublisherInv, vars, storeVars,
         memoryVars
<1>7. ASSUME NEW h \in Hosts, Return(h)
      PROVE  PublisherInv'
  BY <1>7
     DEF Return, Goto, TypeOK, SelectedInv, PublisherInv, vars, storeVars,
         memoryVars
<1>8. ASSUME NEW h \in Hosts, NEW p \in Packages, Collect(h, p)
      PROVE  PublisherInv'
  BY <1>8
     DEF Collect, Goto, LockedPackages, TypeOK, SelectedInv, PublisherInv,
         vars, storeVars, memoryVars
<1>9. ASSUME NEW h \in Hosts, Crash(h)
      PROVE  PublisherInv'
  BY <1>9
     DEF Crash, Goto, TypeOK, SelectedInv, PublisherInv, vars, storeVars,
         memoryVars
<1>10. ASSUME NEW p \in Packages, Accept(p)
      PROVE  PublisherInv'
  BY <1>10
     DEF Accept, Goto, TypeOK, SelectedInv, PublisherInv, vars, storeVars,
         memoryVars
<1>11. CASE UNCHANGED vars
  BY <1>11 DEF TypeOK, SelectedInv, PublisherInv, vars, storeVars, memoryVars
<1> QED
  BY <1>1, <1>2, <1>3, <1>4, <1>5, <1>6, <1>7, <1>8, <1>9, <1>10, <1>11
     DEF Next, VisitStep

\* Every step keeps marks to CLs, and CLs to accepted Packages.
LEMMA StoreStep ==
  ASSUME TypeOK, SelectedInv, PublisherInv, StoreInv, [Next]_vars,
         TypeOK', SelectedInv'
  PROVE  StoreInv'
<1> USE RuntimeConstants
<1>1. ASSUME NEW h \in Hosts, Recover(h)
      PROVE  StoreInv'
  BY <1>1
     DEF Recover, Goto, Collected, TypeOK, SelectedInv, PublisherInv, StoreInv,
         Returned, vars, storeVars, memoryVars
<1>2. ASSUME NEW h \in Hosts, Inspect(h)
      PROVE  StoreInv'
  BY <1>2
     DEF Inspect, Goto, UpTo, Stale, Selected, Gaps, Refills, Returned, TypeOK,
         SelectedInv, PublisherInv, StoreInv, Collected, vars, storeVars,
         memoryVars
<1>3. ASSUME NEW h \in Hosts, EndVisit(h)
      PROVE  StoreInv'
  BY <1>3
     DEF EndVisit, Goto, TypeOK, SelectedInv, PublisherInv, StoreInv, Returned,
         Collected, vars, storeVars, memoryVars
<1>4. ASSUME NEW h \in Hosts, Reserve(h)
      PROVE  StoreInv'
  BY <1>4
     DEF Reserve, Goto, TypeOK, SelectedInv, PublisherInv, StoreInv, Returned,
         Collected, vars, storeVars, memoryVars
<1>5. ASSUME NEW h \in Hosts, Publish(h)
      PROVE  StoreInv'
  BY <1>5
     DEF Publish, Goto, TypeOK, SelectedInv, PublisherInv, StoreInv, Returned,
         Collected, vars, storeVars, memoryVars
<1>6. ASSUME NEW h \in Hosts, Offer(h)
      PROVE  StoreInv'
  BY <1>6
     DEF Offer, Goto, TypeOK, SelectedInv, PublisherInv, StoreInv, Returned,
         Collected, vars, storeVars, memoryVars
<1>7. ASSUME NEW h \in Hosts, Return(h)
      PROVE  StoreInv'
  BY <1>7
     DEF Return, Goto, TypeOK, SelectedInv, PublisherInv, StoreInv, Returned,
         Collected, vars, storeVars, memoryVars
<1>8. ASSUME NEW h \in Hosts, NEW p \in Packages, Collect(h, p)
      PROVE  StoreInv'
  BY <1>8
     DEF Collect, Goto, LockedPackages, TypeOK, SelectedInv, PublisherInv,
         StoreInv, Returned, Collected, vars, storeVars, memoryVars
<1>9. ASSUME NEW h \in Hosts, Crash(h)
      PROVE  StoreInv'
  BY <1>9
     DEF Crash, Goto, TypeOK, SelectedInv, PublisherInv, StoreInv, Returned,
         Collected, vars, storeVars, memoryVars
<1>10. ASSUME NEW p \in Packages, Accept(p)
      PROVE  StoreInv'
  BY <1>10
     DEF Accept, Goto, TypeOK, SelectedInv, PublisherInv, StoreInv, Returned,
         Collected, vars, storeVars, memoryVars
<1>11. CASE UNCHANGED vars
  BY <1>11
     DEF TypeOK, SelectedInv, PublisherInv, StoreInv, Returned, Collected,
         vars, storeVars, memoryVars
<1> QED
  BY <1>1, <1>2, <1>3, <1>4, <1>5, <1>6, <1>7, <1>8, <1>9, <1>10, <1>11
     DEF Next, VisitStep

\* What a Runtime holds, publishes and offers, for every value of the constants.
THEOREM VisitInvariance == Spec => []VisitInv
<1>1. VisitInv /\ [Next]_vars => VisitInv'
  <2> SUFFICES ASSUME VisitInv, [Next]_vars
               PROVE  VisitInv'
    OBVIOUS
  <2>1. TypeOK'
    BY VisitTypeStep DEF VisitInv
  <2>2. SelectedInv'
    BY <2>1, SelectedStep DEF VisitInv
  <2>3. PublisherInv'
    BY <2>1, <2>2, PublisherStep DEF VisitInv
  <2>4. StoreInv'
    BY <2>1, <2>2, StoreStep DEF VisitInv
  <2> QED
    BY <2>1, <2>2, <2>3, <2>4 DEF VisitInv
<1> QED
  BY InitVisit, <1>1, PTL DEF Spec

\* No Runtime offers a Package again once control returned to it, through any
\* number of restarts of any number of Runtimes (host_runtime.py visit).
THEOREM NoOfferAfterReturn == Spec => OnlyAmbiguousIsReoffered
<1> DEFINE Held == \A h \in Hosts : pc[h] = "offer" /\ pc'[h] = "offered" =>
                     returned[job[h]] # h
<1>1. VisitInv => [Held]_vars
  BY DEF VisitInv, SelectedInv
<1>2. []VisitInv => [][Held]_vars
  BY <1>1, PTL
<1> QED
  BY <1>2, VisitInvariance DEF OnlyAmbiguousIsReoffered

----------------------------------------------------------------------------
(* A pool of opportunities. *)

\* What Runtime g has in memory.
Untouched(g) ==
  /\ pc'[g] = pc[g] /\ recovering'[g] = recovering[g]
  /\ recovered'[g] = recovered[g] /\ batch'[g] = batch[g]
  /\ lane'[g] = lane[g] /\ snapshot'[g] = snapshot[g]
  /\ adapters'[g] = adapters[g] /\ available'[g] = available[g]
  /\ closed'[g] = closed[g] /\ starting'[g] = starting[g]
  /\ begun'[g] = begun[g] /\ raised'[g] = raised[g]

\* The counts of one Runtime: AdaptersAreConserved and OpportunitiesAreBounded.
CountsOf(h) ==
  /\ {adapters[h], available[h], closed[h], starting[h]} \subseteq 0 .. MaxOffers
  /\ adapters[h] = available[h] + closed[h] + Cardinality(Submitted(h))
  /\ adapters[h] + starting[h] <= MaxOffers
  /\ Cardinality(batch[h]) <= available[h] \/ pc[h] # "collect"
  /\ Cardinality(Submitted(h)) + starting[h]
       + (IF pc[h] = "collect" THEN Cardinality(batch[h]) ELSE 0) <= MaxOffers

----------------------------------------------------------------------------
\* Sets of Packages are finite.
LEMMA Sized ==
  ASSUME NEW S \in SUBSET Packages
  PROVE  IsFiniteSet(S) /\ Cardinality(S) \in Nat
BY PoolConstants, FS_Subset, FS_CardinalityType

LEMMA Smaller ==
  ASSUME NEW S \in SUBSET Packages, NEW R \in SUBSET S
  PROVE  Cardinality(R) <= Cardinality(S)
BY Sized, FS_Subset

LEMMA Removed ==
  ASSUME NEW S \in SUBSET Packages, NEW p \in S
  PROVE  Cardinality(S \ {p}) = Cardinality(S) - 1
BY Sized, FS_RemoveElement

LEMMA Added ==
  ASSUME NEW S \in SUBSET Packages, NEW p \in Packages \ S
  PROVE  Cardinality(S \cup {p}) = Cardinality(S) + 1
BY Sized, FS_AddElement

LEMMA Together ==
  ASSUME NEW S \in SUBSET Packages, NEW R \in SUBSET Packages
  PROVE  /\ Cardinality(S \cup R) <= Cardinality(S) + Cardinality(R)
         /\ S \cap R = {} => Cardinality(S \cup R) = Cardinality(S) + Cardinality(R)
<1>1. Cardinality(S \cup R) = Cardinality(S) + Cardinality(R) - Cardinality(S \cap R)
  BY Sized, FS_Union
<1>2. Cardinality(S \cap R) \in Nat
  BY Sized
<1>3. S \cap R = {} => Cardinality(S \cap R) = 0
  BY FS_EmptySet
<1> QED
  BY <1>1, <1>2, <1>3, Sized

LEMMA None0 == Cardinality({}) = 0
BY FS_EmptySet

\* A visit takes no more than it has capacity for.
LEMMA UpToIsBounded ==
  ASSUME NEW S \in SUBSET Packages, NEW n \in Int, NEW T \in UpTo(n, S)
  PROVE  T \subseteq S /\ Cardinality(T) <= n
BY Sized DEF UpTo

\* A lane that goes on remains a lane.
LEMMA LaneGoesOn ==
  ASSUME PoolTypeOK, NEW h \in Hosts, NEW p \in Packages, lane[h][p] # "none",
         NEW label \in LaneLabels \ {"none"}, SetLane(h, p, label)
  PROVE  Submitted(h)' = Submitted(h)
BY DEF SetLane, Submitted, InLane, PoolTypeOK

\* What a visit reaps leaves its lanes.
LEMMA ReapedLeave ==
  ASSUME PoolTypeOK, NEW h \in Hosts, NEW n, ReapOffers(h, n)
  PROVE  /\ Submitted(h)' = Submitted(h) \ Ended(h)
         /\ Cardinality(Submitted(h)) =
              Cardinality(Submitted(h) \ Ended(h)) + Cardinality(InLane(h, {"done"}))
                + Cardinality(InLane(h, {"failed"}))
<1> DEFINE D == InLane(h, {"done"})
           F == InLane(h, {"failed"})
           L == Submitted(h) \ Ended(h)
<1>1. Submitted(h)' = L
  BY DEF ReapOffers, Submitted, Ended, InLane, PoolTypeOK
<1>2. Submitted(h) = L \cup (D \cup F)
  BY DEF Submitted, Ended, InLane, PoolTypeOK, LaneLabels, Publishing
<1>3. /\ {D, F, L} \subseteq SUBSET Packages
      /\ D \cap F = {} /\ L \cap (D \cup F) = {}
  BY DEF Submitted, Ended, InLane
<1>4. Cardinality(D \cup F) = Cardinality(D) + Cardinality(F)
  BY <1>3, Together
<1>5. Cardinality(L \cup (D \cup F)) = Cardinality(L) + Cardinality(D \cup F)
  BY <1>3, Together
<1>6. {Cardinality(D), Cardinality(F), Cardinality(L)} \subseteq Nat
  BY <1>3, Sized
<1> HIDE DEF D, F, L
<1>7. Cardinality(Submitted(h)) = Cardinality(L) + Cardinality(D) + Cardinality(F)
  BY <1>2, <1>4, <1>5, <1>6
<1> QED
  BY <1>1, <1>7 DEF D, F, L

----------------------------------------------------------------------------
\* A step of Runtime h, and one of somebody else.
OwnStep(h) == Attend(h) \/ CrashPool(h) \/ \E p \in Packages : LaneStep(h, p)

OtherStep ==
  \/ \E p \in Packages : AcceptForPool(p)
  \/ \E g \in Rivals, p \in Packages : RivalCollects(g, p)

\* Runtimes have memories of their own.
LEMMA OthersUntouched ==
  ASSUME PoolTypeOK, NEW h \in Hosts, OwnStep(h), NEW g \in Hosts \ {h}
  PROVE  Untouched(g)
<1> USE PoolConstants, RuntimeConstants
<1>1. ASSUME StartPool(h)
      PROVE  Untouched(g)
  BY <1>1
     DEF StartPool, Recover, Goto, PoolTypeOK, Untouched, vars, allVars,
         storeVars, memoryVars, poolVars
<1>2. ASSUME NextVisit(h)
      PROVE  Untouched(g)
  BY <1>2
     DEF NextVisit, ReapStarts, ReapOffers, BoundedGoesOn, ElasticGoesOn, Goto,
         PoolTypeOK, Untouched, vars, allVars, storeVars, memoryVars, poolVars
<1>3. ASSUME InspectPool(h)
      PROVE  Untouched(g)
  BY ZenonT(40), <1>3
     DEF InspectPool, SelectFirst, RefreshSnapshot, Goto, PoolTypeOK,
         Untouched, vars, allVars, storeVars, memoryVars, poolVars
<1>4. ASSUME Choose(h)
      PROVE  Untouched(g)
  BY <1>4
     DEF Choose, Goto, PoolTypeOK, Untouched, vars, allVars, storeVars,
         memoryVars, poolVars
<1>5. ASSUME NEW p \in Packages, Submit(h, p)
      PROVE  Untouched(g)
  BY <1>5
     DEF Submit, SetLane, PoolTypeOK, Untouched, vars, allVars, storeVars,
         memoryVars, poolVars
<1>6. ASSUME CrashPool(h)
      PROVE  Untouched(g)
  BY <1>6
     DEF CrashPool, Crash, Goto, PoolTypeOK, Untouched, vars, allVars,
         storeVars, memoryVars, poolVars
<1>7. ASSUME NEW p \in Packages, CollectInLane(h, p)
      PROVE  Untouched(g)
  BY <1>7
     DEF CollectInLane, SetLane, LaneFrame, PoolTypeOK, Untouched, vars,
         allVars, storeVars, memoryVars, poolVars
<1>8. ASSUME NEW p \in Packages, ReserveInLane(h, p)
      PROVE  Untouched(g)
  BY <1>8
     DEF ReserveInLane, SetLane, LaneFrame, PoolTypeOK, Untouched, vars,
         allVars, storeVars, memoryVars, poolVars
<1>9. ASSUME NEW p \in Packages, PublishInLane(h, p)
      PROVE  Untouched(g)
  BY <1>9
     DEF PublishInLane, SetLane, LaneFrame, PoolTypeOK, Untouched, vars,
         allVars, storeVars, memoryVars, poolVars
<1>10. ASSUME NEW p \in Packages, PublicationRaises(h, p)
      PROVE  Untouched(g)
  BY <1>10
     DEF PublicationRaises, SetLane, LaneFrame, PoolTypeOK, Untouched, vars,
         allVars, storeVars, memoryVars, poolVars
<1>11. ASSUME NEW p \in Packages, OfferInLane(h, p)
      PROVE  Untouched(g)
  BY <1>11
     DEF OfferInLane, SetLane, LaneFrame, PoolTypeOK, Untouched, vars, allVars,
         storeVars, memoryVars, poolVars
<1>12. ASSUME NEW p \in Packages, ReturnInLane(h, p)
      PROVE  Untouched(g)
  BY <1>12
     DEF ReturnInLane, SetLane, LaneFrame, PoolTypeOK, Untouched, vars,
         allVars, storeVars, memoryVars, poolVars
<1>13. ASSUME NEW p \in Packages, OfferFails(h, p)
      PROVE  Untouched(g)
  BY <1>13
     DEF OfferFails, SetLane, LaneFrame, PoolTypeOK, Untouched, vars, allVars,
         storeVars, memoryVars, poolVars
<1> QED
  BY <1>1, <1>2, <1>3, <1>4, <1>5, <1>6, <1>7, <1>8, <1>9, <1>10, <1>11, <1>12,
     <1>13
     DEF OwnStep, Attend, LaneStep

LEMMA OtherStepsTouchNothing ==
  ASSUME PoolTypeOK, OtherStep \/ UNCHANGED allVars, NEW g \in Hosts
  PROVE  Untouched(g)
BY DEF OtherStep, AcceptForPool, Accept, RivalCollects, Untouched, allVars,
       vars, memoryVars, poolVars

\* A Runtime's own step keeps its counts.
LEMMA CountsStep ==
  ASSUME PoolTypeOK, NEW h \in Pools, LaneOf(h), CountsOf(h), OwnStep(h)
  PROVE  CountsOf(h)'
<1> USE PoolConstants, RuntimeConstants DEF Pools
<1>1. ASSUME StartPool(h)
      PROVE  CountsOf(h)'
  <2>1. Submitted(h)' = Submitted(h) /\ Submitted(h) = {}
    BY <1>1 DEF StartPool, Recover, Submitted, InLane, LaneOf
  <2>2. Cardinality(Submitted(h)) = 0
    BY <2>1, None0
  <2>3. /\ adapters[h] = 0 /\ available[h] = 0 /\ closed[h] = 0 /\ starting[h] = 0
    BY <1>1 DEF StartPool, Recover, LaneOf
  <2>4. /\ adapters'[h] \in 1 .. MaxOffers /\ available'[h] = adapters'[h]
        /\ UNCHANGED <<closed, starting>> /\ pc'[h] = "inspect"
    BY <1>1 DEF StartPool, Recover, Goto, PoolTypeOK
  <2> QED
    BY <2>1, <2>2, <2>3, <2>4 DEF CountsOf
<1>2. ASSUME NextVisit(h)
      PROVE  CountsOf(h)'
  <2>1. PICK grown \in 0 .. starting[h], lost \in 0 .. starting[h] :
           ReapStarts(h, grown, lost) /\ ReapOffers(h, grown)
    BY <1>2 DEF NextVisit
  <2> DEFINE s == Cardinality(Submitted(h))
             left == Cardinality(Submitted(h) \ Ended(h))
             done == Cardinality(InLane(h, {"done"}))
             failed == Cardinality(InLane(h, {"failed"}))
  <2>2. Submitted(h)' = Submitted(h) \ Ended(h) /\ s = left + done + failed
    BY <2>1, ReapedLeave
  <2>3. {s, left, done, failed} \subseteq Nat
    BY Sized DEF Submitted, InLane
  <2>4. /\ adapters'[h] = adapters[h] + grown
        /\ starting'[h] = starting[h] - grown - lost /\ grown + lost <= starting[h]
        /\ available'[h] = available[h] + done + grown
        /\ closed'[h] = closed[h] + failed
    BY <2>1 DEF ReapStarts, ReapOffers, Reaped, PoolTypeOK
  <2>5. batch'[h] = {} /\ Cardinality(batch'[h]) = 0
    BY <1>2, None0 DEF NextVisit
  <2> HIDE DEF s, left, done, failed
  <2>6. Cardinality(Submitted(h)) = s /\ Cardinality(Submitted(h)') = left
    BY <2>2 DEF s, left
  <2>7. {adapters[h], available[h], closed[h], starting[h]} \subseteq 0 .. MaxOffers
    BY DEF PoolTypeOK
  <2> QED
    BY <2>2, <2>3, <2>4, <2>5, <2>6, <2>7 DEF CountsOf
<1>3. ASSUME InspectPool(h)
      PROVE  CountsOf(h)'
  <2>1. Submitted(h)' = Submitted(h)
    BY <1>3 DEF InspectPool, Submitted, InLane
  <2>2. pc'[h] = "collect" => Cardinality(batch'[h]) <= CapacityNow(h)
    <3>1. PICK page \in UpTo(BatchSize, rows \cap Interest[h]) :
             IF Refills(h, page)
               THEN UNCHANGED pc
               ELSE \E kept \in UpTo(BatchSize, Selected(h, page)) :
                      IF policy[h].elastic
                        THEN RefreshSnapshot(h, kept \ Submitted(h))
                        ELSE SelectFirst(h, kept \ Submitted(h))
      BY <1>3 DEF InspectPool
    <3>2. CASE Refills(h, page)
      BY <1>3, <3>1, <3>2 DEF InspectPool
    <3>3. CASE ~Refills(h, page)
      <4>1. PICK kept \in UpTo(BatchSize, Selected(h, page)) :
               IF policy[h].elastic
                 THEN RefreshSnapshot(h, kept \ Submitted(h))
                 ELSE SelectFirst(h, kept \ Submitted(h))
        BY <3>1, <3>3
      <4>2. CASE policy[h].elastic
        BY <4>1, <4>2 DEF RefreshSnapshot, Goto, PoolTypeOK
      <4>3. CASE ~policy[h].elastic
        <5>1. kept \subseteq Packages
          BY DEF UpTo, Selected, Gaps, PoolTypeOK
        <5>2. PICK S \in UpTo(CapacityNow(h), kept \ Submitted(h)) :
                 batch' = [batch EXCEPT ![h] = S]
          BY <4>1, <4>3 DEF SelectFirst
        <5>3. CapacityNow(h) \in Int
          BY SMTT(20), Sized
             DEF CapacityNow, Capacity, Lesser, PoolTypeOK, Submitted, InLane
        <5>4. Cardinality(S) <= CapacityNow(h)
          BY <5>1, <5>2, <5>3, UpToIsBounded
        <5> QED
          BY <5>2, <5>4 DEF PoolTypeOK
      <4> QED
        BY <4>2, <4>3
    <3> QED
      BY <3>2, <3>3
  <2>3. Cardinality(Submitted(h)) \in Nat
    BY Sized DEF Submitted, InLane
  <2>4. UNCHANGED <<adapters, available, closed, starting>>
    BY <1>3 DEF InspectPool
  <2>5. Cardinality(batch'[h]) \in Int
    <3>1. batch'[h] \subseteq Packages
      BY <1>3
         DEF InspectPool, SelectFirst, RefreshSnapshot, UpTo, Selected, Gaps,
             PoolTypeOK
    <3> QED
      BY <3>1, Sized
  <2>6. {adapters[h], available[h], closed[h], starting[h]} \subseteq 0 .. MaxOffers
    BY DEF PoolTypeOK
  <2> QED
    BY <2>1, <2>2, <2>3, <2>4, <2>5, <2>6
       DEF CountsOf, CapacityNow, Capacity, Lesser
<1>4. ASSUME Choose(h)
      PROVE  CountsOf(h)'
  <2> DEFINE capacity(more, less) ==
               Capacity(Cardinality(Submitted(h)), starting[h] + more,
                        available[h] - less)
             valid(popped) == {p \in popped : StillCandidate(h, p)}
  <2>1. PICK more \in 0 .. 1, less \in 0 .. 1 :
           /\ more = 1 => MayGrow(h)
           /\ less = 1 => MayShed(h) /\ more = 0
           /\ starting' = [starting EXCEPT ![h] = @ + more]
           /\ adapters' = [adapters EXCEPT ![h] = @ - less]
           /\ available' = [available EXCEPT ![h] = @ - less]
           /\ \E popped \in SUBSET snapshot[h] :
                /\ IF capacity(more, less) <= 0
                     THEN popped = {}
                     ELSE \/ Cardinality(valid(popped)) = capacity(more, less)
                          \/ Cardinality(valid(popped)) < capacity(more, less)
                /\ batch' = [batch EXCEPT ![h] = valid(popped)]
    BY <1>4 DEF Choose
  <2>2. Cardinality(Submitted(h)) \in Nat
    BY Sized DEF Submitted, InLane
  <2>3. {adapters[h], available[h], closed[h], starting[h]} \subseteq 0 .. MaxOffers
    BY DEF PoolTypeOK
  <2>4. /\ starting'[h] = starting[h] + more
        /\ adapters'[h] = adapters[h] - less
        /\ available'[h] = available[h] - less
    BY <2>1 DEF PoolTypeOK
  <2>5. Submitted(h)' = Submitted(h) /\ UNCHANGED closed
    BY <1>4 DEF Choose, Submitted, InLane
  <2>6. capacity(more, less) \in Int
    BY <2>1, <2>2, <2>3 DEF Capacity, Lesser
  <2>7. Cardinality(batch'[h]) \in Nat
        /\ (Cardinality(batch'[h]) <= capacity(more, less) \/ Cardinality(batch'[h]) = 0)
    <3>1. PICK popped \in SUBSET snapshot[h] :
                /\ IF capacity(more, less) <= 0
                     THEN popped = {}
                     ELSE \/ Cardinality(valid(popped)) = capacity(more, less)
                          \/ Cardinality(valid(popped)) < capacity(more, less)
                /\ batch' = [batch EXCEPT ![h] = valid(popped)]
      BY <2>1
    <3>2. batch'[h] = valid(popped) /\ valid(popped) \subseteq Packages
      BY <3>1 DEF PoolTypeOK
    <3>3. Cardinality(valid(popped)) \in Nat
      BY <3>2, Sized
    <3>4. popped = {} => Cardinality(valid(popped)) = 0
      BY None0
    <3> HIDE DEF capacity, valid
    <3> QED
      BY <3>1, <3>2, <3>3, <3>4, <2>6
  <2>8. more = 1 => adapters[h] + starting[h] < MaxOffers
    BY <2>1 DEF MayGrow
  <2>9. less = 1 => adapters[h] > 1 /\ available[h] > 1 /\ more = 0
    BY <2>1 DEF MayShed
  <2>10. \/ capacity(more, less) = available[h] - less
            /\ available[h] - less <= MaxOffers - Cardinality(Submitted(h)) - (starting[h] + more)
         \/ capacity(more, less) = MaxOffers - Cardinality(Submitted(h)) - (starting[h] + more)
            /\ MaxOffers - Cardinality(Submitted(h)) - (starting[h] + more) <= available[h] - less
    BY <2>1, <2>2, <2>3 DEF Capacity, Lesser
  <2> HIDE DEF capacity, valid
  <2> QED
    BY <2>1, <2>2, <2>3, <2>4, <2>5, <2>6, <2>7, <2>8, <2>9, <2>10 DEF CountsOf
<1>5. ASSUME NEW p \in Packages, Submit(h, p)
      PROVE  CountsOf(h)'
  <2>1. /\ pc[h] = "collect" /\ UNCHANGED <<pc, adapters, closed, starting>>
        /\ p \in batch[h] /\ batch'[h] = batch[h] \ {p}
        /\ available[h] > 0 /\ available'[h] = available[h] - 1
    BY <1>5 DEF Submit, PoolTypeOK
  <2>2. p \notin Submitted(h)
    BY <2>1 DEF LaneOf
  <2>3. Submitted(h)' = Submitted(h) \cup {p}
    BY <1>5
       DEF Submit, SetLane, Submitted, InLane, PoolTypeOK, LaneLabels,
           Publishing
  <2>4. Cardinality(Submitted(h)') = Cardinality(Submitted(h)) + 1
    BY <2>2, <2>3, Added DEF Submitted, InLane
  <2>5. Cardinality(batch'[h]) = Cardinality(batch[h]) - 1
    BY <2>1, Removed DEF PoolTypeOK
  <2>6. Cardinality(Submitted(h)) \in Nat /\ Cardinality(batch[h]) \in Nat
    BY Sized DEF Submitted, InLane, PoolTypeOK
  <2>7. {adapters[h], available[h], closed[h], starting[h]} \subseteq 0 .. MaxOffers
    BY DEF PoolTypeOK
  <2> QED
    BY <2>1, <2>4, <2>5, <2>6, <2>7 DEF CountsOf
<1>6. ASSUME CrashPool(h)
      PROVE  CountsOf(h)'
  <2>1. Submitted(h)' = {}
    BY <1>6 DEF CrashPool, Submitted, InLane, PoolTypeOK
  <2>2. Cardinality(Submitted(h)') = 0
    BY <2>1, None0
  <2>3. /\ adapters'[h] = 0 /\ available'[h] = 0 /\ closed'[h] = 0 /\ starting'[h] = 0
        /\ pc'[h] = "down"
    BY <1>6 DEF CrashPool, Crash, Goto, PoolTypeOK
  <2> QED
    BY <2>2, <2>3 DEF CountsOf
<1>7. ASSUME NEW p \in Packages, CollectInLane(h, p)
      PROVE  CountsOf(h)'
  <2>1. Submitted(h)' = Submitted(h)
    BY <1>7, LaneGoesOn DEF CollectInLane, LaneLabels, Publishing
  <2> QED
    BY <1>7, <2>1
       DEF CollectInLane, SetLane, LaneFrame, PoolTypeOK, CountsOf, vars,
           allVars, storeVars, memoryVars, poolVars
<1>8. ASSUME NEW p \in Packages, ReserveInLane(h, p)
      PROVE  CountsOf(h)'
  <2>1. Submitted(h)' = Submitted(h)
    BY <1>8, LaneGoesOn DEF ReserveInLane, LaneLabels, Publishing
  <2> QED
    BY <1>8, <2>1
       DEF ReserveInLane, SetLane, LaneFrame, PoolTypeOK, CountsOf, vars,
           allVars, storeVars, memoryVars, poolVars
<1>9. ASSUME NEW p \in Packages, PublishInLane(h, p)
      PROVE  CountsOf(h)'
  <2>1. Submitted(h)' = Submitted(h)
    BY <1>9, LaneGoesOn DEF PublishInLane, LaneLabels, Publishing
  <2> QED
    BY <1>9, <2>1
       DEF PublishInLane, SetLane, LaneFrame, PoolTypeOK, CountsOf, vars,
           allVars, storeVars, memoryVars, poolVars
<1>10. ASSUME NEW p \in Packages, PublicationRaises(h, p)
      PROVE  CountsOf(h)'
  <2>1. CASE policy[h].parallel
    <3>1. Submitted(h)' = Submitted(h)
      BY <1>10, <2>1, LaneGoesOn DEF PublicationRaises, LaneLabels, Publishing
    <3> QED
      BY <1>10, <2>1, <3>1
         DEF PublicationRaises, SetLane, LaneFrame, PoolTypeOK, CountsOf,
             memoryVars
  <2>2. CASE ~policy[h].parallel
    <3>1. p \in Submitted(h) /\ Submitted(h)' = Submitted(h) \ {p}
      BY <1>10, <2>2
         DEF PublicationRaises, SetLane, Submitted, InLane, Publishing,
             LaneLabels, PoolTypeOK
    <3>2. Cardinality(Submitted(h)') = Cardinality(Submitted(h)) - 1
      BY <3>1, Removed DEF Submitted, InLane
    <3>3. /\ available'[h] = available[h] + 1
          /\ UNCHANGED <<adapters, closed, starting, pc, batch>>
      BY <1>10, <2>2
         DEF PublicationRaises, SetLane, LaneFrame, PoolTypeOK, memoryVars
    <3>4. Cardinality(Submitted(h)) \in Nat /\ Cardinality(Submitted(h)') \in Nat
          /\ Cardinality(batch[h]) \in Nat
      BY Sized, <3>1 DEF Submitted, InLane, PoolTypeOK
    <3>5. {adapters[h], available[h], closed[h], starting[h]} \subseteq 0 .. MaxOffers
      BY DEF PoolTypeOK
    <3> QED
      BY <3>2, <3>3, <3>4, <3>5 DEF CountsOf
  <2> QED
    BY <2>1, <2>2
<1>11. ASSUME NEW p \in Packages, OfferInLane(h, p)
      PROVE  CountsOf(h)'
  <2>1. Submitted(h)' = Submitted(h)
    BY <1>11, LaneGoesOn DEF OfferInLane, LaneLabels, Publishing
  <2> QED
    BY <1>11, <2>1
       DEF OfferInLane, SetLane, LaneFrame, PoolTypeOK, CountsOf, vars,
           allVars, storeVars, memoryVars, poolVars
<1>12. ASSUME NEW p \in Packages, ReturnInLane(h, p)
      PROVE  CountsOf(h)'
  <2>1. Submitted(h)' = Submitted(h)
    BY <1>12, LaneGoesOn DEF ReturnInLane, LaneLabels, Publishing
  <2> QED
    BY <1>12, <2>1
       DEF ReturnInLane, SetLane, LaneFrame, PoolTypeOK, CountsOf, vars,
           allVars, storeVars, memoryVars, poolVars
<1>13. ASSUME NEW p \in Packages, OfferFails(h, p)
      PROVE  CountsOf(h)'
  <2>1. Submitted(h)' = Submitted(h)
    BY <1>13, LaneGoesOn DEF OfferFails, LaneLabels, Publishing
  <2> QED
    BY <1>13, <2>1
       DEF OfferFails, SetLane, LaneFrame, PoolTypeOK, CountsOf, vars, allVars,
           storeVars, memoryVars, poolVars
<1> QED
  BY <1>1, <1>2, <1>3, <1>4, <1>5, <1>6, <1>7, <1>8, <1>9, <1>10, <1>11, <1>12,
     <1>13
     DEF OwnStep, Attend, LaneStep

----------------------------------------------------------------------------
\* A Runtime's own step keeps the types.
LEMMA TypeStep ==
  ASSUME PoolTypeOK, NEW h \in Pools, LaneOf(h), OwnStep(h), CountsOf(h)'
  PROVE  PoolTypeOK'
<1> USE PoolConstants, RuntimeConstants DEF Pools
<1>1. ASSUME StartPool(h)
      PROVE  PoolTypeOK'
  <2>1. {adapters', available'} \subseteq [Hosts -> 0 .. MaxOffers]
    BY <1>1 DEF StartPool, PoolTypeOK
  <2>2. recovered' \in [Hosts -> SUBSET Packages]
    BY <1>1 DEF StartPool, Recover, PoolTypeOK
  <2>3. /\ reserved' \subseteq Packages /\ rows' \subseteq Packages
        /\ recovering' \in [Hosts -> BOOLEAN]
        /\ pc' \in [Hosts -> {"down", "inspect", "choose", "collect"}]
    BY <1>1 DEF StartPool, Recover, Collected, Goto, PoolTypeOK
  <2> QED
    BY <1>1, <2>1, <2>2, <2>3 DEF StartPool, Recover, PoolTypeOK
<1>2. ASSUME NextVisit(h)
      PROVE  PoolTypeOK'
  <2>1. PICK grown \in 0 .. starting[h], lost \in 0 .. starting[h] :
           ReapStarts(h, grown, lost) /\ ReapOffers(h, grown)
    BY <1>2 DEF NextVisit
  <2>2. {adapters', available', closed', starting'} \subseteq [Hosts -> 0 .. MaxOffers]
    BY <2>1 DEF ReapStarts, ReapOffers, CountsOf, PoolTypeOK
  <2>3. lane' \in [Hosts -> [Packages -> LaneLabels]]
    BY <2>1 DEF ReapOffers, PoolTypeOK, LaneLabels
  <2>4. pc' \in [Hosts -> {"down", "inspect", "choose", "collect"}]
    <3>1. \/ UNCHANGED pc
          \/ Goto(h, "inspect") \/ Goto(h, "choose")
      BY <1>2 DEF NextVisit, BoundedGoesOn, ElasticGoesOn
    <3> QED
      BY <3>1 DEF Goto, PoolTypeOK
  <2>5. UNCHANGED <<storeVars, recovering, recovered, batch, crashes, policy,
                    snapshot, begun, raised, failures>>
    BY <1>2 DEF NextVisit
  <2> QED
    BY <2>2, <2>3, <2>4, <2>5 DEF PoolTypeOK, storeVars
<1>3. ASSUME InspectPool(h)
      PROVE  PoolTypeOK'
  <2>1. PICK page \in SUBSET (rows \cap Interest[h]) :
           /\ rows' = rows \ Stale(page)
           /\ \/ /\ batch' = [batch EXCEPT ![h] = Selected(h, page)]
                 /\ UNCHANGED <<pc, recovering, snapshot>>
              \/ /\ \E kept \in SUBSET Selected(h, page) :
                      \/ RefreshSnapshot(h, kept \ Submitted(h))
                      \/ SelectFirst(h, kept \ Submitted(h))
                 /\ recovering' = [recovering EXCEPT ![h] = FALSE]
    BY <1>3 DEF InspectPool, UpTo
  <2>2. Selected(h, page) \subseteq Packages
    BY <2>1 DEF Selected, Gaps, PoolTypeOK
  <2>3. /\ {batch', snapshot'} \subseteq [Hosts -> SUBSET Packages]
        /\ pc' \in [Hosts -> {"down", "inspect", "choose", "collect"}]
    <3>1. CASE UNCHANGED <<pc, recovering, snapshot>>
               /\ batch' = [batch EXCEPT ![h] = Selected(h, page)]
      BY <2>2, <3>1 DEF PoolTypeOK
    <3>2. ASSUME NEW kept \in SUBSET Selected(h, page),
                 RefreshSnapshot(h, kept \ Submitted(h))
          PROVE  /\ {batch', snapshot'} \subseteq [Hosts -> SUBSET Packages]
                 /\ pc' \in [Hosts -> {"down", "inspect", "choose", "collect"}]
      BY <2>2, <3>2 DEF RefreshSnapshot, Goto, PoolTypeOK
    <3>3. ASSUME NEW kept \in SUBSET Selected(h, page),
                 SelectFirst(h, kept \ Submitted(h))
          PROVE  /\ {batch', snapshot'} \subseteq [Hosts -> SUBSET Packages]
                 /\ pc' \in [Hosts -> {"down", "inspect", "choose", "collect"}]
      BY <2>2, <3>3 DEF SelectFirst, UpTo, Goto, PoolTypeOK
    <3> QED
      BY <2>1, <3>1, <3>2, <3>3
  <2>4. recovering' \in [Hosts -> BOOLEAN] /\ rows' \subseteq Packages
    BY <2>1 DEF PoolTypeOK
  <2> QED
    BY <1>3, <2>3, <2>4 DEF InspectPool, PoolTypeOK
<1>4. ASSUME Choose(h)
      PROVE  PoolTypeOK'
  <2>1. {adapters', available', starting'} \subseteq [Hosts -> 0 .. MaxOffers]
    BY <1>4 DEF Choose, CountsOf, PoolTypeOK
  <2>2. {batch', snapshot'} \subseteq [Hosts -> SUBSET Packages]
    <3>1. PICK popped \in SUBSET snapshot[h] :
             /\ snapshot' = [snapshot EXCEPT ![h] = @ \ popped]
             /\ batch' = [batch EXCEPT ![h] = {p \in popped : StillCandidate(h, p)}]
      BY <1>4 DEF Choose
    <3> QED
      BY <3>1 DEF PoolTypeOK
  <2>3. pc' \in [Hosts -> {"down", "inspect", "choose", "collect"}]
    BY <1>4 DEF Choose, Goto, PoolTypeOK
  <2> QED
    BY <1>4, <2>1, <2>2, <2>3 DEF Choose, storeVars, PoolTypeOK
<1>5. ASSUME NEW p \in Packages, Submit(h, p)
      PROVE  PoolTypeOK'
  BY <1>5
     DEF Submit, SetLane, PoolTypeOK, CountsOf, LaneLabels, Publishing, vars,
         allVars, storeVars, memoryVars, poolVars
<1>6. ASSUME CrashPool(h)
      PROVE  PoolTypeOK'
  BY <1>6
     DEF CrashPool, Crash, Goto, PoolTypeOK, CountsOf, LaneLabels, Publishing,
         vars, allVars, storeVars, memoryVars, poolVars
<1>7. ASSUME NEW p \in Packages, CollectInLane(h, p)
      PROVE  PoolTypeOK'
  <2>1. PICK label \in LaneLabels : SetLane(h, p, label)
    BY <1>7 DEF CollectInLane, LaneLabels, Publishing
  <2>2. lane' \in [Hosts -> [Packages -> LaneLabels]]
    BY <2>1 DEF SetLane, PoolTypeOK
  <2>3. available' = available \/ available' = [available EXCEPT ![h] = @ + 1]
    BY <1>7 DEF CollectInLane
  <2>4. {adapters', available', closed', starting'} \subseteq [Hosts -> 0 .. MaxOffers]
    <3>1. UNCHANGED <<adapters, closed, starting>>
      BY <1>7 DEF CollectInLane, LaneFrame
    <3>2. available'[h] \in 0 .. MaxOffers
      BY DEF CountsOf
    <3> QED
      BY <2>3, <3>1, <3>2 DEF PoolTypeOK
  <2>5. /\ {accepted', rows', reserved'} \subseteq SUBSET Packages
        /\ returned' \in [Packages -> Hosts \cup {None}]
    BY <1>7 DEF CollectInLane, LaneFrame, PoolTypeOK, Pools
  <2>8. collector' \in [Packages -> Hosts \cup {None}]
    <3>1. collector' = collector \/ collector' = [collector EXCEPT ![p] = h]
      BY <1>7 DEF CollectInLane
    <3> QED
      BY <3>1 DEF PoolTypeOK, Pools
  <2>6. /\ {recovered', batch', snapshot', begun', raised'}
             \subseteq [Hosts -> SUBSET Packages]
        /\ {crashes', failures'} \subseteq Nat
    BY <1>7 DEF CollectInLane, LaneFrame, memoryVars, PoolTypeOK
  <2>7. UNCHANGED <<pc, recovering, policy>>
    BY <1>7 DEF CollectInLane, LaneFrame, memoryVars
  <2> QED
    BY <2>2, <2>4, <2>5, <2>6, <2>7, <2>8 DEF PoolTypeOK
<1>8. ASSUME NEW p \in Packages, ReserveInLane(h, p)
      PROVE  PoolTypeOK'
  <2>1. PICK label \in LaneLabels : SetLane(h, p, label)
    BY <1>8 DEF ReserveInLane, LaneLabels, Publishing
  <2>2. lane' \in [Hosts -> [Packages -> LaneLabels]]
    BY <2>1 DEF SetLane, PoolTypeOK
  <2>3. available' = available \/ available' = [available EXCEPT ![h] = @ + 1]
    BY <1>8 DEF ReserveInLane
  <2>4. {adapters', available', closed', starting'} \subseteq [Hosts -> 0 .. MaxOffers]
    <3>1. UNCHANGED <<adapters, closed, starting>>
      BY <1>8 DEF ReserveInLane, LaneFrame
    <3>2. available'[h] \in 0 .. MaxOffers
      BY DEF CountsOf
    <3> QED
      BY <2>3, <3>1, <3>2 DEF PoolTypeOK
  <2>5. /\ {accepted', rows', reserved'} \subseteq SUBSET Packages
        /\ returned' \in [Packages -> Hosts \cup {None}]
    BY <1>8 DEF ReserveInLane, LaneFrame, PoolTypeOK, Pools
  <2>8. collector' \in [Packages -> Hosts \cup {None}]
    <3>1. collector' = collector \/ collector' = [collector EXCEPT ![p] = h]
      BY <1>8 DEF ReserveInLane
    <3> QED
      BY <3>1 DEF PoolTypeOK, Pools
  <2>6. /\ {recovered', batch', snapshot', begun', raised'}
             \subseteq [Hosts -> SUBSET Packages]
        /\ {crashes', failures'} \subseteq Nat
    BY <1>8 DEF ReserveInLane, LaneFrame, memoryVars, PoolTypeOK
  <2>7. UNCHANGED <<pc, recovering, policy>>
    BY <1>8 DEF ReserveInLane, LaneFrame, memoryVars
  <2> QED
    BY <2>2, <2>4, <2>5, <2>6, <2>7, <2>8 DEF PoolTypeOK
<1>9. ASSUME NEW p \in Packages, PublishInLane(h, p)
      PROVE  PoolTypeOK'
  <2>1. PICK label \in LaneLabels : SetLane(h, p, label)
    BY <1>9 DEF PublishInLane, LaneLabels, Publishing
  <2>2. lane' \in [Hosts -> [Packages -> LaneLabels]]
    BY <2>1 DEF SetLane, PoolTypeOK
  <2>3. available' = available \/ available' = [available EXCEPT ![h] = @ + 1]
    BY <1>9 DEF PublishInLane
  <2>4. {adapters', available', closed', starting'} \subseteq [Hosts -> 0 .. MaxOffers]
    <3>1. UNCHANGED <<adapters, closed, starting>>
      BY <1>9 DEF PublishInLane, LaneFrame
    <3>2. available'[h] \in 0 .. MaxOffers
      BY DEF CountsOf
    <3> QED
      BY <2>3, <3>1, <3>2 DEF PoolTypeOK
  <2>5. /\ {accepted', rows', reserved'} \subseteq SUBSET Packages
        /\ returned' \in [Packages -> Hosts \cup {None}]
    BY <1>9 DEF PublishInLane, LaneFrame, PoolTypeOK, Pools
  <2>8. collector' \in [Packages -> Hosts \cup {None}]
    <3>1. collector' = collector \/ collector' = [collector EXCEPT ![p] = h]
      BY <1>9 DEF PublishInLane
    <3> QED
      BY <3>1 DEF PoolTypeOK, Pools
  <2>6. /\ {recovered', batch', snapshot', begun', raised'}
             \subseteq [Hosts -> SUBSET Packages]
        /\ {crashes', failures'} \subseteq Nat
    BY <1>9 DEF PublishInLane, LaneFrame, memoryVars, PoolTypeOK
  <2>7. UNCHANGED <<pc, recovering, policy>>
    BY <1>9 DEF PublishInLane, LaneFrame, memoryVars
  <2> QED
    BY <2>2, <2>4, <2>5, <2>6, <2>7, <2>8 DEF PoolTypeOK
<1>10. ASSUME NEW p \in Packages, PublicationRaises(h, p)
      PROVE  PoolTypeOK'
  <2>1. PICK label \in LaneLabels : SetLane(h, p, label)
    BY <1>10 DEF PublicationRaises, LaneLabels, Publishing
  <2>2. lane' \in [Hosts -> [Packages -> LaneLabels]]
    BY <2>1 DEF SetLane, PoolTypeOK
  <2>3. available' = available \/ available' = [available EXCEPT ![h] = @ + 1]
    <3>1. CASE policy[h].parallel
      BY <1>10, <3>1 DEF PublicationRaises
    <3>2. CASE ~policy[h].parallel
      BY <1>10, <3>2 DEF PublicationRaises
    <3> QED
      BY <3>1, <3>2
  <2>4. {adapters', available', closed', starting'} \subseteq [Hosts -> 0 .. MaxOffers]
    <3>1. UNCHANGED <<adapters, closed, starting>>
      BY <1>10 DEF PublicationRaises, LaneFrame
    <3>2. available'[h] \in 0 .. MaxOffers
      BY DEF CountsOf
    <3> QED
      BY <2>3, <3>1, <3>2 DEF PoolTypeOK
  <2>5. /\ {accepted', rows', reserved'} \subseteq SUBSET Packages
        /\ returned' \in [Packages -> Hosts \cup {None}]
    BY <1>10 DEF PublicationRaises, LaneFrame, PoolTypeOK, Pools
  <2>8. collector' \in [Packages -> Hosts \cup {None}]
    <3>1. collector' = collector \/ collector' = [collector EXCEPT ![p] = h]
      BY <1>10 DEF PublicationRaises
    <3> QED
      BY <3>1 DEF PoolTypeOK, Pools
  <2>6. /\ {recovered', batch', snapshot', begun', raised'}
             \subseteq [Hosts -> SUBSET Packages]
        /\ {crashes', failures'} \subseteq Nat
    BY <1>10 DEF PublicationRaises, LaneFrame, memoryVars, PoolTypeOK
  <2>7. UNCHANGED <<pc, recovering, policy>>
    BY <1>10 DEF PublicationRaises, LaneFrame, memoryVars
  <2> QED
    BY <2>2, <2>4, <2>5, <2>6, <2>7, <2>8 DEF PoolTypeOK
<1>11. ASSUME NEW p \in Packages, OfferInLane(h, p)
      PROVE  PoolTypeOK'
  <2>1. PICK label \in LaneLabels : SetLane(h, p, label)
    BY <1>11 DEF OfferInLane, LaneLabels, Publishing
  <2>2. lane' \in [Hosts -> [Packages -> LaneLabels]]
    BY <2>1 DEF SetLane, PoolTypeOK
  <2>3. available' = available \/ available' = [available EXCEPT ![h] = @ + 1]
    BY <1>11 DEF OfferInLane
  <2>4. {adapters', available', closed', starting'} \subseteq [Hosts -> 0 .. MaxOffers]
    <3>1. UNCHANGED <<adapters, closed, starting>>
      BY <1>11 DEF OfferInLane, LaneFrame
    <3>2. available'[h] \in 0 .. MaxOffers
      BY DEF CountsOf
    <3> QED
      BY <2>3, <3>1, <3>2 DEF PoolTypeOK
  <2>5. /\ {accepted', rows', reserved'} \subseteq SUBSET Packages
        /\ returned' \in [Packages -> Hosts \cup {None}]
    BY <1>11 DEF OfferInLane, LaneFrame, PoolTypeOK, Pools
  <2>8. collector' \in [Packages -> Hosts \cup {None}]
    <3>1. collector' = collector \/ collector' = [collector EXCEPT ![p] = h]
      BY <1>11 DEF OfferInLane
    <3> QED
      BY <3>1 DEF PoolTypeOK, Pools
  <2>6. /\ {recovered', batch', snapshot', begun', raised'}
             \subseteq [Hosts -> SUBSET Packages]
        /\ {crashes', failures'} \subseteq Nat
    BY <1>11 DEF OfferInLane, LaneFrame, memoryVars, PoolTypeOK
  <2>7. UNCHANGED <<pc, recovering, policy>>
    BY <1>11 DEF OfferInLane, LaneFrame, memoryVars
  <2> QED
    BY <2>2, <2>4, <2>5, <2>6, <2>7, <2>8 DEF PoolTypeOK
<1>12. ASSUME NEW p \in Packages, ReturnInLane(h, p)
      PROVE  PoolTypeOK'
  <2>1. PICK label \in LaneLabels : SetLane(h, p, label)
    BY <1>12 DEF ReturnInLane, LaneLabels, Publishing
  <2>2. lane' \in [Hosts -> [Packages -> LaneLabels]]
    BY <2>1 DEF SetLane, PoolTypeOK
  <2>3. available' = available \/ available' = [available EXCEPT ![h] = @ + 1]
    BY <1>12 DEF ReturnInLane
  <2>4. {adapters', available', closed', starting'} \subseteq [Hosts -> 0 .. MaxOffers]
    <3>1. UNCHANGED <<adapters, closed, starting>>
      BY <1>12 DEF ReturnInLane, LaneFrame
    <3>2. available'[h] \in 0 .. MaxOffers
      BY DEF CountsOf
    <3> QED
      BY <2>3, <3>1, <3>2 DEF PoolTypeOK
  <2>5. /\ {accepted', rows', reserved'} \subseteq SUBSET Packages
        /\ returned' \in [Packages -> Hosts \cup {None}]
    BY <1>12 DEF ReturnInLane, LaneFrame, PoolTypeOK, Pools
  <2>8. collector' \in [Packages -> Hosts \cup {None}]
    <3>1. collector' = collector \/ collector' = [collector EXCEPT ![p] = h]
      BY <1>12 DEF ReturnInLane
    <3> QED
      BY <3>1 DEF PoolTypeOK, Pools
  <2>6. /\ {recovered', batch', snapshot', begun', raised'}
             \subseteq [Hosts -> SUBSET Packages]
        /\ {crashes', failures'} \subseteq Nat
    BY <1>12 DEF ReturnInLane, LaneFrame, memoryVars, PoolTypeOK
  <2>7. UNCHANGED <<pc, recovering, policy>>
    BY <1>12 DEF ReturnInLane, LaneFrame, memoryVars
  <2> QED
    BY <2>2, <2>4, <2>5, <2>6, <2>7, <2>8 DEF PoolTypeOK
<1>13. ASSUME NEW p \in Packages, OfferFails(h, p)
      PROVE  PoolTypeOK'
  <2>1. PICK label \in LaneLabels : SetLane(h, p, label)
    BY <1>13 DEF OfferFails, LaneLabels, Publishing
  <2>2. lane' \in [Hosts -> [Packages -> LaneLabels]]
    BY <2>1 DEF SetLane, PoolTypeOK
  <2>3. available' = available \/ available' = [available EXCEPT ![h] = @ + 1]
    BY <1>13 DEF OfferFails
  <2>4. {adapters', available', closed', starting'} \subseteq [Hosts -> 0 .. MaxOffers]
    <3>1. UNCHANGED <<adapters, closed, starting>>
      BY <1>13 DEF OfferFails, LaneFrame
    <3>2. available'[h] \in 0 .. MaxOffers
      BY DEF CountsOf
    <3> QED
      BY <2>3, <3>1, <3>2 DEF PoolTypeOK
  <2>5. /\ {accepted', rows', reserved'} \subseteq SUBSET Packages
        /\ returned' \in [Packages -> Hosts \cup {None}]
    BY <1>13 DEF OfferFails, LaneFrame, PoolTypeOK, Pools
  <2>8. collector' \in [Packages -> Hosts \cup {None}]
    <3>1. collector' = collector \/ collector' = [collector EXCEPT ![p] = h]
      BY <1>13 DEF OfferFails
    <3> QED
      BY <3>1 DEF PoolTypeOK, Pools
  <2>6. /\ {recovered', batch', snapshot', begun', raised'}
             \subseteq [Hosts -> SUBSET Packages]
        /\ {crashes', failures'} \subseteq Nat
    BY <1>13 DEF OfferFails, LaneFrame, memoryVars, PoolTypeOK
  <2>7. UNCHANGED <<pc, recovering, policy>>
    BY <1>13 DEF OfferFails, LaneFrame, memoryVars
  <2> QED
    BY <2>2, <2>4, <2>5, <2>6, <2>7, <2>8 DEF PoolTypeOK
<1> QED
  BY <1>1, <1>2, <1>3, <1>4, <1>5, <1>6, <1>7, <1>8, <1>9, <1>10, <1>11, <1>12,
     <1>13
     DEF OwnStep, Attend, LaneStep

LEMMA LaneIsSet ==
  ASSUME PoolTypeOK, NEW h \in Hosts, NEW p \in Packages, NEW label, SetLane(h, p, label)
  PROVE  \A q \in Packages : lane'[h][q] = IF q = p THEN label ELSE lane[h][q]
BY DEF SetLane, PoolTypeOK

\* A lane of p that goes on is the only one that changes.
LEMMA Relabels ==
  ASSUME PoolTypeOK, NEW h \in Hosts, NEW p \in Packages, NEW label \in LaneLabels,
         lane[h][p] # "none",
         \A q \in Packages : lane'[h][q] = IF q = p THEN label ELSE lane[h][q]
  PROVE  /\ Submitted(h)' \subseteq Submitted(h) /\ p \in Submitted(h)
         /\ Submitted(h) \ {p} \subseteq Submitted(h)'
         /\ \A S : /\ InLane(h, S)' \subseteq InLane(h, S) \cup {p}
                   /\ p \in InLane(h, S)' => label \in S
                   /\ lane[h][p] \in S => p \in InLane(h, S)
BY ZenonT(40) DEF Submitted, InLane, PoolTypeOK

\* A Runtime's own step keeps what its lanes are about.
LEMMA LaneOwn ==
  ASSUME PoolTypeOK, NEW h \in Pools, LaneOf(h), OwnStep(h)
  PROVE  LaneOf(h)'
<1> USE PoolConstants, RuntimeConstants DEF Pools
<1>1. ASSUME StartPool(h)
      PROVE  LaneOf(h)'
  BY <1>1
     DEF StartPool, Recover, Goto, LaneOf, Submitted, InLane, LaneLabels,
         Publishing, PoolTypeOK, vars, allVars, storeVars, memoryVars, poolVars
<1>2. ASSUME NextVisit(h)
      PROVE  LaneOf(h)'
  <2>1. PICK grown \in 0 .. starting[h], lost \in 0 .. starting[h] :
           ReapStarts(h, grown, lost) /\ ReapOffers(h, grown)
    BY <1>2 DEF NextVisit
  <2>2. lane' = [lane EXCEPT ![h] =
                   [p \in Packages |-> IF p \in Ended(h) THEN "none" ELSE @[p]]]
    BY <2>1 DEF ReapOffers
  <2>3. /\ Submitted(h)' \subseteq Submitted(h)
        /\ \A S \in {{"publish", "offer"}, Publishing \cup {"offer"}} :
             InLane(h, S)' \subseteq InLane(h, S)
    BY <2>2 DEF Submitted, InLane, PoolTypeOK, Publishing
  <2>4. /\ pc[h] = "collect" /\ pc'[h] \in {"inspect", "choose", "collect"}
        /\ batch'[h] = {}
        /\ UNCHANGED <<snapshot, begun, raised, recovering, recovered, reserved, returned>>
    BY <1>2
       DEF NextVisit, BoundedGoesOn, ElasticGoesOn, Goto, PoolTypeOK, storeVars
  <2>5. ~recovering[h]
    BY <2>4 DEF LaneOf
  <2> QED
    BY <2>3, <2>4, <2>5 DEF LaneOf
<1>3. ASSUME InspectPool(h)
      PROVE  LaneOf(h)'
  <2>1. PICK page \in SUBSET (rows \cap Interest[h]) :
           \/ /\ batch' = [batch EXCEPT ![h] = Selected(h, page)]
              /\ UNCHANGED <<pc, recovering, snapshot>>
           \/ /\ \E kept \in SUBSET Selected(h, page) :
                   \/ RefreshSnapshot(h, kept \ Submitted(h))
                   \/ SelectFirst(h, kept \ Submitted(h))
              /\ recovering' = [recovering EXCEPT ![h] = FALSE]
    BY <1>3 DEF InspectPool, UpTo
  <2>2. /\ Selected(h, page) \subseteq Interest[h]
        /\ \A p \in Selected(h, page) \ Submitted(h) :
             p \notin begun[h] /\ returned[p] # h
    BY <2>1 DEF Selected, Gaps, Stale, Returned, LaneOf, PoolTypeOK
  <2>3. /\ pc[h] = "inspect"
        /\ UNCHANGED <<lane, begun, raised, recovered, reserved, returned>>
    BY <1>3 DEF InspectPool
  <2>4. Submitted(h)' = Submitted(h) /\ \A S : InLane(h, S)' = InLane(h, S)
    BY <2>3 DEF Submitted, InLane
  <2>5. CASE /\ batch' = [batch EXCEPT ![h] = Selected(h, page)]
             /\ UNCHANGED <<pc, recovering, snapshot>>
    <3>1. batch'[h] = Selected(h, page)
      BY <2>5 DEF PoolTypeOK
    <3> QED
      BY ZenonT(40), <2>2, <2>3, <2>4, <2>5, <3>1 DEF LaneOf
  <2>6. ASSUME NEW kept \in SUBSET Selected(h, page),
               RefreshSnapshot(h, kept \ Submitted(h)), ~recovering'[h]
        PROVE  LaneOf(h)'
    <3>1. pc'[h] = "choose" /\ batch'[h] = {} /\ snapshot'[h] = kept \ Submitted(h)
      BY <2>6 DEF RefreshSnapshot, Goto, PoolTypeOK
    <3> QED
      BY <2>2, <2>3, <2>4, <2>6, <3>1 DEF LaneOf
  <2>7. ASSUME NEW kept \in SUBSET Selected(h, page),
               SelectFirst(h, kept \ Submitted(h)), ~recovering'[h]
        PROVE  LaneOf(h)'
    <3>1. /\ pc'[h] = "collect" /\ batch'[h] \subseteq kept \ Submitted(h)
          /\ snapshot' = snapshot
      BY <2>7 DEF SelectFirst, UpTo, Goto, PoolTypeOK
    <3>2. batch'[h] \subseteq Selected(h, page) \ Submitted(h)
      BY <3>1
    <3>3. /\ begun'[h] \cup InLane(h, {"publish", "offer"})' \subseteq reserved'
          /\ recovered'[h] \cup snapshot'[h] \cup Submitted(h)' \subseteq Interest[h]
      BY <2>3, <2>4, <3>1 DEF LaneOf
    <3>4. \A p \in InLane(h, Publishing \cup {"offer"})' \cup (batch'[h] \ Submitted(h)') :
            p \notin begun'[h] /\ returned'[p] # h
      BY <2>2, <2>3, <2>4, <3>2 DEF LaneOf
    <3>5. Submitted(h)' \cup batch'[h] \cup snapshot'[h] \cup recovered'[h] \subseteq Interest[h]
      BY <2>2, <3>2, <3>3
    <3>6. batch'[h] \cap Submitted(h)' = {}
      BY <2>4, <3>2
    <3> QED
      BY <2>7, <3>1, <3>3, <3>4, <3>5, <3>6 DEF LaneOf
  <2>8. ASSUME NEW kept \in SUBSET Selected(h, page),
               \/ RefreshSnapshot(h, kept \ Submitted(h))
               \/ SelectFirst(h, kept \ Submitted(h)),
               recovering' = [recovering EXCEPT ![h] = FALSE]
        PROVE  LaneOf(h)'
    <3>1. ~recovering'[h]
      BY <2>8 DEF PoolTypeOK
    <3> QED
      BY <2>6, <2>7, <2>8, <3>1
  <2> QED
    BY <2>1, <2>5, <2>8
<1>4. ASSUME Choose(h)
      PROVE  LaneOf(h)'
  <2>1. PICK popped \in SUBSET snapshot[h] :
           /\ snapshot' = [snapshot EXCEPT ![h] = @ \ popped]
           /\ batch' = [batch EXCEPT ![h] = {p \in popped : StillCandidate(h, p)}]
    BY <1>4 DEF Choose
  <2>2. \A p \in batch'[h] :
          /\ p \in snapshot[h] /\ p \notin Submitted(h)
          /\ p \notin begun[h] /\ returned[p] # h
    BY <2>1 DEF StillCandidate, Returned, LaneOf, Submitted, InLane, PoolTypeOK
  <2>3. snapshot'[h] \subseteq snapshot[h]
    BY <2>1 DEF PoolTypeOK
  <2>4. /\ pc[h] = "choose" /\ pc'[h] = "collect"
        /\ UNCHANGED <<lane, begun, raised, recovering, recovered, reserved, returned>>
    BY <1>4 DEF Choose, Goto, PoolTypeOK, storeVars
  <2>5. Submitted(h)' = Submitted(h) /\ \A S : InLane(h, S)' = InLane(h, S)
    BY <2>4 DEF Submitted, InLane
  <2>6. ~recovering[h]
    BY <2>4 DEF LaneOf
  <2>7. \A p \in InLane(h, Publishing \cup {"offer"})' \cup (batch'[h] \ Submitted(h)') :
          p \notin begun[h] /\ returned[p] # h
    BY <2>2, <2>5 DEF LaneOf
  <2>8. Submitted(h)' \cup batch'[h] \cup snapshot'[h] \cup recovered'[h]
          \subseteq Interest[h]
    BY <2>2, <2>3, <2>4, <2>5 DEF LaneOf
  <2>9. begun'[h] \cup InLane(h, {"publish", "offer"})' \subseteq reserved'
    BY <2>4, <2>5 DEF LaneOf
  <2>10. batch'[h] \cap Submitted(h)' = {} /\ pc'[h] = "collect" /\ ~recovering'[h]
    BY <2>2, <2>4, <2>5, <2>6 DEF PoolTypeOK
  <2>11. \A p \in InLane(h, Publishing \cup {"offer"})' \cup (batch'[h] \ Submitted(h)') :
           p \notin begun'[h] /\ returned'[p] # h
    BY <2>4, <2>7
  <2> QED
    BY <2>8, <2>9, <2>10, <2>11 DEF LaneOf
<1>5. ASSUME NEW p \in Packages, Submit(h, p)
      PROVE  LaneOf(h)'
  BY <1>5
     DEF Submit, SetLane, LaneOf, Submitted, InLane, LaneLabels, Publishing,
         PoolTypeOK, vars, allVars, storeVars, memoryVars, poolVars
<1>6. ASSUME CrashPool(h)
      PROVE  LaneOf(h)'
  BY <1>6
     DEF CrashPool, Crash, Goto, LaneOf, Submitted, InLane, LaneLabels,
         Publishing, PoolTypeOK, vars, allVars, storeVars, memoryVars, poolVars
<1>7. ASSUME NEW p \in Packages, CollectInLane(h, p)
      PROVE  LaneOf(h)'
  <2>1. PICK label \in LaneLabels :
           /\ SetLane(h, p, label)
           /\ lane[h][p] # "none"
           /\ label \in Publishing \cup {"offer"} =>
                lane[h][p] \in Publishing \cup {"offer"}
           /\ label \in {"publish", "offer"} => p \in reserved'
    BY <1>7 DEF CollectInLane, LaneLabels, Publishing, LaneOf, InLane
  <2>2. \A q \in Packages : lane'[h][q] = IF q = p THEN label ELSE lane[h][q]
    BY <2>1, LaneIsSet
  <2>3. /\ reserved \subseteq reserved' /\ returned' = returned /\ begun' = begun
        /\ UNCHANGED <<memoryVars, snapshot>>
    BY <1>7 DEF CollectInLane, LaneFrame
  <2>9. /\ Submitted(h)' \subseteq Submitted(h) /\ p \in Submitted(h)
        /\ Submitted(h) \ {p} \subseteq Submitted(h)'
        /\ InLane(h, Publishing \cup {"offer"})' \subseteq InLane(h, Publishing \cup {"offer"})
        /\ InLane(h, {"publish", "offer"})' \subseteq InLane(h, {"publish", "offer"}) \cup {p}
        /\ p \in InLane(h, {"publish", "offer"})' => p \in reserved'
        /\ p \in InLane(h, Publishing \cup {"offer"})
    <3>1. lane[h][p] \in Publishing \cup {"offer"}
      BY <1>7 DEF CollectInLane, Publishing
    <3>2. p \in InLane(h, Publishing \cup {"offer"})
      BY <3>1 DEF InLane
    <3> DEFINE waits == Publishing \cup {"offer"}
    <3>3. /\ Submitted(h)' \subseteq Submitted(h) /\ p \in Submitted(h)
          /\ Submitted(h) \ {p} \subseteq Submitted(h)'
          /\ \A S : /\ InLane(h, S)' \subseteq InLane(h, S) \cup {p}
                    /\ p \in InLane(h, S)' => label \in S
      BY <2>1, <2>2, Relabels
    <3>4. InLane(h, waits)' \subseteq InLane(h, waits)
      BY <3>2, <3>3
    <3>5. /\ InLane(h, {"publish", "offer"})' \subseteq InLane(h, {"publish", "offer"}) \cup {p}
          /\ p \in InLane(h, {"publish", "offer"})' => label \in {"publish", "offer"}
      BY <3>3
    <3> QED
      BY <2>1, <3>2, <3>3, <3>4, <3>5
  <2>4. pc[h] # "down" /\ ~recovering[h]
    BY <2>9 DEF LaneOf
  <2>5. begun'[h] \cup InLane(h, {"publish", "offer"})' \subseteq reserved'
    BY <2>3, <2>9 DEF LaneOf
  <2>6. \A q \in InLane(h, Publishing \cup {"offer"})' \cup (batch'[h] \ Submitted(h)') :
          q \notin begun'[h] /\ returned'[q] # h
    BY <2>3, <2>9 DEF LaneOf, memoryVars
  <2>7. Submitted(h)' \cup batch'[h] \cup snapshot'[h] \cup recovered'[h]
          \subseteq Interest[h]
    BY <2>3, <2>9 DEF LaneOf, memoryVars
  <2> QED
    BY <2>3, <2>9, <2>4, <2>5, <2>6, <2>7 DEF LaneOf, memoryVars
<1>8. ASSUME NEW p \in Packages, ReserveInLane(h, p)
      PROVE  LaneOf(h)'
  BY <1>8
     DEF ReserveInLane, SetLane, LaneFrame, LaneOf, Submitted, InLane,
         LaneLabels, Publishing, PoolTypeOK, vars, allVars, storeVars,
         memoryVars, poolVars
<1>9. ASSUME NEW p \in Packages, PublishInLane(h, p)
      PROVE  LaneOf(h)'
  BY <1>9
     DEF PublishInLane, SetLane, LaneFrame, LaneOf, Submitted, InLane,
         LaneLabels, Publishing, PoolTypeOK, vars, allVars, storeVars,
         memoryVars, poolVars
<1>10. ASSUME NEW p \in Packages, PublicationRaises(h, p)
      PROVE  LaneOf(h)'
  <2>1. PICK label \in LaneLabels :
           /\ SetLane(h, p, label)
           /\ lane[h][p] # "none"
           /\ label \in Publishing \cup {"offer"} =>
                lane[h][p] \in Publishing \cup {"offer"}
           /\ label \in {"publish", "offer"} => p \in reserved'
    BY <1>10 DEF PublicationRaises, LaneLabels, Publishing, LaneOf, InLane
  <2>2. \A q \in Packages : lane'[h][q] = IF q = p THEN label ELSE lane[h][q]
    BY <2>1, LaneIsSet
  <2>3. /\ reserved \subseteq reserved' /\ returned' = returned /\ begun' = begun
        /\ UNCHANGED <<memoryVars, snapshot>>
    BY <1>10 DEF PublicationRaises, LaneFrame
  <2>9. /\ Submitted(h)' \subseteq Submitted(h) /\ p \in Submitted(h)
        /\ Submitted(h) \ {p} \subseteq Submitted(h)'
        /\ InLane(h, Publishing \cup {"offer"})' \subseteq InLane(h, Publishing \cup {"offer"})
        /\ InLane(h, {"publish", "offer"})' \subseteq InLane(h, {"publish", "offer"}) \cup {p}
        /\ p \in InLane(h, {"publish", "offer"})' => p \in reserved'
        /\ p \in InLane(h, Publishing \cup {"offer"})
    <3>1. lane[h][p] \in Publishing \cup {"offer"}
      BY <1>10 DEF PublicationRaises, Publishing
    <3>2. p \in InLane(h, Publishing \cup {"offer"})
      BY <3>1 DEF InLane
    <3> DEFINE waits == Publishing \cup {"offer"}
    <3>3. /\ Submitted(h)' \subseteq Submitted(h) /\ p \in Submitted(h)
          /\ Submitted(h) \ {p} \subseteq Submitted(h)'
          /\ \A S : /\ InLane(h, S)' \subseteq InLane(h, S) \cup {p}
                    /\ p \in InLane(h, S)' => label \in S
      BY <2>1, <2>2, Relabels
    <3>4. InLane(h, waits)' \subseteq InLane(h, waits)
      BY <3>2, <3>3
    <3>5. /\ InLane(h, {"publish", "offer"})' \subseteq InLane(h, {"publish", "offer"}) \cup {p}
          /\ p \in InLane(h, {"publish", "offer"})' => label \in {"publish", "offer"}
      BY <3>3
    <3> QED
      BY <2>1, <3>2, <3>3, <3>4, <3>5
  <2>4. pc[h] # "down" /\ ~recovering[h]
    BY <2>9 DEF LaneOf
  <2>5. begun'[h] \cup InLane(h, {"publish", "offer"})' \subseteq reserved'
    BY <2>3, <2>9 DEF LaneOf
  <2>6. \A q \in InLane(h, Publishing \cup {"offer"})' \cup (batch'[h] \ Submitted(h)') :
          q \notin begun'[h] /\ returned'[q] # h
    BY <2>3, <2>9 DEF LaneOf, memoryVars
  <2>7. Submitted(h)' \cup batch'[h] \cup snapshot'[h] \cup recovered'[h]
          \subseteq Interest[h]
    BY <2>3, <2>9 DEF LaneOf, memoryVars
  <2> QED
    BY <2>3, <2>9, <2>4, <2>5, <2>6, <2>7 DEF LaneOf, memoryVars
<1>11. ASSUME NEW p \in Packages, OfferInLane(h, p)
      PROVE  LaneOf(h)'
  BY <1>11
     DEF OfferInLane, SetLane, LaneFrame, LaneOf, Submitted, InLane,
         LaneLabels, Publishing, PoolTypeOK, vars, allVars, storeVars,
         memoryVars, poolVars
<1>12. ASSUME NEW p \in Packages, ReturnInLane(h, p)
      PROVE  LaneOf(h)'
  BY <1>12
     DEF ReturnInLane, SetLane, LaneFrame, LaneOf, Submitted, InLane,
         LaneLabels, Publishing, PoolTypeOK, vars, allVars, storeVars,
         memoryVars, poolVars
<1>13. ASSUME NEW p \in Packages, OfferFails(h, p)
      PROVE  LaneOf(h)'
  BY <1>13
     DEF OfferFails, SetLane, LaneFrame, LaneOf, Submitted, InLane, LaneLabels,
         Publishing, PoolTypeOK, vars, allVars, storeVars, memoryVars, poolVars
<1> QED
  BY <1>1, <1>2, <1>3, <1>4, <1>5, <1>6, <1>7, <1>8, <1>9, <1>10, <1>11, <1>12,
     <1>13
     DEF OwnStep, Attend, LaneStep

\* What a step leaves of the marks and reservations of others.
LEMMA MarksGrow ==
  ASSUME PoolTypeOK, LaneInv, NEW h \in Pools, OwnStep(h)
  PROVE  /\ reserved \subseteq reserved'
         /\ \A p \in Packages :
              \/ returned'[p] = returned[p]
              \/ returned'[p] = h /\ lane[h][p] = "offered"
         /\ \A p \in Packages :
              \/ collector'[p] = collector[p]
              \/ collector'[p] = h /\ lane[h][p] = "publish"
<1> USE PoolConstants, RuntimeConstants DEF Pools
<1>1. ASSUME StartPool(h)
      PROVE  /\ reserved \subseteq reserved'
             /\ \A p \in Packages :
                  \/ returned'[p] = returned[p]
                  \/ returned'[p] = h /\ lane[h][p] = "offered"
             /\ \A p \in Packages :
                  \/ collector'[p] = collector[p]
                  \/ collector'[p] = h /\ lane[h][p] = "publish"
  BY <1>1
     DEF StartPool, Recover, Goto, PoolTypeOK, vars, allVars, storeVars,
         memoryVars, poolVars
<1>2. ASSUME NextVisit(h)
      PROVE  /\ reserved \subseteq reserved'
             /\ \A p \in Packages :
                  \/ returned'[p] = returned[p]
                  \/ returned'[p] = h /\ lane[h][p] = "offered"
             /\ \A p \in Packages :
                  \/ collector'[p] = collector[p]
                  \/ collector'[p] = h /\ lane[h][p] = "publish"
  BY <1>2
     DEF NextVisit, ReapStarts, ReapOffers, BoundedGoesOn, ElasticGoesOn, Goto,
         PoolTypeOK, vars, allVars, storeVars, memoryVars, poolVars
<1>3. ASSUME InspectPool(h)
      PROVE  /\ reserved \subseteq reserved'
             /\ \A p \in Packages :
                  \/ returned'[p] = returned[p]
                  \/ returned'[p] = h /\ lane[h][p] = "offered"
             /\ \A p \in Packages :
                  \/ collector'[p] = collector[p]
                  \/ collector'[p] = h /\ lane[h][p] = "publish"
  BY <1>3
     DEF InspectPool, SelectFirst, RefreshSnapshot, Goto, PoolTypeOK, vars,
         allVars, storeVars, memoryVars, poolVars
<1>4. ASSUME Choose(h)
      PROVE  /\ reserved \subseteq reserved'
             /\ \A p \in Packages :
                  \/ returned'[p] = returned[p]
                  \/ returned'[p] = h /\ lane[h][p] = "offered"
             /\ \A p \in Packages :
                  \/ collector'[p] = collector[p]
                  \/ collector'[p] = h /\ lane[h][p] = "publish"
  BY <1>4
     DEF Choose, Goto, PoolTypeOK, vars, allVars, storeVars, memoryVars,
         poolVars
<1>5. ASSUME NEW q \in Packages, Submit(h, q)
      PROVE  /\ reserved \subseteq reserved'
             /\ \A p \in Packages :
                  \/ returned'[p] = returned[p]
                  \/ returned'[p] = h /\ lane[h][p] = "offered"
             /\ \A p \in Packages :
                  \/ collector'[p] = collector[p]
                  \/ collector'[p] = h /\ lane[h][p] = "publish"
  BY <1>5
     DEF Submit, SetLane, PoolTypeOK, vars, allVars, storeVars, memoryVars,
         poolVars
<1>6. ASSUME CrashPool(h)
      PROVE  /\ reserved \subseteq reserved'
             /\ \A p \in Packages :
                  \/ returned'[p] = returned[p]
                  \/ returned'[p] = h /\ lane[h][p] = "offered"
             /\ \A p \in Packages :
                  \/ collector'[p] = collector[p]
                  \/ collector'[p] = h /\ lane[h][p] = "publish"
  BY <1>6
     DEF CrashPool, Crash, Goto, PoolTypeOK, vars, allVars, storeVars,
         memoryVars, poolVars
<1>7. ASSUME NEW q \in Packages, CollectInLane(h, q)
      PROVE  /\ reserved \subseteq reserved'
             /\ \A p \in Packages :
                  \/ returned'[p] = returned[p]
                  \/ returned'[p] = h /\ lane[h][p] = "offered"
             /\ \A p \in Packages :
                  \/ collector'[p] = collector[p]
                  \/ collector'[p] = h /\ lane[h][p] = "publish"
  BY <1>7
     DEF CollectInLane, SetLane, LaneFrame, PoolTypeOK, vars, allVars,
         storeVars, memoryVars, poolVars
<1>8. ASSUME NEW q \in Packages, ReserveInLane(h, q)
      PROVE  /\ reserved \subseteq reserved'
             /\ \A p \in Packages :
                  \/ returned'[p] = returned[p]
                  \/ returned'[p] = h /\ lane[h][p] = "offered"
             /\ \A p \in Packages :
                  \/ collector'[p] = collector[p]
                  \/ collector'[p] = h /\ lane[h][p] = "publish"
  BY <1>8
     DEF ReserveInLane, SetLane, LaneFrame, PoolTypeOK, vars, allVars,
         storeVars, memoryVars, poolVars
<1>9. ASSUME NEW q \in Packages, PublishInLane(h, q)
      PROVE  /\ reserved \subseteq reserved'
             /\ \A p \in Packages :
                  \/ returned'[p] = returned[p]
                  \/ returned'[p] = h /\ lane[h][p] = "offered"
             /\ \A p \in Packages :
                  \/ collector'[p] = collector[p]
                  \/ collector'[p] = h /\ lane[h][p] = "publish"
  BY <1>9
     DEF PublishInLane, SetLane, LaneFrame, PoolTypeOK, vars, allVars,
         storeVars, memoryVars, poolVars
<1>10. ASSUME NEW q \in Packages, PublicationRaises(h, q)
      PROVE  /\ reserved \subseteq reserved'
             /\ \A p \in Packages :
                  \/ returned'[p] = returned[p]
                  \/ returned'[p] = h /\ lane[h][p] = "offered"
             /\ \A p \in Packages :
                  \/ collector'[p] = collector[p]
                  \/ collector'[p] = h /\ lane[h][p] = "publish"
  BY <1>10
     DEF PublicationRaises, SetLane, LaneFrame, PoolTypeOK, vars, allVars,
         storeVars, memoryVars, poolVars
<1>11. ASSUME NEW q \in Packages, OfferInLane(h, q)
      PROVE  /\ reserved \subseteq reserved'
             /\ \A p \in Packages :
                  \/ returned'[p] = returned[p]
                  \/ returned'[p] = h /\ lane[h][p] = "offered"
             /\ \A p \in Packages :
                  \/ collector'[p] = collector[p]
                  \/ collector'[p] = h /\ lane[h][p] = "publish"
  BY <1>11
     DEF OfferInLane, SetLane, LaneFrame, PoolTypeOK, vars, allVars, storeVars,
         memoryVars, poolVars
<1>12. ASSUME NEW q \in Packages, ReturnInLane(h, q)
      PROVE  /\ reserved \subseteq reserved'
             /\ \A p \in Packages :
                  \/ returned'[p] = returned[p]
                  \/ returned'[p] = h /\ lane[h][p] = "offered"
             /\ \A p \in Packages :
                  \/ collector'[p] = collector[p]
                  \/ collector'[p] = h /\ lane[h][p] = "publish"
  BY <1>12
     DEF ReturnInLane, SetLane, LaneFrame, PoolTypeOK, vars, allVars,
         storeVars, memoryVars, poolVars
<1>13. ASSUME NEW q \in Packages, OfferFails(h, q)
      PROVE  /\ reserved \subseteq reserved'
             /\ \A p \in Packages :
                  \/ returned'[p] = returned[p]
                  \/ returned'[p] = h /\ lane[h][p] = "offered"
             /\ \A p \in Packages :
                  \/ collector'[p] = collector[p]
                  \/ collector'[p] = h /\ lane[h][p] = "publish"
  BY <1>13
     DEF OfferFails, SetLane, LaneFrame, PoolTypeOK, vars, allVars, storeVars,
         memoryVars, poolVars
<1> QED
  BY <1>1, <1>2, <1>3, <1>4, <1>5, <1>6, <1>7, <1>8, <1>9, <1>10, <1>11, <1>12,
     <1>13
     DEF OwnStep, Attend, LaneStep

\* Other Runtimes' steps, arrivals and rivals leave a Runtime's lanes as they
\* are: their marks are their own.
LEMMA LaneOthers ==
  ASSUME PoolTypeOK, NEW h \in Pools, LaneOf(h), Untouched(h),
         reserved \subseteq reserved',
         \A p \in Packages : returned'[p] # returned[p] => returned'[p] # h
  PROVE  LaneOf(h)'
<1>1. Submitted(h)' = Submitted(h) /\ \A S : InLane(h, S)' = InLane(h, S)
  BY DEF Untouched, Submitted, InLane
<1>2. InLane(h, Publishing \cup {"offer"}) \subseteq Packages
      /\ batch[h] \subseteq Packages
  BY DEF InLane, PoolTypeOK, Pools
<1> QED
  BY <1>1, <1>2 DEF Untouched, LaneOf

LEMMA CountsOthers ==
  ASSUME NEW h \in Pools, CountsOf(h), Untouched(h)
  PROVE  CountsOf(h)'
<1>1. Submitted(h)' = Submitted(h)
  BY DEF Untouched, Submitted, InLane
<1> QED
  BY <1>1 DEF Untouched, CountsOf

\* Where less is unreturned outside the lanes, no adapter need be closed.
LEMMA UnreturnedShrinks ==
  ASSUME PoolTypeOK, NEW h \in Pools, UnreturnedOf(h),
         (Unreturned(h) \ Submitted(h))' \subseteq Unreturned(h) \ Submitted(h),
         closed'[h] = closed[h], pc'[h] # "down" => pc[h] # "down",
         \A p \in Packages : collector'[p] = h => p \in Interest[h],
         \A p \in InLane(h, {"done"})' : returned'[p] # None
  PROVE  UnreturnedOf(h)'
<1> DEFINE R == (Unreturned(h) \ Submitted(h))'
           S == Unreturned(h) \ Submitted(h)
<1>1. S \subseteq Packages /\ R \subseteq S
  BY DEF Unreturned
<1>2. Cardinality(R) <= Cardinality(S) /\ Cardinality(R) \in Nat /\ Cardinality(S) \in Nat
  <2>1. R \subseteq Packages
    BY <1>1
  <2> HIDE DEF R, S
  <2> QED
    BY <1>1, <2>1, Smaller, Sized
<1>3. closed[h] \in Nat
  BY DEF PoolTypeOK, Pools
<1>4. pc'[h] # "down" => Cardinality(S) <= closed[h]
  BY DEF UnreturnedOf
<1> HIDE DEF R, S
<1>5. pc'[h] # "down" => Cardinality(R) <= closed'[h]
  BY <1>2, <1>3, <1>4
<1> QED
  BY <1>5 DEF R, UnreturnedOf

\* A Runtime's own step closes an adapter for what is no longer in a lane.
LEMMA UnreturnedOwn ==
  ASSUME PoolTypeOK, NEW h \in Pools, LaneOf(h), UnreturnedOf(h), OwnStep(h)
  PROVE  UnreturnedOf(h)'
<1> USE PoolConstants, RuntimeConstants DEF Pools
<1>1. ASSUME StartPool(h)
      PROVE  UnreturnedOf(h)'
  <2>1. recovered'[h] = {p \in Interest[h] : collector[p] = h}
        /\ UNCHANGED <<collector, returned, lane, closed>>
    BY <1>1 DEF StartPool, Recover, PoolTypeOK
  <2>2. (Unreturned(h) \ Submitted(h))' = {}
    BY <2>1 DEF Unreturned, UnreturnedOf
  <2>3. InLane(h, {"done"}) = {} /\ closed[h] = 0
    BY <1>1 DEF StartPool, Recover, LaneOf, Submitted, InLane, LaneLabels
  <2>4. Cardinality((Unreturned(h) \ Submitted(h))') = 0
    BY <2>2, None0
  <2> QED
    BY <2>1, <2>3, <2>4 DEF UnreturnedOf, InLane
<1>2. ASSUME NextVisit(h)
      PROVE  UnreturnedOf(h)'
  <2>1. PICK n \in Nat : ReapOffers(h, n)
    BY <1>2 DEF NextVisit, PoolTypeOK
  <2> DEFINE before == Unreturned(h) \ Submitted(h)
             failed == InLane(h, {"failed"})
  <2>2. Submitted(h)' = Submitted(h) \ Ended(h)
    BY <2>1, ReapedLeave
  <2>3. UNCHANGED <<collector, returned, recovered, raised>> /\ pc[h] # "down"
    BY <1>2 DEF NextVisit, storeVars
  <2>4. (Unreturned(h) \ Submitted(h))' \subseteq before \cup failed
    BY <2>2, <2>3 DEF Unreturned, Ended, InLane, UnreturnedOf
  <2>5. {before, failed} \subseteq SUBSET Packages
    BY DEF Unreturned, InLane
  <2>6. Cardinality((Unreturned(h) \ Submitted(h))') <= Cardinality(before \cup failed)
    BY <2>4, <2>5, Smaller
  <2>7. Cardinality(before \cup failed) <= Cardinality(before) + Cardinality(failed)
    BY <2>5, Together
  <2>8. Cardinality(before) <= closed[h]
    BY <2>3 DEF UnreturnedOf
  <2>9. closed'[h] = closed[h] + Cardinality(failed) /\ closed[h] \in Nat
    BY <2>1 DEF ReapOffers, PoolTypeOK
  <2>10. /\ {Cardinality(before), Cardinality(failed)} \subseteq Nat
         /\ Cardinality(before \cup failed) \in Nat
         /\ Cardinality((Unreturned(h) \ Submitted(h))') \in Nat
    <3>1. (Unreturned(h) \ Submitted(h))' \subseteq Packages
      BY <2>4, <2>5
    <3> QED
      BY <2>5, <3>1, Sized
  <2>11. InLane(h, {"done"})' \subseteq InLane(h, {"done"})
    BY <2>1 DEF ReapOffers, InLane, PoolTypeOK
  <2> HIDE DEF before, failed
  <2>12. Cardinality((Unreturned(h) \ Submitted(h))') <= closed'[h]
    BY <2>6, <2>7, <2>8, <2>9, <2>10
  <2> QED
    BY <2>3, <2>11, <2>12 DEF UnreturnedOf
<1>3. ASSUME InspectPool(h)
      PROVE  UnreturnedOf(h)'
  <2>1. (Unreturned(h) \ Submitted(h))' \subseteq Unreturned(h) \ Submitted(h)
    BY <1>3
       DEF InspectPool, SelectFirst, RefreshSnapshot, Goto, Unreturned,
           Submitted, InLane, LaneLabels, Publishing, PoolTypeOK, storeVars,
           memoryVars
  <2>2. closed'[h] = closed[h] /\ (pc'[h] # "down" => pc[h] # "down")
    BY <1>3
       DEF InspectPool, SelectFirst, RefreshSnapshot, Goto, PoolTypeOK,
           memoryVars
  <2>3. /\ \A q \in Packages : collector'[q] = h => q \in Interest[h]
        /\ \A q \in InLane(h, {"done"})' : returned'[q] # None
    BY <1>3
       DEF InspectPool, SelectFirst, RefreshSnapshot, Goto, InLane,
           UnreturnedOf, LaneOf, Submitted, LaneLabels, Publishing, PoolTypeOK,
           storeVars
  <2> QED
    BY <2>1, <2>2, <2>3, UnreturnedShrinks
<1>4. ASSUME Choose(h)
      PROVE  UnreturnedOf(h)'
  <2>1. (Unreturned(h) \ Submitted(h))' \subseteq Unreturned(h) \ Submitted(h)
    BY <1>4
       DEF Choose, Goto, Unreturned, Submitted, InLane, LaneLabels, Publishing,
           PoolTypeOK, storeVars, memoryVars
  <2>2. closed'[h] = closed[h] /\ (pc'[h] # "down" => pc[h] # "down")
    BY <1>4 DEF Choose, Goto, PoolTypeOK, memoryVars
  <2>3. /\ \A q \in Packages : collector'[q] = h => q \in Interest[h]
        /\ \A q \in InLane(h, {"done"})' : returned'[q] # None
    BY <1>4
       DEF Choose, Goto, InLane, UnreturnedOf, LaneOf, Submitted, LaneLabels,
           Publishing, PoolTypeOK, storeVars
  <2> QED
    BY <2>1, <2>2, <2>3, UnreturnedShrinks
<1>5. ASSUME NEW p \in Packages, Submit(h, p)
      PROVE  UnreturnedOf(h)'
  <2>1. (Unreturned(h) \ Submitted(h))' \subseteq Unreturned(h) \ Submitted(h)
    BY <1>5
       DEF Submit, SetLane, Unreturned, Submitted, InLane, LaneLabels,
           Publishing, PoolTypeOK, storeVars, memoryVars
  <2>2. closed'[h] = closed[h] /\ (pc'[h] # "down" => pc[h] # "down")
    BY <1>5 DEF Submit, SetLane, PoolTypeOK, memoryVars
  <2>3. /\ \A q \in Packages : collector'[q] = h => q \in Interest[h]
        /\ \A q \in InLane(h, {"done"})' : returned'[q] # None
    BY <1>5
       DEF Submit, SetLane, InLane, UnreturnedOf, LaneOf, Submitted,
           LaneLabels, Publishing, PoolTypeOK, storeVars
  <2> QED
    BY <2>1, <2>2, <2>3, UnreturnedShrinks
<1>6. ASSUME CrashPool(h)
      PROVE  UnreturnedOf(h)'
  <2>1. pc'[h] = "down" /\ UNCHANGED collector /\ InLane(h, {"done"})' = {}
    BY <1>6 DEF CrashPool, Crash, Goto, storeVars, InLane, PoolTypeOK
  <2> QED
    BY <2>1 DEF UnreturnedOf
<1>7. ASSUME NEW p \in Packages, CollectInLane(h, p)
      PROVE  UnreturnedOf(h)'
  <2>1. (Unreturned(h) \ Submitted(h))' \subseteq Unreturned(h) \ Submitted(h)
    BY <1>7
       DEF CollectInLane, SetLane, LaneFrame, Unreturned, Submitted, InLane,
           LaneLabels, Publishing, PoolTypeOK, storeVars, memoryVars
  <2>2. closed'[h] = closed[h] /\ (pc'[h] # "down" => pc[h] # "down")
    BY <1>7 DEF CollectInLane, SetLane, LaneFrame, PoolTypeOK, memoryVars
  <2>3. /\ \A q \in Packages : collector'[q] = h => q \in Interest[h]
        /\ \A q \in InLane(h, {"done"})' : returned'[q] # None
    BY <1>7
       DEF CollectInLane, SetLane, LaneFrame, InLane, UnreturnedOf, LaneOf,
           Submitted, LaneLabels, Publishing, PoolTypeOK, storeVars
  <2> QED
    BY <2>1, <2>2, <2>3, UnreturnedShrinks
<1>8. ASSUME NEW p \in Packages, ReserveInLane(h, p)
      PROVE  UnreturnedOf(h)'
  <2>1. (Unreturned(h) \ Submitted(h))' \subseteq Unreturned(h) \ Submitted(h)
    BY <1>8
       DEF ReserveInLane, SetLane, LaneFrame, Unreturned, Submitted, InLane,
           LaneLabels, Publishing, PoolTypeOK, storeVars, memoryVars
  <2>2. closed'[h] = closed[h] /\ (pc'[h] # "down" => pc[h] # "down")
    BY <1>8 DEF ReserveInLane, SetLane, LaneFrame, PoolTypeOK, memoryVars
  <2>3. /\ \A q \in Packages : collector'[q] = h => q \in Interest[h]
        /\ \A q \in InLane(h, {"done"})' : returned'[q] # None
    BY <1>8
       DEF ReserveInLane, SetLane, LaneFrame, InLane, UnreturnedOf, LaneOf,
           Submitted, LaneLabels, Publishing, PoolTypeOK, storeVars
  <2> QED
    BY <2>1, <2>2, <2>3, UnreturnedShrinks
<1>9. ASSUME NEW p \in Packages, PublishInLane(h, p)
      PROVE  UnreturnedOf(h)'
  <2>1. (Unreturned(h) \ Submitted(h))' \subseteq Unreturned(h) \ Submitted(h)
    BY <1>9
       DEF PublishInLane, SetLane, LaneFrame, Unreturned, Submitted, InLane,
           LaneLabels, Publishing, PoolTypeOK, storeVars, memoryVars
  <2>2. closed'[h] = closed[h] /\ (pc'[h] # "down" => pc[h] # "down")
    BY <1>9 DEF PublishInLane, SetLane, LaneFrame, PoolTypeOK, memoryVars
  <2>3. /\ \A q \in Packages : collector'[q] = h => q \in Interest[h]
        /\ \A q \in InLane(h, {"done"})' : returned'[q] # None
    BY <1>9
       DEF PublishInLane, SetLane, LaneFrame, InLane, UnreturnedOf, LaneOf,
           Submitted, LaneLabels, Publishing, PoolTypeOK, storeVars
  <2> QED
    BY <2>1, <2>2, <2>3, UnreturnedShrinks
<1>10. ASSUME NEW p \in Packages, PublicationRaises(h, p)
      PROVE  UnreturnedOf(h)'
  <2>1. (Unreturned(h) \ Submitted(h))' \subseteq Unreturned(h) \ Submitted(h)
    BY <1>10
       DEF PublicationRaises, SetLane, LaneFrame, Unreturned, Submitted,
           InLane, LaneLabels, Publishing, PoolTypeOK, storeVars, memoryVars
  <2>2. closed'[h] = closed[h] /\ (pc'[h] # "down" => pc[h] # "down")
    BY <1>10 DEF PublicationRaises, SetLane, LaneFrame, PoolTypeOK, memoryVars
  <2>3. /\ \A q \in Packages : collector'[q] = h => q \in Interest[h]
        /\ \A q \in InLane(h, {"done"})' : returned'[q] # None
    BY <1>10
       DEF PublicationRaises, SetLane, LaneFrame, InLane, UnreturnedOf, LaneOf,
           Submitted, LaneLabels, Publishing, PoolTypeOK, storeVars
  <2> QED
    BY <2>1, <2>2, <2>3, UnreturnedShrinks
<1>11. ASSUME NEW p \in Packages, OfferInLane(h, p)
      PROVE  UnreturnedOf(h)'
  <2>1. (Unreturned(h) \ Submitted(h))' \subseteq Unreturned(h) \ Submitted(h)
    BY <1>11
       DEF OfferInLane, SetLane, LaneFrame, Unreturned, Submitted, InLane,
           LaneLabels, Publishing, PoolTypeOK, storeVars, memoryVars
  <2>2. closed'[h] = closed[h] /\ (pc'[h] # "down" => pc[h] # "down")
    BY <1>11 DEF OfferInLane, SetLane, LaneFrame, PoolTypeOK, memoryVars
  <2>3. /\ \A q \in Packages : collector'[q] = h => q \in Interest[h]
        /\ \A q \in InLane(h, {"done"})' : returned'[q] # None
    BY <1>11
       DEF OfferInLane, SetLane, LaneFrame, InLane, UnreturnedOf, LaneOf,
           Submitted, LaneLabels, Publishing, PoolTypeOK, storeVars
  <2> QED
    BY <2>1, <2>2, <2>3, UnreturnedShrinks
<1>12. ASSUME NEW p \in Packages, ReturnInLane(h, p)
      PROVE  UnreturnedOf(h)'
  <2>1. (Unreturned(h) \ Submitted(h))' \subseteq Unreturned(h) \ Submitted(h)
    BY <1>12
       DEF ReturnInLane, SetLane, LaneFrame, Unreturned, Submitted, InLane,
           LaneLabels, Publishing, PoolTypeOK, storeVars, memoryVars
  <2>2. closed'[h] = closed[h] /\ (pc'[h] # "down" => pc[h] # "down")
    BY <1>12 DEF ReturnInLane, SetLane, LaneFrame, PoolTypeOK, memoryVars
  <2>3. /\ \A q \in Packages : collector'[q] = h => q \in Interest[h]
        /\ \A q \in InLane(h, {"done"})' : returned'[q] # None
    BY <1>12
       DEF ReturnInLane, SetLane, LaneFrame, InLane, UnreturnedOf, LaneOf,
           Submitted, LaneLabels, Publishing, PoolTypeOK, storeVars
  <2> QED
    BY <2>1, <2>2, <2>3, UnreturnedShrinks
<1>13. ASSUME NEW p \in Packages, OfferFails(h, p)
      PROVE  UnreturnedOf(h)'
  <2>1. (Unreturned(h) \ Submitted(h))' \subseteq Unreturned(h) \ Submitted(h)
    BY <1>13
       DEF OfferFails, SetLane, LaneFrame, Unreturned, Submitted, InLane,
           LaneLabels, Publishing, PoolTypeOK, storeVars, memoryVars
  <2>2. closed'[h] = closed[h] /\ (pc'[h] # "down" => pc[h] # "down")
    BY <1>13 DEF OfferFails, SetLane, LaneFrame, PoolTypeOK, memoryVars
  <2>3. /\ \A q \in Packages : collector'[q] = h => q \in Interest[h]
        /\ \A q \in InLane(h, {"done"})' : returned'[q] # None
    BY <1>13
       DEF OfferFails, SetLane, LaneFrame, InLane, UnreturnedOf, LaneOf,
           Submitted, LaneLabels, Publishing, PoolTypeOK, storeVars
  <2> QED
    BY <2>1, <2>2, <2>3, UnreturnedShrinks
<1> QED
  BY <1>1, <1>2, <1>3, <1>4, <1>5, <1>6, <1>7, <1>8, <1>9, <1>10, <1>11, <1>12,
     <1>13
     DEF OwnStep, Attend, LaneStep

LEMMA UnreturnedOthers ==
  ASSUME PoolTypeOK, NEW h \in Pools, UnreturnedOf(h), Untouched(h),
         \A p \in Packages :
           /\ returned[p] # None => returned'[p] # None
           /\ collector'[p] = h => collector[p] = h
  PROVE  UnreturnedOf(h)'
<1>1. InLane(h, {"done"})' = InLane(h, {"done"}) /\ Submitted(h)' = Submitted(h)
  BY DEF Untouched, Submitted, InLane
<1>2. (Unreturned(h) \ Submitted(h))' \subseteq Unreturned(h) \ Submitted(h)
  BY <1>1 DEF Untouched, Unreturned
<1>3. \A p \in InLane(h, {"done"})' : returned'[p] # None
  BY <1>1 DEF UnreturnedOf, InLane
<1>4. \A p \in Packages : collector'[p] = h => p \in Interest[h]
  BY DEF UnreturnedOf
<1> QED
  BY <1>1, <1>2, <1>3, <1>4, UnreturnedShrinks DEF Untouched

----------------------------------------------------------------------------
\* PoolInv, one Runtime at a time.
LEMMA PoolInvByRuntime ==
  /\ PoolInv => \A h \in Pools : CountsOf(h) /\ LaneOf(h) /\ UnreturnedOf(h)
  /\ PoolTypeOK /\ (\A h \in Pools : CountsOf(h) /\ LaneOf(h) /\ UnreturnedOf(h))
       => PoolInv
BY DEF PoolInv, PoolTypeOK, CountsOf, AdaptersAreConserved,
       OpportunitiesAreBounded, LaneInv, UnreturnedInv, Pools

LEMMA PoolInvPrimed ==
  ASSUME PoolTypeOK', \A h \in Pools : CountsOf(h)' /\ LaneOf(h)' /\ UnreturnedOf(h)'
  PROVE  PoolInv'
BY DEF PoolInv, PoolTypeOK, CountsOf, AdaptersAreConserved,
       OpportunitiesAreBounded, LaneInv, UnreturnedInv, Pools

LEMMA InitPool == PoolInit => PoolInv
<1> SUFFICES ASSUME PoolInit
             PROVE  PoolInv
  OBVIOUS
<1> USE PoolConstants, RuntimeConstants
<1>1. PoolTypeOK
  BY DEF PoolInit, Init, PoolTypeOK, LaneLabels, Publishing
<1>2. ASSUME NEW h \in Pools
      PROVE  CountsOf(h) /\ LaneOf(h) /\ UnreturnedOf(h)
  <2>1. Submitted(h) = {} /\ \A S : "none" \notin S => InLane(h, S) = {}
    BY DEF PoolInit, Submitted, InLane, LaneLabels, Pools
  <2>2. batch[h] = {} /\ pc[h] = "down"
    BY DEF PoolInit, Init, Pools
  <2>3. CountsOf(h)
    BY <2>1, <2>2, None0 DEF PoolInit, CountsOf, Pools
  <2>4. LaneOf(h)
    BY <2>1, <2>2 DEF PoolInit, Init, LaneOf, Publishing, Pools
  <2>5. UnreturnedOf(h)
    BY <2>1, <2>2 DEF PoolInit, Init, UnreturnedOf, Pools
  <2> QED
    BY <2>3, <2>4, <2>5
<1> QED
  BY <1>1, <1>2, PoolInvByRuntime

\* A step of one Runtime keeps everybody's invariant.
LEMMA RuntimeStep ==
  ASSUME PoolInv, NEW h \in Pools, OwnStep(h)
  PROVE  PoolInv'
<1>1. /\ PoolTypeOK /\ LaneInv
      /\ \A g \in Pools : CountsOf(g) /\ LaneOf(g) /\ UnreturnedOf(g)
  BY PoolInvByRuntime DEF PoolInv
<1>2. CountsOf(h)'
  BY <1>1, CountsStep
<1>3. PoolTypeOK'
  BY <1>1, <1>2, TypeStep
<1>4. LaneOf(h)' /\ UnreturnedOf(h)'
  BY <1>1, LaneOwn, UnreturnedOwn
<1>5. ASSUME NEW g \in Pools, g # h
      PROVE  CountsOf(g)' /\ LaneOf(g)' /\ UnreturnedOf(g)'
  <2>1. Untouched(g)
    BY <1>1, <1>5, OthersUntouched DEF Pools
  <2>2. /\ reserved \subseteq reserved'
        /\ \A p \in Packages : /\ returned'[p] # returned[p] => returned'[p] # g
                               /\ returned[p] # None => returned'[p] # None
                               /\ collector'[p] = g => collector[p] = g
    BY <1>1, <1>5, MarksGrow, RuntimeConstants DEF Pools
  <2> QED
    BY <1>1, <2>1, <2>2, CountsOthers, LaneOthers, UnreturnedOthers
<1> QED
  BY <1>2, <1>3, <1>4, <1>5, PoolInvPrimed

\* So does an arrival, or a collection by somebody else.
LEMMA OutsideStep ==
  ASSUME PoolInv, OtherStep \/ UNCHANGED allVars
  PROVE  PoolInv'
<1> USE PoolConstants, RuntimeConstants
<1>1. /\ PoolTypeOK
      /\ \A g \in Pools : CountsOf(g) /\ LaneOf(g) /\ UnreturnedOf(g)
  BY PoolInvByRuntime DEF PoolInv
<1>2. PoolTypeOK'
  <2>1. ASSUME NEW p \in Packages, AcceptForPool(p)
        PROVE  PoolTypeOK'
    BY <1>1, <2>1 DEF AcceptForPool, Accept, PoolTypeOK, memoryVars, poolVars
  <2>2. ASSUME NEW r \in Rivals, NEW p \in Packages, RivalCollects(r, p)
        PROVE  PoolTypeOK'
    <3>1. /\ reserved' \subseteq Packages /\ rows' \subseteq Packages
          /\ collector' \in [Packages -> Hosts \cup {None}]
      BY <1>1, <2>2 DEF RivalCollects, PoolTypeOK
    <3> QED
      BY <1>1, <2>2, <3>1 DEF RivalCollects, PoolTypeOK, memoryVars, poolVars
  <2>3. CASE UNCHANGED allVars
    BY <1>1, <2>3
       DEF PoolTypeOK, allVars, vars, storeVars, memoryVars, poolVars
  <2> QED
    BY <2>1, <2>2, <2>3 DEF OtherStep
<1>3. ASSUME NEW g \in Pools
      PROVE  CountsOf(g)' /\ LaneOf(g)' /\ UnreturnedOf(g)'
  <2>1. Untouched(g)
    BY <1>1, OtherStepsTouchNothing DEF Pools
  <2>2. /\ reserved \subseteq reserved' /\ returned' = returned
        /\ \A p \in Packages : collector'[p] = g => collector[p] = g
    BY <1>1 DEF OtherStep, AcceptForPool, Accept, RivalCollects, PoolTypeOK,
                allVars, vars, storeVars, Pools
  <2> QED
    BY <1>1, <2>1, <2>2, CountsOthers, LaneOthers, UnreturnedOthers
<1> QED
  BY <1>2, <1>3, PoolInvPrimed

LEMMA Steps == PoolNext => OtherStep \/ \E h \in Pools : OwnStep(h)
BY DEF PoolNext, OtherStep, OwnStep

\* Adapters are conserved, offers and starts bounded, lanes about what was not
\* offered yet, for every value of the constants.
THEOREM PoolInvariance == PoolSpec => []PoolInv
<1>1. PoolInv /\ [PoolNext]_allVars => PoolInv'
  BY Steps, RuntimeStep, OutsideStep
<1> QED
  BY InitPool, <1>1, PTL DEF PoolSpec

\* No pool has more than its maximum of CLs without a control return, but for
\* publications that raised, however many offers fail (opportunities.py visit).
THEOREM UnreturnedBound == PoolSpec => []UnreturnedIsBounded
<1>1. PoolInv => UnreturnedIsBounded
  <2> SUFFICES ASSUME PoolInv, NEW h \in Pools, pc[h] # "down"
               PROVE  Cardinality(Unreturned(h)) <= MaxOffers
    BY DEF UnreturnedIsBounded
  <2> DEFINE R == Unreturned(h) \ Submitted(h)
             S == Submitted(h)
  <2>1. CountsOf(h) /\ UnreturnedOf(h) /\ PoolTypeOK
    BY PoolInvByRuntime DEF PoolInv
  <2>2. {R, S, Unreturned(h)} \subseteq SUBSET Packages /\ Unreturned(h) \subseteq R \cup S
    BY DEF Unreturned, Submitted, InLane
  <2>3. /\ Cardinality(Unreturned(h)) <= Cardinality(R \cup S)
        /\ Cardinality(R \cup S) <= Cardinality(R) + Cardinality(S)
    <3>1. R \cup S \subseteq Packages
      BY <2>2
    <3> HIDE DEF R, S
    <3> QED
      BY <2>2, <3>1, Smaller, Together
  <2>4. /\ {Cardinality(R), Cardinality(S), Cardinality(Unreturned(h))} \subseteq Nat
        /\ Cardinality(R \cup S) \in Nat
    <3>1. R \cup S \subseteq Packages
      BY <2>2
    <3> HIDE DEF R, S
    <3> QED
      BY <2>2, <3>1, Sized
  <2>5. Cardinality(R) <= closed[h]
    BY <2>1 DEF UnreturnedOf
  <2>6. /\ {adapters[h], available[h], closed[h], starting[h]} \subseteq 0 .. MaxOffers
        /\ adapters[h] = available[h] + closed[h] + Cardinality(S)
        /\ adapters[h] + starting[h] <= MaxOffers
    BY <2>1 DEF CountsOf
  <2> HIDE DEF R, S
  <2> QED
    BY <2>3, <2>4, <2>5, <2>6, PoolConstants
<1> QED
  BY <1>1, PoolInvariance, PTL

\* A process offers a Package once, and never one it saw returned in an earlier
\* life (opportunities.py, dispatches of the journal).
THEOREM RetriesAreNotInvented == PoolSpec => NoRetryIsInvented
<1> DEFINE Once == \A h \in Pools, p \in Packages :
                     lane[h][p] = "offer" /\ lane'[h][p] = "offered" =>
                       p \notin begun[h] /\ returned[p] # h
<1>1. PoolInv => [Once]_allVars
  <2> SUFFICES ASSUME PoolInv, NEW h \in Pools, NEW p \in Packages, lane[h][p] = "offer"
               PROVE  p \notin begun[h] /\ returned[p] # h
    OBVIOUS
  <2>1. LaneOf(h)
    BY DEF PoolInv, LaneInv
  <2> QED
    BY <2>1 DEF LaneOf, InLane
<1>2. []PoolInv => [][Once]_allVars
  BY <1>1, PTL
<1> QED
  BY <1>2, PoolInvariance DEF NoRetryIsInvented

\* What Runtime h newly selects in a step.
SelectsFresh(h) ==
  \A p \in batch'[h] \ batch[h] :
    /\ p \notin Returned
    /\ p \in reserved => recovering[h] /\ p \in recovered[h]

\* A Runtime selects what the directory allows.
LEMMA SelectionOwn ==
  ASSUME PoolTypeOK, NEW h \in Pools, OwnStep(h)
  PROVE  SelectsFresh(h)
<1> USE DEF Pools
<1>1. ASSUME StartPool(h)
      PROVE  SelectsFresh(h)
  BY <1>1
     DEF StartPool, Recover, Goto, SelectsFresh, PoolTypeOK, vars, allVars,
         storeVars, memoryVars, poolVars
<1>2. ASSUME NextVisit(h)
      PROVE  SelectsFresh(h)
  BY <1>2
     DEF NextVisit, ReapStarts, ReapOffers, BoundedGoesOn, ElasticGoesOn, Goto,
         SelectsFresh, PoolTypeOK, vars, allVars, storeVars, memoryVars,
         poolVars
<1>3. ASSUME InspectPool(h)
      PROVE  SelectsFresh(h)
  <2>1. PICK page \in SUBSET (rows \cap Interest[h]) :
           batch'[h] \subseteq Selected(h, page)
    <3>1. PICK page \in UpTo(BatchSize, rows \cap Interest[h]) :
             \/ batch' = [batch EXCEPT ![h] = Selected(h, page)]
             \/ \E kept \in UpTo(BatchSize, Selected(h, page)) :
                  \/ RefreshSnapshot(h, kept \ Submitted(h))
                  \/ SelectFirst(h, kept \ Submitted(h))
      BY <1>3 DEF InspectPool
    <3>2. ASSUME NEW kept \in SUBSET Selected(h, page),
                 RefreshSnapshot(h, kept \ Submitted(h))
          PROVE  batch'[h] \subseteq Selected(h, page)
      <4>1. batch'[h] = {}
        BY <3>2 DEF RefreshSnapshot, PoolTypeOK
      <4> QED
        BY <4>1
    <3>3. ASSUME NEW kept \in SUBSET Selected(h, page),
                 SelectFirst(h, kept \ Submitted(h))
          PROVE  batch'[h] \subseteq Selected(h, page)
      <4>1. batch'[h] \subseteq kept
        BY <3>3 DEF SelectFirst, UpTo, PoolTypeOK
      <4> QED
        BY <4>1
    <3>4. ASSUME batch' = [batch EXCEPT ![h] = Selected(h, page)]
          PROVE  batch'[h] \subseteq Selected(h, page)
      BY <3>4 DEF PoolTypeOK
    <3>5. batch'[h] \subseteq Selected(h, page)
      BY <3>1, <3>2, <3>3, <3>4 DEF UpTo
    <3> QED
      BY <3>5 DEF UpTo
  <2> QED
    BY <2>1 DEF Selected, Stale, Gaps, SelectsFresh
<1>4. ASSUME Choose(h)
      PROVE  SelectsFresh(h)
  <2>1. \A p \in batch'[h] : StillCandidate(h, p)
    BY <1>4 DEF Choose, PoolTypeOK
  <2> QED
    BY <2>1 DEF StillCandidate, SelectsFresh
<1>5. ASSUME NEW p \in Packages, Submit(h, p)
      PROVE  SelectsFresh(h)
  BY <1>5
     DEF Submit, SetLane, SelectsFresh, PoolTypeOK, vars, allVars, storeVars,
         memoryVars, poolVars
<1>6. ASSUME CrashPool(h)
      PROVE  SelectsFresh(h)
  BY <1>6
     DEF CrashPool, Crash, Goto, SelectsFresh, PoolTypeOK, vars, allVars,
         storeVars, memoryVars, poolVars
<1>7. ASSUME NEW p \in Packages, CollectInLane(h, p)
      PROVE  SelectsFresh(h)
  BY <1>7
     DEF CollectInLane, SetLane, LaneFrame, SelectsFresh, PoolTypeOK, vars,
         allVars, storeVars, memoryVars, poolVars
<1>8. ASSUME NEW p \in Packages, ReserveInLane(h, p)
      PROVE  SelectsFresh(h)
  BY <1>8
     DEF ReserveInLane, SetLane, LaneFrame, SelectsFresh, PoolTypeOK, vars,
         allVars, storeVars, memoryVars, poolVars
<1>9. ASSUME NEW p \in Packages, PublishInLane(h, p)
      PROVE  SelectsFresh(h)
  BY <1>9
     DEF PublishInLane, SetLane, LaneFrame, SelectsFresh, PoolTypeOK, vars,
         allVars, storeVars, memoryVars, poolVars
<1>10. ASSUME NEW p \in Packages, PublicationRaises(h, p)
      PROVE  SelectsFresh(h)
  BY <1>10
     DEF PublicationRaises, SetLane, LaneFrame, SelectsFresh, PoolTypeOK, vars,
         allVars, storeVars, memoryVars, poolVars
<1>11. ASSUME NEW p \in Packages, OfferInLane(h, p)
      PROVE  SelectsFresh(h)
  BY <1>11
     DEF OfferInLane, SetLane, LaneFrame, SelectsFresh, PoolTypeOK, vars,
         allVars, storeVars, memoryVars, poolVars
<1>12. ASSUME NEW p \in Packages, ReturnInLane(h, p)
      PROVE  SelectsFresh(h)
  BY <1>12
     DEF ReturnInLane, SetLane, LaneFrame, SelectsFresh, PoolTypeOK, vars,
         allVars, storeVars, memoryVars, poolVars
<1>13. ASSUME NEW p \in Packages, OfferFails(h, p)
      PROVE  SelectsFresh(h)
  BY <1>13
     DEF OfferFails, SetLane, LaneFrame, SelectsFresh, PoolTypeOK, vars,
         allVars, storeVars, memoryVars, poolVars
<1> QED
  BY <1>1, <1>2, <1>3, <1>4, <1>5, <1>6, <1>7, <1>8, <1>9, <1>10, <1>11, <1>12,
     <1>13
     DEF OwnStep, Attend, LaneStep

\* However old a snapshot is, nothing returned or collected is selected from it
\* (opportunities.py _valid_candidate).
THEOREM SelectionsAreFresh == PoolSpec => SelectionIsFresh
<1>1. PoolInv /\ [PoolNext]_allVars => [\A h \in Pools : SelectsFresh(h)]_allVars
  <2> SUFFICES ASSUME PoolInv, PoolNext, NEW h \in Pools
               PROVE  SelectsFresh(h)
    OBVIOUS
  <2>1. PoolTypeOK
    BY DEF PoolInv
  <2>2. CASE OwnStep(h)
    BY <2>1, <2>2, SelectionOwn
  <2>3. CASE Untouched(h)
    BY <2>3 DEF Untouched, SelectsFresh
  <2> QED
    BY <2>1, <2>2, <2>3, Steps, OthersUntouched, OtherStepsTouchNothing
       DEF Pools
<1>2. PoolSpec => [][\A h \in Pools : SelectsFresh(h)]_allVars
  BY <1>1, PoolInvariance, PTL DEF PoolSpec
<1> QED
  BY <1>2 DEF SelectionIsFresh, SelectsFresh
================================================================================
