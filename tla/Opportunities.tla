----------------------------- MODULE Opportunities -----------------------------
(***************************************************************************)
(* The Runtimes with a pool of adapters, which keep several offers         *)
(* outstanding: a visit reaps what the lanes of its executor finished,     *)
(* selects no more than it has adapters for, and gives each Package to a   *)
(* lane of its own.  A bounded Runtime has all of its adapters from the    *)
(* start; an elastic one starts with one, keeps a snapshot of candidates   *)
(* between visits, and acquires and sheds adapters.  What a lane does to   *)
(* the directory is what HostRuntime does.                                 *)
(***************************************************************************)
EXTENDS HostRuntime

CONSTANTS
  Rivals,      \* Hosts that collect by other means
  Policies,    \* command lines: elastic or bounded, parallel or serial publication
  MaxOffers,   \* max_inflight_offers, and maximum_adapters
  MaxFailures  \* bound: offers and publications that raise

ASSUME PoolConstants ==
  /\ IsFiniteSet(Packages)
  /\ Rivals \subseteq Hosts
  /\ Policies \subseteq [elastic : BOOLEAN, parallel : BOOLEAN]
  /\ MaxOffers \in Nat \ {0}
  /\ MaxFailures \in Nat

VARIABLES
  policy,     \* what a Runtime was started with
  lane,       \* what the future of a submitted Package has come to
  snapshot,   \* candidate_snapshot, of an elastic Runtime
  adapters,   \* len(adapters): all it counts, the closed ones too
  available,  \* available_count
  closed,     \* adapters closed because their offer failed
  starting,   \* acquisitions in progress
  begun,      \* Packages whose dispatch began in this process
  raised,     \* operational_errors: Packages whose publication raised
  failures

Pools == Hosts \ Rivals

poolVars == <<policy, lane, snapshot, adapters, available, closed, starting,
              begun, raised, failures>>
allVars == <<vars, poolVars>>

Publishing == {"collect", "reserve", "publish"}
LaneLabels == Publishing \cup {"none", "offer", "offered", "done", "failed"}

PoolTypeOK ==
  /\ {accepted, rows, reserved} \subseteq SUBSET Packages
  /\ {collector, returned} \subseteq [Packages -> Hosts \cup {None}]
  /\ pc \in [Hosts -> {"down", "inspect", "choose", "collect"}]
  /\ recovering \in [Hosts -> BOOLEAN]
  /\ {recovered, batch, snapshot, begun, raised}
       \subseteq [Hosts -> SUBSET Packages]
  /\ policy \in [Pools -> Policies]
  /\ lane \in [Hosts -> [Packages -> LaneLabels]]
  /\ {adapters, available, closed, starting} \subseteq [Hosts -> 0 .. MaxOffers]
  /\ {crashes, failures} \subseteq Nat

PoolInit ==
  /\ Init
  /\ policy \in [Pools -> Policies]
  /\ lane = [h \in Hosts |-> [p \in Packages |-> "none"]]
  /\ snapshot = [h \in Hosts |-> {}]
  /\ adapters = [h \in Hosts |-> 0]
  /\ available = [h \in Hosts |-> 0]
  /\ closed = [h \in Hosts |-> 0]
  /\ starting = [h \in Hosts |-> 0]
  /\ begun = [h \in Hosts |-> {}]
  /\ raised = [h \in Hosts |-> {}]
  /\ failures = 0

----------------------------------------------------------------------------
(* The pool. *)

InLane(h, labels) == {p \in Packages : lane[h][p] \in labels}

\* The Packages in submitted: each holds an adapter.
Submitted(h) == InLane(h, LaneLabels \ {"none"})

SetLane(h, p, label) == lane' = [lane EXCEPT ![h][p] = label]

Lesser(a, b) == IF a < b THEN a ELSE b

\* How many more offers a visit may make with so many adapters and starts.
Capacity(offers, starts, free) == Lesser(MaxOffers - offers - starts, free)

\* With serial publication the visit itself collects, one Package at a time.
VisitIsFree(h) == policy[h].parallel \/ InLane(h, Publishing) = {}

\* A Runtime starts, with one warm adapter or with as many as it may use.
StartPool(h) ==
  /\ Recover(h)
  /\ LET warm == IF policy[h].elastic THEN 1 ELSE MaxOffers
     IN /\ adapters' = [adapters EXCEPT ![h] = warm]
        /\ available' = [available EXCEPT ![h] = warm]
  /\ UNCHANGED <<policy, lane, snapshot, closed, starting, begun, raised,
                 failures>>

\* Mistake: an adapter is made available again whatever became of its offer.
ReapedAlways(h) == InLane(h, {"done", "failed"})

\* Mistake: the adapter of an offer that returned control is kept.
ReapedNever(h) == {}

\* The futures whose adapter is available again once they are reaped.
Reaped(h) == InLane(h, {"done"})

Ended(h) == InLane(h, {"done", "failed"})

\* An adapter that returned control is available again, and one whose offer
\* failed is closed; the pool still counts it.
ReapOffers(h, grown) ==
  /\ lane' = [lane EXCEPT ![h] =
                [p \in Packages |-> IF p \in Ended(h) THEN "none" ELSE @[p]]]
  /\ available' = [available EXCEPT ![h] = @ + Cardinality(Reaped(h)) + grown]
  /\ closed' = [closed EXCEPT ![h] = @ + Cardinality(InLane(h, {"failed"}))]

\* Some of the acquisitions have ended, with an adapter or without.
ReapStarts(h, grown, lost) ==
  /\ grown + lost <= starting[h]
  /\ adapters' = [adapters EXCEPT ![h] = @ + grown]
  /\ starting' = [starting EXCEPT ![h] = @ - grown - lost]

\* A bounded visit inspects when it has capacity, else it is over.
BoundedGoesOn(h, capacity) ==
  IF capacity > 0 THEN Goto(h, "inspect") ELSE UNCHANGED pc

\* An elastic one also needs an empty snapshot, and the interval to have
\* passed; before that it may only reap and resize.
ElasticGoesOn(h, capacity, reaped) ==
  \/ snapshot[h] = {} /\ capacity > 0 /\ Goto(h, "inspect")
  \/ /\ snapshot[h] # {} \/ capacity <= 0 \/ reaped
     /\ Goto(h, "choose")

NextVisit(h) ==
  /\ pc[h] = "collect" /\ batch[h] = {} /\ VisitIsFree(h)
  /\ \E grown, lost \in 0 .. starting[h] :
       LET offers   == Cardinality(Submitted(h) \ Ended(h))
           capacity == Capacity(offers, starting'[h], available'[h])
       IN /\ ReapStarts(h, grown, lost)
          /\ ReapOffers(h, grown)
          /\ IF policy[h].elastic
               THEN ElasticGoesOn(h, capacity, Ended(h) # {} \/ grown + lost > 0)
               ELSE BoundedGoesOn(h, capacity)
  /\ UNCHANGED <<storeVars, recovering, recovered, batch, job, crashes, policy,
                 snapshot, begun, raised, failures>>

CapacityNow(h) ==
  Capacity(Cardinality(Submitted(h)), starting[h], available[h])

\* A bounded Runtime submits the first candidates, as its capacity allows.
SelectFirst(h, fresh) ==
  /\ \E S \in UpTo(CapacityNow(h), fresh) : batch' = [batch EXCEPT ![h] = S]
  /\ Goto(h, "collect")
  /\ UNCHANGED snapshot

\* An elastic one keeps them all.
RefreshSnapshot(h, fresh) ==
  /\ snapshot' = [snapshot EXCEPT ![h] = fresh]
  /\ batch' = [batch EXCEPT ![h] = {}]
  /\ Goto(h, "choose")

\* A round of candidates, as in Inspect; submitted Packages are left out.
InspectPool(h) ==
  /\ pc[h] = "inspect"
  /\ \E page \in UpTo(BatchSize, rows \cap Interest[h]) :
       /\ rows' = rows \ Stale(page)
       /\ IF Refills(h, page)
            THEN /\ batch' = [batch EXCEPT ![h] = Selected(h, page)]
                 /\ UNCHANGED <<pc, recovering, snapshot>>
            ELSE /\ \E kept \in UpTo(BatchSize, Selected(h, page)) :
                      /\ batch[h] \subseteq kept
                      /\ IF policy[h].elastic
                           THEN RefreshSnapshot(h, kept \ Submitted(h))
                           ELSE SelectFirst(h, kept \ Submitted(h))
                 /\ recovering' = [recovering EXCEPT ![h] = FALSE]
  /\ UNCHANGED <<accepted, reserved, collector, returned, recovered, job,
                 crashes, policy, lane, adapters, available, closed, starting,
                 begun, raised, failures>>

\* Mistake: a snapshot is as good as an inspection.
StillListed(h, p) == lane[h][p] = "none"

\* A cached identity is offered only if the directory still allows it.
StillCandidate(h, p) ==
  /\ lane[h][p] = "none"
  /\ p \in accepted \ (Returned \cup reserved)

Pressure(h) ==
  /\ snapshot[h] # {}
  /\ Cardinality(snapshot[h]) > available[h] \/ Submitted(h) # {}

\* How many offers may have been slow: those whose dispatch began.
SlowEvidence(h) == Cardinality(begun[h])

\* Mistake: starts in progress are not counted.
MayGrowUncommitted(h) ==
  Pressure(h) /\ adapters[h] < MaxOffers /\ SlowEvidence(h) >= adapters[h]

MayGrow(h) ==
  LET committed == adapters[h] + starting[h]
  IN Pressure(h) /\ committed < MaxOffers /\ SlowEvidence(h) >= committed

\* Every recent offer may have been cheap, and no dispatch is in progress.
CheapWindow(h) == InLane(h, {"offered"}) = {}

\* One more than is needed to go on stays available.
MayShed(h) ==
  /\ adapters[h] > 1 /\ available[h] > 1
  /\ IF Pressure(h) THEN CheapWindow(h)
                    ELSE snapshot[h] = {} /\ Submitted(h) = {}

\* An elastic visit may resize by one, then takes from its snapshot what is
\* still a candidate until it has enough or the snapshot is empty.
Choose(h) ==
  /\ pc[h] = "choose"
  /\ \E more, less \in 0 .. 1 :
       LET capacity == Capacity(Cardinality(Submitted(h)), starting[h] + more,
                                available[h] - less)
       IN /\ more = 1 => MayGrow(h)
          /\ less = 1 => MayShed(h) /\ more = 0
          /\ starting' = [starting EXCEPT ![h] = @ + more]
          /\ adapters' = [adapters EXCEPT ![h] = @ - less]
          /\ available' = [available EXCEPT ![h] = @ - less]
          /\ \E popped \in SUBSET snapshot[h] :
               LET valid == {p \in popped : StillCandidate(h, p)}
               IN /\ IF capacity <= 0
                       THEN popped = {}
                       ELSE \/ Cardinality(valid) = capacity
                            \/ Cardinality(valid) < capacity /\ popped = snapshot[h]
                  /\ snapshot' = [snapshot EXCEPT ![h] = @ \ popped]
                  /\ batch' = [batch EXCEPT ![h] = valid]
  /\ Goto(h, "collect")
  /\ UNCHANGED <<storeVars, recovering, recovered, job, crashes, policy, lane,
                 closed, begun, raised, failures>>

\* A selected Package takes an adapter.
Submit(h, p) ==
  /\ pc[h] = "collect" /\ VisitIsFree(h)
  /\ p \in batch[h] /\ available[h] > 0
  /\ batch' = [batch EXCEPT ![h] = @ \ {p}]
  /\ available' = [available EXCEPT ![h] = @ - 1]
  /\ SetLane(h, p, "collect")
  /\ UNCHANGED <<storeVars, pc, recovering, recovered, job, crashes, policy,
                 snapshot, adapters, closed, starting, begun, raised, failures>>

----------------------------------------------------------------------------
(* A lane: the collection of one Package and its offer. *)

PackageIsLocked(p) == \E h \in Hosts : lane[h][p] \in {"reserve", "publish"}

LaneFrame ==
  UNCHANGED <<accepted, memoryVars, crashes, policy, snapshot, adapters, closed,
              starting>>

\* collect_package: a CL that exists is materialized again and offered.
CollectInLane(h, p) ==
  /\ lane[h][p] = "collect" /\ ~PackageIsLocked(p)
  /\ IF collector[p] # None
       THEN /\ rows' = rows \ {p}
            /\ reserved' = reserved \cup {p}
            /\ SetLane(h, p, "offer")
       ELSE UNCHANGED <<rows, reserved>> /\ SetLane(h, p, "reserve")
  /\ LaneFrame
  /\ UNCHANGED <<collector, returned, available, begun, raised, failures>>

ReserveInLane(h, p) ==
  /\ lane[h][p] = "reserve"
  /\ reserved' = reserved \cup {p}
  /\ SetLane(h, p, "publish")
  /\ LaneFrame
  /\ UNCHANGED <<rows, collector, returned, available, begun, raised, failures>>

PublishInLane(h, p) ==
  /\ lane[h][p] = "publish"
  /\ collector' = [collector EXCEPT ![p] = h]
  /\ rows' = rows \ {p}
  /\ SetLane(h, p, "offer")
  /\ LaneFrame
  /\ UNCHANGED <<reserved, returned, available, begun, raised, failures>>

\* The publication raises, before or after its CL is written.  A serial visit
\* goes on with the adapter available; a parallel one reaps a failed future.
PublicationRaises(h, p) ==
  /\ failures < MaxFailures
  /\ lane[h][p] \in Publishing
  /\ failures' = failures + 1
  /\ raised' = [raised EXCEPT ![h] = @ \cup {p}]
  /\ \/ UNCHANGED collector
     \/ lane[h][p] = "publish" /\ collector' = [collector EXCEPT ![p] = h]
  /\ IF policy[h].parallel
       THEN SetLane(h, p, "failed") /\ UNCHANGED available
       ELSE SetLane(h, p, "none") /\ available' = [available EXCEPT ![h] = @ + 1]
  /\ LaneFrame
  /\ UNCHANGED <<rows, reserved, returned, begun>>

\* The dispatch is recorded and the Collection written to the adapter.
OfferInLane(h, p) ==
  /\ lane[h][p] = "offer"
  /\ begun' = [begun EXCEPT ![h] = @ \cup {p}]
  /\ SetLane(h, p, "offered")
  /\ LaneFrame
  /\ UNCHANGED <<rows, reserved, collector, returned, available, raised, failures>>

\* The adapter returns control, and the mark is written.
ReturnInLane(h, p) ==
  /\ lane[h][p] = "offered"
  /\ returned' = [returned EXCEPT ![p] = h]
  /\ SetLane(h, p, "done")
  /\ LaneFrame
  /\ UNCHANGED <<rows, reserved, collector, available, begun, raised, failures>>

\* The adapter exits or answers wrongly, or the mark cannot be written.
OfferFails(h, p) ==
  /\ failures < MaxFailures
  /\ lane[h][p] = "offered"
  /\ failures' = failures + 1
  /\ SetLane(h, p, "failed")
  /\ LaneFrame
  /\ UNCHANGED <<rows, reserved, collector, returned, available, begun, raised>>

----------------------------------------------------------------------------
(* The whole. *)

AcceptForPool(p) == Accept(p) /\ UNCHANGED poolVars

\* Another Host, or the caller of a Collection Ticket, collects a Package.
RivalCollects(g, p) ==
  /\ p \in accepted /\ collector[p] = None /\ ~PackageIsLocked(p)
  /\ collector' = [collector EXCEPT ![p] = g]
  /\ reserved' = reserved \cup {p}
  /\ rows' = rows \ {p}
  /\ UNCHANGED <<accepted, returned, memoryVars, crashes, poolVars>>

\* The process is killed, or closes: adapters, lanes and snapshot are gone.
CrashPool(h) ==
  /\ Crash(h)
  /\ lane' = [lane EXCEPT ![h] = [p \in Packages |-> "none"]]
  /\ snapshot' = [snapshot EXCEPT ![h] = {}]
  /\ begun' = [begun EXCEPT ![h] = {}]
  /\ raised' = [raised EXCEPT ![h] = {}]
  /\ adapters' = [adapters EXCEPT ![h] = 0]
  /\ available' = [available EXCEPT ![h] = 0]
  /\ closed' = [closed EXCEPT ![h] = 0]
  /\ starting' = [starting EXCEPT ![h] = 0]
  /\ UNCHANGED <<policy, failures>>

Attend(h) ==
  \/ StartPool(h) \/ NextVisit(h) \/ InspectPool(h) \/ Choose(h)
  \/ \E p \in Packages : Submit(h, p)

LaneStep(h, p) ==
  \/ CollectInLane(h, p) \/ ReserveInLane(h, p) \/ PublishInLane(h, p)
  \/ PublicationRaises(h, p)
  \/ OfferInLane(h, p) \/ ReturnInLane(h, p) \/ OfferFails(h, p)

PoolNext ==
  \/ \E p \in Packages : AcceptForPool(p)
  \/ \E g \in Rivals, p \in Packages : RivalCollects(g, p)
  \/ \E h \in Pools : Attend(h) \/ CrashPool(h)
  \/ \E h \in Pools, p \in Packages : LaneStep(h, p)

PoolSpec == PoolInit /\ [][PoolNext]_allVars

\* A Runtime keeps visiting and is started again when it ended; a lane
\* proceeds, and an adapter returns control or fails.
FairPoolSpec ==
  /\ PoolSpec
  /\ \A h \in Pools : WF_allVars(Attend(h))
  /\ \A h \in Pools, p \in Packages : WF_allVars(LaneStep(h, p))

----------------------------------------------------------------------------
(* Properties. *)

\* Every adapter that a Runtime counts is available, holds one offer, or is
\* closed, so that a visit which takes an adapter for a selected Package never
\* waits in available.get for one that nobody returns.
AdaptersAreConserved ==
  \A h \in Pools :
    /\ adapters[h] = available[h] + closed[h] + Cardinality(Submitted(h))
    /\ adapters[h] + starting[h] <= MaxOffers
    /\ Cardinality(batch[h]) <= available[h] \/ pc[h] # "collect"

\* HOST-RUNTIME-NONBLOCKING-CAPACITY-ACQUISITION-CHECK.md: offers, publication
\* and acquisitions in progress are together no more than the configured
\* maximum, also with everything that a visit has selected and yet to submit;
\* no lane waits for a worker of the executor.
OpportunitiesAreBounded ==
  \A h \in Pools :
    Cardinality(Submitted(h)) + starting[h]
      + (IF pc[h] = "collect" THEN Cardinality(batch[h]) ELSE 0) <= MaxOffers

\* A dead Runtime has nothing; a Package it selected, or that waits in a lane for
\* its offer, is one it attends to, was not offered by this process and never
\* returned to it.
LaneOf(h) ==
  /\ pc[h] = "down" =>
       /\ Submitted(h) = {}
       /\ batch[h] \cup snapshot[h] \cup begun[h] \cup raised[h] = {}
       /\ adapters[h] = 0 /\ available[h] = 0 /\ closed[h] = 0
       /\ starting[h] = 0
  /\ recovering[h] =>
       pc[h] = "inspect" /\ Submitted(h) \cup begun[h] \cup snapshot[h] = {}
  /\ pc[h] = "choose" => batch[h] = {}
  /\ pc[h] = "collect" => batch[h] \cap Submitted(h) = {}
  /\ Submitted(h) \cup batch[h] \cup snapshot[h] \cup recovered[h]
       \subseteq Interest[h]
  /\ begun[h] \cup InLane(h, {"publish", "offer"}) \subseteq reserved
  /\ \A p \in InLane(h, Publishing \cup {"offer"}) \cup (batch[h] \ Submitted(h)) :
       p \notin begun[h] /\ returned[p] # h

LaneInv == \A h \in Pools : LaneOf(h)

\* What this process collected and saw no control return from.
Unreturned(h) ==
  {p \in Packages : collector[p] = h /\ returned[p] = None}
    \ (recovered[h] \cup raised[h])

\* It is in a lane still, or an adapter was closed for it.
UnreturnedOf(h) ==
  /\ pc[h] # "down" =>
       Cardinality(Unreturned(h) \ Submitted(h)) <= closed[h]
  /\ \A p \in Packages : collector[p] = h => p \in Interest[h]
  /\ \A p \in InLane(h, {"done"}) : returned[p] # None

UnreturnedInv == \A h \in Pools : UnreturnedOf(h)

\* What a pool has and does, through every start, failure, visit and lane.
PoolInv ==
  /\ PoolTypeOK /\ AdaptersAreConserved /\ OpportunitiesAreBounded
  /\ LaneInv /\ UnreturnedInv

\* HOST-RUNTIME-OPPORTUNITY-SCHEDULING-CHECK.md: "a bound of four can create
\* at most four new CLs without control returns", through offers that fail,
\* since the adapter of a failed offer is never replaced; but for publications
\* that raised after their CL.
UnreturnedIsBounded ==
  \A h \in Pools :
    pc[h] # "down" => Cardinality(Unreturned(h)) <= MaxOffers

\* What a visit newly selects is neither returned nor collected, however old
\* the snapshot it comes from, but for what the first visit recovered
\* (test_opportunities.py test_cached_candidate_is_revalidated_before_offer).
SelectionIsFresh ==
  [][\A h \in Pools : \A p \in batch'[h] \ batch[h] :
       /\ p \notin Returned
       /\ p \in reserved => recovering[h] /\ p \in recovered[h]]_allVars

\* A Runtime with a pool invents no retry: a process offers a Package once,
\* whatever became of the offer, and never after it saw control return in an
\* earlier life (HOST-RUNTIME-ELASTIC-OPPORTUNITY-CAPACITY-CHECK.md).
NoRetryIsInvented ==
  [][\A h \in Pools, p \in Packages :
       lane[h][p] = "offer" /\ lane'[h][p] = "offered" =>
         p \notin begun[h] /\ returned[p] # h]_allVars

\* Unless a publication or an offer fails, every Package a Runtime attends to
\* is offered until control returns, or somebody else has it.  After a crash it
\* is at least no longer a candidate: what a death left between CL and mark is
\* offered again only as far as the first visit has room.
AttentionIsServed ==
  \A h \in Pools : \A p \in Interest[h] :
    [](failures = 0) =>
      (p \in accepted ~> \/ p \in Returned
                         \/ collector[p] \in Rivals
                         \/ crashes > 0 /\ p \in reserved)
================================================================================
