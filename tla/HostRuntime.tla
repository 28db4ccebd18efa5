------------------------------ MODULE HostRuntime ------------------------------
(***************************************************************************)
(* The Host Runtime: visits that select a batch of candidates, collect     *)
(* each and offer its Collection to the application's adapter, a mark when *)
(* the adapter returns control, and Runtimes that die at any moment.  The  *)
(* steps of collection and of recovery are those of Collection; here each  *)
(* takes effect at once, but for the reservation before a CL.              *)
(***************************************************************************)
EXTENDS Naturals, FiniteSets

CONSTANTS
  Packages,   \* PKG-... identities
  Hosts,      \* Host Runtimes, each under a name of its own
  Interest,   \* the Packages whose Kind a Runtime attends to
  BatchSize,  \* how many it selects in one visit
  MaxCrashes, \* bound: Runtimes killed, stopped, or ended by their adapter
  None        \* no Host, no Package

ASSUME RuntimeConstants ==
  /\ None \notin Packages \cup Hosts
  /\ Interest \in [Hosts -> SUBSET Packages]
  /\ BatchSize \in Nat \ {0}
  /\ MaxCrashes \in Nat

VARIABLES
  accepted,   \* acceptances/
  rows,       \* the candidate projection
  reserved,   \* collections/by-package/
  collector,  \* the collector that the CL fact of a Package names, or None
  returned,   \* host-runtime/dispatch-returned/: the Runtime it names, or None
  pc,         \* where each Runtime is
  recovering, \* is it in its first visit?
  recovered,  \* recovery_collections: the CLs its recovery found to be its own
  batch,      \* what it selected and has yet to collect
  job,        \* the Package it collects and offers
  crashes

storeVars  == <<accepted, rows, reserved, collector, returned>>
memoryVars == <<pc, recovering, recovered, batch, job>>
vars == <<storeVars, memoryVars, crashes>>

TypeOK ==
  /\ {accepted, rows, reserved} \subseteq SUBSET Packages
  /\ {collector, returned} \subseteq [Packages -> Hosts \cup {None}]
  /\ pc \in [Hosts -> {"down", "inspect", "collect", "reserve", "publish",
                       "offer", "offered"}]
  /\ recovering \in [Hosts -> BOOLEAN]
  /\ recovered \in [Hosts -> SUBSET Packages]
  /\ batch \in [Hosts -> SUBSET Packages]
  /\ job \in [Hosts -> Packages \cup {None}]
  /\ crashes \in Nat

Init ==
  /\ accepted = {} /\ rows = {} /\ reserved = {}
  /\ collector = [p \in Packages |-> None]
  /\ returned = [p \in Packages |-> None]
  /\ pc = [h \in Hosts |-> "down"]
  /\ recovering = [h \in Hosts |-> FALSE]
  /\ recovered = [h \in Hosts |-> {}]
  /\ batch = [h \in Hosts |-> {}]
  /\ job = [h \in Hosts |-> None]
  /\ crashes = 0

Collected == {p \in Packages : collector[p] # None}
Returned  == {p \in Packages : returned[p] # None}

Goto(h, label) == pc' = [pc EXCEPT ![h] = label]

\* The Porter accepts a Package and publishes its row.
Accept(p) ==
  /\ p \notin accepted
  /\ accepted' = accepted \cup {p}
  /\ rows' = rows \cup {p}
  /\ UNCHANGED <<reserved, collector, returned, memoryVars, crashes>>

\* A Runtime starts; its first visit recovers every CL, and remembers those
\* that are its own.
Recover(h) ==
  /\ pc[h] = "down"
  /\ reserved' = reserved \cup Collected
  /\ rows' = rows \ Collected
  /\ recovering' = [recovering EXCEPT ![h] = TRUE]
  /\ recovered' = [recovered EXCEPT ![h] =
                     {p \in Interest[h] : collector[p] = h}]
  /\ Goto(h, "inspect")
  /\ UNCHANGED <<accepted, collector, returned, batch, job, crashes>>

\* The n first of S in the order of their identities, or all of S.
UpTo(n, S) == {T \in SUBSET S : \/ Cardinality(T) = n
                                \/ Cardinality(T) < n /\ T = S}

\* Mistake: a recovered Package is offered whether or not control returned.
GapsReturned(h, page) == IF recovering[h] THEN recovered[h] \ page ELSE {}

\* Mistake: the association of a recovered Package suppresses it, too.
GapsSuppressed(h, page) == {}

\* Recovered Packages are candidates of the first visit, without a row.
Gaps(h, page) ==
  IF recovering[h] THEN recovered[h] \ (page \cup Returned) ELSE {}

\* The rows of a page that a mark or an association makes stale.
Stale(page) == page \cap (Returned \cup reserved)

Selected(h, page) == batch[h] \cup (page \ Stale(page)) \cup Gaps(h, page)

\* When rows were stale and the batch is not full, another round refills it.
Refills(h, page) ==
  Stale(page) # {} /\ Cardinality(Selected(h, page)) < BatchSize

\* One round of candidates, which settles the stale rows of its page.  Which
\* Packages a full batch keeps depends on the order of their random identities.
Inspect(h) ==
  /\ pc[h] = "inspect"
  /\ \E page \in UpTo(BatchSize, rows \cap Interest[h]) :
       /\ rows' = rows \ Stale(page)
       /\ IF Refills(h, page)
            THEN /\ batch' = [batch EXCEPT ![h] = Selected(h, page)]
                 /\ UNCHANGED <<pc, recovering>>
            ELSE /\ \E kept \in UpTo(BatchSize, Selected(h, page)) :
                      /\ batch[h] \subseteq kept
                      /\ batch' = [batch EXCEPT ![h] = kept]
                 /\ recovering' = [recovering EXCEPT ![h] = FALSE]
                 /\ Goto(h, "collect")
  /\ UNCHANGED <<accepted, reserved, collector, returned, recovered, job,
                 crashes>>

\* Mistake: collect_package takes no lock.
NoLockedPackages == {}

LockedPackages ==
  {job[h] : h \in {g \in Hosts : pc[g] \in {"reserve", "publish"}}}

\* collect_package: a CL that exists is materialized again and offered.
Collect(h, p) ==
  /\ pc[h] = "collect"
  /\ p \in batch[h] \ LockedPackages
  /\ batch' = [batch EXCEPT ![h] = @ \ {p}]
  /\ job' = [job EXCEPT ![h] = p]
  /\ IF collector[p] # None
       THEN /\ rows' = rows \ {p}
            /\ reserved' = reserved \cup {p}
            /\ Goto(h, "offer")
       ELSE UNCHANGED <<rows, reserved>> /\ Goto(h, "reserve")
  /\ UNCHANGED <<accepted, collector, returned, recovering, recovered, crashes>>

Reserve(h) ==
  /\ pc[h] = "reserve"
  /\ reserved' = reserved \cup {job[h]}
  /\ Goto(h, "publish")
  /\ UNCHANGED <<accepted, rows, collector, returned, recovering, recovered,
                 batch, job, crashes>>

Publish(h) ==
  /\ pc[h] = "publish"
  /\ collector' = [collector EXCEPT ![job[h]] = h]
  /\ rows' = rows \ {job[h]}
  /\ Goto(h, "offer")
  /\ UNCHANGED <<accepted, reserved, returned, recovering, recovered, batch,
                 job, crashes>>

\* The Collection is written to the adapter, and the application may act.
Offer(h) ==
  /\ pc[h] = "offer"
  /\ Goto(h, "offered")
  /\ UNCHANGED <<storeVars, recovering, recovered, batch, job, crashes>>

\* The adapter returns control, and the mark is written.
Return(h) ==
  /\ pc[h] = "offered"
  /\ returned' = [returned EXCEPT ![job[h]] = h]
  /\ Goto(h, "collect")
  /\ job' = [job EXCEPT ![h] = None]
  /\ UNCHANGED <<accepted, rows, reserved, collector, recovering, recovered,
                 batch, crashes>>

EndVisit(h) ==
  /\ pc[h] = "collect"
  /\ batch[h] = {}
  /\ Goto(h, "inspect")
  /\ UNCHANGED <<storeVars, recovering, recovered, batch, job, crashes>>

\* The Runtime is killed, stops between offers, or ends with the exception of
\* an adapter that exited or answered wrongly.
Crash(h) ==
  /\ crashes < MaxCrashes
  /\ pc[h] # "down"
  /\ crashes' = crashes + 1
  /\ Goto(h, "down")
  /\ recovering' = [recovering EXCEPT ![h] = FALSE]
  /\ recovered' = [recovered EXCEPT ![h] = {}]
  /\ batch' = [batch EXCEPT ![h] = {}]
  /\ job' = [job EXCEPT ![h] = None]
  /\ UNCHANGED storeVars

VisitStep(h) ==
  \/ Recover(h) \/ Inspect(h) \/ EndVisit(h) \/ Reserve(h) \/ Publish(h)
  \/ Offer(h) \/ Return(h)
  \/ \E p \in Packages : Collect(h, p)

Next ==
  \/ \E p \in Packages : Accept(p)
  \/ \E h \in Hosts : VisitStep(h) \/ Crash(h)

Spec == Init /\ [][Next]_vars

\* A Runtime keeps visiting and is started again when it ended; an adapter
\* returns control or ends its Runtime.
FairSpec == Spec /\ \A h \in Hosts : WF_vars(VisitStep(h))

----------------------------------------------------------------------------
(* Properties. *)

\* A reservation without a CL that nobody is about to publish.
Stranded(p) ==
  p \in reserved \ LockedPackages /\ collector[p] = None

\* Every Package that some Runtime attends to is offered until control
\* returns, whatever is killed between its CL and its mark (the comment in
\* candidates: the crash gap "must be offered again").
AcceptedIsOffered ==
  \A p \in UNION {Interest[h] : h \in Hosts} :
    p \in accepted ~> p \in Returned \/ Stranded(p)

\* What a Runtime has selected and not yet offered it never saw returned.
SelectedInv ==
  \A h \in Hosts :
    /\ pc[h] = "down" => batch[h] = {}
    /\ \A p \in batch[h] : returned[p] # h
    /\ pc[h] \in {"reserve", "publish", "offer", "offered"} =>
         job[h] \in Packages \ batch[h] /\ returned[job[h]] # h

\* Who publishes a CL holds its Package alone and found none; what is offered
\* has one.
PublisherInv ==
  \A h \in Hosts :
    /\ pc[h] \in {"reserve", "publish"} =>
         /\ collector[job[h]] = None
         /\ \A g \in Hosts \ {h} :
              pc[g] \in {"reserve", "publish"} => job[g] # job[h]
    /\ pc[h] \in {"offer", "offered"} => collector[job[h]] # None

\* A mark is one of a Package that has a CL, and every CL one of an accepted
\* Package, however many Runtimes select the same one and die between two
\* replacements (host_runtime.py visit, custody.py collect_package).
StoreInv ==
  /\ Returned \subseteq Collected
  /\ \A h \in Hosts :
       recovered[h] \cup batch[h] \cup ({job[h]} \ {None}) \subseteq accepted
  /\ rows \cup Collected \subseteq accepted

VisitInv == TypeOK /\ SelectedInv /\ PublisherInv /\ StoreInv

\* A Runtime never offers a Package again once control returned to it, through
\* every restart (test_host_runtime.py
\* test_restart_mid_batch_redelivers_only_ambiguous_and_unvisited_work).
OnlyAmbiguousIsReoffered ==
  [][\A h \in Hosts : pc[h] = "offer" /\ pc'[h] = "offered" =>
       returned[job[h]] # h]_vars
================================================================================
