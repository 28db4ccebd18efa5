# PORTER in TLA+

PORTER moves correspondence between institutions. A sender's Host *lodges* a
Package with its own Porter; that Porter carries it over HTTP to a recipient
Porter, which *accepts* it; a recipient Host *collects* it when it chooses to
look. Three facts are canonical, `LG` (lodged), `AC` (accepted) and `CL`
(collected); everything else in a Porter's directory tree is a projection that
may be lost and rebuilt. There is no server in the middle of a Porter: the
Porter process, its request threads, Host Runtimes and Ticket callers meet in
one directory, through files that are replaced whole, and `flock`.

This directory specifies that behaviour from the Python source in
`src/porter/`, model-checks it with TLC and proves the central results with
TLAPS. `PROJECT.json` maps each definition to the lines it models and lists runs,
mutants, findings, hazards and theorems.

## 1. Inventory

| Component | State | Operations | Interacts with | What is hard | What makes it correct |
|---|---|---|---|---|---|
| Store and locks (`lodgement.py` `atomic_*`, the flocks) | one directory tree | replace a file, unlink, lock | everything | process death between two replacements; power cuts undo what was not fsynced | each property below, through every crash |
| Acceptance (`carriage.py` `accept`, `recover_acceptances`; `daemon.py` `deposit`) | `acceptances/`, `inbox/` | deposit, restart | request threads; candidate projection; collectors unlink its inbox | two threads with one Package; a write that raises midway; repeated arrival during a collection | one AC per Package; evidence never contradicted; an accepted Package is held |
| Custody transfer (`custody.py`) | `collections/facts`, `collections/by-package`, `collected/`, `frontier.json` | collect, materialize, recover, report | Host Runtime, Tickets, Porter start | lookup without scanning; reservation before the fact; the audit frontier; power cuts | one CL per Package; a Runtime may rely on associations |
| Candidate projection (`candidates.py`, `history.py`) | a SQLite table | publish, settle, inspect, rebuild | acceptors publish, collectors settle | rebuild lists two directories others change; failing statements | no accepted Package starves |
| Host Runtime (`host_runtime.py`) | `dispatch-returned/`, memory of a visit | visit, recover, select, collect, offer | custody, candidates, adapter process | a crash between CL and mark; batches; several Runtimes | offered until control returned, not after |
| Lodgement (`lodgement.py`) | `lodgements/`, `tickets/`, `outgoing/` | lodge, materialize, recover | carry thread of the Porter | Host and carry thread materialize at once, while files are renamed | a lodged Package is staged, carried once |
| Carriage (`daemon.py` `carry`, `carry_one`; `carriage.py` evidence) | `outgoing/`, `receipts/`, `refused/`, `carriage/` | claim, POST, retain, put back | lodgement, recipient | lost and late answers, timeouts, crashes, expiry | staged until settled; claims are backed |
| Collection Tickets (`tickets.py`) | `tickets/` | inspect, collect, abandon | lodgement, custody, Hosts that collect the same Returns | the Ticket is let go between its reading and its change; the inbox and the facts are listed one after the other; a collector dies before it names its Return | a named Return is collected; collectors in turn collect one; no record is written over another |
| Admission and standing (`introduction.py`) | `introductions/`, `Admission.active`, counters | authorize, change, recover | acceptance, ceremonies, other local processes | recover without the lock; test and write of a transition slot; lost counters | standing never forks; candidates are inert; superseded standing admits nothing; the outstanding allowance holds |
| Ceremonies (`ceremony.py`; `daemon.py` `carry_ceremony_one`) | `ceremonies/` at both ends, `outbound/`, counts | lodge, carry, receive, drain, retain, restart | standing, the carry thread | predecessors and results out of order, lost answers, crashes at every step | a result is true; the origin follows the recipient's changes |
| Rendezvous (`rendezvous.py`) | rendezvous facts; current locations, conflicts, next activation | accept, recover, route, status | native carriage | three memories rebuilt by several threads without a lock; forks; future activations | a location is proven and active; a fork suspends; a movement becomes known |
| Native carriage (`native.py`) | Units, custody evidence, refusals, `.awaiting` | stage, queue, tick, receive | lodgement, carriage evidence, rendezvous | receive threads settle what the carry thread reads and writes back; a third name for a staged file | settled only with evidence; refused only by all custodians; the loop survives |
| Plural custody (`plural_native.py`, `custody_evidence.py`) | a laboratory of replicated custodians | place, converge | native carriage, threshold | orders of delivery | the result is independent of it |
| Opportunities (`opportunities.py`) | adapter pools, futures, a snapshot | visit, reap, acquire, shed, submit | Host Runtime, executor lanes | lanes that finish at any time; stale snapshots; dead adapters; failing publications | offers and starts are bounded; adapters are conserved; nothing is offered twice |
| Authority, authorization (`authority.py`, `authorization.py`) | retained transitions | derive, verify | standing | forks, gaps | one current authority |
| Threshold, replication (`threshold.py`, `replication.py`) | claims | reconcile | custody evidence | duplicates, order | result independent of order |
| Evidence identity, attestation, encodings, rounds | key facts, documents | sign, verify, format | all | none that is concurrent | outside the model |

## 2. Modules

    Store                 directory tree, locks, worker memory, TypeOK
     └ Candidates         publish, settle, rebuild
        ├ Acceptance      deposit by request threads, recover_acceptances
        └ Collection      collect_package, recovery, a visit
           └ Custody      both, with crashes and power cuts; properties
              ├ INSTANCE PackageCustody      the abstract promise
              └ CustodyInvariant             the inductive invariants
                 ├ CustodyProofs             theorems
                 └ MCCustody                 instances for TLC
    Lodgement             LG, Ticket, association, staging
     ├ Carriage           the carry thread, the wire, the recipient
     │  ├ CarriageProofs  theorems
     │  └ MCCarriage
     └ NativeCarriage     Units, custodians, receive threads
        ├ NativeProofs    theorems
        └ MCNativeCarriage
    Tickets               one Ticket file, its callers, the Returns it is about
     ├ TicketProofs       theorems
     └ MCTickets
    Rendezvous            locations of peers, rebuilt by every thread
     ├ RendezvousProofs   theorems
     └ MCRendezvous
    Standing              Introductions and changes, recover, authorize, change
     ├ Allowance          the outstanding allowance and its counters
     │  ├ AllowanceProofs theorems
     │  └ MCAllowance
     └ Ceremonies         lodging, carriage, receive, drain, results; properties
        └ CeremonyInvariant                the inductive invariant
           ├ CeremonyProofs                theorems
           └ MCCeremonies                  instances for TLC
    HostRuntime           visits, offers, marks
     ├ MCHostRuntime
     └ Opportunities      pools of adapters: lanes, snapshot, growth
        ├ OpportunityProofs               theorems, also those of HostRuntime
        └ MCOpportunities

**Store … Custody** (recipient). A file is one value: `acceptances[p]` is the
AC that `acceptances/<p>.json` names, `association[p]` the CL that
`collections/by-package/<p>` names, `facts` the CL facts, `projection` the rows
of the database and `readable` whether it answers a statement. A *worker* is the
starting thread of the Porter, one of its request threads, a Host Runtime or a
Ticket caller; `pc[w]` names the next file operation of the code it runs, so
between any two operations anybody else may run, or the worker die. `job`,
`answer` and `claim` are its local variables `package_id`, the AC and the CL
value; `listing`, `audit` and `todo` are locals that only the holder of one
lock has. A flock is the worker that holds it or `None`, and is dropped when
its process dies. The recovery frontier is the set of facts its records vouch
for; replacing a file that a record has the stat signature of makes it stale,
and one stale record discards them all (`FrontierWithout`, `Audits`).
`PowerCut` takes back what the code did not fsync: `atomic_text` does not sync
its directory, so a by-package entry may fall back to any earlier one since the
last cut (`older`), an unlinked inbox entry may return until `atomic_json` syncs
that directory (`unlinked`), and the database may be an older image.

**Lodgement, Carriage** (sender). `outgoing` and `carrying` are the two names a
staged file may have. `materialize` looks at four files one after the other
while the carry thread renames them, so each look is a step. A request on the
wire is `live` while the connection of the carry thread is open; after a timeout
it may still reach the recipient, whose answer then goes nowhere. The recipient
is reduced to its acceptance boundary, which Custody models whole. Every
exception a deposit raises is answered like a refusal, as in `do_POST`.

**NativeCarriage** extends the same Lodgement with the other half of the carry
loop. A Unit is a pair of a Package and a custodian; `tick` stages (`StagePackage`,
`NoteAttempt`, `Queue`, `Await`), then sends (`ReadUnit`, `Attempt`, `Transmit`).
What it read of a Unit or of the carriage knowledge is a variable until it is
written back (`sending`, `wasKnown`). A receive thread holds its evidence in
`frame[t]` and takes one step for each file it looks at, replaces or unlinks. The
custodian is what it may answer (`Deposit`): its AC, a refusal, or a refusal after
its AC; `InFlight` bounds the answers on their way at one time. What is retained of
a custodian is looked at twice and then written (`FindEvidence`, `FoundSince`,
`WriteEvidence`), and a refusal goes on to list the Units, to list the acceptances
(`LastRefusal`, two steps) and to write the refusal of the Package
(`RetainRefusal`), with no lock, so that the other receive thread may enter
anywhere. `late` is history: the acceptances retained while a thread that listed
none was about to write such a refusal. Frames are authentic, since `_receive` opens them with the key of the
peer they name.

**Tickets**. A caller is at one file operation of `inspect`, `collect` or
`abandon`; `op[c]` is the call and then what it has left to do with the Ticket:
record an event, name the Return it collected, or confirm one collected before.
The Ticket is read under its lock and let go, so everything between that reading
and the next lock interleaves with other callers. `collect_package` is its steps
as a caller sees them. A Host is what it does to the directory: it publishes a CL,
then makes the copy and unlinks the inbox entry, or dies in between and another
does so later. The inspection that `abandon` ends with is a call of its own, and
the events the carry thread appends are records like those of `inspect`. Only a
set of Packages is read from the inbox, those in reply to the Ticket's. `present`,
`taken` and `crowded` are history.

**Rendezvous**. `accept` retains a fact and recovers; `open` of a frame recovers;
`route` recovers when an announced activation has passed. `recover` empties
`current`, `conflicts` and `next`, and fills them peer by peer from its own
listing, one step for each turn of the walk, so that several rebuild one memory
at once. What a thread then reads (`Look`) and uses (`Judge`) are two steps.

**HostRuntime**. One action per file operation that matters to offers: the
reservation, the CL, the offer, the returned-control mark. Collection of one
Package and recovery are those of Collection, here in one step each except for
the reservation, which a death may strand.

**Opportunities**. `BoundedOpportunityRuntime` is a `HostRuntime` with another
visit, and the module extends that one: `Recover`, the rounds of candidates
(`Stale`, `Selected`, `Refills`) and `Crash` are its own. `lane[h][p]` is what the
future of a submitted Package has come to, from its collection to its reaping;
the keys of `submitted` and of `inflight` are the Packages in a lane. With serial
publication the visit waits for the lane that collects (`VisitIsFree`); with
parallel publication it does not, and a publication that raises costs an adapter.
Adapters are counted: `adapters` is the length of the list, `available` the length
of the queue, `closed` those that the list still has although their offer failed.
A visit is `NextVisit` (reap, then go on as capacity allows), `InspectPool` and,
for an elastic Runtime, `Choose` (resize by one, then take from the snapshot);
`Submit` once for each selected Package. Time is a choice: an interval has passed
or not, a dispatched offer may count as slow. A visit that is not yet allowed to
inspect and has nothing to reap is left out, as it changes nothing.

**Standing** (recipient, one sender). `introductions` are the fact files and
`changes[i]` the change file named by `i`, its transition slot; `active` is
`Admission.active` of that sender. `recover` is four steps, since it lists the
facts, lists the changes, empties the memory and fills it again with nothing
held: `Walk` follows the changes among the facts it listed. `_refresh_if_changed`
(`Refresh`) looks at the slot of the current Introduction and recovers if it is
filled; `back[t]` is where the thread returns. A deposit and a change hold the
relationship lock from their second refresh to their end. `Administer` is
`Admission.change` by another local process: it has its own memory, so the whole
change is a step under the shared flock. `Required` is `require_introductions`,
which the configuration may leave false and by default does. Then a sender that is
not in memory, because its standing ended, because a recover dropped it, or
because one is just between `Forget` and `Remember`, is asked for no proof
(`Unasked`): its deposit (`DepositUnproven`, `AcceptUnproven`) takes no lock, and its
AC is `Unproven` here. A deposit that was proved looks for an AC once more under
the lock (`FindAcceptance`), and `Accept` writes whatever came since.

**Allowance** extends Standing with what `authorize` does between its second
refresh and its end. A counter is the set of Packages it counts. `recover`
replaces it in memory after it listed the collected Packages and the ACs
(`recount`), without the lock, while a thread under the lock still refers to the
old one (`taken`, once `replaced`); `_reconcile_sender` looks for each association
on its own. `missed` is history: the ACs whose increment went to a counter
nobody reads any more, or was never made, because `accept` raised or because the
deposit was asked for no proof; one leaves it when a reconciliation lists it, or a
death makes the next Porter count again. Bytes, and the Package that a replaced
counter counts twice, are left open: `Allow` may find the allowance exhausted at
any count, and `Reconcile` refuse at any.

**Ceremonies**. A recipient thread runs `receive` step by step: the result or the
change that may already exist, the refresh, the judgement (`Judge`: hold, refuse
or prepare), the candidate, the standing change of Standing, the count, the
result, the drain. A drain calls `receive` again; `outer[t]` is then the ceremony
the thread was called with, and a refusal inside leaves the drain and becomes the
answer of the outer one, as the exception does. The origin's carry thread is
`carrier`; `live[t]` and `answer` are its connection, which a timeout or a crash
closes while the thread goes on. `Post` and the arrival of the request are one
step: a request that never arrives is one the origin gives up before the thread
goes on. A starting origin applies its receipts in any order (`Reapply`), since
the directory gives none.

**PackageCustody** is the abstract specification: what `custody(ipc, package)`
reports of a Package only moves from nowhere to the Porter under one AC to the
Host under that AC and one CL. `CustodyPromise` instantiates it with
`CustodyOf`, the translation of `custody()`.

## 3. Runs

| Run | Question | Bounds |
|---|---|---|
| `deposits` | are custody, acceptance and the projection consistent, is nothing accepted lost or starved, is evidence true and the promise kept, when two threads deposit one Package, a Host visits and a Ticket caller collects? | 1 Package, 2 request threads, 1 Host, 1 caller, 1 crash, failing statements |
| `power` | is CollectionInv an invariant, and may a Runtime rely on associations, when the frontier is extended, audited and discarded? | 2 Packages, 1 thread, 1 Host, 2 crashes or power cuts, failing writes |
| `live` | is what is accepted collected, are locks released, deposits answered? | 1 Package, 1 thread, 1 Host, 1 caller, 2 crashes |
| `carriage` | are claims of remote acceptance backed through late answers, is a staged file kept until settled, and is what is lodged settled, with refusals, expiry and exceptions? | 1 Package lodged once or twice, a lodging Host, every outcome, 2 crashes |
| `tickets` | does a Ticket name what was collected, do inspections miss nothing, do collectors in turn collect one Return, is no record overwritten? | 2 Returns, 2 callers, 1 death of a caller, Hosts that collect at any time |
| `standing` | does standing never fork, are candidates inert, results true, and does the origin follow, when ceremonies, a deposit and another process meet? | 2 chained ceremonies (a renewal, a termination of what it selects), 1 Package, 1 renewal by another process, 2 request threads, 1 crash of either Porter, no Introduction required |
| `allowance` | do uncollected ACs under all standings stay within the allowance while recovers replace the counter? | 4 Packages, three proved with a standing that allows 2 and one with its successor that allows 1, 2 threads, 1 renewal, 1 crash, no Introduction required |
| `native` | is a Unit settled only with evidence, and a Package refused only by all its custodians? | 1 Package, 2 custodians, 2 receive threads, one reason, one answer on its way at a time, any number of crashes |
| `moves` | is every location proven and active, does a fork suspend, does a movement become known? | 1 peer that moves, announces a further move ahead and contradicts it, 2 receive threads and the carry thread, one tick of the clock, any number of crashes |
| `pools` | are adapters conserved, offers and starts bounded, nothing repeated, and everything served unless something failed? | an elastic serial and a bounded parallel Runtime, 2 adapters, 3 Packages, a rival collector, 1 failing offer or publication, 1 crash |
| `offers` | is everything attended to offered until control returns, and not after, and is whoever publishes a CL alone with its Package? | 2 Packages, 2 Runtimes with different attention, batches of 2, 2 crashes |

One Package suffices where the question is about one Package: its files and its
lock are its own, and what Packages share (the frontier, the projection, the
relationship lock) is exercised by `power` and by two threads. Two acceptance
and two collection identities are one more than a correct run uses, so that a
second one would show. Two crashes let a recovery itself be interrupted. In
`standing` the second ceremony replaces what the first selects, so it is held,
drained or refused according to when it arrives, and the renewal by another
process competes with the first for one slot. Where everything attended to must
be offered, a batch holds what two crashes can leave. In `pools` there is one
Package more than adapters, so that capacity runs out, and the one failure is
enough to lose an adapter for good. Symmetry is used in safety runs only. In
`allowance` the second standing allows less than the first, so that a renewal
may find more outstanding than it permits, and there is one Package more than
the first allows. In `native` two custodians are what makes one refusal, or one
acceptance, not the end, and two receive threads settle the same Unit; one answer
on its way is enough, since each thread takes it and another may then be sent. A
Porter that requires no Introduction does whatever one that does could, but for
refusing a deposit that finds the memory empty when it begins, and both theorems
and models cover the two; the runs take the one that can do more. In
`moves` the tick comes between the announcement of a movement and its
activation. In `tickets` a second Return is what a second collection would take.
The runs `standing`, `allowance` and `native` do not check for deadlock: when
every ceremony and Package is answered and the bounds are reached nothing is
left to do, and a dead carry thread ends the system.

One run, `survives`, ends in a violation: a receive thread settles a Unit between
the carry thread's test that it exists and its read, the read raises and the
carry thread ends, although a comment says that such a disappearance "must never
kill the carry loop" (`findings` of `PROJECT.json`).

More consequences of the code are in the models without a run of their own. Of
custody, acceptance and offers:

- a collector that dies between reservation and CL leaves an accepted Package
  that no rebuild lists and every Host settles away (`AcceptedIsCollected`
  excepts it);
- an elastic Runtime never offers what an earlier process of it collected and
  did not offer;
- at an open Porter (`Relationship` is None) two simultaneous deposits of one
  Package hold no lock and the second replaces the AC of the first;
- a restart that recovers more Collections than the batch of its first visit
  holds, or a bounded pool has adapters for, forgets the rest until it is
  restarted again; new rows may take their place in that batch;
- a pool closes the adapter of a failed offer and never replaces it, and does not
  offer that Package again: when every adapter has failed it visits for ever with
  no capacity;
- an inbox write that raises leaves an AC without a row in a projection that
  stays valid, until a restart or a repeated arrival.

Of lodgement and carriage:

- a Package lodged twice makes `recover` raise, which ends the carry thread and
  then the Porter's start; two simultaneous lodgements both find no
  Package-to-Ticket association and come to the same;
- a Package accepted in time is refused when it is repeated after its expiry, so
  that a lost answer is then not repaired;
- `recover` does not know the name `.awaiting`: a Package that is neither
  received for nor refused is staged again in every turn of the carry loop, and
  its settled Units are queued anew; while all its custodians but never all at
  one time have refused, it goes on being sent;
- a changed outbound proof makes `queue` raise `ValueError` on a Unit queued
  before, which ends the carry thread like `survives`;
- the carry thread writes a Unit back that a receive thread settled meanwhile,
  and it is sent again; a custodian that then refuses for another reason never
  settles it;
- an acceptance may be retained after a receive thread listed none and before it
  writes the Package's refusal: the Package is then refused with an acceptance at
  hand, of a custodian that had refused before (`RefusalIsUnanimous` says so by
  `late`);
- two receive threads may both find no receipt, and the later replaces the
  earlier; `note_attempt` writes back the knowledge it read, so that acceptance
  learnt in between is forgotten (the receipt stays).

Of Tickets:

- two callers that looked before either collected may see different first Returns
  and collect both; the later name replaces the earlier in the Ticket. The
  repository's README says that simultaneous losers report
  `COLLECTION_CONTESTED`; the code has no such state;
- an inspection raises when a file it listed is unlinked before it is read, be it
  a Return or any other Package of the inbox.

Of standing, allowance and ceremonies:

- a thread that listed the changes early enters a superseded Introduction after
  another refreshed under the lock, and an AC is admitted with the old proof;
- a recover that listed the ACs, and replaces the counter after others were
  counted, loses these increments, up to a whole allowance, and a raise after the
  AC loses one; a reconciliation, which only an exhausted counter begins, repairs
  it (`AllowanceHolds` excepts them in `missed`);
- a Porter that does not require Introductions (the default of `daemon.py`)
  admits without proof, lock, allowance or count a sender that is not in memory:
  one whose standing was terminated, one a recover dropped, and any sender while a
  recover, be it for another sender, is between emptying `active` and filling it
  (introduction.py:172 and 284). STANDING-SUCCESSION.md says that termination
  leaves no authority for new AC; its tests all require Introductions. Such an AC
  is in no counter before somebody lists the ACs (`missed`);
- an unproven deposit holds no lock, so that it and a proved one of the same
  Package may replace each other's AC;
- a ceremony presented between the candidate of its predecessor and the change
  that makes it current is refused as stale and dropped by its origin until the
  origin restarts;
- an origin that lost an answer and then applies a later result stays behind
  until it restarts, since a result whose predecessor it does not know is not
  applied again;
- two threads that count a change lose an increment, so that one process applies
  more changes than the grant allows; a restart counts them again;
- a recover that lists facts before and changes after another process's change
  drops the sender from memory until the Porter restarts;
- a ceremony already pending is refused when pending is full.

Of rendezvous:

- a recover that listed the facts early may end last: the known location goes
  back until the next one, and an announced activation is forgotten, so that
  `route` alone would never notice it (`MovementIsKnown` needs frames);
- between the two steps of `status` another thread may empty the conflicts, so
  that a suspended peer is routed to once more;
- an announcement that arrives before its predecessor is refused and not
  repeated, since its spool is unlinked when it was sent.

The passing runs state what remains true next to each: `AcceptedIsCollected`
excepts a stranded reservation, the acceptance theorems assume introduced
senders (`AllIntroduced`), `AcceptedIsOffered` gives every batch room, `AttentionIsServed` excepts
failures and what a crash left half done, `AllowanceIsExact` and `AllowanceHolds`
what the counter missed, `RefusalIsUnanimous` the acceptance that came after the
listing, `ForkSuspends` is about a Porter whose threads all rest, and about forks
among facts that are active at time 0 (one behind a movement that is activated
later is not covered), `HeldInv` and `CandidateInv` suppose inbox writes that do not raise,
`LodgedIsSettled` excepts a Package lodged twice, `OneReturnInTurn` collectors at once.

## 4. Fairness

*Custody*: weak fairness of each worker's next step. A thread that can run
runs, and a dead Porter or Host is started again: nothing in the repository does
it, its operator must, and every recovery the documents describe is that of a
restart. Nothing is assumed of arrivals and callers, nor of who gets a contended
lock: a Host that waits for one waits for holders that proceed. *Carriage*: the
carry thread and lodging Hosts proceed; strong fairness of the carry thread's
lock, of a deposit that is tried again and again, and of its answer, since a
network that loses every one settles nothing. *HostRuntime*: a Runtime keeps
visiting and is started again; an adapter returns control, or ends its Runtime
by the exception `dispatch` raises. *Opportunities*: a Runtime keeps visiting, and
each lane of its executor proceeds on its own; an adapter returns control or fails.
Nothing is assumed of acquisitions. *Rendezvous*: weak fairness of every thread
and of the clock; strong fairness of the arrival of frames of every peer, which
is what makes a receive thread recover; `MovementIsKnown` supposes that crashes
end at some time. *Allowance* and *NativeCarriage* state safety only: a
custodian that never answers, or a queue that raises, settles nothing.

## 5. Proofs

TLAPS checks eight modules, for every value of the constants: any Packages,
identities, relationships, lodgements, request threads, Hosts, callers,
custodians, ceremonies, counters, locations, adapters and number of crashes, with
or without power cuts and faults. Two assumptions that some theorems make beyond
those of the modules are named where they are: `AllIntroduced` and
`FaultyDisk = FALSE`.

`CustodyProofs` proves `TypeCorrectness`, `CollectionInvariance`,
`OneCollection`, `CopyNeedsCollection` and `AssociationSuffices`. "One CL per
Package" is not inductive: a Host looks a CL up by its association only, so one
must know that associations of published CLs are right whenever a Host relies on
them. `CollectionInv` says so in named parts. A collector's claim is made under
the Package lock and found absent (`ClaimInv`); the associations of a Host past
its recovery name every CL, and those of a recovering Host all but what it has
yet to materialize (`AssociationInv`); one recoverer at a time has the frontier
lock (`RecoveryInv`); what is worked on has been accepted (`JobInv`), by workers
at their own labels (`LabelInv`). The mutual need is visible in the proof: a
reservation, which moves an association, is harmless because its Package has no
CL (`ClaimInv`), and it has none because the collector's lookup is sound
(`AssociationInv`).

Its second section proves `AcceptanceInvariance`, `CollectionNaming`,
`ReceiptNaming`, `AcceptanceImmutable` and `PromiseKept`, the refinement of
`PackageCustody`, all from the assumption `AllIntroduced`: every deposit takes its
relationship lock, since its sender holds an Introduction, which the Porter
requires or keeps in memory throughout. At an open Porter they do not hold
(section 3), nor where Introductions are not required and a recover empties the
memory meanwhile; a proved and an unproven deposit meet in Standing, not in Custody.
`AcceptanceInv` says that a thread writes an absent AC only while it holds the
relationship lock (`WriterInv`), that CLs, receipts and claims name the AC held
(`NamingInv`), and that a drawn CL identity is nobody else's (`FreshInv`).
The freshness of identities (`uuid4`) is assumed by the model: a new one is drawn
among those that no file and no memory names.

Its third section proves `HeldInvariance` and `CandidateInvariance`, and from
them `AcceptedHeld` and `NoStarvation`, all from the assumption `FaultyDisk =
FALSE`: no inbox write of a request thread raises. Where one does, the handler
answers 400 while its AC stands, and that Package is in neither hand and in no
row until a restart or a repeated arrival; TLC finds either property violated
then. Statements on the database may fail, processes die and the power be cut as
anywhere else. `HeldInv` adds to "held" what a starting Porter has yet to restore
(`unrestored`), and that a collector which goes on to the association and the
unlink has made its copy. That nobody starves is a matter of a rebuild: it
lists the associations and then the ACs, and `ListingInv` says that whoever is
accepted later and has no association is still in the hands of a request thread
that publishes after the rebuild, on the one condition that the Porter lives: what
a Host's rebuild misses over the Porter's death is rebuilt before the next one
serves. It needs that the rebuilder holds the projection lock (`RebuildInv`), that
nobody settles the row of a Package without an association (`SettleInv`), and
that a worker between two Packages has none (`IdleInv`). `Fell` states once what a
crash does to the living and the dead.

`CeremonyProofs` proves `CeremonyInvariance`, `NeverForks`, `ResultsTrue` and
`NeverRewinds`. That a filled slot is never filled again needs to know who may
write one: `CeremonyInv` says of each thread (`StandingInv`) that past its refresh
it holds the relationship lock, also while it is inside a recover and going back
there (`At`), and that at `PublishChange` the slot it saw empty still is. From
that, a ceremony which caused a change did so for good (`CausesStay`), which
everything else rests on: a thread that writes a result works on a ceremony that
did (`StandingInv`, `DrainInv` for the one a drain interrupts), an `APPLIED`
answer is about the ceremony the origin carries (`LiveInv`, `LiveUnique`,
`AnswerInv`), and a change selects what its ceremony asked for (`ChangeInv`), so
that what the origin learns is the next Introduction after the one it knew. A
step of a thread keeps its own invariant (`OwnInv`) and everybody else's
(`OthersInv`, from `ThreadFrame`). `CeremonyInv` holds whatever the memory
contains. What `recover` derives is the subject of `InertCandidates`: the
Introductions that have been current once are the least set that has the first
one and what a change of one of them selects (`Generations`), a set that only
grows (`GenerationsGrow`), and the walk of `recover` over what it listed,
however long ago, ends in it (`CurrentWasMet`). `Walk` is a recursive function,
so that lemma needs an induction: the orbit of the walk is unfolded with
`WFMin` over the natural numbers, as sets (`NatMin`, `WalkUnfolds`).
`MemoryInv` then follows what is found into the memory, into the standing a
deposit goes by, and into its AC.

`RendezvousProofs` proves `RendezvousInvariant`. What a thread enters as current
is judged from what it listed, and the memory it enters it in is also filled by
others. So the invariant says of each thread what it holds (`Bound`): its frames
and listings are retained facts. Facts form chains from the genesis of
their peer, and only grow (`Monotone`, `ProvenIsStable`), so that a location
which was once proven and active stays so, however late its recover enters it.

`ForkSuspension` says that two contradictory successors suspend their peer once
every thread rests. It is not enough to follow one recover, since any other may
empty the conflicts behind it. `MendInv` says instead that while a fork is
retained and not in the conflicts, some thread still has to find it (`Mending`):
it is before its listing, or its listing has the fork (`ForkGrows`) and its walk
has not passed it (`ForkAhead`, `ForkHere`); whoever empties the conflicts
becomes such a thread. A fork is said of sets closed under successors (`Forked`)
rather than of the end of a walk, which is what lets a proof follow the walk
turn by turn.

`AllowanceProofs` proves `AccountInvariance` and `AllowanceKept`. An increment may
go to a counter that a recover without the lock is about to replace, so an
invariant about the counter in memory is not enough: `CounterInv` says that it,
the one a thread under the lock refers to, and every count that is under way and
may replace it, hold each uncollected AC the sender is responsible for, but for
those of `missed` and the one its author is about to count (`BeingCounted`). An AC
that was asked for no proof is counted by nobody and enters `missed` when it is
written; the Packages of a reconciliation leave it. With
the lock (`HolderInv`), a test passed for one Package then leaves room for it
(`RoomInv`) until the AC is written: nobody else admits, and collections only
lower the number. `Fewer` and `AdmissionTakesRoom` compare the finite sets.
`AllowanceExact` takes away the exception: before the first renewal no slot is
filled, so that no thread finds a reason to recover (`FirstInv`; the walk over
unfilled slots stays at the first Introduction, `FirstIsCurrent`), no counter is
replaced, and only a raise after the AC can miss an increment.

`TicketProofs` proves `TicketInvariance`, `CollectionsInTurn` and
`TicketsOnlyGrow`. A caller reads the Ticket, the inbox and the facts one after the
other and acts on what it remembers. So `TicketInv` says of each call that what
it had in sight when it began is still among what it listed, what it has yet to
read, or the facts, which only grow (`InspectionInv`); that a Return it chose has
its CL and its copy, in this order, under the lock (`ChoiceInv`), before it is
named; that whoever replaces the Ticket has read what is there under the lock it
still holds (`WriterInv`), from which no record is lost; and that a lone collector
which is about to publish a CL saw none (`TurnInv`).

`NativeProofs` proves `NativeInvariance`, `SettlementsHaveEvidence` and
`RefusalsAreUnanimous`. `NativeInv` says that evidence in a frame or on the disk
names what its custodian holds (`EvidenceIsHeld`), that a receive thread has
retained it before it settles (`FrameInv`), and that a Package whose carriage
began has a Unit or an answer for every custodian, or is being staged
(`QueueInv`, `CarrierInv`). The last is what makes a refusal unanimous: that no
Unit is outstanding says something only once all were queued. A thread that found
no Unit knows that every custodian has answered, and one that then found no
acceptance that all have refused (`Retained`, at "accepted?" and "refuse"); what
is retained behind it is either there already or enters `late`. `Retaining` says
once what the three steps that retain evidence change.

The first section of `OpportunityProofs` is about HostRuntime and proves
`VisitInvariance` and `NoOfferAfterReturn`. `VisitInv` says that what a Runtime
has selected was not returned to it (`SelectedInv`), that whoever publishes a CL
is its only collector (`PublisherInv`), and that offers and marks are of
Packages with a CL (`StoreInv`). Selection and offer are far apart, with deaths
and rivals between them, so the property of the offer needs all three.

`CarriageProofs` proves `CarriageInvariance` and `StagedFilesAreKept`. A receipt is
written from an answer, an answer is made by the recipient some time earlier, and
the connection it comes back on may since have been given up. So claims are
inductive only with `WireInv`: one connection is open at most, it is about the
Package in hand, and its answer is a refusal or names the AC the recipient holds,
which never changes. `WorkInv` says what the carry thread has in hand at each
label, so that a Package is cleared only once it is settled. What `materialize`
does is the same for a Host and for the carry thread; `Materializes` says once what
every step of it leaves alone. `StagedStep` looks at each step that takes a staged name
away: it writes the other one, or what is in hand has been settled.

Its second section proves `PoolInvariance`, `UnreturnedBound`,
`RetriesAreNotInvented` and `SelectionsAreFresh`, for any policy. `PoolInv` is
said of one Runtime at a time: its counts (`CountsOf`), its lanes (`LaneOf`),
and that each CL without a control return outside its lanes has cost an adapter
that is closed for good, or a publication that raised (`UnreturnedOf`). A step
is a Runtime's own (`OwnStep`) or leaves all of that alone (`OthersUntouched`),
so each part has a lemma for either. A reaping is the only step that several
lanes leave at once; `ReapedLeave` counts them.

The assumptions on constants are those of `Lodgement`, `Carriage`,
`NativeCarriage`, `Tickets`, `Standing`, `Ceremonies`, `Allowance`,
`Rendezvous`, `HostRuntime`, `Opportunities`, `Store` and `Custody`: workers of
different kinds are different, `None` is nothing else, a relationship is one of
`Relationships`, a successor is not the first Introduction, limits are numbers,
the Packages of a pool are finitely many. In `Custody` steps fall in ten groups
(`NextGroups`), and each conjunct has a lemma with a step per group;
`CanonicalFrame` names the three operations that write canonical facts or Host
copies.

Every invariant and every action property that a run checks is stated by a
theorem, `TypeOK` of Ceremonies and `AdaptersAreConserved` and
`OpportunitiesAreBounded` of the pools as parts of the invariants named. Only
model-checked is liveness, which TLAPS cannot derive from fairness:
`AcceptedIsCollected`, `LocksAreReleased`, `DepositsAreAnswered`,
`AcceptedIsOffered`, `AttentionIsServed`, `LodgedIsSettled` and `MovementIsKnown`.
So are the deadlock freedom of the runs that check it, and `CarryLoopSurvives`,
which does not hold.

## 6. What is not modelled, and the plan

Left out on purpose: byte encodings, digests and signatures (an identity stands
for its content; the digest comparison of a repeated Package is left out with
it), file modes and temporary files, the HTTP server, limits on sizes, SQLite
inside a statement, the adapter's pipe, `rounds.py` (reads only), attestation,
demonstrations and benchmarks. `reconcile` of the candidates and
`recover_collections` have no caller outside tests and benchmarks. Of a Ticket,
the list of its events and the observation that it expired are left out. Ceremonies
that travel as native frames, the announcing side and the expiry of rendezvous,
and the laboratory of `plural_native.py` are not modelled yet.

Some steps stand for several writes, of which a death or another thread may see
the first alone; the next recovery brings them to the same end: the draft and the
LG of `Lodge`, the knowledge and the event of `Learn`, the three assignments of
`Reset` in Rendezvous, and the test and write of the next activation in `Stop`.

In order, the modules to come:

1. Several senders over Standing: a recover that another sender's change causes
   empties the memory and replaces the counters of all. Standing and Allowance
   have one sender, so that no thread recovers before its first change, which
   `AllowanceIsExact` rests on; `AllowanceHolds` does not.
2. The change allowance of a grant over Ceremonies: `change_counts` read before
   the lock and written after it.
3. The native half of Ceremonies, and the liveness of NativeCarriage.
4. `Reconciliation`: threshold and replication as operators over claims, checked
   against order-independent definitions; plural custody over it. So far only
   tests call them.
5. `Authority`: current authority as a fold over retained transitions.

And the proofs to come are those of these modules: that a process applies at
most the changes its grant allows, but for increments lost to each other, and
that `Reconciliation` computes the same for every order of claims.
