----------------------------- MODULE Ceremonies -----------------------------
(***************************************************************************)
(* Standing ceremonies: an origin Porter lodges CM evidence that its        *)
(* standing with a recipient should change and carries it until it knows    *)
(* the result; the recipient holds it while its predecessor is unknown,     *)
(* applies it by the standing change of Standing, and drains what waited.   *)
(* Requests time out and arrive late; both Porters crash.                   *)
(***************************************************************************)
EXTENDS Standing

CONSTANTS
  MaxChanges, \* ceremony_max_changes of the grant
  MaxPending, \* ceremony_max_pending of the grant
  MaxCrashes  \* bound: crashes of either Porter

ASSUME CeremonyBounds == {MaxChanges, MaxPending, MaxCrashes} \subseteq Nat

VARIABLES
  results,   \* ceremonies/results of the recipient
  pending,   \* ceremonies/pending
  spent,     \* CeremonyService.change_counts of the sender
  applied,   \* the count a thread has read
  outer,     \* the ceremony whose drain a thread is in
  drain,     \* the pending ceremonies it has listed
  live,      \* is the origin still connected to a thread?
  answer,    \* what came back to it, or None
  lodged,    \* ceremonies/lodged of the origin
  outgoing,  \* ceremonies/outgoing, as .json or .carrying
  receipts,  \* ceremonies/receipts
  outbound,  \* outbound/<peer>.json: the Introduction the origin proves with
  carrier,   \* where the carry thread of the origin is
  carried,   \* the ceremony it carries
  replay,    \* receipts a starting origin has yet to apply
  crashes

serviceVars == <<results, pending, spent>>
drainVars   == <<applied, outer, drain>>
wireVars    == <<live, answer>>
originVars  == <<lodged, outgoing, receipts, outbound>>
carrierVars == <<carrier, carried, replay>>
vars == <<standingVars, serviceVars, drainVars, wireVars, originVars,
          carrierVars, crashes>>

DepositLabels == {"verify", "relationship", "confirm", "accept", "write", "open"}
RecoverLabels == {"facts", "changes", "forget", "remember"}
ServiceLabels == {"receive", "refresh", "judge", "hold", "held", "prepare",
                  "count", "result", "forgetpending", "drain", "scan"}
ChangeLabels  == {"lock", "slot", "publish", "activate"}
Labels == {"ready"} \cup DepositLabels \cup RecoverLabels \cup ServiceLabels
                    \cup ChangeLabels
CarrierLabels == {"down", "apply", "idle", "wait", "retain", "learn", "drop",
                  "back"}
Answers == {"APPLIED", "PENDING", "REFUSED"}

ASSUME NoneIsNoAnswer == None \notin Answers

TypeOK ==
  /\ introductions \subseteq Introductions
  /\ changes \in [Introductions -> Change \cup {None}]
  /\ standingLock \in Threads \cup {None}
  /\ accepted \in [Packages -> Introductions \cup {Unproven, None}]
  /\ active \in Introductions \cup {None}
  /\ pc \in [Threads -> Labels]
  /\ job \in [Threads -> Packages \cup Ceremonies \cup {None}]
  /\ standing \in [Threads -> Introductions \cup {None}]
  /\ back \in [Threads -> Labels \cup {None}]
  /\ listed \in [Threads -> SUBSET Introductions]
  /\ found \in [Threads -> Introductions \cup {None}]
  /\ results \subseteq Ceremonies /\ pending \subseteq Ceremonies
  /\ spent \in Nat
  /\ applied \in [Threads -> 0 .. MaxChanges]
  /\ outer \in [Threads -> Ceremonies \cup {None}]
  /\ drain \in [Threads -> SUBSET Ceremonies]
  /\ live \in [Threads -> BOOLEAN] /\ answer \in Answers \cup {None}
  /\ lodged \subseteq Ceremonies /\ outgoing \subseteq lodged
  /\ receipts \subseteq lodged
  /\ outbound \in Introductions \cup {None}
  /\ carrier \in CarrierLabels /\ carried \in Ceremonies \cup {None}
  /\ replay \subseteq receipts
  /\ crashes \in Nat

Init ==
  /\ introductions = {First}
  /\ changes = [i \in Introductions |-> None]
  /\ standingLock = None
  /\ accepted = [p \in Packages |-> None]
  /\ active = First
  /\ pc = [t \in Threads |-> "ready"]
  /\ job = [t \in Threads |-> None]
  /\ standing = [t \in Threads |-> None]
  /\ back = [t \in Threads |-> None]
  /\ listed = [t \in Threads |-> {}]
  /\ found = [t \in Threads |-> None]
  /\ results = {} /\ pending = {} /\ spent = 0
  /\ applied = [t \in Threads |-> 0]
  /\ outer = [t \in Threads |-> None]
  /\ drain = [t \in Threads |-> {}]
  /\ live = [t \in Threads |-> FALSE] /\ answer = None
  /\ lodged = {} /\ outgoing = {} /\ receipts = {}
  /\ outbound = First
  /\ carrier = "idle" /\ carried = None /\ replay = {}
  /\ crashes = 0

----------------------------------------------------------------------------
\* The recipient: CeremonyService.receive.

\* receive returns or raises.  Inside a drain, a result removes the pending
\* entry and the drain goes on; a refusal leaves the drain and is the answer
\* to the ceremony the thread was called with.
Reply(t, state) ==
  IF outer[t] # None /\ state # "REFUSED"
  THEN /\ pending' = pending \ {job[t]}
       /\ job' = [job EXCEPT ![t] = outer[t]]
       /\ outer' = [outer EXCEPT ![t] = None]
       /\ Goto(t, "drain")
       /\ UNCHANGED wireVars
  ELSE /\ answer' = IF live[t] THEN state ELSE answer
       /\ live' = [live EXCEPT ![t] = FALSE]
       /\ job' = [job EXCEPT ![t] = None]
       /\ outer' = [outer EXCEPT ![t] = None]
       /\ Goto(t, "ready")
       /\ UNCHANGED pending

\* Mistake: whatever filled the slot is taken for this ceremony's change.
CausesAny(c) == changes[Predecessor[c]] # None

Causes(c) == changes[Predecessor[c]] # None /\ changes[Predecessor[c]].cause = c

\* A result is reproduced, or derived from the change the ceremony caused.
Receive(t) ==
  LET c == job[t] IN
  /\ pc[t] = "receive"
  /\ IF c \in results THEN Reply(t, "APPLIED") /\ UNCHANGED results
     ELSE IF Causes(c)
       THEN results' = results \cup {c} /\ Reply(t, "APPLIED")
     ELSE IF changes[Predecessor[c]] # None
       THEN Reply(t, "REFUSED") /\ UNCHANGED results
     ELSE Goto(t, "refresh") /\ UNCHANGED <<results, pending, job, outer, wireVars>>
  /\ UNCHANGED <<factVars, depositVars, recoveryVars, standingLock, active,
                 spent, applied, drain>>

RefreshStanding(t) ==
  /\ pc[t] = "refresh"
  /\ Refresh(t, "judge")
  /\ UNCHANGED <<factVars, depositVars, listed, found, standingLock, active,
                 job, serviceVars, drainVars, wireVars>>

\* Held while its predecessor is unknown; refused as stale, or beyond the
\* grant's pending or changes.
Judge(t) ==
  LET c == job[t]
      current == active = Predecessor[c]
      refused == IF current THEN spent >= MaxChanges
                 ELSE \/ Predecessor[c] \in introductions
                      \/ Cardinality(pending) >= MaxPending
  IN /\ pc[t] = "judge"
     /\ IF refused THEN Reply(t, "REFUSED") /\ UNCHANGED applied
        ELSE /\ Goto(t, IF current THEN "prepare" ELSE "hold")
             /\ applied' = [applied EXCEPT ![t] = IF current THEN spent ELSE 0]
             /\ UNCHANGED <<pending, job, outer, wireVars>>
     /\ UNCHANGED <<factVars, depositVars, recoveryVars, standingLock, active,
                    results, spent, drain>>

Hold(t) ==
  /\ pc[t] = "hold"
  /\ pending' = pending \cup {job[t]}
  /\ Goto(t, "held")
  /\ UNCHANGED <<factVars, depositVars, recoveryVars, standingLock, active, job,
                 results, spent, drainVars, wireVars>>

IsHeld(t) ==
  /\ pc[t] = "held"
  /\ Reply(t, "PENDING")
  /\ UNCHANGED <<factVars, depositVars, recoveryVars, standingLock, active,
                 results, spent, applied, drain>>

\* Mistake: the candidate is current as soon as it is established.
PrepareActive(t) ==
  /\ pc[t] = "prepare"
  /\ introductions' = introductions \cup ({Successor[job[t]]} \ {None})
  /\ active' = Successor[job[t]]
  /\ Goto(t, "lock")
  /\ UNCHANGED <<changes, depositVars, recoveryVars, standingLock, job,
                 serviceVars, drainVars, wireVars>>

\* The candidate Introduction; the presented evidence, which only tells one
\* content of an identity from another, is left out.
Prepare(t) ==
  /\ pc[t] = "prepare"
  /\ introductions' = introductions \cup ({Successor[job[t]]} \ {None})
  /\ Goto(t, "lock")
  /\ UNCHANGED <<changes, depositVars, recoveryVars, standingLock, active, job,
                 serviceVars, drainVars, wireVars>>

\* change raises: its predecessor is no longer current, or has been changed.
ChangeRaises(t) ==
  /\ pc[t] = "slot"
  /\ ~MayChange(t)
  /\ Release(t)
  /\ Reply(t, "REFUSED")
  /\ UNCHANGED <<factVars, depositVars, recoveryVars, active, results, spent,
                 applied, drain>>

Count(t) ==
  /\ pc[t] = "count"
  /\ spent' = applied[t] + 1
  /\ applied' = [applied EXCEPT ![t] = 0]
  /\ Goto(t, "result")
  /\ UNCHANGED <<factVars, depositVars, recoveryVars, standingLock, active, job,
                 results, pending, outer, drain, wireVars>>

WriteResult(t) ==
  /\ pc[t] = "result"
  /\ results' = results \cup {job[t]}
  /\ Goto(t, "forgetpending")
  /\ UNCHANGED <<factVars, depositVars, recoveryVars, standingLock, active, job,
                 pending, spent, drainVars, wireVars>>

ForgetPending(t) ==
  /\ pc[t] = "forgetpending"
  /\ IF outer[t] = None
       THEN /\ pending' = pending \ {job[t]}
            /\ Goto(t, "drain")
            /\ UNCHANGED <<job, outer, wireVars>>
       ELSE Reply(t, "APPLIED")
  /\ UNCHANGED <<factVars, depositVars, recoveryVars, standingLock, active,
                 results, spent, applied, drain>>

\* drain_pending: list what is pending ...
Drain(t) ==
  /\ pc[t] = "drain"
  /\ drain' = [drain EXCEPT ![t] = pending]
  /\ Goto(t, "scan")
  /\ UNCHANGED <<factVars, depositVars, recoveryVars, standingLock, active, job,
                 serviceVars, applied, outer, wireVars>>

\* ... and receive the first whose predecessor is current.  An entry that was
\* removed meanwhile raises.
Scan(t, c) ==
  /\ pc[t] = "scan"
  /\ c \in drain[t]
  /\ IF c \notin pending
     THEN /\ Reply(t, "REFUSED")
          /\ drain' = [drain EXCEPT ![t] = {}]
     ELSE IF active = Predecessor[c]
     THEN /\ outer' = [outer EXCEPT ![t] = job[t]]
          /\ job' = [job EXCEPT ![t] = c]
          /\ drain' = [drain EXCEPT ![t] = {}]
          /\ Goto(t, "receive")
          /\ UNCHANGED <<pending, wireVars>>
     ELSE /\ drain' = [drain EXCEPT ![t] = @ \ {c}]
          /\ UNCHANGED <<pending, job, outer, pc, wireVars>>
  /\ UNCHANGED <<factVars, depositVars, recoveryVars, standingLock, active,
                 results, spent, applied>>

EndDrain(t) ==
  /\ pc[t] = "scan"
  /\ drain[t] = {}
  /\ Reply(t, "APPLIED")
  /\ UNCHANGED <<factVars, depositVars, recoveryVars, standingLock, active,
                 results, spent, applied, drain>>

ServiceStep(t) ==
  \/ Receive(t) \/ RefreshStanding(t) \/ Judge(t) \/ Hold(t) \/ IsHeld(t)
  \/ Prepare(t)
  \/ ChangeRaises(t) \/ Count(t) \/ WriteResult(t) \/ ForgetPending(t)
  \/ Drain(t) \/ EndDrain(t)
  \/ \E c \in Ceremonies : Scan(t, c)

----------------------------------------------------------------------------
\* The origin: lodging, the carry thread, the result.

Lodge(c) ==
  /\ carrier # "down"
  /\ c \notin lodged
  /\ lodged' = lodged \cup {c}
  /\ outgoing' = outgoing \cup {c}
  /\ UNCHANGED <<standingVars, serviceVars, drainVars, wireVars, receipts,
                 outbound, carrierVars, crashes>>

\* carry_ceremony_one claims the file and posts; a request thread takes it up.
Post(c, t) ==
  /\ carrier = "idle"
  /\ c \in outgoing
  /\ pc[t] = "ready"
  /\ carrier' = "wait"
  /\ carried' = c
  /\ job' = [job EXCEPT ![t] = c]
  /\ live' = [live EXCEPT ![t] = TRUE]
  /\ Goto(t, "receive")
  /\ UNCHANGED <<factVars, depositVars, recoveryVars, standingLock, active,
                 serviceVars, drainVars, answer, originVars, replay, crashes>>

HangUp == live' = [t \in Threads |-> FALSE] /\ answer' = None

\* A refusal is dropped; what is pending, and what got no answer, is put back.
ReceiveAnswer ==
  /\ carrier = "wait"
  /\ answer # None
  /\ answer' = None
  /\ carrier' = [APPLIED |-> "retain", REFUSED |-> "drop",
                  PENDING |-> "back"][answer]
  /\ UNCHANGED <<standingVars, serviceVars, drainVars, live, originVars,
                 carried, replay, crashes>>

\* The connection breaks or ten seconds pass; the thread goes on.
GiveUp ==
  /\ carrier = "wait"
  /\ HangUp
  /\ carrier' = "back"
  /\ UNCHANGED <<standingVars, serviceVars, drainVars, originVars, carried,
                 replay, crashes>>

PutBack ==
  /\ carrier = "back"
  /\ carrier' = "idle" /\ carried' = None
  /\ UNCHANGED <<standingVars, serviceVars, drainVars, wireVars, originVars,
                 replay, crashes>>

RetainResult ==
  /\ carrier = "retain"
  /\ receipts' = receipts \cup {carried}
  /\ carrier' = "learn"
  /\ UNCHANGED <<standingVars, serviceVars, drainVars, wireVars, lodged,
                 outgoing, outbound, carried, replay, crashes>>

\* Mistake: a retained result is applied whatever is known.
KnowledgeLatest(c) == Successor[c]

\* _apply_result: a result moves the outbound standing from its predecessor.
KnowledgeAfter(c) ==
  IF outbound = Predecessor[c] THEN Successor[c] ELSE outbound

Learn ==
  /\ carrier = "learn"
  /\ outbound' = KnowledgeAfter(carried)
  /\ carrier' = "drop"
  /\ UNCHANGED <<standingVars, serviceVars, drainVars, wireVars, lodged,
                 outgoing, receipts, carried, replay, crashes>>

Drop ==
  /\ carrier = "drop"
  /\ outgoing' = outgoing \ {carried}
  /\ carrier' = "idle" /\ carried' = None
  /\ UNCHANGED <<standingVars, serviceVars, drainVars, wireVars, lodged,
                 receipts, outbound, replay, crashes>>

\* recover_origin: what has no receipt is outgoing again, and the receipts are
\* applied once more, in the order the directory gives them.
StartOrigin ==
  /\ carrier = "down"
  /\ outgoing' = outgoing \cup (lodged \ receipts)
  /\ replay' = receipts
  /\ carrier' = "apply"
  /\ UNCHANGED <<standingVars, serviceVars, drainVars, wireVars, lodged,
                 receipts, outbound, carried, crashes>>

Reapply(c) ==
  /\ carrier = "apply"
  /\ c \in replay
  /\ outbound' = KnowledgeAfter(c)
  /\ replay' = replay \ {c}
  /\ UNCHANGED <<standingVars, serviceVars, drainVars, wireVars, lodged,
                 outgoing, receipts, carrier, carried, crashes>>

OriginStarted ==
  /\ carrier = "apply"
  /\ replay = {}
  /\ carrier' = "idle"
  /\ UNCHANGED <<standingVars, serviceVars, drainVars, wireVars, originVars,
                 carried, replay, crashes>>

OriginStep ==
  \/ ReceiveAnswer \/ GiveUp \/ PutBack \/ RetainResult \/ Learn \/ Drop
  \/ StartOrigin \/ OriginStarted
  \/ \E c \in Ceremonies : Lodge(c) \/ Reapply(c) \/ \E t \in Threads : Post(c, t)

----------------------------------------------------------------------------
\* Crashes.

\* The recipient dies and starts again: its memory is rebuilt from the facts
\* before it serves, its threads, their locks and their connections are gone.
RecipientCrashes ==
  /\ crashes < MaxCrashes
  /\ crashes' = crashes + 1
  /\ active' = Current(introductions)
  /\ spent' = Cardinality({c \in Ceremonies : Causes(c)})
  /\ standingLock' = IF standingLock \in Threads THEN None ELSE standingLock
  /\ pc' = [t \in Threads |-> "ready"]
  /\ job' = [t \in Threads |-> None]
  /\ standing' = [t \in Threads |-> None]
  /\ back' = [t \in Threads |-> None]
  /\ listed' = [t \in Threads |-> {}]
  /\ found' = [t \in Threads |-> None]
  /\ applied' = [t \in Threads |-> 0]
  /\ outer' = [t \in Threads |-> None]
  /\ drain' = [t \in Threads |-> {}]
  /\ live' = [t \in Threads |-> FALSE]
  /\ UNCHANGED <<factVars, accepted, results, pending, answer, originVars,
                 carrierVars>>

OriginCrashes ==
  /\ crashes < MaxCrashes
  /\ crashes' = crashes + 1
  /\ carrier # "down"
  /\ carrier' = "down" /\ carried' = None /\ replay' = {}
  /\ HangUp
  /\ UNCHANGED <<standingVars, serviceVars, drainVars, originVars>>

\* A step of Standing concerns the standing of the recipient alone.
StandingOnly == UNCHANGED <<serviceVars, drainVars, wireVars, originVars,
                            carrierVars, crashes>>

ThreadStep(t) ==
  \/ ServiceStep(t) /\ UNCHANGED <<originVars, carrierVars, crashes>>
  \/ (RecoverStep(t) \/ DepositStep(t) \/ ChangeStep(t)) /\ StandingOnly

AdministratorStep ==
  /\ \E i \in Local : Administer(i)
  /\ StandingOnly

Next ==
  \/ \E t \in Threads : ThreadStep(t)
  \/ AdministratorStep \/ OriginStep \/ RecipientCrashes \/ OriginCrashes

Spec == Init /\ [][Next]_vars

----------------------------------------------------------------------------
(* Properties. *)

\* STANDING-SUCCESSION.md: "No predecessor has more than one transition slot";
\* what fills it is never replaced, by two threads, two ceremonies for one
\* predecessor or another process (introduction.py change).
StandingNeverForks ==
  [][\A i \in Introductions : changes[i] # None => changes'[i] = changes[i]]_vars

\* A result the recipient wrote, or the origin retained, tells of a change
\* that very ceremony caused (ceremony.py receive, retain_result).
ResultsAreTrue ==
  \A c \in results \cup receipts :
    /\ changes[Predecessor[c]] # None
    /\ changes[Predecessor[c]].cause = c

\* STANDING-SUCCESSION.md: "Candidate successor Introductions are inert until
\* that threshold": the Porter's memory and every AC name an Introduction the
\* changes have made current once, however recover and change interleave; an AC
\* that was not asked for a proof names none.
CandidatesAreInert ==
  /\ active \in Generations \cup {None}
  /\ \A p \in Packages : accepted[p] \in Generations \cup {Unproven, None}

\* The origin's knowledge follows the recipient's changes one by one and never
\* goes back, whatever order results are retained and replayed in
\* (ceremony.py _apply_result, recover_origin).
OutboundNeverRewinds ==
  [][outbound' # outbound =>
       /\ outbound # None
       /\ changes[outbound] # None
       /\ changes[outbound].successor = outbound']_vars
=============================================================================
