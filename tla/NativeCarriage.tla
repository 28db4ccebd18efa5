---------------------------- MODULE NativeCarriage ----------------------------
(***************************************************************************)
(* Native carriage: a lodged Package becomes one carriage Unit for each    *)
(* custodian selected for its recipient.  The carry thread stages the      *)
(* Units and sends them; receive threads retain what custodians answer and *)
(* settle the Units; frames are lost or late; the Porter dies and starts.  *)
(* The .awaiting file is left out, nothing reads it.  Every accepted frame *)
(* is authentic: its origin is the custodian it names.                     *)
(***************************************************************************)
EXTENDS Lodgement, Naturals, FiniteSets

CONSTANTS
  Custodians,     \* custodian_for: the custodians of every recipient
  Receivers,      \* receive threads (32 slots in the code)
  Reasons,        \* reasons a custodian refuses for
  InFlight,       \* bound: answers on their way at a time, others are lost
  MayChangeProof  \* may a succession change the sender's outbound proof?

Answers  == AcceptanceIds \cup Reasons
Evidence == [package : Packages, custodian : Custodians, result : Answers]

ASSUME NativeTypes ==
  /\ Lodgers = {}
  /\ Receivers \cap Clerks = {}
  /\ None \notin Custodians \cup Reasons \cup Evidence
  /\ Reasons \cap AcceptanceIds = {}
  /\ MayChangeProof \in BOOLEAN
  /\ InFlight \in Nat

VARIABLES
  units,      \* native/outgoing/CU-PKG-<package>-<custodian>.json
  accepted,   \* native/evidence/acceptances: the AC, or None
  declined,   \* native/evidence/refusals: the reason, or None
  late,       \* history: acceptances retained past a thread that found none
  staging,    \* the Package it stages, or None
  toQueue,    \* custodians it has yet to queue a Unit for
  sending,    \* the Unit it compares or sends, or None
  frame,      \* the evidence each receive thread holds, or None
  wasKnown,   \* did note_attempt read REMOTE_ACCEPTANCE_KNOWN?
  holds,      \* the AC of a custodian for a Package, or None
  answered    \* evidence on its way: a custodian's CU-EV Units and their frames

keptVars      == <<accepted, declined, late>>
unitVars      == <<units, keptVars>>
tickVars      == <<staging, toQueue, sending, wasKnown>>
peerVars      == <<frame, holds, answered>>
nativeVars    == <<unitVars, tickVars, peerVars>>
storeVars     == <<lodgementVars, stageVars, evidenceVars>>
vars == <<storeVars, clerkVars, nativeVars>>

Pairs == Packages \X Custodians

NativeLabels ==
  {"down", "dead", "ready", "idle", "recover", "lock", "ticket",
   "association", "associate", "stage", "note", "queue", "compare", "send",
   "connect", "listen", "retain", "evidence",
   "compatible", "receipt?", "receipt", "learn", "settle", "unlink", "last",
   "accepted?", "refuse"} \cup DOMAIN Looks

TypeOK ==
  /\ lodged \subseteq Lodgements /\ tickets \subseteq lodged
  /\ mapping \in [Packages -> Lodgements \cup {None}]
  /\ outgoing \subseteq Packages /\ carrying = {}
  /\ receipts \in [Packages -> AcceptanceIds \cup {None}]
  /\ refused \subseteq Packages /\ known \subseteq Packages
  /\ lodgementLock \in [Lodgements -> Clerks \cup {None}]
  /\ pc \in [Clerks \cup Receivers -> NativeLabels]
  /\ job \in [Clerks -> Lodgements \cup {None}]
  /\ unrecovered \subseteq lodged
  /\ units \subseteq Pairs
  /\ accepted \in [Packages -> [Custodians -> AcceptanceIds \cup {None}]]
  /\ declined \in [Packages -> [Custodians -> Reasons \cup {None}]]
  /\ late \subseteq Pairs
  /\ staging \in Packages \cup {None}
  /\ toQueue \subseteq Custodians
  /\ sending \in Pairs \cup {None}
  /\ frame \in [Receivers -> Evidence \cup {None}]
  /\ wasKnown \in BOOLEAN
  /\ holds \in [Packages -> [Custodians -> AcceptanceIds \cup {None}]]
  /\ answered \subseteq Evidence

NoneOf == [p \in Packages |-> [c \in Custodians |-> None]]

Init ==
  /\ lodged = {} /\ tickets = {} /\ mapping = [p \in Packages |-> None]
  /\ outgoing = {} /\ carrying = {}
  /\ receipts = [p \in Packages |-> None] /\ refused = {} /\ known = {}
  /\ lodgementLock = [l \in Lodgements |-> None]
  /\ pc = [w \in Clerks \cup Receivers |-> "down"]
  /\ job = [w \in Clerks |-> None] /\ unrecovered = {}
  /\ units = {} /\ accepted = NoneOf /\ declined = NoneOf /\ late = {}
  /\ staging = None /\ toQueue = {}
  /\ sending = None /\ wasKnown = FALSE
  /\ frame = [t \in Receivers |-> None]
  /\ answered = {}
  /\ holds = NoneOf

----------------------------------------------------------------------------
\* The carry thread: start, recover (of Lodgement), then one tick.

StartPorter ==
  /\ pc[Carrier] = "down"
  /\ pc' = [w \in Clerks \cup Receivers |->
              IF w = Carrier THEN "idle" ELSE "listen"]
  /\ UNCHANGED <<storeVars, job, unrecovered, nativeVars>>

\* A tick begins when recover is over.  Nobody else stages or renames, so what
\* it lists of outgoing is what it finds.
Ticking == pc[Carrier] = "recover" /\ unrecovered = {}

\* note_attempt reads what is known of the Package ...
StagePackage(p) ==
  /\ Ticking
  /\ p \in outgoing
  /\ staging' = p
  /\ wasKnown' = (p \in known)
  /\ Goto(Carrier, "note")
  /\ UNCHANGED <<storeVars, job, unrecovered, unitVars, toQueue, sending,
                 peerVars>>

\* ... and writes it back with one more attempt; then the outbound proof.
NoteAttempt ==
  /\ pc[Carrier] = "note"
  /\ known' = IF wasKnown THEN known ELSE known \ {staging}
  /\ wasKnown' = FALSE
  /\ toQueue' = Custodians
  /\ Goto(Carrier, "queue")
  /\ UNCHANGED <<lodgementVars, stageVars, receipts, refused, job,
                 unrecovered, unitVars, staging, sending, peerVars>>

\* queue: a Unit that does not exist is written, one that does is compared.
Queue(c) ==
  /\ pc[Carrier] = "queue"
  /\ c \in toQueue
  /\ IF <<staging, c>> \notin units
       THEN /\ units' = units \cup {<<staging, c>>}
            /\ toQueue' = toQueue \ {c}
            /\ UNCHANGED <<pc, sending>>
       ELSE /\ sending' = <<staging, c>>
            /\ Goto(Carrier, "compare")
            /\ UNCHANGED <<units, toQueue>>
  /\ UNCHANGED <<storeVars, job, unrecovered, keptVars, staging,
                 wasKnown, peerVars>>

Compared ==
  /\ pc[Carrier] = "compare"
  /\ sending' = None
  /\ UNCHANGED <<storeVars, job, unrecovered, unitVars, staging, wasKnown,
                 peerVars>>

\* The existing Unit is read, and carries the same Package and proof ...
SameUnit ==
  /\ Compared
  /\ <<staging, sending[2]>> \in units
  /\ toQueue' = toQueue \ {sending[2]}
  /\ Goto(Carrier, "queue")

\* ... or was settled since (no such file), or carries another proof
\* (ValueError): tick catches neither, nor does carry, and the thread ends.
QueueRaises ==
  /\ Compared
  /\ MayChangeProof \/ <<staging, sending[2]>> \notin units
  /\ Goto(Carrier, "dead")
  /\ UNCHANGED toQueue

\* Mistake: the file is renamed as soon as a Unit is queued.
AwaitEarly ==
  /\ pc[Carrier] = "queue"
  /\ outgoing' = outgoing \ {staging}
  /\ staging' = None
  /\ Goto(Carrier, "recover")
  /\ UNCHANGED <<lodgementVars, carrying, evidenceVars, job, unrecovered,
                 unitVars, toQueue, sending, wasKnown, peerVars>>

\* Every custodian has its Unit: the file is renamed .awaiting.
Await ==
  /\ pc[Carrier] = "queue"
  /\ toQueue = {}
  /\ outgoing' = outgoing \ {staging}
  /\ staging' = None
  /\ Goto(Carrier, "recover")
  /\ UNCHANGED <<lodgementVars, carrying, evidenceVars, job, unrecovered,
                 unitVars, toQueue, sending, wasKnown, peerVars>>

\* The second half of tick: the Units, in some order.  One that was settled
\* since tick listed it, or attempted less than 200 ms ago, is passed over, so
\* that a tick may end anywhere; one more attempt may as well be the next
\* tick's.
ReadUnit(u) ==
  /\ Ticking
  /\ outgoing = {}
  /\ u \in units
  /\ sending' = u
  /\ Goto(Carrier, "send")
  /\ UNCHANGED <<storeVars, job, unrecovered, unitVars, staging, toQueue,
                 wasKnown, peerVars>>

EndTick ==
  /\ Ticking
  /\ outgoing = {}
  /\ Goto(Carrier, "idle")
  /\ UNCHANGED <<storeVars, job, unrecovered, nativeVars>>

WriteBack == units' = units \cup {sending}

\* What was read is written back: with one more attempt, or with the error of
\* a custodian that has no current location.
Attempt ==
  /\ pc[Carrier] = "send"
  /\ WriteBack
  /\ \/ Goto(Carrier, "connect") /\ UNCHANGED sending
     \/ Goto(Carrier, "recover") /\ sending' = None
  /\ UNCHANGED <<storeVars, job, unrecovered, keptVars, staging,
                 toQueue, wasKnown, peerVars>>

Fresh == AcceptanceIds \ {holds[p][c] : p \in Packages, c \in Custodians}

\* The frame reaches the custodian: deposit answers a receipt, or refuses (the
\* sender or an expired Package), or raises after its AC is written; any
\* exception is a refusal.  The answer is queued there and sent back at some
\* time, if no later one takes its place (an answer that differs from one still
\* queued makes queue raise and is lost like a frame), or lost.
Deposit(p, c) ==
  /\ \/ UNCHANGED holds
     \/ /\ holds[p][c] = None
        /\ \E a \in Fresh : holds' = [holds EXCEPT ![p][c] = a]
  /\ \/ \E r \in Reasons \cup ({holds'[p][c]} \ {None}) :
          /\ answered' = {e \in answered : e.package # p \/ e.custodian # c}
                            \cup {[package |-> p, custodian |-> c, result |-> r]}
          /\ Cardinality(answered') <= InFlight
     \/ UNCHANGED answered

Transmitted ==
  /\ sending' = None
  /\ Goto(Carrier, "recover")
  /\ UNCHANGED <<storeVars, job, unrecovered, keptVars, staging,
                 toQueue, wasKnown, frame>>

\* The Unit is left to await its evidence, unless an error after the frame
\* left is written back.  A frame that is late, or lost on its way, is an
\* answer that is late or lost.
Transmit ==
  /\ pc[Carrier] = "connect"
  /\ UNCHANGED units \/ WriteBack
  /\ Deposit(sending[1], sending[2])
  /\ Transmitted

CannotConnect ==
  /\ pc[Carrier] = "connect"
  /\ WriteBack
  /\ Transmitted
  /\ UNCHANGED <<holds, answered>>

TickStep ==
  \/ StartPorter \/ NoteAttempt \/ SameUnit \/ QueueRaises
  \/ Await
  \/ EndTick \/ Attempt \/ Transmit
  \/ CannotConnect
  \/ \E p \in Packages : StagePackage(p)
  \/ \E c \in Custodians : Queue(c)
  \/ \E u \in Pairs : ReadUnit(u)

----------------------------------------------------------------------------
\* A receive thread with evidence of a custodian.

UnitOf(t)  == <<frame[t].package, frame[t].custodian>>
Outcome(t) == frame[t].result

\* receive is over, normally or by an exception that _receive swallows.
Drop(t) == frame' = [frame EXCEPT ![t] = None] /\ Goto(t, "listen")

\* A frame whose Unit is not outstanding, or no longer when it is read, changes
\* nothing.  A frame held up between the two is one that comes later.
Match(t, e) ==
  /\ pc[t] = "listen"
  /\ e \in answered
  /\ answered' = answered \ {e}
  /\ IF <<e.package, e.custodian>> \in units
       THEN frame' = [frame EXCEPT ![t] = e] /\ Goto(t, "retain")
       ELSE UNCHANGED <<pc, frame>>
  /\ UNCHANGED <<storeVars, job, unrecovered, unitVars, tickVars, holds>>

Accepts(t) == Outcome(t) \in AcceptanceIds

KeptOf(t) == IF Accepts(t) THEN accepted[frame[t].package][frame[t].custodian]
                           ELSE declined[frame[t].package][frame[t].custodian]

\* What is done once the evidence is retained.
Onward(t) == IF Accepts(t) THEN "compatible" ELSE "unlink"

\* What is retained of this custodian is looked for: other evidence is an error,
\* the same is not written again.
FindEvidence(t) ==
  /\ pc[t] = "retain"
  /\ IF KeptOf(t) \in {None, Outcome(t)}
       THEN /\ Goto(t, IF KeptOf(t) = None THEN "evidence" ELSE Onward(t))
            /\ UNCHANGED frame
       ELSE Drop(t)
  /\ UNCHANGED <<storeVars, job, unrecovered, unitVars, tickVars, answered,
                 holds>>

\* Mistake: the Unit is settled first, its evidence retained afterwards.
SettleFirst(t) ==
  /\ pc[t] = "evidence"
  /\ units' = units \ {UnitOf(t)}
  /\ Goto(t, Onward(t))
  /\ UNCHANGED <<storeVars, job, unrecovered, keptVars, tickVars, peerVars>>

\* There was none.  A second look may find what was written since; otherwise
\* the evidence is written, over whatever came after that look.  An acceptance
\* is late for a thread that found none and is about to refuse the Package.
FoundSince(t) ==
  /\ pc[t] = "evidence"
  /\ KeptOf(t) # None
  /\ Goto(t, Onward(t))
  /\ UNCHANGED <<storeVars, job, unrecovered, unitVars, tickVars, peerVars>>

WriteEvidence(t) ==
  LET p == frame[t].package
      c == frame[t].custodian
  IN /\ pc[t] = "evidence"
     /\ IF Accepts(t)
          THEN /\ accepted' = [accepted EXCEPT ![p][c] = Outcome(t)]
               /\ late' = IF \E v \in Receivers :
                               pc[v] = "refuse" /\ frame[v].package = p
                          THEN late \cup {<<p, c>>} ELSE late
               /\ UNCHANGED declined
          ELSE /\ declined' = [declined EXCEPT ![p][c] = Outcome(t)]
               /\ UNCHANGED <<accepted, late>>
     /\ Goto(t, Onward(t))
     /\ UNCHANGED <<storeVars, job, unrecovered, units, tickVars, peerVars>>

\* The receipt of the Package is looked at, twice: another custodian's makes
\* this acceptance an additional one, or an error when it came in between.
CompareReceipt(t) ==
  LET kept == receipts[frame[t].package] IN
  /\ \/ /\ pc[t] = "compatible"
        /\ Goto(t, IF kept \in {None, Outcome(t)} THEN "receipt?" ELSE "settle")
        /\ UNCHANGED frame
     \/ /\ pc[t] = "receipt?"
        /\ IF kept \in {None, Outcome(t)}
             THEN /\ Goto(t, IF kept = None THEN "receipt" ELSE "learn")
                  /\ UNCHANGED frame
             ELSE Drop(t)
  /\ UNCHANGED <<storeVars, job, unrecovered, unitVars, tickVars, answered,
                 holds>>

WriteReceipt(t) ==
  /\ pc[t] = "receipt"
  /\ receipts' = [receipts EXCEPT ![frame[t].package] = Outcome(t)]
  /\ Goto(t, "learn")
  /\ UNCHANGED <<lodgementVars, stageVars, refused, known, job, unrecovered,
                 nativeVars>>

Learn(t) ==
  /\ pc[t] = "learn"
  /\ known' = known \cup {frame[t].package}
  /\ Goto(t, "settle")
  /\ UNCHANGED <<lodgementVars, stageVars, receipts, refused, job,
                 unrecovered, nativeVars>>

\* The Unit is unlinked: after an acceptance receive is over ...
Settle(t) ==
  /\ pc[t] \in {"settle", "unlink"}
  /\ units' = units \ {UnitOf(t)}
  /\ IF pc[t] = "settle" THEN Drop(t) ELSE Goto(t, "last") /\ UNCHANGED frame
  /\ UNCHANGED <<storeVars, job, unrecovered, keptVars, tickVars, answered,
                 holds>>

\* Mistake: one refusal refuses the Package.
NoneOutstandingEver(p) == TRUE

\* ... and after a refusal the last one counts: no Unit is listed, and then no
\* acceptance ...
NoneOutstanding(p) == \A c \in Custodians : <<p, c>> \notin units

LastRefusal(t) ==
  LET p == frame[t].package IN
  /\ \/ /\ pc[t] = "last"
        /\ IF NoneOutstanding(p) THEN Goto(t, "accepted?") /\ UNCHANGED frame
                                 ELSE Drop(t)
     \/ /\ pc[t] = "accepted?"
        /\ IF \A c \in Custodians : accepted[p][c] = None
             THEN Goto(t, "refuse") /\ UNCHANGED frame
             ELSE Drop(t)
  /\ UNCHANGED <<storeVars, job, unrecovered, unitVars, tickVars, answered,
                 holds>>

\* ... and the refusal of the Package is written.
RetainRefusal(t) ==
  /\ pc[t] = "refuse"
  /\ refused' = refused \cup {frame[t].package}
  /\ Drop(t)
  /\ UNCHANGED <<lodgementVars, stageVars, receipts, known, job, unrecovered,
                 unitVars, tickVars, answered, holds>>

ReceiveStep(t) ==
  \/ FindEvidence(t) \/ FoundSince(t) \/ WriteEvidence(t)
  \/ CompareReceipt(t) \/ WriteReceipt(t) \/ Learn(t)
  \/ Settle(t) \/ LastRefusal(t) \/ RetainRefusal(t)

----------------------------------------------------------------------------
Crash ==
  /\ pc[Carrier] # "down"
  /\ pc' = [w \in Clerks \cup Receivers |-> "down"]
  /\ lodgementLock' = [l \in Lodgements |->
       IF lodgementLock[l] = Carrier THEN None ELSE lodgementLock[l]]
  /\ job' = [job EXCEPT ![Carrier] = None]
  /\ unrecovered' = {} /\ staging' = None
  /\ toQueue' = {} /\ sending' = None
  /\ wasKnown' = FALSE /\ frame' = [t \in Receivers |-> None]
  /\ late' = {}
  /\ UNCHANGED <<lodged, tickets, mapping, stageVars, evidenceVars, units,
                 accepted, declined, answered, holds>>

CarrierStep ==
  \/ TickStep
  \/ (MaterializeStep(Carrier) \/ RecoverStep) /\ UNCHANGED nativeVars

\* A Host publishes its lodgement; the Host that goes on to materialize it
\* beside the carry thread is in Carriage.
Publish(l) ==
  /\ l \notin lodged
  /\ lodged' = lodged \cup {l}
  /\ UNCHANGED <<tickets, mapping, lodgementLock, stageVars, evidenceVars,
                 clerkVars, nativeVars>>

Next ==
  \/ CarrierStep
  \/ \E l \in Lodgements : Publish(l)
  \/ \E t \in Receivers : ReceiveStep(t) \/ \E e \in answered : Match(t, e)
  \/ Crash

Spec == Init /\ [][Next]_vars

----------------------------------------------------------------------------
(* Properties. *)

Kept(p, c) == accepted[p][c] # None \/ declined[p][c] # None

\* The custodian refused, and did not accept as well before the listing of
\* acceptances that the refusal of the Package rests on.
Refused(p, c) ==
  /\ declined[p][c] # None
  /\ accepted[p][c] = None \/ <<p, c>> \in late

\* Every custodian has its Unit, or answered it.
AllQueued(p) == \A c \in Custodians : <<p, c>> \in units \/ Kept(p, c)

\* Whatever is known to be of p: a Unit, an answer on its way, evidence.
Begun(p) ==
  \/ \E c \in Custodians : <<p, c>> \in units \/ Kept(p, c)
  \/ \E e \in answered : e.package = p
  \/ \E t \in Receivers : frame[t] # None /\ frame[t].package = p

\* A Package begun is queued for all its custodians before any Unit of it is
\* sent: until then it is still to be staged, after a crash as well.
BeingStaged(p) ==
  /\ p \in outgoing
  /\ pc[Carrier] \notin {"send", "connect"}
  /\ \A e \in answered : e.package # p
  /\ \A t \in Receivers : frame[t] # None => frame[t].package # p
  /\ \A c \in Custodians : ~Kept(p, c)

True(e) == e.result \in AcceptanceIds => holds[e.package][e.custodian] = e.result

\* Where a receive thread is tells what is retained of its frame.
Retained(t) ==
  LET p == frame[t].package
      c == frame[t].custodian
  IN /\ pc[t] \in {"compatible", "receipt?", "receipt", "learn", "settle"} =>
          Outcome(t) \in AcceptanceIds /\ accepted[p][c] = Outcome(t)
     /\ pc[t] \in {"unlink", "last", "accepted?", "refuse"} =>
          declined[p][c] # None
     /\ pc[t] = "learn" => receipts[p] # None
     /\ pc[t] = "accepted?" => \A d \in Custodians : Kept(p, d)
     /\ pc[t] = "refuse" => \A d \in Custodians : Refused(p, d)

\* What the sender claims of a Package is what a custodian holds: retained
\* acceptances name the AC of that custodian, a receipt is one of them, and
\* remote acceptance is known only with a receipt (CONFORMANCE.md, "only after
\* retaining valid acceptance evidence durably"), whichever receive threads
\* settle Units of it at once.
EvidenceIsHeld ==
  /\ \A p \in Packages, c \in Custodians : accepted[p][c] \in {None, holds[p][c]}
  /\ \A p \in Packages :
       /\ receipts[p] # None => \E c \in Custodians : accepted[p][c] = receipts[p]
       /\ p \in known => receipts[p] # None

\* What the carry thread is at: a published lodgement, a staged file whose
\* Units so far are queued or answered, a Unit of a Package with all its Units.
CarrierInv ==
  /\ \/ pc[Carrier] \in {"lock", "ticket", "association", "associate", "stage"}
     \/ pc[Carrier] \in DOMAIN Looks
     => job[Carrier] \in lodged
  /\ pc[Carrier] \in {"note", "queue", "compare"} => staging \in outgoing
  /\ pc[Carrier] \in {"queue", "compare"} =>
       \A c \in Custodians \ toQueue :
         <<staging, c>> \in units \/ Kept(staging, c)
  /\ pc[Carrier] \in {"compare", "send", "connect"} => sending \in Pairs
  /\ pc[Carrier] \in {"send", "connect"} => AllQueued(sending[1])

\* Evidence on its way or at hand is true, and retained before it is used.
FrameInv ==
  /\ \A e \in answered : True(e)
  /\ \A t \in Receivers :
       pc[t] \notin {"down", "listen"} =>
         frame[t] \in Evidence /\ True(frame[t]) /\ Retained(t)

QueueInv == \A p \in Packages : Begun(p) => AllQueued(p) \/ BeingStaged(p)

\* The invariant of the module, inductive.
NativeInv == TypeOK /\ CarrierInv /\ EvidenceIsHeld /\ FrameInv /\ QueueInv

\* A Unit is settled only with its custodian's evidence retained, although the
\* carry thread writes back what it read before and receive threads settle the
\* same Unit at once (native.py tick, send and receive).
SettledWithEvidence ==
  [][\A p \in Packages, c \in Custodians :
       <<p, c>> \in units \ units' => Kept(p, c)']_vars

\* A Package counts as refused only when the refusal of every selected custodian
\* is retained: a refused one of several does not end it, nor does one whose
\* Unit is not queued yet, or was queued again meanwhile.  Nor is it refused
\* over an acceptance, unless that one came between the listing and the write
\* (_retain_custodian_refusal), from a custodian that had refused before.
RefusalIsUnanimous ==
  [][\A p \in refused' \ refused : \A c \in Custodians : Refused(p, c)]_vars

\* native.py:306: a Unit that disappears "is successful convergence, not a
\* carriage failure and must never kill the carry loop".
CarryLoopSurvives == pc[Carrier] # "dead"
===============================================================================
