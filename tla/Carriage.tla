------------------------------- MODULE Carriage -------------------------------
(***************************************************************************)
(* The carriage of lodged Packages from a sender Porter to a recipient     *)
(* over HTTP: the carry thread, requests that time out, answers that are   *)
(* lost, Hosts that lodge meanwhile, crashes of either, and a recipient    *)
(* reduced to its acceptance boundary (modelled whole by Custody).         *)
(***************************************************************************)
EXTENDS Lodgement

CONSTANTS
  MaxCrashes,     \* bound: crashes of the sender's processes
  MayExpire,      \* may a Package expire on its way?
  MayRefuse,      \* may the recipient's standing terms refuse a Package?
  MayRaise        \* may a deposit raise after its AC is written?

ASSUME CarriageBounds ==
  /\ MaxCrashes \in Nat
  /\ {MayExpire, MayRefuse, MayRaise} \subseteq BOOLEAN

VARIABLES
  queue,      \* outgoing files the carry loop listed and has yet to visit
  carried,    \* the Package of carry_one, or None
  requests,   \* deposits on the wire; live: the connection is still open
  answer,     \* what came back on it
  acceptances,\* the recipient's AC of a Package, or None
  expired,    \* Packages past their expiry
  crashes

carryVars     == <<queue, carried>>
wireVars      == <<requests, answer>>
recipientVars == <<acceptances, expired>>
senderVars ==
  <<lodgementVars, stageVars, evidenceVars, clerkVars, carryVars>>
vars == <<senderVars, wireVars, recipientVars, crashes>>

Request == [package : Packages, live : BOOLEAN]
Receipt(p) == [kind |-> "RECEIPT", acceptance |-> acceptances[p]]
Refusal    == [kind |-> "REFUSE", acceptance |-> None]
Answers    == [kind : {"RECEIPT"}, acceptance : AcceptanceIds] \cup {Refusal}

Materializing ==
  {"lock", "ticket", "association", "associate", "stage"} \cup DOMAIN Looks
CarryingOne ==
  {"attempt", "wait", "retain", "learn", "refuse", "clear", "failed"}
ClerkLabels ==
  {"down", "dead", "ready", "idle", "recover", "carry"}
    \cup Materializing \cup CarryingOne

TypeOK ==
  /\ lodged \subseteq Lodgements /\ tickets \subseteq lodged
  /\ mapping \in [Packages -> Lodgements \cup {None}]
  /\ outgoing \subseteq Packages /\ carrying \subseteq Packages
  /\ receipts \in [Packages -> AcceptanceIds \cup {None}]
  /\ refused \subseteq Packages /\ known \subseteq Packages
  /\ lodgementLock \in [Lodgements -> Clerks \cup {None}]
  /\ pc \in [Clerks -> ClerkLabels]
  /\ job \in [Clerks -> Lodgements \cup {None}]
  /\ unrecovered \subseteq lodged
  /\ queue \subseteq Packages /\ carried \in Packages \cup {None}
  /\ requests \subseteq Request
  /\ answer \in Answers \cup {None}
  /\ acceptances \in [Packages -> AcceptanceIds \cup {None}]
  /\ expired \subseteq Packages
  /\ crashes \in Nat

Init ==
  /\ lodged = {} /\ tickets = {}
  /\ mapping = [p \in Packages |-> None]
  /\ outgoing = {} /\ carrying = {}
  /\ receipts = [p \in Packages |-> None]
  /\ refused = {} /\ known = {}
  /\ lodgementLock = [l \in Lodgements |-> None]
  /\ pc = [w \in Clerks |-> IF w = Carrier THEN "down" ELSE "ready"]
  /\ job = [w \in Clerks |-> None]
  /\ unrecovered = {}
  /\ queue = {} /\ carried = None
  /\ requests = {} /\ answer = None
  /\ acceptances = [p \in Packages |-> None]
  /\ expired = {}
  /\ crashes = 0

----------------------------------------------------------------------------
\* The carry thread.

\* A Porter that starts gives claimed files their name back, unless taken; the
\* recover of its start and the one its carry thread begins with are one here.
StartPorter ==
  /\ pc[Carrier] = "down"
  /\ outgoing' = outgoing \cup carrying
  /\ carrying' = carrying \cap outgoing
  /\ Goto(Carrier, "idle")
  /\ UNCHANGED <<lodgementVars, evidenceVars, job, unrecovered, carryVars,
                 wireVars, recipientVars, crashes>>

\* After recover, every claimed file is renamed and the directory listed.
Sweep ==
  /\ pc[Carrier] = "recover"
  /\ unrecovered = {}
  /\ outgoing' = outgoing \cup carrying
  /\ carrying' = {}
  /\ queue' = outgoing'
  /\ Goto(Carrier, "carry")
  /\ UNCHANGED <<lodgementVars, evidenceVars, job, unrecovered, carried,
                 wireVars, recipientVars, crashes>>

Claim(p) ==
  /\ pc[Carrier] = "carry"
  /\ p \in queue
  /\ queue' = queue \ {p}
  /\ p \in outgoing
  /\ outgoing' = outgoing \ {p}
  /\ carrying' = carrying \cup {p}
  /\ carried' = p
  /\ Goto(Carrier, "attempt")
  /\ UNCHANGED <<lodgementVars, evidenceVars, job, unrecovered, wireVars,
                 recipientVars, crashes>>

EndCarry ==
  /\ pc[Carrier] = "carry"
  /\ queue = {}
  /\ Goto(Carrier, "idle")
  /\ UNCHANGED <<lodgementVars, stageVars, evidenceVars, job, unrecovered,
                 carryVars, wireVars, recipientVars, crashes>>

\* note_attempt, then the POST.
Attempt ==
  /\ pc[Carrier] = "attempt"
  /\ requests' = requests \cup {[package |-> carried, live |-> TRUE]}
  /\ Goto(Carrier, "wait")
  /\ UNCHANGED <<lodgementVars, stageVars, evidenceVars, job, unrecovered,
                 carryVars, answer, recipientVars, crashes>>

HangUp == {r \in requests : ~r.live}

\* Mistake: the connection is reused after a timeout.
LeftConnected == requests

LeftBehind == {[package |-> r.package, live |-> FALSE] : r \in requests}

ReceiveAnswer ==
  /\ pc[Carrier] = "wait"
  /\ answer # None
  /\ Goto(Carrier, IF answer = Refusal THEN "refuse" ELSE "retain")
  /\ UNCHANGED <<lodgementVars, stageVars, evidenceVars, job, unrecovered,
                 carryVars, wireVars, recipientVars, crashes>>

\* The connection breaks or ten seconds pass; the deposit may be lost, or
\* reach the recipient later, or have been answered in vain.
GiveUp ==
  /\ pc[Carrier] = "wait"
  /\ requests' \in {HangUp, LeftBehind}
  /\ answer' = None
  /\ Goto(Carrier, "failed")
  /\ UNCHANGED <<lodgementVars, stageVars, evidenceVars, job, unrecovered,
                 carryVars, recipientVars, crashes>>

\* retain_evidence: a receipt that differs from the one retained is an error.
RetainReceipt ==
  /\ pc[Carrier] = "retain"
  /\ IF receipts[carried] \in {None, answer.acceptance}
       THEN /\ receipts' = [receipts EXCEPT ![carried] = answer.acceptance]
            /\ Goto(Carrier, "learn")
       ELSE Goto(Carrier, "failed") /\ UNCHANGED receipts
  /\ answer' = None
  /\ UNCHANGED <<lodgementVars, stageVars, refused, known, job, unrecovered,
                 carryVars, requests, recipientVars, crashes>>

Learn ==
  /\ pc[Carrier] = "learn"
  /\ known' = known \cup {carried}
  /\ Goto(Carrier, "clear")
  /\ UNCHANGED <<lodgementVars, stageVars, receipts, refused, job, unrecovered,
                 carryVars, wireVars, recipientVars, crashes>>

RetainRefusal ==
  /\ pc[Carrier] = "refuse"
  /\ refused' = refused \cup {carried}
  /\ answer' = None
  /\ Goto(Carrier, "clear")
  /\ UNCHANGED <<lodgementVars, stageVars, receipts, known, job, unrecovered,
                 carryVars, requests, recipientVars, crashes>>

Clear ==
  /\ pc[Carrier] = "clear"
  /\ carrying' = carrying \ {carried}
  /\ carried' = None
  /\ Goto(Carrier, "carry")
  /\ UNCHANGED <<lodgementVars, outgoing, evidenceVars, job, unrecovered,
                 queue, wireVars, recipientVars, crashes>>

\* Mistake: the claimed file is unlinked whatever happened.
DropClaim ==
  /\ pc[Carrier] = "failed"
  /\ carrying' = carrying \ {carried}
  /\ carried' = None
  /\ Goto(Carrier, "carry")
  /\ UNCHANGED <<lodgementVars, outgoing, evidenceVars, job, unrecovered, queue,
                 wireVars, recipientVars, crashes>>

\* carry_one's handler: back to outgoing, unless a receipt is retained.
PutBack ==
  /\ pc[Carrier] = "failed"
  /\ carrying' = carrying \ {carried}
  /\ outgoing' = IF receipts[carried] = None THEN outgoing \cup {carried}
                 ELSE outgoing
  /\ carried' = None
  /\ Goto(Carrier, "carry")
  /\ UNCHANGED <<lodgementVars, evidenceVars, job, unrecovered, queue,
                 wireVars, recipientVars, crashes>>

CarryStep ==
  \/ StartPorter \/ Sweep \/ EndCarry \/ Attempt \/ RetainReceipt
  \/ Learn \/ RetainRefusal \/ Clear \/ PutBack
  \/ \E p \in Packages : Claim(p)

----------------------------------------------------------------------------
\* The recipient: Porter.deposit and the HTTP answer made of its outcome.

Accepting(p) ==
  IF acceptances[p] # None THEN UNCHANGED acceptances
  ELSE \E a \in AcceptanceIds \ {acceptances[q] : q \in Packages} :
         acceptances' = [acceptances EXCEPT ![p] = a]

\* An expired Package, a refused sender and any exception answer REFUSE.
Deposit(r) ==
  LET p == r.package
      Reply(value) == answer' = IF r.live THEN value ELSE answer
  IN /\ r \in requests
     /\ requests' = requests \ {r}
     /\ \/ /\ p \in expired
           /\ Reply(Refusal) /\ UNCHANGED acceptances
        \/ /\ p \notin expired /\ MayRefuse /\ acceptances[p] = None
           /\ Reply(Refusal) /\ UNCHANGED acceptances
        \/ /\ p \notin expired
           /\ Accepting(p) /\ Reply(Receipt(p)')
        \/ /\ p \notin expired /\ MayRaise
           /\ Accepting(p) /\ Reply(Refusal)
     /\ UNCHANGED <<senderVars, expired, crashes>>

Expire(p) ==
  /\ MayExpire
  /\ p \notin expired
  /\ expired' = expired \cup {p}
  /\ UNCHANGED <<senderVars, wireVars, acceptances, crashes>>

----------------------------------------------------------------------------
\* Crashes of the sender.

Crashes(w) ==
  /\ crashes < MaxCrashes
  /\ crashes' = crashes + 1
  /\ lodgementLock' = [l \in Lodgements |->
                         IF lodgementLock[l] = w THEN None ELSE lodgementLock[l]]
  /\ job' = [job EXCEPT ![w] = None]
  /\ UNCHANGED <<lodged, tickets, mapping, stageVars, evidenceVars,
                 recipientVars>>

PorterCrashes ==
  /\ pc[Carrier] # "down"
  /\ Crashes(Carrier)
  /\ Goto(Carrier, "down")
  /\ unrecovered' = {} /\ queue' = {} /\ carried' = None
  /\ requests' \in {HangUp, LeftBehind}
  /\ answer' = None

LodgerCrashes(h) ==
  /\ pc[h] # "ready"
  /\ Crashes(h)
  /\ Goto(h, "ready")
  /\ UNCHANGED <<unrecovered, carryVars, wireVars>>

CarrierStep ==
  \/ CarryStep
  \/ (MaterializeStep(Carrier) \/ RecoverStep)
       /\ UNCHANGED <<carryVars, wireVars, recipientVars, crashes>>

LodgerProceeds(h) ==
  /\ MaterializeStep(h)
  /\ UNCHANGED <<carryVars, wireVars, recipientVars, crashes>>

LodgerStep(h) ==
  \/ LodgerProceeds(h)
  \/ (\E l \in Lodgements : Lodge(h, l))
       /\ UNCHANGED <<carryVars, wireVars, recipientVars, crashes>>

Next ==
  \/ CarrierStep \/ ReceiveAnswer \/ GiveUp
  \/ \E h \in Lodgers : LodgerStep(h) \/ LodgerCrashes(h)
  \/ \E r \in requests : Deposit(r)
  \/ \E p \in Packages : Expire(p)
  \/ PorterCrashes

Spec == Init /\ [][Next]_vars

Obtained(w) ==
  /\ LockLodgement(w)
  /\ UNCHANGED <<carryVars, wireVars, recipientVars, crashes>>

\* The carry thread runs and a dead Porter is started; a Host that lodges goes
\* on until it crashes, and a waiting carry thread in the end gets the lock; a
\* deposit that is tried again and again is in the end delivered, and its
\* answer received.
FairSpec ==
  /\ Spec
  /\ WF_vars(CarrierStep)
  /\ \A h \in Lodgers : WF_vars(LodgerProceeds(h))
  /\ SF_vars(Obtained(Carrier))
  /\ SF_vars(\E r \in requests : r.live /\ Deposit(r))
  /\ SF_vars(ReceiveAnswer)

----------------------------------------------------------------------------
(* Properties. *)

Settled(p) == receipts[p] # None \/ p \in refused

\* A staged Package leaves the outgoing directory only with a receipt or a
\* refusal retained, through every rename, timeout and crash (daemon.py
\* carry_one and the sweep of carry).
StagedIsKept ==
  [][\A p \in outgoing \cup carrying :
       p \in outgoing' \cup carrying' \/ Settled(p)']_vars

\* Who materializes has a published lodgement, and a Package is carried only
\* between its claim and the end of carry_one.
WorkInv ==
  /\ \A w \in Clerks : pc[w] \in Materializing => job[w] \in lodged
  /\ pc[Carrier] \in CarryingOne <=> carried # None
  /\ pc[Carrier] = "learn" => receipts[carried] # None
  /\ pc[Carrier] = "clear" => Settled(carried)

AnswerIsTrue ==
  \/ answer = Refusal
  \/ acceptances[carried] # None /\ answer = Receipt(carried)

\* One connection is open at most, and what comes back on it is about the
\* Package in hand.
WireInv ==
  /\ \A r \in requests :
       r.live => pc[Carrier] = "wait" /\ answer = None /\ r.package = carried
  /\ answer # None =>
       pc[Carrier] \in {"wait", "retain", "refuse"} /\ AnswerIsTrue
  /\ pc[Carrier] = "retain" => answer # Refusal /\ AnswerIsTrue
  /\ pc[Carrier] = "refuse" => answer = Refusal

\* CONFORMANCE.md: "The origin may claim remote acceptance only after
\* retaining valid acceptance evidence durably", and the evidence names the AC
\* the recipient holds.
ClaimsAreBacked ==
  /\ \A p \in known : receipts[p] # None
  /\ \A p \in Packages : receipts[p] \in {None, acceptances[p]}

\* Claims stay backed however late an answer is and whoever crashed meanwhile
\* (daemon.py carry_one, carriage.py retain_evidence).
CarriageInv == TypeOK /\ WorkInv /\ WireInv /\ ClaimsAreBacked

LodgedTwice(p) ==
  \E l, k \in lodged : l # k /\ PackageOf[l] = p /\ PackageOf[k] = p

\* What is lodged is in the end carried or refused, whoever crashed while it
\* was materialized, unless its Package was lodged twice, which ends the carry
\* thread (Lodgement, AssociationRaises).
LodgedIsSettled ==
  \A l \in Lodgements :
    l \in lodged ~> Settled(PackageOf[l]) \/ LodgedTwice(PackageOf[l])
===============================================================================
