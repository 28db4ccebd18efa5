------------------------------ MODULE Lodgement ------------------------------
(***************************************************************************)
(* The sender's store and the lodging of correspondence in it: a Host      *)
(* publishes an LG fact, then it or the carry thread of the Porter makes   *)
(* the Ticket, the Package-to-Ticket association and the outgoing Package. *)
(***************************************************************************)
EXTENDS Naturals

CONSTANTS
  Packages,      \* PKG-... identities
  Lodgements,    \* LG-... identities, each drafted with one Ticket
  PackageOf,     \* the Package of a lodgement
  AcceptanceIds, \* AC-... identities of the recipient Porter
  Carrier,       \* the carry thread of the Porter
  Lodgers,       \* Host processes that lodge
  None           \* no identity

Clerks == {Carrier} \cup Lodgers

ASSUME CarrierDistinct == Carrier \notin Lodgers
ASSUME LodgementNone == None \notin Packages \cup Lodgements \cup AcceptanceIds \cup Clerks
ASSUME PackageOfType == PackageOf \in [Lodgements -> Packages]

VARIABLES
  lodged,        \* lodgements/lodged: the canonical LG facts
  tickets,       \* tickets/<ticket>.json, by lodgement
  mapping,       \* tickets/by-package/<package>, by lodgement
  outgoing,      \* outgoing/<package>.json
  carrying,      \* outgoing/<package>.carrying
  receipts,      \* receipts/<package>.json: the AC it names, or None
  refused,       \* refused/<package>.json
  known,         \* carriage/<package>.json says REMOTE_ACCEPTANCE_KNOWN
  lodgementLock, \* flock of a lodgement
  pc,            \* where each clerk is
  job,           \* the lodgement it materializes
  unrecovered    \* lodgements the carry thread has yet to recover

lodgementVars == <<lodged, tickets, mapping, lodgementLock>>
stageVars     == <<outgoing, carrying>>
evidenceVars  == <<receipts, refused, known>>
clerkVars     == <<pc, job, unrecovered>>

Goto(w, label) == pc' = [pc EXCEPT ![w] = label]

\* lodge: a draft is published as LG, or one published before is found again
\* (also resolve, of a lodgement that exists).
Lodge(h, l) ==
  /\ pc[h] = "ready"
  /\ lodged' = lodged \cup {l}
  /\ job' = [job EXCEPT ![h] = l]
  /\ Goto(h, "lock")
  /\ UNCHANGED <<tickets, mapping, lodgementLock, stageVars, evidenceVars,
                 unrecovered>>

LockLodgement(w) ==
  /\ pc[w] = "lock"
  /\ lodgementLock[job[w]] = None
  /\ lodgementLock' = [lodgementLock EXCEPT ![job[w]] = w]
  /\ Goto(w, "ticket")
  /\ UNCHANGED <<lodged, tickets, mapping, stageVars, evidenceVars, job,
                 unrecovered>>

WriteTicket(w) ==
  /\ pc[w] = "ticket"
  /\ tickets' = tickets \cup {job[w]}
  /\ Goto(w, "association")
  /\ UNCHANGED <<lodged, mapping, lodgementLock, stageVars, evidenceVars, job,
                 unrecovered>>

\* materialize is over, one way or another; label is where the clerk goes.
Unlock(w, label) ==
  /\ lodgementLock' = [lodgementLock EXCEPT ![job[w]] = None]
  /\ job' = [job EXCEPT ![w] = None]
  /\ Goto(w, label)

Resume(w) == IF w = Carrier THEN "recover" ELSE "ready"

\* The association is read ...
LookForTicket(w) ==
  /\ pc[w] = "association"
  /\ mapping[PackageOf[job[w]]] \in {None, job[w]}
  /\ Goto(w, IF mapping[PackageOf[job[w]]] = None THEN "associate"
             ELSE "receipt")
  /\ UNCHANGED <<lodgementVars, stageVars, evidenceVars, job, unrecovered>>

\* ... and written, under a lock of the lodgement only.
Associate(w) ==
  /\ pc[w] = "associate"
  /\ mapping' = [mapping EXCEPT ![PackageOf[job[w]]] = job[w]]
  /\ Goto(w, "receipt")
  /\ UNCHANGED <<lodged, tickets, lodgementLock, stageVars, evidenceVars, job,
                 unrecovered>>

\* Another Ticket has the Package: ValueError.  It reaches the caller of a
\* Host; nothing in carry catches it.
AssociationRaises(w) ==
  /\ pc[w] = "association"
  /\ mapping[PackageOf[job[w]]] \notin {None, job[w]}
  /\ Unlock(w, IF w = Carrier THEN "dead" ELSE "ready")
  /\ UNCHANGED <<lodged, tickets, mapping, stageVars, evidenceVars,
                 unrecovered>>

\* Is the Package carried, refused, being carried or outgoing?  Four reads of
\* files that the carry thread moves meanwhile, the first hit ending them.
Looks == [receipt |-> "refusal", refusal |-> "carrying",
          carrying |-> "outgoing", outgoing |-> "stage"]

Found(label, p) ==
  \/ label = "receipt"  /\ receipts[p] # None
  \/ label = "refusal"  /\ p \in refused
  \/ label = "carrying" /\ p \in carrying
  \/ label = "outgoing" /\ p \in outgoing

Look(w) ==
  /\ pc[w] \in DOMAIN Looks
  /\ IF Found(pc[w], PackageOf[job[w]])
       THEN Unlock(w, Resume(w))
       ELSE Goto(w, Looks[pc[w]]) /\ UNCHANGED <<lodgementLock, job>>
  /\ UNCHANGED <<lodged, tickets, mapping, stageVars, evidenceVars,
                 unrecovered>>

Stage(w) ==
  /\ pc[w] = "stage"
  /\ outgoing' = outgoing \cup {PackageOf[job[w]]}
  /\ Unlock(w, Resume(w))
  /\ UNCHANGED <<lodged, tickets, mapping, carrying, evidenceVars,
                 unrecovered>>

MaterializeStep(w) ==
  \/ LockLodgement(w) \/ WriteTicket(w) \/ LookForTicket(w)
  \/ Associate(w) \/ AssociationRaises(w) \/ Look(w) \/ Stage(w)

----------------------------------------------------------------------------
\* recover, by the carry thread at every turn of its loop.

\* Mistake: a lodgement with its Ticket and association counts as complete.
CompleteUnstaged(l) == l \in tickets /\ mapping[PackageOf[l]] = l

Complete(l) ==
  LET p == PackageOf[l] IN
  /\ l \in tickets
  /\ mapping[p] = l
  /\ receipts[p] # None \/ p \in refused \cup carrying \cup outgoing

BeginRecovery ==
  /\ pc[Carrier] = "idle"
  /\ unrecovered' = lodged
  /\ Goto(Carrier, "recover")
  /\ UNCHANGED <<lodgementVars, stageVars, evidenceVars, job>>

Recover(l) ==
  /\ pc[Carrier] = "recover"
  /\ l \in unrecovered
  /\ unrecovered' = unrecovered \ {l}
  /\ IF Complete(l)
       THEN UNCHANGED <<pc, job>>
       ELSE Goto(Carrier, "lock") /\ job' = [job EXCEPT ![Carrier] = l]
  /\ UNCHANGED <<lodgementVars, stageVars, evidenceVars>>

RecoverStep == BeginRecovery \/ \E l \in Lodgements : Recover(l)
=============================================================================
