-------------------------------- MODULE Tickets -------------------------------
(***************************************************************************)
(* A Collection Ticket: callers inspect it, collect one of the Returns the *)
(* Porter holds for it, or abandon it, while Returns arrive, a Host        *)
(* Runtime collects them on its own, and any of them dies.                 *)
(***************************************************************************)
EXTENDS Naturals, FiniteSets

CONSTANTS
  Returns,     \* Packages in reply to the Ticket's, in the order of sorted
  Callers,     \* processes that call inspect, collect or abandon
  MaxCrashes,  \* bound: deaths of a caller
  None

Ops == {"inspect", "collect", "abandon", "record", "name", "confirm"}

ASSUME TicketConstants ==
  /\ Returns \subseteq Nat /\ IsFiniteSet(Returns)
  /\ MaxCrashes \in Nat
  /\ None \notin Returns \cup Callers /\ None \notin Ops

VARIABLES
  ticket,      \* tickets/<ticket>.json: the Return it names, is it abandoned?
  held,        \* inbox/: Returns in Porter custody
  reserved,    \* collections/by-package/: Returns with an association
  facts,       \* collections/facts/: Returns with a CL
  copies,      \* collected/
  ticketLock,  \* flock of the Ticket
  packageLock, \* flock of a Return
  pc,
  op,          \* the call of a caller, or what it has left to do
  listing,     \* inbox files inspect has yet to read ...
  returns,     \* ... and what it read
  choice,      \* collected_return, or the return_id of collect
  frame,       \* the Ticket as read under its lock
  present,     \* history: what was held when the call began
  taken,       \* history: Returns a caller published the CL of
  crowded,     \* history: two callers have been collecting at once
  crashes

storeVars   == <<held, reserved, facts, copies>>
callVars    == <<op, listing, returns, choice, frame, present>>
historyVars == <<taken, crowded, crashes>>
vars ==
  <<ticket, storeVars, ticketLock, packageLock, pc, callVars, historyVars>>

Ticket == [named : Returns \cup {None}, abandoned : BOOLEAN]
Labels == {"ready", "take", "write", "inbox", "read", "decide", "lock",
           "reserve", "publish", "copy", "unlink", "answer"}

TypeOK ==
  /\ ticket \in Ticket
  /\ held \subseteq Returns /\ reserved \subseteq Returns
  /\ facts \subseteq Returns /\ copies \subseteq Returns
  /\ taken \subseteq Returns
  /\ ticketLock \in Callers \cup {None}
  /\ packageLock \in [Returns -> Callers \cup {None}]
  /\ pc \in [Callers -> Labels]
  /\ op \in [Callers -> Ops \cup {None}]
  /\ listing \in [Callers -> SUBSET Returns]
  /\ returns \in [Callers -> SUBSET Returns]
  /\ present \in [Callers -> SUBSET Returns]
  /\ choice \in [Callers -> Returns \cup {None}]
  /\ frame \in [Callers -> Ticket \cup {None}]
  /\ crowded \in BOOLEAN
  /\ crashes \in Nat

Init ==
  /\ ticket = [named |-> None, abandoned |-> FALSE]
  /\ held = {} /\ reserved = {} /\ facts = {} /\ copies = {}
  /\ ticketLock = None
  /\ packageLock = [r \in Returns |-> None]
  /\ pc = [c \in Callers |-> "ready"]
  /\ op = [c \in Callers |-> None]
  /\ listing = [c \in Callers |-> {}]
  /\ returns = [c \in Callers |-> {}]
  /\ choice = [c \in Callers |-> None]
  /\ frame = [c \in Callers |-> None]
  /\ present = [c \in Callers |-> {}]
  /\ taken = {} /\ crowded = FALSE /\ crashes = 0

Goto(w, label) == pc' = [pc EXCEPT ![w] = label]

\* A Return is accepted: AC and inbox entry.
Arrive(r) ==
  /\ r \notin held \cup facts
  /\ held' = held \cup {r}
  /\ UNCHANGED <<ticket, reserved, facts, copies, ticketLock, packageLock, pc,
                 callVars, historyVars>>

----------------------------------------------------------------------------
\* inspect, which collect begins with and abandon ends with.

Collecting == {c \in Callers : op[c] \in {"collect", "name", "confirm"}}

\* The Ticket is read under its lock, and let go.
Call(c, kind) ==
  /\ pc[c] = "ready"
  /\ ticketLock = None
  /\ op' = [op EXCEPT ![c] = kind]
  /\ choice' = [choice EXCEPT ![c] = ticket.named]
  /\ present' = [present EXCEPT ![c] = held]
  /\ crowded' = (crowded \/ (kind = "collect" /\ Collecting # {}))
  /\ Goto(c, "inbox")
  /\ UNCHANGED <<ticket, storeVars, ticketLock, packageLock, listing, returns,
                 frame, taken, crashes>>

\* The inspection that abandon ends with is a call of its own.
Abandon(c) ==
  /\ pc[c] = "ready"
  /\ op' = [op EXCEPT ![c] = "abandon"]
  /\ Goto(c, "take")
  /\ UNCHANGED <<ticket, storeVars, ticketLock, packageLock, listing, returns,
                 choice, frame, present, historyVars>>

ListInbox(c) ==
  /\ pc[c] = "inbox"
  /\ listing' = [listing EXCEPT ![c] = held]
  /\ Goto(c, "read")
  /\ UNCHANGED <<ticket, storeVars, ticketLock, packageLock, op, returns,
                 choice, frame, present, historyVars>>

\* A call is over, whatever it answers.
Rest(c) ==
  /\ Goto(c, "ready")
  /\ choice' = [choice EXCEPT ![c] = None]
  /\ op' = [op EXCEPT ![c] = None]
  /\ listing' = [listing EXCEPT ![c] = {}]
  /\ returns' = [returns EXCEPT ![c] = {}]
  /\ frame' = [frame EXCEPT ![c] = None]
  /\ present' = [present EXCEPT ![c] = {}]

\* A listed file that a collector unlinked meanwhile: read_text raises.
ReadReturn(c, r) ==
  /\ pc[c] = "read"
  /\ r \in listing[c]
  /\ IF r \in held
       THEN /\ listing' = [listing EXCEPT ![c] = @ \ {r}]
            /\ returns' = [returns EXCEPT ![c] = @ \cup {r}]
            /\ UNCHANGED <<pc, op, choice, frame, present>>
       ELSE Rest(c)
  /\ UNCHANGED <<ticket, storeVars, ticketLock, packageLock, historyVars>>

\* Mistake: a Return counts as collected only if the Ticket names it.
ListNoFacts(c) ==
  /\ pc[c] = "read"
  /\ listing[c] = {}
  /\ Goto(c, "decide")
  /\ UNCHANGED <<ticket, storeVars, ticketLock, packageLock, callVars,
                 historyVars>>

\* A Ticket that names no Return may have one all the same: the first CL fact
\* in the order of the directory.
ListFacts(c) ==
  /\ pc[c] = "read"
  /\ listing[c] = {}
  /\ \/ /\ choice[c] # None \/ facts = {}
        /\ UNCHANGED choice
     \/ /\ choice[c] = None
        /\ \E r \in facts : choice' = [choice EXCEPT ![c] = r]
  /\ Goto(c, "decide")
  /\ UNCHANGED <<ticket, storeVars, ticketLock, packageLock, op, listing,
                 returns, frame, present, historyVars>>

----------------------------------------------------------------------------
\* What the call does with it.

\* abandon and a Round end here; inspect records that it was called.
EndInspection(c) ==
  /\ pc[c] = "decide"
  /\ \/ op[c] # "collect"
     \/ choice[c] = None /\ returns[c] = {}
  /\ Rest(c)
  /\ UNCHANGED <<ticket, storeVars, ticketLock, packageLock, historyVars>>

\* Whatever it read is forgotten but for the Return it chose.
Proceed(c, task, r, label) ==
  /\ op' = [op EXCEPT ![c] = task]
  /\ choice' = [choice EXCEPT ![c] = r]
  /\ returns' = [returns EXCEPT ![c] = {}]
  /\ present' = [present EXCEPT ![c] = {}]
  /\ Goto(c, label)
  /\ UNCHANGED <<ticket, storeVars, ticketLock, packageLock, listing, frame,
                 historyVars>>

Record(c) ==
  /\ pc[c] = "decide"
  /\ op[c] = "inspect"
  /\ Proceed(c, "record", None, "take")

\* Mistake: whoever published the CL is trusted to have made the Host copy.
CollectAgainUnrepaired(c) ==
  /\ pc[c] = "decide"
  /\ op[c] = "collect"
  /\ choice[c] # None
  /\ Proceed(c, "confirm", choice[c], "take")

\* Collected before: the Host copy is repaired if it is missing.
CollectAgain(c) ==
  /\ pc[c] = "decide"
  /\ op[c] = "collect"
  /\ choice[c] # None
  /\ Proceed(c, "confirm", choice[c],
             IF choice[c] \in copies THEN "take" ELSE "lock")

\* The first Return held is collected.
CollectFirst(c) ==
  /\ pc[c] = "decide"
  /\ op[c] = "collect"
  /\ choice[c] = None
  /\ \E r \in returns[c] :
       /\ \A q \in returns[c] : r <= q
       /\ Proceed(c, "name", r, "lock")

----------------------------------------------------------------------------
\* collect_package (Collection models it whole).

LockPackage(c) ==
  /\ pc[c] = "lock"
  /\ packageLock[choice[c]] = None
  /\ packageLock' = [packageLock EXCEPT ![choice[c]] = c]
  /\ Goto(c, IF choice[c] \in facts THEN "copy" ELSE "reserve")
  /\ UNCHANGED <<ticket, storeVars, ticketLock, callVars, historyVars>>

Reserve(c) ==
  /\ pc[c] = "reserve"
  /\ reserved' = reserved \cup {choice[c]}
  /\ Goto(c, "publish")
  /\ UNCHANGED <<ticket, held, facts, copies, ticketLock, packageLock,
                 callVars, historyVars>>

Publish(c) ==
  /\ pc[c] = "publish"
  /\ facts' = facts \cup {choice[c]}
  /\ taken' = taken \cup {choice[c]}
  /\ Goto(c, "copy")
  /\ UNCHANGED <<ticket, held, reserved, copies, ticketLock, packageLock,
                 callVars, crowded, crashes>>

Copy(c) ==
  /\ pc[c] = "copy"
  /\ copies' = copies \cup {choice[c]}
  /\ reserved' = reserved \cup {choice[c]}
  /\ Goto(c, "unlink")
  /\ UNCHANGED <<ticket, held, facts, ticketLock, packageLock, callVars,
                 historyVars>>

Unlink(c) ==
  /\ pc[c] = "unlink"
  /\ held' = held \ {choice[c]}
  /\ packageLock' = [packageLock EXCEPT ![choice[c]] = None]
  /\ Goto(c, "take")
  /\ UNCHANGED <<ticket, reserved, facts, copies, ticketLock, callVars,
                 historyVars>>

\* A Host Runtime publishes the CL of a Return that nobody reserved ...
HostCollects(r) ==
  /\ r \in held \ reserved
  /\ packageLock[r] = None
  /\ reserved' = reserved \cup {r}
  /\ facts' = facts \cup {r}
  /\ UNCHANGED <<ticket, held, copies, ticketLock, packageLock, pc, callVars,
                 historyVars>>

\* ... and goes on, or dies and another recovers when it starts.
HostMaterializes(r) ==
  /\ r \in facts
  /\ r \in held \/ r \notin copies
  /\ packageLock[r] = None
  /\ copies' = copies \cup {r}
  /\ held' = held \ {r}
  /\ UNCHANGED <<ticket, reserved, facts, ticketLock, packageLock, pc,
                 callVars, historyVars>>

----------------------------------------------------------------------------
\* The Ticket is read, changed and replaced under its lock.

\* Mistake: the Ticket is read before it is locked.
TakeTicketUnlocked(c) ==
  /\ pc[c] = "take"
  /\ ticketLock' = c
  /\ frame' = [frame EXCEPT ![c] = ticket]
  /\ Goto(c, "write")
  /\ UNCHANGED <<ticket, storeVars, packageLock, op, listing, returns, choice,
                 present, historyVars>>

TakeTicket(c) ==
  /\ pc[c] = "take"
  /\ ticketLock = None
  /\ ticketLock' = c
  /\ frame' = [frame EXCEPT ![c] = ticket]
  /\ Goto(c, "write")
  /\ UNCHANGED <<ticket, storeVars, packageLock, op, listing, returns, choice,
                 present, historyVars>>

\* collect names its Return over any other, a repeated one if none is named.
Changed(c) ==
  [named |-> CASE op[c] = "name" -> choice[c]
               [] op[c] = "confirm" /\ frame[c].named = None -> choice[c]
               [] OTHER -> frame[c].named,
   abandoned |-> frame[c].abandoned \/ op[c] = "abandon"]

WriteTicket(c) ==
  /\ pc[c] = "write"
  /\ ticket' = Changed(c)
  /\ ticketLock' = None
  /\ IF op[c] \in {"record", "abandon"}
       THEN Rest(c)
       ELSE /\ frame' = [frame EXCEPT ![c] = None]
            /\ Goto(c, "answer")
            /\ UNCHANGED <<op, listing, returns, choice, present>>
  /\ UNCHANGED <<storeVars, packageLock, historyVars>>

\* The package of the answer is read from the Host copy.
AnswerCollection(c) ==
  /\ pc[c] = "answer"
  /\ Rest(c)
  /\ UNCHANGED <<ticket, storeVars, ticketLock, packageLock, historyVars>>

Crash(c) ==
  /\ pc[c] # "ready"
  /\ crashes < MaxCrashes
  /\ crashes' = crashes + 1
  /\ ticketLock' = IF ticketLock = c THEN None ELSE ticketLock
  /\ packageLock' = [r \in Returns |->
                       IF packageLock[r] = c THEN None ELSE packageLock[r]]
  /\ Rest(c)
  /\ UNCHANGED <<ticket, storeVars, taken, crowded>>

Next ==
  \/ \E r \in Returns : Arrive(r)
  \/ \E c \in Callers :
       \/ \E kind \in {"inspect", "collect"} : Call(c, kind)
       \/ Abandon(c) \/ ListInbox(c) \/ ListFacts(c) \/ EndInspection(c)
       \/ Record(c) \/ CollectAgain(c) \/ CollectFirst(c)
       \/ TakeTicket(c) \/ WriteTicket(c) \/ AnswerCollection(c)
       \/ \E r \in Returns : ReadReturn(c, r)
       \/ LockPackage(c) \/ Reserve(c) \/ Publish(c) \/ Copy(c) \/ Unlink(c)
       \/ Crash(c)
  \/ \E r \in Returns : HostCollects(r) \/ HostMaterializes(r)

Spec == Init /\ [][Next]_vars

----------------------------------------------------------------------------
(* Properties. *)

\* The Ticket names a Return only once it has a CL, and a repeated collection
\* finds the Host copy it reads (tickets.py collect), whoever died between the
\* CL, the copy and the Ticket.
NamedIsCollected ==
  /\ ticket.named # None => ticket.named \in facts
  /\ \A c \in Callers : pc[c] = "answer" => choice[c] \in copies

\* An inspection misses no Return that was held when it began, although it
\* leaves the inbox while the inbox and the facts are listed one after the
\* other (tickets.py inspect).
HeldIsReported ==
  \A c \in Callers :
    pc[c] = "decide" => present[c] \subseteq returns[c] \/ choice[c] # None

\* A call does the steps of its kind.
CallInv ==
  \A c \in Callers :
    /\ pc[c] = "ready" <=> op[c] = None
    /\ pc[c] \in {"inbox", "read", "decide"} =>
         op[c] \in {"inspect", "collect"}
    /\ pc[c] \in {"lock", "copy", "unlink", "answer"} =>
         op[c] \in {"name", "confirm"}
    /\ pc[c] \in {"reserve", "publish"} => op[c] = "name"
    /\ pc[c] \in {"take", "write"} =>
         op[c] \in {"record", "abandon", "name", "confirm"}
    /\ op[c] \in {"name", "confirm"} => choice[c] \in Returns

\* Nothing an inspection had in sight when it began is out of its sight.
InspectionInv ==
  \A c \in Callers :
    /\ pc[c] = "inbox" => present[c] \subseteq held \cup facts
    /\ pc[c] = "read" =>
         present[c] \subseteq returns[c] \cup listing[c] \cup facts
    /\ pc[c] \in {"inbox", "read", "decide"} =>
         choice[c] = None \/ choice[c] \in facts

\* What a collector chose: the lock, the CL and the copy are made in that
\* order, all before the Ticket is taken.
ChoiceInv ==
  \A c \in Callers :
    /\ pc[c] \in {"reserve", "publish", "copy", "unlink"} =>
         packageLock[choice[c]] = c
    /\ pc[c] \in {"copy", "unlink"} \/ op[c] = "confirm" => choice[c] \in facts
    /\ pc[c] = "unlink" => choice[c] \in copies
    /\ /\ pc[c] \in {"take", "write", "answer"}
       /\ op[c] \in {"name", "confirm"}
       => choice[c] \in facts \cap copies

\* Who replaces the Ticket holds its lock and has read what is there.
WriterInv ==
  \A c \in Callers :
    pc[c] = "write" => ticketLock = c /\ frame[c] = ticket

\* With one collector at a time, who is about to publish a CL saw no CL.
TurnInv ==
  /\ taken \subseteq facts
  /\ ~crowded =>
       /\ \A c, d \in Collecting : c = d
       /\ \A c \in Callers :
            \/ op[c] = "name" /\ pc[c] \in {"lock", "reserve", "publish"}
            \/ op[c] = "collect" /\ pc[c] = "decide" /\ choice[c] = None
            => taken = {}
       /\ \A r, q \in taken : r = q

\* What a Ticket and its inspections say is in the directory.
TicketInv ==
  /\ TypeOK
  /\ CallInv /\ InspectionInv /\ ChoiceInv /\ WriterInv
  /\ NamedIsCollected /\ HeldIsReported /\ TurnInv

\* README: "PORTER deterministically collects one and leaves the others
\* visible."
\* Collectors that come one after the other collect one Return, whatever else
\* arrived or was collected by a Host, and whoever died before it was named;
\* two at once may collect two.
OneReturnInTurn == crowded \/ Cardinality(taken) <= 1

\* An abandonment and a collected Return are never lost to somebody's record
\* of an event (tickets.py locked_ticket); the name may be replaced.
TicketOnlyGrows ==
  [][/\ ticket.abandoned => ticket'.abandoned
     /\ ticket.named # None => ticket'.named # None]_vars
===============================================================================
