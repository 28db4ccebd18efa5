------------------------------ MODULE Rendezvous ------------------------------
(***************************************************************************)
(* What a Porter knows of where its peers are: retained facts, each a      *)
(* signed successor of another one, and the volatile current location that *)
(* receive threads and the carry thread rebuild from them without a lock,  *)
(* while announcements arrive in any order, the clock moves and the Porter *)
(* dies.  Signatures are checked before anything here: every claim is one  *)
(* the peer's continuity authority made.                                   *)
(***************************************************************************)
EXTENDS Naturals, FiniteSets

CONSTANTS
  Peers,         \* Porter identities configured with a location
  Genesis,       \* the LOCAL_GENESIS fact of a peer
  Transitions,   \* RENDEZVOUS_TRANSITION claims of their authorities
  PorterOf,      \* the peer a fact is about
  PredecessorOf, \* the fact a transition succeeds
  GenerationOf,  \* the generation a fact names
  ActivatesAt,   \* when a fact activates
  Receivers,     \* receive threads
  Carrier,       \* the carry thread, and the constructor before it
  MaxTime,       \* bound: of the clock
  None           \* nothing known

Facts   == {Genesis[i] : i \in Peers} \cup Transitions
Threads == Receivers \cup {Carrier}

ASSUME RendezvousTypes ==
  /\ IsFiniteSet(Transitions) /\ Carrier \notin Receivers
  /\ Genesis \in [Peers -> Facts] /\ PorterOf \in [Facts -> Peers]
  /\ PredecessorOf \in [Transitions -> Facts]
  /\ GenerationOf \in [Facts -> Nat]
  /\ ActivatesAt \in [Facts -> Nat]
  /\ MaxTime \in Nat
  /\ None \notin Facts \cup Peers \cup Nat

ASSUME GenesisFacts ==
  /\ \A i \in Peers : /\ Genesis[i] \notin Transitions
                      /\ PorterOf[Genesis[i]] = i
                      /\ GenerationOf[Genesis[i]] = 0
                      /\ ActivatesAt[Genesis[i]] = 0
  /\ \A f \in Transitions : GenerationOf[f] > 0

VARIABLES
  facts,     \* rendezvous/facts/<rendezvous>.json
  current,   \* self.current: the location known of a peer, or None
  conflicts, \* self.conflicts: peers with contradictory successors
  next,      \* self.next_activation_ms, or None
  clock,     \* the time
  pc,        \* where each thread is
  errand,    \* what it is doing: a start, a claim, a frame or a route
  peer,      \* the peer its frame comes from or its route goes to
  claim,     \* the transition it accepts
  listing,   \* the facts its recover read
  pending,   \* the peers its recover has yet to rebuild
  seen       \* the location it read: in recover, or of its peer

memoryVars == <<current, conflicts, next>>
threadVars == <<pc, errand, peer, claim, listing, pending, seen>>
vars == <<facts, memoryVars, clock, threadVars>>

Goto(t, label) == pc' = [pc EXCEPT ![t] = label]

\* _facts, filtered to the successors of one: predecessor and generation.
Successors(S, f) ==
  {g \in S \cap Transitions : /\ PredecessorOf[g] = f
                              /\ GenerationOf[g] = GenerationOf[f] + 1}

\* Mistake: a future announcement is current at once.
EntersEarly(S, f, time) == Cardinality(Successors(S, f)) = 1

\* The one successor of f, once it is active, is walked to.
Enters(S, f, time) ==
  /\ Cardinality(Successors(S, f)) = 1
  /\ \A g \in Successors(S, f) : ActivatesAt[g] <= time

Labels ==
  {"down", "idle", "write", "reset", "list", "rebuild", "walk",
   "enter", "look", "judge"}

TypeOK ==
  /\ facts \subseteq Facts
  /\ current \in [Peers -> Facts \cup {None}]
  /\ conflicts \subseteq Peers
  /\ next \in Nat \cup {None}
  /\ clock \in Nat
  /\ pc \in [Threads -> Labels]
  /\ errand \in [Threads -> {"none", "start", "claim", "frame", "route"}]
  /\ peer \in [Threads -> Peers \cup {None}]
  /\ claim \in [Threads -> Transitions \cup {None}]
  /\ listing \in [Threads -> SUBSET Facts]
  /\ pending \in [Threads -> SUBSET Peers]
  /\ seen \in [Threads -> Facts \cup {None}]

\* The constructor writes the genesis of every configured peer, then recovers.
Init ==
  /\ facts = {Genesis[i] : i \in Peers}
  /\ current = [i \in Peers |-> None] /\ conflicts = {} /\ next = None
  /\ clock = 0
  /\ pc = [t \in Threads |-> IF t = Carrier THEN "reset" ELSE "down"]
  /\ errand = [t \in Threads |-> IF t = Carrier THEN "start" ELSE "none"]
  /\ peer = [t \in Threads |-> None] /\ claim = [t \in Threads |-> None]
  /\ listing = [t \in Threads |-> {}] /\ pending = [t \in Threads |-> {}]
  /\ seen = [t \in Threads |-> None]

----------------------------------------------------------------------------
\* recover: the memory is emptied and rebuilt from one listing of the facts.

Reset(t) ==
  /\ pc[t] = "reset"
  /\ current' = [i \in Peers |-> None] /\ conflicts' = {} /\ next' = None
  /\ Goto(t, "list")
  /\ UNCHANGED <<facts, clock, errand, peer, claim, listing, pending, seen>>

List(t) ==
  /\ pc[t] = "list"
  /\ listing' = [listing EXCEPT ![t] = facts]
  /\ pending' = [pending EXCEPT ![t] = Peers]
  /\ Goto(t, "rebuild")
  /\ UNCHANGED <<facts, memoryVars, clock, errand, peer, claim, seen>>

\* One peer, from its genesis ...
Rebuild(t, i) ==
  /\ pc[t] = "rebuild"
  /\ i \in pending[t]
  /\ pending' = [pending EXCEPT ![t] = @ \ {i}]
  /\ seen' = [seen EXCEPT ![t] = Genesis[i]]
  /\ Goto(t, "walk")
  /\ UNCHANGED <<facts, memoryVars, clock, errand, peer, claim, listing>>

\* ... from successor to successor ...
WalkOn(t) ==
  /\ pc[t] = "walk"
  /\ Enters(listing[t], seen[t], clock)
  /\ seen' = [seen EXCEPT ![t] =
                 CHOOSE g \in Successors(listing[t], seen[t]) : TRUE]
  /\ UNCHANGED <<facts, memoryVars, clock, pc, errand, peer, claim, listing,
                 pending>>

\* ... until there is none, or two, or one that activates later ...
Stop(t) ==
  LET after == Successors(listing[t], seen[t])
      times == IF Cardinality(after) = 1 THEN {ActivatesAt[g] : g \in after}
               ELSE {}
  IN /\ pc[t] = "walk"
     /\ ~Enters(listing[t], seen[t], clock)
     /\ conflicts' = IF Cardinality(after) > 1
                     THEN conflicts \cup {PorterOf[seen[t]]} ELSE conflicts
     /\ next' = IF \E time \in times : next = None \/ time < next
                THEN CHOOSE time \in times : TRUE ELSE next
     /\ Goto(t, "enter")
     /\ UNCHANGED <<facts, current, clock, errand, peer, claim, listing,
                    pending, seen>>

\* ... and then the location it stopped at.
Enter(t) ==
  /\ pc[t] = "enter"
  /\ current' = [current EXCEPT ![PorterOf[seen[t]]] = seen[t]]
  /\ seen' = [seen EXCEPT ![t] = None]
  /\ Goto(t, "rebuild")
  /\ UNCHANGED <<facts, conflicts, next, clock, errand, peer, claim, listing,
                 pending>>

\* recover returns; after the constructor's the threads of the Porter start.
Recovered(t) ==
  /\ pc[t] = "rebuild"
  /\ pending[t] = {}
  /\ listing' = [listing EXCEPT ![t] = {}]
  /\ CASE errand[t] = "start" ->
            /\ pc' = [s \in Threads |-> "idle"]
            /\ errand' = [errand EXCEPT ![t] = "none"]
            /\ UNCHANGED claim
       [] errand[t] = "claim" ->
            /\ Goto(t, "idle")
            /\ errand' = [errand EXCEPT ![t] = "none"]
            /\ claim' = [claim EXCEPT ![t] = None]
       [] OTHER -> Goto(t, "look") /\ UNCHANGED <<errand, claim>>
  /\ UNCHANGED <<facts, memoryVars, clock, peer, pending, seen>>

RecoverStep(t) ==
  \/ Reset(t) \/ List(t) \/ WalkOn(t) \/ Stop(t) \/ Enter(t)
  \/ Recovered(t)
  \/ \E i \in Peers : Rebuild(t, i)

----------------------------------------------------------------------------
\* accept, by a receive thread.

\* Not a repetition, and its predecessor known with the generation before it.
Admissible(f) ==
  /\ f \notin facts
  /\ PredecessorOf[f] \in facts
  /\ PorterOf[PredecessorOf[f]] = PorterOf[f]
  /\ GenerationOf[f] = GenerationOf[PredecessorOf[f]] + 1

\* A claim that is not admissible ends here: it changes nothing.
BeginAccept(t, f) ==
  /\ pc[t] = "idle"
  /\ Admissible(f)
  /\ claim' = [claim EXCEPT ![t] = f]
  /\ errand' = [errand EXCEPT ![t] = "claim"]
  /\ Goto(t, "write")
  /\ UNCHANGED <<facts, memoryVars, clock, peer, listing, pending, seen>>

\* Mistake: the fact is retained and the memory left as it is.
RetainSilently(t) ==
  /\ pc[t] = "write"
  /\ facts' = facts \cup {claim[t]}
  /\ claim' = [claim EXCEPT ![t] = None]
  /\ errand' = [errand EXCEPT ![t] = "none"]
  /\ Goto(t, "idle")
  /\ UNCHANGED <<memoryVars, clock, peer, listing, pending, seen>>

Retain(t) ==
  /\ pc[t] = "write"
  /\ facts' = facts \cup {claim[t]}
  /\ Goto(t, "reset")
  /\ UNCHANGED <<memoryVars, clock, errand, peer, claim, listing, pending,
                 seen>>

----------------------------------------------------------------------------
\* What the knowledge is for.

\* Mistake: recover only when an announced activation has passed, as route.
BeginOpenAsKnown(t, i) ==
  /\ pc[t] = "idle"
  /\ errand' = [errand EXCEPT ![t] = "frame"]
  /\ peer' = [peer EXCEPT ![t] = i]
  /\ Goto(t, IF next # None /\ clock >= next THEN "reset" ELSE "look")
  /\ UNCHANGED <<facts, memoryVars, clock, claim, listing, pending, seen>>

\* A protected frame of peer i: recover, then the key of its sender.
BeginOpen(t, i) ==
  /\ pc[t] = "idle"
  /\ errand' = [errand EXCEPT ![t] = "frame"]
  /\ peer' = [peer EXCEPT ![t] = i]
  /\ Goto(t, "reset")
  /\ UNCHANGED <<facts, memoryVars, clock, claim, listing, pending, seen>>

\* route, which recovers first when an announced activation has passed.
BeginRoute(i) ==
  /\ pc[Carrier] = "idle"
  /\ errand' = [errand EXCEPT ![Carrier] = "route"]
  /\ peer' = [peer EXCEPT ![Carrier] = i]
  /\ Goto(Carrier, IF next # None /\ clock >= next THEN "reset" ELSE "look")
  /\ UNCHANGED <<facts, memoryVars, clock, claim, listing, pending, seen>>

\* status: the location is read ...
Look(t) ==
  /\ pc[t] = "look"
  /\ seen' = [seen EXCEPT ![t] = current[peer[t]]]
  /\ Goto(t, "judge")
  /\ UNCHANGED <<facts, memoryVars, clock, errand, peer, claim, listing,
                 pending>>

\* ... and the frame opened, or the Unit sent, unless a conflict or its expiry
\* forbids it.
Judge(t) ==
  /\ pc[t] = "judge"
  /\ seen' = [seen EXCEPT ![t] = None]
  /\ peer' = [peer EXCEPT ![t] = None]
  /\ errand' = [errand EXCEPT ![t] = "none"]
  /\ Goto(t, "idle")
  /\ UNCHANGED <<facts, memoryVars, clock, claim, listing, pending>>

----------------------------------------------------------------------------
Tick ==
  /\ clock < MaxTime
  /\ clock' = clock + 1
  /\ UNCHANGED <<facts, memoryVars, threadVars>>

Crash ==
  /\ current' = [i \in Peers |-> None] /\ conflicts' = {} /\ next' = None
  /\ pc' = [t \in Threads |-> IF t = Carrier THEN "reset" ELSE "down"]
  /\ errand' = [t \in Threads |-> IF t = Carrier THEN "start" ELSE "none"]
  /\ peer' = [t \in Threads |-> None] /\ claim' = [t \in Threads |-> None]
  /\ listing' = [t \in Threads |-> {}] /\ pending' = [t \in Threads |-> {}]
  /\ seen' = [t \in Threads |-> None]
  /\ UNCHANGED <<facts, clock>>

Proceed(t) == RecoverStep(t) \/ Retain(t) \/ Look(t) \/ Judge(t)

Next ==
  \/ \E t \in Threads : Proceed(t)
  \/ \E t \in Receivers : \E f \in Transitions : BeginAccept(t, f)
  \/ \E t \in Receivers : \E i \in Peers : BeginOpen(t, i)
  \/ \E i \in Peers : BeginRoute(i)
  \/ Tick \/ Crash

Spec == Init /\ [][Next]_vars

\* Threads run, time passes, and frames of every peer keep arriving.
FairSpec ==
  /\ Spec
  /\ \A t \in Threads : WF_vars(Proceed(t))
  /\ \A i \in Peers : SF_vars(\E t \in Receivers : BeginOpen(t, i))
  /\ WF_vars(Tick)

----------------------------------------------------------------------------
(* Properties. *)

\* A location that is known, or about to be used, is a retained fact of that
\* very peer whose activation has passed, and every retained fact continues a
\* retained one by one generation, in whatever order claims arrive and threads
\* rebuild (rendezvous.py accept and recover).
Proven(i, f) == f \in facts /\ PorterOf[f] = i /\ ActivatesAt[f] <= clock

Linked(f) ==
  /\ PredecessorOf[f] \in facts
  /\ PorterOf[PredecessorOf[f]] = PorterOf[f]
  /\ GenerationOf[f] = GenerationOf[PredecessorOf[f]] + 1

\* What a thread is about, by where it is.
Bound(t) ==
  /\ listing[t] \subseteq facts
  /\ pc[t] \notin {"down", "idle"} => errand[t] # "none"
  /\ errand[t] \in {"frame", "route"} => peer[t] # None
  /\ pc[t] \in {"look", "judge"} => errand[t] \in {"frame", "route"}
  /\ pc[t] = "write" => claim[t] # None /\ Linked(claim[t])
  /\ pc[t] \in {"walk", "enter"} => Proven(PorterOf[seen[t]], seen[t])
  /\ pc[t] = "judge" /\ seen[t] # None => Proven(peer[t], seen[t])

RendezvousInv ==
  /\ TypeOK
  /\ \A i \in Peers : Genesis[i] \in facts
  /\ \A f \in facts \cap Transitions : Linked(f)
  /\ \A i \in Peers : current[i] # None => Proven(i, current[i])
  /\ \A t \in Threads : Bound(t)

\* A walk over the facts S from f ends at contradictory successors: so does the
\* least set that has f and, with a fact, the successor it is left for.
Forked(f, S, time) ==
  \A W \in SUBSET (S \cup {f}) :
    /\ f \in W
    /\ \A g \in W : Enters(S, g, time) => Successors(S, g) \subseteq W
    => \E g \in W : Cardinality(Successors(S, g)) > 1

\* RENDEZVOUS-CONTINUITY.md: on two valid successors "carriage is suspended".
\* recover empties the conflicts while other threads route, but whoever emptied
\* them enters them again: with every thread at rest a fork is known.
ForkSuspends ==
  (\A t \in Threads : pc[t] = "idle") =>
    \A i \in Peers : Forked(Genesis[i], facts, 0) => i \in conflicts

\* What is retained of a peer is known again and again, its latest movement
\* once it is active, unless its authority contradicted itself: through crashes
\* after the fact, a recover of another thread that empties or replaces the
\* memory with an older location, and an activation in between.
Overtaken(f) ==
  LET i == PorterOf[f] IN
  \/ ActivatesAt[f] > clock
  \/ current[i] # None /\ GenerationOf[current[i]] >= GenerationOf[f]

MovementIsKnown ==
  <>[][~Crash]_vars =>
    \A i \in Peers :
      []<>(\/ \A f \in facts \cap Transitions : PorterOf[f] = i => Overtaken(f)
           \/ Forked(Genesis[i], facts, clock))
===============================================================================
