--------------------------- MODULE RendezvousProofs ---------------------------
(***************************************************************************)
(* RendezvousInv holds for any number of peers, transitions and threads:   *)
(* what is known of a peer, or about to be used, is a retained fact of it  *)
(* that is active and linked to its genesis.                               *)
(***************************************************************************)
EXTENDS Rendezvous, FiniteSetTheorems, TLAPS

\* A set with one element is not empty.
LEMMA OneIsSome ==
  ASSUME NEW S, Cardinality(S) = 1
  PROVE  S # {}
BY FS_EmptySet

\* The successor that the walk enters is a retained fact of the same peer.
LEMMA EnteredIsProven ==
  ASSUME RendezvousInv, NEW t \in Threads,
         Proven(PorterOf[seen[t]], seen[t]), Enters(listing[t], seen[t], clock)
  PROVE  LET g == CHOOSE g \in Successors(listing[t], seen[t]) : TRUE
         IN g \in Transitions /\ Proven(PorterOf[g], g)
<1> DEFINE S == Successors(listing[t], seen[t])
<1> DEFINE g == CHOOSE h \in S : TRUE
<1>1. g \in S
  BY OneIsSome DEF Enters
<1>2. g \in facts \cap Transitions
  BY <1>1 DEF Successors, RendezvousInv, Bound
<1>3. ActivatesAt[g] <= clock
  BY <1>1 DEF Enters
<1> QED
  BY <1>2, <1>3 DEF Proven

\* The successor announced for later activates at some time.
LEMMA NextIsTime ==
  ASSUME RendezvousInv, NEW t \in Threads, Stop(t)
  PROVE  next' \in Nat \cup {None}
<1> DEFINE after == Successors(listing[t], seen[t])
           times == IF Cardinality(after) = 1 THEN {ActivatesAt[g] : g \in after}
                    ELSE {}
<1>1. times \subseteq Nat
  BY RendezvousTypes DEF Successors, Facts
<1>2. next' = IF \E time \in times : next = None \/ time < next
              THEN CHOOSE time \in times : TRUE ELSE next
  BY DEF Stop
<1> HIDE DEF times
<1> QED
  BY <1>1, <1>2 DEF RendezvousInv, TypeOK

\* Facts are only added: what is linked or proven stays so, as time passes.
LEMMA ProvenIsStable ==
  ASSUME RendezvousInv, facts \subseteq facts', clock' \in Nat, clock <= clock'
  PROVE  /\ \A i, f : Proven(i, f) => Proven(i, f)'
         /\ \A f \in Transitions : Linked(f) => Linked(f)'
<1> SUFFICES ASSUME NEW i, NEW f, Proven(i, f)
             PROVE  Proven(i, f)'
  BY DEF Linked
<1>1. f \in Facts
  BY DEF Proven, RendezvousInv, TypeOK
<1>2. ActivatesAt[f] \in Nat /\ clock \in Nat
  BY <1>1, RendezvousTypes DEF RendezvousInv, TypeOK
<1> QED
  BY <1>2 DEF Proven

LEMMA InitInv == Init => RendezvousInv
<1> SUFFICES ASSUME Init PROVE RendezvousInv
  OBVIOUS
<1> USE RendezvousTypes
<1>1. TypeOK
  BY DEF Init, TypeOK, Facts, Threads, Labels
<1>2. \A f \in facts \cap Transitions : FALSE
  BY GenesisFacts DEF Init
<1>3. \A t \in Threads : Bound(t)
  BY DEF Init, Bound, Threads
<1> QED
  BY <1>1, <1>2, <1>3 DEF Init, RendezvousInv

\* Every action preserves the types.
LEMMA StepType ==
  ASSUME RendezvousInv, Next
  PROVE  TypeOK'
<1> USE RendezvousTypes
<1>0. TypeOK
  BY DEF RendezvousInv
<1>1. ASSUME NEW t \in Threads, Reset(t) \/ List(t)
      PROVE  TypeOK'
  <2>1. CASE Reset(t)
    BY <1>0, <2>1 DEF Reset, TypeOK, Goto, Labels
  <2>2. CASE List(t)
    BY <1>0, <2>2 DEF List, TypeOK, Goto, Labels, memoryVars
  <2> QED
    BY <1>1, <2>1, <2>2
<1>2. ASSUME NEW t \in Threads, NEW i \in Peers, Rebuild(t, i)
      PROVE  TypeOK'
  BY <1>0, <1>2 DEF Rebuild, TypeOK, Goto, Labels, memoryVars, Facts
<1>3. ASSUME NEW t \in Threads, WalkOn(t)
      PROVE  TypeOK'
  <2>1. Proven(PorterOf[seen[t]], seen[t])
    BY <1>3 DEF WalkOn, RendezvousInv, Bound
  <2>2. (CHOOSE g \in Successors(listing[t], seen[t]) : TRUE) \in Transitions
    BY <1>3, <2>1, EnteredIsProven DEF WalkOn
  <2> QED
    BY <1>0, <1>3, <2>2 DEF WalkOn, TypeOK, memoryVars, Facts
<1>4. ASSUME NEW t \in Threads, Stop(t)
      PROVE  TypeOK'
  <2>1. Proven(PorterOf[seen[t]], seen[t])
    BY <1>4 DEF Stop, RendezvousInv, Bound
  <2>2. PorterOf[seen[t]] \in Peers
    BY <1>0, <2>1 DEF Proven, TypeOK
  <2>3. next' \in Nat \cup {None}
    BY <1>4, NextIsTime
  <2>4. conflicts' \subseteq Peers
    BY <1>0, <1>4, <2>2 DEF Stop, TypeOK
  <2> QED
    BY <1>0, <1>4, <2>3, <2>4 DEF Stop, TypeOK, Goto, Labels
<1>5. ASSUME NEW t \in Threads, Enter(t)
      PROVE  TypeOK'
  <2>1. seen[t] \in Facts
    BY <1>0, <1>5 DEF Enter, RendezvousInv, Bound, Proven, TypeOK
  <2> QED
    BY <1>0, <1>5, <2>1 DEF Enter, TypeOK, Goto, Labels
<1>6. ASSUME NEW t \in Threads, Recovered(t)
      PROVE  TypeOK'
  <2>1. CASE errand[t] = "start"
    BY <1>0, <1>6, <2>1 DEF Recovered, TypeOK, Goto, Labels, memoryVars
  <2>2. CASE errand[t] = "claim"
    BY <1>0, <1>6, <2>2 DEF Recovered, TypeOK, Goto, Labels, memoryVars
  <2>3. CASE errand[t] \notin {"start", "claim"}
    BY <1>0, <1>6, <2>3 DEF Recovered, TypeOK, Goto, Labels, memoryVars
  <2> QED
    BY <2>1, <2>2, <2>3
<1>7. ASSUME NEW t \in Threads, Retain(t) \/ Look(t) \/ Judge(t)
      PROVE  TypeOK'
  <2>1. CASE Retain(t)
    BY <1>0, <2>1 DEF Retain, TypeOK, Goto, Labels, memoryVars, RendezvousInv,
                      Bound, Facts
  <2>2. CASE Look(t)
    BY <1>0, <2>2 DEF Look, TypeOK, Goto, Labels, memoryVars, RendezvousInv,
                      Bound
  <2>3. CASE Judge(t)
    BY <1>0, <2>3 DEF Judge, TypeOK, Goto, Labels, memoryVars
  <2> QED
    BY <1>7, <2>1, <2>2, <2>3
<1>8. ASSUME NEW t \in Receivers, NEW f \in Transitions, BeginAccept(t, f)
      PROVE  TypeOK'
  BY <1>0, <1>8 DEF BeginAccept, TypeOK, Goto, Labels, memoryVars, Threads
<1>9. ASSUME NEW t \in Receivers, NEW i \in Peers, BeginOpen(t, i)
      PROVE  TypeOK'
  BY <1>0, <1>9 DEF BeginOpen, TypeOK, Goto, Labels, memoryVars, Threads
<1>10. ASSUME NEW i \in Peers, BeginRoute(i)
       PROVE  TypeOK'
  BY <1>0, <1>10 DEF BeginRoute, TypeOK, Goto, Labels, memoryVars, Threads
<1>11. CASE Tick
  BY <1>0, <1>11 DEF Tick, TypeOK, memoryVars, threadVars
<1>12. CASE Crash
  BY <1>0, <1>12 DEF Crash, TypeOK, Labels, Threads
<1> QED
  BY <1>1, <1>2, <1>3, <1>4, <1>5, <1>6, <1>7, <1>8, <1>9, <1>10, <1>11, <1>12
     DEF Next, Proceed, RecoverStep

\* Facts are only added and the clock does not go back.
LEMMA Monotone ==
  ASSUME RendezvousInv, Next
  PROVE  facts \subseteq facts' /\ clock' \in Nat /\ clock <= clock'
<1> SUFFICES facts \subseteq facts' /\ (clock' = clock \/ clock' = clock + 1)
  BY DEF RendezvousInv, TypeOK
<1> QED
  BY DEF Next, Proceed, RecoverStep, Reset, List, Rebuild, WalkOn, Stop, Enter,
         Recovered, Retain, Look, Judge, BeginAccept, BeginOpen, BeginRoute,
         Tick, Crash

LEMMA StepLinked ==
  ASSUME RendezvousInv, Next
  PROVE  \A f \in facts' \cap Transitions : Linked(f)'
<1>1. \A f \in Transitions : Linked(f) => Linked(f)'
  BY Monotone, ProvenIsStable
<1>2. ASSUME NEW t \in Threads, Retain(t)
      PROVE  \A f \in facts' \ facts : f \in Transitions => Linked(f)
  BY <1>2 DEF Retain, RendezvousInv, Bound
<1>3. facts' = facts \/ \E t \in Threads : Retain(t)
  BY DEF Next, Proceed, RecoverStep, Reset, List, Rebuild, WalkOn, Stop, Enter,
         Recovered, Look, Judge, BeginAccept, BeginOpen, BeginRoute, Tick, Crash
<1> QED
  BY <1>1, <1>2, <1>3 DEF RendezvousInv

LEMMA StepCurrent ==
  ASSUME RendezvousInv, Next, NEW i \in Peers, current'[i] # None
  PROVE  Proven(i, current[i])'
<1>1. current'[i] = current[i] \/ \E t \in Threads : Enter(t)
                                     /\ PorterOf[seen[t]] = i
                                     /\ current'[i] = seen[t]
  BY RendezvousTypes
     DEF Next, Proceed, RecoverStep, Reset, List, Rebuild, WalkOn, Stop, Enter,
         Recovered, Retain, Look, Judge, BeginAccept, BeginOpen, BeginRoute,
         Tick, Crash, memoryVars, RendezvousInv, TypeOK
<1>2. CASE current'[i] = current[i]
  BY <1>2, Monotone, ProvenIsStable DEF RendezvousInv, Proven
<1>3. ASSUME NEW t \in Threads, Enter(t), PorterOf[seen[t]] = i,
             current'[i] = seen[t]
      PROVE  Proven(i, current[i])'
  <2>1. Proven(i, seen[t])
    BY <1>3 DEF Enter, RendezvousInv, Bound
  <2> QED
    BY <1>3, <2>1, Monotone, ProvenIsStable DEF Proven
<1> QED
  BY <1>1, <1>2, <1>3

\* A thread that does not move keeps its bounds.
LEMMA BoundKept ==
  ASSUME RendezvousInv, Next, NEW s \in Threads,
         pc'[s] = pc[s], errand'[s] = errand[s], peer'[s] = peer[s],
         claim'[s] = claim[s], listing'[s] = listing[s], seen'[s] = seen[s]
  PROVE  Bound(s)'
<1>1. Bound(s) /\ TypeOK
  BY DEF RendezvousInv
<1>2. /\ \A i, f : Proven(i, f) => Proven(i, f)'
      /\ \A f \in Transitions : Linked(f) => Linked(f)'
      /\ facts \subseteq facts'
  BY Monotone, ProvenIsStable
<1>3. pc[s] = "write" => claim[s] # None /\ Linked(claim[s])'
  BY <1>1, <1>2 DEF Bound, TypeOK
<1>4. pc[s] \in {"walk", "enter"} => Proven(PorterOf[seen[s]], seen[s])'
  BY <1>1, <1>2 DEF Bound
<1>5. pc[s] = "judge" /\ seen[s] # None => Proven(peer[s], seen[s])'
  BY <1>1, <1>2 DEF Bound
<1>6. /\ (pc[s] = "write" => claim[s] # None /\ Linked(claim[s]))'
      /\ (pc[s] \in {"walk", "enter"} => Proven(PorterOf[seen[s]], seen[s]))'
      /\ (pc[s] = "judge" /\ seen[s] # None => Proven(peer[s], seen[s]))'
  BY <1>3, <1>4, <1>5 DEF Linked, Proven
<1> QED
  BY <1>1, <1>2, <1>6 DEF Bound

\* The thread of a step of its own: what it comes to know is proven.
LEMMA OwnBound ==
  ASSUME RendezvousInv, Next, NEW t \in Threads,
         \/ Proceed(t) /\ ~(Recovered(t) /\ errand[t] = "start")
         \/ t \in Receivers /\ \E f \in Transitions : BeginAccept(t, f)
         \/ t \in Receivers /\ \E i \in Peers : BeginOpen(t, i)
         \/ t = Carrier /\ \E i \in Peers : BeginRoute(i)
  PROVE  Bound(t)'
<1> USE RendezvousTypes
<1>1. Bound(t) /\ TypeOK
  BY DEF RendezvousInv
<1>2. CASE Reset(t)
  BY <1>1, <1>2 DEF Reset, Goto, TypeOK, Bound
<1>3. CASE List(t)
  BY <1>1, <1>3 DEF List, Goto, TypeOK, Bound
<1>4. ASSUME NEW i \in Peers, Rebuild(t, i)
      PROVE  Bound(t)'
  <2>1. Proven(PorterOf[Genesis[i]], Genesis[i])'
    BY <1>4, GenesisFacts DEF Rebuild, Proven, RendezvousInv, TypeOK
  <2>2. seen'[t] = Genesis[i]
    BY <1>1, <1>4 DEF Rebuild, TypeOK
  <2> QED
    BY <1>1, <1>4, <2>1, <2>2 DEF Rebuild, Goto, TypeOK, Bound, Proven
<1>5. CASE WalkOn(t)
  <2>1. Proven(PorterOf[seen[t]], seen[t])
    BY <1>1, <1>5 DEF WalkOn, Bound
  <2> DEFINE g == CHOOSE h \in Successors(listing[t], seen[t]) : TRUE
  <2>2. seen'[t] = g
    BY <1>1, <1>5 DEF WalkOn, TypeOK
  <2>3. g \in Transitions /\ Proven(PorterOf[g], g)
    BY <1>5, <2>1, EnteredIsProven DEF WalkOn
  <2> HIDE DEF g
  <2> QED
    BY <1>1, <1>5, <2>2, <2>3 DEF WalkOn, TypeOK, Bound, Proven
<1>6. CASE Stop(t)
  BY <1>1, <1>6 DEF Stop, Goto, TypeOK, Bound, Proven
<1>7. CASE Enter(t)
  BY <1>1, <1>7 DEF Enter, Goto, TypeOK, Bound
<1>8. CASE Recovered(t) /\ errand[t] # "start"
  <2>1. CASE errand[t] = "claim"
    BY <1>1, <1>8, <2>1 DEF Recovered, Goto, TypeOK, Bound
  <2>2. CASE errand[t] # "claim"
    BY <1>1, <1>8, <2>2 DEF Recovered, Goto, TypeOK, Bound
  <2> QED
    BY <2>1, <2>2
<1>9. CASE Retain(t)
  BY <1>1, <1>9 DEF Retain, Goto, TypeOK, Bound
<1>10. CASE Look(t)
  <2>1. peer[t] \in Peers /\ seen'[t] = current[peer[t]]
    BY <1>1, <1>10 DEF Look, TypeOK, Bound
  <2>2. seen'[t] # None => Proven(peer[t], seen'[t])
    BY <2>1 DEF RendezvousInv
  <2> QED
    BY <1>1, <1>10, <2>2 DEF Look, Goto, TypeOK, Bound, Proven
<1>11. CASE Judge(t)
  BY <1>1, <1>11 DEF Judge, Goto, TypeOK, Bound
<1>12. ASSUME NEW f \in Transitions, BeginAccept(t, f)
       PROVE  Bound(t)'
  <2>1. Linked(f)'
    BY <1>12 DEF BeginAccept, Admissible, Linked
  <2>2. claim'[t] = f /\ f # None
    BY <1>1, <1>12 DEF BeginAccept, TypeOK, Facts
  <2> QED
    BY <1>1, <1>12, <2>1, <2>2 DEF BeginAccept, Goto, TypeOK, Bound, Linked
<1>13. ASSUME NEW i \in Peers, BeginOpen(t, i)
       PROVE  Bound(t)'
  BY <1>1, <1>13 DEF BeginOpen, Goto, TypeOK, Bound
<1>14. ASSUME NEW i \in Peers, t = Carrier, BeginRoute(i)
       PROVE  Bound(t)'
  BY <1>1, <1>14 DEF BeginRoute, Goto, TypeOK, Bound
<1> QED
  BY <1>2, <1>3, <1>4, <1>5, <1>6, <1>7, <1>8, <1>9, <1>10, <1>11, <1>12,
     <1>13, <1>14 DEF Proceed, RecoverStep

\* Every step leaves every thread within its bounds: the one that moves gets
\* new ones, the others keep theirs.
LEMMA StepBound ==
  ASSUME RendezvousInv, Next, NEW s \in Threads
  PROVE  Bound(s)'
<1> USE RendezvousTypes
<1>0. TypeOK
  BY DEF RendezvousInv
<1>1. CASE \/ Proceed(s) /\ ~(Recovered(s) /\ errand[s] = "start")
           \/ s \in Receivers /\ \E f \in Transitions : BeginAccept(s, f)
           \/ s \in Receivers /\ \E i \in Peers : BeginOpen(s, i)
           \/ s = Carrier /\ \E i \in Peers : BeginRoute(i)
  BY <1>1, OwnBound
<1>2. ASSUME NEW t \in Threads, Recovered(t), errand[t] = "start"
      PROVE  Bound(s)'
  BY <1>0, <1>2 DEF Recovered, RendezvousInv, TypeOK, Bound
<1>3. CASE Crash
  BY <1>3 DEF Crash, Bound, Threads
<1>4. ASSUME NEW t \in Threads, t # s, Proceed(t),
             ~(Recovered(t) /\ errand[t] = "start")
      PROVE  Bound(s)'
  <2>1. /\ pc'[s] = pc[s] /\ errand'[s] = errand[s] /\ peer'[s] = peer[s]
        /\ claim'[s] = claim[s] /\ listing'[s] = listing[s]
        /\ seen'[s] = seen[s]
    BY <1>0, <1>4 DEF Proceed, RecoverStep, Reset, List, Rebuild, WalkOn,
       Stop, Enter, Recovered, Retain, Look, Judge, Goto, TypeOK
  <2> QED
    BY <2>1, BoundKept
<1>5. ASSUME NEW t \in Threads, t # s,
             \/ \E f \in Transitions : BeginAccept(t, f)
             \/ \E i \in Peers : BeginOpen(t, i)
             \/ t = Carrier /\ \E i \in Peers : BeginRoute(i)
      PROVE  Bound(s)'
  <2>1. /\ pc'[s] = pc[s] /\ errand'[s] = errand[s] /\ peer'[s] = peer[s]
        /\ claim'[s] = claim[s] /\ listing'[s] = listing[s]
        /\ seen'[s] = seen[s]
    BY <1>0, <1>5 DEF BeginAccept, BeginOpen, BeginRoute, Goto, TypeOK
  <2> QED
    BY <2>1, BoundKept
<1>6. CASE Tick
  BY <1>6, BoundKept DEF Tick, threadVars
<1> QED
  BY <1>1, <1>2, <1>3, <1>4, <1>5, <1>6 DEF Next, Threads

\* Of every peer, what is retained, known and about to be used is proven, in
\* every reachable state (rendezvous.py accept, recover, status and route).
THEOREM RendezvousInvariant == Spec => []RendezvousInv
<1>1. RendezvousInv /\ Next => RendezvousInv'
  <2> SUFFICES ASSUME RendezvousInv, Next
               PROVE  RendezvousInv'
    OBVIOUS
  <2>1. \A i \in Peers : Genesis[i] \in facts'
    BY Monotone DEF RendezvousInv
  <2>2. \A i \in Peers : current'[i] # None => Proven(i, current[i])'
    BY StepCurrent
  <2> QED
    BY <2>1, <2>2, StepType, StepLinked, StepBound DEF RendezvousInv
<1>2. RendezvousInv /\ UNCHANGED vars => RendezvousInv'
  BY DEF vars, memoryVars, threadVars, RendezvousInv, TypeOK, Linked, Proven,
         Bound
<1> QED
  BY InitInv, <1>1, <1>2, PTL DEF Spec

----------------------------------------------------------------------------
(* A fork is known, or about to be. *)

\* A fork remains one when facts are added, as one further on may not.
LEMMA ForkGrows ==
  ASSUME NEW S \in SUBSET Facts, NEW T \in SUBSET Facts, S \subseteq T,
         NEW f \in Facts, NEW time, Forked(f, S, time)
  PROVE  Forked(f, T, time)
<1> SUFFICES ASSUME NEW W \in SUBSET (T \cup {f}), f \in W,
                    \A g \in W : Enters(T, g, time) => Successors(T, g) \subseteq W,
                    \A g \in W : ~(Cardinality(Successors(T, g)) > 1)
             PROVE  FALSE
  BY DEF Forked
<1>0. ASSUME NEW g
      PROVE  /\ IsFiniteSet(Successors(S, g)) /\ IsFiniteSet(Successors(T, g))
             /\ Cardinality(Successors(S, g)) \in Nat
             /\ Cardinality(Successors(T, g)) \in Nat
             /\ Successors(S, g) \subseteq Successors(T, g)
             /\ Cardinality(Successors(S, g)) <= Cardinality(Successors(T, g))
  <2>1. Successors(S, g) \subseteq Successors(T, g)
    BY DEF Successors
  <2>2. Successors(T, g) \subseteq Transitions
    BY DEF Successors
  <2>3. IsFiniteSet(Successors(T, g))
    BY <2>2, RendezvousTypes, FS_Subset
  <2> QED
    BY <2>1, <2>3, FS_Subset, FS_CardinalityType
<1> DEFINE V == W \cap (S \cup {f})
<1>1. ASSUME NEW g \in V, Enters(S, g, time)
      PROVE  Successors(S, g) \subseteq V
  <2>1. Cardinality(Successors(S, g)) = 1
    BY <1>1 DEF Enters
  <2>2. Cardinality(Successors(T, g)) = 1
    BY <1>0, <2>1
  <2>3. Successors(T, g) = Successors(S, g)
    BY <1>0, <2>1, <2>2, FS_Subset
  <2>4. Enters(T, g, time)
    BY <1>1, <2>3 DEF Enters
  <2> QED
    BY <2>3, <2>4 DEF Successors
<1>2. V \in SUBSET (S \cup {f}) /\ f \in V
  OBVIOUS
<1>3. PICK g \in V : Cardinality(Successors(S, g)) > 1
  <2> HIDE DEF V
  <2> QED
    BY <1>1, <1>2 DEF Forked
<1> QED
  BY <1>0, <1>3

\* A fork ahead of a fact is ahead of its only successor.
LEMMA ForkAhead ==
  ASSUME NEW S, NEW f, NEW time, Forked(f, S, time),
         Cardinality(Successors(S, f)) = 1, NEW g \in Successors(S, f)
  PROVE  Forked(g, S, time)
<1> SUFFICES ASSUME NEW W \in SUBSET (S \cup {g}), g \in W,
                    \A h \in W : Enters(S, h, time) => Successors(S, h) \subseteq W
             PROVE  \E h \in W : Cardinality(Successors(S, h)) > 1
  BY DEF Forked
<1>1. Successors(S, f) = {g}
  <2>1. IsFiniteSet(Successors(S, f))
    BY RendezvousTypes, FS_Subset DEF Successors
  <2>2. PICK x : Successors(S, f) = {x}
    BY <2>1, FS_Singleton
  <2> QED
    BY <2>2
<1> DEFINE V == W \cup {f}
<1>2. V \in SUBSET (S \cup {f}) /\ f \in V
  BY DEF Successors
<1>3. \A h \in V : Enters(S, h, time) => Successors(S, h) \subseteq V
  BY <1>1
<1>4. PICK h \in V : Cardinality(Successors(S, h)) > 1
  <2> HIDE DEF V
  <2> QED
    BY <1>2, <1>3 DEF Forked
<1> QED
  BY <1>4

\* A walk that may not go on from before a fork stands at the fork.
LEMMA ForkHere ==
  ASSUME NEW S \in SUBSET Facts, NEW f, NEW time \in Nat, Forked(f, S, 0),
         ~Enters(S, f, time)
  PROVE  Cardinality(Successors(S, f)) > 1
<1>1. ~Enters(S, f, 0)
  <2> SUFFICES ASSUME Enters(S, f, 0) PROVE Enters(S, f, time)
    OBVIOUS
  <2>1. \A g \in Successors(S, f) : ActivatesAt[g] \in Nat
    BY RendezvousTypes DEF Successors, Facts
  <2> QED
    BY <2>1 DEF Enters
<1>2. {f} \in SUBSET (S \cup {f})
  OBVIOUS
<1> QED
  BY <1>1, <1>2 DEF Forked

\* Thread t is about to enter the fork of peer i among the conflicts.
Mending(t, i) ==
  \/ pc[t] \in {"reset", "list"}
  \/ /\ pc[t] \in {"rebuild", "walk", "enter"} /\ i \in pending[t]
     /\ Forked(Genesis[i], listing[t], 0)
  \/ /\ pc[t] = "walk" /\ PorterOf[seen[t]] = i
     /\ Forked(seen[t], listing[t], 0)

\* The constructor runs alone, ...
StartInv ==
  \A t \in Threads : errand[t] = "start" =>
    t = Carrier /\ \A s \in Receivers : pc[s] = "down"

\* ... and a fork that is not known is being mended.
MendInv ==
  \A i \in Peers : Forked(Genesis[i], facts, 0) =>
    i \in conflicts \/ \E t \in Threads : Mending(t, i)

LEMMA StartInvStep ==
  ASSUME RendezvousInv, StartInv, Next
  PROVE  StartInv'
<1> USE RendezvousTypes DEF StartInv, Threads, Goto
<1>0. TypeOK /\ \A t \in Threads : Bound(t)
  BY DEF RendezvousInv
<1>1. ASSUME NEW t \in Threads, Proceed(t)
      PROVE  StartInv'
  <2>1. pc[t] \notin {"down", "idle"}
    BY <1>1 DEF Proceed, RecoverStep, Reset, List, Rebuild, WalkOn, Stop,
       Enter, Recovered, Retain, Look, Judge
  <2>2. CASE errand' = errand /\ \A s \in Threads \ {t} : pc'[s] = pc[s]
    BY <2>1, <2>2
  <2>3. CASE /\ \A s \in Threads :
                  errand'[s] = "start" => s # t /\ errand'[s] = errand[s]
             /\ \A s \in Threads \ {t} : pc'[s] = pc[s]
    BY <2>1, <2>3
  <2>4. CASE Recovered(t) /\ errand[t] = "start"
    BY <1>0, <2>4 DEF Recovered, TypeOK
  <2>5. CASE Recovered(t) /\ errand[t] # "start"
    <3>1. CASE errand[t] = "claim"
      BY <1>0, <2>3, <2>5, <3>1 DEF Recovered, TypeOK
    <3>2. CASE errand[t] # "claim"
      BY <1>0, <2>2, <2>5, <3>2 DEF Recovered, TypeOK
    <3> QED
      BY <3>1, <3>2
  <2>6. CASE Judge(t)
    BY <1>0, <2>3, <2>6 DEF Judge, TypeOK
  <2>7. CASE \/ Reset(t) \/ List(t) \/ WalkOn(t) \/ Stop(t) \/ Enter(t)
             \/ \E i \in Peers : Rebuild(t, i)
             \/ Retain(t) \/ Look(t)
    BY <1>0, <2>2, <2>7 DEF Reset, List, Rebuild, WalkOn, Stop, Enter, Retain,
       Look, TypeOK
  <2> QED
    BY <1>1, <2>4, <2>5, <2>6, <2>7 DEF Proceed, RecoverStep
<1>2. ASSUME NEW t \in Receivers, NEW f \in Transitions, BeginAccept(t, f)
      PROVE  StartInv'
  BY <1>0, <1>2 DEF BeginAccept, TypeOK
<1>3. ASSUME NEW t \in Receivers, NEW i \in Peers, BeginOpen(t, i)
      PROVE  StartInv'
  BY <1>0, <1>3 DEF BeginOpen, TypeOK
<1>4. ASSUME NEW i \in Peers, BeginRoute(i)
      PROVE  StartInv'
  BY <1>0, <1>4 DEF BeginRoute, TypeOK
<1>5. CASE Tick
  BY <1>5 DEF Tick, threadVars
<1>6. CASE Crash
  BY <1>6 DEF Crash
<1> QED
  BY <1>1, <1>2, <1>3, <1>4, <1>5, <1>6 DEF Next

\* A thread that does not move goes on mending.
LEMMA MendingKept ==
  ASSUME NEW s, NEW i, Mending(s, i), pc'[s] = pc[s], listing'[s] = listing[s],
         pending'[s] = pending[s], seen'[s] = seen[s]
  PROVE  Mending(s, i)'
BY DEF Mending, Forked

\* A thread that was mending goes on, or has entered the fork.
LEMMA MendingStep ==
  ASSUME RendezvousInv, NEW t \in Threads, NEW i \in Peers, Mending(t, i),
         Forked(Genesis[i], facts, 0),
         \/ List(t) \/ WalkOn(t) \/ Stop(t) \/ Enter(t) \/ Recovered(t)
         \/ \E j \in Peers : Rebuild(t, j)
  PROVE  i \in conflicts' \/ Mending(t, i)'
<1> USE RendezvousTypes DEF Goto
<1>0. TypeOK /\ Bound(t) /\ clock \in Nat /\ listing[t] \in SUBSET Facts
  BY DEF RendezvousInv, TypeOK
<1>1. CASE List(t)
  BY <1>0, <1>1 DEF List, TypeOK, Mending, Forked
<1>2. ASSUME NEW j \in Peers, Rebuild(t, j)
      PROVE  Mending(t, i)'
  <2>1. Forked(Genesis[i], listing[t], 0) /\ i \in pending[t]
    BY <1>2 DEF Rebuild, Mending
  <2>2. listing' = listing /\ pc'[t] = "walk" /\ seen'[t] = Genesis[j]
        /\ pending'[t] = pending[t] \ {j}
    BY <1>0, <1>2 DEF Rebuild, TypeOK
  <2>3. PorterOf[Genesis[j]] = j
    BY GenesisFacts
  <2> QED
    BY <2>1, <2>2, <2>3 DEF Mending, Forked
<1>3. CASE WalkOn(t)
  <2> DEFINE g == CHOOSE h \in Successors(listing[t], seen[t]) : TRUE
  <2>1. Cardinality(Successors(listing[t], seen[t])) = 1
    BY <1>3 DEF WalkOn, Enters
  <2>2. g \in Successors(listing[t], seen[t])
    BY <2>1, OneIsSome
  <2>3. /\ seen'[t] = g /\ pc'[t] = "walk"
        /\ pending' = pending /\ listing' = listing
    BY <1>0, <1>3 DEF WalkOn, TypeOK
  <2>4. PorterOf[g] = PorterOf[seen[t]]
    BY <1>0, <2>2 DEF Successors, Bound, RendezvousInv, Linked
  <2>5. CASE i \in pending[t] /\ Forked(Genesis[i], listing[t], 0)
    BY <2>3, <2>5 DEF Mending, Forked
  <2>6. CASE PorterOf[seen[t]] = i /\ Forked(seen[t], listing[t], 0)
    <3>1. Forked(g, listing[t], 0)
      BY <2>1, <2>2, <2>6, ForkAhead
    <3> HIDE DEF g
    <3> QED
      BY <2>3, <2>4, <2>6, <3>1 DEF Mending, Forked
  <2> QED
    BY <1>3, <2>5, <2>6 DEF WalkOn, Mending
<1>4. CASE Stop(t)
  <2>1. CASE i \in pending[t] /\ Forked(Genesis[i], listing[t], 0)
    BY <1>0, <1>4, <2>1 DEF Stop, TypeOK, Mending, Forked
  <2>2. CASE PorterOf[seen[t]] = i /\ Forked(seen[t], listing[t], 0)
    <3>1. Cardinality(Successors(listing[t], seen[t])) > 1
      BY <1>0, <1>4, <2>2, ForkHere DEF Stop
    <3> QED
      BY <1>4, <2>2, <3>1 DEF Stop
  <2> QED
    BY <1>4, <2>1, <2>2 DEF Stop, Mending
<1>5. CASE Enter(t)
  BY <1>0, <1>5 DEF Enter, TypeOK, Mending, Forked
<1>6. CASE Recovered(t)
  BY <1>6 DEF Recovered, Mending
<1> QED
  BY <1>1, <1>2, <1>3, <1>4, <1>5, <1>6

LEMMA MendInvStep ==
  ASSUME RendezvousInv, StartInv, MendInv, Next
  PROVE  MendInv'
<1> USE RendezvousTypes DEF Goto, Threads
<1>0. TypeOK
  BY DEF RendezvousInv
<1> SUFFICES ASSUME NEW i \in Peers, Forked(Genesis[i], facts', 0)
             PROVE  i \in conflicts' \/ \E t \in Threads : Mending(t, i)'
  BY DEF MendInv, Forked
<1>1. ASSUME NEW t \in Threads, Retain(t) \/ Reset(t)
      PROVE  Mending(t, i)'
  BY <1>0, <1>1 DEF Retain, Reset, TypeOK, Mending
<1>2. CASE Crash
  BY <1>2 DEF Crash, Mending
<1>3. ASSUME facts' = facts, conflicts \subseteq conflicts', NEW t \in Threads,
             \A s \in Threads \ {t} :
               /\ pc'[s] = pc[s] /\ listing'[s] = listing[s]
               /\ pending'[s] = pending[s] /\ seen'[s] = seen[s],
             Mending(t, i) => i \in conflicts' \/ Mending(t, i)'
      PROVE  i \in conflicts' \/ \E s \in Threads : Mending(s, i)'
  <2>1. i \in conflicts \/ \E s \in Threads : Mending(s, i)
    BY <1>3 DEF MendInv
  <2> QED
    BY <1>3, <2>1, MendingKept
<1>4. ASSUME NEW t \in Threads,
             \/ List(t) \/ WalkOn(t) \/ Stop(t) \/ Enter(t)
             \/ Recovered(t) /\ errand[t] # "start"
             \/ \E j \in Peers : Rebuild(t, j)
      PROVE  i \in conflicts' \/ \E s \in Threads : Mending(s, i)'
  <2>1. facts' = facts /\ conflicts \subseteq conflicts'
    BY <1>4 DEF List, WalkOn, Stop, Enter, Recovered, Rebuild, memoryVars
  <2>2. \A s \in Threads \ {t} :
          /\ pc'[s] = pc[s] /\ listing'[s] = listing[s]
          /\ pending'[s] = pending[s] /\ seen'[s] = seen[s]
    <3>1. CASE Recovered(t) /\ errand[t] # "start"
      BY <1>0, <3>1 DEF Recovered, TypeOK
    <3>2. CASE ~(Recovered(t) /\ errand[t] # "start")
      BY <1>0, <1>4, <3>2 DEF List, WalkOn, Stop, Enter, Rebuild, TypeOK
    <3> QED
      BY <3>1, <3>2
  <2>3. Mending(t, i) => i \in conflicts' \/ Mending(t, i)'
    BY <1>4, <2>1, MendingStep
  <2> QED
    BY <1>3, <2>1, <2>2, <2>3
<1>5. ASSUME NEW t \in Threads, Recovered(t), errand[t] = "start"
      PROVE  i \in conflicts'
  <2>1. \A s \in Threads : ~Mending(s, i)
    BY <1>5 DEF StartInv, Recovered, Mending
  <2> QED
    BY <1>5, <2>1 DEF MendInv, Recovered, memoryVars
<1>6. ASSUME NEW t \in Threads,
             \/ Look(t) \/ Judge(t)
             \/ \E f \in Transitions : BeginAccept(t, f)
             \/ \E j \in Peers : BeginOpen(t, j)
             \/ t = Carrier /\ \E j \in Peers : BeginRoute(j)
      PROVE  i \in conflicts' \/ \E s \in Threads : Mending(s, i)'
  <2>1. ~Mending(t, i)
    BY <1>6 DEF Look, Judge, BeginAccept, BeginOpen, BeginRoute, Mending
  <2>2. /\ facts' = facts /\ conflicts' = conflicts
        /\ \A s \in Threads \ {t} :
             /\ pc'[s] = pc[s] /\ listing'[s] = listing[s]
             /\ pending'[s] = pending[s] /\ seen'[s] = seen[s]
    BY <1>0, <1>6 DEF Look, Judge, BeginAccept, BeginOpen, BeginRoute,
       memoryVars, TypeOK
  <2> QED
    BY <1>3, <2>1, <2>2
<1>7. CASE Tick
  BY <1>3, <1>7, MendingKept DEF Tick, memoryVars, threadVars
<1> QED
  BY <1>1, <1>2, <1>4, <1>5, <1>6, <1>7 DEF Next, Proceed, RecoverStep

\* Contradictory successors of an active fact are known to a Porter whose
\* threads rest, whatever order they came in and however the recovers of the
\* receive threads and of the carry thread interleave (rendezvous.py recover).
THEOREM ForkSuspension == Spec => []ForkSuspends
<1>1. Init => StartInv /\ MendInv
  <2> SUFFICES ASSUME Init PROVE StartInv /\ MendInv
    OBVIOUS
  <2>1. pc[Carrier] = "reset" /\ Carrier \in Threads
    BY DEF Init, Threads
  <2>2. \A i : Mending(Carrier, i)
    BY <2>1 DEF Mending
  <2> QED
    BY <2>1, <2>2, RendezvousTypes DEF Init, StartInv, MendInv, Threads
<1>2. RendezvousInv /\ StartInv /\ MendInv /\ [Next]_vars => (StartInv /\ MendInv)'
  <2>1. ASSUME MendInv, UNCHANGED vars
        PROVE  MendInv'
    <3> USE DEF vars, memoryVars, threadVars
    <3>1. \A t, i : Mending(t, i) => Mending(t, i)'
      BY <2>1, MendingKept
    <3>2. \A i : Forked(Genesis[i], facts, 0)' = Forked(Genesis[i], facts, 0)
      BY <2>1
    <3> QED
      BY <2>1, <3>1, <3>2 DEF MendInv
  <2> QED
    BY <2>1, StartInvStep, MendInvStep
       DEF vars, threadVars, StartInv
<1>3. MendInv => ForkSuspends
  BY DEF MendInv, ForkSuspends, Mending
<1> QED
  BY <1>1, <1>2, <1>3, RendezvousInvariant, PTL DEF Spec
===============================================================================
