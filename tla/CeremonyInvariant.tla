-------------------------- MODULE CeremonyInvariant --------------------------
(***************************************************************************)
(* The inductive invariant behind the safety of ceremonies, in named       *)
(* parts.  It says nothing of what recover derives: that standing never    *)
(* forks, that results are true and that the origin never rewinds do not   *)
(* depend on which Introduction the memory of the Porter holds.            *)
(***************************************************************************)
EXTENDS Ceremonies

\* Where a thread is, or is going back to when its recover is over.
At(t) == IF pc[t] \in RecoverLabels THEN back[t] ELSE pc[t]

\* Under the relationship lock, past its refresh.
Locked == {"slot", "publish", "activate", "confirm", "accept", "write"}

\* Its ceremony has changed standing.
Applied == {"activate", "count", "result", "forgetpending", "drain", "scan"}

CeremonyTypes ==
  /\ changes \in [Introductions -> Change \cup {None}]
  /\ standingLock \in Threads \cup {None}
  /\ pc \in [Threads -> Labels]
  /\ job \in [Threads -> Packages \cup Ceremonies \cup {None}]
  /\ back \in [Threads -> Labels \cup {None}]
  /\ results \subseteq Ceremonies /\ pending \subseteq Ceremonies
  /\ outer \in [Threads -> Ceremonies \cup {None}]
  /\ drain \in [Threads -> SUBSET Ceremonies]
  /\ live \in [Threads -> BOOLEAN] /\ answer \in Answers \cup {None}
  /\ lodged \subseteq Ceremonies /\ outgoing \subseteq lodged
  /\ receipts \subseteq lodged /\ replay \subseteq receipts
  /\ outbound \in Introductions \cup {None}
  /\ carrier \in CarrierLabels /\ carried \in Ceremonies \cup {None}

\* A ceremony's change selects what the ceremony asked for.
ChangeInv == \A i \in Introductions :
  changes[i] # None /\ changes[i].cause # None =>
    /\ Predecessor[changes[i].cause] = i
    /\ changes[i].successor = Successor[changes[i].cause]

AtCeremony == ServiceLabels \cup ChangeLabels

\* What a thread relies on: the lock it holds, the slot it found empty, the
\* change its ceremony made.
StandingInv(t) ==
  /\ pc[t] \in RecoverLabels =>
       back[t] \in {"verify", "confirm", "judge", "slot"}
  /\ At(t) \in Locked => standingLock = t
  /\ At(t) \in AtCeremony => job[t] \in Ceremonies
  /\ pc[t] = "publish" => changes[Predecessor[job[t]]] = None
  /\ At(t) \in Applied => Causes(job[t])

\* A drain is nested in no other one, and in no deposit.
DrainInv(t) ==
  outer[t] # None => /\ Causes(outer[t])
                     /\ At(t) \in AtCeremony \ {"drain", "scan"}

\* The origin waits for the thread that works on the ceremony it carries.
LiveInv(t) ==
  live[t] => /\ carrier = "wait" /\ answer = None
             /\ At(t) \in AtCeremony
             /\ carried = IF outer[t] = None THEN job[t] ELSE outer[t]

ThreadInv(t) == StandingInv(t) /\ DrainInv(t) /\ LiveInv(t)

\* It waits for one thread at most.
LiveUnique == \A t, u \in Threads : live[t] /\ live[u] => t = u

AnswerInv ==
  /\ answer # None => carrier = "wait"
  /\ answer = "APPLIED" \/ carrier \in {"retain", "learn"} =>
       carried \in Ceremonies /\ Causes(carried)
  /\ carrier = "learn" => carried \in receipts
  /\ carrier \in {"wait", "retain"} => carried \in lodged

ResultInv == \A c \in results \cup receipts : Causes(c)

\* What the threads of the recipient, its drains and the origin rely on at
\* every step (introduction.py change; ceremony.py receive, drain_pending,
\* retain_result): inductive, and enough for the theorems.
CeremonyInv ==
  /\ CeremonyTypes /\ ChangeInv /\ LiveUnique /\ AnswerInv /\ ResultInv
  /\ \A t \in Threads : ThreadInv(t)
=============================================================================
