----------------------------- MODULE NativeProofs -----------------------------
(***************************************************************************)
(* A Unit is settled with its evidence and a refusal is everybody's, for   *)
(* any number of Packages, custodians, receive threads, lost or late       *)
(* frames and deaths of the Porter.                                        *)
(***************************************************************************)
EXTENDS NativeCarriage, TLAPS

USE CarrierDistinct, LodgementNone, PackageOfType, NativeTypes
    DEF Clerks, Goto, storeVars, lodgementVars, stageVars, evidenceVars,
        clerkVars, nativeVars, unitVars, keptVars, tickVars, peerVars

Works(label) ==
  \/ label \in {"lock", "ticket", "association", "associate", "stage"}
  \/ label \in {"receipt", "refusal", "carrying", "outgoing"}

LEMMA LooksAt == DOMAIN Looks = {"receipt", "refusal", "carrying", "outgoing"}
BY DEF Looks

LEMMA InitNative == Init => NativeInv
<1> SUFFICES ASSUME Init
             PROVE  NativeInv
  OBVIOUS
<1>1. TypeOK
  BY DEF Init, TypeOK, NoneOf, NativeLabels
<1>2. pc[Carrier] = "down" /\ \A t \in Receivers : pc[t] = "down"
  BY DEF Init
<1>3. CarrierInv
  BY <1>2, LooksAt DEF CarrierInv
<1>4. EvidenceIsHeld
  BY DEF Init, EvidenceIsHeld, NoneOf
<1>5. FrameInv
  BY <1>2 DEF Init, FrameInv
<1>6. QueueInv
  BY DEF Init, QueueInv, Begun, Kept, NoneOf
<1> QED
  BY <1>1, <1>3, <1>4, <1>5, <1>6 DEF NativeInv

----------------------------------------------------------------------------
\* What materializing and recovering do to the rest: they only stage.
OnlyStages ==
  /\ UNCHANGED <<evidenceVars, nativeVars>>
  /\ lodged' = lodged
  /\ outgoing \subseteq outgoing'
  /\ \A t \in Receivers : pc'[t] = pc[t]
  /\ pc[Carrier] \in {"idle", "recover"} \/ Works(pc[Carrier])
  /\ \/ pc'[Carrier] \in {"recover", "dead"}
     \/ Works(pc'[Carrier]) /\ job'[Carrier] \in lodged

LEMMA Materializes ==
  ASSUME TypeOK, CarrierInv, MaterializeStep(Carrier), UNCHANGED nativeVars
  PROVE  TypeOK' /\ OnlyStages
<1> USE LooksAt
<1> DEFINE l == job[Carrier]
           Staged == TypeOK' /\ OnlyStages
<1>1. Works(pc[Carrier]) => l \in Lodgements /\ l \in lodged
                            /\ PackageOf[l] \in Packages
  BY DEF CarrierInv, TypeOK, Works
<1>2. ASSUME LockLodgement(Carrier)
      PROVE  Staged
  BY <1>1, <1>2
     DEF LockLodgement, TypeOK, OnlyStages, NativeLabels, Works
<1>3. ASSUME WriteTicket(Carrier)
      PROVE  Staged
  BY <1>1, <1>3
     DEF WriteTicket, TypeOK, OnlyStages, NativeLabels, Works
<1>4. ASSUME LookForTicket(Carrier)
      PROVE  Staged
  BY <1>1, <1>4
     DEF LookForTicket, TypeOK, OnlyStages, NativeLabels, Works
<1>5. ASSUME Associate(Carrier)
      PROVE  Staged
  BY <1>1, <1>5
     DEF Associate, TypeOK, OnlyStages, NativeLabels, Works
<1>6. ASSUME AssociationRaises(Carrier)
      PROVE  Staged
  BY <1>1, <1>6
     DEF AssociationRaises, Unlock, TypeOK, OnlyStages, NativeLabels, Works
<1>7. ASSUME Stage(Carrier)
      PROVE  Staged
  BY <1>1, <1>7
     DEF Stage, Unlock, Resume, TypeOK, OnlyStages, NativeLabels, Works
<1>8. ASSUME Look(Carrier)
      PROVE  Staged
  <2>1. Works(pc[Carrier])
    BY <1>8 DEF Look, Works
  <2>2. CASE Found(pc[Carrier], PackageOf[l])
    <3>1. /\ pc' = [pc EXCEPT ![Carrier] = "recover"]
          /\ lodgementLock' = [lodgementLock EXCEPT ![l] = None]
          /\ job' = [job EXCEPT ![Carrier] = None]
          /\ UNCHANGED <<lodged, tickets, mapping, stageVars, evidenceVars,
                         unrecovered>>
      BY <1>8, <2>2 DEF Look, Unlock, Resume
    <3> QED
      BY <1>1, <2>1, <3>1 DEF TypeOK, OnlyStages, NativeLabels, Works
  <2>3. CASE ~Found(pc[Carrier], PackageOf[l])
    <3>1. Looks[pc[Carrier]] \in {"refusal", "carrying", "outgoing", "stage"}
      BY <1>8 DEF Look, Looks
    <3> QED
      BY <1>1, <1>8, <2>1, <2>3, <3>1
         DEF Look, TypeOK, OnlyStages, NativeLabels, Works
  <2> QED
    BY <2>2, <2>3
<1> QED
  BY <1>2, <1>3, <1>4, <1>5, <1>6, <1>7, <1>8 DEF MaterializeStep

LEMMA Recovers ==
  ASSUME TypeOK, RecoverStep, UNCHANGED nativeVars
  PROVE  TypeOK' /\ OnlyStages
<1>1. CASE BeginRecovery
  BY <1>1 DEF BeginRecovery, TypeOK, OnlyStages, NativeLabels, Works
<1>2. ASSUME NEW l \in Lodgements, Recover(l)
      PROVE  TypeOK' /\ OnlyStages
  <2>1. CASE Complete(l)
    BY <1>2, <2>1 DEF Recover, TypeOK, OnlyStages, NativeLabels, Works
  <2>2. CASE ~Complete(l)
    BY <1>2, <2>2 DEF Recover, TypeOK, OnlyStages, NativeLabels, Works
  <2> QED
    BY <2>1, <2>2
<1> QED
  BY <1>1, <1>2 DEF RecoverStep

----------------------------------------------------------------------------
\* A custodian's answer, and what it holds for it.
LEMMA Deposits ==
  ASSUME TypeOK, NEW p \in Packages, NEW c \in Custodians, Deposit(p, c)
  PROVE  /\ holds' \in [Packages -> [Custodians -> AcceptanceIds \cup {None}]]
         /\ \A q \in Packages, d \in Custodians :
              holds[q][d] # None => holds'[q][d] = holds[q][d]
         /\ answered' \subseteq Evidence
         /\ \A e \in answered' :
              \/ e \in answered
              \/ e.package = p /\ e.custodian = c /\ True(e)'
<1>1. /\ holds' \in [Packages -> [Custodians -> AcceptanceIds \cup {None}]]
      /\ \A q \in Packages, d \in Custodians :
           holds[q][d] # None => holds'[q][d] = holds[q][d]
  <2>1. CASE UNCHANGED holds
    BY <2>1 DEF TypeOK
  <2>2. CASE holds[p][c] = None
             /\ \E a \in Fresh : holds' = [holds EXCEPT ![p][c] = a]
    <3>1. PICK a \in Fresh : holds' = [holds EXCEPT ![p][c] = a]
      BY <2>2
    <3>2. a \in AcceptanceIds
      BY DEF Fresh
    <3> QED
      BY <2>2, <3>1, <3>2 DEF TypeOK
  <2> QED
    BY <2>1, <2>2 DEF Deposit
<1>2. answered \subseteq Evidence
  BY DEF TypeOK
<1>3. CASE UNCHANGED answered
  BY <1>1, <1>2, <1>3
<1>4. ASSUME NEW r \in Reasons \cup ({holds'[p][c]} \ {None}),
             answered' = {e \in answered : e.package # p \/ e.custodian # c}
                           \cup {[package |-> p, custodian |-> c, result |-> r]}
      PROVE  /\ answered' \subseteq Evidence
             /\ \A e \in answered' :
                  \/ e \in answered
                  \/ e.package = p /\ e.custodian = c /\ True(e)'
  <2>1. r \in Answers
    BY <1>1 DEF Answers
  <2>2. r \in AcceptanceIds => holds'[p][c] = r
    OBVIOUS
  <2>3. [package |-> p, custodian |-> c, result |-> r] \in Evidence
    BY <2>1 DEF Evidence
  <2> QED
    BY <1>2, <1>4, <2>2, <2>3 DEF True
<1> QED
  BY <1>1, <1>3, <1>4 DEF Deposit

\* A receive thread looks for what is retained, or retains its answer.
Retain(t) == FindEvidence(t) \/ FoundSince(t) \/ WriteEvidence(t)

LEMMA RetainRests ==
  ASSUME NEW t \in Receivers, Retain(t)
  PROVE  /\ UNCHANGED <<storeVars, job, unrecovered, units, tickVars, answered,
                        holds>>
         /\ pc[t] \notin {"down", "listen", "refuse"}
BY DEF Retain, FindEvidence, FoundSince, WriteEvidence

\* The outcomes: it is dropped, there is none yet, there is some, or it is
\* written.
LEMMA Retains ==
  ASSUME NEW t \in Receivers, Retain(t), frame[t] \in Evidence,
         NEW p, NEW c, p = frame[t].package, c = frame[t].custodian
  PROVE  \/ /\ frame' = [frame EXCEPT ![t] = None]
            /\ pc' = [pc EXCEPT ![t] = "listen"]
            /\ UNCHANGED keptVars
         \/ /\ pc' = [pc EXCEPT ![t] = "evidence"]
            /\ UNCHANGED <<frame, keptVars>>
         \/ /\ Outcome(t) \in AcceptanceIds /\ accepted[p][c] # None
            /\ pc' = [pc EXCEPT ![t] = "compatible"]
            /\ UNCHANGED <<frame, keptVars>>
         \/ /\ Outcome(t) \in Reasons /\ declined[p][c] # None
            /\ pc' = [pc EXCEPT ![t] = "unlink"]
            /\ UNCHANGED <<frame, keptVars>>
         \/ /\ Outcome(t) \in AcceptanceIds
            /\ accepted' = [accepted EXCEPT ![p][c] = Outcome(t)]
            /\ late' = IF \E v \in Receivers :
                            pc[v] = "refuse" /\ frame[v].package = p
                       THEN late \cup {<<p, c>>} ELSE late
            /\ pc' = [pc EXCEPT ![t] = "compatible"]
            /\ UNCHANGED <<frame, declined>>
         \/ /\ Outcome(t) \in Reasons
            /\ declined' = [declined EXCEPT ![p][c] = Outcome(t)]
            /\ pc' = [pc EXCEPT ![t] = "unlink"]
            /\ UNCHANGED <<frame, accepted, late>>
<1>1. Outcome(t) \in AcceptanceIds \/ Outcome(t) \in Reasons
  BY DEF Outcome, Evidence, Answers
<1>2. CASE FindEvidence(t)
  <2>1. CASE Outcome(t) \in AcceptanceIds
    BY <1>2, <2>1 DEF FindEvidence, KeptOf, Accepts, Onward, Drop
  <2>2. CASE Outcome(t) \in Reasons
    BY <1>2, <2>2 DEF FindEvidence, KeptOf, Accepts, Onward, Drop
  <2> QED
    BY <1>1, <2>1, <2>2
<1>3. CASE FoundSince(t)
  BY <1>1, <1>3 DEF FoundSince, KeptOf, Accepts, Onward
<1>4. CASE WriteEvidence(t)
  BY <1>1, <1>4 DEF WriteEvidence, Accepts, Onward
<1> QED
  BY <1>2, <1>3, <1>4 DEF Retain

\* A frame at hand is true, and an acceptance retained before is the same.
LEMMA AtHand ==
  ASSUME NativeInv, NEW t \in Receivers, Retain(t)
  PROVE  /\ frame[t] \in Evidence /\ True(frame[t])
         /\ frame[t].package \in Packages /\ frame[t].custodian \in Custodians
         /\ frame[t].result \in Answers
         /\ Outcome(t) \in AcceptanceIds =>
              /\ holds[frame[t].package][frame[t].custodian] = Outcome(t)
              /\ accepted[frame[t].package][frame[t].custodian]
                   \in {None, Outcome(t)}
<1>1. /\ frame[t] \in Evidence /\ True(frame[t])
      /\ frame[t].package \in Packages /\ frame[t].custodian \in Custodians
      /\ frame[t].result \in Answers
  BY RetainRests DEF NativeInv, FrameInv, Evidence
<1> QED
  BY <1>1 DEF True, Outcome, NativeInv, EvidenceIsHeld

\* An acceptance is entered where there was none, or the same; a refusal where
\* there was none, or in place of another.
LEMMA Retaining ==
  ASSUME NativeInv, NEW t \in Receivers, Retain(t)
  PROVE  /\ accepted'
              \in [Packages -> [Custodians -> AcceptanceIds \cup {None}]]
         /\ declined' \in [Packages -> [Custodians -> Reasons \cup {None}]]
         /\ late' \subseteq Pairs
         /\ \A p \in Packages, c \in Custodians :
              /\ accepted[p][c] # None => accepted'[p][c] = accepted[p][c]
              /\ declined[p][c] # None => declined'[p][c] # None
<1>1. PICK p \in Packages, c \in Custodians :
        p = frame[t].package /\ c = frame[t].custodian
  BY AtHand
<1>2. CASE UNCHANGED keptVars
  BY <1>2 DEF NativeInv, TypeOK
<1>3. CASE /\ Outcome(t) \in AcceptanceIds
           /\ accepted' = [accepted EXCEPT ![p][c] = Outcome(t)]
           /\ late' \subseteq late \cup {<<p, c>>}
           /\ UNCHANGED declined
  <2>1. accepted[p][c] \in {None, Outcome(t)}
    BY <1>1, <1>3, AtHand
  <2>2. late' \subseteq Pairs
    BY <1>3 DEF NativeInv, TypeOK, Pairs
  <2> QED
    BY <1>3, <2>1, <2>2 DEF NativeInv, TypeOK
<1>4. CASE /\ Outcome(t) \in Reasons
           /\ declined' = [declined EXCEPT ![p][c] = Outcome(t)]
           /\ UNCHANGED <<accepted, late>>
  BY <1>4 DEF NativeInv, TypeOK
<1>5. ASSUME late' = IF \E v \in Receivers :
                         pc[v] = "refuse" /\ frame[v].package = p
                     THEN late \cup {<<p, c>>} ELSE late
      PROVE  late' \subseteq late \cup {<<p, c>>}
  BY <1>5
<1>6. frame[t] \in Evidence
  BY AtHand
<1> QED
  BY ZenonT(60), <1>1, <1>2, <1>3, <1>4, <1>5, <1>6, Retains

\* Every step keeps the types.
LEMMA TypeStep ==
  ASSUME NativeInv, [Next]_vars
  PROVE  TypeOK'
<1>1. ASSUME UNCHANGED nativeVars, MaterializeStep(Carrier)
      PROVE  TypeOK'
  BY <1>1, Materializes DEF NativeInv
<1>2. ASSUME UNCHANGED nativeVars, RecoverStep
      PROVE  TypeOK'
  BY <1>2, Recovers DEF NativeInv
<1>3. ASSUME StartPorter
      PROVE  TypeOK'
  BY <1>3 DEF StartPorter, NativeInv, TypeOK, NativeLabels
<1>4. ASSUME NEW p \in Packages, StagePackage(p)
      PROVE  TypeOK'
  BY <1>4 DEF StagePackage, Ticking, NativeInv, TypeOK, NativeLabels
<1>5. ASSUME NoteAttempt
      PROVE  TypeOK'
  BY <1>5 DEF NoteAttempt, CarrierInv, NativeInv, TypeOK, NativeLabels
<1>6. ASSUME NEW c \in Custodians, Queue(c)
      PROVE  TypeOK'
  BY <1>6 DEF Queue, CarrierInv, Pairs, NativeInv, TypeOK, NativeLabels
<1>7. ASSUME SameUnit
      PROVE  TypeOK'
  BY <1>7 DEF SameUnit, Compared, NativeInv, TypeOK, NativeLabels
<1>8. ASSUME QueueRaises
      PROVE  TypeOK'
  BY <1>8 DEF QueueRaises, Compared, NativeInv, TypeOK, NativeLabels
<1>9. ASSUME Await
      PROVE  TypeOK'
  BY <1>9 DEF Await, NativeInv, TypeOK, NativeLabels
<1>10. ASSUME NEW u \in Pairs, ReadUnit(u)
      PROVE  TypeOK'
  BY <1>10 DEF ReadUnit, Ticking, NativeInv, TypeOK, NativeLabels
<1>11. ASSUME EndTick
      PROVE  TypeOK'
  BY <1>11 DEF EndTick, Ticking, NativeInv, TypeOK, NativeLabels
<1>12. ASSUME Attempt
      PROVE  TypeOK'
  BY <1>12 DEF Attempt, WriteBack, CarrierInv, NativeInv, TypeOK, NativeLabels
<1>13. ASSUME Transmit
      PROVE  TypeOK'
  <2>1. /\ sending \in Pairs
        /\ sending[1] \in Packages /\ sending[2] \in Custodians
    BY <1>13 DEF Transmit, NativeInv, CarrierInv, Pairs
  <2>2. /\ holds' \in [Packages -> [Custodians -> AcceptanceIds \cup {None}]]
        /\ answered' \subseteq Evidence
    BY <1>13, <2>1, Deposits DEF Transmit, NativeInv
  <2> QED
    BY <1>13, <2>1, <2>2
       DEF Transmit, Transmitted, WriteBack, NativeInv, TypeOK, NativeLabels
<1>14. ASSUME CannotConnect
      PROVE  TypeOK'
  <2>1. sending \in Pairs
    BY <1>14 DEF CannotConnect, NativeInv, CarrierInv
  <2>2. units' \subseteq Pairs
    BY <1>14, <2>1 DEF CannotConnect, WriteBack, NativeInv, TypeOK
  <2>3. /\ pc' \in [Clerks \cup Receivers -> NativeLabels]
        /\ sending' \in Pairs \cup {None}
    BY <1>14 DEF CannotConnect, Transmitted, NativeInv, TypeOK, NativeLabels
  <2> QED
    BY <1>14, <2>2, <2>3 DEF CannotConnect, Transmitted, NativeInv, TypeOK
<1>15. ASSUME NEW l \in Lodgements, Publish(l)
      PROVE  TypeOK'
  BY <1>15 DEF Publish, NativeInv, TypeOK, NativeLabels
<1>16. ASSUME NEW t \in Receivers, NEW e \in answered, Match(t, e)
      PROVE  TypeOK'
  <2>1. e \in Evidence /\ answered' \subseteq Evidence
    BY <1>16 DEF Match, NativeInv, TypeOK
  <2>2. CASE <<e.package, e.custodian>> \in units
    <3>1. pc' = [pc EXCEPT ![t] = "retain"] /\ frame' = [frame EXCEPT ![t] = e]
      BY <1>16, <2>2 DEF Match
    <3>2. UNCHANGED <<storeVars, job, unrecovered, unitVars, tickVars, holds>>
      BY <1>16 DEF Match
    <3> QED
      BY <2>1, <3>1, <3>2 DEF NativeInv, TypeOK, NativeLabels
  <2>3. CASE <<e.package, e.custodian>> \notin units
    BY <1>16, <2>1, <2>3 DEF Match, NativeInv, TypeOK
  <2> QED
    BY <2>2, <2>3
<1>17. ASSUME NEW t \in Receivers, Retain(t)
      PROVE  TypeOK'
  <2>1. frame[t] \in Evidence
    BY <1>17, AtHand
  <2>3. /\ accepted'
             \in [Packages -> [Custodians -> AcceptanceIds \cup {None}]]
        /\ declined' \in [Packages -> [Custodians -> Reasons \cup {None}]]
        /\ late' \subseteq Pairs
    BY <1>17, Retaining
  <2>4. /\ frame' \in [Receivers -> Evidence \cup {None}]
        /\ pc' \in [Clerks \cup Receivers -> NativeLabels]
    BY ZenonT(90), <1>17, <2>1, Retains DEF NativeInv, TypeOK, NativeLabels
  <2>5. UNCHANGED <<storeVars, job, unrecovered, units, tickVars, answered,
                    holds>>
    BY <1>17, RetainRests
  <2> QED
    BY <2>3, <2>4, <2>5 DEF NativeInv, TypeOK
<1>18. ASSUME NEW t \in Receivers, CompareReceipt(t)
      PROVE  TypeOK'
  BY ZenonT(40), <1>18 DEF CompareReceipt, Drop, NativeInv, TypeOK, NativeLabels
<1>19. ASSUME NEW t \in Receivers, WriteReceipt(t)
      PROVE  TypeOK'
  <2>1. /\ frame[t] \in Evidence
        /\ frame[t].package \in Packages /\ frame[t].custodian \in Custodians
        /\ frame[t].result \in Answers
    BY <1>19 DEF WriteReceipt, NativeInv, FrameInv, Evidence
  <2>2. Outcome(t) \in AcceptanceIds
    BY <1>19 DEF WriteReceipt, NativeInv, FrameInv, Retained
  <2> QED
    BY <1>19, <2>1, <2>2 DEF WriteReceipt, NativeInv, TypeOK, NativeLabels
<1>20. ASSUME NEW t \in Receivers, Learn(t)
      PROVE  TypeOK'
  <2>1. /\ frame[t] \in Evidence
        /\ frame[t].package \in Packages /\ frame[t].custodian \in Custodians
        /\ frame[t].result \in Answers
    BY <1>20 DEF Learn, NativeInv, FrameInv, Evidence
  <2> QED
    BY <1>20, <2>1 DEF Learn, NativeInv, TypeOK, NativeLabels
<1>21. ASSUME NEW t \in Receivers, Settle(t)
      PROVE  TypeOK'
  BY ZenonT(40), <1>21 DEF Settle, Drop, NativeInv, TypeOK, NativeLabels
<1>22. ASSUME NEW t \in Receivers, LastRefusal(t)
      PROVE  TypeOK'
  BY ZenonT(40), <1>22
     DEF LastRefusal, Drop, NoneOutstanding, NativeInv, TypeOK, NativeLabels
<1>23. ASSUME NEW t \in Receivers, RetainRefusal(t)
      PROVE  TypeOK'
  <2>1. /\ frame[t] \in Evidence
        /\ frame[t].package \in Packages /\ frame[t].custodian \in Custodians
        /\ frame[t].result \in Answers
    BY <1>23 DEF RetainRefusal, NativeInv, FrameInv, Evidence
  <2> QED
    BY <1>23, <2>1 DEF RetainRefusal, Drop, NativeInv, TypeOK, NativeLabels
<1>24. ASSUME Crash
      PROVE  TypeOK'
  BY <1>24 DEF Crash, NativeInv, TypeOK, NativeLabels
<1>25. CASE UNCHANGED vars
  BY <1>25 DEF NativeInv, TypeOK, NativeLabels, vars
<1> QED
  BY <1>1, <1>2, <1>3, <1>4, <1>5, <1>6, <1>7, <1>8, <1>9, <1>10, <1>11, <1>12,
     <1>13, <1>14, <1>15, <1>16, <1>17, <1>18, <1>19, <1>20, <1>21, <1>22,
     <1>23, <1>24, <1>25
     DEF Next, CarrierStep, TickStep, ReceiveStep, Retain

\* Evidence, what custodians hold and receipts stay; a Unit that goes has its
\* evidence.
Lasting ==
  /\ \A p \in Packages, c \in Custodians :
       /\ accepted[p][c] # None => accepted'[p][c] = accepted[p][c]
       /\ declined[p][c] # None => declined'[p][c] # None
       /\ holds[p][c] # None => holds'[p][c] = holds[p][c]
       /\ <<p, c>> \in units => <<p, c>> \in units' \/ Kept(p, c)
  /\ \A p \in Packages : receipts[p] # None => receipts'[p] # None

\* Every step keeps what lasts.
LEMMA Lasts ==
  ASSUME NativeInv, [Next]_vars
  PROVE  Lasting
<1>1. ASSUME UNCHANGED nativeVars, MaterializeStep(Carrier)
      PROVE  Lasting
  BY <1>1, Materializes DEF NativeInv, OnlyStages, Lasting
<1>2. ASSUME UNCHANGED nativeVars, RecoverStep
      PROVE  Lasting
  BY <1>2, Recovers DEF NativeInv, OnlyStages, Lasting
<1>3. ASSUME StartPorter
      PROVE  Lasting
  BY <1>3 DEF StartPorter, NativeInv, TypeOK, Lasting
<1>4. ASSUME NEW p \in Packages, StagePackage(p)
      PROVE  Lasting
  BY <1>4 DEF StagePackage, Ticking, NativeInv, TypeOK, Lasting
<1>5. ASSUME NoteAttempt
      PROVE  Lasting
  BY <1>5 DEF NoteAttempt, NativeInv, TypeOK, Lasting
<1>6. ASSUME NEW c \in Custodians, Queue(c)
      PROVE  Lasting
  BY <1>6 DEF Queue, NativeInv, TypeOK, Lasting
<1>7. ASSUME SameUnit
      PROVE  Lasting
  BY <1>7 DEF SameUnit, Compared, NativeInv, TypeOK, Lasting
<1>8. ASSUME QueueRaises
      PROVE  Lasting
  BY <1>8 DEF QueueRaises, Compared, NativeInv, TypeOK, Lasting
<1>9. ASSUME Await
      PROVE  Lasting
  BY <1>9 DEF Await, NativeInv, TypeOK, Lasting
<1>10. ASSUME NEW u \in Pairs, ReadUnit(u)
      PROVE  Lasting
  BY <1>10 DEF ReadUnit, Ticking, NativeInv, TypeOK, Lasting
<1>11. ASSUME EndTick
      PROVE  Lasting
  BY <1>11 DEF EndTick, Ticking, NativeInv, TypeOK, Lasting
<1>12. ASSUME Attempt
      PROVE  Lasting
  BY <1>12 DEF Attempt, WriteBack, NativeInv, TypeOK, Lasting
<1>13. ASSUME Transmit
      PROVE  Lasting
  <2>1. sending[1] \in Packages /\ sending[2] \in Custodians
    BY <1>13 DEF Transmit, NativeInv, CarrierInv, Pairs
  <2>2. \A p \in Packages, c \in Custodians :
          holds[p][c] # None => holds'[p][c] = holds[p][c]
    BY <1>13, <2>1, Deposits DEF Transmit, NativeInv
  <2>3. UNCHANGED <<accepted, declined, receipts>> /\ units \subseteq units'
    BY <1>13 DEF Transmit, Transmitted, WriteBack
  <2> QED
    BY <2>2, <2>3 DEF Lasting
<1>14. ASSUME CannotConnect
      PROVE  Lasting
  BY <1>14
     DEF CannotConnect, Transmitted, WriteBack, NativeInv, TypeOK, Lasting
<1>15. ASSUME NEW l \in Lodgements, Publish(l)
      PROVE  Lasting
  BY <1>15 DEF Publish, NativeInv, TypeOK, Lasting
<1>16. ASSUME NEW t \in Receivers, NEW e \in answered, Match(t, e)
      PROVE  Lasting
  BY <1>16 DEF Match, NativeInv, TypeOK, Lasting
<1>17. ASSUME NEW t \in Receivers, Retain(t)
      PROVE  Lasting
  <2>2. UNCHANGED <<units, holds, receipts>>
    BY <1>17, RetainRests
  <2>3. \A p \in Packages, c \in Custodians :
          /\ accepted[p][c] # None => accepted'[p][c] = accepted[p][c]
          /\ declined[p][c] # None => declined'[p][c] # None
    BY <1>17, Retaining
  <2> QED
    BY <2>2, <2>3 DEF Lasting
<1>18. ASSUME NEW t \in Receivers, CompareReceipt(t)
      PROVE  Lasting
  BY <1>18 DEF CompareReceipt, Drop, NativeInv, TypeOK, Lasting
<1>19. ASSUME NEW t \in Receivers, WriteReceipt(t)
      PROVE  Lasting
  <2>1. /\ frame[t] \in Evidence
        /\ frame[t].package \in Packages /\ frame[t].custodian \in Custodians
        /\ frame[t].result \in Answers
    BY <1>19 DEF WriteReceipt, NativeInv, FrameInv, Evidence
  <2>2. Outcome(t) \in AcceptanceIds
    BY <1>19 DEF WriteReceipt, NativeInv, FrameInv, Retained
  <2> QED
    BY <1>19, <2>1, <2>2 DEF WriteReceipt, NativeInv, TypeOK, Lasting
<1>20. ASSUME NEW t \in Receivers, Learn(t)
      PROVE  Lasting
  BY <1>20 DEF Learn, NativeInv, TypeOK, Lasting
<1>21. ASSUME NEW t \in Receivers, Settle(t)
      PROVE  Lasting
  <2>1. UnitOf(t) \in Pairs
    BY <1>21 DEF Settle, NativeInv, FrameInv, UnitOf, Evidence, Pairs
  <2>2. Kept(frame[t].package, frame[t].custodian)
    BY <1>21 DEF Settle, NativeInv, FrameInv, Retained, Kept, Answers, Outcome
  <2>3. UNCHANGED <<accepted, declined, holds, receipts>>
    BY <1>21 DEF Settle
  <2>4. \A p \in Packages, c \in Custodians :
          <<p, c>> \in units => <<p, c>> \in units' \/ Kept(p, c)
    BY <1>21, <2>2 DEF Settle, UnitOf
  <2> QED
    BY <2>3, <2>4 DEF Lasting
<1>22. ASSUME NEW t \in Receivers, LastRefusal(t)
      PROVE  Lasting
  BY <1>22 DEF LastRefusal, Drop, NoneOutstanding, NativeInv, TypeOK, Lasting
<1>23. ASSUME NEW t \in Receivers, RetainRefusal(t)
      PROVE  Lasting
  BY <1>23 DEF RetainRefusal, Drop, NativeInv, TypeOK, Lasting
<1>24. ASSUME Crash
      PROVE  Lasting
  BY <1>24 DEF Crash, NativeInv, TypeOK, Lasting
<1>25. CASE UNCHANGED vars
  BY <1>25 DEF NativeInv, TypeOK, Lasting, vars
<1> QED
  BY <1>1, <1>2, <1>3, <1>4, <1>5, <1>6, <1>7, <1>8, <1>9, <1>10, <1>11, <1>12,
     <1>13, <1>14, <1>15, <1>16, <1>17, <1>18, <1>19, <1>20, <1>21, <1>22,
     <1>23, <1>24, <1>25
     DEF Next, CarrierStep, TickStep, ReceiveStep, Retain

\* While a thread is about to refuse a Package, its custodians stay refused: an
\* acceptance retained meanwhile is late.
StayRefused ==
  \A t \in Receivers, p \in Packages, d \in Custodians :
    /\ pc[t] = "refuse" /\ pc'[t] = "refuse"
    /\ frame[t].package = p /\ Refused(p, d)
    => Refused(p, d)'

LEMMA RefusalsLast ==
  ASSUME NativeInv, [Next]_vars
  PROVE  StayRefused
<1>1. CASE UNCHANGED keptVars
  BY <1>1 DEF StayRefused, Refused
<1>2. CASE Crash
  BY <1>2 DEF Crash, StayRefused, NativeInv, TypeOK
<1>3. ASSUME NEW t \in Receivers, Retain(t)
      PROVE  StayRefused
  <2>1. PICK p \in Packages, c \in Custodians :
          p = frame[t].package /\ c = frame[t].custodian /\ frame[t] \in Evidence
    BY <1>3, AtHand
  <2>2. \A q \in Packages, d \in Custodians :
          declined[q][d] # None => declined'[q][d] # None
    BY <1>3, Retaining
  <2>3. ASSUME accepted' # accepted,
               NEW v \in Receivers, NEW q \in Packages, NEW d \in Custodians,
               pc[v] = "refuse", frame[v].package = q,
               accepted[q][d] = None \/ <<q, d>> \in late
        PROVE  accepted'[q][d] = None \/ <<q, d>> \in late'
    <3>1. /\ accepted' = [accepted EXCEPT ![p][c] = Outcome(t)]
          /\ late' = IF \E w \in Receivers :
                          pc[w] = "refuse" /\ frame[w].package = p
                     THEN late \cup {<<p, c>>} ELSE late
      BY <1>3, <2>1, <2>3, Retains
    <3>2. CASE q = p /\ d = c
      BY <2>3, <3>1, <3>2
    <3>3. CASE q # p \/ d # c
      <4>1. accepted'[q][d] = accepted[q][d]
        BY <3>1, <3>3 DEF NativeInv, TypeOK
      <4> QED
        BY <2>3, <3>1, <4>1
    <3> QED
      BY <3>2, <3>3
  <2>4. CASE accepted' # accepted
    BY <2>2, <2>3, <2>4 DEF StayRefused, Refused
  <2>5. CASE UNCHANGED accepted
    <3>1. late \subseteq late'
      BY <1>3, <2>1, Retains
    <3> QED
      BY <2>2, <2>5, <3>1 DEF StayRefused, Refused
  <2> QED
    BY <2>4, <2>5
<1>4. \/ UNCHANGED keptVars \/ Crash
      \/ \E t \in Receivers : Retain(t)
  BY DEF Next, CarrierStep, TickStep, ReceiveStep, Retain, StartPorter,
     NoteAttempt, SameUnit, QueueRaises, Compared, Await, EndTick, Attempt,
     Transmit, Transmitted, CannotConnect, StagePackage, Queue, ReadUnit,
     Publish, Match, CompareReceipt, WriteReceipt, Learn, Settle, LastRefusal,
     RetainRefusal, vars
<1> QED
  BY <1>1, <1>2, <1>3, <1>4

LEMMA AllQueuedLasts ==
  ASSUME Lasting, NEW p \in Packages, AllQueued(p)
  PROVE  AllQueued(p)'
BY DEF Lasting, AllQueued, Kept

----------------------------------------------------------------------------
LEMMA CarrierRests ==
  ASSUME TypeOK, CarrierInv, Lasting, pc'[Carrier] = pc[Carrier],
         UNCHANGED <<job, lodged, outgoing, staging, toQueue, sending>>
  PROVE  CarrierInv'
<1>1. pc[Carrier] \in {"queue", "compare"} =>
        \A c \in Custodians \ toQueue :
          <<staging, c>> \in units' \/ Kept(staging, c)'
  BY DEF TypeOK, CarrierInv, Lasting, Kept
<1>2. pc[Carrier] \in {"send", "connect"} => AllQueued(sending[1])'
  <2> HAVE pc[Carrier] \in {"send", "connect"}
  <2>1. sending[1] \in Packages /\ AllQueued(sending[1])
    BY DEF CarrierInv, Pairs
  <2> QED
    BY <2>1, AllQueuedLasts DEF AllQueued, Kept
<1> QED
  BY <1>1, <1>2 DEF CarrierInv

\* The carry thread sends what is queued for everybody.
LEMMA CarrierKept ==
  ASSUME NativeInv, [Next]_vars, TypeOK', Lasting
  PROVE  CarrierInv'
<1>1. ASSUME UNCHANGED nativeVars, MaterializeStep(Carrier)
      PROVE  CarrierInv'
  BY <1>1, Materializes, LooksAt DEF NativeInv, OnlyStages, Works, CarrierInv
<1>2. ASSUME UNCHANGED nativeVars, RecoverStep
      PROVE  CarrierInv'
  BY <1>2, Recovers, LooksAt DEF NativeInv, OnlyStages, Works, CarrierInv
<1>3. ASSUME StartPorter
      PROVE  CarrierInv'
  BY <1>3, LooksAt DEF StartPorter, NativeInv, TypeOK, CarrierInv, Pairs
<1>4. ASSUME NEW p \in Packages, StagePackage(p)
      PROVE  CarrierInv'
  BY <1>4, LooksAt
     DEF StagePackage, Ticking, NativeInv, TypeOK, CarrierInv, Pairs
<1>5. ASSUME NoteAttempt
      PROVE  CarrierInv'
  BY <1>5, LooksAt DEF NoteAttempt, NativeInv, TypeOK, CarrierInv, Pairs
<1>6. ASSUME NEW c \in Custodians, Queue(c)
      PROVE  CarrierInv'
  <2>1. staging \in outgoing /\ staging \in Packages
    BY <1>6 DEF Queue, NativeInv, TypeOK, CarrierInv
  <2>2. CASE <<staging, c>> \notin units
    <3>1. \A d \in Custodians \ toQueue' :
            <<staging, d>> \in units' \/ Kept(staging, d)'
      BY <1>6, <2>1, <2>2 DEF Queue, NativeInv, CarrierInv, Lasting, Kept
    <3> QED
      BY <1>6, <2>1, <2>2, <3>1, LooksAt DEF Queue, NativeInv, CarrierInv
  <2>3. CASE <<staging, c>> \in units
    BY <1>6, <2>1, <2>3, LooksAt
       DEF Queue, NativeInv, TypeOK, CarrierInv, Pairs, Kept
  <2> QED
    BY <2>2, <2>3
<1>7. ASSUME SameUnit
      PROVE  CarrierInv'
  <2>1. staging \in outgoing /\ staging \in Packages
    BY <1>7 DEF SameUnit, Compared, NativeInv, TypeOK, CarrierInv
  <2>2. \A d \in Custodians \ toQueue' :
          <<staging, d>> \in units' \/ Kept(staging, d)'
    BY <1>7, <2>1 DEF SameUnit, Compared, NativeInv, CarrierInv, Kept
  <2> QED
    BY <1>7, <2>1, <2>2, LooksAt
       DEF SameUnit, Compared, NativeInv, TypeOK, CarrierInv
<1>8. ASSUME QueueRaises
      PROVE  CarrierInv'
  BY <1>8, LooksAt
     DEF QueueRaises, Compared, NativeInv, TypeOK, CarrierInv, Pairs
<1>9. ASSUME Await
      PROVE  CarrierInv'
  BY <1>9, LooksAt DEF Await, NativeInv, TypeOK, CarrierInv, Pairs
<1>10. ASSUME NEW u \in Pairs, ReadUnit(u)
      PROVE  CarrierInv'
  <2>1. u[1] \in Packages /\ u[2] \in Custodians /\ u = <<u[1], u[2]>>
    BY DEF Pairs
  <2>2. Begun(u[1]) /\ ~BeingStaged(u[1])
    BY <1>10, <2>1 DEF ReadUnit, Begun, BeingStaged
  <2>3. AllQueued(u[1])'
    BY <2>1, <2>2, AllQueuedLasts DEF NativeInv, QueueInv
  <2> QED
    BY <1>10, <2>3, LooksAt
       DEF ReadUnit, NativeInv, TypeOK, CarrierInv, AllQueued, Kept
<1>11. ASSUME EndTick
      PROVE  CarrierInv'
  BY <1>11, LooksAt DEF EndTick, Ticking, NativeInv, TypeOK, CarrierInv, Pairs
<1>12. ASSUME Attempt
      PROVE  CarrierInv'
  <2>1. PICK p \in Packages : sending[1] = p /\ AllQueued(p)
    BY <1>12 DEF Attempt, NativeInv, CarrierInv, Pairs
  <2>2. AllQueued(p)' /\ sending \in Pairs
    BY <1>12, <2>1, AllQueuedLasts DEF Attempt, NativeInv, CarrierInv
  <2> QED
    BY <1>12, <2>1, <2>2, LooksAt
       DEF Attempt, NativeInv, TypeOK, CarrierInv, AllQueued, Kept
<1>13. ASSUME Transmit
      PROVE  CarrierInv'
  BY <1>13, LooksAt
     DEF Transmit, Transmitted, WriteBack, NativeInv, TypeOK, CarrierInv, Pairs
<1>14. ASSUME CannotConnect
      PROVE  CarrierInv'
  BY <1>14, LooksAt
     DEF CannotConnect, Transmitted, WriteBack, NativeInv, TypeOK, CarrierInv,
         Pairs
<1>15. ASSUME NEW l \in Lodgements, Publish(l)
      PROVE  CarrierInv'
  BY <1>15, LooksAt DEF Publish, NativeInv, CarrierInv, AllQueued, Kept
<1>16. ASSUME NEW t \in Receivers, NEW e \in answered, Match(t, e)
      PROVE  CarrierInv'
  <2>1. pc'[Carrier] = pc[Carrier]
    BY <1>16 DEF Match, NativeInv, TypeOK
  <2> QED
    BY <1>16, <2>1, CarrierRests DEF Match, NativeInv
<1>17. ASSUME NEW t \in Receivers, Retain(t)
      PROVE  CarrierInv'
  <2>1. frame[t] \in Evidence
    BY <1>17, AtHand
  <2>4. \E label : pc' = [pc EXCEPT ![t] = label]
    BY <1>17, <2>1, Retains
  <2>2. pc'[Carrier] = pc[Carrier]
    BY <2>4 DEF NativeInv, TypeOK
  <2>3. UNCHANGED <<job, lodged, outgoing, staging, toQueue, sending>>
    BY <1>17, RetainRests
  <2> QED
    BY <2>2, <2>3, CarrierRests DEF NativeInv
<1>18. ASSUME NEW t \in Receivers, CompareReceipt(t)
      PROVE  CarrierInv'
  <2>1. pc'[Carrier] = pc[Carrier]
    BY <1>18 DEF CompareReceipt, Drop, NativeInv, TypeOK
  <2> QED
    BY <1>18, <2>1, CarrierRests DEF CompareReceipt, Drop, NativeInv
<1>19. ASSUME NEW t \in Receivers, WriteReceipt(t)
      PROVE  CarrierInv'
  <2>1. pc'[Carrier] = pc[Carrier]
    BY <1>19 DEF WriteReceipt, NativeInv, TypeOK
  <2> QED
    BY <1>19, <2>1, CarrierRests DEF WriteReceipt, NativeInv
<1>20. ASSUME NEW t \in Receivers, Learn(t)
      PROVE  CarrierInv'
  <2>1. pc'[Carrier] = pc[Carrier]
    BY <1>20 DEF Learn, NativeInv, TypeOK
  <2> QED
    BY <1>20, <2>1, CarrierRests DEF Learn, NativeInv
<1>21. ASSUME NEW t \in Receivers, Settle(t)
      PROVE  CarrierInv'
  <2>1. pc'[Carrier] = pc[Carrier]
    BY <1>21 DEF Settle, Drop, NativeInv, TypeOK
  <2> QED
    BY <1>21, <2>1, CarrierRests DEF Settle, Drop, NativeInv
<1>22. ASSUME NEW t \in Receivers, LastRefusal(t)
      PROVE  CarrierInv'
  <2>1. pc'[Carrier] = pc[Carrier]
    BY <1>22 DEF LastRefusal, Drop, NativeInv, TypeOK
  <2> QED
    BY <1>22, <2>1, CarrierRests DEF LastRefusal, Drop, NativeInv
<1>23. ASSUME NEW t \in Receivers, RetainRefusal(t)
      PROVE  CarrierInv'
  <2>1. pc'[Carrier] = pc[Carrier]
    BY <1>23 DEF RetainRefusal, Drop, NativeInv, TypeOK
  <2> QED
    BY <1>23, <2>1, CarrierRests DEF RetainRefusal, Drop, NativeInv
<1>24. ASSUME Crash
      PROVE  CarrierInv'
  BY <1>24, LooksAt DEF Crash, NativeInv, TypeOK, CarrierInv, Pairs
<1>25. CASE UNCHANGED vars
  BY <1>25, CarrierRests DEF vars, NativeInv
<1> QED
  BY <1>1, <1>2, <1>3, <1>4, <1>5, <1>6, <1>7, <1>8, <1>9, <1>10, <1>11, <1>12,
     <1>13, <1>14, <1>15, <1>16, <1>17, <1>18, <1>19, <1>20, <1>21, <1>22,
     <1>23, <1>24, <1>25
     DEF Next, CarrierStep, TickStep, ReceiveStep, Retain

\* What the sender claims stays what custodians hold.
LEMMA EvidenceKept ==
  ASSUME NativeInv, [Next]_vars, TypeOK', Lasting
  PROVE  EvidenceIsHeld'
<1>1. ASSUME UNCHANGED nativeVars, MaterializeStep(Carrier)
      PROVE  EvidenceIsHeld'
  BY <1>1, Materializes DEF NativeInv, OnlyStages, EvidenceIsHeld
<1>2. ASSUME UNCHANGED nativeVars, RecoverStep
      PROVE  EvidenceIsHeld'
  BY <1>2, Recovers DEF NativeInv, OnlyStages, EvidenceIsHeld
<1>3. ASSUME StartPorter
      PROVE  EvidenceIsHeld'
  BY <1>3 DEF StartPorter, NativeInv, TypeOK, EvidenceIsHeld
<1>4. ASSUME NEW p \in Packages, StagePackage(p)
      PROVE  EvidenceIsHeld'
  BY <1>4 DEF StagePackage, Ticking, NativeInv, TypeOK, EvidenceIsHeld
<1>5. ASSUME NoteAttempt
      PROVE  EvidenceIsHeld'
  BY <1>5 DEF NoteAttempt, NativeInv, TypeOK, EvidenceIsHeld
<1>6. ASSUME NEW c \in Custodians, Queue(c)
      PROVE  EvidenceIsHeld'
  BY <1>6 DEF Queue, NativeInv, TypeOK, EvidenceIsHeld
<1>7. ASSUME SameUnit
      PROVE  EvidenceIsHeld'
  BY <1>7 DEF SameUnit, Compared, NativeInv, TypeOK, EvidenceIsHeld
<1>8. ASSUME QueueRaises
      PROVE  EvidenceIsHeld'
  BY <1>8 DEF QueueRaises, Compared, NativeInv, TypeOK, EvidenceIsHeld
<1>9. ASSUME Await
      PROVE  EvidenceIsHeld'
  BY <1>9 DEF Await, NativeInv, TypeOK, EvidenceIsHeld
<1>10. ASSUME NEW u \in Pairs, ReadUnit(u)
      PROVE  EvidenceIsHeld'
  BY <1>10 DEF ReadUnit, Ticking, NativeInv, TypeOK, EvidenceIsHeld
<1>11. ASSUME EndTick
      PROVE  EvidenceIsHeld'
  BY <1>11 DEF EndTick, Ticking, NativeInv, TypeOK, EvidenceIsHeld
<1>12. ASSUME Attempt
      PROVE  EvidenceIsHeld'
  BY <1>12 DEF Attempt, WriteBack, NativeInv, TypeOK, EvidenceIsHeld
<1>13. ASSUME Transmit
      PROVE  EvidenceIsHeld'
  <2>1. UNCHANGED <<accepted, receipts, known>>
    BY <1>13 DEF Transmit, Transmitted
  <2>2. ASSUME NEW p \in Packages, NEW c \in Custodians
        PROVE  accepted'[p][c] \in {None, holds'[p][c]}
    BY ZenonT(40), <2>1 DEF NativeInv, EvidenceIsHeld, Lasting
  <2> QED
    BY <2>1, <2>2 DEF NativeInv, EvidenceIsHeld
<1>14. ASSUME CannotConnect
      PROVE  EvidenceIsHeld'
  BY <1>14
     DEF CannotConnect, Transmitted, WriteBack, NativeInv, TypeOK,
         EvidenceIsHeld
<1>15. ASSUME NEW l \in Lodgements, Publish(l)
      PROVE  EvidenceIsHeld'
  BY <1>15 DEF Publish, NativeInv, TypeOK, EvidenceIsHeld
<1>16. ASSUME NEW t \in Receivers, NEW e \in answered, Match(t, e)
      PROVE  EvidenceIsHeld'
  BY <1>16 DEF Match, NativeInv, TypeOK, EvidenceIsHeld
<1>17. ASSUME NEW t \in Receivers, Retain(t)
      PROVE  EvidenceIsHeld'
  <2>1. /\ frame[t] \in Evidence
        /\ frame[t].package \in Packages /\ frame[t].custodian \in Custodians
        /\ frame[t].result \in Answers
    BY <1>17, AtHand
  <2>2. \A p \in Packages, c \in Custodians :
          accepted'[p][c] \in {accepted[p][c], None, holds[p][c]}
    <3>1. CASE accepted' = accepted
      BY <3>1
    <3>2. CASE accepted' # accepted
      <4>1. /\ Outcome(t) \in AcceptanceIds
            /\ accepted' =
                 [accepted EXCEPT ![frame[t].package][frame[t].custodian] =
                    Outcome(t)]
        BY <1>17, <2>1, <3>2, Retains
      <4>2. holds[frame[t].package][frame[t].custodian] = Outcome(t)
        BY <1>17, <4>1, AtHand
      <4> QED
        BY <2>1, <4>1, <4>2 DEF NativeInv, TypeOK
    <3> QED
      BY <3>1, <3>2
  <2>3. UNCHANGED <<receipts, known, holds>>
    BY <1>17, RetainRests
  <2>4. \A p \in Packages, c \in Custodians :
          accepted[p][c] # None => accepted'[p][c] = accepted[p][c]
    BY DEF Lasting
  <2> QED
    BY <2>2, <2>3, <2>4 DEF NativeInv, TypeOK, EvidenceIsHeld
<1>18. ASSUME NEW t \in Receivers, CompareReceipt(t)
      PROVE  EvidenceIsHeld'
  BY <1>18 DEF CompareReceipt, Drop, NativeInv, TypeOK, EvidenceIsHeld
<1>19. ASSUME NEW t \in Receivers, WriteReceipt(t)
      PROVE  EvidenceIsHeld'
  <2>1. /\ frame[t] \in Evidence
        /\ frame[t].package \in Packages /\ frame[t].custodian \in Custodians
        /\ frame[t].result \in Answers
    BY <1>19 DEF WriteReceipt, NativeInv, FrameInv, Evidence
  <2>2. Outcome(t) \in AcceptanceIds
        /\ accepted[frame[t].package][frame[t].custodian] = Outcome(t)
    BY <1>19 DEF WriteReceipt, NativeInv, FrameInv, Retained
  <2> QED
    BY <1>19, <2>1, <2>2 DEF WriteReceipt, NativeInv, TypeOK, EvidenceIsHeld
<1>20. ASSUME NEW t \in Receivers, Learn(t)
      PROVE  EvidenceIsHeld'
  <2>1. /\ frame[t] \in Evidence
        /\ frame[t].package \in Packages /\ frame[t].custodian \in Custodians
        /\ frame[t].result \in Answers
    BY <1>20 DEF Learn, NativeInv, FrameInv, Evidence
  <2>2. receipts[frame[t].package] # None
    BY <1>20 DEF Learn, NativeInv, FrameInv, Retained
  <2> QED
    BY <1>20, <2>1, <2>2 DEF Learn, NativeInv, EvidenceIsHeld
<1>21. ASSUME NEW t \in Receivers, Settle(t)
      PROVE  EvidenceIsHeld'
  BY <1>21 DEF Settle, Drop, NativeInv, TypeOK, EvidenceIsHeld
<1>22. ASSUME NEW t \in Receivers, LastRefusal(t)
      PROVE  EvidenceIsHeld'
  BY <1>22
     DEF LastRefusal, Drop, NoneOutstanding, NativeInv, TypeOK, EvidenceIsHeld
<1>23. ASSUME NEW t \in Receivers, RetainRefusal(t)
      PROVE  EvidenceIsHeld'
  BY <1>23 DEF RetainRefusal, Drop, NativeInv, TypeOK, EvidenceIsHeld
<1>24. ASSUME Crash
      PROVE  EvidenceIsHeld'
  BY <1>24 DEF Crash, NativeInv, TypeOK, EvidenceIsHeld
<1>25. CASE UNCHANGED vars
  BY <1>25 DEF NativeInv, TypeOK, EvidenceIsHeld, vars
<1> QED
  BY <1>1, <1>2, <1>3, <1>4, <1>5, <1>6, <1>7, <1>8, <1>9, <1>10, <1>11, <1>12,
     <1>13, <1>14, <1>15, <1>16, <1>17, <1>18, <1>19, <1>20, <1>21, <1>22,
     <1>23, <1>24, <1>25
     DEF Next, CarrierStep, TickStep, ReceiveStep, Retain

----------------------------------------------------------------------------
LEMMA TrueLasts ==
  ASSUME TypeOK, Lasting, NEW e \in Evidence, True(e)
  PROVE  True(e)'
<1>1. e.package \in Packages /\ e.custodian \in Custodians
  BY DEF Evidence
<1>2. CASE e.result \notin AcceptanceIds
  BY <1>2 DEF True
<1>3. CASE e.result \in AcceptanceIds
  <2>1. holds[e.package][e.custodian] = e.result /\ e.result # None
    BY <1>3 DEF True
  <2> QED
    BY <1>1, <2>1 DEF Lasting, True
<1> QED
  BY <1>2, <1>3

\* A receive thread at rest keeps its frame's evidence.
LEMMA FrameRests ==
  ASSUME TypeOK, FrameInv, Lasting, StayRefused, NEW t \in Receivers,
         pc[t] \notin {"down", "listen"}, pc'[t] = pc[t], frame'[t] = frame[t]
  PROVE  frame'[t] \in Evidence /\ True(frame[t])' /\ Retained(t)'
<1>1. PICK e \in Evidence : e = frame[t] /\ True(e) /\ Retained(t)
  BY DEF FrameInv
<1>2. True(e)'
  BY <1>1, TrueLasts
<1>3. e.package \in Packages /\ e.custodian \in Custodians
  BY DEF Evidence
<1>4. Retained(t)'
  <2>1. ASSUME pc[t] \in {"compatible", "receipt?", "receipt", "learn",
                          "settle"}
        PROVE  /\ e.result \in AcceptanceIds
               /\ accepted'[e.package][e.custodian] = e.result
    BY <1>1, <1>3, <2>1 DEF Retained, Outcome, Lasting
  <2>2. ASSUME pc[t] \in {"unlink", "last", "accepted?", "refuse"}
        PROVE  declined'[e.package][e.custodian] # None
    BY <1>1, <1>3, <2>2 DEF Retained, Lasting
  <2>3. ASSUME pc[t] = "learn"
        PROVE  receipts'[e.package] # None
    BY <1>1, <1>3, <2>3 DEF Retained, Lasting
  <2>4. ASSUME pc[t] = "accepted?", NEW d \in Custodians
        PROVE  Kept(e.package, d)'
    BY ZenonT(40), <1>1, <1>3, <2>4 DEF Retained, Lasting, Kept
  <2>5. ASSUME pc[t] = "refuse", NEW d \in Custodians
        PROVE  Refused(e.package, d)'
    <3>1. Refused(e.package, d)
      BY <1>1, <2>5 DEF Retained
    <3> QED
      BY <1>1, <1>3, <2>5, <3>1 DEF StayRefused
  <2>6. frame'[t] = e /\ pc'[t] = pc[t]
    BY <1>1
  <2> QED
    BY <2>1, <2>2, <2>3, <2>4, <2>5, <2>6 DEF Retained, Outcome, Kept, Refused
<1> QED
  <2>1. frame'[t] = e
    BY <1>1
  <2>2. True(frame[t])'
    BY <1>2, <2>1 DEF True
  <2> QED
    BY <1>4, <2>1, <2>2

LEMMA FramesRest ==
  ASSUME TypeOK, FrameInv, Lasting, StayRefused, answered' \subseteq answered,
         \A t \in Receivers :
           \/ pc'[t] \in {"down", "listen"}
           \/ pc'[t] = pc[t] /\ frame'[t] = frame[t]
           \/ frame'[t] \in Evidence /\ True(frame[t])' /\ Retained(t)'
  PROVE  FrameInv'
<1>1. ASSUME NEW e \in answered'
      PROVE  True(e)'
  BY <1>1, TrueLasts DEF TypeOK, FrameInv
<1>2. ASSUME NEW t \in Receivers, pc'[t] \notin {"down", "listen"}
      PROVE  frame'[t] \in Evidence /\ True(frame[t])' /\ Retained(t)'
  BY <1>2, FrameRests
<1> QED
  BY <1>1, <1>2 DEF FrameInv

\* Evidence stays true, and is retained before it is used.
LEMMA FramesKept ==
  ASSUME NativeInv, [Next]_vars, TypeOK', Lasting, StayRefused
  PROVE  FrameInv'
<1>1. ASSUME UNCHANGED nativeVars, MaterializeStep(Carrier)
      PROVE  FrameInv'
  BY <1>1, Materializes, FramesRest DEF NativeInv, OnlyStages
<1>2. ASSUME UNCHANGED nativeVars, RecoverStep
      PROVE  FrameInv'
  BY <1>2, Recovers, FramesRest DEF NativeInv, OnlyStages
<1>3. ASSUME StartPorter
      PROVE  FrameInv'
  BY <1>3, FramesRest
     DEF StartPorter, NativeInv, TypeOK
<1>4. ASSUME NEW p \in Packages, StagePackage(p)
      PROVE  FrameInv'
  BY <1>4, FramesRest
     DEF StagePackage, Ticking, NativeInv, TypeOK
<1>5. ASSUME NoteAttempt
      PROVE  FrameInv'
  BY <1>5, FramesRest
     DEF NoteAttempt, NativeInv, TypeOK
<1>6. ASSUME NEW c \in Custodians, Queue(c)
      PROVE  FrameInv'
  BY <1>6, FramesRest
     DEF Queue, NativeInv, TypeOK
<1>7. ASSUME SameUnit
      PROVE  FrameInv'
  BY <1>7, FramesRest
     DEF SameUnit, Compared, NativeInv, TypeOK
<1>8. ASSUME QueueRaises
      PROVE  FrameInv'
  BY <1>8, FramesRest
     DEF QueueRaises, Compared, NativeInv, TypeOK
<1>9. ASSUME Await
      PROVE  FrameInv'
  BY <1>9, FramesRest
     DEF Await, NativeInv, TypeOK
<1>10. ASSUME NEW u \in Pairs, ReadUnit(u)
      PROVE  FrameInv'
  BY <1>10, FramesRest
     DEF ReadUnit, Ticking, NativeInv, TypeOK
<1>11. ASSUME EndTick
      PROVE  FrameInv'
  BY <1>11, FramesRest
     DEF EndTick, Ticking, NativeInv, TypeOK
<1>12. ASSUME Attempt
      PROVE  FrameInv'
  BY <1>12, FramesRest
     DEF Attempt, WriteBack, NativeInv, TypeOK
<1>13. ASSUME Transmit
      PROVE  FrameInv'
  <2>1. sending[1] \in Packages /\ sending[2] \in Custodians
    BY <1>13 DEF Transmit, NativeInv, CarrierInv, Pairs
  <2>2. /\ answered' \subseteq Evidence
        /\ \A e \in answered' : e \in answered \/ True(e)'
    BY <1>13, <2>1, Deposits DEF Transmit, NativeInv
  <2>3. ASSUME NEW e \in answered'
        PROVE  True(e)'
    BY <2>2, <2>3, TrueLasts DEF NativeInv, FrameInv
  <2>4. \A t \in Receivers : pc'[t] = pc[t] /\ frame'[t] = frame[t]
    BY <1>13 DEF Transmit, Transmitted, NativeInv, TypeOK
  <2>5. ASSUME NEW t \in Receivers, pc'[t] \notin {"down", "listen"}
        PROVE  frame'[t] \in Evidence /\ True(frame[t])' /\ Retained(t)'
    BY <2>4, <2>5, FrameRests DEF NativeInv
  <2> QED
    BY <2>3, <2>5 DEF FrameInv
<1>14. ASSUME CannotConnect
      PROVE  FrameInv'
  BY <1>14, FramesRest
     DEF CannotConnect, Transmitted, WriteBack, NativeInv, TypeOK
<1>15. ASSUME NEW l \in Lodgements, Publish(l)
      PROVE  FrameInv'
  BY <1>15, FramesRest
     DEF Publish, NativeInv, TypeOK
<1>16. ASSUME NEW t \in Receivers, NEW e \in answered, Match(t, e)
      PROVE  FrameInv'
  <2>1. \A v \in Receivers \ {t} : pc'[v] = pc[v] /\ frame'[v] = frame[v]
    BY <1>16 DEF Match, NativeInv, TypeOK
  <2>2. answered' \subseteq answered
    BY <1>16 DEF Match
  <2>3. \/ pc'[t] \in {"down", "listen"}
        \/ frame'[t] \in Evidence /\ True(frame[t])' /\ Retained(t)'
    <3>1. CASE <<e.package, e.custodian>> \notin units
      BY <1>16, <3>1 DEF Match, NativeInv, TypeOK
    <3>2. CASE <<e.package, e.custodian>> \in units
      <4>1. frame'[t] = e /\ pc'[t] = "retain" /\ e \in Evidence
        BY <1>16, <3>2 DEF Match, NativeInv, TypeOK
      <4>2. True(e)'
        BY <1>16, <4>1, TrueLasts DEF NativeInv, FrameInv
      <4> QED
        BY <4>1, <4>2 DEF Retained, True
    <3> QED
      BY <3>1, <3>2
  <2> QED
    BY <2>1, <2>2, <2>3, FramesRest DEF NativeInv
<1>17. ASSUME NEW t \in Receivers, Retain(t)
      PROVE  FrameInv'
  <2>1. PICK e \in Evidence : frame[t] = e /\ True(e)
    BY <1>17, AtHand
  <2>2. e.package \in Packages /\ e.custodian \in Custodians
    BY DEF Evidence
  <2>3. True(e)'
    BY <2>1, TrueLasts DEF NativeInv
  <2>4. \E label, f : /\ pc' = [pc EXCEPT ![t] = label]
                      /\ frame' = [frame EXCEPT ![t] = f]
    <3>1. frame = [frame EXCEPT ![t] = frame[t]]
      BY DEF NativeInv, TypeOK
    <3> QED
      BY <1>17, <2>1, <3>1, Retains
  <2>5. \A v \in Receivers \ {t} : pc'[v] = pc[v] /\ frame'[v] = frame[v]
    BY <2>4 DEF NativeInv, TypeOK
  <2>6. answered' \subseteq answered
    BY <1>17, RetainRests
  <2>7. \/ pc'[t] \in {"down", "listen"}
        \/ frame'[t] \in Evidence /\ True(frame[t])' /\ Retained(t)'
    <3>1. CASE pc' = [pc EXCEPT ![t] = "listen"]
      BY <3>1 DEF NativeInv, TypeOK
    <3>2. CASE pc' = [pc EXCEPT ![t] = "evidence"] /\ frame' = frame
      <4>1. pc'[t] = "evidence" /\ frame'[t] = e
        BY <2>1, <3>2 DEF NativeInv, TypeOK
      <4> QED
        BY <2>3, <4>1 DEF Retained, True
    <3>3. CASE /\ Outcome(t) \in AcceptanceIds
               /\ accepted'[e.package][e.custodian] = Outcome(t)
               /\ pc' = [pc EXCEPT ![t] = "compatible"]
               /\ frame' = frame
      <4>1. pc'[t] = "compatible" /\ frame'[t] = e
        BY <2>1, <3>3 DEF NativeInv, TypeOK
      <4>2. /\ accepted'[e.package][e.custodian] = e.result
            /\ e.result \in AcceptanceIds
        BY <2>1, <3>3 DEF Outcome
      <4> QED
        BY <2>3, <4>1, <4>2 DEF Retained, True, Outcome
    <3>4. CASE /\ declined'[e.package][e.custodian] # None
               /\ pc' = [pc EXCEPT ![t] = "unlink"]
               /\ frame' = frame
      <4>1. pc'[t] = "unlink" /\ frame'[t] = e
        BY <2>1, <3>4 DEF NativeInv, TypeOK
      <4> QED
        BY <2>3, <3>4, <4>1 DEF Retained, True
    <3>5. ASSUME Outcome(t) \in AcceptanceIds,
                 accepted' = [accepted EXCEPT ![e.package][e.custodian] =
                                Outcome(t)]
          PROVE  accepted'[e.package][e.custodian] = Outcome(t)
      BY <2>2, <3>5 DEF NativeInv, TypeOK
    <3>6. ASSUME Outcome(t) \in AcceptanceIds, UNCHANGED accepted,
                 accepted[e.package][e.custodian] # None
          PROVE  accepted'[e.package][e.custodian] = Outcome(t)
      BY <1>17, <2>1, <3>6, AtHand
    <3>7. ASSUME Outcome(t) \in Reasons,
                 declined' = [declined EXCEPT ![e.package][e.custodian] =
                                Outcome(t)]
          PROVE  declined'[e.package][e.custodian] # None
      BY <2>2, <3>7 DEF NativeInv, TypeOK
    <3> QED
      BY ZenonT(60), <1>17, <2>1, <3>1, <3>2, <3>3, <3>4, <3>5, <3>6, <3>7,
         Retains
  <2> QED
    BY <2>5, <2>6, <2>7, FramesRest DEF NativeInv
<1>18. ASSUME NEW t \in Receivers, CompareReceipt(t)
      PROVE  FrameInv'
  <2>1. \A v \in Receivers \ {t} : pc'[v] = pc[v] /\ frame'[v] = frame[v]
    BY <1>18 DEF CompareReceipt, Drop, NativeInv, TypeOK
  <2>2. answered' \subseteq answered
    BY <1>18 DEF CompareReceipt
  <2>3. \/ pc'[t] \in {"down", "listen"}
        \/ frame'[t] \in Evidence /\ True(frame[t])' /\ Retained(t)'
    <3>1. PICK e \in Evidence : frame[t] = e /\ True(e) /\ Retained(t)
      BY <1>18 DEF CompareReceipt, NativeInv, FrameInv
    <3>2. True(e)' /\ e.package \in Packages /\ e.custodian \in Custodians
      BY <3>1, TrueLasts DEF NativeInv, Evidence
    <3> QED
      BY <1>18, <3>1, <3>2
         DEF CompareReceipt, Drop, NativeInv, TypeOK, Retained, True, Outcome,
             Kept
  <2> QED
    BY <2>1, <2>2, <2>3, FramesRest DEF NativeInv
<1>19. ASSUME NEW t \in Receivers, WriteReceipt(t)
      PROVE  FrameInv'
  <2>1. \A v \in Receivers \ {t} : pc'[v] = pc[v] /\ frame'[v] = frame[v]
    BY <1>19 DEF WriteReceipt, NativeInv, TypeOK
  <2>2. answered' \subseteq answered
    BY <1>19 DEF WriteReceipt
  <2>3. \/ pc'[t] \in {"down", "listen"}
        \/ frame'[t] \in Evidence /\ True(frame[t])' /\ Retained(t)'
    <3>1. PICK e \in Evidence : frame[t] = e /\ True(e) /\ Retained(t)
      BY <1>19 DEF WriteReceipt, NativeInv, FrameInv
    <3>2. True(e)' /\ e.package \in Packages /\ e.custodian \in Custodians
      BY <3>1, TrueLasts DEF NativeInv, Evidence
    <3> QED
      BY <1>19, <3>1, <3>2
         DEF WriteReceipt, NativeInv, TypeOK, Retained, True, Outcome, Kept,
             Answers
  <2> QED
    BY <2>1, <2>2, <2>3, FramesRest DEF NativeInv
<1>20. ASSUME NEW t \in Receivers, Learn(t)
      PROVE  FrameInv'
  <2>1. \A v \in Receivers \ {t} : pc'[v] = pc[v] /\ frame'[v] = frame[v]
    BY <1>20 DEF Learn, NativeInv, TypeOK
  <2>2. answered' \subseteq answered
    BY <1>20 DEF Learn
  <2>3. \/ pc'[t] \in {"down", "listen"}
        \/ frame'[t] \in Evidence /\ True(frame[t])' /\ Retained(t)'
    <3>1. PICK e \in Evidence : frame[t] = e /\ True(e) /\ Retained(t)
      BY <1>20 DEF Learn, NativeInv, FrameInv
    <3>2. True(e)' /\ e.package \in Packages /\ e.custodian \in Custodians
      BY <3>1, TrueLasts DEF NativeInv, Evidence
    <3> QED
      BY <1>20, <3>1, <3>2
         DEF Learn, NativeInv, TypeOK, Retained, True, Outcome, Kept
  <2> QED
    BY <2>1, <2>2, <2>3, FramesRest DEF NativeInv
<1>21. ASSUME NEW t \in Receivers, Settle(t)
      PROVE  FrameInv'
  <2>1. \A v \in Receivers \ {t} : pc'[v] = pc[v] /\ frame'[v] = frame[v]
    BY <1>21 DEF Settle, Drop, NativeInv, TypeOK
  <2>2. answered' \subseteq answered
    BY <1>21 DEF Settle
  <2>3. \/ pc'[t] \in {"down", "listen"}
        \/ frame'[t] \in Evidence /\ True(frame[t])' /\ Retained(t)'
    <3>1. PICK e \in Evidence : frame[t] = e /\ True(e) /\ Retained(t)
      BY <1>21 DEF Settle, NativeInv, FrameInv
    <3>2. True(e)' /\ e.package \in Packages /\ e.custodian \in Custodians
      BY <3>1, TrueLasts DEF NativeInv, Evidence
    <3> QED
      BY <1>21, <3>1, <3>2
         DEF Settle, Drop, NativeInv, TypeOK, Retained, True, Outcome, Kept
  <2> QED
    BY <2>1, <2>2, <2>3, FramesRest DEF NativeInv
<1>22. ASSUME NEW t \in Receivers, LastRefusal(t)
      PROVE  FrameInv'
  <2>1. \A v \in Receivers \ {t} : pc'[v] = pc[v] /\ frame'[v] = frame[v]
    BY <1>22 DEF LastRefusal, Drop, NoneOutstanding, NativeInv, TypeOK
  <2>2. answered' \subseteq answered
    BY <1>22 DEF LastRefusal
  <2>3. \/ pc'[t] \in {"down", "listen"}
        \/ frame'[t] \in Evidence /\ True(frame[t])' /\ Retained(t)'
    <3>1. PICK e \in Evidence : frame[t] = e /\ True(e) /\ Retained(t)
      BY <1>22 DEF LastRefusal, NativeInv, FrameInv
    <3>2. True(e)' /\ e.package \in Packages /\ e.custodian \in Custodians
      BY <3>1, TrueLasts DEF NativeInv, Evidence
    <3>3. CASE pc'[t] = "listen"
      BY <3>3
    <3>4. CASE /\ pc[t] = "last" /\ NoneOutstanding(e.package)
               /\ pc' = [pc EXCEPT ![t] = "accepted?"]
               /\ UNCHANGED <<frame, accepted, declined>>
      <4>1. declined[e.package][e.custodian] # None
        BY <3>1, <3>4 DEF Retained
      <4>2. Kept(e.package, e.custodian) /\ Begun(e.package)
        BY <3>2, <4>1 DEF Kept, Begun
      <4>3. ~BeingStaged(e.package)
        BY <3>2, <4>2 DEF BeingStaged
      <4>4. AllQueued(e.package)
        BY <3>2, <4>2, <4>3 DEF NativeInv, QueueInv
      <4>5. \A d \in Custodians : Kept(e.package, d)
        BY <3>4, <4>4 DEF AllQueued, NoneOutstanding
      <4>6. pc'[t] = "accepted?" /\ frame'[t] = e
        BY <3>1, <3>4 DEF NativeInv, TypeOK
      <4> QED
        BY <3>1, <3>2, <3>4, <4>1, <4>5, <4>6 DEF Retained, True, Kept
    <3>5. CASE /\ pc[t] = "accepted?"
               /\ \A c \in Custodians : accepted[e.package][c] = None
               /\ pc' = [pc EXCEPT ![t] = "refuse"]
               /\ UNCHANGED <<frame, accepted, declined>>
      <4>1. /\ declined[e.package][e.custodian] # None
            /\ \A d \in Custodians : declined[e.package][d] # None
        BY <3>1, <3>5 DEF Retained, Kept
      <4>2. pc'[t] = "refuse" /\ frame'[t] = e
        BY <3>1, <3>5 DEF NativeInv, TypeOK
      <4> QED
        BY <3>1, <3>2, <3>5, <4>1, <4>2 DEF Retained, True, Refused
    <3> QED
      BY <1>22, <3>1, <3>3, <3>4, <3>5 DEF LastRefusal, Drop, NativeInv, TypeOK
  <2> QED
    BY <2>1, <2>2, <2>3, FramesRest DEF NativeInv
<1>23. ASSUME NEW t \in Receivers, RetainRefusal(t)
      PROVE  FrameInv'
  <2>1. \A v \in Receivers \ {t} : pc'[v] = pc[v] /\ frame'[v] = frame[v]
    BY <1>23 DEF RetainRefusal, Drop, NativeInv, TypeOK
  <2>2. answered' \subseteq answered
    BY <1>23 DEF RetainRefusal
  <2>3. pc'[t] = "listen"
    BY <1>23 DEF RetainRefusal, Drop, NativeInv, TypeOK
  <2> QED
    BY <2>1, <2>2, <2>3, FramesRest DEF NativeInv
<1>24. ASSUME Crash
      PROVE  FrameInv'
  BY <1>24, FramesRest
     DEF Crash, NativeInv, TypeOK
<1>25. CASE UNCHANGED vars
  BY <1>25, FramesRest DEF vars, NativeInv
<1> QED
  BY <1>1, <1>2, <1>3, <1>4, <1>5, <1>6, <1>7, <1>8, <1>9, <1>10, <1>11, <1>12,
     <1>13, <1>14, <1>15, <1>16, <1>17, <1>18, <1>19, <1>20, <1>21, <1>22,
     <1>23, <1>24, <1>25
     DEF Next, CarrierStep, TickStep, ReceiveStep, Retain

----------------------------------------------------------------------------
\* No step without evidence begins a Package or takes it off the stage.
LEMMA QueueRests ==
  ASSUME QueueInv, Lasting, units' \subseteq units,
         outgoing \subseteq outgoing',
         UNCHANGED <<accepted, declined>>, answered' \subseteq answered,
         \A t \in Receivers : frame'[t] \in {None, frame[t]},
         \/ pc'[Carrier] \notin {"send", "connect"}
         \/ pc[Carrier] \in {"send", "connect"}
         \/ outgoing = {}
  PROVE  QueueInv'
<1> SUFFICES ASSUME NEW p \in Packages, Begun(p)'
             PROVE  AllQueued(p)' \/ BeingStaged(p)'
  BY DEF QueueInv
<1>1. Begun(p)
  BY DEF Begun, Kept
<1>2. CASE AllQueued(p)
  BY <1>2, AllQueuedLasts
<1>3. CASE BeingStaged(p)
  BY <1>3 DEF BeingStaged, Kept
<1> QED
  BY <1>1, <1>2, <1>3 DEF QueueInv

\* While the carry thread sends, whatever is begun is queued for everybody.
LEMMA SendingRests ==
  ASSUME QueueInv, CarrierInv, Lasting, pc[Carrier] \in {"send", "connect"},
         \A p \in Packages : Begun(p)' => Begun(p) \/ p = sending[1]
  PROVE  QueueInv'
<1> SUFFICES ASSUME NEW p \in Packages, Begun(p)'
             PROVE  AllQueued(p)'
  BY DEF QueueInv
<1>1. AllQueued(p)
  BY DEF QueueInv, CarrierInv, BeingStaged
<1> QED
  BY <1>1, AllQueuedLasts

\* A Package is queued for everybody before anything of it is sent.
LEMMA QueueKept ==
  ASSUME NativeInv, [Next]_vars, TypeOK', Lasting
  PROVE  QueueInv'
<1>1. ASSUME UNCHANGED nativeVars, MaterializeStep(Carrier)
      PROVE  QueueInv'
  BY <1>1, Materializes, QueueRests DEF NativeInv, OnlyStages, Works
<1>2. ASSUME UNCHANGED nativeVars, RecoverStep
      PROVE  QueueInv'
  BY <1>2, Recovers, QueueRests DEF NativeInv, OnlyStages, Works
<1>3. ASSUME StartPorter
      PROVE  QueueInv'
  BY <1>3, QueueRests
     DEF StartPorter, NativeInv, TypeOK
<1>4. ASSUME NEW p \in Packages, StagePackage(p)
      PROVE  QueueInv'
  BY <1>4, QueueRests
     DEF StagePackage, Ticking, NativeInv, TypeOK
<1>5. ASSUME NoteAttempt
      PROVE  QueueInv'
  BY <1>5, QueueRests
     DEF NoteAttempt, NativeInv, TypeOK
<1>6. ASSUME NEW c \in Custodians, Queue(c)
      PROVE  QueueInv'
  <2>1. staging \in outgoing /\ staging \in Packages
    BY <1>6 DEF Queue, NativeInv, TypeOK, CarrierInv
  <2>2. /\ pc'[Carrier] \notin {"send", "connect"}
        /\ UNCHANGED <<outgoing, answered, frame, accepted, declined>>
        /\ units' \subseteq units \cup {<<staging, c>>}
    BY <1>6 DEF Queue, NativeInv, TypeOK
  <2>3. ASSUME NEW p \in Packages, Begun(p)'
        PROVE  AllQueued(p)' \/ BeingStaged(p)'
    <3>1. CASE Begun(p)
      <4>1. CASE AllQueued(p)
        BY <4>1, AllQueuedLasts
      <4>2. CASE BeingStaged(p)
        BY <2>2, <4>2 DEF BeingStaged, Kept
      <4> QED
        BY <3>1, <4>1, <4>2 DEF NativeInv, QueueInv
    <3>2. CASE ~Begun(p)
      <4>1. p = staging
        BY <2>2, <2>3, <3>2 DEF Begun, Kept
      <4> QED
        BY <2>1, <2>2, <3>2, <4>1 DEF BeingStaged, Begun, Kept
    <3> QED
      BY <3>1, <3>2
  <2> QED
    BY <2>3 DEF QueueInv
<1>7. ASSUME SameUnit
      PROVE  QueueInv'
  BY <1>7, QueueRests
     DEF SameUnit, Compared, NativeInv, TypeOK
<1>8. ASSUME QueueRaises
      PROVE  QueueInv'
  BY <1>8, QueueRests
     DEF QueueRaises, Compared, NativeInv, TypeOK
<1>9. ASSUME Await
      PROVE  QueueInv'
  <2>1. staging \in Packages /\ AllQueued(staging)
    BY <1>9 DEF Await, NativeInv, TypeOK, CarrierInv, AllQueued
  <2>2. /\ pc'[Carrier] \notin {"send", "connect"}
        /\ UNCHANGED <<units, answered, frame, accepted, declined>>
        /\ outgoing' = outgoing \ {staging}
    BY <1>9 DEF Await, NativeInv, TypeOK
  <2>3. ASSUME NEW p \in Packages, Begun(p)'
        PROVE  AllQueued(p)' \/ BeingStaged(p)'
    <3>1. Begun(p)
      BY <2>2, <2>3 DEF Begun, Kept
    <3>2. CASE AllQueued(p)
      BY <3>2, AllQueuedLasts
    <3>3. CASE BeingStaged(p) /\ p # staging
      BY <2>2, <3>3 DEF BeingStaged, Kept
    <3> QED
      BY <2>1, <3>1, <3>2, <3>3 DEF NativeInv, QueueInv
  <2> QED
    BY <2>3 DEF QueueInv
<1>10. ASSUME NEW u \in Pairs, ReadUnit(u)
      PROVE  QueueInv'
  BY <1>10, QueueRests
     DEF ReadUnit, Ticking, NativeInv, TypeOK
<1>11. ASSUME EndTick
      PROVE  QueueInv'
  BY <1>11, QueueRests
     DEF EndTick, Ticking, NativeInv, TypeOK
<1>12. ASSUME Attempt
      PROVE  QueueInv'
  <2>1. pc[Carrier] = "send" /\ sending \in Pairs
    BY <1>12 DEF Attempt, NativeInv, CarrierInv
  <2>2. ASSUME NEW p \in Packages, Begun(p)'
        PROVE  Begun(p) \/ p = sending[1]
    BY <1>12, <2>1, <2>2 DEF Attempt, WriteBack, Begun, Kept, Pairs
  <2> QED
    BY <2>1, <2>2, SendingRests DEF NativeInv
<1>13. ASSUME Transmit
      PROVE  QueueInv'
  <2>1. PICK p \in Packages, c \in Custodians :
          /\ pc[Carrier] = "connect" /\ sending = <<p, c>> /\ sending[1] = p
          /\ Deposit(p, c)
    BY <1>13 DEF Transmit, NativeInv, CarrierInv, Pairs
  <2>2. \A e \in answered' : e \in answered \/ e.package = p
    BY <2>1, Deposits DEF NativeInv
  <2>3. /\ UNCHANGED <<accepted, declined, frame>>
        /\ units' \subseteq units \cup {<<p, c>>}
    BY <1>13, <2>1 DEF Transmit, Transmitted, WriteBack
  <2>4. ASSUME NEW q \in Packages, Begun(q)'
        PROVE  Begun(q) \/ q = p
    BY SMTT(20), <2>2, <2>3, <2>4 DEF Begun, Kept
  <2> QED
    BY <2>1, <2>4, SendingRests DEF NativeInv
<1>14. ASSUME CannotConnect
      PROVE  QueueInv'
  <2>1. pc[Carrier] = "connect" /\ sending \in Pairs
    BY <1>14 DEF CannotConnect, NativeInv, CarrierInv
  <2>2. ASSUME NEW p \in Packages, Begun(p)'
        PROVE  Begun(p) \/ p = sending[1]
    BY <1>14, <2>1, <2>2
       DEF CannotConnect, Transmitted, WriteBack, Begun, Kept, Pairs
  <2> QED
    BY <2>1, <2>2, SendingRests DEF NativeInv
<1>15. ASSUME NEW l \in Lodgements, Publish(l)
      PROVE  QueueInv'
  BY <1>15, QueueRests
     DEF Publish, NativeInv, TypeOK
<1>16. ASSUME NEW t \in Receivers, NEW e \in answered, Match(t, e)
      PROVE  QueueInv'
  <2>1. /\ pc'[Carrier] = pc[Carrier]
        /\ UNCHANGED <<units, outgoing, accepted, declined>>
        /\ answered' \subseteq answered
        /\ \A v \in Receivers : frame'[v] \in {frame[v], e}
    BY <1>16 DEF Match, NativeInv, TypeOK
  <2>2. ASSUME NEW p \in Packages, Begun(p)'
        PROVE  AllQueued(p)' \/ BeingStaged(p)'
    <3>1. Begun(p)
      BY <2>1, <2>2 DEF Begun, Kept
    <3>2. CASE AllQueued(p)
      BY <3>2, AllQueuedLasts
    <3>3. CASE BeingStaged(p)
      BY <2>1, <3>3 DEF BeingStaged, Kept
    <3> QED
      BY <3>1, <3>2, <3>3 DEF NativeInv, QueueInv
  <2> QED
    BY <2>2 DEF QueueInv
<1>17. ASSUME NEW t \in Receivers, Retain(t)
      PROVE  QueueInv'
  <2>1. /\ frame[t] \in Evidence
        /\ frame[t].package \in Packages /\ frame[t].custodian \in Custodians
        /\ frame[t].result \in Answers
    BY <1>17, AtHand
  <2>2. UNCHANGED <<units, outgoing, answered>>
    BY <1>17, RetainRests
  <2>3. /\ pc'[Carrier] = pc[Carrier]
        /\ \A v \in Receivers : frame'[v] \in {frame[v], None}
    <3>1. \E label : pc' = [pc EXCEPT ![t] = label]
      BY <1>17, <2>1, Retains
    <3>2. frame' = frame \/ frame' = [frame EXCEPT ![t] = None]
      BY <1>17, <2>1, Retains
    <3> QED
      BY <3>1, <3>2 DEF NativeInv, TypeOK
  <2>4. \A p \in Packages \ {frame[t].package}, c \in Custodians :
          Kept(p, c)' <=> Kept(p, c)
    <3>1. \/ accepted' = accepted
          \/ \E x : accepted' =
               [accepted EXCEPT ![frame[t].package][frame[t].custodian] = x]
      BY <1>17, <2>1, Retains
    <3>2. \/ declined' = declined
          \/ \E x : declined' =
               [declined EXCEPT ![frame[t].package][frame[t].custodian] = x]
      BY <1>17, <2>1, Retains
    <3> QED
      BY ZenonT(40), <2>1, <3>1, <3>2 DEF NativeInv, TypeOK, Kept
  <2>5. ASSUME NEW p \in Packages, Begun(p)'
        PROVE  AllQueued(p)' \/ BeingStaged(p)'
    <3>1. Begun(p)
      <4>1. CASE p = frame[t].package
        BY <2>1, <4>1 DEF Begun
      <4>2. CASE p # frame[t].package
        BY <2>2, <2>3, <2>4, <2>5, <4>2 DEF Begun
      <4> QED
        BY <4>1, <4>2
    <3>2. CASE AllQueued(p)
      BY <3>2, AllQueuedLasts
    <3>3. CASE BeingStaged(p)
      <4>1. p # frame[t].package
        BY <2>1, <3>3 DEF BeingStaged
      <4> QED
        BY <2>2, <2>3, <2>4, <3>3, <4>1 DEF BeingStaged
    <3> QED
      BY <3>1, <3>2, <3>3 DEF NativeInv, QueueInv
  <2> QED
    BY <2>5 DEF QueueInv
<1>18. ASSUME NEW t \in Receivers, CompareReceipt(t)
      PROVE  QueueInv'
  BY <1>18, QueueRests
     DEF CompareReceipt, Drop, NativeInv, TypeOK
<1>19. ASSUME NEW t \in Receivers, WriteReceipt(t)
      PROVE  QueueInv'
  BY <1>19, QueueRests
     DEF WriteReceipt, NativeInv, TypeOK
<1>20. ASSUME NEW t \in Receivers, Learn(t)
      PROVE  QueueInv'
  BY <1>20, QueueRests
     DEF Learn, NativeInv, TypeOK
<1>21. ASSUME NEW t \in Receivers, Settle(t)
      PROVE  QueueInv'
  BY <1>21, QueueRests
     DEF Settle, Drop, NativeInv, TypeOK
<1>22. ASSUME NEW t \in Receivers, LastRefusal(t)
      PROVE  QueueInv'
  BY <1>22, QueueRests
     DEF LastRefusal, Drop, NoneOutstanding, NativeInv, TypeOK
<1>23. ASSUME NEW t \in Receivers, RetainRefusal(t)
      PROVE  QueueInv'
  BY <1>23, QueueRests
     DEF RetainRefusal, Drop, NativeInv, TypeOK
<1>24. ASSUME Crash
      PROVE  QueueInv'
  BY <1>24, QueueRests DEF Crash, NativeInv, TypeOK
<1>25. CASE UNCHANGED vars
  BY <1>25, QueueRests DEF vars, NativeInv
<1> QED
  BY <1>1, <1>2, <1>3, <1>4, <1>5, <1>6, <1>7, <1>8, <1>9, <1>10, <1>11, <1>12,
     <1>13, <1>14, <1>15, <1>16, <1>17, <1>18, <1>19, <1>20, <1>21, <1>22,
     <1>23, <1>24, <1>25
     DEF Next, CarrierStep, TickStep, ReceiveStep, Retain

----------------------------------------------------------------------------
LEMMA NativeStep == NativeInv /\ [Next]_vars => NativeInv'
<1> SUFFICES ASSUME NativeInv, [Next]_vars
             PROVE  NativeInv'
  OBVIOUS
<1>1. TypeOK' /\ Lasting /\ StayRefused
  BY TypeStep, Lasts, RefusalsLast
<1> QED
  BY <1>1, CarrierKept, EvidenceKept, FramesKept, QueueKept DEF NativeInv

\* What the sender claims is what custodians hold, and whatever is begun is
\* queued or still to be staged, for every value of the constants.
THEOREM NativeInvariance == Spec => []NativeInv
BY InitNative, NativeStep, PTL DEF Spec

\* native.py tick writes back a Unit it read before, receive threads settle it
\* at once: it is only ever settled with its evidence retained.
THEOREM SettlementsHaveEvidence == Spec => SettledWithEvidence
<1>1. NativeInv /\ [Next]_vars =>
        [\A p \in Packages, c \in Custodians :
           <<p, c>> \in units \ units' => Kept(p, c)']_vars
  BY Lasts DEF Lasting, Kept
<1> QED
  BY <1>1, NativeInvariance, PTL DEF Spec, SettledWithEvidence

\* A Package is refused once the refusals of all custodians are retained, and
\* over no acceptance but one that came after the last look for one.
THEOREM RefusalsAreUnanimous == Spec => RefusalIsUnanimous
<1> DEFINE Unanimous ==
             \A p \in refused' \ refused :
               \A c \in Custodians : Refused(p, c)
<1>1. NativeInv /\ [Next]_vars => [Unanimous]_vars
  <2> SUFFICES ASSUME NativeInv, [Next]_vars
               PROVE  Unanimous
    OBVIOUS
  <2>1. ASSUME UNCHANGED nativeVars, MaterializeStep(Carrier)
        PROVE  Unanimous
    BY <2>1, Materializes DEF NativeInv, OnlyStages
  <2>2. ASSUME UNCHANGED nativeVars, RecoverStep
        PROVE  Unanimous
    BY <2>2, Recovers DEF NativeInv, OnlyStages
  <2>3. ASSUME StartPorter
        PROVE  Unanimous
    BY <2>3 DEF StartPorter, NativeInv
  <2>4. ASSUME NEW p \in Packages, StagePackage(p)
        PROVE  Unanimous
    BY <2>4 DEF StagePackage, Ticking, NativeInv
  <2>5. ASSUME NoteAttempt
        PROVE  Unanimous
    BY <2>5 DEF NoteAttempt, NativeInv
  <2>6. ASSUME NEW c \in Custodians, Queue(c)
        PROVE  Unanimous
    BY <2>6 DEF Queue, NativeInv
  <2>7. ASSUME SameUnit
        PROVE  Unanimous
    BY <2>7 DEF SameUnit, Compared, NativeInv
  <2>8. ASSUME QueueRaises
        PROVE  Unanimous
    BY <2>8 DEF QueueRaises, Compared, NativeInv
  <2>9. ASSUME Await
        PROVE  Unanimous
    BY <2>9 DEF Await, NativeInv
  <2>10. ASSUME NEW u \in Pairs, ReadUnit(u)
        PROVE  Unanimous
    BY <2>10 DEF ReadUnit, Ticking, NativeInv
  <2>11. ASSUME EndTick
        PROVE  Unanimous
    BY <2>11 DEF EndTick, Ticking, NativeInv
  <2>12. ASSUME Attempt
        PROVE  Unanimous
    BY <2>12 DEF Attempt, WriteBack, NativeInv
  <2>13. ASSUME Transmit
        PROVE  Unanimous
    BY <2>13 DEF Transmit, Transmitted, WriteBack, NativeInv
  <2>14. ASSUME CannotConnect
        PROVE  Unanimous
    BY <2>14 DEF CannotConnect, Transmitted, WriteBack, NativeInv
  <2>15. ASSUME NEW l \in Lodgements, Publish(l)
        PROVE  Unanimous
    BY <2>15 DEF Publish, NativeInv
  <2>16. ASSUME NEW t \in Receivers, NEW e \in answered, Match(t, e)
        PROVE  Unanimous
    BY <2>16 DEF Match, NativeInv
  <2>17. ASSUME NEW t \in Receivers, Retain(t)
        PROVE  Unanimous
    BY <2>17, RetainRests
  <2>18. ASSUME NEW t \in Receivers, CompareReceipt(t)
        PROVE  Unanimous
    BY <2>18 DEF CompareReceipt, Drop, NativeInv
  <2>19. ASSUME NEW t \in Receivers, WriteReceipt(t)
        PROVE  Unanimous
    BY <2>19 DEF WriteReceipt, NativeInv
  <2>20. ASSUME NEW t \in Receivers, Learn(t)
        PROVE  Unanimous
    BY <2>20 DEF Learn, NativeInv
  <2>21. ASSUME NEW t \in Receivers, Settle(t)
        PROVE  Unanimous
    BY <2>21 DEF Settle, Drop, NativeInv
  <2>22. ASSUME NEW t \in Receivers, LastRefusal(t)
        PROVE  Unanimous
    BY <2>22 DEF LastRefusal, Drop, NoneOutstanding, NativeInv
  <2>23. ASSUME NEW t \in Receivers, RetainRefusal(t)
        PROVE  Unanimous
    BY <2>23 DEF RetainRefusal, NativeInv, FrameInv, Retained
  <2>24. ASSUME Crash
        PROVE  Unanimous
    BY <2>24 DEF Crash, NativeInv
  <2>25. CASE UNCHANGED vars
    BY <2>25 DEF NativeInv, vars
  <2> QED
    BY <2>1, <2>2, <2>3, <2>4, <2>5, <2>6, <2>7, <2>8, <2>9, <2>10, <2>11,
       <2>12, <2>13, <2>14, <2>15, <2>16, <2>17, <2>18, <2>19, <2>20, <2>21,
       <2>22, <2>23, <2>24, <2>25
       DEF Next, CarrierStep, TickStep, ReceiveStep, Retain
<1> QED
  BY <1>1, NativeInvariance, PTL DEF Spec, RefusalIsUnanimous
===============================================================================
