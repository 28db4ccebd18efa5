---------------------------- MODULE CarriageProofs ----------------------------
(***************************************************************************)
(* Claims of remote acceptance are backed and staged files kept, for any   *)
(* number of Packages, lodgements, Hosts, late answers and crashes.        *)
(***************************************************************************)
EXTENDS Carriage, TLAPS

USE CarrierDistinct, LodgementNone, PackageOfType DEF Clerks

LEMMA InitCarriage == Init => CarriageInv
<1> SUFFICES ASSUME Init
             PROVE  CarriageInv
  OBVIOUS
<1>1. TypeOK
  BY CarriageBounds DEF Init, TypeOK, ClerkLabels
<1>2. WorkInv /\ WireInv
  BY DEF Init, WorkInv, WireInv, AnswerIsTrue, Materializing, CarryingOne,
         Looks
<1>3. ClaimsAreBacked
  BY DEF Init, ClaimsAreBacked
<1> QED
  BY <1>1, <1>2, <1>3 DEF CarriageInv

----------------------------------------------------------------------------
\* What a clerk that materializes may do to the rest: it only stages.
MaterializeFrame(w) ==
  /\ lodged' = lodged
  /\ UNCHANGED <<carrying, receipts, refused, known, unrecovered>>
  /\ outgoing \subseteq outgoing'
  /\ \A v \in Clerks \ {w} : pc'[v] = pc[v] /\ job'[v] = job[v]
  /\ pc[w] \in Materializing
  /\ \/ pc'[w] \in Materializing /\ job'[w] = job[w]
     \/ pc'[w] \in {"recover", "ready", "dead"}

LEMMA Materializes ==
  ASSUME TypeOK, WorkInv, NEW w \in Clerks, MaterializeStep(w)
  PROVE  /\ MaterializeFrame(w)
         /\ tickets' \subseteq lodged
         /\ mapping' \in [Packages -> Lodgements \cup {None}]
         /\ outgoing' \subseteq Packages
         /\ lodgementLock' \in [Lodgements -> Clerks \cup {None}]
         /\ pc' \in [Clerks -> ClerkLabels]
         /\ job' \in [Clerks -> Lodgements \cup {None}]
<1> DEFINE Kept == /\ MaterializeFrame(w)
                   /\ tickets' \subseteq lodged
                   /\ mapping' \in [Packages -> Lodgements \cup {None}]
                   /\ outgoing' \subseteq Packages
                   /\ lodgementLock' \in [Lodgements -> Clerks \cup {None}]
                   /\ pc' \in [Clerks -> ClerkLabels]
                   /\ job' \in [Clerks -> Lodgements \cup {None}]
<1> USE DEF Materializing, ClerkLabels, MaterializeFrame, Goto
<1>1. pc[w] \in Materializing => job[w] \in Lodgements /\ job[w] \in lodged
                                 /\ PackageOf[job[w]] \in Packages
  BY DEF WorkInv, TypeOK
<1>2. ASSUME LockLodgement(w)
      PROVE  Kept
  BY <1>1, <1>2 DEF LockLodgement, TypeOK, stageVars, evidenceVars
<1>3. ASSUME WriteTicket(w)
      PROVE  Kept
  BY <1>1, <1>3 DEF WriteTicket, TypeOK, stageVars, evidenceVars
<1>4. ASSUME LookForTicket(w)
      PROVE  Kept
  BY <1>1, <1>4
     DEF LookForTicket, TypeOK, lodgementVars, stageVars, evidenceVars, Looks
<1>5. ASSUME Associate(w)
      PROVE  Kept
  BY <1>1, <1>5 DEF Associate, TypeOK, stageVars, evidenceVars, Looks
<1>6. ASSUME AssociationRaises(w)
      PROVE  Kept
  BY <1>1, <1>6 DEF AssociationRaises, TypeOK, stageVars, evidenceVars, Unlock
<1>7. ASSUME Look(w)
      PROVE  Kept
  BY <1>1, <1>7
     DEF Look, TypeOK, stageVars, evidenceVars, Unlock, Looks, Resume
<1>8. ASSUME Stage(w)
      PROVE  Kept
  BY <1>1, <1>8 DEF Stage, TypeOK, evidenceVars, Unlock, Resume
<1> QED
  BY <1>2, <1>3, <1>4, <1>5, <1>6, <1>7, <1>8 DEF MaterializeStep

\* A recovering carry thread takes a published lodgement.
LEMMA Recovers ==
  ASSUME TypeOK, RecoverStep
  PROVE  /\ UNCHANGED <<lodgementVars, stageVars, evidenceVars>>
         /\ unrecovered' \subseteq lodged
         /\ pc[Carrier] \in {"idle", "recover"}
         /\ pc' \in [Clerks -> ClerkLabels]
         /\ job' \in [Clerks -> Lodgements \cup {None}]
         /\ \A v \in Clerks \ {Carrier} : pc'[v] = pc[v] /\ job'[v] = job[v]
         /\ \/ pc'[Carrier] = "recover"
            \/ pc'[Carrier] = "lock" /\ job'[Carrier] \in lodged
<1>1. CASE BeginRecovery
  BY <1>1 DEF BeginRecovery, Goto, TypeOK, ClerkLabels
<1>2. ASSUME NEW l \in Lodgements, Recover(l)
      PROVE  /\ unrecovered' \subseteq lodged
             /\ UNCHANGED <<lodgementVars, stageVars, evidenceVars>>
             /\ pc[Carrier] = "recover"
             /\ l \in lodged
             /\ \/ UNCHANGED <<pc, job>>
                \/ /\ pc' = [pc EXCEPT ![Carrier] = "lock"]
                   /\ job' = [job EXCEPT ![Carrier] = l]
  BY <1>2 DEF Recover, Goto, TypeOK
<1>3. CASE \E l \in Lodgements : Recover(l)
  BY <1>2, <1>3 DEF TypeOK, ClerkLabels, Materializing
<1> QED
  BY <1>1, <1>3 DEF RecoverStep

----------------------------------------------------------------------------
LEMMA RequestOf ==
  ASSUME NEW p \in Packages, NEW b \in BOOLEAN
  PROVE  [package |-> p, live |-> b] \in Request
BY DEF Request

LEMMA GivenUp ==
  ASSUME TypeOK
  PROVE  HangUp \subseteq Request /\ LeftBehind \subseteq Request
<1>1. \A r \in requests : r \in Request /\ r.package \in Packages
  BY DEF TypeOK, Request
<1>2. \A r \in requests : [package |-> r.package, live |-> FALSE] \in Request
  BY <1>1, RequestOf
<1> QED
  BY <1>1, <1>2 DEF HangUp, LeftBehind

\* Every step keeps the types.
LEMMA TypeStep ==
  ASSUME CarriageInv, [Next]_vars
  PROVE  TypeOK'
<1> USE DEF CarriageInv
<1>1. ASSUME StartPorter
      PROVE  TypeOK'
  BY <1>1, CarriageBounds
     DEF StartPorter, Goto, TypeOK, WorkInv, WireInv, ClerkLabels, CarryingOne,
         Materializing, vars, senderVars, lodgementVars, stageVars,
         evidenceVars, clerkVars, carryVars, wireVars, recipientVars
<1>2. ASSUME Sweep
      PROVE  TypeOK'
  BY <1>2, CarriageBounds
     DEF Sweep, Goto, TypeOK, WorkInv, WireInv, ClerkLabels, CarryingOne,
         Materializing, vars, senderVars, lodgementVars, stageVars,
         evidenceVars, clerkVars, carryVars, wireVars, recipientVars
<1>3. ASSUME EndCarry
      PROVE  TypeOK'
  BY <1>3, CarriageBounds
     DEF EndCarry, Goto, TypeOK, WorkInv, WireInv, ClerkLabels, CarryingOne,
         Materializing, vars, senderVars, lodgementVars, stageVars,
         evidenceVars, clerkVars, carryVars, wireVars, recipientVars
<1>4. ASSUME Attempt
      PROVE  TypeOK'
  <2>1. carried \in Packages
    BY <1>4 DEF Attempt, WorkInv, CarryingOne, TypeOK
  <2>2. requests' \subseteq Request
    BY <1>4, <2>1, RequestOf DEF Attempt, TypeOK
  <2>3. pc' \in [Clerks -> ClerkLabels]
    BY <1>4 DEF Attempt, Goto, TypeOK, ClerkLabels, CarryingOne
  <2> QED
    BY <1>4, <2>2, <2>3
       DEF Attempt, TypeOK, lodgementVars, stageVars, evidenceVars, clerkVars,
           carryVars, wireVars, recipientVars
<1>5. ASSUME RetainReceipt
      PROVE  TypeOK'
  <2>1. carried \in Packages
    BY <1>5 DEF RetainReceipt, WorkInv, CarryingOne, TypeOK
  <2>2. acceptances[carried] \in AcceptanceIds /\ answer = Receipt(carried)
    BY <1>5, <2>1 DEF RetainReceipt, WireInv, AnswerIsTrue, TypeOK
  <2>3. receipts' \in [Packages -> AcceptanceIds \cup {None}]
    BY <1>5, <2>1, <2>2 DEF RetainReceipt, Receipt, TypeOK
  <2>4. pc' \in [Clerks -> ClerkLabels]
    BY <1>5 DEF RetainReceipt, Goto, TypeOK, ClerkLabels, CarryingOne
  <2> QED
    BY <1>5, <2>3, <2>4
       DEF RetainReceipt, TypeOK, lodgementVars, stageVars, evidenceVars,
           clerkVars, carryVars, wireVars, recipientVars
<1>6. ASSUME Learn
      PROVE  TypeOK'
  BY <1>6, CarriageBounds
     DEF Learn, Goto, TypeOK, WorkInv, WireInv, ClerkLabels, CarryingOne,
         Materializing, vars, senderVars, lodgementVars, stageVars,
         evidenceVars, clerkVars, carryVars, wireVars, recipientVars
<1>7. ASSUME RetainRefusal
      PROVE  TypeOK'
  BY <1>7, CarriageBounds
     DEF RetainRefusal, Goto, TypeOK, WorkInv, WireInv, ClerkLabels,
         CarryingOne, Materializing, vars, senderVars, lodgementVars,
         stageVars, evidenceVars, clerkVars, carryVars, wireVars, recipientVars
<1>8. ASSUME Clear
      PROVE  TypeOK'
  BY <1>8, CarriageBounds
     DEF Clear, Goto, TypeOK, WorkInv, WireInv, ClerkLabels, CarryingOne,
         Materializing, vars, senderVars, lodgementVars, stageVars,
         evidenceVars, clerkVars, carryVars, wireVars, recipientVars
<1>9. ASSUME PutBack
      PROVE  TypeOK'
  BY <1>9, CarriageBounds
     DEF PutBack, Goto, TypeOK, WorkInv, WireInv, ClerkLabels, CarryingOne,
         Materializing, vars, senderVars, lodgementVars, stageVars,
         evidenceVars, clerkVars, carryVars, wireVars, recipientVars
<1>10. ASSUME NEW p \in Packages, Claim(p)
      PROVE  TypeOK'
  BY <1>10, CarriageBounds
     DEF Claim, Goto, TypeOK, WorkInv, WireInv, ClerkLabels, CarryingOne,
         Materializing, vars, senderVars, lodgementVars, stageVars,
         evidenceVars, clerkVars, carryVars, wireVars, recipientVars
<1>11. ASSUME ReceiveAnswer
      PROVE  TypeOK'
  BY <1>11, CarriageBounds
     DEF ReceiveAnswer, Refusal, Goto, TypeOK, WorkInv, WireInv, ClerkLabels,
         CarryingOne, Materializing, vars, senderVars, lodgementVars,
         stageVars, evidenceVars, clerkVars, carryVars, wireVars, recipientVars
<1>12. ASSUME GiveUp
      PROVE  TypeOK'
  <2>1. requests' \subseteq Request
    BY <1>12, GivenUp DEF GiveUp
  <2>2. pc' \in [Clerks -> ClerkLabels]
    BY <1>12 DEF GiveUp, Goto, TypeOK, ClerkLabels, CarryingOne
  <2> QED
    BY <1>12, <2>1, <2>2
       DEF GiveUp, TypeOK, lodgementVars, stageVars, evidenceVars, clerkVars,
           carryVars, wireVars, recipientVars
<1>13. ASSUME PorterCrashes
      PROVE  TypeOK'
  <2>1. requests' \subseteq Request
    BY <1>13, GivenUp DEF PorterCrashes
  <2>2. pc' \in [Clerks -> ClerkLabels]
    BY <1>13 DEF PorterCrashes, Goto, TypeOK, ClerkLabels
  <2>3. /\ lodgementLock' \in [Lodgements -> Clerks \cup {None}]
        /\ job' \in [Clerks -> Lodgements \cup {None}]
        /\ crashes' \in Nat
    BY <1>13 DEF PorterCrashes, Crashes, TypeOK
  <2> QED
    BY <1>13, <2>1, <2>2, <2>3
       DEF PorterCrashes, Crashes, TypeOK, lodgementVars, stageVars,
           evidenceVars, clerkVars, carryVars, wireVars, recipientVars
<1>14. ASSUME NEW r \in requests, Deposit(r)
      PROVE  TypeOK'
  <2>1. r.package \in Packages
    BY <1>14 DEF TypeOK, Request
  <2>2. acceptances' \in [Packages -> AcceptanceIds \cup {None}]
    BY <1>14, <2>1 DEF Deposit, Accepting, TypeOK
  <2>3. answer' \in Answers \cup {None}
    <3>1. CASE answer' = answer
      BY <3>1 DEF TypeOK
    <3>2. CASE answer' = Refusal
      BY <3>2 DEF Answers
    <3>3. CASE Accepting(r.package) /\ answer' = Receipt(r.package)'
      <4>1. acceptances'[r.package] \in AcceptanceIds
        BY <2>1, <3>3 DEF Accepting, TypeOK
      <4> QED
        BY <3>3, <4>1 DEF Receipt, Answers
    <3> QED
      BY <1>14, <3>1, <3>2, <3>3 DEF Deposit
  <2>4. requests' \subseteq Request
    BY <1>14 DEF Deposit, TypeOK
  <2> QED
    BY <1>14, <2>2, <2>3, <2>4
       DEF Deposit, TypeOK, senderVars, lodgementVars, stageVars,
           evidenceVars, clerkVars, carryVars
<1>15. ASSUME NEW p \in Packages, Expire(p)
      PROVE  TypeOK'
  BY <1>15, CarriageBounds
     DEF Expire, Goto, TypeOK, WorkInv, WireInv, ClerkLabels, CarryingOne,
         Materializing, vars, senderVars, lodgementVars, stageVars,
         evidenceVars, clerkVars, carryVars, wireVars, recipientVars
<1>16. ASSUME NEW h \in Lodgers, LodgerCrashes(h)
      PROVE  TypeOK'
  BY <1>16, CarriageBounds
     DEF LodgerCrashes, Crashes, Goto, TypeOK, WorkInv, WireInv, ClerkLabels,
         CarryingOne, Materializing, vars, senderVars, lodgementVars,
         stageVars, evidenceVars, clerkVars, carryVars, wireVars, recipientVars
<1>17. ASSUME NEW h \in Lodgers, NEW l \in Lodgements, Lodge(h, l),
             UNCHANGED <<carryVars, wireVars, recipientVars, crashes>>
      PROVE  TypeOK'
  BY <1>17, CarriageBounds
     DEF Lodge, Goto, TypeOK, WorkInv, WireInv, ClerkLabels, CarryingOne,
         Materializing, vars, senderVars, lodgementVars, stageVars,
         evidenceVars, clerkVars, carryVars, wireVars, recipientVars
<1>18. ASSUME NEW w \in Clerks, MaterializeStep(w),
             UNCHANGED <<carryVars, wireVars, recipientVars, crashes>>
      PROVE  TypeOK'
  BY <1>18, Materializes
     DEF MaterializeFrame, TypeOK, carryVars, wireVars, recipientVars
<1>19. ASSUME RecoverStep,
             UNCHANGED <<carryVars, wireVars, recipientVars, crashes>>
      PROVE  TypeOK'
  BY <1>19, Recovers
     DEF TypeOK, lodgementVars, stageVars, evidenceVars, carryVars, wireVars,
         recipientVars
<1>20. CASE UNCHANGED vars
  BY <1>20
     DEF TypeOK, WorkInv, WireInv, ClerkLabels, CarryingOne, Materializing,
         vars, senderVars, lodgementVars, stageVars, evidenceVars, clerkVars,
         carryVars, wireVars, recipientVars
<1> QED
  BY <1>1, <1>2, <1>3, <1>4, <1>5, <1>6, <1>7, <1>8, <1>9, <1>10, <1>11, <1>12,
     <1>13, <1>14, <1>15, <1>16, <1>17, <1>18, <1>19, <1>20
     DEF Next, CarrierStep, CarryStep, LodgerStep, LodgerProceeds

\* Every step keeps who works on what.
LEMMA WorkStep ==
  ASSUME CarriageInv, [Next]_vars
  PROVE  WorkInv'
<1> USE DEF CarriageInv
<1>1. ASSUME StartPorter
      PROVE  WorkInv'
  BY <1>1
     DEF StartPorter, Goto, WorkInv, WireInv, TypeOK, Settled, Materializing,
         CarryingOne, Looks, vars, senderVars, lodgementVars, stageVars,
         evidenceVars, clerkVars, carryVars, wireVars, recipientVars
<1>2. ASSUME Sweep
      PROVE  WorkInv'
  BY <1>2
     DEF Sweep, Goto, WorkInv, WireInv, TypeOK, Settled, Materializing,
         CarryingOne, Looks, vars, senderVars, lodgementVars, stageVars,
         evidenceVars, clerkVars, carryVars, wireVars, recipientVars
<1>3. ASSUME EndCarry
      PROVE  WorkInv'
  BY <1>3
     DEF EndCarry, Goto, WorkInv, WireInv, TypeOK, Settled, Materializing,
         CarryingOne, Looks, vars, senderVars, lodgementVars, stageVars,
         evidenceVars, clerkVars, carryVars, wireVars, recipientVars
<1>4. ASSUME Attempt
      PROVE  WorkInv'
  BY <1>4
     DEF Attempt, Request, Goto, WorkInv, WireInv, TypeOK, Settled,
         Materializing, CarryingOne, Looks, vars, senderVars, lodgementVars,
         stageVars, evidenceVars, clerkVars, carryVars, wireVars, recipientVars
<1>5. ASSUME RetainReceipt
      PROVE  WorkInv'
  <2>1. carried # None /\ carried \in Packages
    BY <1>5 DEF RetainReceipt, WorkInv, CarryingOne, TypeOK
  <2>2. answer.acceptance # None
    BY <1>5, <2>1 DEF RetainReceipt, WireInv, AnswerIsTrue, Receipt, TypeOK
  <2>3. CASE pc' = [pc EXCEPT ![Carrier] = "learn"]
               /\ receipts' = [receipts EXCEPT ![carried] = answer.acceptance]
    BY <1>5, <2>1, <2>2, <2>3
       DEF RetainReceipt, WorkInv, Materializing, CarryingOne, Looks, TypeOK,
           lodgementVars, carryVars, Settled
  <2>4. CASE pc' = [pc EXCEPT ![Carrier] = "failed"]
    BY <1>5, <2>1, <2>4
       DEF RetainReceipt, WorkInv, Materializing, CarryingOne, Looks, TypeOK,
           lodgementVars, carryVars, Settled
  <2> QED
    BY <1>5, <2>3, <2>4 DEF RetainReceipt, Goto
<1>6. ASSUME Learn
      PROVE  WorkInv'
  BY <1>6
     DEF Learn, Goto, WorkInv, WireInv, TypeOK, Settled, Materializing,
         CarryingOne, Looks, vars, senderVars, lodgementVars, stageVars,
         evidenceVars, clerkVars, carryVars, wireVars, recipientVars
<1>7. ASSUME RetainRefusal
      PROVE  WorkInv'
  BY <1>7
     DEF RetainRefusal, Goto, WorkInv, WireInv, TypeOK, Settled, Materializing,
         CarryingOne, Looks, vars, senderVars, lodgementVars, stageVars,
         evidenceVars, clerkVars, carryVars, wireVars, recipientVars
<1>8. ASSUME Clear
      PROVE  WorkInv'
  BY <1>8
     DEF Clear, Goto, WorkInv, WireInv, TypeOK, Settled, Materializing,
         CarryingOne, Looks, vars, senderVars, lodgementVars, stageVars,
         evidenceVars, clerkVars, carryVars, wireVars, recipientVars
<1>9. ASSUME PutBack
      PROVE  WorkInv'
  BY <1>9
     DEF PutBack, Goto, WorkInv, WireInv, TypeOK, Settled, Materializing,
         CarryingOne, Looks, vars, senderVars, lodgementVars, stageVars,
         evidenceVars, clerkVars, carryVars, wireVars, recipientVars
<1>10. ASSUME NEW p \in Packages, Claim(p)
      PROVE  WorkInv'
  BY <1>10
     DEF Claim, Goto, WorkInv, WireInv, TypeOK, Settled, Materializing,
         CarryingOne, Looks, vars, senderVars, lodgementVars, stageVars,
         evidenceVars, clerkVars, carryVars, wireVars, recipientVars
<1>11. ASSUME ReceiveAnswer
      PROVE  WorkInv'
  BY <1>11
     DEF ReceiveAnswer, Refusal, Goto, WorkInv, WireInv, TypeOK, Settled,
         Materializing, CarryingOne, Looks, vars, senderVars, lodgementVars,
         stageVars, evidenceVars, clerkVars, carryVars, wireVars, recipientVars
<1>12. ASSUME GiveUp
      PROVE  WorkInv'
  BY <1>12
     DEF GiveUp, HangUp, LeftBehind, Request, Goto, WorkInv, WireInv, TypeOK,
         Settled, Materializing, CarryingOne, Looks, vars, senderVars,
         lodgementVars, stageVars, evidenceVars, clerkVars, carryVars,
         wireVars, recipientVars
<1>13. ASSUME PorterCrashes
      PROVE  WorkInv'
  BY <1>13
     DEF PorterCrashes, Crashes, HangUp, LeftBehind, Request, Goto, WorkInv,
         WireInv, TypeOK, Settled, Materializing, CarryingOne, Looks, vars,
         senderVars, lodgementVars, stageVars, evidenceVars, clerkVars,
         carryVars, wireVars, recipientVars
<1>14. ASSUME NEW r \in requests, Deposit(r)
      PROVE  WorkInv'
  BY <1>14
     DEF Deposit, Accepting, Receipt, Refusal, Request, Answers, Goto, WorkInv,
         WireInv, TypeOK, Settled, Materializing, CarryingOne, Looks, vars,
         senderVars, lodgementVars, stageVars, evidenceVars, clerkVars,
         carryVars, wireVars, recipientVars
<1>15. ASSUME NEW p \in Packages, Expire(p)
      PROVE  WorkInv'
  BY <1>15
     DEF Expire, Goto, WorkInv, WireInv, TypeOK, Settled, Materializing,
         CarryingOne, Looks, vars, senderVars, lodgementVars, stageVars,
         evidenceVars, clerkVars, carryVars, wireVars, recipientVars
<1>16. ASSUME NEW h \in Lodgers, LodgerCrashes(h)
      PROVE  WorkInv'
  BY <1>16
     DEF LodgerCrashes, Crashes, Goto, WorkInv, WireInv, TypeOK, Settled,
         Materializing, CarryingOne, Looks, vars, senderVars, lodgementVars,
         stageVars, evidenceVars, clerkVars, carryVars, wireVars, recipientVars
<1>17. ASSUME NEW h \in Lodgers, NEW l \in Lodgements, Lodge(h, l),
             UNCHANGED <<carryVars, wireVars, recipientVars, crashes>>
      PROVE  WorkInv'
  BY <1>17
     DEF Lodge, Goto, WorkInv, WireInv, TypeOK, Settled, Materializing,
         CarryingOne, Looks, vars, senderVars, lodgementVars, stageVars,
         evidenceVars, clerkVars, carryVars, wireVars, recipientVars
<1>18. ASSUME NEW w \in Clerks, MaterializeStep(w),
             UNCHANGED <<carryVars, wireVars, recipientVars, crashes>>
      PROVE  WorkInv'
  BY <1>18, Materializes
     DEF MaterializeFrame, WorkInv, TypeOK, Settled, Materializing,
         CarryingOne, carryVars, Looks
<1>19. ASSUME RecoverStep,
             UNCHANGED <<carryVars, wireVars, recipientVars, crashes>>
      PROVE  WorkInv'
  BY <1>19, Recovers
     DEF WorkInv, TypeOK, Settled, Materializing, CarryingOne, carryVars,
         lodgementVars, stageVars, evidenceVars, Looks
<1>20. CASE UNCHANGED vars
  BY <1>20
     DEF WorkInv, WireInv, TypeOK, Settled, Materializing, CarryingOne, Looks,
         vars, senderVars, lodgementVars, stageVars, evidenceVars, clerkVars,
         carryVars, wireVars, recipientVars
<1> QED
  BY <1>1, <1>2, <1>3, <1>4, <1>5, <1>6, <1>7, <1>8, <1>9, <1>10, <1>11, <1>12,
     <1>13, <1>14, <1>15, <1>16, <1>17, <1>18, <1>19, <1>20
     DEF Next, CarrierStep, CarryStep, LodgerStep, LodgerProceeds

\* Every step keeps the one connection about the Package in hand.
LEMMA WireStep ==
  ASSUME CarriageInv, [Next]_vars
  PROVE  WireInv'
<1> USE DEF CarriageInv
<1>1. ASSUME StartPorter
      PROVE  WireInv'
  BY <1>1
     DEF StartPorter, Goto, WireInv, WorkInv, TypeOK, AnswerIsTrue, Receipt,
         Refusal, CarryingOne, vars, senderVars, lodgementVars, stageVars,
         evidenceVars, clerkVars, carryVars, wireVars, recipientVars
<1>2. ASSUME Sweep
      PROVE  WireInv'
  BY <1>2
     DEF Sweep, Goto, WireInv, WorkInv, TypeOK, AnswerIsTrue, Receipt, Refusal,
         CarryingOne, vars, senderVars, lodgementVars, stageVars, evidenceVars,
         clerkVars, carryVars, wireVars, recipientVars
<1>3. ASSUME EndCarry
      PROVE  WireInv'
  BY <1>3
     DEF EndCarry, Goto, WireInv, WorkInv, TypeOK, AnswerIsTrue, Receipt,
         Refusal, CarryingOne, vars, senderVars, lodgementVars, stageVars,
         evidenceVars, clerkVars, carryVars, wireVars, recipientVars
<1>4. ASSUME Attempt
      PROVE  WireInv'
  BY <1>4
     DEF Attempt, Request, Goto, WireInv, WorkInv, TypeOK, AnswerIsTrue,
         Receipt, Refusal, CarryingOne, vars, senderVars, lodgementVars,
         stageVars, evidenceVars, clerkVars, carryVars, wireVars, recipientVars
<1>5. ASSUME RetainReceipt
      PROVE  WireInv'
  BY <1>5
     DEF RetainReceipt, Answers, Refusal, Goto, WireInv, WorkInv, TypeOK,
         AnswerIsTrue, Receipt, CarryingOne, vars, senderVars, lodgementVars,
         stageVars, evidenceVars, clerkVars, carryVars, wireVars, recipientVars
<1>6. ASSUME Learn
      PROVE  WireInv'
  BY <1>6
     DEF Learn, Goto, WireInv, WorkInv, TypeOK, AnswerIsTrue, Receipt, Refusal,
         CarryingOne, vars, senderVars, lodgementVars, stageVars, evidenceVars,
         clerkVars, carryVars, wireVars, recipientVars
<1>7. ASSUME RetainRefusal
      PROVE  WireInv'
  BY <1>7
     DEF RetainRefusal, Goto, WireInv, WorkInv, TypeOK, AnswerIsTrue, Receipt,
         Refusal, CarryingOne, vars, senderVars, lodgementVars, stageVars,
         evidenceVars, clerkVars, carryVars, wireVars, recipientVars
<1>8. ASSUME Clear
      PROVE  WireInv'
  BY <1>8
     DEF Clear, Goto, WireInv, WorkInv, TypeOK, AnswerIsTrue, Receipt, Refusal,
         CarryingOne, vars, senderVars, lodgementVars, stageVars, evidenceVars,
         clerkVars, carryVars, wireVars, recipientVars
<1>9. ASSUME PutBack
      PROVE  WireInv'
  BY <1>9
     DEF PutBack, Goto, WireInv, WorkInv, TypeOK, AnswerIsTrue, Receipt,
         Refusal, CarryingOne, vars, senderVars, lodgementVars, stageVars,
         evidenceVars, clerkVars, carryVars, wireVars, recipientVars
<1>10. ASSUME NEW p \in Packages, Claim(p)
      PROVE  WireInv'
  BY <1>10
     DEF Claim, Goto, WireInv, WorkInv, TypeOK, AnswerIsTrue, Receipt, Refusal,
         CarryingOne, vars, senderVars, lodgementVars, stageVars, evidenceVars,
         clerkVars, carryVars, wireVars, recipientVars
<1>11. ASSUME ReceiveAnswer
      PROVE  WireInv'
  BY <1>11
     DEF ReceiveAnswer, Refusal, Goto, WireInv, WorkInv, TypeOK, AnswerIsTrue,
         Receipt, CarryingOne, vars, senderVars, lodgementVars, stageVars,
         evidenceVars, clerkVars, carryVars, wireVars, recipientVars
<1>12. ASSUME GiveUp
      PROVE  WireInv'
  BY <1>12
     DEF GiveUp, HangUp, LeftBehind, Request, Goto, WireInv, WorkInv, TypeOK,
         AnswerIsTrue, Receipt, Refusal, CarryingOne, vars, senderVars,
         lodgementVars, stageVars, evidenceVars, clerkVars, carryVars,
         wireVars, recipientVars
<1>13. ASSUME PorterCrashes
      PROVE  WireInv'
  BY <1>13
     DEF PorterCrashes, Crashes, HangUp, LeftBehind, Request, Goto, WireInv,
         WorkInv, TypeOK, AnswerIsTrue, Receipt, Refusal, CarryingOne, vars,
         senderVars, lodgementVars, stageVars, evidenceVars, clerkVars,
         carryVars, wireVars, recipientVars
<1>14. ASSUME NEW r \in requests, Deposit(r)
      PROVE  WireInv'
  <2>1. /\ requests' = requests \ {r} /\ pc' = pc /\ carried' = carried
        /\ r.package \in Packages
        /\ \A p \in Packages :
             acceptances[p] # None => acceptances'[p] = acceptances[p]
    BY <1>14
       DEF Deposit, Accepting, TypeOK, Request, senderVars, clerkVars,
           carryVars
  <2>2. CASE ~r.live
    <3>1. answer' = answer
      BY <1>14, <2>2 DEF Deposit
    <3>2. AnswerIsTrue /\ carried \in Packages => AnswerIsTrue'
      BY <2>1, <3>1 DEF AnswerIsTrue, Receipt, Refusal
    <3> QED
      BY <2>1, <3>1, <3>2 DEF WireInv, WorkInv, CarryingOne, TypeOK, Refusal
  <2>3. CASE r.live
    <3>1. r.package = carried /\ pc[Carrier] = "wait" /\ answer = None
      BY <2>3 DEF WireInv
    <3>2. \A q \in requests \ {r} : ~q.live
      <4>1. \A q \in requests : q \in Request
        BY DEF TypeOK
      <4>2. \A q \in requests : q.live => q.package = r.package
        BY <3>1 DEF WireInv
      <4> QED
        BY <2>3, <4>1, <4>2 DEF Request
    <3>3. AnswerIsTrue'
      <4>1. CASE answer' = Refusal
        BY <4>1 DEF AnswerIsTrue, Refusal
      <4>2. CASE Accepting(r.package) /\ answer' = Receipt(r.package)'
        <5>1. acceptances'[r.package] # None
          BY <2>1, <4>2 DEF Accepting, TypeOK
        <5> QED
          BY <2>1, <3>1, <4>2, <5>1 DEF AnswerIsTrue, Receipt
      <4> QED
        BY <1>14, <2>3, <4>1, <4>2 DEF Deposit
    <3> QED
      BY <2>1, <3>1, <3>2, <3>3 DEF WireInv
  <2> QED
    BY <2>2, <2>3
<1>15. ASSUME NEW p \in Packages, Expire(p)
      PROVE  WireInv'
  BY <1>15
     DEF Expire, Goto, WireInv, WorkInv, TypeOK, AnswerIsTrue, Receipt,
         Refusal, CarryingOne, vars, senderVars, lodgementVars, stageVars,
         evidenceVars, clerkVars, carryVars, wireVars, recipientVars
<1>16. ASSUME NEW h \in Lodgers, LodgerCrashes(h)
      PROVE  WireInv'
  BY <1>16
     DEF LodgerCrashes, Crashes, Goto, WireInv, WorkInv, TypeOK, AnswerIsTrue,
         Receipt, Refusal, CarryingOne, vars, senderVars, lodgementVars,
         stageVars, evidenceVars, clerkVars, carryVars, wireVars, recipientVars
<1>17. ASSUME NEW h \in Lodgers, NEW l \in Lodgements, Lodge(h, l),
             UNCHANGED <<carryVars, wireVars, recipientVars, crashes>>
      PROVE  WireInv'
  BY <1>17
     DEF Lodge, Goto, WireInv, WorkInv, TypeOK, AnswerIsTrue, Receipt, Refusal,
         CarryingOne, vars, senderVars, lodgementVars, stageVars, evidenceVars,
         clerkVars, carryVars, wireVars, recipientVars
<1>18. ASSUME NEW w \in Clerks, MaterializeStep(w),
             UNCHANGED <<carryVars, wireVars, recipientVars, crashes>>
      PROVE  WireInv'
  BY <1>18, Materializes
     DEF MaterializeFrame, WireInv, WorkInv, TypeOK, AnswerIsTrue, Receipt,
         Refusal, Materializing, carryVars, wireVars, recipientVars, Looks
<1>19. ASSUME RecoverStep,
             UNCHANGED <<carryVars, wireVars, recipientVars, crashes>>
      PROVE  WireInv'
  BY <1>19, Recovers
     DEF WireInv, WorkInv, TypeOK, AnswerIsTrue, Receipt, Refusal, CarryingOne,
         carryVars, wireVars, recipientVars
<1>20. CASE UNCHANGED vars
  BY <1>20
     DEF WireInv, WorkInv, TypeOK, AnswerIsTrue, Receipt, Refusal, CarryingOne,
         vars, senderVars, lodgementVars, stageVars, evidenceVars, clerkVars,
         carryVars, wireVars, recipientVars
<1> QED
  BY <1>1, <1>2, <1>3, <1>4, <1>5, <1>6, <1>7, <1>8, <1>9, <1>10, <1>11, <1>12,
     <1>13, <1>14, <1>15, <1>16, <1>17, <1>18, <1>19, <1>20
     DEF Next, CarrierStep, CarryStep, LodgerStep, LodgerProceeds

\* Every step keeps the claims backed.
LEMMA ClaimStep ==
  ASSUME CarriageInv, [Next]_vars
  PROVE  ClaimsAreBacked'
<1> USE DEF CarriageInv
<1>1. ASSUME StartPorter
      PROVE  ClaimsAreBacked'
  BY <1>1
     DEF StartPorter, Goto, ClaimsAreBacked, WorkInv, WireInv, TypeOK,
         AnswerIsTrue, Receipt, Refusal, CarryingOne, vars, senderVars,
         lodgementVars, stageVars, evidenceVars, clerkVars, carryVars,
         wireVars, recipientVars
<1>2. ASSUME Sweep
      PROVE  ClaimsAreBacked'
  BY <1>2
     DEF Sweep, Goto, ClaimsAreBacked, WorkInv, WireInv, TypeOK, AnswerIsTrue,
         Receipt, Refusal, CarryingOne, vars, senderVars, lodgementVars,
         stageVars, evidenceVars, clerkVars, carryVars, wireVars, recipientVars
<1>3. ASSUME EndCarry
      PROVE  ClaimsAreBacked'
  BY <1>3
     DEF EndCarry, Goto, ClaimsAreBacked, WorkInv, WireInv, TypeOK,
         AnswerIsTrue, Receipt, Refusal, CarryingOne, vars, senderVars,
         lodgementVars, stageVars, evidenceVars, clerkVars, carryVars,
         wireVars, recipientVars
<1>4. ASSUME Attempt
      PROVE  ClaimsAreBacked'
  BY <1>4
     DEF Attempt, Request, Goto, ClaimsAreBacked, WorkInv, WireInv, TypeOK,
         AnswerIsTrue, Receipt, Refusal, CarryingOne, vars, senderVars,
         lodgementVars, stageVars, evidenceVars, clerkVars, carryVars,
         wireVars, recipientVars
<1>5. ASSUME RetainReceipt
      PROVE  ClaimsAreBacked'
  BY <1>5
     DEF RetainReceipt, Answers, Refusal, Goto, ClaimsAreBacked, WorkInv,
         WireInv, TypeOK, AnswerIsTrue, Receipt, CarryingOne, vars, senderVars,
         lodgementVars, stageVars, evidenceVars, clerkVars, carryVars,
         wireVars, recipientVars
<1>6. ASSUME Learn
      PROVE  ClaimsAreBacked'
  BY <1>6
     DEF Learn, Goto, ClaimsAreBacked, WorkInv, WireInv, TypeOK, AnswerIsTrue,
         Receipt, Refusal, CarryingOne, vars, senderVars, lodgementVars,
         stageVars, evidenceVars, clerkVars, carryVars, wireVars, recipientVars
<1>7. ASSUME RetainRefusal
      PROVE  ClaimsAreBacked'
  BY <1>7
     DEF RetainRefusal, Goto, ClaimsAreBacked, WorkInv, WireInv, TypeOK,
         AnswerIsTrue, Receipt, Refusal, CarryingOne, vars, senderVars,
         lodgementVars, stageVars, evidenceVars, clerkVars, carryVars,
         wireVars, recipientVars
<1>8. ASSUME Clear
      PROVE  ClaimsAreBacked'
  BY <1>8
     DEF Clear, Goto, ClaimsAreBacked, WorkInv, WireInv, TypeOK, AnswerIsTrue,
         Receipt, Refusal, CarryingOne, vars, senderVars, lodgementVars,
         stageVars, evidenceVars, clerkVars, carryVars, wireVars, recipientVars
<1>9. ASSUME PutBack
      PROVE  ClaimsAreBacked'
  BY <1>9
     DEF PutBack, Goto, ClaimsAreBacked, WorkInv, WireInv, TypeOK,
         AnswerIsTrue, Receipt, Refusal, CarryingOne, vars, senderVars,
         lodgementVars, stageVars, evidenceVars, clerkVars, carryVars,
         wireVars, recipientVars
<1>10. ASSUME NEW p \in Packages, Claim(p)
      PROVE  ClaimsAreBacked'
  BY <1>10
     DEF Claim, Goto, ClaimsAreBacked, WorkInv, WireInv, TypeOK, AnswerIsTrue,
         Receipt, Refusal, CarryingOne, vars, senderVars, lodgementVars,
         stageVars, evidenceVars, clerkVars, carryVars, wireVars, recipientVars
<1>11. ASSUME ReceiveAnswer
      PROVE  ClaimsAreBacked'
  BY <1>11
     DEF ReceiveAnswer, Refusal, Goto, ClaimsAreBacked, WorkInv, WireInv,
         TypeOK, AnswerIsTrue, Receipt, CarryingOne, vars, senderVars,
         lodgementVars, stageVars, evidenceVars, clerkVars, carryVars,
         wireVars, recipientVars
<1>12. ASSUME GiveUp
      PROVE  ClaimsAreBacked'
  BY <1>12
     DEF GiveUp, HangUp, LeftBehind, Request, Goto, ClaimsAreBacked, WorkInv,
         WireInv, TypeOK, AnswerIsTrue, Receipt, Refusal, CarryingOne, vars,
         senderVars, lodgementVars, stageVars, evidenceVars, clerkVars,
         carryVars, wireVars, recipientVars
<1>13. ASSUME PorterCrashes
      PROVE  ClaimsAreBacked'
  BY <1>13
     DEF PorterCrashes, Crashes, HangUp, LeftBehind, Request, Goto,
         ClaimsAreBacked, WorkInv, WireInv, TypeOK, AnswerIsTrue, Receipt,
         Refusal, CarryingOne, vars, senderVars, lodgementVars, stageVars,
         evidenceVars, clerkVars, carryVars, wireVars, recipientVars
<1>14. ASSUME NEW r \in requests, Deposit(r)
      PROVE  ClaimsAreBacked'
  BY <1>14
     DEF Deposit, Accepting, Receipt, Refusal, Request, Answers, Goto,
         ClaimsAreBacked, WorkInv, WireInv, TypeOK, AnswerIsTrue, CarryingOne,
         vars, senderVars, lodgementVars, stageVars, evidenceVars, clerkVars,
         carryVars, wireVars, recipientVars
<1>15. ASSUME NEW p \in Packages, Expire(p)
      PROVE  ClaimsAreBacked'
  BY <1>15
     DEF Expire, Goto, ClaimsAreBacked, WorkInv, WireInv, TypeOK, AnswerIsTrue,
         Receipt, Refusal, CarryingOne, vars, senderVars, lodgementVars,
         stageVars, evidenceVars, clerkVars, carryVars, wireVars, recipientVars
<1>16. ASSUME NEW h \in Lodgers, LodgerCrashes(h)
      PROVE  ClaimsAreBacked'
  BY <1>16
     DEF LodgerCrashes, Crashes, Goto, ClaimsAreBacked, WorkInv, WireInv,
         TypeOK, AnswerIsTrue, Receipt, Refusal, CarryingOne, vars, senderVars,
         lodgementVars, stageVars, evidenceVars, clerkVars, carryVars,
         wireVars, recipientVars
<1>17. ASSUME NEW h \in Lodgers, NEW l \in Lodgements, Lodge(h, l),
             UNCHANGED <<carryVars, wireVars, recipientVars, crashes>>
      PROVE  ClaimsAreBacked'
  BY <1>17
     DEF Lodge, Goto, ClaimsAreBacked, WorkInv, WireInv, TypeOK, AnswerIsTrue,
         Receipt, Refusal, CarryingOne, vars, senderVars, lodgementVars,
         stageVars, evidenceVars, clerkVars, carryVars, wireVars, recipientVars
<1>18. ASSUME NEW w \in Clerks, MaterializeStep(w),
             UNCHANGED <<carryVars, wireVars, recipientVars, crashes>>
      PROVE  ClaimsAreBacked'
  BY <1>18, Materializes DEF MaterializeFrame, ClaimsAreBacked, recipientVars
<1>19. ASSUME RecoverStep,
             UNCHANGED <<carryVars, wireVars, recipientVars, crashes>>
      PROVE  ClaimsAreBacked'
  BY <1>19, Recovers DEF ClaimsAreBacked, evidenceVars, recipientVars
<1>20. CASE UNCHANGED vars
  BY <1>20
     DEF ClaimsAreBacked, WorkInv, WireInv, TypeOK, AnswerIsTrue, Receipt,
         Refusal, CarryingOne, vars, senderVars, lodgementVars, stageVars,
         evidenceVars, clerkVars, carryVars, wireVars, recipientVars
<1> QED
  BY <1>1, <1>2, <1>3, <1>4, <1>5, <1>6, <1>7, <1>8, <1>9, <1>10, <1>11, <1>12,
     <1>13, <1>14, <1>15, <1>16, <1>17, <1>18, <1>19, <1>20
     DEF Next, CarrierStep, CarryStep, LodgerStep, LodgerProceeds

\* Claims of remote acceptance are backed, for every value of the constants.
THEOREM CarriageInvariance == Spec => []CarriageInv
<1>1. CarriageInv /\ [Next]_vars => CarriageInv'
  BY TypeStep, WorkStep, WireStep, ClaimStep DEF CarriageInv
<1> QED
  BY <1>1, InitCarriage, PTL DEF Spec

StagedKept ==
  \A p \in outgoing \cup carrying :
    p \in outgoing' \cup carrying' \/ Settled(p)'

\* A step that takes a staged Package away has it settled.
LEMMA StagedStep ==
  ASSUME CarriageInv, [Next]_vars
  PROVE  StagedKept
<1> USE DEF CarriageInv
<1>1. ASSUME StartPorter
      PROVE  StagedKept
  BY <1>1
     DEF StartPorter, Goto, StagedKept, WorkInv, TypeOK, Settled, CarryingOne,
         vars, senderVars, lodgementVars, stageVars, evidenceVars, clerkVars,
         carryVars, wireVars, recipientVars
<1>2. ASSUME Sweep
      PROVE  StagedKept
  BY <1>2
     DEF Sweep, Goto, StagedKept, WorkInv, TypeOK, Settled, CarryingOne, vars,
         senderVars, lodgementVars, stageVars, evidenceVars, clerkVars,
         carryVars, wireVars, recipientVars
<1>3. ASSUME EndCarry
      PROVE  StagedKept
  BY <1>3
     DEF EndCarry, Goto, StagedKept, WorkInv, TypeOK, Settled, CarryingOne,
         vars, senderVars, lodgementVars, stageVars, evidenceVars, clerkVars,
         carryVars, wireVars, recipientVars
<1>4. ASSUME Attempt
      PROVE  StagedKept
  BY <1>4
     DEF Attempt, Request, Goto, StagedKept, WorkInv, TypeOK, Settled,
         CarryingOne, vars, senderVars, lodgementVars, stageVars, evidenceVars,
         clerkVars, carryVars, wireVars, recipientVars
<1>5. ASSUME RetainReceipt
      PROVE  StagedKept
  BY <1>5
     DEF RetainReceipt, Answers, Refusal, Goto, StagedKept, WorkInv, TypeOK,
         Settled, CarryingOne, vars, senderVars, lodgementVars, stageVars,
         evidenceVars, clerkVars, carryVars, wireVars, recipientVars
<1>6. ASSUME Learn
      PROVE  StagedKept
  BY <1>6
     DEF Learn, Goto, StagedKept, WorkInv, TypeOK, Settled, CarryingOne, vars,
         senderVars, lodgementVars, stageVars, evidenceVars, clerkVars,
         carryVars, wireVars, recipientVars
<1>7. ASSUME RetainRefusal
      PROVE  StagedKept
  BY <1>7
     DEF RetainRefusal, Goto, StagedKept, WorkInv, TypeOK, Settled,
         CarryingOne, vars, senderVars, lodgementVars, stageVars, evidenceVars,
         clerkVars, carryVars, wireVars, recipientVars
<1>8. ASSUME Clear
      PROVE  StagedKept
  BY <1>8
     DEF Clear, Goto, StagedKept, WorkInv, TypeOK, Settled, CarryingOne, vars,
         senderVars, lodgementVars, stageVars, evidenceVars, clerkVars,
         carryVars, wireVars, recipientVars
<1>9. ASSUME PutBack
      PROVE  StagedKept
  BY <1>9
     DEF PutBack, Goto, StagedKept, WorkInv, TypeOK, Settled, CarryingOne,
         vars, senderVars, lodgementVars, stageVars, evidenceVars, clerkVars,
         carryVars, wireVars, recipientVars
<1>10. ASSUME NEW p \in Packages, Claim(p)
      PROVE  StagedKept
  BY <1>10
     DEF Claim, Goto, StagedKept, WorkInv, TypeOK, Settled, CarryingOne, vars,
         senderVars, lodgementVars, stageVars, evidenceVars, clerkVars,
         carryVars, wireVars, recipientVars
<1>11. ASSUME ReceiveAnswer
      PROVE  StagedKept
  BY <1>11
     DEF ReceiveAnswer, Refusal, Goto, StagedKept, WorkInv, TypeOK, Settled,
         CarryingOne, vars, senderVars, lodgementVars, stageVars, evidenceVars,
         clerkVars, carryVars, wireVars, recipientVars
<1>12. ASSUME GiveUp
      PROVE  StagedKept
  BY <1>12
     DEF GiveUp, HangUp, LeftBehind, Request, Goto, StagedKept, WorkInv,
         TypeOK, Settled, CarryingOne, vars, senderVars, lodgementVars,
         stageVars, evidenceVars, clerkVars, carryVars, wireVars, recipientVars
<1>13. ASSUME PorterCrashes
      PROVE  StagedKept
  BY <1>13
     DEF PorterCrashes, Crashes, HangUp, LeftBehind, Request, Goto, StagedKept,
         WorkInv, TypeOK, Settled, CarryingOne, vars, senderVars,
         lodgementVars, stageVars, evidenceVars, clerkVars, carryVars,
         wireVars, recipientVars
<1>14. ASSUME NEW r \in requests, Deposit(r)
      PROVE  StagedKept
  BY <1>14
     DEF Deposit, Accepting, Receipt, Refusal, Request, Answers, Goto,
         StagedKept, WorkInv, TypeOK, Settled, CarryingOne, vars, senderVars,
         lodgementVars, stageVars, evidenceVars, clerkVars, carryVars,
         wireVars, recipientVars
<1>15. ASSUME NEW p \in Packages, Expire(p)
      PROVE  StagedKept
  BY <1>15
     DEF Expire, Goto, StagedKept, WorkInv, TypeOK, Settled, CarryingOne, vars,
         senderVars, lodgementVars, stageVars, evidenceVars, clerkVars,
         carryVars, wireVars, recipientVars
<1>16. ASSUME NEW h \in Lodgers, LodgerCrashes(h)
      PROVE  StagedKept
  BY <1>16
     DEF LodgerCrashes, Crashes, Goto, StagedKept, WorkInv, TypeOK, Settled,
         CarryingOne, vars, senderVars, lodgementVars, stageVars, evidenceVars,
         clerkVars, carryVars, wireVars, recipientVars
<1>17. ASSUME NEW h \in Lodgers, NEW l \in Lodgements, Lodge(h, l),
             UNCHANGED <<carryVars, wireVars, recipientVars, crashes>>
      PROVE  StagedKept
  BY <1>17
     DEF Lodge, Goto, StagedKept, WorkInv, TypeOK, Settled, CarryingOne, vars,
         senderVars, lodgementVars, stageVars, evidenceVars, clerkVars,
         carryVars, wireVars, recipientVars
<1>18. ASSUME NEW w \in Clerks, MaterializeStep(w),
             UNCHANGED <<carryVars, wireVars, recipientVars, crashes>>
      PROVE  StagedKept
  BY <1>18, Materializes DEF MaterializeFrame, StagedKept
<1>19. ASSUME RecoverStep,
             UNCHANGED <<carryVars, wireVars, recipientVars, crashes>>
      PROVE  StagedKept
  BY <1>19, Recovers DEF StagedKept, stageVars
<1>20. CASE UNCHANGED vars
  BY <1>20
     DEF StagedKept, WorkInv, TypeOK, Settled, CarryingOne, vars, senderVars,
         lodgementVars, stageVars, evidenceVars, clerkVars, carryVars,
         wireVars, recipientVars
<1> QED
  BY <1>1, <1>2, <1>3, <1>4, <1>5, <1>6, <1>7, <1>8, <1>9, <1>10, <1>11, <1>12,
     <1>13, <1>14, <1>15, <1>16, <1>17, <1>18, <1>19, <1>20
     DEF Next, CarrierStep, CarryStep, LodgerStep, LodgerProceeds

\* A staged Package leaves the outgoing directory settled only, for every value
\* of the constants (daemon.py carry_one).
THEOREM StagedFilesAreKept == Spec => StagedIsKept
<1>1. Spec => [][StagedKept]_vars
  BY StagedStep, CarriageInvariance, PTL DEF Spec
<1> QED
  BY <1>1 DEF StagedIsKept, StagedKept
================================================================================
