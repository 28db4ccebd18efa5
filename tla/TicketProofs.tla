----------------------------- MODULE TicketProofs -----------------------------
(***************************************************************************)
(* What Tickets and their inspections say is in the store, and collectors  *)
(* that come in turn collect one Return, for any number of Returns,        *)
(* callers, Hosts and deaths.                                              *)
(***************************************************************************)
EXTENDS Tickets, FiniteSetTheorems, TLAPS

LEMMA InitTicket == Init => TicketInv
<1> USE TicketConstants
<1> SUFFICES ASSUME Init
             PROVE  TicketInv
  OBVIOUS
<1>1. TypeOK
  BY DEF Init, TypeOK, Ticket, Labels
<1>2. CallInv /\ InspectionInv /\ ChoiceInv /\ WriterInv
  BY DEF Init, CallInv, InspectionInv, ChoiceInv, WriterInv, Ops
<1>3. NamedIsCollected /\ HeldIsReported
  BY DEF Init, NamedIsCollected, HeldIsReported
<1>4. TurnInv
  BY DEF Init, TurnInv, Collecting, Ops
<1> QED
  BY <1>1, <1>2, <1>3, <1>4 DEF TicketInv

\* Every step keeps the types.
LEMMA TypeStep ==
  ASSUME TicketInv, [Next]_vars
  PROVE  TypeOK'
<1> USE TicketConstants DEF Goto, storeVars, callVars, historyVars
<1>1. ASSUME NEW r \in Returns, Arrive(r)
      PROVE  TypeOK'
  BY <1>1 DEF Arrive, TicketInv, TypeOK, Ticket, Labels, Ops
<1>2. ASSUME NEW c \in Callers,
             NEW kind \in {"inspect", "collect"}, Call(c, kind)
      PROVE  TypeOK'
  BY <1>2 DEF Call, Collecting, TicketInv, TypeOK, Ticket, Labels, Ops
<1>3. ASSUME NEW c \in Callers, Abandon(c)
      PROVE  TypeOK'
  BY <1>3 DEF Abandon, TicketInv, TypeOK, Ticket, Labels, Ops
<1>4. ASSUME NEW c \in Callers, ListInbox(c)
      PROVE  TypeOK'
  BY <1>4 DEF ListInbox, TicketInv, TypeOK, Ticket, Labels, Ops
<1>5. ASSUME NEW c \in Callers, NEW r \in Returns, ReadReturn(c, r)
      PROVE  TypeOK'
  <2>1. CASE r \in held
    BY <1>5, <2>1 DEF ReadReturn, TicketInv, TypeOK, Ticket, Labels, Ops
  <2>2. CASE r \notin held
    BY <1>5, <2>2 DEF ReadReturn, Rest, TicketInv, TypeOK, Ticket, Labels, Ops
  <2> QED
    BY <2>1, <2>2
<1>6. ASSUME NEW c \in Callers, ListFacts(c)
      PROVE  TypeOK'
  BY <1>6 DEF ListFacts, TicketInv, TypeOK, Ticket, Labels, Ops
<1>7. ASSUME NEW c \in Callers, EndInspection(c)
      PROVE  TypeOK'
  BY <1>7 DEF EndInspection, Rest, TicketInv, TypeOK, Ticket, Labels, Ops
<1>8. ASSUME NEW c \in Callers, Record(c)
      PROVE  TypeOK'
  BY <1>8 DEF Record, Proceed, TicketInv, TypeOK, Ticket, Labels, Ops
<1>9. ASSUME NEW c \in Callers, CollectAgain(c)
      PROVE  TypeOK'
  BY <1>9 DEF CollectAgain, Proceed, TicketInv, TypeOK, Ticket, Labels, Ops
<1>10. ASSUME NEW c \in Callers, CollectFirst(c)
      PROVE  TypeOK'
  BY <1>10 DEF CollectFirst, Proceed, TicketInv, TypeOK, Ticket, Labels, Ops
<1>11. ASSUME NEW c \in Callers, LockPackage(c)
      PROVE  TypeOK'
  BY <1>11 DEF LockPackage, TicketInv, TypeOK, Ticket, Labels, Ops
<1>12. ASSUME NEW c \in Callers, Reserve(c)
      PROVE  TypeOK'
  <2>1. choice[c] \in Returns
    BY <1>12 DEF Reserve, TicketInv, CallInv
  <2> QED
    BY <1>12, <2>1 DEF Reserve, TicketInv, TypeOK, Labels
<1>13. ASSUME NEW c \in Callers, Publish(c)
      PROVE  TypeOK'
  <2>1. choice[c] \in Returns
    BY <1>13 DEF Publish, TicketInv, CallInv
  <2> QED
    BY <1>13, <2>1 DEF Publish, TicketInv, TypeOK, Labels
<1>14. ASSUME NEW c \in Callers, Copy(c)
      PROVE  TypeOK'
  <2>1. choice[c] \in Returns
    BY <1>14 DEF Copy, TicketInv, CallInv
  <2> QED
    BY <1>14, <2>1 DEF Copy, TicketInv, TypeOK, Labels
<1>15. ASSUME NEW c \in Callers, Unlink(c)
      PROVE  TypeOK'
  BY <1>15 DEF Unlink, TicketInv, TypeOK, Ticket, Labels, Ops
<1>16. ASSUME NEW r \in Returns, HostCollects(r)
      PROVE  TypeOK'
  BY <1>16 DEF HostCollects, TicketInv, TypeOK, Ticket, Labels, Ops
<1>17. ASSUME NEW r \in Returns, HostMaterializes(r)
      PROVE  TypeOK'
  BY <1>17 DEF HostMaterializes, TicketInv, TypeOK, Ticket, Labels, Ops
<1>18. ASSUME NEW c \in Callers, TakeTicket(c)
      PROVE  TypeOK'
  BY <1>18 DEF TakeTicket, TicketInv, TypeOK, Ticket, Labels, Ops
<1>19. ASSUME NEW c \in Callers, WriteTicket(c)
      PROVE  TypeOK'
  <2>1. /\ frame[c] \in Ticket /\ frame[c] = ticket
        /\ choice[c] \in Returns \cup {None}
    BY <1>19 DEF WriteTicket, TicketInv, TypeOK, WriterInv
  <2>2. Changed(c) \in Ticket
    BY <2>1 DEF Changed, Ticket
  <2>3. CASE op[c] \in {"record", "abandon"}
    BY <1>19, <2>2, <2>3 DEF WriteTicket, Rest, TicketInv, TypeOK, Labels
  <2>4. CASE op[c] \notin {"record", "abandon"}
    BY <1>19, <2>2, <2>4 DEF WriteTicket, TicketInv, TypeOK, Labels
  <2> QED
    BY <2>3, <2>4
<1>20. ASSUME NEW c \in Callers, AnswerCollection(c)
      PROVE  TypeOK'
  BY <1>20 DEF AnswerCollection, Rest, TicketInv, TypeOK, Ticket, Labels, Ops
<1>21. ASSUME NEW c \in Callers, Crash(c)
      PROVE  TypeOK'
  BY <1>21 DEF Crash, Rest, TicketInv, TypeOK, Ticket, Labels, Ops
<1>22. CASE UNCHANGED vars
  BY <1>22 DEF TicketInv, TypeOK, Ticket, Labels, Ops, vars
<1> QED
  BY <1>1, <1>2, <1>3, <1>4, <1>5, <1>6, <1>7, <1>8, <1>9, <1>10, <1>11, <1>12,
     <1>13, <1>14, <1>15, <1>16, <1>17, <1>18, <1>19, <1>20, <1>21, <1>22
     DEF Next

\* Every step leaves each call at a step of its kind.
LEMMA CallStep ==
  ASSUME TicketInv, [Next]_vars, TypeOK'
  PROVE  CallInv'
<1> USE TicketConstants DEF Goto, storeVars, callVars, historyVars
<1>1. ASSUME NEW r \in Returns, Arrive(r)
      PROVE  CallInv'
  BY <1>1 DEF Arrive, TicketInv, TypeOK, CallInv, Ops
<1>2. ASSUME NEW c \in Callers,
             NEW kind \in {"inspect", "collect"}, Call(c, kind)
      PROVE  CallInv'
  BY <1>2 DEF Call, Collecting, TicketInv, TypeOK, CallInv, Ops
<1>3. ASSUME NEW c \in Callers, Abandon(c)
      PROVE  CallInv'
  BY <1>3 DEF Abandon, TicketInv, TypeOK, CallInv, Ops
<1>4. ASSUME NEW c \in Callers, ListInbox(c)
      PROVE  CallInv'
  BY <1>4 DEF ListInbox, TicketInv, TypeOK, CallInv, Ops
<1>5. ASSUME NEW c \in Callers, NEW r \in Returns, ReadReturn(c, r)
      PROVE  CallInv'
  BY <1>5 DEF ReadReturn, Rest, TicketInv, TypeOK, CallInv, Ops
<1>6. ASSUME NEW c \in Callers, ListFacts(c)
      PROVE  CallInv'
  BY <1>6 DEF ListFacts, TicketInv, TypeOK, CallInv, Ops
<1>7. ASSUME NEW c \in Callers, EndInspection(c)
      PROVE  CallInv'
  BY <1>7 DEF EndInspection, Rest, TicketInv, TypeOK, CallInv, Ops
<1>8. ASSUME NEW c \in Callers, Record(c)
      PROVE  CallInv'
  BY <1>8 DEF Record, Proceed, TicketInv, TypeOK, CallInv, Ops
<1>9. ASSUME NEW c \in Callers, CollectAgain(c)
      PROVE  CallInv'
  BY <1>9 DEF CollectAgain, Proceed, TicketInv, TypeOK, CallInv, Ops
<1>10. ASSUME NEW c \in Callers, CollectFirst(c)
      PROVE  CallInv'
  BY <1>10 DEF CollectFirst, Proceed, TicketInv, TypeOK, CallInv, Ops
<1>11. ASSUME NEW c \in Callers, LockPackage(c)
      PROVE  CallInv'
  BY <1>11 DEF LockPackage, ChoiceInv, TicketInv, TypeOK, CallInv, Ops
<1>12. ASSUME NEW c \in Callers, Reserve(c)
      PROVE  CallInv'
  BY <1>12 DEF Reserve, TicketInv, TypeOK, CallInv, Ops
<1>13. ASSUME NEW c \in Callers, Publish(c)
      PROVE  CallInv'
  BY <1>13 DEF Publish, TicketInv, TypeOK, CallInv, Ops
<1>14. ASSUME NEW c \in Callers, Copy(c)
      PROVE  CallInv'
  BY <1>14 DEF Copy, TicketInv, TypeOK, CallInv, Ops
<1>15. ASSUME NEW c \in Callers, Unlink(c)
      PROVE  CallInv'
  BY <1>15 DEF Unlink, TicketInv, TypeOK, CallInv, Ops
<1>16. ASSUME NEW r \in Returns, HostCollects(r)
      PROVE  CallInv'
  BY <1>16 DEF HostCollects, TicketInv, TypeOK, CallInv, Ops
<1>17. ASSUME NEW r \in Returns, HostMaterializes(r)
      PROVE  CallInv'
  BY <1>17 DEF HostMaterializes, TicketInv, TypeOK, CallInv, Ops
<1>18. ASSUME NEW c \in Callers, TakeTicket(c)
      PROVE  CallInv'
  BY <1>18 DEF TakeTicket, TicketInv, TypeOK, CallInv, Ops
<1>19. ASSUME NEW c \in Callers, WriteTicket(c)
      PROVE  CallInv'
  BY <1>19 DEF WriteTicket, Changed, Rest, TicketInv, TypeOK, CallInv, Ops
<1>20. ASSUME NEW c \in Callers, AnswerCollection(c)
      PROVE  CallInv'
  BY <1>20 DEF AnswerCollection, Rest, TicketInv, TypeOK, CallInv, Ops
<1>21. ASSUME NEW c \in Callers, Crash(c)
      PROVE  CallInv'
  BY <1>21 DEF Crash, Rest, TicketInv, TypeOK, CallInv, Ops
<1>22. CASE UNCHANGED vars
  BY <1>22 DEF TicketInv, TypeOK, CallInv, Ops, vars
<1> QED
  BY <1>1, <1>2, <1>3, <1>4, <1>5, <1>6, <1>7, <1>8, <1>9, <1>10, <1>11, <1>12,
     <1>13, <1>14, <1>15, <1>16, <1>17, <1>18, <1>19, <1>20, <1>21, <1>22
     DEF Next

\* What an inspection has in sight goes nowhere else.
LEMMA InspectionStep ==
  ASSUME TicketInv, [Next]_vars, TypeOK'
  PROVE  InspectionInv' /\ HeldIsReported'
<1> USE TicketConstants DEF Goto, storeVars, callVars, historyVars
<1>1. ASSUME NEW r \in Returns, Arrive(r)
      PROVE  InspectionInv' /\ HeldIsReported'
  BY <1>1
     DEF Arrive, TicketInv, TypeOK, CallInv, InspectionInv, HeldIsReported, Ops
<1>2. ASSUME NEW c \in Callers,
             NEW kind \in {"inspect", "collect"}, Call(c, kind)
      PROVE  InspectionInv' /\ HeldIsReported'
  BY <1>2
     DEF Call, Collecting, NamedIsCollected, Ticket, TicketInv, TypeOK,
         CallInv, InspectionInv, HeldIsReported, Ops
<1>3. ASSUME NEW c \in Callers, Abandon(c)
      PROVE  InspectionInv' /\ HeldIsReported'
  BY <1>3
     DEF Abandon, TicketInv, TypeOK, CallInv, InspectionInv, HeldIsReported,
         Ops
<1>4. ASSUME NEW c \in Callers, ListInbox(c)
      PROVE  InspectionInv' /\ HeldIsReported'
  BY <1>4
     DEF ListInbox, TicketInv, TypeOK, CallInv, InspectionInv, HeldIsReported,
         Ops
<1>5. ASSUME NEW c \in Callers, NEW r \in Returns, ReadReturn(c, r)
      PROVE  InspectionInv' /\ HeldIsReported'
  BY <1>5
     DEF ReadReturn, Rest, TicketInv, TypeOK, CallInv, InspectionInv,
         HeldIsReported, Ops
<1>6. ASSUME NEW c \in Callers, ListFacts(c)
      PROVE  InspectionInv' /\ HeldIsReported'
  <2>1. ASSUME NEW d \in Callers
        PROVE  /\ pc'[d] # "inbox"  \/ present'[d] \subseteq held \cup facts
               /\ pc'[d] # "read" \/
                    present'[d] \subseteq returns[d] \cup listing[d] \cup facts
               /\ \/ pc'[d] \notin {"inbox", "read", "decide"}
                  \/ choice'[d] = None
                  \/ choice'[d] \in facts
               /\ \/ pc'[d] # "decide"
                  \/ present'[d] \subseteq returns[d]
                  \/ choice'[d] # None
    <3>1. CASE d = c
      <4>1. /\ pc'[c] = "decide" /\ present'[c] = present[c]
            /\ present[c] \subseteq returns[c] \cup facts
        BY <1>6 DEF ListFacts, TicketInv, TypeOK, InspectionInv
      <4>2. \/ choice'[c] \in facts
            \/ facts = {} /\ choice'[c] = choice[c]
        BY <1>6 DEF ListFacts, TicketInv, TypeOK, InspectionInv
      <4>3. choice'[c] \in facts => choice'[c] # None
        BY DEF TicketInv, TypeOK
      <4>4. choice[c] = None \/ choice[c] \in facts
        BY <1>6 DEF ListFacts, TicketInv, InspectionInv
      <4> QED
        BY <3>1, <4>1, <4>2, <4>3, <4>4
    <3>2. CASE d # c
      BY <1>6, <3>2
         DEF ListFacts, TicketInv, TypeOK, InspectionInv, HeldIsReported
    <3> QED
      BY <3>1, <3>2
  <2> QED
    BY <1>6, <2>1 DEF ListFacts, InspectionInv, HeldIsReported
<1>7. ASSUME NEW c \in Callers, EndInspection(c)
      PROVE  InspectionInv' /\ HeldIsReported'
  BY <1>7
     DEF EndInspection, Rest, TicketInv, TypeOK, CallInv, InspectionInv,
         HeldIsReported, Ops
<1>8. ASSUME NEW c \in Callers, Record(c)
      PROVE  InspectionInv' /\ HeldIsReported'
  BY <1>8
     DEF Record, Proceed, TicketInv, TypeOK, CallInv, InspectionInv,
         HeldIsReported, Ops
<1>9. ASSUME NEW c \in Callers, CollectAgain(c)
      PROVE  InspectionInv' /\ HeldIsReported'
  BY <1>9
     DEF CollectAgain, Proceed, TicketInv, TypeOK, CallInv, InspectionInv,
         HeldIsReported, Ops
<1>10. ASSUME NEW c \in Callers, CollectFirst(c)
      PROVE  InspectionInv' /\ HeldIsReported'
  BY <1>10
     DEF CollectFirst, Proceed, TicketInv, TypeOK, CallInv, InspectionInv,
         HeldIsReported, Ops
<1>11. ASSUME NEW c \in Callers, LockPackage(c)
      PROVE  InspectionInv' /\ HeldIsReported'
  BY <1>11
     DEF LockPackage, TicketInv, TypeOK, CallInv, InspectionInv,
         HeldIsReported, Ops
<1>12. ASSUME NEW c \in Callers, Reserve(c)
      PROVE  InspectionInv' /\ HeldIsReported'
  BY <1>12
     DEF Reserve, TicketInv, TypeOK, CallInv, InspectionInv, HeldIsReported,
         Ops
<1>13. ASSUME NEW c \in Callers, Publish(c)
      PROVE  InspectionInv' /\ HeldIsReported'
  BY <1>13
     DEF Publish, TicketInv, TypeOK, CallInv, InspectionInv, HeldIsReported,
         Ops
<1>14. ASSUME NEW c \in Callers, Copy(c)
      PROVE  InspectionInv' /\ HeldIsReported'
  BY <1>14
     DEF Copy, TicketInv, TypeOK, CallInv, InspectionInv, HeldIsReported, Ops
<1>15. ASSUME NEW c \in Callers, Unlink(c)
      PROVE  InspectionInv' /\ HeldIsReported'
  BY <1>15
     DEF Unlink, ChoiceInv, TicketInv, TypeOK, CallInv, InspectionInv,
         HeldIsReported, Ops
<1>16. ASSUME NEW r \in Returns, HostCollects(r)
      PROVE  InspectionInv' /\ HeldIsReported'
  BY <1>16
     DEF HostCollects, TicketInv, TypeOK, CallInv, InspectionInv,
         HeldIsReported, Ops
<1>17. ASSUME NEW r \in Returns, HostMaterializes(r)
      PROVE  InspectionInv' /\ HeldIsReported'
  BY <1>17
     DEF HostMaterializes, TicketInv, TypeOK, CallInv, InspectionInv,
         HeldIsReported, Ops
<1>18. ASSUME NEW c \in Callers, TakeTicket(c)
      PROVE  InspectionInv' /\ HeldIsReported'
  BY <1>18
     DEF TakeTicket, TicketInv, TypeOK, CallInv, InspectionInv, HeldIsReported,
         Ops
<1>19. ASSUME NEW c \in Callers, WriteTicket(c)
      PROVE  InspectionInv' /\ HeldIsReported'
  BY SMTT(20), <1>19
     DEF WriteTicket, Changed, Rest, TicketInv, TypeOK, CallInv, InspectionInv,
         HeldIsReported, Ops
<1>20. ASSUME NEW c \in Callers, AnswerCollection(c)
      PROVE  InspectionInv' /\ HeldIsReported'
  BY <1>20
     DEF AnswerCollection, Rest, TicketInv, TypeOK, CallInv, InspectionInv,
         HeldIsReported, Ops
<1>21. ASSUME NEW c \in Callers, Crash(c)
      PROVE  InspectionInv' /\ HeldIsReported'
  BY <1>21
     DEF Crash, Rest, TicketInv, TypeOK, CallInv, InspectionInv,
         HeldIsReported, Ops
<1>22. CASE UNCHANGED vars
  BY <1>22
     DEF TicketInv, TypeOK, CallInv, InspectionInv, HeldIsReported, Ops, vars
<1> QED
  BY <1>1, <1>2, <1>3, <1>4, <1>5, <1>6, <1>7, <1>8, <1>9, <1>10, <1>11, <1>12,
     <1>13, <1>14, <1>15, <1>16, <1>17, <1>18, <1>19, <1>20, <1>21, <1>22
     DEF Next

\* A collector gets its lock, CL and copy in this order.
LEMMA ChoiceStep ==
  ASSUME TicketInv, [Next]_vars, TypeOK', CallInv'
  PROVE  ChoiceInv' /\ NamedIsCollected'
<1> USE TicketConstants DEF Goto, storeVars, callVars, historyVars
<1>1. ASSUME NEW r \in Returns, Arrive(r)
      PROVE  ChoiceInv' /\ NamedIsCollected'
  BY <1>1
     DEF Arrive, TicketInv, TypeOK, CallInv, ChoiceInv, NamedIsCollected,
         InspectionInv, WriterInv, Ticket, Ops
<1>2. ASSUME NEW c \in Callers,
             NEW kind \in {"inspect", "collect"}, Call(c, kind)
      PROVE  ChoiceInv' /\ NamedIsCollected'
  BY <1>2
     DEF Call, Collecting, TicketInv, TypeOK, CallInv, ChoiceInv,
         NamedIsCollected, InspectionInv, WriterInv, Ticket, Ops
<1>3. ASSUME NEW c \in Callers, Abandon(c)
      PROVE  ChoiceInv' /\ NamedIsCollected'
  BY <1>3
     DEF Abandon, TicketInv, TypeOK, CallInv, ChoiceInv, NamedIsCollected,
         InspectionInv, WriterInv, Ticket, Ops
<1>4. ASSUME NEW c \in Callers, ListInbox(c)
      PROVE  ChoiceInv' /\ NamedIsCollected'
  BY <1>4
     DEF ListInbox, TicketInv, TypeOK, CallInv, ChoiceInv, NamedIsCollected,
         InspectionInv, WriterInv, Ticket, Ops
<1>5. ASSUME NEW c \in Callers, NEW r \in Returns, ReadReturn(c, r)
      PROVE  ChoiceInv' /\ NamedIsCollected'
  BY <1>5
     DEF ReadReturn, Rest, TicketInv, TypeOK, CallInv, ChoiceInv,
         NamedIsCollected, InspectionInv, WriterInv, Ticket, Ops
<1>6. ASSUME NEW c \in Callers, ListFacts(c)
      PROVE  ChoiceInv' /\ NamedIsCollected'
  BY <1>6
     DEF ListFacts, TicketInv, TypeOK, CallInv, ChoiceInv, NamedIsCollected,
         InspectionInv, WriterInv, Ticket, Ops
<1>7. ASSUME NEW c \in Callers, EndInspection(c)
      PROVE  ChoiceInv' /\ NamedIsCollected'
  BY <1>7
     DEF EndInspection, Rest, TicketInv, TypeOK, CallInv, ChoiceInv,
         NamedIsCollected, InspectionInv, WriterInv, Ticket, Ops
<1>8. ASSUME NEW c \in Callers, Record(c)
      PROVE  ChoiceInv' /\ NamedIsCollected'
  BY <1>8
     DEF Record, Proceed, TicketInv, TypeOK, CallInv, ChoiceInv,
         NamedIsCollected, InspectionInv, WriterInv, Ticket, Ops
<1>9. ASSUME NEW c \in Callers, CollectAgain(c)
      PROVE  ChoiceInv' /\ NamedIsCollected'
  BY <1>9
     DEF CollectAgain, Proceed, TicketInv, TypeOK, CallInv, ChoiceInv,
         NamedIsCollected, InspectionInv, WriterInv, Ticket, Ops
<1>10. ASSUME NEW c \in Callers, CollectFirst(c)
      PROVE  ChoiceInv' /\ NamedIsCollected'
  BY <1>10
     DEF CollectFirst, Proceed, TicketInv, TypeOK, CallInv, ChoiceInv,
         NamedIsCollected, InspectionInv, WriterInv, Ticket, Ops
<1>11. ASSUME NEW c \in Callers, LockPackage(c)
      PROVE  ChoiceInv' /\ NamedIsCollected'
  BY <1>11
     DEF LockPackage, TicketInv, TypeOK, CallInv, ChoiceInv, NamedIsCollected,
         InspectionInv, WriterInv, Ticket, Ops
<1>12. ASSUME NEW c \in Callers, Reserve(c)
      PROVE  ChoiceInv' /\ NamedIsCollected'
  BY <1>12
     DEF Reserve, TicketInv, TypeOK, CallInv, ChoiceInv, NamedIsCollected,
         InspectionInv, WriterInv, Ticket, Ops
<1>13. ASSUME NEW c \in Callers, Publish(c)
      PROVE  ChoiceInv' /\ NamedIsCollected'
  BY <1>13
     DEF Publish, TicketInv, TypeOK, CallInv, ChoiceInv, NamedIsCollected,
         InspectionInv, WriterInv, Ticket, Ops
<1>14. ASSUME NEW c \in Callers, Copy(c)
      PROVE  ChoiceInv' /\ NamedIsCollected'
  BY <1>14
     DEF Copy, TicketInv, TypeOK, CallInv, ChoiceInv, NamedIsCollected,
         InspectionInv, WriterInv, Ticket, Ops
<1>15. ASSUME NEW c \in Callers, Unlink(c)
      PROVE  ChoiceInv' /\ NamedIsCollected'
  BY <1>15
     DEF Unlink, TicketInv, TypeOK, CallInv, ChoiceInv, NamedIsCollected,
         InspectionInv, WriterInv, Ticket, Ops
<1>16. ASSUME NEW r \in Returns, HostCollects(r)
      PROVE  ChoiceInv' /\ NamedIsCollected'
  BY <1>16
     DEF HostCollects, TicketInv, TypeOK, CallInv, ChoiceInv, NamedIsCollected,
         InspectionInv, WriterInv, Ticket, Ops
<1>17. ASSUME NEW r \in Returns, HostMaterializes(r)
      PROVE  ChoiceInv' /\ NamedIsCollected'
  BY <1>17
     DEF HostMaterializes, TicketInv, TypeOK, CallInv, ChoiceInv,
         NamedIsCollected, InspectionInv, WriterInv, Ticket, Ops
<1>18. ASSUME NEW c \in Callers, TakeTicket(c)
      PROVE  ChoiceInv' /\ NamedIsCollected'
  BY <1>18
     DEF TakeTicket, TicketInv, TypeOK, CallInv, ChoiceInv, NamedIsCollected,
         InspectionInv, WriterInv, Ticket, Ops
<1>19. ASSUME NEW c \in Callers, WriteTicket(c)
      PROVE  ChoiceInv' /\ NamedIsCollected'
  BY SMTT(20), <1>19
     DEF WriteTicket, Changed, Rest, TicketInv, TypeOK, CallInv, ChoiceInv,
         NamedIsCollected, InspectionInv, WriterInv, Ticket, Ops
<1>20. ASSUME NEW c \in Callers, AnswerCollection(c)
      PROVE  ChoiceInv' /\ NamedIsCollected'
  BY <1>20
     DEF AnswerCollection, Rest, TicketInv, TypeOK, CallInv, ChoiceInv,
         NamedIsCollected, InspectionInv, WriterInv, Ticket, Ops
<1>21. ASSUME NEW c \in Callers, Crash(c)
      PROVE  ChoiceInv' /\ NamedIsCollected'
  BY <1>21
     DEF Crash, Rest, TicketInv, TypeOK, CallInv, ChoiceInv, NamedIsCollected,
         InspectionInv, WriterInv, Ticket, Ops
<1>22. CASE UNCHANGED vars
  BY <1>22
     DEF TicketInv, TypeOK, CallInv, ChoiceInv, NamedIsCollected,
         InspectionInv, WriterInv, Ticket, Ops, vars
<1> QED
  BY <1>1, <1>2, <1>3, <1>4, <1>5, <1>6, <1>7, <1>8, <1>9, <1>10, <1>11, <1>12,
     <1>13, <1>14, <1>15, <1>16, <1>17, <1>18, <1>19, <1>20, <1>21, <1>22
     DEF Next

\* The Ticket changes under its lock only.
LEMMA WriterStep ==
  ASSUME TicketInv, [Next]_vars, TypeOK', CallInv'
  PROVE  WriterInv'
<1> USE TicketConstants DEF Goto, storeVars, callVars, historyVars
<1>1. ASSUME NEW r \in Returns, Arrive(r)
      PROVE  WriterInv'
  BY <1>1 DEF Arrive, TicketInv, TypeOK, CallInv, WriterInv, Ops
<1>2. ASSUME NEW c \in Callers,
             NEW kind \in {"inspect", "collect"}, Call(c, kind)
      PROVE  WriterInv'
  BY <1>2 DEF Call, Collecting, TicketInv, TypeOK, CallInv, WriterInv, Ops
<1>3. ASSUME NEW c \in Callers, Abandon(c)
      PROVE  WriterInv'
  BY <1>3 DEF Abandon, TicketInv, TypeOK, CallInv, WriterInv, Ops
<1>4. ASSUME NEW c \in Callers, ListInbox(c)
      PROVE  WriterInv'
  BY <1>4 DEF ListInbox, TicketInv, TypeOK, CallInv, WriterInv, Ops
<1>5. ASSUME NEW c \in Callers, NEW r \in Returns, ReadReturn(c, r)
      PROVE  WriterInv'
  BY <1>5 DEF ReadReturn, Rest, TicketInv, TypeOK, CallInv, WriterInv, Ops
<1>6. ASSUME NEW c \in Callers, ListFacts(c)
      PROVE  WriterInv'
  BY <1>6 DEF ListFacts, TicketInv, TypeOK, CallInv, WriterInv, Ops
<1>7. ASSUME NEW c \in Callers, EndInspection(c)
      PROVE  WriterInv'
  BY <1>7 DEF EndInspection, Rest, TicketInv, TypeOK, CallInv, WriterInv, Ops
<1>8. ASSUME NEW c \in Callers, Record(c)
      PROVE  WriterInv'
  BY <1>8 DEF Record, Proceed, TicketInv, TypeOK, CallInv, WriterInv, Ops
<1>9. ASSUME NEW c \in Callers, CollectAgain(c)
      PROVE  WriterInv'
  BY <1>9 DEF CollectAgain, Proceed, TicketInv, TypeOK, CallInv, WriterInv, Ops
<1>10. ASSUME NEW c \in Callers, CollectFirst(c)
      PROVE  WriterInv'
  BY <1>10
     DEF CollectFirst, Proceed, TicketInv, TypeOK, CallInv, WriterInv, Ops
<1>11. ASSUME NEW c \in Callers, LockPackage(c)
      PROVE  WriterInv'
  BY <1>11 DEF LockPackage, TicketInv, TypeOK, CallInv, WriterInv, Ops
<1>12. ASSUME NEW c \in Callers, Reserve(c)
      PROVE  WriterInv'
  BY <1>12 DEF Reserve, TicketInv, TypeOK, CallInv, WriterInv, Ops
<1>13. ASSUME NEW c \in Callers, Publish(c)
      PROVE  WriterInv'
  BY <1>13 DEF Publish, TicketInv, TypeOK, CallInv, WriterInv, Ops
<1>14. ASSUME NEW c \in Callers, Copy(c)
      PROVE  WriterInv'
  BY <1>14 DEF Copy, TicketInv, TypeOK, CallInv, WriterInv, Ops
<1>15. ASSUME NEW c \in Callers, Unlink(c)
      PROVE  WriterInv'
  BY <1>15 DEF Unlink, TicketInv, TypeOK, CallInv, WriterInv, Ops
<1>16. ASSUME NEW r \in Returns, HostCollects(r)
      PROVE  WriterInv'
  BY <1>16 DEF HostCollects, TicketInv, TypeOK, CallInv, WriterInv, Ops
<1>17. ASSUME NEW r \in Returns, HostMaterializes(r)
      PROVE  WriterInv'
  BY <1>17 DEF HostMaterializes, TicketInv, TypeOK, CallInv, WriterInv, Ops
<1>18. ASSUME NEW c \in Callers, TakeTicket(c)
      PROVE  WriterInv'
  BY <1>18 DEF TakeTicket, TicketInv, TypeOK, CallInv, WriterInv, Ops
<1>19. ASSUME NEW c \in Callers, WriteTicket(c)
      PROVE  WriterInv'
  BY <1>19
     DEF WriteTicket, Changed, Rest, TicketInv, TypeOK, CallInv, WriterInv, Ops
<1>20. ASSUME NEW c \in Callers, AnswerCollection(c)
      PROVE  WriterInv'
  BY <1>20
     DEF AnswerCollection, Rest, TicketInv, TypeOK, CallInv, WriterInv, Ops
<1>21. ASSUME NEW c \in Callers, Crash(c)
      PROVE  WriterInv'
  BY <1>21 DEF Crash, Rest, TicketInv, TypeOK, CallInv, WriterInv, Ops
<1>22. CASE UNCHANGED vars
  BY <1>22 DEF TicketInv, TypeOK, CallInv, WriterInv, Ops, vars
<1> QED
  BY <1>1, <1>2, <1>3, <1>4, <1>5, <1>6, <1>7, <1>8, <1>9, <1>10, <1>11, <1>12,
     <1>13, <1>14, <1>15, <1>16, <1>17, <1>18, <1>19, <1>20, <1>21, <1>22
     DEF Next

\* One collector at a time publishes one CL.
LEMMA TurnStep ==
  ASSUME TicketInv, [Next]_vars, TypeOK', CallInv'
  PROVE  TurnInv'
<1> USE TicketConstants DEF Goto, storeVars, callVars, historyVars
<1>1. ASSUME NEW r \in Returns, Arrive(r)
      PROVE  TurnInv'
  BY <1>1
     DEF Arrive, TicketInv, TypeOK, CallInv, ChoiceInv, TurnInv, Collecting,
         Ops
<1>2. ASSUME NEW c \in Callers,
             NEW kind \in {"inspect", "collect"}, Call(c, kind)
      PROVE  TurnInv'
  <2>1. CASE kind = "inspect"
    <3>1. /\ op' = [op EXCEPT ![c] = "inspect"] /\ pc'[c] = "inbox"
          /\ \A d \in Callers \ {c} : pc'[d] = pc[d] /\ choice'[d] = choice[d]
          /\ UNCHANGED <<taken, facts>> /\ crowded' = crowded
      BY <1>2, <2>1 DEF Call, TicketInv, TypeOK
    <3>2. op'[c] = "inspect" /\ \A d \in Callers \ {c} : op'[d] = op[d]
      BY <3>1 DEF TicketInv, TypeOK
    <3>3. Collecting' \subseteq Collecting
      BY <3>2 DEF Collecting
    <3>4. \A d \in Callers :
            \/ op'[d] = "name" /\ pc'[d] \in {"lock", "reserve", "publish"}
            \/ op'[d] = "collect" /\ pc'[d] = "decide" /\ choice'[d] = None
            => d # c /\ op'[d] = op[d]
      BY <3>1, <3>2 DEF TicketInv, TypeOK
    <3> QED
      BY <3>1, <3>3, <3>4 DEF TicketInv, TurnInv
  <2>3. CASE kind = "collect" /\ Collecting # {}
    BY <1>2, <2>3 DEF Call, TicketInv, TurnInv
  <2>2. CASE kind = "collect" /\ Collecting = {}
    <3>1. \A d \in Callers \ {c} : op'[d] \notin {"collect", "name", "confirm"}
      BY <1>2, <2>2 DEF Call, Collecting, TicketInv, TypeOK
    <3>2. op'[c] = "collect" /\ pc'[c] = "inbox"
      BY <1>2, <2>2 DEF Call, TicketInv, TypeOK
    <3>3. UNCHANGED <<taken, facts>> /\ crowded' = crowded
      BY <1>2, <2>2 DEF Call, TicketInv, TypeOK
    <3> QED
      BY <3>1, <3>2, <3>3 DEF TicketInv, TurnInv, Collecting
  <2> QED
    BY <2>1, <2>2, <2>3
<1>3. ASSUME NEW c \in Callers, Abandon(c)
      PROVE  TurnInv'
  BY <1>3
     DEF Abandon, TicketInv, TypeOK, CallInv, ChoiceInv, TurnInv, Collecting,
         Ops
<1>4. ASSUME NEW c \in Callers, ListInbox(c)
      PROVE  TurnInv'
  BY <1>4
     DEF ListInbox, TicketInv, TypeOK, CallInv, ChoiceInv, TurnInv, Collecting,
         Ops
<1>5. ASSUME NEW c \in Callers, NEW r \in Returns, ReadReturn(c, r)
      PROVE  TurnInv'
  BY <1>5
     DEF ReadReturn, Rest, TicketInv, TypeOK, CallInv, ChoiceInv, TurnInv,
         Collecting, Ops
<1>6. ASSUME NEW c \in Callers, ListFacts(c)
      PROVE  TurnInv'
  BY <1>6
     DEF ListFacts, TicketInv, TypeOK, CallInv, ChoiceInv, TurnInv, Collecting,
         Ops
<1>7. ASSUME NEW c \in Callers, EndInspection(c)
      PROVE  TurnInv'
  BY <1>7
     DEF EndInspection, Rest, TicketInv, TypeOK, CallInv, ChoiceInv, TurnInv,
         Collecting, Ops
<1>8. ASSUME NEW c \in Callers, Record(c)
      PROVE  TurnInv'
  BY <1>8
     DEF Record, Proceed, TicketInv, TypeOK, CallInv, ChoiceInv, TurnInv,
         Collecting, Ops
<1>9. ASSUME NEW c \in Callers, CollectAgain(c)
      PROVE  TurnInv'
  BY <1>9
     DEF CollectAgain, Proceed, TicketInv, TypeOK, CallInv, ChoiceInv, TurnInv,
         Collecting, Ops
<1>10. ASSUME NEW c \in Callers, CollectFirst(c)
      PROVE  TurnInv'
  BY <1>10
     DEF CollectFirst, Proceed, TicketInv, TypeOK, CallInv, ChoiceInv, TurnInv,
         Collecting, Ops
<1>11. ASSUME NEW c \in Callers, LockPackage(c)
      PROVE  TurnInv'
  BY <1>11
     DEF LockPackage, TicketInv, TypeOK, CallInv, ChoiceInv, TurnInv,
         Collecting, Ops
<1>12. ASSUME NEW c \in Callers, Reserve(c)
      PROVE  TurnInv'
  BY <1>12
     DEF Reserve, TicketInv, TypeOK, CallInv, ChoiceInv, TurnInv, Collecting,
         Ops
<1>13. ASSUME NEW c \in Callers, Publish(c)
      PROVE  TurnInv'
  <2>1. op[c] = "name" /\ choice[c] \in Returns
    BY <1>13 DEF Publish, TicketInv, CallInv
  <2>2. CASE crowded
    BY <1>13, <2>1, <2>2 DEF Publish, TicketInv, TurnInv
  <2>3. CASE ~crowded
    <3>1. taken = {}
      BY <1>13, <2>1, <2>3 DEF Publish, TicketInv, TurnInv
    <3>2. \A d \in Callers \ {c} : op[d] \notin {"collect", "name", "confirm"}
      BY <2>1, <2>3 DEF TicketInv, TurnInv, Collecting
    <3>3. /\ taken' = {choice[c]} /\ choice[c] \in facts'
          /\ pc'[c] = "copy"
          /\ UNCHANGED <<op, choice, crowded>>
      BY <1>13, <3>1 DEF Publish, TicketInv, TypeOK
    <3> QED
      BY <2>1, <3>2, <3>3 DEF TicketInv, TurnInv, Collecting
  <2> QED
    BY <2>2, <2>3
<1>14. ASSUME NEW c \in Callers, Copy(c)
      PROVE  TurnInv'
  BY <1>14
     DEF Copy, TicketInv, TypeOK, CallInv, ChoiceInv, TurnInv, Collecting, Ops
<1>15. ASSUME NEW c \in Callers, Unlink(c)
      PROVE  TurnInv'
  BY <1>15
     DEF Unlink, TicketInv, TypeOK, CallInv, ChoiceInv, TurnInv, Collecting,
         Ops
<1>16. ASSUME NEW r \in Returns, HostCollects(r)
      PROVE  TurnInv'
  BY <1>16
     DEF HostCollects, TicketInv, TypeOK, CallInv, ChoiceInv, TurnInv,
         Collecting, Ops
<1>17. ASSUME NEW r \in Returns, HostMaterializes(r)
      PROVE  TurnInv'
  BY <1>17
     DEF HostMaterializes, TicketInv, TypeOK, CallInv, ChoiceInv, TurnInv,
         Collecting, Ops
<1>18. ASSUME NEW c \in Callers, TakeTicket(c)
      PROVE  TurnInv'
  BY <1>18
     DEF TakeTicket, TicketInv, TypeOK, CallInv, ChoiceInv, TurnInv,
         Collecting, Ops
<1>19. ASSUME NEW c \in Callers, WriteTicket(c)
      PROVE  TurnInv'
  BY <1>19
     DEF WriteTicket, Changed, Rest, TicketInv, TypeOK, CallInv, ChoiceInv,
         TurnInv, Collecting, Ops
<1>20. ASSUME NEW c \in Callers, AnswerCollection(c)
      PROVE  TurnInv'
  BY <1>20
     DEF AnswerCollection, Rest, TicketInv, TypeOK, CallInv, ChoiceInv,
         TurnInv, Collecting, Ops
<1>21. ASSUME NEW c \in Callers, Crash(c)
      PROVE  TurnInv'
  BY <1>21
     DEF Crash, Rest, TicketInv, TypeOK, CallInv, ChoiceInv, TurnInv,
         Collecting, Ops
<1>22. CASE UNCHANGED vars
  BY <1>22
     DEF TicketInv, TypeOK, CallInv, ChoiceInv, TurnInv, Collecting, Ops, vars
<1> QED
  BY <1>1, <1>2, <1>3, <1>4, <1>5, <1>6, <1>7, <1>8, <1>9, <1>10, <1>11, <1>12,
     <1>13, <1>14, <1>15, <1>16, <1>17, <1>18, <1>19, <1>20, <1>21, <1>22
     DEF Next

\* What Tickets and their inspections say, for every value of the constants.
THEOREM TicketInvariance == Spec => []TicketInv
<1>1. TicketInv /\ [Next]_vars => TicketInv'
  <2> SUFFICES ASSUME TicketInv, [Next]_vars
               PROVE  TicketInv'
    OBVIOUS
  <2>1. TypeOK'
    BY TypeStep
  <2>2. CallInv'
    BY <2>1, CallStep
  <2>3. InspectionInv' /\ HeldIsReported'
    BY <2>1, InspectionStep
  <2>4. ChoiceInv' /\ NamedIsCollected'
    BY <2>1, <2>2, ChoiceStep
  <2>5. WriterInv' /\ TurnInv'
    BY <2>1, <2>2, WriterStep, TurnStep
  <2> QED
    BY <2>1, <2>2, <2>3, <2>4, <2>5 DEF TicketInv
<1> QED
  BY <1>1, InitTicket, PTL DEF Spec

\* README: "PORTER deterministically collects one and leaves the others
\* visible": at most one, however many Returns there are, unless two callers
\* collected at once.
THEOREM CollectionsInTurn == Spec => []OneReturnInTurn
<1>1. TicketInv => OneReturnInTurn
  <2> SUFFICES ASSUME TicketInv, ~crowded
               PROVE  Cardinality(taken) <= 1
    BY DEF OneReturnInTurn
  <2>1. CASE taken = {}
    BY <2>1, FS_EmptySet
  <2>2. ASSUME NEW r \in taken
        PROVE  Cardinality(taken) <= 1
    <3>1. taken = {r}
      BY <2>2 DEF TicketInv, TurnInv
    <3>2. Cardinality({r}) = 1
      BY FS_Singleton
    <3> QED
      BY <3>1, <3>2
  <2> QED
    BY <2>1, <2>2
<1> QED
  BY <1>1, TicketInvariance, PTL

\* Whoever replaces the Ticket read it under the lock it still holds, so what
\* others recorded stays.
THEOREM TicketsOnlyGrow == Spec => TicketOnlyGrows
<1> DEFINE Grown == /\ ticket.abandoned => ticket'.abandoned
                    /\ ticket.named # None => ticket'.named # None
<1>1. TicketInv /\ [Next]_vars => [Grown]_vars
  <2> SUFFICES ASSUME TicketInv, [Next]_vars
               PROVE  Grown
    OBVIOUS
  <2> USE TicketConstants DEF Goto, storeVars, callVars, historyVars
  <2>1. ASSUME NEW r \in Returns, Arrive(r)
        PROVE  Grown
    BY <2>1 DEF Arrive, TicketInv, TypeOK, CallInv, WriterInv, Ticket
  <2>2. ASSUME NEW c \in Callers,
               NEW kind \in {"inspect", "collect"}, Call(c, kind)
        PROVE  Grown
    BY <2>2 DEF Call, Collecting, TicketInv, TypeOK, CallInv, WriterInv, Ticket
  <2>3. ASSUME NEW c \in Callers, Abandon(c)
        PROVE  Grown
    BY <2>3 DEF Abandon, TicketInv, TypeOK, CallInv, WriterInv, Ticket
  <2>4. ASSUME NEW c \in Callers, ListInbox(c)
        PROVE  Grown
    BY <2>4 DEF ListInbox, TicketInv, TypeOK, CallInv, WriterInv, Ticket
  <2>5. ASSUME NEW c \in Callers, NEW r \in Returns, ReadReturn(c, r)
        PROVE  Grown
    BY <2>5 DEF ReadReturn, Rest, TicketInv, TypeOK, CallInv, WriterInv, Ticket
  <2>6. ASSUME NEW c \in Callers, ListFacts(c)
        PROVE  Grown
    BY <2>6 DEF ListFacts, TicketInv, TypeOK, CallInv, WriterInv, Ticket
  <2>7. ASSUME NEW c \in Callers, EndInspection(c)
        PROVE  Grown
    BY <2>7
       DEF EndInspection, Rest, TicketInv, TypeOK, CallInv, WriterInv, Ticket
  <2>8. ASSUME NEW c \in Callers, Record(c)
        PROVE  Grown
    BY <2>8 DEF Record, Proceed, TicketInv, TypeOK, CallInv, WriterInv, Ticket
  <2>9. ASSUME NEW c \in Callers, CollectAgain(c)
        PROVE  Grown
    BY <2>9
       DEF CollectAgain, Proceed, TicketInv, TypeOK, CallInv, WriterInv, Ticket
  <2>10. ASSUME NEW c \in Callers, CollectFirst(c)
        PROVE  Grown
    BY <2>10
       DEF CollectFirst, Proceed, TicketInv, TypeOK, CallInv, WriterInv, Ticket
  <2>11. ASSUME NEW c \in Callers, LockPackage(c)
        PROVE  Grown
    BY <2>11 DEF LockPackage, TicketInv, TypeOK, CallInv, WriterInv, Ticket
  <2>12. ASSUME NEW c \in Callers, Reserve(c)
        PROVE  Grown
    BY <2>12 DEF Reserve, TicketInv, TypeOK, CallInv, WriterInv, Ticket
  <2>13. ASSUME NEW c \in Callers, Publish(c)
        PROVE  Grown
    BY <2>13 DEF Publish, TicketInv, TypeOK, CallInv, WriterInv, Ticket
  <2>14. ASSUME NEW c \in Callers, Copy(c)
        PROVE  Grown
    BY <2>14 DEF Copy, TicketInv, TypeOK, CallInv, WriterInv, Ticket
  <2>15. ASSUME NEW c \in Callers, Unlink(c)
        PROVE  Grown
    BY <2>15 DEF Unlink, TicketInv, TypeOK, CallInv, WriterInv, Ticket
  <2>16. ASSUME NEW r \in Returns, HostCollects(r)
        PROVE  Grown
    BY <2>16 DEF HostCollects, TicketInv, TypeOK, CallInv, WriterInv, Ticket
  <2>17. ASSUME NEW r \in Returns, HostMaterializes(r)
        PROVE  Grown
    BY <2>17
       DEF HostMaterializes, TicketInv, TypeOK, CallInv, WriterInv, Ticket
  <2>18. ASSUME NEW c \in Callers, TakeTicket(c)
        PROVE  Grown
    BY <2>18 DEF TakeTicket, TicketInv, TypeOK, CallInv, WriterInv, Ticket
  <2>19. ASSUME NEW c \in Callers, WriteTicket(c)
        PROVE  Grown
    BY <2>19
       DEF WriteTicket, Changed, Rest, TicketInv, TypeOK, CallInv, WriterInv,
           Ticket
  <2>20. ASSUME NEW c \in Callers, AnswerCollection(c)
        PROVE  Grown
    BY <2>20
       DEF AnswerCollection, Rest, TicketInv, TypeOK, CallInv, WriterInv,
           Ticket
  <2>21. ASSUME NEW c \in Callers, Crash(c)
        PROVE  Grown
    BY <2>21 DEF Crash, Rest, TicketInv, TypeOK, CallInv, WriterInv, Ticket
  <2>22. CASE UNCHANGED vars
    BY <2>22 DEF TicketInv, TypeOK, CallInv, WriterInv, Ticket, vars
  <2> QED
    BY <2>1, <2>2, <2>3, <2>4, <2>5, <2>6, <2>7, <2>8, <2>9, <2>10, <2>11,
       <2>12, <2>13, <2>14, <2>15, <2>16, <2>17, <2>18, <2>19, <2>20, <2>21,
       <2>22
       DEF Next
<1> QED
  BY <1>1, TicketInvariance, PTL DEF Spec, TicketOnlyGrows
===============================================================================
