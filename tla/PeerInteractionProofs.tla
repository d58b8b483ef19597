------------------------ MODULE PeerInteractionProofs ------------------------
(***************************************************************************)
(* The safety of questions and answers, for any set of questions.          *)
(*                                                                         *)
(* The invariant ties the four places that know about a question: its open *)
(* ask, the promise of the request, the accepted answers and the pushes.   *)
(***************************************************************************)
EXTENDS PeerInteraction, TLAPS

(* What the transport knows about one question                             *)
Unanswered(m) == \A by \in Route : <<m, by>> \notin log

AskOK(m) ==
    /\ asker[m] = "idle" => pending[m] = "none" /\ Unanswered(m)
    /\ pending[m] # "none" => waiter[m] = "parked" /\ answered[m] = "none" /\ Unanswered(m)
    /\ waiter[m] \in Route => <<m, waiter[m]>> \in log
    /\ answered[m] # "none" => <<m, answered[m]>> \in log

AskInv == \A m \in Ask : AskOK(m)

(* A message is pushed once: before its first push it has no record        *)
NotAsked == \A m \in Ask : asker[m] = "idle" => wire[Question(m)] = "idle"
NotReplied == \A m \in Ask : wire[Answered(m)] # "idle" => asker[m] # "idle" /\ pending[m] = "none"
NotPushed ==
    \A x \in Message :
        /\ wire[x] = "idle" => record[x] = "absent"
        /\ frame[x] = "delivered" => receipt[x] = "delivered"
        /\ wire[x] = "delivered" => record[x] = "delivered"

PushInv == NotAsked /\ NotReplied /\ NotPushed

IInv == InteractionTypeOK /\ AskInv /\ PushInv /\ NoSilentLoss /\ OneAnswer /\ DeliveredIsConfirmed

-----------------------------------------------------------------------------
(* A question and an answer are different messages, and so are the messages *)
(* of different questions.                                                  *)
LEMMA MessagesDiffer ==
    /\ \A m \in Ask : Question(m) \in Message /\ Answered(m) \in Message
    /\ \A m, n \in Ask : /\ Question(m) # Answered(n)
                         /\ Question(m) = Question(n) => m = n
                         /\ Answered(m) = Answered(n) => m = n
    /\ \A x \in Message : \E m \in Ask : x = Question(m) \/ x = Answered(m)
BY DEF Message, Question, Answered

LEMMA InitInv == Init => IInv
BY MessagesDiffer DEF Init, IInv, InteractionTypeOK, AskInv, AskOK, Unanswered, PushInv,
   NotAsked, NotReplied, NotPushed, NoSilentLoss, OneAnswer, DeliveredIsConfirmed, Message,
   Route

(* The pushing part of the invariant for one message                        *)
MessageInv(x) ==
    /\ wire[x] = "idle" => record[x] = "absent"
    /\ frame[x] = "delivered" => receipt[x] = "delivered"
    /\ wire[x] = "delivered" => record[x] = "delivered"
    /\ record[x] = "delivered" => receipt[x] = "delivered"

(* The first part of a push keeps the types, touches its own message only,  *)
(* and records no delivery.                                                 *)
LEMMA StartPushFacts ==
    ASSUME InteractionTypeOK, NEW x \in Message, StartPush(x), wire[x] = "idle", MessageInv(x)
    PROVE  /\ wire' \in [Message -> {"idle", "writing", "sent"} \cup Ended]
           /\ frame' \in [Message -> {"off", "armed", "expired", "delivered", "held"}]
           /\ receipt' = receipt
           /\ record' \in [Message -> {"absent", "pending", "undeliverable",
                                       "sent_unconfirmed", "refused", "delivered"}]
           /\ \A y \in Message \ {x} : wire'[y] = wire[y] /\ frame'[y] = frame[y] /\ record'[y] = record[y]
           /\ wire'[x] # "idle" /\ wire'[x] # "delivered" /\ record'[x] # "delivered"
           /\ frame'[x] = "delivered" => frame[x] = "delivered"
BY DEF StartPush, InteractionTypeOK, Ended, MessageInv

-----------------------------------------------------------------------------
(* Every step of the process and of the coordinator keeps the invariant     *)

(* Steps of a push                                                         *)
LEMMA PushSteps ==
    ASSUME IInv, NEW x \in Message,
           \/ Written(x) \/ ReceiptTimeout(x) \/ PushEnds(x)
           \/ \E s \in {"delivered", "held"} : Receipt(x, s)
    PROVE  IInv'
<1> USE DEF IInv
<1>1. CASE Written(x)
  <2>1. InteractionTypeOK'
    BY <1>1 DEF Written, Attempted, InteractionTypeOK, asking, Ended
  <2>2. PushInv' /\ DeliveredIsConfirmed'
    <3>1. \A y \in Message \ {x} : wire'[y] = wire[y] /\ record'[y] = record[y]
      BY <1>1 DEF Written, Attempted, InteractionTypeOK
    <3>2. /\ wire[x] = "writing" /\ wire'[x] \in {"sent", "send_failed", "threw"}
          /\ record'[x] = "delivered" => record[x] = "delivered"
          /\ record[x] = "delivered" => record'[x] = "delivered"
      BY <1>1 DEF Written, Attempted, InteractionTypeOK
    <3>3. UNCHANGED <<asker, pending, frame, receipt>>
      BY <1>1 DEF Written, asking
    <3>4. \A m \in Ask : Question(m) \in Message /\ Answered(m) \in Message
      BY MessagesDiffer
    <3>5. PushInv'
      BY <3>1, <3>2, <3>3, <3>4 DEF PushInv, NotAsked, NotReplied, NotPushed
    <3>6. DeliveredIsConfirmed'
      BY <3>1, <3>2, <3>3, <3>4 DEF DeliveredIsConfirmed
    <3> QED BY <3>5, <3>6
  <2>3. AskInv' /\ NoSilentLoss' /\ OneAnswer'
    BY <1>1 DEF Written, asking, AskInv, AskOK, Unanswered, NoSilentLoss, OneAnswer
  <2> QED BY <2>1, <2>2, <2>3
<1>2. CASE ReceiptTimeout(x)
  <2>1. InteractionTypeOK' /\ PushInv' /\ DeliveredIsConfirmed'
    BY <1>2, MessagesDiffer
    DEF ReceiptTimeout, InteractionTypeOK, asking, PushInv, NotAsked, NotReplied, NotPushed,
       DeliveredIsConfirmed
  <2>2. AskInv' /\ NoSilentLoss' /\ OneAnswer'
    BY <1>2 DEF ReceiptTimeout, asking, AskInv, AskOK, Unanswered, NoSilentLoss, OneAnswer
  <2> QED BY <2>1, <2>2
<1>3. CASE PushEnds(x)
  <2>1. InteractionTypeOK'
    BY <1>3 DEF PushEnds, Attempted, Confirmed, InteractionTypeOK, asking, Ended
  <2>2. PushInv' /\ DeliveredIsConfirmed'
    BY <1>3, MessagesDiffer
    DEF PushEnds, Attempted, Confirmed, InteractionTypeOK, asking, PushInv, NotAsked,
       NotReplied, NotPushed, DeliveredIsConfirmed, Ended
  <2>3. AskInv' /\ NoSilentLoss' /\ OneAnswer'
    BY <1>3 DEF PushEnds, asking, AskInv, AskOK, Unanswered, NoSilentLoss, OneAnswer
  <2> QED BY <2>1, <2>2, <2>3
<1>4. CASE \E s \in {"delivered", "held"} : Receipt(x, s)
  <2>1. PICK s \in {"delivered", "held"} : Receipt(x, s)
    BY <1>4
  <2>2. InteractionTypeOK' /\ PushInv' /\ DeliveredIsConfirmed'
    BY <2>1, MessagesDiffer
    DEF Receipt, InteractionTypeOK, asking, PushInv, NotAsked, NotReplied, NotPushed,
       DeliveredIsConfirmed
  <2>3. AskInv' /\ NoSilentLoss' /\ OneAnswer'
    BY <2>1 DEF Receipt, asking, AskInv, AskOK, Unanswered, NoSilentLoss, OneAnswer
  <2> QED BY <2>2, <2>3
<1> QED BY <1>1, <1>2, <1>3, <1>4

(* The question is sent                                                    *)
LEMMA RequestStep == ASSUME IInv, NEW m \in Ask, Request(m) PROVE IInv'
<1> USE DEF IInv
<1>1. Question(m) \in Message /\ wire[Question(m)] = "idle" /\ MessageInv(Question(m))
  BY MessagesDiffer DEF Request, PushInv, NotAsked, NotReplied, NotPushed,
     DeliveredIsConfirmed, MessageInv
<1>2. StartPush(Question(m))
  BY DEF Request
<1>3. InteractionTypeOK'
  BY <1>1, <1>2, StartPushFacts DEF Request, InteractionTypeOK
<1>4. PushInv' /\ DeliveredIsConfirmed'
  BY <1>1, <1>2, StartPushFacts, MessagesDiffer
  DEF Request, InteractionTypeOK, PushInv, NotAsked, NotReplied, NotPushed, DeliveredIsConfirmed
<1>5. ASSUME NEW n \in Ask PROVE AskOK(n)'
  <2>1. AskOK(n) /\ (Unanswered(n)' <=> Unanswered(n))
    BY DEF Request, AskInv, Unanswered
  <2>2. CASE n = m
    <3>1. answered[m] = "none" /\ Unanswered(m)
      BY <2>1, <2>2 DEF Request, InteractionTypeOK, AskOK, Unanswered
    <3> QED BY <2>1, <2>2, <3>1 DEF Request, InteractionTypeOK, AskOK, Route
  <2>3. CASE n # m
    BY <2>1, <2>3 DEF Request, InteractionTypeOK, AskOK
  <2> QED BY <2>2, <2>3
<1>6. NoSilentLoss' /\ OneAnswer'
  <2>1. answered[m] = "none"
    BY DEF Request, InteractionTypeOK, AskInv, AskOK, Unanswered
  <2>2. NoSilentLoss'
    BY <2>1 DEF Request, InteractionTypeOK, NoSilentLoss
  <2>3. OneAnswer'
    BY DEF Request, InteractionTypeOK, OneAnswer
  <2> QED BY <2>2, <2>3
<1> QED BY <1>3, <1>4, <1>5, <1>6 DEF AskInv

(* The send returns                                                        *)
LEMMA SendReturnsStep == ASSUME IInv, NEW m \in Ask, SendReturns(m) PROVE IInv'
<1> USE DEF IInv
<1>1. InteractionTypeOK'
  BY DEF SendReturns, InteractionTypeOK, pushing, Route
<1>2. PushInv' /\ DeliveredIsConfirmed'
  BY MessagesDiffer DEF SendReturns, InteractionTypeOK, PushInv, NotAsked, NotReplied,
     NotPushed, DeliveredIsConfirmed, pushing
<1>3. ASSUME NEW n \in Ask PROVE AskOK(n)'
  <2>1. AskOK(n) /\ (Unanswered(n)' <=> Unanswered(n))
    BY DEF SendReturns, AskInv, Unanswered
  <2>2. CASE n = m
    BY <2>1, <2>2 DEF SendReturns, InteractionTypeOK, AskOK, Route
  <2>3. CASE n # m
    BY <2>1, <2>3 DEF SendReturns, InteractionTypeOK, AskOK
  <2> QED BY <2>2, <2>3
<1>4. NoSilentLoss' /\ OneAnswer'
  <2>1. AskOK(m)
    BY DEF AskInv
  <2>2. ASSUME NEW n \in Ask, n # m
        PROVE  /\ asker'[n] = asker[n] /\ waiter'[n] = waiter[n] /\ pending'[n] = pending[n]
               /\ answered'[n] = answered[n] /\ got'[n] = got[n]
    BY <2>2 DEF SendReturns, InteractionTypeOK
  <2>3. CASE answered[m] # "none"
    <3>1. asker'[m] = "resumed" /\ got'[m] = answered[m] /\ <<m, answered[m]>> \in log /\ log' = log
      BY <2>1, <2>3 DEF SendReturns, InteractionTypeOK, AskOK
    <3>2. NoSilentLoss'
      BY <2>2, <3>1 DEF NoSilentLoss
    <3>3. OneAnswer'
      BY <2>2, <3>1 DEF OneAnswer
    <3> QED BY <3>2, <3>3
  <2>4. CASE answered[m] = "none"
    <3>1. pending[m] # "none" /\ waiter[m] = "parked"
      BY <2>1, <2>4 DEF SendReturns, NoSilentLoss, AskOK
    <3> QED BY <2>2, <2>4, <3>1 DEF SendReturns, InteractionTypeOK, NoSilentLoss, OneAnswer
  <2> QED BY <2>3, <2>4
<1> QED BY <1>1, <1>2, <1>3, <1>4 DEF AskInv

(* The promise of the request resolves                                     *)
LEMMA ResumeStep == ASSUME IInv, NEW m \in Ask, Resume(m) PROVE IInv'
<1> USE DEF IInv
<1>1. InteractionTypeOK' /\ PushInv' /\ DeliveredIsConfirmed'
  BY MessagesDiffer DEF Resume, InteractionTypeOK, PushInv, NotAsked, NotReplied, NotPushed,
     DeliveredIsConfirmed, pushing
<1>2. ASSUME NEW n \in Ask PROVE AskOK(n)'
  <2>1. AskOK(n) /\ (Unanswered(n)' <=> Unanswered(n))
    BY DEF Resume, AskInv, Unanswered
  <2> QED BY <2>1 DEF Resume, InteractionTypeOK, AskOK
<1>3. NoSilentLoss' /\ OneAnswer'
  <2>1. AskOK(m)
    BY DEF AskInv
  <2> QED BY <2>1 DEF Resume, InteractionTypeOK, AskOK, NoSilentLoss, OneAnswer
<1> QED BY <1>1, <1>2, <1>3 DEF AskInv

(* An answer is accepted, by either route                                  *)
LEMMA ReplyStep ==
    ASSUME IInv, NEW m \in Ask, NEW by \in Route, Reply(m, by), watch' \subseteq Ask
    PROVE  IInv'
<1> USE DEF IInv
<1>1. Answered(m) \in Message /\ wire[Answered(m)] = "idle" /\ MessageInv(Answered(m))
  BY MessagesDiffer DEF Reply, InteractionTypeOK, PushInv, NotAsked, NotReplied, NotPushed,
     DeliveredIsConfirmed, MessageInv
<1>2. StartPush(Answered(m))
  BY DEF Reply
<1>3. InteractionTypeOK'
  BY <1>1, <1>2, StartPushFacts DEF Reply, InteractionTypeOK
<1>4. PushInv' /\ DeliveredIsConfirmed'
  <2>1. asker[m] # "idle"
    BY DEF Reply, AskInv, AskOK
  <2>2. PushInv'
    <3>1. /\ \A y \in Message \ {Answered(m)} :
                wire'[y] = wire[y] /\ frame'[y] = frame[y] /\ record'[y] = record[y]
          /\ wire'[Answered(m)] # "idle" /\ wire'[Answered(m)] # "delivered"
          /\ frame'[Answered(m)] = "delivered" => frame[Answered(m)] = "delivered"
          /\ receipt' = receipt /\ asker' = asker
      BY <1>1, <1>2, StartPushFacts DEF Reply
    <3>2. pending'[m] = "none" /\ \A n \in Ask : n # m => pending'[n] = pending[n]
      BY DEF Reply, InteractionTypeOK
    <3>3. NotAsked'
      BY <3>1, MessagesDiffer DEF PushInv, NotAsked
    <3>4. NotReplied'
      BY <2>1, <3>1, <3>2, MessagesDiffer DEF PushInv, NotReplied
    <3>5. NotPushed'
      BY <1>1, <3>1 DEF PushInv, NotPushed
    <3> QED BY <3>3, <3>4, <3>5 DEF PushInv
  <2>3. DeliveredIsConfirmed'
    BY <1>1, <1>2, StartPushFacts, MessagesDiffer
    DEF Reply, InteractionTypeOK, DeliveredIsConfirmed
  <2> QED BY <2>2, <2>3
<1>5. AskOK(m) /\ waiter[m] = "parked" /\ Unanswered(m)
  BY DEF Reply, AskInv, AskOK
<1>6. ASSUME NEW n \in Ask PROVE AskOK(n)'
  <2>1. CASE n = m
    BY <1>5, <2>1 DEF Reply, InteractionTypeOK, AskOK, Route
  <2>2. CASE n # m
    <3>1. AskOK(n) /\ (Unanswered(n)' <=> Unanswered(n))
      BY <2>2 DEF Reply, AskInv, Unanswered
    <3> QED BY <2>2, <3>1 DEF Reply, InteractionTypeOK, AskOK
  <2> QED BY <2>1, <2>2
<1>7. NoSilentLoss'
  BY <1>5 DEF Reply, InteractionTypeOK, NoSilentLoss, Route
<1>8. OneAnswer'
  BY <1>5 DEF Reply, InteractionTypeOK, Unanswered, OneAnswer
<1> QED BY <1>3, <1>4, <1>6, <1>7, <1>8 DEF AskInv

(* Steps that touch the reply file or a watcher alone                      *)
LEMMA FileSteps ==
    ASSUME IInv, UNCHANGED <<peer, asking, pushing>>, watch' \subseteq Ask, stored' \subseteq Ask
    PROVE  IInv'
BY DEF IInv, InteractionTypeOK, AskInv, AskOK, Unanswered, PushInv, NotAsked, NotReplied,
   NotPushed, NoSilentLoss, OneAnswer, DeliveredIsConfirmed, asking, pushing

LEMMA NextInv == IInv /\ [Next]_vars => IInv'
<1> SUFFICES ASSUME IInv, [Next]_vars PROVE IInv'
  OBVIOUS
<1>t. watch \subseteq Ask /\ stored \subseteq Ask
  BY DEF IInv, InteractionTypeOK
<1>1. ASSUME NEW m \in Ask, Answer(m) PROVE IInv'
  BY <1>1, <1>t, ReplyStep DEF Answer, Route
<1>2. ASSUME NEW m \in Ask, Store(m) PROVE IInv'
  BY <1>2, <1>t, FileSteps DEF Store
<1>3. ASSUME NEW m \in Ask, TickFinds(m) PROVE IInv'
  <2>1. watch' \subseteq Ask
    BY <1>3, <1>t DEF TickFinds
  <2>2. CASE Reply(m, "file")
    BY <2>1, <2>2, ReplyStep DEF Route
  <2>3. CASE UNCHANGED <<peer, asking, pushing, stored>>
    BY <2>1, <2>3, <1>t, FileSteps
  <2> QED BY <1>3, <2>2, <2>3 DEF TickFinds
<1>4. ASSUME NEW m \in Ask, TickExpires(m) PROVE IInv'
  BY <1>4, <1>t, FileSteps DEF TickExpires
<1>5. CASE UNCHANGED vars
  BY <1>5, <1>t, FileSteps DEF vars, asking, pushing
<1> QED
  BY <1>1, <1>2, <1>3, <1>4, <1>5, RequestStep, SendReturnsStep, ResumeStep, PushSteps DEF Next

THEOREM Invariance == Spec => []IInv
BY InitInv, NextInv, PTL DEF Spec

(* The variables of the transport and of the pushes keep their types.       *)
THEOREM InteractionTypeCorrect == Spec => []InteractionTypeOK
BY Invariance, PTL DEF IInv

(* No answer is taken by a transport that no longer knows who asked: a      *)
(* waiting tool call is parked on an open ask or has its answer.            *)
THEOREM NoSilentLossTheorem == Spec => []NoSilentLoss
BY Invariance, PTL DEF IInv

(* A question is answered once, and its tool call returns that answer.      *)
THEOREM OneAnswerTheorem == Spec => []OneAnswer
BY Invariance, PTL DEF IInv

(* Delivery is claimed only for a message the peer reported delivered.      *)
THEOREM DeliveredIsConfirmedTheorem == Spec => []DeliveredIsConfirmed
BY Invariance, PTL DEF IInv
=============================================================================
