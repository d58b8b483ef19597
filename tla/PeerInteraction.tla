--------------------------- MODULE PeerInteraction ---------------------------
(***************************************************************************)
(* Questions of specialists and the ways an answer comes back              *)
(* (src/activation/interaction.ts, peer-bridge.ts, ask-tool.ts,            *)
(* transport/peer-adapter.ts, pending-store.ts, peer-transport.ts,         *)
(* polling.ts).                                                            *)
(*                                                                         *)
(* A question is kept twice: as a pending ask of the process that asked,   *)
(* and as a record file of the repository.  It is pushed to the peer over a*)
(* socket, and it is answered by the reply tool of the process or by a     *)
(* reply file that a watcher finds.  A step is what runs between two awaits*)
(* of the process, or one act of the coordinator.                          *)
(***************************************************************************)
CONSTANT Ask    \* the questions, one tool call each

Route == {"tool", "file"}              \* the ways an answer comes; its body
Message == Ask \X {"question", "reply"}
Question(m) == <<m, "question">>
Answered(m) == <<m, "reply">>          \* the message that answers m

Ended == {"no_route", "send_failed", "no_receipt", "refused", "delivered", "threw"}

VARIABLES
    peer,      \* "none": no deliver hook; "push": no receipt socket; "receipts"
    asker,     \* where each tool call is
    got,       \* the answer it returned with
    pending,   \* delivery of the ask in the transport's map, "none" outside
    waiter,    \* the promise of the request: unset, parked, or its answer
    answered,  \* the transport's map of answers
    log,       \* the answers the transport accepted
    wire,      \* where the push of each message is
    frame,     \* the first status the receipt wait of a push has seen
    receipt,   \* the last status the peer reported for a message
    record,    \* delivery state of the message's file, "absent" without one
    watch,     \* the questions a watcher looks after
    stored     \* the questions with a reply file

vars == <<peer, asker, got, pending, waiter, answered, log, wire, frame, receipt,
          record, watch, stored>>

asking == <<asker, got, pending, waiter, answered, log>>
pushing == <<wire, frame, receipt, record>>

InteractionTypeOK ==
    /\ peer \in {"none", "push", "receipts"}
    /\ asker \in [Ask -> {"idle", "sending", "waiting", "resumed"}]
    /\ got \in [Ask -> {"none"} \cup Route]
    /\ pending \in [Ask -> {"none", "pending", "delivered"}]
    /\ waiter \in [Ask -> {"none", "parked"} \cup Route]
    /\ answered \in [Ask -> {"none"} \cup Route]
    /\ log \subseteq Ask \X Route
    /\ wire \in [Message -> {"idle", "writing", "sent"} \cup Ended]
    /\ frame \in [Message -> {"off", "armed", "expired", "delivered", "held"}]
    /\ receipt \in [Message -> {"none", "delivered", "held"}]
    /\ record \in [Message -> {"absent", "pending", "undeliverable",
                               "sent_unconfirmed", "refused", "delivered"}]
    /\ watch \subseteq Ask /\ stored \subseteq Ask

Init ==
    /\ peer \in {"none", "push", "receipts"}
    /\ asker = [m \in Ask |-> "idle"]
    /\ got = [m \in Ask |-> "none"]
    /\ pending = [m \in Ask |-> "none"]
    /\ waiter = [m \in Ask |-> "none"]
    /\ answered = [m \in Ask |-> "none"]
    /\ log = {}
    /\ wire = [x \in Message |-> "idle"]
    /\ frame = [x \in Message |-> "off"]
    /\ receipt = [x \in Message |-> "none"]
    /\ record = [x \in Message |-> "absent"]
    /\ watch = {} /\ stored = {}

-----------------------------------------------------------------------------
(* The push of one message                                                 *)

(* recordAttempt: an attempt never takes a confirmed delivery back          *)
Attempted(x, outcome) ==
    record' = [record EXCEPT ![x] = IF @ = "delivered" THEN @ ELSE outcome]

(* recordReceipt                                                           *)
Confirmed(x) == record' = [record EXCEPT ![x] = "delivered"]

(* The first part of a push, up to the write of the frame: the record is   *)
(* created before anything is sent, and the wait for the receipt is armed  *)
(* before the write.  A store that cannot be written throws.               *)
StartPush(x) ==
    /\ receipt' = receipt
    /\ \/ /\ peer = "none"
          /\ wire' = [wire EXCEPT ![x] = "no_route"]
          /\ UNCHANGED <<frame, record>>
       \/ /\ peer # "none"
          /\ wire' = [wire EXCEPT ![x] = "threw"]
          /\ UNCHANGED <<frame, record>>
       \/ /\ peer # "none"
          /\ wire' = [wire EXCEPT ![x] = "no_route"]
          /\ record' = [record EXCEPT ![x] = "undeliverable"]
          /\ frame' = frame
       \/ /\ peer # "none"
          /\ wire' = [wire EXCEPT ![x] = "writing"]
          /\ record' = [record EXCEPT ![x] = "pending"]
          /\ frame' = [frame EXCEPT ![x] = IF peer = "receipts" THEN "armed" ELSE "off"]

(* sendFrame: accepted by the socket, rejected or timed out, or the attempt *)
(* cannot be recorded                                                      *)
Written(x) ==
    /\ wire[x] = "writing"
    /\ \/ wire' = [wire EXCEPT ![x] = "sent"] /\ Attempted(x, "sent_unconfirmed")
       \/ wire' = [wire EXCEPT ![x] = "send_failed"] /\ Attempted(x, "undeliverable")
       \/ wire' = [wire EXCEPT ![x] = "threw"] /\ record' = record
    /\ UNCHANGED <<peer, asking, frame, receipt, watch, stored>>

(* The peer reports on a frame it read, which may be before the write       *)
(* returns; a held message may be released later.                          *)
Receipt(x, s) ==
    /\ peer = "receipts" /\ wire[x] # "idle" /\ record[x] # "absent"
    /\ receipt[x] = "none" \/ (receipt[x] = "held" /\ s = "delivered")
    /\ receipt' = [receipt EXCEPT ![x] = s]
    /\ frame' = [frame EXCEPT ![x] = IF @ = "armed" THEN s ELSE @]
    /\ UNCHANGED <<peer, asking, wire, record, watch, stored>>

(* The timer of waitForReceipt                                             *)
ReceiptTimeout(x) ==
    /\ frame[x] = "armed"
    /\ frame' = [frame EXCEPT ![x] = "expired"]
    /\ UNCHANGED <<peer, asking, wire, receipt, record, watch, stored>>

(* Mutant: silence counts as delivery, and so does anything but a refusal    *)
PushEndsUnlessHeld(x) ==
    /\ wire[x] = "sent" /\ frame[x] # "armed"
    /\ \/ /\ frame[x] # "held"
          /\ wire' = [wire EXCEPT ![x] = "delivered"] /\ Confirmed(x)
       \/ /\ frame[x] = "held"
          /\ wire' = [wire EXCEPT ![x] = "refused"] /\ Attempted(x, "refused")
    /\ UNCHANGED <<peer, asking, frame, receipt, watch, stored>>

(* Mutant: the push waits for a receipt without giving up                   *)
PushEndsOnReceipt(x) ==
    /\ wire[x] = "sent"
    /\ \/ /\ frame[x] = "delivered"
          /\ wire' = [wire EXCEPT ![x] = "delivered"] /\ Confirmed(x)
       \/ /\ frame[x] = "held"
          /\ wire' = [wire EXCEPT ![x] = "refused"] /\ Attempted(x, "refused")
    /\ UNCHANGED <<peer, asking, frame, receipt, watch, stored>>

(* push returns: delivered only on a status that says so.  It throws when    *)
(* the outcome cannot be recorded.                                          *)
PushEnds(x) ==
    /\ wire[x] = "sent" /\ frame[x] # "armed"
    /\ \/ /\ frame[x] = "delivered"
          /\ wire' = [wire EXCEPT ![x] = "delivered"] /\ Confirmed(x)
       \/ /\ frame[x] = "held"
          /\ wire' = [wire EXCEPT ![x] = "refused"] /\ Attempted(x, "refused")
       \/ /\ frame[x] \in {"off", "expired"}
          /\ wire' = [wire EXCEPT ![x] = "no_receipt"] /\ record' = record
       \/ /\ frame[x] \in {"delivered", "held"}
          /\ wire' = [wire EXCEPT ![x] = "threw"] /\ record' = record
    /\ UNCHANGED <<peer, asking, frame, receipt, watch, stored>>

-----------------------------------------------------------------------------
(* The transport                                                           *)

(* request: the waiter is registered before the question is sent           *)
Request(m) ==
    /\ asker[m] = "idle"
    /\ asker' = [asker EXCEPT ![m] = "sending"]
    /\ waiter' = [waiter EXCEPT ![m] = "parked"]
    /\ pending' = [pending EXCEPT ![m] = "pending"]
    /\ StartPush(Question(m))
    /\ UNCHANGED <<peer, got, answered, log, watch, stored>>

(* Mutant: the waiter is registered when the send returns, and what came    *)
(* before is not looked at                                                  *)
SendReturnsThenWaits(m) ==
    /\ asker[m] = "sending" /\ wire[Question(m)] \in Ended
    /\ watch' = IF peer = "none" \/ wire[Question(m)] = "threw" THEN watch
                ELSE watch \cup {m}
    /\ asker' = [asker EXCEPT ![m] = "waiting"]
    /\ waiter' = [waiter EXCEPT ![m] = "parked"]
    /\ UNCHANGED <<peer, got, pending, answered, log, pushing, stored>>

(* Mutant: the open ask takes the outcome of the wire as it is               *)
SendReturnsRaw(m) ==
    /\ asker[m] = "sending" /\ wire[Question(m)] \in Ended
    /\ watch' = watch \cup {m}
    /\ pending' = [pending EXCEPT ![m] = IF @ = "none" THEN @ ELSE wire[Question(m)]]
    /\ asker' = [asker EXCEPT ![m] = "waiting"]
    /\ UNCHANGED <<peer, got, waiter, answered, log, pushing, stored>>

(* deliver, send and request after the push: the watcher starts unless the  *)
(* push threw, the ask (if it is still open) takes the delivery state, and  *)
(* an answer that came during the send is returned at once.                 *)
SendReturns(m) ==
    /\ asker[m] = "sending" /\ wire[Question(m)] \in Ended
    /\ watch' = IF peer = "none" \/ wire[Question(m)] = "threw" THEN watch
                ELSE watch \cup {m}
    /\ pending' = [pending EXCEPT ![m] =
           IF @ = "none" THEN @
           ELSE IF wire[Question(m)] = "delivered" THEN "delivered" ELSE "pending"]
    /\ IF answered[m] # "none"
       THEN /\ asker' = [asker EXCEPT ![m] = "resumed"]
            /\ got' = [got EXCEPT ![m] = answered[m]]
            /\ waiter' = [waiter EXCEPT ![m] = "none"]
            /\ answered' = [answered EXCEPT ![m] = "none"]
       ELSE /\ asker' = [asker EXCEPT ![m] = "waiting"]
            /\ UNCHANGED <<got, waiter, answered>>
    /\ UNCHANGED <<peer, log, pushing, stored>>

(* The awaited promise resolves; the tool call returns the answer.  Its     *)
(* entry in answered stays.                                                *)
Resume(m) ==
    /\ asker[m] = "waiting" /\ waiter[m] \in Route
    /\ asker' = [asker EXCEPT ![m] = "resumed"]
    /\ got' = [got EXCEPT ![m] = waiter[m]]
    /\ UNCHANGED <<peer, pending, waiter, answered, log, pushing, watch, stored>>

(* Mutant: an answer is taken whether or not the ask is still open          *)
ReplyAgain(m, by) ==
    /\ asker[m] # "idle" /\ wire[Answered(m)] \in {"idle"} \cup Ended
    /\ pending' = [pending EXCEPT ![m] = "none"]
    /\ waiter' = [waiter EXCEPT ![m] = IF @ = "parked" THEN by ELSE @]
    /\ answered' = [answered EXCEPT ![m] = by]
    /\ log' = log \cup {<<m, by>>}
    /\ StartPush(Answered(m))
    /\ UNCHANGED <<peer, asker, got, stored>>

(* reply: only an open ask is answered, its waiter is resolved, and the     *)
(* answer itself is pushed like any message                                *)
Reply(m, by) ==
    /\ pending[m] # "none"
    /\ pending' = [pending EXCEPT ![m] = "none"]
    /\ waiter' = [waiter EXCEPT ![m] = IF @ = "parked" THEN by ELSE @]
    /\ answered' = [answered EXCEPT ![m] = by]
    /\ log' = log \cup {<<m, by>>}
    /\ StartPush(Answered(m))
    /\ UNCHANGED <<peer, asker, got, stored>>

(* host.answer, called by the reply tool                                   *)
Answer(m) == Reply(m, "tool") /\ watch' = watch

-----------------------------------------------------------------------------
(* The record files and their watchers                                     *)

(* recordReply, by a coordinator that has read the record                  *)
Store(m) ==
    /\ record[Question(m)] # "absent" /\ m \notin stored
    /\ stored' = stored \cup {m}
    /\ UNCHANGED <<peer, asking, pushing, watch>>

(* A tick that finds the reply file: the reply goes through the transport,  *)
(* which refuses it when the ask was answered another way                   *)
TickFinds(m) ==
    /\ m \in watch /\ m \in stored
    /\ watch' = watch \ {m}
    /\ \/ Reply(m, "file")
       \/ pending[m] = "none" /\ UNCHANGED <<peer, asking, pushing, stored>>

(* A tick after the deadline, whether or not the file is there by then      *)
TickExpires(m) ==
    /\ m \in watch
    /\ watch' = watch \ {m}
    /\ UNCHANGED <<peer, asking, pushing, stored>>

Next ==
    \/ \E m \in Ask : Request(m) \/ SendReturns(m) \/ Resume(m) \/ Answer(m)
                      \/ Store(m) \/ TickFinds(m) \/ TickExpires(m)
    \/ \E x \in Message : \/ Written(x) \/ ReceiptTimeout(x) \/ PushEnds(x)
                          \/ \E s \in {"delivered", "held"} : Receipt(x, s)

Spec == Init /\ [][Next]_vars

(* The process runs its continuations, timers and sockets; nobody has to    *)
(* ask, to answer or to report, and no watch has to expire.                 *)
Fairness ==
    /\ \A m \in Ask : WF_vars(SendReturns(m)) /\ WF_vars(Resume(m)) /\ WF_vars(TickFinds(m))
    /\ \A x \in Message :
          WF_vars(Written(x)) /\ WF_vars(ReceiptTimeout(x)) /\ WF_vars(PushEnds(x))

FairSpec == Spec /\ Fairness

-----------------------------------------------------------------------------
(* A tool call that waits has its question open with its own waiter parked, *)
(* or its answer is already on the way: no answer, however early it comes,  *)
(* is taken by a transport that no longer knows who asked                   *)
(* (interaction.ts 181-206).                                               *)
NoSilentLoss ==
    \A m \in Ask :
        /\ asker[m] = "waiting" =>
              waiter[m] \in Route \/ (waiter[m] = "parked" /\ pending[m] # "none")
        /\ asker[m] = "sending" => (pending[m] = "none" <=> answered[m] # "none")

(* A question is answered once, by whichever route is first, and the tool   *)
(* call returns with the answer the transport accepted (interaction.ts      *)
(* 209-226, peer-bridge.ts 85-103).                                         *)
OneAnswer ==
    \A m \in Ask :
        /\ \A a, b \in Route : <<m, a>> \in log /\ <<m, b>> \in log => a = b
        /\ asker[m] = "resumed" => <<m, got[m]>> \in log

(* Nothing is called delivered, in the file or in the list of open asks,    *)
(* unless the peer reported so for that very message (interaction.ts        *)
(* 263-293, peer-adapter.ts 202-243, pending-store.ts 253-269).             *)
DeliveredIsConfirmed ==
    /\ \A x \in Message : record[x] = "delivered" => receipt[x] = "delivered"
    /\ \A m \in Ask : pending[m] = "delivered" => record[Question(m)] = "delivered"

(* An answer the transport has accepted resumes the specialist, whatever    *)
(* the push of the question does meanwhile (interaction.ts 189-226).        *)
ReplyResumes ==
    \A m \in Ask : (\E by \in Route : <<m, by>> \in log) ~> asker[m] = "resumed"

=============================================================================
