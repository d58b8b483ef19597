--------------------------- MODULE PiSessionProofs ----------------------------
(***************************************************************************)
(* A first attempt never takes the end of another turn for the end of its  *)
(* own, and a turn whose session is killed fails: for any chain of models, *)
(* attempts, turns and lines of the child.                                 *)
(*                                                                         *)
(* The argument follows the turn from the client to the child and back: it *)
(* is a prompt on its way, then what the agent works on, then the line that *)
(* tells its end.  In a first attempt it is at most one of these (OneTurn), *)
(* of the turn waited for; before a prompt and after an answered turn it is *)
(* none of them (Quiet).  A retry breaks that, which is the finding of the  *)
(* run pi_retry.                                                            *)
(***************************************************************************)
EXTENDS PiSession, TLAPS

States    == {"none", "pending", "ok"} \cup Failure
Resolved  == {"ended", "exited ok"}
Outcomes  == {"open"} \cup Resolved \cup Failure
Processes == {"running", "success", "failure", "signalled", "closed"}
Points    == {"start", "prompt", "ack", "wait", "read", "idle", "closing", "ok", "failed"}

Command == [id : Nat, st : States]
Request == [from : Caller, id : Nat, type : {"prompt", "steer"}, turn : 0..MaxTurns]
Line    == [type : {"response", "event", "agent_end"}, from : Caller, id : Nat,
            turn : 0..MaxTurns, st : {"ok", "rejected"}]

(* SessionTypeOK, by what changes together, with the shape of the lines.    *)
RunnerType  == /\ pc \in Points /\ model \in 1..Models /\ attempt \in 1..MaxAttempts
               /\ resumed \in BOOLEAN
TurnType    == turn \in 0..MaxTurns /\ eof \in BOOLEAN
CmdType     == cmd \in [Caller -> Command]
PromiseType == done \in Outcomes /\ by \in 0..MaxTurns /\ agentEnd \in BOOLEAN /\ cut \in BOOLEAN
KillType    == timer \in BOOLEAN /\ killed \in BOOLEAN
ChildType   == child \in Processes /\ busy \in 0..MaxTurns
LinesType   == inbox \in Seq(Request) /\ outbox \in Seq(Line)

(* The prompts that were sent, and the models that are left.                *)
Counted ==
    /\ pc = "start" => model < Models
    /\ pc = "prompt" => turn < MaxTurns
    /\ ~resumed /\ pc = "prompt" => turn = attempt - 1
    /\ ~resumed /\ pc \in {"ack", "wait"} => turn = attempt
    /\ pc = "idle" => resumed

(* A killed session has settled its turn, and an ended child is idle.       *)
Ended ==
    /\ killed => done # "open"
    /\ child \in {"success", "failure", "closed"} => busy = 0
    /\ child = "closed" => outbox = <<>>
    /\ done = "exited ok" => child = "closed"

IInv == /\ RunnerType /\ TurnType /\ CmdType /\ PromiseType /\ KillType /\ ChildType /\ LinesType
        /\ Counted /\ Ended

(* A turn a kill has found open is settled as failed; an output that was    *)
(* read was that of a settled turn.                                         *)
Over == {"read", "idle", "closing", "ok"}

CutInv ==
    /\ cut => killed /\ done \in Failure /\ pc \notin Over
    /\ pc \in Over => done # "open"

-----------------------------------------------------------------------------
(* Where a turn is                                                         *)

Asked(i) == i \in 1..Len(inbox) /\ inbox[i].type = "prompt"
Told(i)  == i \in 1..Len(outbox) /\ outbox[i].type = "agent_end"

NoneAsked == child = "running" => \A i \in 1..Len(inbox) : ~Asked(i)
NoneTold  == \A i \in 1..Len(outbox) : ~Told(i)

Quiet == NoneAsked /\ busy = 0 /\ NoneTold

OneTurn ==
    /\ \A i \in 1..Len(inbox) : Asked(i) /\ child = "running" => inbox[i].turn = turn
    /\ \A i, j \in 1..Len(inbox) : Asked(i) /\ Asked(j) /\ child = "running" => i = j
    /\ ~NoneAsked => busy = 0 /\ NoneTold
    /\ busy # 0 => busy = turn /\ NoneTold
    /\ \A i \in 1..Len(outbox) : Told(i) => outbox[i].turn = turn
    /\ \A i, j \in 1..Len(outbox) : Told(i) /\ Told(j) => i = j

(* The turn of a first attempt, at each point of the runner.                *)
FirstInv ==
    attempt = 1 =>
      /\ pc = "prompt" => Quiet /\ done # "ended"
      /\ pc \in {"ack", "wait"} =>
           IF done = "ended" THEN by = turn /\ Quiet ELSE OneTurn
      /\ pc = "read" => TurnIsEarned
      /\ pc \in {"read", "idle"} => Quiet

TInv == IInv /\ FirstInv

-----------------------------------------------------------------------------
(* Lines on their way                                                      *)

(* A line is taken from the front: every other moves up one place.          *)
LEMMA Taken ==
    ASSUME NEW S, NEW s \in Seq(S), s # <<>>
    PROVE  /\ Tail(s) \in Seq(S) /\ Head(s) \in S /\ Head(s) = s[1] /\ 1 \in 1..Len(s)
           /\ \A i \in 1..Len(Tail(s)) : i + 1 \in 1..Len(s) /\ Tail(s)[i] = s[i + 1]
OBVIOUS

(* A line is added at the end: every other keeps its place.                 *)
LEMMA Added ==
    ASSUME NEW S, NEW s \in Seq(S), NEW e \in S
    PROVE  /\ Append(s, e) \in Seq(S)
           /\ \A i \in 1..Len(Append(s, e)) :
                 \/ i \in 1..Len(s) /\ Append(s, e)[i] = s[i]
                 \/ i = Len(s) + 1 /\ Append(s, e)[i] = e
OBVIOUS

-----------------------------------------------------------------------------
(* What the helpers of the session do                                      *)

(* The pending commands are rejected, and no other is touched.              *)
LEMMA FailPendingType ==
    ASSUME CmdType, NEW how \in Failure, FailPending(how)
    PROVE  CmdType'
<1>1. \A c \in Caller : [cmd[c] EXCEPT !.st = how] \in Command
  BY DEF CmdType, Command, States
<1> QED
  BY <1>1 DEF CmdType, FailPending

(* A turn that is settled stays as it was settled.                          *)
LEMMA SettleFacts ==
    ASSUME PromiseType, NEW how \in Outcomes \ {"open"}, NEW t \in 0..MaxTurns, Settle(how, t)
    PROVE  /\ done' \in Outcomes /\ by' \in 0..MaxTurns /\ done' # "open"
           /\ done # "open" => done' = done /\ by' = by
           /\ done = "open" => done' = how /\ by' = t
BY DEF PromiseType, Settle, Outcomes

(* A kill settles the turn as failed, and the child does not run on.        *)
LEMMA KillFacts ==
    ASSUME IInv, NEW how \in Failure, Kill(how)
    PROVE  /\ CmdType' /\ PromiseType' /\ KillType' /\ child' \in Processes
           /\ killed' /\ done' # "open"
           /\ done # "open" => done' = done /\ by' = by
           /\ done = "open" => done' = how
           /\ child' = child \/ (child = "running" /\ child' = "signalled")
<1> USE DEF IInv
<1>1. CASE killed
  BY <1>1 DEF Kill, promise, CmdType, PromiseType, KillType, ChildType, Ended
<1>2. CASE ~killed
  <2>1. FailPending(how) /\ Settle(how, 0) /\ killed' = TRUE /\ timer' = FALSE
        /\ agentEnd' = agentEnd /\ cut' = (done = "open")
        /\ child' = IF child = "running" THEN "signalled" ELSE child
    BY <1>2 DEF Kill
  <2>2. CmdType'
    BY <2>1, FailPendingType
  <2>3. how \in Outcomes \ {"open"} /\ 0 \in 0..MaxTurns
    BY SessionAssumption DEF Outcomes, Failure
  <2>4. /\ done' \in Outcomes /\ by' \in 0..MaxTurns /\ done' # "open"
        /\ done # "open" => done' = done /\ by' = by
        /\ done = "open" => done' = how
    BY <2>1, <2>3, SettleFacts
  <2> QED
    BY <2>1, <2>2, <2>4 DEF PromiseType, KillType, ChildType, Processes
<1> QED
  BY <1>1, <1>2

(* A command is written behind those that are on their way.                 *)
LEMMA SendFacts ==
    ASSUME IInv, NEW c \in Caller, NEW type \in {"prompt", "steer"}, turn' \in 0..MaxTurns,
           Send(c, type)
    PROVE  /\ CmdType' /\ inbox' \in Seq(Request)
           /\ \/ inbox' = inbox
              \/ /\ child = "running"
                 /\ \E e \in Request : /\ inbox' = Append(inbox, e)
                                       /\ e.type = type /\ e.turn = turn'
<1> USE DEF IInv
<1> DEFINE id == cmd[c].id + 1
           e == [from |-> c, id |-> id, type |-> type, turn |-> turn']
<1>1. id \in Nat
  BY DEF CmdType, Command
<1>2. e \in Request /\ e.type = type /\ e.turn = turn'
  BY <1>1 DEF Request
<1>3. /\ [id |-> id, st |-> "unwritten"] \in Command
      /\ [id |-> id, st |-> "pending"] \in Command
  BY <1>1 DEF Command, States, Failure
<1>4. CmdType'
  <2>1. \/ cmd' = [cmd EXCEPT ![c] = [id |-> id, st |-> "unwritten"]]
        \/ cmd' = [cmd EXCEPT ![c] = [id |-> id, st |-> "pending"]]
    BY DEF Send
  <2> HIDE DEF id
  <2> QED
    BY <1>3, <2>1 DEF CmdType
<1>5. inbox' = inbox \/ (child = "running" /\ inbox' = Append(inbox, e))
  BY DEF Send
<1> HIDE DEF e
<1>6. inbox \in Seq(Request) /\ Append(inbox, e) \in Seq(Request)
  BY <1>2, Added DEF LinesType
<1> QED
  BY <1>2, <1>4, <1>5, <1>6

-----------------------------------------------------------------------------
(* The types and the counts are inductive                                  *)

(* A session that has just been created is well formed.                     *)
LEMMA FreshType ==
    ASSUME cmd = [c \in Caller |-> NoCmd], turn = 0, done = "open", by = 0, agentEnd = FALSE,
           cut = FALSE, timer = FALSE, killed = FALSE, eof = FALSE, child = "running", busy = 0,
           inbox = <<>>, outbox = <<>>
    PROVE  /\ TurnType /\ CmdType /\ PromiseType /\ KillType /\ ChildType /\ LinesType
           /\ Ended /\ Quiet
<1>1. CmdType
  BY DEF CmdType, Command, States, NoCmd
<1>2. TurnType /\ PromiseType /\ KillType /\ ChildType
  <2>1. /\ eof \in BOOLEAN /\ agentEnd \in BOOLEAN /\ cut \in BOOLEAN
        /\ timer \in BOOLEAN /\ killed \in BOOLEAN
    OBVIOUS
  <2>2. /\ turn \in 0..MaxTurns
        /\ by \in 0..MaxTurns /\ busy \in 0..MaxTurns
    BY SessionAssumption
  <2> QED
    BY <2>1, <2>2 DEF TurnType, PromiseType, KillType, ChildType, Outcomes, Processes
<1>3. LinesType
  BY DEF LinesType
<1>4. Ended /\ Quiet
  BY DEF Ended, Quiet, NoneAsked, NoneTold, Resolved
<1> QED
  BY <1>1, <1>2, <1>3, <1>4

(* A run starts in a session of its own.                                    *)
LEMMA InitIInv == Init => TInv
<1> SUFFICES ASSUME Init PROVE TInv
  OBVIOUS
<1>1. /\ TurnType /\ CmdType /\ PromiseType /\ KillType /\ ChildType /\ LinesType
      /\ Ended /\ Quiet
  BY FreshType DEF Init
<1>2. RunnerType
  <2>1. resumed \in BOOLEAN
    BY DEF Init
  <2>2. model \in 1..Models /\ attempt \in 1..MaxAttempts
    BY SessionAssumption DEF Init
  <2> QED
    BY <2>1, <2>2 DEF Init, RunnerType, Points
<1>3. Counted
  BY SessionAssumption DEF Init, Counted
<1>4. FirstInv
  BY <1>1 DEF Init, FirstInv
<1> QED
  BY <1>1, <1>2, <1>3, <1>4 DEF TInv, IInv

(* What an attempt does after an error keeps the types and the counts.      *)
LEMMA FailedIInv ==
    ASSUME IInv, NEW e \in Failure, Failed(e), pc \in {"ack", "wait"},
           UNCHANGED <<resumed, turn, eof, busy, inbox, outbox>>
    PROVE  IInv' /\ (attempt' # 1 \/ pc' \in {"start", "failed"})
<1> USE DEF IInv
<1>1. TurnType' /\ LinesType'
  BY DEF TurnType, LinesType
<1>2. CASE Kill("killed") /\ UNCHANGED <<model, attempt>>
           /\ \/ ~resumed /\ model < Models /\ pc' = "start"
              \/ pc' = "failed"
  <2>1. "killed" \in Failure
    BY DEF Failure
  <2>2. /\ CmdType' /\ PromiseType' /\ KillType' /\ child' \in Processes
        /\ killed' /\ done' # "open"
        /\ done # "open" => done' = done /\ by' = by
        /\ done = "open" => done' = "killed"
        /\ child' = child \/ (child = "running" /\ child' = "signalled")
    BY <1>2, <2>1, KillFacts
  <2>3. ChildType' /\ Ended'
    BY <2>2 DEF ChildType, Ended, Processes
  <2>4. RunnerType' /\ Counted'
    BY <1>2 DEF RunnerType, Counted, Points
  <2> QED
    BY <1>1, <1>2, <2>2, <2>3, <2>4
<1>3. CASE /\ UNCHANGED <<model, cmd, promise, timer, killed, child>>
           /\ \/ ~resumed /\ attempt < MaxAttempts /\ pc' = "prompt" /\ attempt' = attempt + 1
              \/ resumed /\ pc' = "failed" /\ attempt' = attempt
  <2>1. CmdType' /\ PromiseType' /\ KillType' /\ ChildType' /\ Ended'
    BY <1>3 DEF promise, CmdType, PromiseType, KillType, ChildType, Ended
  <2>2. RunnerType' /\ (attempt' # 1 \/ pc' = "failed")
    BY <1>3, SessionAssumption DEF RunnerType, Points
  <2>3. Counted'
    BY <1>3, SessionAssumption DEF Counted, RunnerType
  <2> QED
    BY <1>1, <2>1, <2>2, <2>3
<1> QED
  BY <1>2, <1>3 DEF Failed

-----------------------------------------------------------------------------
(* The turn is followed                                                    *)

(* Where a turn is does not change while no line moves.                     *)
LEMMA TurnStays ==
    ASSUME UNCHANGED <<inbox, outbox, busy>>, child' = child \/ child' # "running"
    PROVE  /\ Quiet => Quiet'
           /\ OneTurn /\ turn' = turn => OneTurn'
BY DEF Quiet, OneTurn, NoneAsked, NoneTold, Asked, Told

(* Nothing on its way is at most one thing on its way.                      *)
LEMMA QuietIsOneTurn == TInv /\ Quiet => OneTurn
BY DEF Quiet, OneTurn, NoneAsked, NoneTold, Asked, Told

(* A step of the session that moves no line and does not complete the turn.  *)
LEMMA FirstStays ==
    ASSUME FirstInv, UNCHANGED <<runner, turn, inbox, outbox, busy>>,
           child' = child \/ child' # "running",
           \/ done' = done /\ by' = by
           \/ done = "open" /\ done' # "ended"
    PROVE  FirstInv'
<1>1. pc' = pc /\ attempt' = attempt /\ turn' = turn
  BY DEF runner
<1>2. (Quiet => Quiet') /\ (OneTurn => OneTurn')
  BY <1>1, TurnStays
<1>3. CASE attempt = 1
  <2>1. pc = "prompt" => Quiet' /\ done' # "ended"
    BY <1>2, <1>3 DEF FirstInv
  <2>2. pc \in {"ack", "wait"} => IF done' = "ended" THEN by' = turn' /\ Quiet' ELSE OneTurn'
    BY <1>1, <1>2, <1>3 DEF FirstInv
  <2>3. pc = "read" => TurnIsEarned'
    BY <1>1, <1>3 DEF FirstInv, TurnIsEarned
  <2>4. pc \in {"read", "idle"} => Quiet'
    BY <1>2, <1>3 DEF FirstInv
  <2> QED
    BY <1>1, <2>1, <2>2, <2>3, <2>4 DEF FirstInv
<1> QED
  BY <1>1, <1>3 DEF FirstInv

(* A command fails or is no longer waited for.                              *)
LEMMA CommandFailsKeeps ==
    ASSUME TInv, NEW c \in Caller, WriteFails(c) \/ CommandTimeout(c)
    PROVE  TInv'
<1> USE DEF TInv, IInv
<1>1. /\ cmd' = [cmd EXCEPT ![c].st = "unwritten"] \/ cmd' = [cmd EXCEPT ![c].st = "timeout"]
      /\ UNCHANGED <<runner, turn, promise, timer, killed, eof, process>>
  BY DEF WriteFails, CommandTimeout
<1>2. CmdType'
  BY <1>1 DEF CmdType, Command, States, Failure
<1>3. /\ RunnerType' /\ TurnType' /\ PromiseType' /\ KillType' /\ ChildType' /\ LinesType'
      /\ Counted' /\ Ended'
  <2>1. RunnerType' /\ TurnType' /\ PromiseType' /\ KillType'
    BY <1>1 DEF RunnerType, TurnType, PromiseType, KillType, runner, promise
  <2>2. ChildType' /\ LinesType' /\ Counted' /\ Ended'
    BY <1>1 DEF ChildType, LinesType, Counted, Ended, runner, promise, process
  <2> QED
    BY <2>1, <2>2
<1>4. FirstInv'
  BY <1>1, FirstStays DEF promise, process
<1> QED
  BY <1>2, <1>3, <1>4

(* A step that kills the session where it stands.                           *)
LEMMA KillKeeps ==
    ASSUME TInv, NEW how \in Failure, Kill(how),
           UNCHANGED <<runner, turn, eof, busy, inbox, outbox>>
    PROVE  TInv'
<1> USE DEF TInv, IInv
<1>1. /\ CmdType' /\ PromiseType' /\ KillType' /\ child' \in Processes
      /\ killed' /\ done' # "open"
      /\ done # "open" => done' = done /\ by' = by
      /\ done = "open" => done' = how
      /\ child' = child \/ (child = "running" /\ child' = "signalled")
  BY KillFacts
<1>2. RunnerType' /\ TurnType' /\ ChildType' /\ LinesType' /\ Counted'
  BY <1>1 DEF runner, RunnerType, TurnType, ChildType, LinesType, Counted
<1>3. how \notin {"ended", "exited ok"}
  BY DEF Failure
<1>4. Ended'
  BY <1>1, <1>3 DEF Ended
<1>5. FirstInv'
  BY <1>1, <1>3, FirstStays
<1> QED
  BY <1>1, <1>2, <1>4, <1>5

(* The end of the child settles what is open.                               *)
LEMMA ChildClosedKeeps ==
    ASSUME TInv, ChildClosed
    PROVE  TInv'
<1> USE DEF TInv, IInv
<1> DEFINE how == IF agentEnd \/ killed \/ child = "success" THEN "exited ok" ELSE "exited"
<1>1. /\ child \in {"success", "failure"} /\ outbox = <<>> /\ child' = "closed" /\ timer' = FALSE
      /\ FailPending("died") /\ Settle(how, 0)
      /\ UNCHANGED <<runner, turn, agentEnd, cut, killed, eof, busy, inbox, outbox>>
  BY DEF ChildClosed
<1>2. how \in {"exited ok", "exited"}
  OBVIOUS
<1> HIDE DEF how
<1>3. "died" \in Failure /\ how \in Outcomes \ {"open"} /\ 0 \in 0..MaxTurns
  <2>1. "exited" \in Failure /\ "died" \in Failure /\ 0 \in 0..MaxTurns
    BY SessionAssumption DEF Failure
  <2>2. "exited ok" \in Outcomes \ {"open"} /\ "exited" \in Outcomes \ {"open"}
    BY DEF Failure, Outcomes, Resolved
  <2> QED
    BY <1>2, <2>1, <2>2
<1>4. CmdType'
  BY <1>1, <1>3, FailPendingType
<1>5. /\ done' \in Outcomes /\ by' \in 0..MaxTurns /\ done' # "open"
      /\ done # "open" => done' = done /\ by' = by
      /\ done = "open" => done' = how
  BY <1>1, <1>3, SettleFacts
<1>6. RunnerType' /\ TurnType' /\ PromiseType' /\ LinesType' /\ Counted'
  BY <1>1, <1>5 DEF runner, RunnerType, TurnType, PromiseType, LinesType, Counted
<1>7. KillType'
  BY <1>1 DEF KillType
<1>8. ChildType' /\ Ended'
  BY <1>1, <1>5 DEF ChildType, Processes, Ended
<1>9. FirstInv'
  BY <1>1, <1>2, <1>5, FirstStays
<1> QED
  BY <1>4, <1>6, <1>7, <1>8, <1>9

(* The line that tells the end of the one turn leaves nothing behind it.     *)
LEMMA LineTaken ==
    ASSUME TInv, outbox # <<>>, outbox' = Tail(outbox), UNCHANGED <<inbox, busy, child, turn>>
    PROVE  /\ Quiet => Quiet' /\ Head(outbox).type # "agent_end"
           /\ OneTurn => OneTurn'
           /\ OneTurn /\ Head(outbox).type = "agent_end" =>
                 Quiet' /\ Head(outbox).turn = turn
<1> USE DEF TInv, IInv
<1>1. /\ outbox' \in Seq(Line) /\ Head(outbox) = outbox[1] /\ 1 \in 1..Len(outbox)
      /\ \A i \in 1..Len(outbox') : i + 1 \in 1..Len(outbox) /\ outbox'[i] = outbox[i + 1]
  BY Taken DEF LinesType
<1>2. NoneTold => NoneTold' /\ Head(outbox).type # "agent_end"
  BY <1>1 DEF NoneTold, Told
<1>3. NoneAsked => NoneAsked'
  BY DEF NoneAsked, Asked
<1>4. Quiet => Quiet' /\ Head(outbox).type # "agent_end"
  BY <1>2, <1>3 DEF Quiet
<1>5. ASSUME OneTurn PROVE OneTurn'
  <2>1. \A i \in 1..Len(outbox') : Told(i)' => outbox'[i].turn = turn
    BY <1>1, <1>5 DEF OneTurn, Told
  <2>2. \A i, j \in 1..Len(outbox') : Told(i)' /\ Told(j)' => i = j
    <3> TAKE i, j \in 1..Len(outbox')
    <3>1. Told(i)' /\ Told(j)' => Told(i + 1) /\ Told(j + 1)
      BY <1>1 DEF Told
    <3>2. Told(i + 1) /\ Told(j + 1) => i + 1 = j + 1
      BY <1>1, <1>5 DEF OneTurn
    <3>3. i \in Nat /\ j \in Nat
      OBVIOUS
    <3> QED
      BY <3>1, <3>2, <3>3
  <2>3. /\ \A i \in 1..Len(inbox') : Asked(i)' /\ child' = "running" => inbox'[i].turn = turn'
        /\ \A i, j \in 1..Len(inbox') : Asked(i)' /\ Asked(j)' /\ child' = "running" => i = j
        /\ ~NoneAsked' => busy' = 0 /\ NoneTold'
        /\ busy' # 0 => busy' = turn' /\ NoneTold'
    BY <1>2, <1>5 DEF OneTurn, Asked, NoneAsked
  <2> QED
    BY <2>1, <2>2, <2>3 DEF OneTurn
<1>6. ASSUME OneTurn, Head(outbox).type = "agent_end"
      PROVE  Quiet' /\ Head(outbox).turn = turn
  <2>1. Told(1)
    BY <1>1, <1>6 DEF Told
  <2>2. NoneAsked /\ busy = 0
    BY <1>1, <1>6, <2>1 DEF OneTurn, NoneTold
  <2>3. NoneTold'
    <3> SUFFICES ASSUME NEW i \in 1..Len(outbox'), Told(i)' PROVE FALSE
      BY DEF NoneTold
    <3>1. Told(i + 1) /\ i + 1 \in 1..Len(outbox)
      BY <1>1 DEF Told
    <3>2. i + 1 = 1
      BY <1>1, <1>6, <2>1, <3>1 DEF OneTurn
    <3> QED
      BY <3>2
  <2> QED
    BY <1>1, <1>3, <1>6, <2>1, <2>2, <2>3 DEF Quiet, OneTurn
<1> QED
  BY <1>4, <1>5, <1>6

(* A line of the child is handled.                                          *)
LEMMA HandleEventKeeps ==
    ASSUME TInv, HandleEvent
    PROVE  TInv'
<1> USE DEF TInv, IInv
<1> DEFINE e == Head(outbox)
<1>1. /\ outbox # <<>> /\ outbox' = Tail(outbox)
      /\ UNCHANGED <<runner, turn, killed, eof, child, busy, inbox>>
  BY DEF HandleEvent
<1>2. outbox' \in Seq(Line) /\ e \in Line
  BY <1>1, Taken DEF LinesType
<1>3. e.st \in States /\ e.from \in Caller /\ e.turn \in 0..MaxTurns
  BY <1>2 DEF Line, States, Failure
<1>4. \/ /\ e.type = "response" /\ timer' = Marked /\ UNCHANGED promise
         /\ cmd' = cmd \/ cmd' = [cmd EXCEPT ![e.from].st = e.st]
      \/ e.type = "event" /\ timer' = Marked /\ UNCHANGED <<cmd, promise>>
      \/ /\ e.type = "agent_end" /\ agentEnd' = TRUE /\ timer' = FALSE /\ cut' = cut
         /\ Settle("ended", e.turn) /\ cmd' = cmd
  BY DEF HandleEvent
<1> HIDE DEF e
<1>5. CmdType'
  BY <1>3, <1>4 DEF CmdType, Command
<1>6. /\ PromiseType'
      /\ \/ done' = done /\ by' = by
         \/ e.type = "agent_end" /\ done = "open" /\ done' = "ended" /\ by' = e.turn
  <2>1. CASE UNCHANGED promise
    BY <2>1 DEF promise, PromiseType
  <2>2. CASE e.type = "agent_end" /\ agentEnd' = TRUE /\ cut' = cut /\ Settle("ended", e.turn)
    BY <1>3, <2>2 DEF Settle, PromiseType, Outcomes, Resolved
  <2> QED
    BY <1>4, <2>1, <2>2
<1>7. KillType'
  BY <1>1, <1>4 DEF KillType, Marked
<1>8. RunnerType' /\ TurnType' /\ ChildType' /\ LinesType' /\ Counted'
  BY <1>1, <1>2 DEF runner, RunnerType, TurnType, ChildType, LinesType, Counted
<1>9. Ended'
  BY <1>1, <1>6 DEF Ended
<1>10. /\ Quiet => Quiet' /\ e.type # "agent_end"
       /\ OneTurn => OneTurn'
       /\ OneTurn /\ e.type = "agent_end" => Quiet' /\ e.turn = turn
  BY <1>1, LineTaken DEF e
<1>11. FirstInv'
  <2>1. pc' = pc /\ attempt' = attempt /\ turn' = turn
    BY <1>1 DEF runner
  <2>2. CASE attempt = 1 /\ pc \in {"ack", "wait"}
    <3>1. CASE done = "ended"
      BY <1>6, <1>10, <2>1, <2>2, <3>1 DEF FirstInv
    <3>2. CASE done # "ended"
      BY <1>6, <1>10, <2>1, <2>2, <3>2 DEF FirstInv
    <3> QED
      BY <3>1, <3>2
  <2>3. CASE attempt = 1 /\ pc \in {"prompt", "read", "idle"}
    BY <1>6, <1>10, <2>1, <2>3 DEF FirstInv, TurnIsEarned
  <2> QED
    BY <2>1, <2>2, <2>3 DEF FirstInv
<1> QED
  BY <1>5, <1>6, <1>7, <1>8, <1>9, <1>11

(* A step that moves lines of the one turn and leaves the promise alone.     *)
LEMMA TurnMoves ==
    ASSUME FirstInv, UNCHANGED <<runner, turn, promise>>, Quiet => Quiet', OneTurn => OneTurn'
    PROVE  FirstInv'
BY DEF FirstInv, runner, promise, TurnIsEarned

(* A command is sent; a prompt is the one turn when nothing was on its way.  *)
LEMMA TurnSent ==
    ASSUME TInv, NEW c \in Caller, NEW type \in {"prompt", "steer"}, turn' \in 0..MaxTurns,
           Send(c, type), UNCHANGED <<outbox, busy, child>>
    PROVE  /\ type = "prompt" /\ Quiet => OneTurn'
           /\ type = "steer" /\ turn' = turn => (Quiet => Quiet') /\ (OneTurn => OneTurn')
<1> USE DEF TInv, IInv
<1>1. CASE inbox' = inbox
  BY <1>1, TurnStays, QuietIsOneTurn
     DEF Quiet, OneTurn, NoneAsked, NoneTold, Asked, Told
<1>2. CASE child = "running" /\ inbox' # inbox
  <2>1. PICK e \in Request : inbox' = Append(inbox, e) /\ e.type = type /\ e.turn = turn'
    BY <1>2, SendFacts
  <2>2. \A i \in 1..Len(inbox') : \/ i \in 1..Len(inbox) /\ inbox'[i] = inbox[i]
                                  \/ i = Len(inbox) + 1 /\ inbox'[i] = e
    BY <2>1, Added DEF LinesType
  <2>3. NoneTold => NoneTold'
    BY DEF NoneTold, Told
  <2>4. CASE type = "steer"
    <3>1. \A i \in 1..Len(inbox') : Asked(i)' => Asked(i) /\ inbox'[i] = inbox[i]
      BY <2>1, <2>2, <2>4 DEF Asked
    <3>2. \A i \in 1..Len(outbox) : Told(i)' <=> Told(i)
      BY DEF Told
    <3>3. Quiet => Quiet'
      BY <1>2, <2>3, <3>1 DEF Quiet, NoneAsked, Asked
    <3>4. NoneAsked => NoneAsked'
      BY <1>2, <3>1 DEF NoneAsked, Asked
    <3>5. OneTurn /\ turn' = turn => OneTurn'
      BY <1>2, <2>3, <3>1, <3>2, <3>4 DEF OneTurn, Asked
    <3> QED
      BY <2>4, <3>3, <3>5
  <2>5. CASE type = "prompt" /\ Quiet
    <3>1. \A i \in 1..Len(inbox') : Asked(i)' => i = Len(inbox) + 1 /\ inbox'[i] = e
      BY <1>2, <2>2, <2>5 DEF Asked, Quiet, NoneAsked
    <3>2. NoneTold' /\ busy' = 0
      BY <2>3, <2>5 DEF Quiet
    <3>3. OneTurn'
      BY <2>1, <3>1, <3>2 DEF OneTurn, NoneTold
    <3> QED
      BY <2>5, <3>3
  <2> QED
    BY <2>4, <2>5
<1>3. inbox' = inbox \/ child = "running"
  BY DEF Send
<1> QED
  BY <1>1, <1>2, <1>3

(* The supervisor steers.                                                  *)
LEMMA SteerKeeps ==
    ASSUME TInv, Steer
    PROVE  TInv'
<1> USE DEF TInv, IInv
<1>1. /\ turn' = turn /\ Send("steer", "steer") /\ "steer" \in Caller /\ turn' \in 0..MaxTurns
      /\ UNCHANGED <<runner, promise, timer, killed, eof, child, busy, outbox>>
  BY DEF Steer, Caller, TurnType
<1>2. CmdType' /\ inbox' \in Seq(Request)
  BY <1>1, SendFacts
<1>3. /\ RunnerType' /\ TurnType' /\ PromiseType' /\ KillType' /\ ChildType' /\ LinesType'
      /\ Counted' /\ Ended'
  <2>1. RunnerType' /\ TurnType' /\ PromiseType' /\ KillType'
    BY <1>1 DEF RunnerType, TurnType, PromiseType, KillType, runner, promise
  <2>2. ChildType' /\ LinesType' /\ Counted' /\ Ended'
    BY <1>1, <1>2 DEF ChildType, LinesType, Counted, Ended, runner, promise
  <2> QED
    BY <2>1, <2>2
<1>4. (Quiet => Quiet') /\ (OneTurn => OneTurn')
  BY <1>1, TurnSent
<1>5. FirstInv'
  BY <1>1, <1>4, TurnMoves
<1> QED
  BY <1>2, <1>3, <1>5

(* A step of the session keeps the invariant.                               *)
LEMMA SessionKeeps ==
    ASSUME TInv, Session
    PROVE  TInv'
<1>1. "stalled" \in Failure /\ "killed" \in Failure
  BY DEF Failure
<1>2. CASE StallTimeout
  BY <1>1, <1>2, KillKeeps DEF StallTimeout
<1>3. CASE KillFromOutside
  BY <1>1, <1>3, KillKeeps DEF KillFromOutside
<1> QED
  BY <1>2, <1>3, CommandFailsKeeps, HandleEventKeeps, ChildClosedKeeps, SteerKeeps DEF Session

-----------------------------------------------------------------------------
(* The child                                                               *)

(* A line that tells no end of a turn is written.                           *)
LEMMA LineAdded ==
    ASSUME TInv, NEW e \in Line, outbox' = Append(outbox, e)
    PROVE  /\ outbox' \in Seq(Line) /\ outbox' # <<>>
           /\ \A i \in 1..Len(outbox') : \/ i \in 1..Len(outbox) /\ outbox'[i] = outbox[i]
                                         \/ i = Len(outbox) + 1 /\ outbox'[i] = e
           /\ e.type # "agent_end" => \A i \in 1..Len(outbox') :
                 Told(i)' => Told(i) /\ outbox'[i] = outbox[i]
<1>1. outbox \in Seq(Line)
  BY DEF TInv, IInv, LinesType
<1>2. /\ outbox' \in Seq(Line) /\ outbox' # <<>>
      /\ \A i \in 1..Len(outbox') : \/ i \in 1..Len(outbox) /\ outbox'[i] = outbox[i]
                                    \/ i = Len(outbox) + 1 /\ outbox'[i] = e
  BY <1>1, Added
<1> QED
  BY <1>2 DEF Told

(* The child reads a command and answers it.                                *)
LEMMA ChildReadsKeeps ==
    ASSUME TInv, ChildReads
    PROVE  TInv'
<1> USE DEF TInv, IInv
<1> DEFINE c == Head(inbox)
           ok == c.type = "steer" \/ busy = 0
           e == [type |-> "response", from |-> c.from, id |-> c.id, turn |-> 0,
                 st |-> IF ok THEN "ok" ELSE "rejected"]
<1>1. /\ child = "running" /\ inbox # <<>> /\ inbox' = Tail(inbox)
      /\ outbox' = Append(outbox, e)
      /\ busy' = IF c.type = "prompt" /\ ok THEN c.turn ELSE busy
      /\ UNCHANGED <<runner, turn, cmd, promise, timer, killed, eof, child>>
  BY DEF ChildReads
<1>2. /\ inbox' \in Seq(Request) /\ c \in Request /\ c = inbox[1] /\ 1 \in 1..Len(inbox)
      /\ \A i \in 1..Len(inbox') : i + 1 \in 1..Len(inbox) /\ inbox'[i] = inbox[i + 1]
  BY <1>1, Taken DEF LinesType
<1>3. c.from \in Caller /\ c.id \in Nat /\ c.turn \in 0..MaxTurns /\ c.type \in {"prompt", "steer"}
  BY <1>2 DEF Request
<1>4. e \in Line /\ e.type # "agent_end"
  BY <1>3, SessionAssumption DEF Line
<1> HIDE DEF c, e
<1>5. /\ outbox' \in Seq(Line)
      /\ \A i \in 1..Len(outbox') : Told(i)' => Told(i) /\ outbox'[i] = outbox[i]
  BY <1>1, <1>4, LineAdded
<1>6. busy' \in 0..MaxTurns
  BY <1>1, <1>3 DEF ChildType
<1>7. RunnerType' /\ TurnType' /\ CmdType' /\ PromiseType' /\ KillType' /\ LinesType'
  BY <1>1, <1>2, <1>5 DEF RunnerType, TurnType, CmdType, PromiseType, KillType, LinesType,
                          runner, promise
<1>8. ChildType' /\ Counted' /\ Ended'
  BY <1>1, <1>6 DEF ChildType, Counted, Ended, runner, promise
<1>9. NoneTold => NoneTold'
  BY <1>5 DEF NoneTold, Told
<1>10. \A i \in 1..Len(inbox') : Asked(i)' => Asked(i + 1)
  BY <1>2 DEF Asked
<1>11. c.type = "prompt" => Asked(1)
  BY <1>2 DEF Asked
<1>12. Quiet => Quiet'
  BY <1>1, <1>2, <1>9, <1>10, <1>11, <1>3 DEF Quiet, NoneAsked
<1>13. ASSUME OneTurn PROVE OneTurn'
  <2>1. \A i \in 1..Len(outbox') : Told(i)' => outbox'[i].turn = turn'
    BY <1>1, <1>5, <1>13 DEF OneTurn, Told
  <2>2. \A i, j \in 1..Len(outbox') : Told(i)' /\ Told(j)' => i = j
    BY <1>5, <1>13 DEF OneTurn, Told
  <2>3. \A i, j \in 1..Len(inbox') : Asked(i)' /\ Asked(j)' => i = j
    <3> TAKE i, j \in 1..Len(inbox')
    <3>1. Asked(i)' /\ Asked(j)' => i + 1 = j + 1
      BY <1>1, <1>2, <1>10, <1>13 DEF OneTurn
    <3>2. i \in Nat /\ j \in Nat
      OBVIOUS
    <3> QED
      BY <3>1, <3>2
  <2>4. \A i \in 1..Len(inbox') : Asked(i)' => inbox'[i].turn = turn'
    BY <1>1, <1>2, <1>10, <1>13 DEF OneTurn
  <2>5. CASE c.type = "prompt"
    <3>1. busy = 0 /\ NoneTold /\ c.turn = turn
      BY <1>1, <1>2, <1>11, <1>13, <2>5 DEF OneTurn, NoneAsked
    <3>2. NoneAsked'
      <4> SUFFICES ASSUME NEW i \in 1..Len(inbox'), Asked(i)' PROVE FALSE
        BY DEF NoneAsked
      <4>1. i + 1 = 1
        BY <1>1, <1>2, <1>10, <1>11, <1>13, <2>5 DEF OneTurn
      <4> QED
        BY <4>1
    <3>3. busy' # 0 => busy' = turn'
      BY <1>1, <3>1
    <3> QED
      BY <1>9, <2>1, <2>2, <2>3, <2>4, <3>1, <3>2, <3>3 DEF OneTurn
  <2>6. CASE c.type # "prompt"
    <3>1. busy' = busy /\ turn' = turn /\ child' = child
      BY <1>1, <2>6
    <3>2. ~NoneAsked' => ~NoneAsked
      BY <1>2, <1>10, <3>1 DEF NoneAsked
    <3> QED
      BY <1>9, <1>13, <2>1, <2>2, <2>3, <2>4, <3>1, <3>2 DEF OneTurn
  <2> QED
    BY <2>5, <2>6
<1>14. FirstInv'
  BY <1>1, <1>12, <1>13, TurnMoves
<1> QED
  BY <1>7, <1>8, <1>14

(* The agent ends the turn it works on.                                     *)
LEMMA ChildEndsTurnKeeps ==
    ASSUME TInv, ChildEndsTurn
    PROVE  TInv'
<1> USE DEF TInv, IInv
<1> DEFINE e == [type |-> "agent_end", from |-> "runner", id |-> 0, turn |-> busy, st |-> "ok"]
<1>1. /\ child = "running" /\ busy # 0 /\ busy' = 0 /\ outbox' = Append(outbox, e)
      /\ UNCHANGED <<runner, turn, cmd, promise, timer, killed, eof, child, inbox>>
  BY DEF ChildEndsTurn
<1>2. e \in Line /\ e.turn = busy
  BY DEF Line, ChildType, Caller
<1> HIDE DEF e
<1>3. /\ outbox' \in Seq(Line)
      /\ \A i \in 1..Len(outbox') : \/ i \in 1..Len(outbox) /\ outbox'[i] = outbox[i]
                                    \/ i = Len(outbox) + 1 /\ outbox'[i] = e
  BY <1>1, <1>2, LineAdded
<1>4. /\ RunnerType' /\ TurnType' /\ CmdType' /\ PromiseType' /\ KillType' /\ LinesType'
      /\ Counted' /\ Ended'
  BY <1>1, <1>3 DEF RunnerType, TurnType, CmdType, PromiseType, KillType, LinesType,
                    Counted, Ended, runner, promise
<1>5. ChildType'
  BY <1>1, SessionAssumption DEF ChildType
<1>6. ~Quiet
  BY <1>1 DEF Quiet
<1>7. ASSUME OneTurn PROVE OneTurn'
  <2>1. busy = turn /\ NoneTold /\ NoneAsked
    BY <1>1, <1>7 DEF OneTurn
  <2>2. NoneAsked' /\ turn' = turn
    BY <1>1, <2>1 DEF NoneAsked, Asked
  <2>3. \A i \in 1..Len(outbox') : Told(i)' => i = Len(outbox) + 1 /\ outbox'[i] = e
    BY <1>3, <2>1 DEF NoneTold, Told
  <2>4. \A i \in 1..Len(inbox') : Asked(i)' => child' # "running"
    BY <2>2 DEF NoneAsked
  <2> QED
    BY <1>1, <1>2, <2>1, <2>2, <2>3, <2>4 DEF OneTurn
<1>8. FirstInv'
  BY <1>1, <1>6, <1>7, TurnMoves
<1> QED
  BY <1>4, <1>5, <1>8

(* The agent works, and says so.                                            *)
LEMMA ChildSpeaksKeeps ==
    ASSUME TInv, ChildSpeaks
    PROVE  TInv'
<1> USE DEF TInv, IInv
<1> DEFINE e == [type |-> "event", from |-> "runner", id |-> 0, turn |-> busy, st |-> "ok"]
<1>1. /\ child = "running" /\ busy # 0
      /\ outbox' = Append(outbox, e)
      /\ UNCHANGED <<runner, turn, cmd, promise, timer, killed, eof, child, busy, inbox>>
  BY DEF ChildSpeaks
<1>2. e \in Line /\ e.type # "agent_end"
  BY DEF Line, ChildType, Caller
<1> HIDE DEF e
<1>3. /\ outbox' \in Seq(Line)
      /\ \A i \in 1..Len(outbox') : Told(i)' => Told(i) /\ outbox'[i] = outbox[i]
  BY <1>1, <1>2, LineAdded
<1>4. /\ RunnerType' /\ CmdType' /\ PromiseType' /\ KillType' /\ LinesType'
      /\ ChildType' /\ Counted' /\ Ended'
  BY <1>1, <1>3 DEF RunnerType, CmdType, PromiseType, KillType, LinesType, ChildType,
                    Counted, Ended, runner, promise
<1>5. TurnType'
  BY <1>1, SessionAssumption DEF TurnType
<1>6. ~Quiet
  BY <1>1 DEF Quiet
<1>7. OneTurn => OneTurn'
  <2>1. NoneTold => NoneTold'
    BY <1>3 DEF NoneTold, Told
  <2>2. NoneAsked' <=> NoneAsked
    BY <1>1 DEF NoneAsked, Asked
  <2>3. \A i \in 1..Len(inbox) : Asked(i)' <=> Asked(i)
    BY <1>1 DEF Asked
  <2>4. \A i \in 1..Len(outbox') : Told(i)' => i \in 1..Len(outbox)
    BY <1>3 DEF Told
  <2> QED
    BY <1>1, <1>3, <2>1, <2>2, <2>3, <2>4 DEF OneTurn
<1>8. FirstInv'
  BY <1>1, <1>6, <1>7, TurnMoves
<1> QED
  BY <1>4, <1>5, <1>8

(* The child ends, and takes its turn with it.                              *)
LEMMA ChildExitsKeeps ==
    ASSUME TInv, ChildExits
    PROVE  TInv'
<1> USE DEF TInv, IInv
<1>1. /\ child \in {"running", "signalled"} /\ child' \in {"success", "failure"} /\ busy' = 0
      /\ UNCHANGED <<runner, turn, cmd, promise, timer, killed, eof, inbox, outbox>>
  BY DEF ChildExits
<1>2. /\ RunnerType' /\ TurnType' /\ CmdType' /\ PromiseType' /\ KillType' /\ LinesType'
      /\ Counted' /\ Ended'
  <2>1. RunnerType' /\ TurnType' /\ CmdType' /\ PromiseType' /\ KillType'
    BY <1>1 DEF RunnerType, TurnType, CmdType, PromiseType, KillType, runner, promise
  <2>2. LinesType' /\ Counted' /\ Ended'
    BY <1>1 DEF LinesType, Counted, Ended, runner, promise
  <2> QED
    BY <2>1, <2>2
<1>3. ChildType'
  BY <1>1, SessionAssumption DEF ChildType, Processes
<1>4. (Quiet => Quiet') /\ (OneTurn => OneTurn')
  BY <1>1 DEF Quiet, OneTurn, NoneAsked, NoneTold, Asked, Told, runner
<1>5. FirstInv'
  BY <1>1, <1>4, TurnMoves
<1> QED
  BY <1>2, <1>3, <1>5

(* A step of the child keeps the invariant.                                 *)
LEMMA ChildKeeps ==
    ASSUME TInv, Child
    PROVE  TInv'
BY ChildReadsKeeps, ChildEndsTurnKeeps, ChildSpeaksKeeps, ChildExitsKeeps DEF Child

-----------------------------------------------------------------------------
(* The runner                                                              *)

(* A prompt is sent when nothing is on its way.                             *)
LEMMA PromptKeeps ==
    ASSUME TInv, Prompt
    PROVE  TInv'
<1> USE DEF TInv, IInv
<1>1. /\ pc = "prompt" /\ pc' = "ack" /\ turn' = turn + 1 /\ timer' = Marked
      /\ Send("runner", "prompt") /\ "runner" \in Caller
      /\ UNCHANGED <<model, attempt, resumed, promise, killed, eof, child, busy, outbox>>
  BY DEF Prompt, Caller
<1>2. turn' \in 0..MaxTurns
  BY <1>1, SessionAssumption DEF TurnType, Counted
<1>3. CmdType' /\ inbox' \in Seq(Request)
  BY <1>1, <1>2, SendFacts
<1>4. KillType'
  BY <1>1 DEF KillType, Marked
<1>5. RunnerType' /\ TurnType' /\ PromiseType' /\ ChildType' /\ LinesType' /\ Ended'
  BY <1>1, <1>2, <1>3 DEF RunnerType, Points, TurnType, PromiseType, ChildType, LinesType,
                          Ended, promise
<1>6. Counted'
  BY <1>1, SessionAssumption DEF Counted, RunnerType, TurnType
<1>7. FirstInv'
  <2>1. Quiet => OneTurn'
    BY <1>1, <1>2, TurnSent
  <2> QED
    BY <1>1, <2>1 DEF FirstInv, promise
<1> QED
  BY <1>3, <1>4, <1>5, <1>6, <1>7

(* The next model of the chain starts afresh.                               *)
LEMMA NextModelKeeps ==
    ASSUME TInv, NextModel
    PROVE  TInv'
<1> USE DEF TInv, IInv
<1>1. /\ pc = "start" /\ pc' = "prompt" /\ model' \in (model + 1)..Models /\ attempt' = 1
      /\ turn' = 0 /\ cmd' = [c \in Caller |-> NoCmd] /\ done' = "open" /\ by' = 0
      /\ child' = "running" /\ busy' = 0  /\ inbox' = <<>> /\ outbox' = <<>>
  BY DEF NextModel
<1>2. /\ resumed' = FALSE /\ agentEnd' = FALSE /\ cut' = FALSE /\ timer' = FALSE /\ killed' = FALSE
      /\ eof' = FALSE
  BY DEF NextModel
<1>3. /\ resumed' \in BOOLEAN /\ agentEnd' \in BOOLEAN /\ cut' \in BOOLEAN /\ timer' \in BOOLEAN
      /\ killed' \in BOOLEAN /\ eof' \in BOOLEAN
  BY <1>2
<1>4. RunnerType'
  BY <1>1, <1>3, SessionAssumption DEF RunnerType, Points, Counted
<1>5. /\ turn' \in 0..MaxTurns
      /\ by' \in 0..MaxTurns /\ busy' \in 0..MaxTurns
  BY <1>1, SessionAssumption
<1>6. TurnType' /\ PromiseType' /\ KillType' /\ ChildType'
  BY <1>1, <1>3, <1>5 DEF TurnType, PromiseType, KillType, ChildType, Outcomes, Processes
<1>7. CmdType'
  BY <1>1 DEF CmdType, Command, States, NoCmd
<1>8. LinesType'
  BY <1>1 DEF LinesType
<1>9. Counted'
  BY <1>1, SessionAssumption DEF Counted
<1>10. Ended'
  BY <1>1, <1>2 DEF Ended
<1>11. FirstInv'
  BY <1>1 DEF FirstInv, Quiet, NoneAsked, NoneTold
<1> QED
  BY <1>4, <1>6, <1>7, <1>8, <1>9, <1>10, <1>11

(* An attempt that fails is over for its turn.                              *)
LEMMA AttemptFailsKeeps ==
    ASSUME TInv, NotAcked \/ DoneRejects \/ DoneTimesOut
    PROVE  TInv'
<1>1. PICK e \in Failure : Failed(e)
  <2>1. CASE NotAcked
    BY <2>1 DEF NotAcked
  <2>2. CASE DoneRejects
    BY <2>2 DEF DoneRejects
  <2>3. CASE DoneTimesOut
    BY <2>3 DEF DoneTimesOut, Failure
  <2> QED
    BY <2>1, <2>2, <2>3
<1>2. /\ pc \in {"ack", "wait"}
      /\ UNCHANGED <<resumed, turn, eof, busy, inbox, outbox>>
  BY DEF NotAcked, DoneRejects, DoneTimesOut
<1>3. IInv' /\ (attempt' # 1 \/ pc' \in {"start", "failed"})
  BY <1>1, <1>2, FailedIInv DEF TInv
<1>4. FirstInv'
  BY <1>3 DEF FirstInv
<1> QED
  BY <1>3, <1>4 DEF TInv

(* The runner moves on while the session stands still.                      *)
LEMMA RunnerMovesKeeps ==
    ASSUME TInv, Acked \/ DoneResolves
    PROVE  TInv'
<1> USE DEF TInv, IInv
<1>1. /\ \/ pc = "ack" /\ pc' = "wait"
         \/ pc = "wait" /\ done \in Resolved /\ pc' = "read"
      /\ UNCHANGED <<model, attempt, resumed, turn, cmd, promise, timer, killed, eof, process>>
  BY DEF Acked, DoneResolves, Resolved
<1>2. /\ RunnerType' /\ TurnType' /\ CmdType' /\ PromiseType' /\ KillType' /\ ChildType'
      /\ LinesType' /\ Counted' /\ Ended'
  BY <1>1 DEF RunnerType, Points, TurnType, CmdType, PromiseType, KillType, ChildType,
              LinesType, Counted, Ended, promise, process
<1>3. (Quiet => Quiet') /\ (OneTurn => OneTurn')
  BY <1>1, TurnStays DEF process
<1>4. ASSUME pc' = "wait" PROVE FirstInv'
  BY <1>1, <1>3, <1>4 DEF FirstInv, promise
<1>5. ASSUME pc = "wait", done \in Resolved, pc' = "read" PROVE FirstInv'
  <2>1. CASE done = "exited ok"
    <3>1. child = "closed" /\ outbox = <<>> /\ busy = 0
      BY <2>1 DEF Ended
    <3>2. Quiet
      BY <3>1 DEF Quiet, NoneAsked, NoneTold
    <3> QED
      BY <1>1, <1>3, <1>5, <2>1, <3>2 DEF FirstInv, TurnIsEarned, promise
  <2>2. CASE done = "ended"
    <3>1. attempt = 1 => by = turn /\ Quiet
      BY <1>5, <2>2 DEF FirstInv
    <3> QED
      BY <1>1, <1>3, <1>5, <2>2, <3>1 DEF FirstInv, TurnIsEarned, promise
  <2> QED
    BY <1>5, <2>1, <2>2 DEF Resolved
<1> QED
  BY <1>1, <1>2, <1>4, <1>5

(* A finished turn is read, and its session kept, resumed or closed.        *)
LEMMA TurnOverKeeps ==
    ASSUME TInv, OutputRead \/ Resume \/ Close \/ CloseReturns
    PROVE  TInv'
<1> USE DEF TInv, IInv
<1>1. /\ \/ pc = "read" /\ pc' = "idle" /\ UNCHANGED promise
         \/ pc = "idle" /\ pc' = "failed" /\ UNCHANGED <<promise, resumed>>
         \/ /\ pc = "idle" /\ pc' = "prompt" /\ agentEnd' = FALSE /\ done' = "open" /\ by' = 0
            /\ cut' = cut /\ ~killed /\ turn < MaxTurns /\ UNCHANGED resumed
         \/ pc' \in {"ok", "closing"} /\ UNCHANGED promise
      /\ UNCHANGED <<model, attempt, turn, cmd, killed, busy, inbox, outbox>>
      /\ child' = child \/ (child = "running" /\ child' = "signalled")
  BY DEF OutputRead, Resume, Close, CloseReturns, process
<1>2. /\ resumed' = resumed \/ resumed' = TRUE
      /\ timer' = timer \/ timer' = FALSE
      /\ eof' = eof \/ eof' = TRUE
  BY DEF OutputRead, Resume, Close, CloseReturns
<1>3. resumed' \in BOOLEAN /\ timer' \in BOOLEAN /\ eof' \in BOOLEAN
  BY <1>2 DEF RunnerType, TurnType, KillType
<1>4. RunnerType' /\ TurnType' /\ CmdType' /\ KillType' /\ ChildType' /\ LinesType'
  BY <1>1, <1>3 DEF RunnerType, Points, TurnType, CmdType, KillType, ChildType, Processes, LinesType
<1>5. (agentEnd' = agentEnd \/ agentEnd' = FALSE) /\ cut' = cut
  BY <1>1 DEF promise
<1>6. PromiseType'
  <2>1. done' \in {done, "open"} /\ by' \in {by, 0}
    BY <1>1 DEF promise
  <2>2. agentEnd' \in BOOLEAN /\ cut' \in BOOLEAN
    BY <1>5 DEF PromiseType
  <2> QED
    BY <2>1, <2>2, SessionAssumption DEF PromiseType, Outcomes
<1>7. Counted'
  <2>1. pc' = "idle" => resumed'
    BY DEF OutputRead, Resume, Close, CloseReturns
  <2> QED
    BY <1>1, <2>1 DEF Counted
<1>8. Ended'
  BY <1>1 DEF Ended, promise
<1>9. FirstInv'
  BY <1>1, TurnStays DEF FirstInv
<1> QED
  BY <1>4, <1>6, <1>7, <1>8, <1>9

(* A step of the runner keeps the invariant.                                *)
LEMMA RunnerKeeps ==
    ASSUME TInv, Runner
    PROVE  TInv'
BY PromptKeeps, NextModelKeeps, AttemptFailsKeeps, RunnerMovesKeeps, TurnOverKeeps DEF Runner

(* The invariant is inductive.                                              *)
LEMMA TInvStep == TInv /\ [Next]_vars => TInv'
<1> SUFFICES ASSUME TInv, [Next]_vars PROVE TInv'
  OBVIOUS
<1>1. CASE UNCHANGED vars
  <2>1. UNCHANGED <<runner, turn, promise, inbox, outbox, busy, child>>
    BY <1>1 DEF vars, runner, promise
  <2>2. FirstInv'
    BY <2>1, TurnStays, TurnMoves DEF TInv
  <2>3. IInv'
    <3>1. IInv
      BY DEF TInv
    <3>2. RunnerType' /\ TurnType' /\ CmdType' /\ PromiseType' /\ KillType'
      BY <1>1, <3>1 DEF IInv, vars, RunnerType, TurnType, CmdType, PromiseType, KillType
    <3>3. ChildType' /\ LinesType' /\ Counted' /\ Ended'
      BY <1>1, <3>1 DEF IInv, vars, ChildType, LinesType, Counted, Ended
    <3> QED
      BY <3>2, <3>3 DEF IInv
  <2> QED
    BY <2>2, <2>3 DEF TInv
<1> QED
  BY <1>1, SessionKeeps, ChildKeeps, RunnerKeeps DEF Next

-----------------------------------------------------------------------------
(* The theorems                                                            *)

(* TInv holds in every state of the system.                                 *)
LEMMA AlwaysTInv == Spec => []TInv
<1>1. Init => TInv
  BY InitIInv
<1>2. TInv /\ [Next]_vars => TInv'
  BY TInvStep
<1> QED
  BY <1>1, <1>2, PTL DEF Spec

(* A kill that finds a turn open fails it, and no turn is open after an      *)
(* output was read.                                                          *)
LEMMA CutByKill ==
    ASSUME TInv, CutInv, NEW how \in Failure, Kill(how), pc' = pc \/ pc' \notin Over
    PROVE  CutInv'
<1>1. CASE killed
  BY <1>1 DEF Kill, promise, CutInv
<1>2. CASE ~killed
  <2>1. killed' = TRUE /\ cut' = (done = "open") /\ Settle(how, 0)
    BY <1>2 DEF Kill
  <2> QED
    BY <2>1 DEF CutInv, Settle
<1> QED
  BY <1>1, <1>2

(* A step of the session or of the child.                                    *)
LEMMA CutSession ==
    ASSUME TInv, CutInv, Session \/ Child
    PROVE  CutInv'
<1>1. ASSUME NEW c \in Caller, WriteFails(c) \/ CommandTimeout(c) PROVE CutInv'
  BY <1>1 DEF WriteFails, CommandTimeout, CutInv, runner, promise
<1>2. CASE StallTimeout \/ KillFromOutside
  <2>1. PICK how \in Failure : Kill(how)
    BY <1>2 DEF StallTimeout, KillFromOutside, Failure
  <2>2. pc' = pc
    BY <1>2 DEF StallTimeout, KillFromOutside, runner
  <2> QED
    BY <2>1, <2>2, CutByKill
<1>3. CASE HandleEvent
  <2>1. cut' = cut /\ killed' = killed /\ pc' = pc
        /\ (done' = done \/ (done = "open" /\ done' # "open"))
    BY <1>3 DEF HandleEvent, promise, runner, Settle
  <2> QED
    BY <2>1 DEF CutInv, Failure
<1>4. CASE ChildClosed
  <2>1. cut' = cut /\ killed' = killed /\ pc' = pc
        /\ (done' = done \/ (done = "open" /\ done' # "open"))
    BY <1>4 DEF ChildClosed, runner, Settle
  <2> QED
    BY <2>1 DEF CutInv, Failure
<1>5. CASE Steer \/ Child
  BY <1>5 DEF Steer, Child, ChildReads, ChildEndsTurn, ChildSpeaks, ChildExits, runner, promise,
              CutInv
<1> QED
  BY <1>1, <1>2, <1>3, <1>4, <1>5 DEF Session

(* A step of the runner.                                                     *)
LEMMA CutRunner ==
    ASSUME TInv, CutInv, Runner
    PROVE  CutInv'
<1>1. CASE NotAcked \/ DoneRejects \/ DoneTimesOut
  <2>1. PICK e \in Failure : Failed(e)
    BY <1>1 DEF NotAcked, DoneRejects, DoneTimesOut, Failure
  <2>2. CASE Kill("killed") /\ pc' \in {"start", "failed"}
    BY <2>2, CutByKill DEF Failure, Over
  <2>3. CASE UNCHANGED <<promise, killed>> /\ pc' \in {"prompt", "failed"}
    BY <2>3 DEF CutInv, Over, promise
  <2> QED
    BY <2>1, <2>2, <2>3 DEF Failed
<1>2. CASE Prompt \/ Acked
  BY <1>2 DEF Prompt, Acked, promise, CutInv, Over
<1>3. CASE NextModel
  BY <1>3 DEF NextModel, CutInv, Over
<1>4. CASE DoneResolves
  BY <1>4 DEF DoneResolves, promise, CutInv, Over, Failure
<1>5. CASE OutputRead \/ Resume \/ Close \/ CloseReturns
  BY <1>5 DEF OutputRead, Resume, Close, CloseReturns, promise, CutInv, Over
<1> QED
  BY <1>1, <1>2, <1>3, <1>4, <1>5 DEF Runner

(* CutInv is inductive with TInv.                                            *)
LEMMA CutInvStep == TInv /\ CutInv /\ [Next]_vars => CutInv'
<1>1. UNCHANGED vars /\ CutInv => CutInv'
  BY DEF vars, CutInv
<1> QED
  BY <1>1, CutSession, CutRunner DEF Next

(* The parts are the type invariant.                                        *)
LEMMA TypeParts == TInv => SessionTypeOK
<1> SUFFICES ASSUME TInv PROVE SessionTypeOK
  OBVIOUS
<1>1. \A c \in Caller : cmd[c].id \in Nat /\ cmd[c].st \in States
  BY DEF TInv, IInv, CmdType, Command
<1>2. /\ \A i \in 1..Len(inbox) : inbox[i] \in Request
      /\ \A i \in 1..Len(outbox) : outbox[i] \in Line
  BY DEF TInv, IInv, LinesType
<1>3. /\ \A i \in 1..Len(inbox) : inbox[i].from \in Caller
      /\ \A i \in 1..Len(outbox) : outbox[i].type \in {"response", "event", "agent_end"}
  BY <1>2 DEF Request, Line
<1>4. done \in {"open", "ended", "exited ok"} \cup Failure
  BY DEF TInv, IInv, PromiseType, Outcomes, Resolved
<1> QED
  BY <1>1, <1>3, <1>4
     DEF TInv, IInv, SessionTypeOK, RunnerType, TurnType, PromiseType, KillType, ChildType,
         States, Points, Processes

(* The variables of a session stay in their types: in particular no run     *)
(* sends more prompts than its attempts allow, and none comes to a model    *)
(* after the last (runner.ts 1322-1440).                                    *)
THEOREM SessionTypeCorrect == Spec => []SessionTypeOK
BY AlwaysTInv, TypeParts, PTL

(* As long as no attempt was retried in the session, waitForDone returns     *)
(* for the end of the turn that was prompted or for a child that left        *)
(* without an error (session.ts 1116-1120, 1366, 1562-1584, 1722-1737).      *)
THEOREM FirstAttemptIsEarned == Spec => []DoneIsEarned
<1>1. TInv => DoneIsEarned
  BY DEF TInv, FirstInv, DoneIsEarned, TurnIsEarned
<1> QED
  BY <1>1, AlwaysTInv, PTL

(* A session killed or stalled with a turn open never gives an output: the   *)
(* kill has settled the turn before the child's end can, and a killed        *)
(* session prompts no more (session.ts 1167-1168, 1656-1685, 1722-1725,      *)
(* runner.ts 1373-1405).                                                     *)
THEOREM KilledTurnFailsTheorem == Spec => []KilledTurnFails
<1>1. Init => CutInv
  BY DEF Init, CutInv, Over
<1>2. TInv /\ CutInv /\ [Next]_vars => CutInv'
  BY CutInvStep
<1>3. CutInv => KilledTurnFails
  BY DEF CutInv, KilledTurnFails, Over
<1> QED
  BY <1>1, <1>2, <1>3, AlwaysTInv, PTL DEF Spec

===============================================================================
