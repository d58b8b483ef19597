------------------------------ MODULE PiSession ------------------------------
(***************************************************************************)
(* One run of a specialist in the legacy engine: the loop of the runner    *)
(* over attempts and models (src/specialist/runner.ts) and the session it  *)
(* drives, an RPC client of one `pi` child process (src/pi/session.ts).     *)
(*                                                                         *)
(* Commands go to the child and answers and events come back, each in      *)
(* order.  Every wait of the client can also end by a timer, by kill, or by *)
(* the end of the child.  Turns are numbered by the prompts sent; a model's *)
(* child and session are replaced together.                                *)
(***************************************************************************)
EXTENDS Naturals, Sequences

CONSTANTS
    Models,       \* length of the model chain
    MaxAttempts,  \* attempts per model: max_retries + 1
    MaxTurns,     \* prompts of one session
    Pipe          \* lines on the way back beyond which the child does not speak

ASSUME SessionAssumption ==
    /\ Models \in Nat \ {0} /\ MaxAttempts \in Nat \ {0} /\ Pipe \in Nat
    /\ MaxTurns \in Nat /\ MaxAttempts <= MaxTurns

VARIABLES
    pc,        \* where the runner and its caller are
    model,     \* the model of the chain it has come to
    attempt,   \* the attempt with that model
    resumed,   \* the session was handed to the caller, who prompts it again
    turn,      \* prompts sent to this session
    cmd,       \* the command each caller of the session has sent last
    done,      \* the promise of the turn that waitForDone waits for
    by,        \* the turn whose end resolved it
    agentEnd,  \* _agentEndReceived
    cut,       \* a kill has found the promise open
    timer,     \* the stall timer is armed
    killed,    \* _killed, after which there is no proc
    eof,       \* stdin was ended
    child,     \* the process
    busy,      \* the turn the agent works on, 0 when idle
    inbox,     \* commands on the way to the child
    outbox     \* lines on the way back

vars == <<pc, model, attempt, resumed, turn, cmd, done, by, agentEnd, cut, timer, killed, eof,
          child, busy, inbox, outbox>>

runner == <<pc, model, attempt, resumed>>
promise == <<done, by, agentEnd, cut>>
process == <<child, busy, inbox, outbox>>

Caller == {"runner", "steer"}
NoCmd == [id |-> 0, st |-> "none"]
Failure == {"timeout", "rejected", "stalled", "killed", "died", "exited", "unwritten"}

SessionTypeOK ==
    /\ pc \in {"start", "prompt", "ack", "wait", "read", "idle", "closing", "ok", "failed"}
    /\ model \in 1..Models /\ attempt \in 1..MaxAttempts /\ resumed \in BOOLEAN
    /\ turn \in 0..MaxTurns
    /\ \A c \in Caller : cmd[c].id \in Nat /\ cmd[c].st \in {"none", "pending", "ok"} \cup Failure
    /\ done \in {"open", "ended", "exited ok"} \cup Failure
    /\ by \in 0..MaxTurns
    /\ \A flag \in {agentEnd, cut, timer, killed, eof} : flag \in BOOLEAN
    /\ child \in {"running", "success", "failure", "signalled", "closed"}
    /\ busy \in 0..MaxTurns
    /\ \A i \in 1..Len(inbox) : inbox[i].from \in Caller
    /\ \A i \in 1..Len(outbox) : outbox[i].type \in {"response", "event", "agent_end"}

(* A new session has just spawned its child; models before it were skipped, *)
(* their circuit breakers open                                             *)
Init ==
    /\ pc = "prompt" /\ model \in 1..Models /\ attempt = 1 /\ resumed = FALSE
    /\ turn = 0 /\ cmd = [c \in Caller |-> NoCmd]
    /\ done = "open" /\ by = 0 /\ agentEnd = FALSE /\ cut = FALSE
    /\ timer = FALSE /\ killed = FALSE /\ eof = FALSE
    /\ child = "running" /\ busy = 0 /\ inbox = <<>> /\ outbox = <<>>

-----------------------------------------------------------------------------
(* The session                                                             *)

(* _markActivity                                                           *)
Marked == IF killed \/ agentEnd THEN timer ELSE TRUE

(* Settle the promise of the turn unless it is settled                      *)
Settle(how, t) ==
    /\ done' = IF done = "open" THEN how ELSE done
    /\ by' = IF done = "open" THEN t ELSE by

(* sendCommand: the entry is registered, then the line is written.  A killed*)
(* session has no stdin, and a write to an ended child fails.               *)
Send(c, type) ==
    LET id == cmd[c].id + 1 IN
    IF killed
    THEN cmd' = [cmd EXCEPT ![c] = [id |-> id, st |-> "unwritten"]] /\ inbox' = inbox
    ELSE /\ cmd' = [cmd EXCEPT ![c] = [id |-> id, st |-> "pending"]]
         /\ inbox' = IF eof \/ child # "running" THEN inbox
                     ELSE Append(inbox, [from |-> c, id |-> id, type |-> type, turn |-> turn'])

(* The write of a command fails                                            *)
WriteFails(c) ==
    /\ cmd[c].st = "pending" /\ (eof \/ child # "running")
    /\ cmd' = [cmd EXCEPT ![c].st = "unwritten"]
    /\ UNCHANGED <<runner, turn, promise, timer, killed, eof, process>>

(* The timer of a pending command; a later answer finds no entry            *)
CommandTimeout(c) ==
    /\ cmd[c].st = "pending"
    /\ cmd' = [cmd EXCEPT ![c].st = "timeout"]
    /\ UNCHANGED <<runner, turn, promise, timer, killed, eof, process>>

(* Reject every pending command                                            *)
FailPending(how) ==
    cmd' = [c \in Caller |-> IF cmd[c].st = "pending" THEN [cmd[c] EXCEPT !.st = how] ELSE cmd[c]]

(* Mutant: the turn is left for the close event to settle                   *)
KillLeavesTurn(how) ==
    IF killed THEN UNCHANGED <<cmd, promise, timer, killed, child>>
    ELSE /\ killed' = TRUE /\ timer' = FALSE /\ cut' = (done = "open")
         /\ FailPending(how) /\ UNCHANGED <<done, by, agentEnd>>
         /\ child' = IF child = "running" THEN "signalled" ELSE child

(* kill: once; the pending commands and the turn are rejected before the    *)
(* child is signalled, so that its end cannot count as the turn's           *)
Kill(how) ==
    IF killed THEN UNCHANGED <<cmd, promise, timer, killed, child>>
    ELSE /\ killed' = TRUE /\ timer' = FALSE /\ cut' = (done = "open")
         /\ FailPending(how) /\ Settle(how, 0)
         /\ child' = IF child = "running" THEN "signalled" ELSE child
         /\ agentEnd' = agentEnd

(* _handleEvent: one line of the child                                     *)
HandleEvent ==
    /\ outbox # <<>>
    /\ outbox' = Tail(outbox)
    /\ LET e == Head(outbox) IN
       \/ /\ e.type = "response"
          /\ cmd' = IF cmd[e.from].id = e.id /\ cmd[e.from].st = "pending"
                    THEN [cmd EXCEPT ![e.from].st = e.st] ELSE cmd
          /\ timer' = Marked
          /\ UNCHANGED promise
       \/ /\ e.type = "event"
          /\ timer' = Marked
          /\ UNCHANGED <<cmd, promise>>
       \/ /\ e.type = "agent_end"
          /\ agentEnd' = TRUE /\ timer' = FALSE /\ cut' = cut
          /\ Settle("ended", e.turn)
          /\ cmd' = cmd
    /\ UNCHANGED <<runner, turn, killed, eof, child, busy, inbox>>

(* The stall timer                                                         *)
StallTimeout ==
    /\ timer /\ ~killed /\ ~agentEnd
    /\ Kill("stalled")
    /\ UNCHANGED <<runner, turn, eof, busy, inbox, outbox>>

(* The supervisor's killFn                                                 *)
KillFromOutside ==
    /\ ~killed
    /\ Kill("killed")
    /\ UNCHANGED <<runner, turn, eof, busy, inbox, outbox>>

(* Mutant: the turn is settled with the exit state as it is                 *)
ChildClosedRaw ==
    /\ child \in {"success", "failure"} /\ outbox = <<>>
    /\ child' = "closed" /\ timer' = FALSE
    /\ FailPending("died")
    /\ Settle(child, 0)
    /\ UNCHANGED <<runner, turn, agentEnd, cut, killed, eof, busy, inbox, outbox>>

(* The close event, after the last line was read: what is pending fails at  *)
(* once, and an open turn is settled by the exit code; a signal has none.   *)
ChildClosed ==
    /\ child \in {"success", "failure"} /\ outbox = <<>>
    /\ child' = "closed" /\ timer' = FALSE
    /\ FailPending("died")
    /\ Settle(IF agentEnd \/ killed \/ child = "success" THEN "exited ok" ELSE "exited", 0)
    /\ UNCHANGED <<runner, turn, agentEnd, cut, killed, eof, busy, inbox, outbox>>

(* steer, by the supervisor                                                *)
Steer ==
    /\ ~killed /\ cmd["steer"].id = 0 /\ turn > 0
    /\ turn' = turn /\ Send("steer", "steer")
    /\ UNCHANGED <<runner, promise, timer, killed, eof, child, busy, outbox>>

-----------------------------------------------------------------------------
(* The child (modelled from the answers the client expects)                *)

(* A prompt is refused while a turn is running                             *)
ChildReads ==
    /\ child = "running" /\ inbox # <<>>
    /\ inbox' = Tail(inbox)
    /\ LET c == Head(inbox)
           ok == c.type = "steer" \/ busy = 0
       IN /\ outbox' = Append(outbox, [type |-> "response", from |-> c.from, id |-> c.id,
                                       turn |-> 0, st |-> IF ok THEN "ok" ELSE "rejected"])
          /\ busy' = IF c.type = "prompt" /\ ok THEN c.turn ELSE busy
    /\ UNCHANGED <<runner, turn, cmd, promise, timer, killed, eof, child>>

ChildEndsTurn ==
    /\ child = "running" /\ busy # 0
    /\ outbox' = Append(outbox, [type |-> "agent_end", from |-> "runner", id |-> 0,
                              turn |-> busy, st |-> "ok"])
    /\ busy' = 0
    /\ UNCHANGED <<runner, turn, cmd, promise, timer, killed, eof, child, inbox>>

ChildSpeaks ==
    /\ child = "running" /\ busy # 0 /\ Len(outbox) < Pipe
    /\ outbox' = Append(outbox, [type |-> "event", from |-> "runner", id |-> 0,
                              turn |-> busy, st |-> "ok"])
    /\ UNCHANGED <<runner, turn, cmd, promise, timer, killed, eof, child, busy, inbox>>

(* It ends by itself, after the end of its input, or by a signal           *)
ChildExits ==
    /\ child \in {"running", "signalled"}
    /\ child' \in {"success", "failure"}
    /\ busy' = 0
    /\ UNCHANGED <<runner, turn, cmd, promise, timer, killed, eof, inbox, outbox>>

-----------------------------------------------------------------------------
(* The runner                                                              *)

(* prompt, of an attempt or of a resumed turn                              *)
Prompt ==
    /\ pc = "prompt"
    /\ pc' = "ack"
    /\ turn' = turn + 1
    /\ timer' = Marked
    /\ Send("runner", "prompt")
    /\ UNCHANGED <<model, attempt, resumed, promise, killed, eof, child, busy, outbox>>

(* What an error is taken for, by its name and text: the texts of timers    *)
(* say timeout; a refusal, and the stderr of a child that died before its   *)
(* answer, may say anything; a kill, an exit code and a failed write are    *)
(* not transient.                                                           *)
TakenFor(e) ==
    CASE e \in {"timeout", "stalled"} -> {"transient"}
      [] e \in {"rejected", "died"}   -> {"transient", "rate limit", "fatal"}
      [] OTHER                        -> {"fatal"}

(* What an attempt does after an error: again with the same session, unless *)
(* the rate is limited, with the next model, or the run fails; the finally  *)
(* clause kills the session.  A resumed turn fails to its caller.           *)
Failed(e) == \E kind \in TakenFor(e) :
    \/ /\ ~resumed /\ kind = "transient" /\ attempt < MaxAttempts
       /\ pc' = "prompt" /\ attempt' = attempt + 1
       /\ UNCHANGED <<model, cmd, promise, timer, killed, child>>
    \/ /\ ~resumed /\ model < Models
       /\ kind = "rate limit" \/ (kind = "transient" /\ attempt = MaxAttempts)
       /\ pc' = "start" /\ UNCHANGED <<model, attempt>>
       /\ Kill("killed")
    \/ /\ ~resumed
       /\ \/ kind = "fatal"
          \/ model = Models /\ (kind = "rate limit" \/ attempt = MaxAttempts)
       /\ pc' = "failed" /\ UNCHANGED <<model, attempt>>
       /\ Kill("killed")
    \/ /\ resumed
       /\ pc' = "failed" /\ UNCHANGED <<model, attempt, cmd, promise, timer, killed, child>>

(* A later model of the chain gets a session of its own; one whose circuit  *)
(* breaker is open is skipped, but not the last                            *)
NextModel ==
    /\ pc = "start"
    /\ model' \in (model + 1)..Models
    /\ pc' = "prompt" /\ attempt' = 1 /\ resumed' = FALSE
    /\ turn' = 0 /\ cmd' = [c \in Caller |-> NoCmd]
    /\ done' = "open" /\ by' = 0 /\ agentEnd' = FALSE /\ cut' = FALSE
    /\ timer' = FALSE /\ killed' = FALSE /\ eof' = FALSE
    /\ child' = "running" /\ busy' = 0 /\ inbox' = <<>> /\ outbox' = <<>>

(* The answer to the prompt                                                *)
Acked ==
    /\ pc = "ack" /\ cmd["runner"].st = "ok"
    /\ pc' = "wait"
    /\ UNCHANGED <<model, attempt, resumed, turn, cmd, promise, timer, killed, eof, process>>

NotAcked ==
    /\ pc = "ack" /\ cmd["runner"].st \in Failure
    /\ Failed(cmd["runner"].st)
    /\ UNCHANGED <<resumed, turn, eof, busy, inbox, outbox>>

(* waitForDone                                                             *)
DoneResolves ==
    /\ pc = "wait" /\ done \in {"ended", "exited ok"}
    /\ pc' = "read"
    /\ UNCHANGED <<model, attempt, resumed, turn, cmd, promise, timer, killed, eof, process>>

DoneRejects ==
    /\ pc = "wait" /\ done \in Failure
    /\ Failed(done)
    /\ UNCHANGED <<resumed, turn, eof, busy, inbox, outbox>>

(* execution.timeout_ms, where it is set                                   *)
DoneTimesOut ==
    /\ pc = "wait"
    /\ Failed("timeout")
    /\ UNCHANGED <<resumed, turn, eof, busy, inbox, outbox>>

(* The output is read (with a timer of its own, and the streamed text to    *)
(* fall back on); then the session is kept for its caller or closed.        *)
OutputRead ==
    /\ pc = "read"
    /\ \/ pc' = "idle" /\ resumed' = TRUE /\ UNCHANGED <<timer, eof>>
       \/ /\ ~resumed /\ resumed' = resumed
          /\ IF killed THEN pc' = "ok" /\ UNCHANGED <<timer, eof>>
             ELSE pc' = "closing" /\ timer' = FALSE /\ eof' = TRUE
    /\ UNCHANGED <<model, attempt, turn, cmd, promise, killed, process>>

(* Mutant: the end of the last turn is remembered                           *)
ResumeKeepsEnd ==
    /\ pc = "idle" /\ turn < MaxTurns
    /\ \/ killed /\ pc' = "failed" /\ UNCHANGED promise
       \/ ~killed /\ pc' = "prompt" /\ UNCHANGED <<agentEnd, cut>> /\ done' = "open" /\ by' = 0
    /\ UNCHANGED <<model, attempt, resumed, turn, cmd, timer, killed, eof, process>>

(* Mutant: the next turn waits for the promise of the last one              *)
ResumeOldPromise ==
    /\ pc = "idle" /\ turn < MaxTurns
    /\ \/ killed /\ pc' = "failed" /\ UNCHANGED promise
       \/ ~killed /\ pc' = "prompt" /\ agentEnd' = FALSE /\ UNCHANGED <<done, by, cut>>
    /\ UNCHANGED <<model, attempt, resumed, turn, cmd, timer, killed, eof, process>>

(* resume: a new promise for a new turn, unless the session is gone         *)
Resume ==
    /\ pc = "idle" /\ turn < MaxTurns
    /\ \/ killed /\ pc' = "failed" /\ UNCHANGED promise
       \/ ~killed /\ pc' = "prompt" /\ agentEnd' = FALSE /\ done' = "open" /\ by' = 0 /\ cut' = cut
    /\ UNCHANGED <<model, attempt, resumed, turn, cmd, timer, killed, eof, process>>

(* closeFn                                                                 *)
Close ==
    /\ pc = "idle"
    /\ IF killed THEN pc' = "ok" /\ UNCHANGED <<timer, eof>>
       ELSE pc' = "closing" /\ timer' = FALSE /\ eof' = TRUE
    /\ UNCHANGED <<model, attempt, resumed, turn, cmd, promise, killed, process>>

(* close returns at the close event it listens for, or when its timer has   *)
(* killed the process group                                                *)
CloseReturns ==
    /\ pc = "closing"
    /\ pc' = "ok"
    /\ child' = IF child \in {"running", "signalled"} THEN "signalled" ELSE child
    /\ UNCHANGED <<model, attempt, resumed, turn, cmd, promise, timer, killed, eof, busy,
                   inbox, outbox>>

Session ==
    \/ \E c \in Caller : WriteFails(c) \/ CommandTimeout(c)
    \/ HandleEvent \/ StallTimeout \/ KillFromOutside \/ ChildClosed \/ Steer
Child == ChildReads \/ ChildEndsTurn \/ ChildSpeaks \/ ChildExits
Runner ==
    \/ Prompt \/ NextModel \/ Acked \/ NotAcked \/ DoneResolves \/ DoneRejects \/ DoneTimesOut
    \/ OutputRead \/ Resume \/ Close \/ CloseReturns

Next == Session \/ Child \/ Runner

Spec == Init /\ [][Next]_vars

(* The client's continuations and timers run; nobody has to prompt again,   *)
(* steer, kill or close, and a child need not read, answer or exit.  Every  *)
(* line that is handled arms the stall timer anew: it goes off in the end   *)
(* only if the lines cease.                                                *)
Fairness ==
    /\ \A c \in Caller : WF_vars(WriteFails(c)) /\ WF_vars(CommandTimeout(c))
    /\ WF_vars(HandleEvent) /\ WF_vars(ChildClosed)
    /\ WF_vars(StallTimeout) \/ []<><<HandleEvent>>_vars
    /\ WF_vars(Prompt) /\ WF_vars(NextModel) /\ WF_vars(Acked) /\ WF_vars(NotAcked)
    /\ WF_vars(DoneResolves) /\ WF_vars(DoneRejects)
    /\ WF_vars(OutputRead) /\ WF_vars(CloseReturns)

FairSpec == Spec /\ Fairness

-----------------------------------------------------------------------------
(* waitForDone returns when the agent ended the turn that was prompted, or   *)
(* when its process left by itself without an error, never for the end of   *)
(* another turn (session.ts 1116-1120, 1366, 1562-1584, 1722-1737).         *)
TurnIsEarned == pc = "read" => (done = "ended" /\ by = turn) \/ done = "exited ok"

(* So it is as long as no attempt was retried in the session                *)
DoneIsEarned == attempt = 1 => TurnIsEarned

(* A session killed or stalled with a turn open never gives an output: no   *)
(* answer or end of turn still in the pipe, no end of the child, no retry   *)
(* and no resumption completes it (session.ts 1167-1168, 1656-1685,         *)
(* 1722-1725, runner.ts 1373-1405).                                         *)
KilledTurnFails == cut => pc \notin {"read", "idle", "closing", "ok"}

(* A run that was started comes to rest unless its child keeps writing      *)
(* lines: it ends, or hands a session over whose turn is finished.  Without *)
(* a run timeout that rests on the stall timer, which every line arms anew  *)
(* (session.ts 1244-1256, 1278, 1532-1555, 1627-1649, runner.ts 1322-1440).  *)
RunRests == []<>(pc \in {"idle", "ok", "failed"}) \/ []<><<HandleEvent>>_vars

=============================================================================
