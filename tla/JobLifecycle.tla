----------------------------- MODULE JobLifecycle -----------------------------
(***************************************************************************)
(* A job of `sp run`: the supervisor process (src/specialist/supervisor.ts)*)
(* that drives one runner, the row it keeps in observability.db, the steer *)
(* pipe, the commands that read and write the same row from other          *)
(* processes (control.ts, job-control.ts, cli/resume.ts) and the readers   *)
(* that repair the row of a dead process (status-load.ts, readStatus).     *)
(*                                                                         *)
(* Nobody guards the row: every writer replaces it whole, the supervisor   *)
(* from the snapshot in its memory (`snap`).  All jobs of the model work   *)
(* for the same specialist on the same bead, so they also compete for the  *)
(* start claim.                                                            *)
(*                                                                         *)
(* The steps of one supervisor are the callbacks of one event loop; the    *)
(* steps of different processes interleave at every database write.        *)
(***************************************************************************)
EXTENDS Naturals, Sequences

CONSTANTS
    Job,         \* job ids; every job is run by a process of its own
    KeepAlive,   \* the jobs run with --keep-alive
    Forced,      \* the jobs that skip the claim (--force-job, READ_ONLY)
    AutoClose,   \* whether waiting_auto_close_ms is set
    Op,          \* command lines that stop, finalize or resume jobs
    PipeBound,   \* lines a steer pipe may hold
    CmdBound,    \* commands the operators issue in all
    CrashBound,  \* supervisor processes killed from outside
    Misprobed    \* the jobs whose process one of the liveness probes misjudges

ASSUME JobAssumption ==
    /\ KeepAlive \subseteq Job /\ Forced \subseteq Job /\ Misprobed \subseteq Job
    /\ AutoClose \in BOOLEAN
    /\ PipeBound \in Nat /\ CmdBound \in Nat /\ CrashBound \in Nat

Active   == {"starting", "running", "waiting"}
Terminal == {"done", "error", "cancelled"}

VARIABLES
    row,       \* specialist_jobs.status, "none" before the first write
    recency,   \* updated_at_ms: <<j, k>> when that of j's row is later than that of k's
    complete,  \* run_complete events logged: of a "turn", "final", "failed"
    told,      \* notifications the parent got (--id deduplicates them)
    pc,        \* where run() of the job's supervisor is
    snap,      \* statusSnapshot.status, the supervisor's own copy
    exit,      \* what keepAliveExitPromise resolved to
    resuming,  \* resumeFn calls in flight
    closing,   \* closeFn calls in flight
    killed,    \* the session was killed
    watch,     \* the 10 s interval: "on", "closed" (its auto-close is spent), "off"
    sig,       \* SIGTERM: none seen, one "sent", or the handler has "run"
    pipe,      \* lines in steer.pipe not yet read
    reader,    \* a status reader of the job that has read an active row
    op,        \* what every operator is doing
    cmds, crashes,
    ghost      \* how a probe misjudges the job: its pid is "reused", its tmux session
               \* is gone ("notmux"), its start time is "late"; or "none"

db   == <<row, recency, complete, told>>
mem  == <<snap, exit, resuming, closing, killed, watch>>
world == <<crashes, ghost>>
vars == <<db, pc, mem, sig, pipe, reader, op, cmds, world>>

Looping == {"spawn", "turn", "ready", "nudge", "parked"}
Alive(j) == pc[j] \in Looping \cup {"written", "finish", "telling"}

(* The event loop of j is free for a callback: it is not in the            *)
(* synchronous run from the resolved exit promise to the last write.       *)
FreeUntilDisposed(j) == pc[j] \in Looping \cup {"telling"}
Free(j) == pc[j] \in Looping /\ ~(pc[j] = "parked" /\ exit[j] # "none")

(* Three probes of the same process: isPidAlive is kill(pid, 0), isJobDead  *)
(* adds the tmux session, and isProcessAlive compares the start times.      *)
PidTaken(j)   == Alive(j) \/ ghost[j] = "reused"
LooksDead(j)  == ~PidTaken(j) \/ ghost[j] = "notmux"
Identified(j) == Alive(j) /\ ghost[j] # "late"

(* onResumeReady has handed over resumeFn and closeFn.                     *)
Ready(j) == pc[j] \in {"ready", "nudge", "parked"}

Idle == [cmd |-> "none", job |-> "none", at |-> "idle", mark |-> "none", then |-> "none"]

Init ==
    /\ row = [j \in Job |-> "none"] /\ recency = {}
    /\ complete = [j \in Job |-> {}] /\ told = [j \in Job |-> {}]
    /\ pc = [j \in Job |-> "unborn"] /\ snap = [j \in Job |-> "starting"]
    /\ exit = [j \in Job |-> "none"] /\ resuming = [j \in Job |-> 0]
    /\ closing = [j \in Job |-> 0] /\ killed = [j \in Job |-> FALSE]
    /\ watch = [j \in Job |-> "on"] /\ ghost = [j \in Job |-> "none"]
    /\ sig = [j \in Job |-> "none"] /\ pipe = [j \in Job |-> <<>>]
    /\ reader = [j \in Job |-> "none"] /\ op = [o \in Op |-> Idle]
    /\ cmds = 0 /\ crashes = 0

(* writeStatusRow: the whole row, with Date.now() for updated_at_ms, which  *)
(* may be the millisecond of the latest row.                                *)
Others(j) == {k \in Job \ {j} : row[k] # "none"}
After(j, K, order)  == {p \in order : p[1] # j /\ p[2] # j} \cup {<<j, k>> : k \in K}
Outdated(j, order)  == {k \in Others(j) : \E l \in Others(j) : <<l, k>> \in order}
Stamped(j, order)   == {After(j, K, order) : K \in {Others(j), Outdated(j, order)}}
Put(j, s) == row' = [row EXCEPT ![j] = s] /\ recency' \in Stamped(j, recency)

(* setStatus: the snapshot is changed and written over the row.            *)
SetStatus(j, s) == snap' = [snap EXCEPT ![j] = s] /\ Put(j, s)

Log(j, e)  == complete' = [complete EXCEPT ![j] = @ \cup {e}]
Tell(j, s) == told' = [told EXCEPT ![j] = @ \cup {s}]
Goto(j, l) == pc' = [pc EXCEPT ![j] = l]

(* finishKeepAlive: the exit promise resolves once.                        *)
Exit(j, e) == exit' = [exit EXCEPT ![j] = IF @ = "none" THEN e ELSE @]

-----------------------------------------------------------------------------
(* Start.  The row is written as starting before the claim is made.        *)
Launch(j) ==
    /\ pc[j] = "unborn"
    /\ Put(j, "starting") /\ Goto(j, "written")
    /\ \/ UNCHANGED ghost
       \/ j \in Misprobed /\ ghost' = [ghost EXCEPT ![j] = "late"]
    /\ UNCHANGED <<complete, told, mem, sig, pipe, reader, op, cmds, crashes>>

(* findActiveJob: of the active rows of the bead one with the latest        *)
(* updated_at_ms; among equals the query always returns the same.           *)
ActiveRows == {k \in Job : row[k] \in Active}
Latest(S)  == CHOOSE h \in S : \A k \in S : <<k, h>> \notin recency
HolderButSelf(j) == IF ActiveRows \ {j} = {} THEN j ELSE Latest(ActiveRows \ {j})
Holder(j) == IF ActiveRows = {} THEN j ELSE Latest(ActiveRows)

(* The claim holds, the run_start event and the row are written, and the   *)
(* pipe is made.  A holder whose row is old and whose pid nobody has is    *)
(* cancelled first.                                                        *)
Claim(j) ==
    /\ pc[j] = "written"
    /\ \/ /\ j \in Forced \/ Holder(j) = j
          /\ Put(j, "starting")
       \/ \E h \in ActiveRows \ {j} :
             /\ j \notin Forced /\ h = Holder(j) /\ ~PidTaken(h)
             /\ row' = [row EXCEPT ![h] = "cancelled", ![j] = "starting"]
             /\ \E order \in Stamped(h, recency) : recency' \in Stamped(j, order)
    /\ Goto(j, "spawn")
    /\ UNCHANGED <<complete, told, mem, sig, pipe, reader, op, cmds, world>>

(* The claim is refused: run() throws before its try block, the row stays. *)
Refuse(j) ==
    /\ pc[j] = "written" /\ j \notin Forced /\ Holder(j) # j
    /\ Goto(j, "refused")
    /\ UNCHANGED <<db, mem, sig, pipe, reader, op, cmds, world>>

-----------------------------------------------------------------------------
(* The runner's callbacks.                                                 *)

(* session.start returned: killFn and steerFn are registered and the pipe   *)
(* has a reader.  Until then nothing can end the run but its failure.       *)
SessionUp(j) ==
    /\ pc[j] = "spawn" /\ Goto(j, "turn")
    /\ UNCHANGED <<db, mem, sig, pipe, reader, op, cmds, world>>

(* onEvent: whatever the snapshot says, an event makes it running.         *)
Event(j) ==
    /\ Free(j) /\ ~killed[j]
    /\ pc[j] \in {"spawn", "turn", "nudge"} \/ resuming[j] > 0
    /\ SetStatus(j, "running")
    /\ UNCHANGED <<complete, told, pc, exit, resuming, closing, killed, watch, sig,
                   pipe, reader, op, cmds, world>>

(* onEvent(agent_end) of a kept session.                                   *)
AgentEnd(j) ==
    /\ Free(j) /\ ~killed[j] /\ (pc[j] = "nudge" \/ resuming[j] > 0)
    /\ SetStatus(j, "waiting")
    /\ UNCHANGED <<complete, told, pc, exit, resuming, closing, killed, watch, sig,
                   pipe, reader, op, cmds, world>>

(* onResumeReady.                                                          *)
ResumeReady(j) ==
    /\ pc[j] = "turn" /\ j \in KeepAlive /\ ~killed[j]
    /\ SetStatus(j, "waiting") /\ Goto(j, "ready")
    /\ UNCHANGED <<complete, told, exit, resuming, closing, killed, watch, sig, pipe,
                   reader, op, cmds, world>>

(* runner.run resolves: the metrics are merged into the row and the turn's *)
(* run_complete is logged.  A kept session closes on a PASS verdict, is    *)
(* nudged after an empty turn, and is otherwise parked as waiting.         *)
RunnerReturns(j) ==
    /\ ~killed[j] /\ Log(j, "turn")
    /\ \/ /\ pc[j] = "turn" /\ j \notin KeepAlive
          /\ Put(j, snap[j]) /\ Goto(j, "finish") /\ UNCHANGED <<snap, closing>>
       \/ /\ pc[j] = "ready"
          /\ \/ /\ Put(j, snap[j]) /\ Goto(j, "parked")
                /\ closing' = [closing EXCEPT ![j] = @ + 1] /\ UNCHANGED snap
             \/ /\ Put(j, snap[j]) /\ Goto(j, "nudge") /\ UNCHANGED <<snap, closing>>
             \/ /\ SetStatus(j, "waiting") /\ Goto(j, "parked") /\ UNCHANGED closing
    /\ UNCHANGED <<told, exit, resuming, killed, watch, sig, pipe, reader, op, cmds, world>>

(* The nudge's resumeFn returned or threw; either way the job parks.       *)
Nudged(j) ==
    /\ pc[j] = "nudge"
    /\ SetStatus(j, "waiting") /\ Goto(j, "parked")
    /\ UNCHANGED <<complete, told, exit, resuming, closing, killed, watch, sig, pipe,
                   reader, op, cmds, world>>

(* The catch block: runner.run rejected, or the kept session ended badly.  *)
Fail(j) ==
    /\ \/ pc[j] \in {"spawn", "turn", "ready"}
       \/ pc[j] = "parked" /\ exit[j] = "fatal"
    /\ SetStatus(j, "error") /\ Log(j, "failed") /\ Goto(j, "telling")
    /\ UNCHANGED <<told, exit, resuming, closing, killed, watch, sig, pipe, reader, op,
                   cmds, world>>

(* The happy end: row, run_complete(final) and result in one transaction.  *)
Complete(j) ==
    /\ pc[j] = "finish" \/ (pc[j] = "parked" /\ exit[j] = "closed")
    /\ SetStatus(j, "done") /\ Log(j, "final") /\ Goto(j, "telling")
    /\ UNCHANGED <<told, exit, resuming, closing, killed, watch, sig, pipe, reader, op,
                   cmds, world>>

(* emitParentNotification, then the finally block and the end of the run.  *)
Notify(j) ==
    /\ pc[j] = "telling" /\ Tell(j, snap[j]) /\ Goto(j, "over")
    /\ UNCHANGED <<row, recency, complete, mem, sig, pipe, reader, op, cmds, world>>

-----------------------------------------------------------------------------
(* The pipe reader, keep-alive, the stall detector and SIGTERM.            *)

(* A resume line: ignored before onResumeReady, otherwise a turn starts    *)
(* whatever the session is doing.                                          *)
TakeResume(j) ==
    /\ Free(j) /\ pipe[j] # <<>> /\ Head(pipe[j]) = "resume"
    /\ pipe' = [pipe EXCEPT ![j] = Tail(@)]
    /\ IF Ready(j)
       THEN SetStatus(j, "running") /\ resuming' = [resuming EXCEPT ![j] = @ + 1]
       ELSE UNCHANGED <<row, recency, snap, resuming>>
    /\ UNCHANGED <<complete, told, pc, exit, closing, killed, watch, sig, reader, op,
                   cmds, world>>

(* handleResumeTurn after resumeFn: the turn is logged; a PASS verdict     *)
(* starts the close, any other output parks the job again.                 *)
ResumeReturns(j) ==
    /\ Free(j) /\ resuming[j] > 0 /\ ~killed[j]
    /\ resuming' = [resuming EXCEPT ![j] = @ - 1] /\ Log(j, "turn")
    /\ \/ SetStatus(j, "waiting") /\ UNCHANGED closing
       \/ closing' = [closing EXCEPT ![j] = @ + 1] /\ UNCHANGED <<row, recency, snap>>
    /\ UNCHANGED <<told, pc, exit, killed, watch, sig, pipe, reader, op, cmds, world>>

ResumeThrows(j) ==
    /\ Free(j) /\ resuming[j] > 0
    /\ resuming' = [resuming EXCEPT ![j] = @ - 1]
    /\ SetStatus(j, "error") /\ Exit(j, "fatal")
    /\ UNCHANGED <<complete, told, pc, closing, killed, watch, sig, pipe, reader, op,
                   cmds, world>>

(* closeKeepAliveSession, called without waiting for it.                   *)
StartClose(j) ==
    IF Ready(j) THEN closing' = [closing EXCEPT ![j] = @ + 1] /\ UNCHANGED exit
                ELSE Exit(j, "closed") /\ UNCHANGED closing

TakeCloseIfReady(j) ==
    /\ Free(j) /\ pipe[j] # <<>> /\ Head(pipe[j]) = "close"
    /\ pipe' = [pipe EXCEPT ![j] = Tail(@)]
    /\ closing' = [closing EXCEPT ![j] = @ + IF Ready(j) THEN 1 ELSE 0]
    /\ UNCHANGED <<db, pc, snap, exit, resuming, killed, watch, sig, reader, op, cmds, world>>
TakeClose(j) ==
    /\ Free(j) /\ pipe[j] # <<>> /\ Head(pipe[j]) = "close"
    /\ pipe' = [pipe EXCEPT ![j] = Tail(@)] /\ StartClose(j)
    /\ UNCHANGED <<db, pc, snap, resuming, killed, watch, sig, reader, op, cmds, world>>

CloseReturns(j) ==
    /\ Free(j) /\ closing[j] > 0
    /\ closing' = [closing EXCEPT ![j] = @ - 1] /\ Exit(j, "closed")
    /\ UNCHANGED <<db, pc, snap, resuming, killed, watch, sig, pipe, reader, op, cmds, world>>

(* closeFn rejected, or took longer than the grace of the auto-close, in   *)
(* which case the session is killed too.                                   *)
CloseThrows(j) ==
    /\ Free(j) /\ closing[j] > 0
    /\ closing' = [closing EXCEPT ![j] = @ - 1]
    /\ SetStatus(j, "error") /\ Exit(j, "fatal")
    /\ \/ UNCHANGED killed
       \/ watch[j] = "closed" /\ killed' = [killed EXCEPT ![j] = TRUE]
    /\ UNCHANGED <<complete, told, pc, resuming, watch, sig, pipe, reader, op, cmds, world>>

(* The interval: waiting_auto_close_ms passed.  It closes once.             *)
AutoCloses(j) ==
    /\ AutoClose /\ Free(j) /\ watch[j] = "on" /\ snap[j] = "waiting"
    /\ watch' = [watch EXCEPT ![j] = "closed"]
    /\ Put(j, snap[j]) /\ StartClose(j)
    /\ UNCHANGED <<complete, told, pc, snap, resuming, killed, sig, pipe, reader,
                   op, cmds, world>>

(* killFn?.(): it does nothing before the session is registered.            *)
KillSession(j) == killed' = [killed EXCEPT ![j] = @ \/ pc[j] # "spawn"]

(* The interval: running_silence_error_ms passed.  The row says error, the  *)
(* session is killed if there is one, and the interval clears itself.       *)
Stall(j) ==
    /\ Free(j) /\ watch[j] # "off" /\ snap[j] = "running"
    /\ SetStatus(j, "error") /\ KillSession(j)
    /\ watch' = [watch EXCEPT ![j] = "off"]
    /\ UNCHANGED <<complete, told, pc, exit, resuming, closing, sig, pipe, reader,
                   op, cmds, world>>

(* sigtermHandler: a kept session is closed, any other is killed.           *)
Sigterm(j) ==
    /\ Free(j) /\ sig[j] = "sent" /\ sig' = [sig EXCEPT ![j] = "run"]
    /\ IF Ready(j) THEN StartClose(j) /\ UNCHANGED killed
                   ELSE KillSession(j) /\ UNCHANGED <<closing, exit>>
    /\ UNCHANGED <<db, pc, snap, resuming, watch, pipe, reader, op, cmds, world>>

(* The process is killed from outside (SIGKILL, its tmux session).         *)
Crash(j) ==
    /\ crashes < CrashBound /\ Alive(j)
    /\ crashes' = crashes + 1 /\ Goto(j, "dead")
    /\ UNCHANGED <<db, mem, sig, pipe, reader, op, cmds, ghost>>

(* The pid of a process that is gone is given to another one, or the tmux   *)
(* session of a living one is gone.                                         *)
Misprobe(j) ==
    /\ j \in Misprobed /\ ghost[j] = "none"
    /\ \/ pc[j] \in {"refused", "over", "dead"} /\ ghost' = [ghost EXCEPT ![j] = "reused"]
       \/ Alive(j) /\ ghost' = [ghost EXCEPT ![j] = "notmux"]
    /\ UNCHANGED <<db, pc, mem, sig, pipe, reader, op, cmds, crashes>>

-----------------------------------------------------------------------------
(* Readers: `sp ps`, the console and the chat list the rows (status-load), *)
(* every command reads one (Supervisor.readStatus).                        *)
ReadRow(j) ==
    /\ reader[j] = "none" /\ row[j] \in Active
    /\ reader' = [reader EXCEPT ![j] = "list"]
    /\ UNCHANGED <<db, pc, mem, sig, pipe, op, cmds, world>>

ReadOne(j) ==
    /\ reader[j] = "none" /\ row[j] \in {"starting", "running"}
    /\ reader' = [reader EXCEPT ![j] = "one"]
    /\ UNCHANGED <<db, pc, mem, sig, pipe, op, cmds, world>>

(* The row read above is repaired: from a final run_complete if there is   *)
(* one (the list only), else as an error when the process looks dead.      *)
RepairFromAnyTurn(j) ==
    /\ reader[j] = "list" /\ complete[j] # {}
    /\ reader' = [reader EXCEPT ![j] = "none"]
    /\ Put(j, "done") /\ Tell(j, "done")
    /\ UNCHANGED <<complete, pc, mem, sig, pipe, op, cmds, world>>
Repair(j) ==
    /\ reader[j] # "none" /\ reader' = [reader EXCEPT ![j] = "none"]
    /\ \/ /\ reader[j] = "list" /\ complete[j] \cap {"final", "failed"} # {}
          /\ \E s \in {"done", "error"} :
                /\ (s = "done" /\ "final" \in complete[j])
                       \/ (s = "error" /\ "failed" \in complete[j])
                /\ Put(j, s) /\ Tell(j, s)
          /\ UNCHANGED complete
       \/ /\ LooksDead(j)
          /\ reader[j] = "one" \/ complete[j] \cap {"final", "failed"} = {}
          /\ Put(j, "error") /\ Log(j, "failed") /\ Tell(j, "error")
       \/ /\ ~LooksDead(j)
          /\ reader[j] = "one" \/ complete[j] \cap {"final", "failed"} = {}
          /\ UNCHANGED db
    /\ UNCHANGED <<pc, mem, sig, pipe, op, cmds, world>>

-----------------------------------------------------------------------------
(* Operators.  Each command first reads the row and then acts on what it   *)
(* read, with the supervisor running in between.  A read of a row whose    *)
(* process looks dead repairs it first (ReadOne, Repair).                  *)
Gone(j) == row[j] \in {"starting", "running"} /\ LooksDead(j)

At(o, l) == op' = [op EXCEPT ![o] = IF l = "idle" THEN Idle
                                    ELSE [@ EXCEPT !.at = l, !.mark = "none", !.then = "none"]]
Done(o)  == At(o, "idle")

(* updateJobStatus: the row is read, and written back whole with the new   *)
(* status; then the command goes on at l.                                  *)
Update(o, s, l) == op' = [op EXCEPT ![o] = [@ EXCEPT !.at = "update", !.mark = s, !.then = l]]

Reread(o) ==
    /\ op[o].at = "update" /\ ~Gone(op[o].job)
    /\ op' = [op EXCEPT ![o] = [@ EXCEPT !.at = "write"]]
    /\ UNCHANGED <<db, pc, mem, sig, pipe, reader, cmds, world>>

WriteStatus(o) ==
    LET j == op[o].job IN
    /\ op[o].at = "write" /\ Put(j, op[o].mark) /\ At(o, op[o].then)
    /\ IF op[o].mark = "error" THEN Tell(j, "error") ELSE UNCHANGED told
    /\ UNCHANGED <<complete, pc, mem, sig, pipe, reader, cmds, world>>

(* What the command does once it has read status s.  Before the claim the  *)
(* row names no pipe.                                                      *)
NextStep(cmd, j, s) ==
    CASE cmd = "resume"   -> IF s = "waiting" THEN "resume" ELSE "idle"
      [] cmd = "finalize" -> IF s = "waiting" THEN "finalize" ELSE "idle"
      [] cmd = "close"    -> IF s \in {"done", "error"} \/ pc[j] \in {"written", "refused"}
                             THEN "idle" ELSE "close"
      [] OTHER            -> IF s \in Terminal
                             THEN IF Identified(j) THEN "reap" ELSE "idle"
                             ELSE IF s = "waiting" THEN "finalize" ELSE "look"

Commands == {"resume", "finalize", "close", "stop", "force"}

Issue(o, cmd, j) ==
    /\ op[o].at = "idle" /\ cmds < CmdBound /\ row[j] # "none" /\ ~Gone(j)
    /\ NextStep(cmd, j, row[j]) # "idle"
    /\ op' = [op EXCEPT ![o] = [Idle EXCEPT !.cmd = cmd, !.job = j,
                                            !.at = NextStep(cmd, j, row[j])]]
    /\ cmds' = cmds + 1
    /\ UNCHANGED <<db, pc, mem, sig, pipe, reader, world>>

(* One line into the pipe.  Opening a pipe that nobody reads, because the  *)
(* session is not up yet or the supervisor was killed, blocks the writer.  *)
Send(j, line) ==
    /\ pc[j] \notin {"spawn", "dead"}
    /\ IF pc[j] \in Looping /\ Len(pipe[j]) < PipeBound
       THEN pipe' = [pipe EXCEPT ![j] = Append(@, line)] ELSE UNCHANGED pipe

(* resume and JobControl.stopJob.                                          *)
WritePipe(o) ==
    /\ op[o].at \in {"resume", "close"}
    /\ Send(op[o].job, op[o].at) /\ Done(o)
    /\ UNCHANGED <<db, pc, mem, sig, reader, cmds, world>>

(* finalizeWaitingJob: reads the row again, writes the pipe, then the row. *)
FinalizeWaiting(o) ==
    LET j    == op[o].job
        next == IF op[o].cmd = "finalize" THEN "idle" ELSE "look" IN
    /\ \/ /\ op[o].at = "finalize" /\ ~Gone(j) /\ UNCHANGED pipe
          /\ At(o, IF row[j] = "waiting" THEN "line" ELSE next)
       \/ /\ op[o].at = "line" /\ Send(j, "close") /\ Update(o, "done", next)
    /\ UNCHANGED <<db, pc, mem, sig, reader, cmds, world>>

(* stopJob: the status to leave is taken from the run_complete events.     *)
LookUndecided(o) ==
    /\ op[o].at = "look" /\ Update(o, "none", "signal")
    /\ UNCHANGED <<db, pc, mem, sig, pipe, reader, cmds, world>>
Look(o) ==
    LET j == op[o].job IN
    /\ op[o].at = "look"
    /\ IF op[o].cmd = "force" /\ ~Identified(j)
       THEN Update(o, "error", "slay")
       ELSE Update(o, IF complete[j] # {} THEN "done" ELSE "cancelled", "signal")
    /\ UNCHANGED <<db, pc, mem, sig, pipe, reader, cmds, world>>

(* SIGTERM to j: before run() installs its handler, and after the handler  *)
(* has run once, it ends the process.                                      *)
Signal(j) ==
    IF pc[j] = "written" \/ sig[j] = "run"
    THEN Goto(j, "dead") /\ UNCHANGED sig
    ELSE sig' = [sig EXCEPT ![j] = "sent"] /\ UNCHANGED pc

(* The signal goes to whoever has the pid.                                 *)
SendSigterm(o) ==
    LET j == op[o].job IN
    /\ op[o].at = "signal"
    /\ IF Alive(j) THEN Signal(j) ELSE UNCHANGED <<pc, sig>>
    /\ IF op[o].cmd # "force" THEN At(o, "slay")
       ELSE IF PidTaken(j) THEN At(o, "kill") ELSE Update(o, "error", "slay")
    /\ UNCHANGED <<db, mem, pipe, reader, cmds, world>>

(* --force: the pid is still taken after five seconds, or given up.        *)
ForceKill(o) ==
    /\ op[o].at = "kill"
    /\ \/ PidTaken(op[o].job) /\ Update(o, "error", "slay")
       \/ ~Alive(op[o].job) /\ Done(o)
    /\ UNCHANGED <<db, pc, mem, sig, pipe, reader, cmds, world>>

(* SIGKILL to the process group, or the end of the tmux session: it reaches *)
(* the supervisor if that leads its group or lives in the session.          *)
Slay(o) ==
    LET j == op[o].job IN
    /\ op[o].at = "slay" /\ Done(o)
    /\ UNCHANGED pc \/ (Alive(j) /\ Goto(j, "dead"))
    /\ UNCHANGED <<db, mem, sig, pipe, reader, cmds, world>>

(* The row was terminal and the process alive: SIGTERM to its group first. *)
Reap(o) ==
    LET j == op[o].job IN
    /\ op[o].at = "reap" /\ At(o, "slay")
    /\ UNCHANGED <<pc, sig>> \/ (Alive(j) /\ Signal(j))
    /\ UNCHANGED <<db, mem, pipe, reader, cmds, world>>

-----------------------------------------------------------------------------
Process(j) ==
    \/ Launch(j) \/ Claim(j) \/ Refuse(j) \/ SessionUp(j) \/ Event(j) \/ AgentEnd(j)
    \/ ResumeReady(j) \/ RunnerReturns(j) \/ Nudged(j) \/ Fail(j)
    \/ Complete(j) \/ Notify(j) \/ TakeResume(j) \/ ResumeReturns(j)
    \/ ResumeThrows(j) \/ TakeClose(j) \/ CloseReturns(j) \/ CloseThrows(j)
    \/ AutoCloses(j) \/ Stall(j) \/ Sigterm(j)

Operator(o) ==
    \/ \E cmd \in Commands, j \in Job : Issue(o, cmd, j)
    \/ WritePipe(o) \/ FinalizeWaiting(o) \/ Look(o) \/ Reread(o) \/ WriteStatus(o)
    \/ SendSigterm(o) \/ ForceKill(o) \/ Slay(o) \/ Reap(o)

Next ==
    \/ \E j \in Job : \/ Process(j) \/ Crash(j) \/ Misprobe(j)
                      \/ ReadRow(j) \/ ReadOne(j) \/ Repair(j)
    \/ \E o \in Op : Operator(o)

Spec == Init /\ [][Next]_vars

(* A session starts or fails to, a turn ends (the runner bounds both),      *)
(* closeFn settles, and the event loop reads its pipe and runs to the end   *)
(* of run().  Nothing is assumed of readers and operators.                  *)
Progress(j) ==
    /\ WF_vars(Claim(j) \/ Refuse(j))
    /\ WF_vars(SessionUp(j) \/ ResumeReady(j) \/ RunnerReturns(j) \/ Fail(j))
    /\ WF_vars(Nudged(j) \/ Complete(j))
    /\ WF_vars(Notify(j))
    /\ WF_vars(TakeResume(j) \/ TakeClose(j))
    /\ WF_vars(CloseReturns(j) \/ CloseThrows(j))

FairSpec == Spec /\ \A j \in Job : Progress(j)

-----------------------------------------------------------------------------
Places == {"unborn", "written", "refused", "finish", "telling", "over", "dead"} \cup Looping

(* Every variable has its type, a steer pipe never holds more than its      *)
(* bound, and no write, of a stop least of all, leaves a row without a      *)
(* status: it has one from its first write on.                              *)
JobTypeOK ==
    /\ row \in [Job -> Active \cup Terminal \cup {"none"}] /\ recency \subseteq Job \X Job
    /\ complete \in [Job -> SUBSET {"turn", "final", "failed"}]
    /\ told \in [Job -> SUBSET {"done", "error"}]
    /\ pc \in [Job -> Places] /\ snap \in [Job -> Active \cup Terminal]
    /\ exit \in [Job -> {"none", "closed", "fatal"}]
    /\ resuming \in [Job -> Nat] /\ closing \in [Job -> Nat]
    /\ killed \in [Job -> BOOLEAN] /\ watch \in [Job -> {"on", "closed", "off"}]
    /\ sig \in [Job -> {"none", "sent", "run"}]
    /\ \A j \in Job : pipe[j] \in Seq({"resume", "close"}) /\ Len(pipe[j]) <= PipeBound
    /\ reader \in [Job -> {"none", "list", "one"}]
    /\ ghost \in [Job -> {"none", "reused", "notmux", "late"}]
    /\ \A j \in Job : pc[j] = "unborn" <=> row[j] = "none"

(* Once a run has written its end, or its process is gone, its row never   *)
(* goes from terminal to active: no late whole-row write of a callback, of *)
(* a command or of a reader brings back a job whose supervisor has finished*)
(* or was killed.                                                          *)
SettledStays ==
    [][\A j \in Job : (pc[j] = "telling" \/ ~Alive(j)) /\ row[j] \in Terminal
                         => row'[j] \in Terminal]_vars

(* The parent is told done only of a job whose run has logged its final    *)
(* run_complete: neither a finalize nor a stop that writes done into the   *)
(* row of a session still closing makes the parent fetch a result.         *)
DoneIsFinal == \A j \in Job : "done" \in told[j] => "final" \in complete[j]

(* A close line in the pipe of a living supervisor ends its run: not even  *)
(* a close read before the session exists, or behind two resumes, is lost. *)
CloseEnds ==
    \A j \in Job :
       (pc[j] \in Looping /\ \E i \in 1..Len(pipe[j]) : pipe[j][i] = "close") ~> ~Alive(j)

(* Starts that compete for a bead do not all give up: when one has been     *)
(* refused there is another that was not.  Each writes its row before it    *)
(* claims, so each is an active job to all the others (rows written in the  *)
(* same millisecond too); the one the query puts first sees itself.  Two    *)
(* exceptions: a start whose row was ended before it claimed, by a command  *)
(* or by a reader that missed its tmux session, finds the row of a start it *)
(* has beaten.                                                             *)
StartHasAWinner ==
    (\E j \in Job : pc[j] = "refused") /\ cmds = 0 /\ (\A j \in Job : ghost[j] # "notmux")
        => \E j \in Job : pc[j] \notin {"unborn", "refused"}
=============================================================================
