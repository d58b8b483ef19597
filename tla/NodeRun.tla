------------------------------- MODULE NodeRun --------------------------------
(***************************************************************************)
(* A node of `sp node run` (src/specialist/node-supervisor.ts): one process*)
(* that runs the node's loop, its coordinator and its members; the rows of *)
(* the node and of its members in observability.db; and the commands of    *)
(* other processes that write those rows or signal that process (cli/      *)
(* node.ts): spawn-member, complete, stop.                                 *)
(*                                                                         *)
(* A job is <<who, n>>: the n-th job of a member (its generation) or of the*)
(* coordinator.  Its row is one thing and its supervisor another: the loop *)
(* reads the row, which commands, readers and the supervisor itself write, *)
(* each whatever the others have written.                                  *)
(*                                                                         *)
(* A job may move between any two steps of the loop: those of other        *)
(* processes do, and so do the commands; for the jobs in the node's own    *)
(* process this is more than its event loop allows.  Nothing of them moves *)
(* while the loop is blocked, and nothing says that a job ever moves.      *)
(***************************************************************************)
EXTENDS Naturals, FiniteSets

CONSTANTS
    Member,       \* the members of the node's configuration
    Spawned,      \* those that `sp node spawn-member` replaces, once each
    Coordinator,  \* not a member: the holder of the coordinator's jobs
    Strategy,     \* what completion_strategy may be: "pr", "manual"
    Mute,         \* jobs for which mkfifo fails: they get no steer pipe
    OutBound,     \* results that a job of each may report
    CommandBound  \* commands, and repairs of rows of the living, in all

ASSUME NodeAssumption ==
    /\ Coordinator \notin Member /\ Spawned \subseteq Member /\ IsFiniteSet(Member)
    /\ Strategy \subseteq {"pr", "manual"} /\ CommandBound \in Nat
    /\ OutBound \in [Member \cup {Coordinator} -> Nat]

MaxRestarts == 1
Who     == Member \cup {Coordinator}
Jobs    == Who \X {1, 2}
Active  == {"starting", "running", "waiting"}
Settled == {"done", "error"}

VARIABLES
    st,      \* this.status
    row,     \* node_runs.status
    pc,      \* where run() is
    coord,   \* coordinator jobs started so far; the last is the current one
    heard,   \* coordinatorOutputHash, as the job and its result
    mem,     \* the member entries in memory
    mrow,    \* the rows of node_members
    todo,    \* members still to spawn, to report on or to clean up
    changed, \* whether the last poll found changes
    waitee,  \* the job whose end the cleanup waits for
    blocked, \* whether a write to a pipe nobody reads holds the event loop
    job,     \* the jobs' rows and results
    at,      \* where each job's supervisor is
    early,   \* jobs whose row another settled while their supervisor lived
    pipe,    \* what each job has been told
    failed,  \* jobs whose cleanup ended in a recorded error
    deaf,    \* living jobs whose SIGTERM handler has run
    cli,     \* members for which spawn-member has started a job, not the row
    kill,    \* jobs that a `sp node stop` has read and not yet signalled
    commands

loop    == <<st, pc, coord, heard, mem, todo, changed, waitee, blocked, failed>>
jobs    == <<job, at, early>>
outside == <<deaf, cli, kill, commands>>
vars    == <<loop, row, mrow, jobs, pipe, outside>>

Started(j)  == job[j].st # "none"
Running(j)  == job[j].st \in Active
AtRest(j)   == job[j].st \in Settled
Current     == <<Coordinator, coord>>
Adopted(m)  == <<m, mem[m].gen>>

(* The way of a supervisor: its session comes up, has a first turn, is     *)
(* parked between turns, is killed, and is over; or its process is gone.   *)
Places   == {"none", "spawn", "first", "turn", "parked", "killed", "over", "gone"}
Lives(j) == at[j] \in {"spawn", "first", "turn", "parked", "killed"}

(* A generation that spawn-member has started is a job of its own process. *)
Local(j)  == j[1] = Coordinator \/ j[2] = 1
CanRun(j) == Lives(j) /\ ~(blocked /\ Local(j))

Init ==
    /\ st = "starting" /\ row = "starting" /\ pc = "spawn" /\ coord = 0
    /\ heard = <<0, 0>>
    /\ mem  = [m \in Member |->
                 [gen |-> 0, seen |-> "created", out |-> <<0, 0>>, enabled |-> TRUE]]
    /\ mrow = [m \in Member |-> [gen |-> 0, st |-> "created"]]
    /\ todo = Member /\ changed = FALSE /\ waitee = <<Coordinator, 0>> /\ blocked = FALSE
    /\ job  = [j \in Jobs |-> [st |-> "none", out |-> 0]]
    /\ at   = [j \in Jobs |-> "none"] /\ early = {}
    /\ pipe = [j \in Jobs |-> "empty"]
    /\ failed = {} /\ deaf = {} /\ cli = {} /\ kill = {} /\ commands = 0

-----------------------------------------------------------------------------
(* The state machine of a node (VALID_STATE_TRANSITIONS).  The row follows *)
(* each transition; a transition that is not in the table throws, and the  *)
(* catch block of run() makes it an error.                                 *)
VALID_STATE_TRANSITIONS ==
    [starting |-> {"running", "error", "stopped"},
     running  |-> {"waiting", "degraded", "awaiting_merge", "done", "error", "stopped",
                   "failed"},
     waiting  |-> {"running", "degraded", "awaiting_merge", "done", "error", "stopped",
                   "failed"},
     degraded |-> {"running", "fixing_after_review", "failed", "error", "stopped"}]

Move(from, to) == IF to \in VALID_STATE_TRANSITIONS[from] THEN to ELSE "error"
Become(s) == st' = s /\ row' = IF s = st THEN row ELSE s

Begin(j) ==
    /\ job' = [job EXCEPT ![j].st = "starting"] /\ at' = [at EXCEPT ![j] = "spawn"]
    /\ UNCHANGED early

(* JobControl.stopJob: a close line for a job that has not settled and has *)
(* a pipe.  The write opens the pipe and is synchronous: before the session*)
(* is up, or when its process is gone, nobody reads and the loop is held.  *)
StopJob(j) ==
    LET opens == ~AtRest(j) /\ j \notin Mute
        held  == at[j] \in {"spawn", "gone"}
    IN  /\ blocked' = (opens /\ held)
        /\ pipe' = IF opens /\ ~held THEN [pipe EXCEPT ![j] = "close"] ELSE pipe

Cleanup == pc' = "cleanup" /\ todo' = Who

(* run() leaves its loop, and what the loop remembers, in state s.         *)
Leave(s) == Become(s) /\ Cleanup /\ heard' = <<0, 0>> /\ changed' = FALSE

-----------------------------------------------------------------------------
(* spawnMembers, one startJob after the other.  Provisioning a worktree    *)
(* may throw.                                                              *)
SpawnMember(m) ==
    /\ pc = "spawn" /\ m \in todo
    /\ todo' = todo \ {m}
    /\ Begin(<<m, 1>>)
    /\ mem'  = [mem EXCEPT ![m].gen = 1, ![m].seen = "starting"]
    /\ mrow' = [mrow EXCEPT ![m] = [gen |-> 1, st |-> "starting"]]
    /\ UNCHANGED <<st, row, pc, coord, heard, changed, waitee, blocked, failed, pipe, outside>>

SpawnThrows ==
    /\ pc = "spawn" /\ todo # {} /\ Leave("error")
    /\ UNCHANGED <<coord, mem, mrow, waitee, blocked, failed, jobs, pipe, outside>>

(* A supervisor that throws before it has told of its job: run() catches   *)
(* it, and startJob waits for the job's id for ever.                       *)
StartIsLost ==
    /\ pc \in {"spawn", "launch"} /\ pc' = "lost"
    /\ UNCHANGED <<st, row, coord, heard, mem, mrow, todo,
                   changed, waitee, blocked, failed, jobs, pipe, outside>>

SpawnCoordinator ==
    /\ pc = "spawn" /\ todo = {}
    /\ coord' = 1 /\ Begin(<<Coordinator, 1>>)
    /\ Become("running") /\ pc' = "poll"
    /\ UNCHANGED <<heard, mem, mrow, todo, changed, waitee, blocked, failed, pipe, outside>>

-----------------------------------------------------------------------------
(* pollMemberStatuses: a row of an older generation is passed over, one of *)
(* a newer generation is adopted with its job.                             *)
Result(j) == IF job[j].out = 0 THEN <<0, 0>> ELSE <<j[2], job[j].out>>

Seen(m) ==
    LET g == IF mrow[m].gen > mem[m].gen THEN mrow[m].gen ELSE mem[m].gen
    IN  [mem[m] EXCEPT !.gen = g, !.seen = job[<<m, g>>].st, !.out = Result(<<m, g>>)]
Polled(m) == mem[m].enabled /\ mrow[m].gen >= mem[m].gen
Differs(m) == Polled(m) /\ (Seen(m).seen # mem[m].seen \/ Seen(m).out # mem[m].out)

Poll ==
    /\ pc = "poll" /\ pc' = "report"
    /\ mem' = [m \in Member |->
                 IF ~Polled(m) THEN mem[m]
                 ELSE IF Differs(m) THEN Seen(m) ELSE [mem[m] EXCEPT !.gen = Seen(m).gen]]
    /\ todo' = {m \in Member : Differs(m)} /\ changed' = (todo' # {})
    /\ UNCHANGED <<st, row, coord, heard, mrow, waitee, blocked, failed, jobs, pipe, outside>>

(* One change: a member in error is disabled, its row is written whole from*)
(* memory, and the node is degraded or, when the members that are still    *)
(* enabled are well, running again.  Context fill is the members' own.     *)
Report(m) ==
    LET bad == mem[m].seen = "error" IN
    /\ pc = "report" /\ m \in todo /\ todo' = todo \ {m}
    /\ mem' = [mem EXCEPT ![m].enabled = ~bad]
    /\ mrow' = [mrow EXCEPT ![m] = [gen |-> mem[m].gen, st |-> mem[m].seen]]
    /\ \E critical, well \in BOOLEAN :
          /\ well => \A k \in Member : mem'[k].enabled => mem[k].seen # "error"
          /\ Become(IF bad \/ critical
                    THEN IF st \in {"running", "waiting"} THEN "degraded" ELSE st
                    ELSE IF st = "degraded" /\ well THEN "running" ELSE st)
    /\ UNCHANGED <<pc, coord, heard, changed, waitee, blocked, failed, jobs, pipe, outside>>

-----------------------------------------------------------------------------
(* The rest of an iteration looks at the coordinator and decides.          *)
Deciding == pc = "report" /\ todo = {}

(* restartCoordinator: once, after the old job was told to close and has   *)
(* settled within five seconds.                                            *)
RestartOnceMore ==
    IF coord > MaxRestarts + 1
    THEN Leave("failed") /\ UNCHANGED <<blocked, pipe>>
    ELSE /\ StopJob(Current)
         /\ pc' = IF AtRest(Current) THEN "launch" ELSE "stopping"
         /\ changed' = FALSE /\ UNCHANGED <<st, row, heard, todo>>
RestartWithoutWaiting ==
    IF coord > MaxRestarts
    THEN Leave("failed") /\ UNCHANGED <<blocked, pipe>>
    ELSE /\ StopJob(Current) /\ pc' = "launch"
         /\ changed' = FALSE /\ UNCHANGED <<st, row, heard, todo>>
RestartCoordinator ==
    IF coord > MaxRestarts
    THEN Leave("failed") /\ UNCHANGED <<blocked, pipe>>
    ELSE /\ StopJob(Current)
         /\ pc' = IF AtRest(Current) THEN "launch" ELSE "stopping"
         /\ changed' = FALSE /\ UNCHANGED <<st, row, heard, todo>>

CoordinatorFailed ==
    /\ Deciding
    /\ job[Current].st = "error" \/ (job[Current].st = "done" /\ job[Current].out = 0)
    /\ RestartCoordinator
    /\ UNCHANGED <<coord, mem, mrow, waitee, failed, jobs, outside>>

CoordinatorDone ==
    /\ Deciding /\ job[Current].st = "done" /\ job[Current].out > 0
    /\ \E s \in Strategy : Leave(Move(st, IF s = "manual" THEN "waiting" ELSE "done"))
    /\ UNCHANGED <<coord, mem, mrow, waitee, blocked, failed, jobs, pipe, outside>>

(* The coordinator goes on.  Output not seen before brings a waiting node  *)
(* back to running; if it waits it is resumed with the members' changes.   *)
News    == Result(Current) \notin {<<0, 0>>, heard}
Resumes == changed /\ job[Current].st = "waiting"
Heard ==
    LET s == IF News /\ st = "waiting" THEN "running" ELSE st
    IN  IF Resumes /\ s = "running" THEN "waiting" ELSE s
AllTerminal == Member # {} /\ \A m \in Member : mem[m].seen \in Settled

GoOn == Deciding /\ ~AtRest(Current)

(* resumeJob throws when the coordinator has no pipe; run() ends in error. *)
Throws == Resumes /\ Current \in Mute

ResumeThrows ==
    /\ GoOn /\ Throws /\ Leave("error")
    /\ UNCHANGED <<coord, mem, mrow, waitee, blocked, failed, jobs, pipe, outside>>

Resume ==
    /\ ~Throws /\ UNCHANGED blocked
    /\ pipe' = IF Resumes /\ pipe[Current] = "empty" THEN [pipe EXCEPT ![Current] = "resume"]
               ELSE pipe

MembersAreTerminal ==
    /\ GoOn /\ AllTerminal /\ Resume
    /\ Leave(Move(Heard, "done"))
    /\ UNCHANGED <<coord, mem, mrow, waitee, failed, jobs, outside>>

Sleep ==
    /\ GoOn /\ ~AllTerminal /\ Resume
    /\ Become(Heard) /\ pc' = "sleep" /\ changed' = FALSE
    /\ heard' = IF News THEN Result(Current) ELSE heard
    /\ UNCHANGED <<coord, mem, mrow, todo, waitee, failed, jobs, outside>>

(* maybeTriggerNoProgressWatchdog: two minutes without a change.           *)
WatchdogOfBusy ==
    /\ GoOn /\ ~AllTerminal /\ ~changed /\ ~News /\ job[Current].st = "running"
    /\ RestartCoordinator
    /\ UNCHANGED <<coord, mem, mrow, waitee, failed, jobs, outside>>
Watchdog ==
    /\ GoOn /\ ~AllTerminal /\ ~changed /\ ~News
    /\ RestartCoordinator
    /\ UNCHANGED <<coord, mem, mrow, waitee, failed, jobs, outside>>

Wake ==
    /\ pc = "sleep" /\ pc' = "poll"
    /\ UNCHANGED <<st, row, coord, heard, mem, mrow, todo,
                   changed, waitee, blocked, failed, jobs, pipe, outside>>

(* waitForTerminal in restartCoordinator: the old job settles in time, or  *)
(* the timeout throws and the node has failed.                             *)
StoppedInTime ==
    /\ pc = "stopping" /\ ~blocked /\ AtRest(Current) /\ pc' = "launch"
    /\ UNCHANGED <<st, row, coord, heard, mem, mrow, todo,
                   changed, waitee, blocked, failed, jobs, pipe, outside>>
StopTimesOut ==
    /\ pc = "stopping" /\ ~blocked /\ ~AtRest(Current) /\ Leave("failed")
    /\ UNCHANGED <<coord, mem, mrow, waitee, blocked, failed, jobs, pipe, outside>>

StartCoordinator ==
    /\ pc = "launch" /\ pc' = "poll"
    /\ coord' = coord + 1 /\ Begin(<<Coordinator, coord + 1>>)
    /\ Become(IF st = "degraded" THEN "running" ELSE st)
    /\ UNCHANGED <<heard, mem, mrow, todo, changed, waitee, blocked, failed, pipe, outside>>

-----------------------------------------------------------------------------
(* cleanupJobs: the coordinator first, then the members.  Each is told to  *)
(* close and is waited for; a timeout is recorded and the next one's turn. *)
JobOf(w) == IF w = Coordinator THEN Current ELSE Adopted(w)
NextInLine == IF Coordinator \in todo THEN {Coordinator} ELSE todo

CleanUp(w) ==
    /\ pc = "cleanup" /\ w \in NextInLine /\ todo' = todo \ {w}
    /\ IF JobOf(w)[2] = 0 \/ AtRest(JobOf(w))
       THEN UNCHANGED <<pc, waitee, blocked, pipe>>
       ELSE StopJob(JobOf(w)) /\ waitee' = JobOf(w) /\ pc' = "cleaning"
    /\ UNCHANGED <<st, row, coord, heard, mem, mrow, changed, failed, jobs, outside>>

WaitedUntilThrow ==
    /\ pc = "cleaning" /\ ~blocked /\ pc' = "cleanup"
    /\ failed' = IF AtRest(waitee) THEN failed ELSE failed \cup {waitee}
    /\ todo' = IF AtRest(waitee) THEN todo ELSE {}
    /\ waitee' = <<Coordinator, 0>>
    /\ UNCHANGED <<st, row, coord, heard, mem, mrow, changed, blocked, jobs, pipe, outside>>
Waited ==
    /\ pc = "cleaning" /\ ~blocked /\ pc' = "cleanup"
    /\ failed' = IF AtRest(waitee) THEN failed ELSE failed \cup {waitee}
    /\ waitee' = <<Coordinator, 0>>
    /\ UNCHANGED <<st, row, coord, heard, mem, mrow, todo, changed, blocked, jobs, pipe, outside>>

Return ==
    /\ pc = "cleanup" /\ todo = {} /\ pc' = "returned"
    /\ UNCHANGED <<st, row, coord, heard, mem, mrow, todo,
                   changed, waitee, blocked, failed, jobs, pipe, outside>>
-----------------------------------------------------------------------------
(* The jobs, as JobLifecycle has them; every one is kept alive.            *)
Put(j, s) == job' = [job EXCEPT ![j].st = s]
Go(j, p)  == at' = [at EXCEPT ![j] = p]
Word      == [spawn |-> "starting", first |-> "running", turn |-> "running",
              parked |-> "waiting"]

(* The session is up and its pipe is read: a cleanup that wrote to the pipe*)
(* of another process's job goes on.                                       *)
SessionUp(j) ==
    /\ CanRun(j) /\ at[j] = "spawn" /\ Go(j, "first")
    /\ IF blocked /\ pc = "cleaning" /\ waitee = j
       THEN blocked' = FALSE /\ pipe' = [pipe EXCEPT ![j] = "close"]
       ELSE UNCHANGED <<blocked, pipe>>
    /\ UNCHANGED <<st, pc, coord, heard, mem, todo, changed, waitee, failed,
                   row, mrow, job, early, outside>>

(* Whatever the supervisor records, it writes its own word of the status.  *)
Writes(j) ==
    /\ CanRun(j) /\ at[j] \in DOMAIN Word /\ job[j].st # Word[at[j]] /\ Put(j, Word[at[j]])
    /\ UNCHANGED <<loop, row, mrow, at, early, pipe, outside>>

TurnEnds(j) ==
    /\ CanRun(j) /\ at[j] \in {"first", "turn"} /\ Go(j, "parked")
    /\ \/ Put(j, "waiting")
       \/ /\ job[j].out < OutBound[j[1]]
          /\ job' = [job EXCEPT ![j] = [st |-> "waiting", out |-> @.out + 1]]
    /\ UNCHANGED <<loop, row, mrow, early, pipe, outside>>

TakesResume(j) ==
    /\ CanRun(j) /\ at[j] = "parked" /\ pipe[j] = "resume"
    /\ pipe' = [pipe EXCEPT ![j] = "empty"] /\ Put(j, "running") /\ Go(j, "turn")
    /\ UNCHANGED <<loop, row, mrow, early, outside>>

(* The last row of a job; then its SIGTERM handler and its pipe are removed.*)
RunOver(j, s) ==
    /\ Put(j, s) /\ Go(j, "over")
    /\ pipe' = [pipe EXCEPT ![j] = "empty"] /\ deaf' = deaf \ {j}
    /\ UNCHANGED <<loop, row, mrow, early, cli, kill, commands>>

(* A job closes on a close line or SIGTERM, or between turns on a PASS     *)
(* verdict or when its time is up.                                         *)
Closes(j) ==
    /\ CanRun(j) /\ RunOver(j, "done")
    /\ at[j] = "parked" \/ (at[j] = "turn" /\ pipe[j] = "close")

Fails(j) == CanRun(j) /\ RunOver(j, "error")

(* A turn that is silent for too long: its row first, then its session.    *)
Stall(j) ==
    /\ CanRun(j) /\ at[j] \in {"first", "turn"} /\ Put(j, "error") /\ Go(j, "killed")
    /\ UNCHANGED <<loop, row, mrow, early, pipe, outside>>

(* A reader repairs the row of a job whose process is gone, or of one whose*)
(* tmux session alone is gone.                                             *)
Repaired(j) ==
    /\ Running(j) /\ Put(j, "error")
    /\ \/ at[j] = "gone" /\ UNCHANGED <<early, commands>>
       \/ /\ Lives(j) /\ early' = early \cup {j}
          /\ commands < CommandBound /\ commands' = commands + 1
    /\ UNCHANGED <<loop, row, mrow, at, pipe, deaf, cli, kill>>

-----------------------------------------------------------------------------
(* Other processes.                                                        *)

(* spawn-member: a member whose row is terminal gets a new job, in the     *)
(* process of the command; then the row is written with its generation.    *)
SpawnBegins(m) ==
    /\ m \in Spawned \ cli /\ mrow[m].st \in Settled /\ mrow[m].gen = 1
    /\ commands < CommandBound /\ commands' = commands + 1
    /\ ~Started(<<m, 2>>) /\ Begin(<<m, 2>>) /\ cli' = cli \cup {m}
    /\ UNCHANGED <<loop, row, mrow, pipe, deaf, kill>>
SpawnWrites(m) ==
    /\ m \in cli /\ cli' = cli \ {m}
    /\ mrow' = [mrow EXCEPT ![m] = [gen |-> 2, st |-> "starting"]]
    /\ UNCHANGED <<loop, row, jobs, pipe, deaf, kill, commands>>

(* complete: the node's row is written whatever it says.                   *)
CompleteNode ==
    /\ commands < CommandBound /\ commands' = commands + 1
    /\ row' \in {"awaiting_merge", "done"}
    /\ UNCHANGED <<loop, mrow, jobs, pipe, deaf, cli, kill>>

(* SIGTERM at a supervisor's handler, which runs once: a job in its first  *)
(* turn is killed, a later one is told to close; before the session is up  *)
(* there is nothing to kill, and the signal is spent.                      *)
Handled(S) ==
    /\ at' = [j \in Jobs |-> IF j \in S /\ at[j] = "first" THEN "killed" ELSE at[j]]
    /\ pipe' = [j \in Jobs |-> IF j \in S /\ at[j] \in {"turn", "parked"} THEN "close" ELSE pipe[j]]
    /\ deaf' = deaf \cup S

(* Without any handler left the process ends, and its jobs with it.        *)
Ends(S) ==
    /\ at' = [j \in Jobs |-> IF j \in S THEN "gone" ELSE at[j]]
    /\ UNCHANGED <<pipe, deaf>>

(* The process of the node runs many supervisors; one that is blocked runs *)
(* no handler.                                                             *)
Housed == {j \in Jobs : Local(j) /\ Lives(j)}
SignalNode ==
    IF pc = "dead" \/ (pc = "returned" /\ Housed = {}) \/ (blocked /\ ~(Housed \subseteq deaf))
    THEN UNCHANGED <<pc, at, pipe, deaf>>
    ELSE IF Housed \subseteq deaf
    THEN pc' = "dead" /\ Ends(Housed)
    ELSE Handled(Housed \ deaf) /\ UNCHANGED pc

SignalJob(j) ==
    IF Local(j) THEN SignalNode
    ELSE /\ UNCHANGED pc
         /\ IF ~Lives(j) THEN UNCHANGED <<at, pipe, deaf>>
            ELSE IF j \in deaf THEN Ends({j}) ELSE Handled({j})

(* sp node stop: one signal for each member whose row is not terminal, all *)
(* but the spawned ones to the same process, and one for the coordinator,  *)
(* whose jobs are all of that process: the first stands for them.          *)
StopNode ==
    /\ commands < CommandBound /\ commands' = commands + 1 /\ kill = {} /\ coord > 0
    /\ kill' = {<<Coordinator, 1>>} \cup {<<m, mrow[m].gen>> : m \in
                   {k \in Member : mrow[k].gen > 0 /\ mrow[k].st \notin Settled \cup {"cancelled"}}}
    /\ UNCHANGED <<loop, row, mrow, jobs, pipe, deaf, cli>>
SignalNext(j) ==
    /\ j \in kill /\ (j[1] = Coordinator => kill = {j}) /\ kill' = kill \ {j}
    /\ SignalJob(j)
    /\ UNCHANGED <<st, row, coord, heard, mem, mrow, todo, changed, waitee, blocked, failed,
                   job, early, cli, commands>>

(* sp stop of one job: its row, done if the job has ever completed a turn, *)
(* then SIGTERM to its process.  A turn is logged after the row says       *)
(* waiting.                                                                *)
Verdict(j) ==
    CASE at[j] \in {"spawn", "first"} -> {"cancelled"}
      [] at[j] = "turn" -> {"done"}
      [] OTHER -> {"done", "cancelled"}
StopOneJob(j) ==
    /\ commands < CommandBound /\ commands' = commands + 1 /\ Running(j)
    /\ \E s \in Verdict(j) :
          Put(j, s) /\ early' = IF s = "done" /\ Lives(j) THEN early \cup {j} ELSE early
    /\ SignalJob(j)
    /\ UNCHANGED <<st, row, coord, heard, mem, mrow, todo, changed, waitee, blocked, failed,
                   cli, kill>>

(* sp finalize of a waiting job: a close line, and its row.                *)
FinalizeJob(j) ==
    /\ commands < CommandBound /\ commands' = commands + 1
    /\ at[j] = "parked" /\ job[j].st = "waiting"
    /\ Put(j, "done") /\ early' = early \cup {j}
    /\ pipe' = IF j \in Mute THEN pipe ELSE [pipe EXCEPT ![j] = "close"]
    /\ UNCHANGED <<loop, row, mrow, at, deaf, cli, kill>>

-----------------------------------------------------------------------------
Loop ==
    \/ \E m \in Member : SpawnMember(m) \/ Report(m)
    \/ SpawnThrows \/ StartIsLost \/ SpawnCoordinator \/ Poll
    \/ CoordinatorFailed \/ CoordinatorDone \/ ResumeThrows \/ MembersAreTerminal
    \/ Sleep \/ Watchdog \/ Wake
    \/ StoppedInTime \/ StopTimesOut \/ StartCoordinator
    \/ (\E w \in Who : CleanUp(w)) \/ Waited \/ Return

JobStep(j) ==
    \/ SessionUp(j) \/ Writes(j) \/ TurnEnds(j) \/ TakesResume(j)
    \/ Closes(j) \/ Fails(j) \/ Stall(j) \/ Repaired(j)

Command ==
    \/ \E m \in Spawned : SpawnBegins(m) \/ SpawnWrites(m)
    \/ CompleteNode \/ StopNode
    \/ \E j \in Jobs : SignalNext(j) \/ StopOneJob(j) \/ FinalizeJob(j)

Next == Loop \/ (\E j \in Jobs : JobStep(j)) \/ Command

Spec == Init /\ [][Next]_vars

(* The loop goes on while its process lives and is not blocked, and two    *)
(* minutes without progress pass, unless the coordinator is in a turn,     *)
(* where it may be waiting for a phase.  Of the jobs nothing is assumed.   *)
Busy == coord > 0 /\ job[Current].st = "running"

Fairness == WF_vars(Loop) /\ SF_vars(Watchdog /\ ~Busy)

FairSpec == Spec /\ Fairness

-----------------------------------------------------------------------------
(* Every variable has its type; the node is only ever in a state from      *)
(* which its loop has left or may go on.                                   *)
NodeTypeOK ==
    /\ st \in {"starting", "running", "waiting", "degraded", "failed", "error", "done"}
    /\ row \in {"starting", "running", "waiting", "degraded", "failed", "error", "done",
               "awaiting_merge"}
    /\ pc \in {"spawn", "poll", "report", "sleep", "stopping", "launch", "cleanup",
               "cleaning", "returned", "lost", "dead"}
    /\ coord \in 0..2 /\ heard \in (0..2) \X Nat
    /\ mem \in [Member -> [gen : 0..2, seen : Active \cup Settled \cup {"created", "cancelled"},
                          out : (0..2) \X Nat, enabled : BOOLEAN]]
    /\ mrow \in [Member -> [gen : 0..2, st : Active \cup Settled \cup {"created", "cancelled"}]]
    /\ todo \subseteq Who /\ changed \in BOOLEAN /\ waitee \in Jobs \cup {<<Coordinator, 0>>}
    /\ job \in [Jobs -> [st : Active \cup Settled \cup {"none", "cancelled"}, out : Nat]]
    /\ \A j \in Jobs : job[j].out <= OutBound[j[1]]
    /\ at \in [Jobs -> Places] /\ early \subseteq Jobs
    /\ pipe \in [Jobs -> {"empty", "resume", "close"}]
    /\ failed \subseteq Jobs /\ deaf \subseteq Jobs /\ cli \subseteq Spawned
    /\ kill \subseteq Jobs /\ commands \in 0..CommandBound
    /\ blocked \in BOOLEAN
    /\ pc \in {"poll", "report", "sleep", "stopping", "launch"}
         => st \in {"running", "waiting", "degraded"}

(* A supervisor that has ended, or is being killed; or whose row another   *)
(* settled behind its back, so that nobody who reads it can know better.   *)
Accounted(j) == at[j] \in {"killed", "over", "gone"} \/ j \in early

(* A new coordinator is started only over one that is accounted for: two   *)
(* coordinators give orders to the members of one node only if a stop or a *)
(* finalize, or a reader, settled the row of the first while it lived.     *)
OneCoordinator == Lives(<<Coordinator, 2>>) => Accounted(<<Coordinator, 1>>)

(* When run() has returned, every job its process has ever started is      *)
(* accounted for or on record as not having ended in time: a failed spawn, *)
(* a restart, a replacement, a job that cannot be told to close or another *)
(* that would not leave none behind unnoticed.                             *)
NothingLeftBehind ==
    pc = "returned" => \A j \in Jobs : Local(j) /\ Started(j) => Accounted(j) \/ j \in failed

(* run() comes to an end, or its process does, whatever fails, is stopped  *)
(* or falls silent; unless a job was never told of, a write to a pipe that *)
(* nobody reads holds the process, or the coordinator never ends its turn. *)
NodeReturns ==
    \/ <>(pc \in {"returned", "lost", "dead"})
    \/ <>[]blocked
    \/ <>[]Busy
=============================================================================
