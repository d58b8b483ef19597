---------------------------- MODULE EpicLifecycle ----------------------------
(***************************************************************************)
(* One epic: the row of epic_runs and the chain memberships that           *)
(* supervisors, `sp ps`, `sp epic sync`, `sp epic abandon`, `sp epic merge`*)
(* and `sp merge` keep about its jobs (src/specialist/epic-readiness.ts,   *)
(* epic-reconciler.ts, epic-lifecycle.ts, supervisor.ts writeStatusFile,   *)
(* src/cli/epic.ts, src/cli/merge.ts, src/cli/ps.ts).                      *)
(*                                                                         *)
(* Every writer replaces the epic row without looking at what it replaces; *)
(* only sync and abandon take the advisory lock, and only against each     *)
(* other.  A step below is one database call of one process, or reads that *)
(* follow each other at once (LoadChains, SyncFinds, AbandonLooks and      *)
(* GatherReads), so a state derived from the rows may be old when it is    *)
(* written, and its parts may never have held together.                    *)
(***************************************************************************)
EXTENDS Naturals, Sequences, FiniteSets

CONSTANTS
    Chain,       \* the chains of the epic, by the bead at their root
    Job,         \* the jobs that work for the epic; each starts at most once
    ChainOf,     \* the chain of a job, or Prep
    Prep,        \* the "chain" of the jobs that prepare the epic
    Reviewer,    \* the jobs whose specialist is the reviewer
    Earlier,     \* jobs that passed review before, in the order they started
    Orphaned,    \* chains with a membership row from before but no jobs left
    Cmd,         \* command lines, one command each
    Kinds,       \* the commands they may be
    Viewer,      \* processes that show the epic with `sp ps`
    CrashBound   \* processes killed from outside

ASSUME EpicAssumption ==
    /\ Prep \notin Chain
    /\ ChainOf \in [Job -> Chain \cup {Prep}]
    /\ Reviewer \subseteq Job /\ Orphaned \subseteq Chain
    /\ Cmd \cap (Job \cup Viewer) = {} /\ Job \cap Viewer = {}
    /\ \A i \in 1..Len(Earlier) : Earlier[i] \in Reviewer /\ ChainOf[Earlier[i]] \in Chain
    /\ Kinds \subseteq {"sync", "abandon", "force", "merge", "pr", "chain"}
    /\ CrashBound \in Nat

EpicState == {"open", "resolving", "merge_ready", "merged", "failed", "abandoned"}

(* VALID_EPIC_TRANSITIONS                                                  *)
CanTransition(from, to) ==
    to \in CASE from = "open"        -> {"resolving", "abandoned"}
             [] from = "resolving"   -> {"merge_ready", "failed", "abandoned"}
             [] from = "merge_ready" -> {"merged", "failed", "abandoned", "resolving"}
             [] from = "failed"      -> {"abandoned"}
             [] OTHER                -> {}

Final == {"merged", "abandoned"}

VARIABLES
    epic,       \* status of the row, "none" without a row
    redirect,   \* the row's status_json carries redirect markers
    members,    \* epic_chain_membership
    job,        \* status of every job's row
    verdict,    \* what the result of a reviewer says
    started,    \* the jobs in the order they started
    live,       \* the jobs whose process is alive
    at,         \* where every supervisor, command and viewer is
    view,       \* the readiness summary it loads
    cmd,        \* what a command has read and has left to do
    lock,       \* who holds the advisory lock file
    published,  \* chains merged into the main branch (git)
    crashes

row  == <<epic, redirect, members>>
jobs == <<job, verdict, started, live>>
vars == <<row, jobs, at, view, cmd, lock, published, crashes>>

Actor  == Job \cup Cmd \cup Viewer
NoView == [rows |-> [j \in Job |-> "none"], persisted |-> "open", ready |-> "blocked"]
NoCmd  == [kind |-> "none", old |-> "none", marked |-> FALSE, dead |-> {}, chains |-> {},
           cur |-> "open", targets |-> {}, todo |-> {}, last |-> {}]

Goto(a, l) == at' = [at EXCEPT ![a] = l]
Over(p) == Goto(p, "over") /\ cmd' = [cmd EXCEPT ![p] = NoCmd]

(* upsertEpicRun: whatever the row says, and its status_json with it.      *)
PutEpic(s) == epic' = s /\ redirect' = FALSE

-----------------------------------------------------------------------------
(* Readiness, as loadEpicReadinessSummary derives it.                      *)

(* From the job rows that were listed and the memberships and results that *)
(* are read after them.                                                    *)
ActiveJob(j) == job[j] = "active"
InChain(rows, c, j) == rows[j] # "none" /\ ChainOf[j] = c
ChainJobs(rows, c) == SelectSeq(started, LAMBDA j : InChain(rows, c, j))
Known(rows) == members \cup {c \in Chain : \E j \in Job : InChain(rows, c, j)}

(* The verdicts of a chain: a reviewer that is done and said something.    *)
Reviews(rows, c) == SelectSeq(ChainJobs(rows, c), LAMBDA j :
                        j \in Reviewer /\ rows[j] = "done" /\ verdict[j] # "missing")
Latest(rows, c) == Reviews(rows, c)[Len(Reviews(rows, c))]
Before(j, k) == \E m, n \in 1..Len(started) : m < n /\ started[m] = j /\ started[n] = k
Reworked(rows, c) == \E k \in Job : /\ InChain(rows, c, k) /\ Before(Latest(rows, c), k)
                                    /\ rows[k] \in {"done", "error"}

ChainReadiness(rows, c) ==
    LET Open == {j \in Job : InChain(rows, c, j) /\ rows[j] = "active"} IN
    IF ~(Open \subseteq live) THEN "failed"
    ELSE IF Open # {} THEN "pending"
    ELSE IF Reviews(rows, c) = <<>> THEN "blocked"
    ELSE IF verdict[Latest(rows, c)] = "pass" THEN "pass"
    ELSE IF Reworked(rows, c) THEN "blocked" ELSE "failed"

PrepIs(rows, s) == \E j \in Job : ChainOf[j] = Prep /\ rows[j] = s
ChainIs(rows, s) == \E c \in Known(rows) : ChainReadiness(rows, c) = s

Readiness(rows) ==
    IF PrepIs(rows, "active") \/ ChainIs(rows, "pending") THEN "resolving"
    ELSE IF PrepIs(rows, "error") \/ ChainIs(rows, "failed") THEN "failed"
    ELSE IF ChainIs(rows, "blocked") THEN "blocked" ELSE "merge_ready"

(* deriveEpicNextState                                                     *)
NextStateSticky(persisted, ready) ==
    IF persisted \in Final \cup {"failed"} THEN persisted
    ELSE IF ready \in {"merge_ready", "failed"} THEN ready ELSE "resolving"
NextStateOfAny(persisted, ready) ==
    IF ready \in {"merge_ready", "failed"} THEN ready ELSE "resolving"
NextStateRaw(persisted, ready) == IF persisted \in Final THEN persisted ELSE ready
NextState(persisted, ready) ==
    IF persisted \in Final THEN persisted
    ELSE IF ready \in {"merge_ready", "failed"} THEN ready ELSE "resolving"

(* The epic starts from nothing or from what earlier jobs and versions     *)
(* left: a failed row with redirect markers, chains merged on their own.   *)
Past == {Earlier[i] : i \in 1..Len(Earlier)}
Init ==
    /\ job = [j \in Job |-> IF j \in Past THEN "done" ELSE "none"]
    /\ verdict = [j \in Job |-> IF j \in Past THEN "pass" ELSE "missing"]
    /\ started = Earlier /\ live = {}
    /\ members = Orphaned \cup {ChainOf[j] : j \in Past}
    /\ IF members = {} THEN epic = "none" /\ redirect = FALSE
       ELSE \/ epic = NextState("open", Readiness(job)) /\ redirect = FALSE
            \/ epic = "failed" /\ redirect = TRUE
    /\ at = [a \in Actor |-> IF a \in Past THEN "over" ELSE "idle"]
    /\ view = [a \in Actor |-> NoView] /\ cmd = [p \in Cmd |-> NoCmd]
    /\ published \in SUBSET {ChainOf[j] : j \in Past}
    /\ lock = "free" /\ crashes = 0

(* loadEpicReadinessSummary: the job rows are listed, then the row of the  *)
(* epic is read, then the memberships and the results.                     *)
LoadJobs(a) ==
    /\ at[a] = "load" /\ view' = [view EXCEPT ![a].rows = job] /\ Goto(a, "seen")
    /\ UNCHANGED <<row, jobs, cmd, lock, published, crashes>>

LoadRow(a) ==
    /\ at[a] = "seen" /\ Goto(a, "derive")
    /\ view' = [view EXCEPT ![a].persisted = IF epic = "none" THEN "open" ELSE epic]
    /\ UNCHANGED <<row, jobs, cmd, lock, published, crashes>>

LoadChains(a) ==
    /\ at[a] = "derive" /\ Goto(a, "sync")
    /\ view' = [view EXCEPT ![a].ready = Readiness(view[a].rows), ![a].rows = NoView.rows]
    /\ UNCHANGED <<row, jobs, cmd, lock, published, crashes>>

Loads(a) == LoadJobs(a) \/ LoadRow(a) \/ LoadChains(a)

(* syncEpicStateFromReadiness: the state derived when the summary was      *)
(* loaded is written if it changes what the summary had read.              *)
WriteReadiness(a) ==
    LET s == NextState(view[a].persisted, view[a].ready) IN
    /\ IF s # view[a].persisted \/ epic = "none" THEN PutEpic(s)
       ELSE UNCHANGED <<epic, redirect>>
    /\ view' = [view EXCEPT ![a] = NoView]

-----------------------------------------------------------------------------
(* The supervisor of a job: writeStatusFile after every change.            *)

(* The first row of a job.                                                 *)
Start(j) ==
    /\ at[j] = "idle" /\ job[j] = "none"
    /\ job' = [job EXCEPT ![j] = "active"]
    /\ started' = Append(started, j) /\ live' = live \cup {j}
    /\ Goto(j, IF ChainOf[j] = Prep THEN "on" ELSE "written")
    /\ UNCHANGED <<row, verdict, view, cmd, lock, published, crashes>>

(* Any later setStatus of the running job of a chain.                      *)
Touch(j) ==
    /\ at[j] = "on" /\ ChainOf[j] # Prep /\ Goto(j, "written")
    /\ UNCHANGED <<row, jobs, view, cmd, lock, published, crashes>>

(* The status is in; the epic row is opened, whatever it says, ...         *)
Reopen(j) ==
    /\ at[j] = "written" /\ PutEpic("open") /\ Goto(j, "opened")
    /\ UNCHANGED <<members, jobs, view, cmd, lock, published, crashes>>

(* ... and then the chain becomes a member.                                *)
Join(j) ==
    /\ at[j] = "opened" /\ members' = members \cup {ChainOf[j]} /\ Goto(j, "load")
    /\ UNCHANGED <<epic, redirect, jobs, view, cmd, lock, published, crashes>>

SyncAfterJoin(j) ==
    /\ at[j] = "sync" /\ WriteReadiness(j)
    /\ Goto(j, IF ActiveJob(j) THEN "on" ELSE "over")
    /\ UNCHANGED <<members, jobs, cmd, lock, published, crashes>>

(* The end of a job is written with its run_complete event, by a call that *)
(* does not look at the epic.                                              *)
Finish(j) ==
    /\ at[j] = "on" /\ live' = live \ {j} /\ Goto(j, "over")
    /\ \E s \in {"done", "error"}, v \in {"missing", "pass", "fail"} :
          /\ v # "missing" => j \in Reviewer /\ s = "done"
          /\ job' = [job EXCEPT ![j] = s] /\ verdict' = [verdict EXCEPT ![j] = v]
    /\ UNCHANGED <<row, started, view, cmd, lock, published, crashes>>

(* `sp stop`: its status write does look at the epic, as writeStatusFile.  *)
Cancel(j) ==
    /\ at[j] = "on" /\ job' = [job EXCEPT ![j] = "cancelled"] /\ live' = live \ {j}
    /\ Goto(j, IF ChainOf[j] = Prep THEN "over" ELSE "written")
    /\ UNCHANGED <<row, verdict, started, view, cmd, lock, published, crashes>>

(* A supervisor or a command dies; its lock file stays.                    *)
Crash(a) ==
    /\ crashes < CrashBound /\ at[a] \notin {"idle", "over", "dead"}
    /\ a \in Job \cup Cmd
    /\ crashes' = crashes + 1 /\ Goto(a, "dead")
    /\ live' = live \ {a} /\ view' = [view EXCEPT ![a] = NoView]
    /\ cmd' = [p \in Cmd |-> IF p = a THEN NoCmd ELSE cmd[p]]
    /\ UNCHANGED <<row, job, verdict, started, lock, published>>

-----------------------------------------------------------------------------
(* `sp ps`: the list repairs the rows of dead jobs, then the epic is       *)
(* derived and synced, without the lock.                                   *)
Orphans == {j \in Job : ActiveJob(j) /\ j \notin live}
MarkError(dead) == job' = [j \in Job |-> IF j \in dead THEN "error" ELSE job[j]]

Look(v) ==
    /\ at[v] = "idle" /\ started # <<>> /\ MarkError(Orphans) /\ Goto(v, "load")
    /\ UNCHANGED <<row, verdict, started, live, view, cmd, lock, published, crashes>>

LookSyncs(v) ==
    /\ at[v] = "sync" /\ WriteReadiness(v) /\ Goto(v, "idle")
    /\ UNCHANGED <<members, jobs, cmd, lock, published, crashes>>

-----------------------------------------------------------------------------
(* The advisory lock of sync and abandon.                                  *)
Lock(p, kind) ==
    /\ at[p] = "idle" /\ kind \in Kinds \cap {"sync", "abandon", "force"}
    /\ IF lock = "free"
       THEN lock' = p /\ Goto(p, "read") /\ cmd' = [cmd EXCEPT ![p].kind = kind]
       ELSE Over(p) /\ UNCHANGED lock
    /\ UNCHANGED <<row, jobs, view, published, crashes>>

Unlock(p) ==
    /\ at[p] = "unlock" /\ lock' = "free" /\ Over(p)
    /\ UNCHANGED <<row, jobs, view, published, crashes>>

(* abandonEpic: the row is read, then the members and their processes,     *)
(* then the row is written.                                                *)
AbandonReads(p) ==
    /\ at[p] = "read" /\ cmd[p].kind \in {"abandon", "force"}
    /\ Goto(p, IF epic \in Final THEN "unlock" ELSE "members")
    /\ cmd' = [cmd EXCEPT ![p].marked = redirect]
    /\ UNCHANGED <<row, jobs, view, lock, published, crashes>>

AbandonLooks(p) ==
    /\ at[p] = "members"
    /\ Goto(p, IF cmd[p].kind = "abandon" /\ \E j \in live : ActiveJob(j)
               THEN "unlock" ELSE "abandon")
    /\ UNCHANGED <<row, jobs, view, cmd, lock, published, crashes>>

AbandonWrites(p) ==
    /\ at[p] = "abandon" /\ epic' = "abandoned" /\ redirect' = cmd[p].marked
    /\ Goto(p, "unlock")
    /\ UNCHANGED <<members, jobs, view, cmd, lock, published, crashes>>

(* syncEpicState(apply), called by sync under the lock and by a merge      *)
(* without it: the drift is read first and repaired call by call.          *)
Syncs == {"sync", "merge", "pr", "chain"}

SyncReads(p) ==
    /\ at[p] = "read" /\ cmd[p].kind \in Syncs
    /\ cmd' = [cmd EXCEPT ![p].marked = redirect, ![p].old = epic]
    /\ Goto(p, "scan")
    /\ UNCHANGED <<row, jobs, view, lock, published, crashes>>

(* The rows of the jobs, of which those active are probed below.           *)
SyncScans(p) ==
    /\ at[p] = "scan" /\ Goto(p, "drift")
    /\ cmd' = [cmd EXCEPT ![p].dead = {j \in Job : ActiveJob(j)}]
    /\ UNCHANGED <<row, jobs, view, lock, published, crashes>>

SyncFinds(p) ==
    /\ at[p] = "drift" /\ Goto(p, "repair")
    /\ cmd' = [cmd EXCEPT ![p].dead = @ \ live,
                          ![p].chains = {c \in members : ChainJobs(job, c) = <<>>}]
    /\ UNCHANGED <<row, jobs, view, lock, published, crashes>>

(* markDeadJobsAsError, row by row, and then the stale members at once.    *)
SyncMarks(p, j) ==
    /\ at[p] = "repair" /\ j \in cmd[p].dead
    /\ cmd' = [cmd EXCEPT ![p].dead = @ \ {j}] /\ MarkError({j})
    /\ UNCHANGED <<row, verdict, started, live, at, view, lock, published, crashes>>

SyncPrunes(p) ==
    /\ at[p] = "repair" /\ cmd[p].dead = {}
    /\ members' = members \ cmd[p].chains
    /\ Goto(p, "load") /\ cmd' = [cmd EXCEPT ![p].chains = {}]
    /\ UNCHANGED <<epic, redirect, jobs, view, lock, published, crashes>>

(* The end of syncEpicState: what it had read is forgotten.                *)
SyncReturns(p) ==
    /\ Goto(p, IF cmd[p].kind = "sync" THEN "unlock" ELSE "publish")
    /\ cmd' = [cmd EXCEPT ![p].old = "none", ![p].marked = FALSE]

SyncWrites(p) ==
    /\ at[p] = "sync" /\ p \in Cmd /\ WriteReadiness(p)
    /\ IF cmd[p].old # "none" /\ cmd[p].marked
       THEN Goto(p, "clear") /\ UNCHANGED cmd
       ELSE SyncReturns(p)
    /\ UNCHANGED <<members, jobs, lock, published, crashes>>

(* The record read first is written back without its redirect markers.     *)
SyncClears(p) ==
    /\ at[p] = "clear" /\ PutEpic(cmd[p].old) /\ SyncReturns(p)
    /\ UNCHANGED <<members, jobs, view, lock, published, crashes>>

-----------------------------------------------------------------------------
(* `sp epic merge` (directly or as a pull request) and `sp merge` of one   *)
(* chain or of an epic.  None of them takes the lock.                      *)

Newest(c) == ChainJobs(job, c)[Len(ChainJobs(job, c))]
Busy(c) == \E j \in Job : InChain(job, c, j) /\ ActiveJob(j)

(* gatherEpicContext reads the row and the members; only a final state     *)
(* stops an epic merge, and none stops `sp merge` of the epic.             *)
GatherReads(p, kind) ==
    /\ at[p] = "idle" /\ kind \in Kinds \cap {"merge", "pr", "chain"}
    /\ kind # "chain" => epic \notin Final
    /\ cmd' = [cmd EXCEPT ![p].kind = kind, ![p].chains = members,
                  ![p].cur = IF kind = "chain" \/ epic = "none" THEN "open" ELSE epic]
    /\ Goto(p, "gather")
    /\ UNCHANGED <<row, jobs, view, lock, published, crashes>>

(* The newest job of every member (or child bead) is the target and has to *)
(* be terminal; an epic merge also refuses any running job of a member.    *)
Targets(p) == {c \in (IF cmd[p].chains = {} THEN Chain ELSE cmd[p].chains) :
                  ChainJobs(job, c) # <<>>}
Mergeable(p) ==
    /\ Targets(p) # {} /\ \A c \in Targets(p) : ~ActiveJob(Newest(c))
    /\ cmd[p].kind # "chain" => \A c \in cmd[p].chains : ~Busy(c)

Gather(p) ==
    /\ at[p] = "gather"
    /\ IF Mergeable(p)
       THEN /\ cmd' = [cmd EXCEPT ![p].chains = {}, ![p].targets = Targets(p),
                                  ![p].todo = Targets(p)]
            /\ Goto(p, "publish")
       ELSE Over(p)
    /\ UNCHANGED <<row, jobs, view, lock, published, crashes>>

(* resolveMergeTargets of a chain: its epic is found by membership or by   *)
(* the parent bead, and while that is unresolved the readiness of the chain *)
(* is derived and has to be pass.                                          *)
GatherChain(p, c) ==
    /\ at[p] = "idle" /\ "chain" \in Kinds /\ ChainJobs(job, c) # <<>> /\ ~ActiveJob(Newest(c))
    /\ cmd' = [cmd EXCEPT ![p].kind = "chain", ![p].targets = {c}, ![p].todo = {c}]
    /\ Goto(p, "guard")
    /\ UNCHANGED <<row, jobs, view, lock, published, crashes>>

GuardReads(p) ==
    /\ at[p] = "guard"
    /\ Goto(p, IF epic \in Final \cup {"failed", "none"} THEN "publish" ELSE "weigh")
    /\ UNCHANGED <<row, jobs, view, cmd, lock, published, crashes>>

GuardLoads(p) ==
    /\ at[p] = "weigh" /\ view' = [view EXCEPT ![p].rows = job] /\ Goto(p, "judge")
    /\ UNCHANGED <<row, jobs, cmd, lock, published, crashes>>

GuardJudges(p) ==
    /\ at[p] = "judge" /\ view' = [view EXCEPT ![p] = NoView]
    /\ IF \A c \in cmd[p].targets : ChainReadiness(view[p].rows, c) = "pass"
       THEN Goto(p, "publish") /\ UNCHANGED cmd
       ELSE Over(p)
    /\ UNCHANGED <<row, jobs, lock, published, crashes>>

Forget(p, c) == cmd' = [cmd EXCEPT ![p].todo = @ \ {c}]

(* A branch that is in already is skipped, any other is rebased and        *)
(* merged, into the publication branch if it is for a pull request.        *)
PublishSkipsAny(p, c) ==
    /\ at[p] = "publish" /\ c \in cmd[p].todo /\ Forget(p, c)
    /\ UNCHANGED <<row, jobs, at, view, lock, published, crashes>>
PublishSkips(p, c) ==
    /\ at[p] = "publish" /\ c \in cmd[p].todo \cap published
    /\ Forget(p, c)
    /\ UNCHANGED <<row, jobs, at, view, lock, published, crashes>>

Publish(p, c) ==
    /\ at[p] = "publish" /\ c \in cmd[p].todo \ published
    /\ cmd' = [cmd EXCEPT ![p].todo = @ \ {c}, ![p].last = {c}] /\ Goto(p, "gate")
    /\ published' = IF cmd[p].kind = "pr" THEN published ELSE published \cup {c}
    /\ UNCHANGED <<row, jobs, view, lock, crashes>>

(* The catch block: the new state follows from the state gathered before   *)
(* the merges, and it throws itself where failed is not a transition.      *)
Catch(p) ==
    /\ Over(p)
    /\ IF cmd[p].kind # "chain" /\ CanTransition(cmd[p].cur, "failed")
       THEN PutEpic("failed") ELSE UNCHANGED <<epic, redirect>>
    /\ UNCHANGED <<members, jobs, view, lock, published, crashes>>

(* Rebase, merge, rebuild or the pull request fails.                       *)
PublishFails(p) == at[p] = "publish" /\ Catch(p)

(* The TypeScript gate; the epic is synced after every member that passes. *)
GateFails(p)  == at[p] = "gate" /\ Catch(p)
GatePasses(p) ==
    /\ at[p] = "gate" /\ cmd' = [cmd EXCEPT ![p].last = {}]
    /\ Goto(p, IF cmd[p].last \subseteq members THEN "read" ELSE "publish")
    /\ UNCHANGED <<row, jobs, view, lock, published, crashes>>

(* All is published.  A pull request leaves the state that was gathered; a *)
(* merge records merged, or runs into the catch block.                     *)
RecordState(p) == IF cmd[p].kind = "pr" THEN cmd[p].cur ELSE "merged"
Record(p) ==
    /\ at[p] = "publish" /\ cmd[p].todo = {} /\ cmd[p].kind # "chain"
    /\ \/ /\ cmd[p].kind = "pr" \/ CanTransition(cmd[p].cur, "merged")
          /\ PutEpic(RecordState(p)) /\ Over(p)
          /\ UNCHANGED <<members, jobs, view, lock, published, crashes>>
       \/ /\ cmd[p].kind = "merge" /\ ~CanTransition(cmd[p].cur, "merged")
          /\ Catch(p)

ChainDone(p) ==
    /\ at[p] = "publish" /\ cmd[p].todo = {} /\ cmd[p].kind = "chain" /\ Over(p)
    /\ UNCHANGED <<row, jobs, view, lock, published, crashes>>

-----------------------------------------------------------------------------
Supervise(j) ==
    \/ Start(j) \/ Touch(j) \/ Reopen(j) \/ Join(j) \/ Loads(j)
    \/ SyncAfterJoin(j) \/ Finish(j) \/ Cancel(j)

View(v) == Look(v) \/ Loads(v) \/ LookSyncs(v)

Proceed(p) ==
    \/ Unlock(p) \/ AbandonReads(p) \/ AbandonLooks(p) \/ AbandonWrites(p)
    \/ SyncReads(p) \/ SyncScans(p) \/ SyncFinds(p)
    \/ (\E j \in Job : SyncMarks(p, j)) \/ SyncPrunes(p)
    \/ Loads(p) \/ SyncWrites(p) \/ SyncClears(p)
    \/ Gather(p) \/ GuardReads(p) \/ GuardLoads(p) \/ GuardJudges(p)
    \/ \E c \in Chain : PublishSkips(p, c) \/ Publish(p, c)
    \/ PublishFails(p) \/ GateFails(p) \/ GatePasses(p) \/ Record(p) \/ ChainDone(p)

Command(p) ==
    \/ \E kind \in {"sync", "abandon", "force"} : Lock(p, kind)
    \/ \E kind \in {"merge", "pr", "chain"} : GatherReads(p, kind)
    \/ \E c \in Chain : GatherChain(p, c)
    \/ Proceed(p)

Next ==
    \/ \E j \in Job : Supervise(j)
    \/ \E v \in Viewer : View(v)
    \/ \E p \in Cmd : Command(p)
    \/ \E a \in Actor : Crash(a)

Spec == Init /\ [][Next]_vars

(* A job that runs ends; a process that has begun a write goes on; nobody  *)
(* stops showing the epic.                                                 *)
Fairness ==
    /\ \A j \in Job \ Past :
            /\ WF_vars(Reopen(j) \/ Join(j) \/ Loads(j) \/ SyncAfterJoin(j))
            /\ SF_vars(Finish(j))
    /\ \A v \in Viewer : WF_vars(View(v))
    /\ \A p \in Cmd : WF_vars(Proceed(p))

FairSpec == Spec /\ Fairness

-----------------------------------------------------------------------------
Places == {"idle", "written", "opened", "on", "over", "dead", "load", "seen", "derive", "sync",
           "read", "unlock", "members", "abandon", "scan", "drift", "repair", "clear",
           "gather", "guard", "weigh", "judge", "publish", "gate"}
JobState == {"none", "active", "done", "error", "cancelled"}

(* Every variable has its type, and only a command holds the lock file.    *)
EpicTypeOK ==
    /\ epic \in EpicState \cup {"none"} /\ redirect \in BOOLEAN /\ members \subseteq Chain
    /\ job \in [Job -> JobState]
    /\ verdict \in [Job -> {"missing", "pass", "fail"}] /\ live \subseteq Job
    /\ at \in [Actor -> Places] /\ published \subseteq Chain
    /\ view \in [Actor -> [rows : [Job -> JobState], persisted : EpicState,
                          ready : {"resolving", "failed", "blocked", "merge_ready"}]]
    /\ lock \in Cmd \cup {"free"} /\ epic = "none" => members = {} /\ ~redirect
    /\ \A p \in Cmd : cmd[p].todo \subseteq cmd[p].targets /\ cmd[p].targets \subseteq Chain

(* An epic becomes merged only when every chain the merge had gathered is  *)
(* in the main branch: one failed rebase, gate or merge in the middle of   *)
(* the plan, a retry that skips what was merged, and the syncs in between  *)
(* do not make a half-published epic merged.                               *)
MergedIsPublished ==
    [][(epic # "merged" /\ epic' = "merged") =>
          \E p \in Cmd : \/ /\ at[p] = "publish" /\ cmd[p].targets # {}
                            /\ cmd[p].targets \subseteq published
                         \/ at[p] = "clear" /\ cmd[p].old = "merged"]_vars

(* A merged or abandoned epic is reopened only by a status write of a job, *)
(* or by somebody who had read the row before it was final: what is derived*)
(* or repaired from a final row leaves it final.                           *)
Outdated(a) ==
    \/ a \in Cmd /\ at[a] \in {"publish", "gate"} /\ cmd[a].cur \notin Final
    \/ a \in Cmd /\ at[a] = "clear" /\ cmd[a].old \notin Final
    \/ at[a] = "sync" /\ view[a].persisted \notin Final
FinalIsRespected ==
    [][(epic \in Final /\ epic' \notin Final) =>
          (\E j \in Job : at[j] = "written") \/ (\E a \in Actor : Outdated(a))]_vars

(* What the readiness rules ask of the row, said without them: all chains  *)
(* passed, or something failed, or there is something left to wait for.    *)
Passed(c)  == Reviews(job, c) # <<>> /\ verdict[Latest(job, c)] = "pass"
Resting    == \A j \in Job : ~ActiveJob(j)
Agrees ==
    /\ epic = "merge_ready" => Resting /\ \A c \in Known(job) : Passed(c)
    /\ Resting /\ ~PrepIs(job, "error") /\ (\A c \in Known(job) : Passed(c)) => epic = "merge_ready"
    /\ epic # "none"

(* However many stale summaries, reopenings, repairs and half merges have  *)
(* overwritten each other, the row agrees with the jobs in the end, unless *)
(* it was merged or abandoned: no failure of a publication sticks.         *)
RowConverges == <>[](started = <<>> \/ epic \in Final \/ Agrees)
=============================================================================
