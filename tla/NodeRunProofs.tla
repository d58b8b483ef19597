---------------------------- MODULE NodeRunProofs -----------------------------
(***************************************************************************)
(* What a node leaves of its jobs: two coordinators live at once only if   *)
(* another settled the row of the first, and when its run returns none of  *)
(* its jobs is left behind unnoticed: for any members, results, commands,  *)
(* pipes that are missing or not read, and supervisors that write over what*)
(* others have written.                                                    *)
(*                                                                         *)
(* The base is JobInv: a row at rest is that of a job that is accounted    *)
(* for, which a job stays whatever its row says later.  The first theorem  *)
(* needs IInv: which jobs have been started when, and that a new           *)
(* coordinator is launched only over one that is accounted for.  The second*)
(* adds RestInv, that a member's first job is accounted for before it has a*)
(* second, and CleanInv, that every job whose turn in the cleanup has been *)
(* is covered.                                                             *)
(***************************************************************************)
EXTENDS NodeRun, TLAPS

LoopPoints == {"poll", "report", "sleep", "stopping", "launch"}
JobStates  == Active \cup Settled \cup {"none", "cancelled"}
SeenStates == Active \cup Settled \cup {"created", "cancelled"}
Ended      == {"killed", "over", "gone"}

(* NodeTypeOK, by what changes together.                                   *)
LoopType ==
    /\ st \in {"starting", "running", "waiting", "degraded", "failed", "error", "done"}
    /\ row \in {"starting", "running", "waiting", "degraded", "failed", "error", "done",
               "awaiting_merge"}
    /\ pc \in LoopPoints \cup {"spawn", "cleanup", "cleaning", "returned", "lost", "dead"}
    /\ pc \in LoopPoints => st \in {"running", "waiting", "degraded"}
    /\ coord \in 0..2 /\ heard \in (0..2) \X Nat
    /\ todo \subseteq Who /\ changed \in BOOLEAN /\ waitee \in Jobs \cup {<<Coordinator, 0>>}
    /\ failed \subseteq Jobs /\ (pc = "cleaning" => waitee \in Jobs)
    /\ blocked \in BOOLEAN
MemType ==
    /\ mem \in [Member -> [gen : 0..2, seen : SeenStates,
                           out : (0..2) \X Nat, enabled : BOOLEAN]]
    /\ mrow \in [Member -> [gen : 0..2, st : SeenStates]]
JobType ==
    /\ job \in [Jobs -> [st : JobStates, out : Nat]]
    /\ \A j \in Jobs : job[j].out <= OutBound[j[1]]
PlaceType == at \in [Jobs -> Places] /\ early \subseteq Jobs
OutsideType ==
    /\ pipe \in [Jobs -> {"empty", "resume", "close"}]
    /\ deaf \subseteq Jobs /\ cli \subseteq Spawned
    /\ kill \subseteq Jobs /\ commands \in 0..CommandBound

(* What the row of a job has to do with its supervisor.                    *)
JobInv ==
    \A j \in Jobs : /\ AtRest(j) => Accounted(j)
                    /\ Started(j) <=> at[j] # "none"

(* Where the coordinator's jobs are.                                       *)
CoordInv ==
    /\ pc = "spawn" => coord = 0
    /\ pc \in LoopPoints => coord >= 1
    /\ pc \in {"stopping", "launch"} => coord = 1
    /\ pc = "launch" => Accounted(<<Coordinator, 1>>)
    /\ coord < 2 => ~Started(<<Coordinator, 2>>)
    /\ coord = 2 => Accounted(<<Coordinator, 1>>)

(* Every generation that is known of a member has been started.            *)
MemberInv ==
    /\ \A m \in Member : mem[m].gen > 0 => Started(<<m, mem[m].gen>>)
    /\ \A m \in Member : mrow[m].gen > 0 => Started(<<m, mrow[m].gen>>)
    /\ \A m \in cli : Started(<<m, 2>>)
    /\ pc = "spawn" => \A m \in Member \ todo : mem[m].gen > 0
    /\ pc \in LoopPoints => \A m \in Member : mem[m].gen > 0

JInv == JobType /\ PlaceType /\ JobInv
IInv == LoopType /\ MemType /\ JInv /\ OutsideType /\ CoordInv /\ MemberInv

(* The parts together are the type invariant.                              *)
LEMMA TypeParts == IInv => NodeTypeOK
BY DEF IInv, JInv, NodeTypeOK, LoopType, MemType, JobType, PlaceType, OutsideType,
       LoopPoints, JobStates, SeenStates

(* The jobs of different holders, and of different generations, differ.    *)
LEMMA JobsDiffer ==
    /\ \A w \in Who : <<w, 1>> \in Jobs /\ <<w, 2>> \in Jobs
    /\ <<Coordinator, 1>> \in Jobs /\ <<Coordinator, 2>> \in Jobs
    /\ \A m \in Member : /\ m \in Who /\ m # Coordinator
                         /\ <<m, 1>> \in Jobs /\ <<m, 2>> \in Jobs
    /\ Coordinator \in Who /\ Spawned \subseteq Member /\ Member \subseteq Who
    /\ \A j \in Jobs : j = <<j[1], j[2]>> /\ j[1] \in Who /\ j[2] \in {1, 2}
    /\ \A j \in Jobs : OutBound[j[1]] \in Nat
BY NodeAssumption DEF Jobs, Who

NodeStates == {"starting", "running", "waiting", "degraded", "failed", "error", "done"}
RowStates  == NodeStates \cup {"awaiting_merge"}

(* A transition leaves the node and its row in a state they may have.      *)
LEMMA BecomeType ==
    ASSUME LoopType, NEW s \in NodeStates, Become(s)
    PROVE  st' = s /\ st' \in NodeStates /\ row' \in RowStates
BY DEF LoopType, Become, NodeStates, RowStates

(* Before the first member is spawned there are no jobs.                   *)
LEMMA InitInv == Init => IInv
<1> SUFFICES ASSUME Init PROVE IInv
  OBVIOUS
<1>1. LoopType
  <2>1. /\ st = "starting" /\ row = "starting" /\ pc = "spawn" /\ coord = 0
        /\ heard = <<0, 0>>
    BY DEF Init
  <2>2. todo \subseteq Who /\ waitee \in Jobs \cup {<<Coordinator, 0>>} /\ failed \subseteq Jobs
    BY JobsDiffer DEF Init
  <2>3. changed \in BOOLEAN /\ blocked \in BOOLEAN
    BY DEF Init
  <2>4. heard \in (0..2) \X Nat
    BY <2>1
  <2> QED
    BY <2>1, <2>2, <2>3, <2>4 DEF LoopType, LoopPoints
<1>2. MemType
  BY DEF Init, MemType, SeenStates
<1>3. JInv
  <2>1. JobType
    BY JobsDiffer DEF Init, JobType, JobStates
  <2>2. PlaceType
    BY DEF Init, PlaceType, Places
  <2>3. JobInv
    BY DEF Init, JobInv, AtRest, Started, Settled
  <2> QED
    BY <2>1, <2>2, <2>3 DEF JInv
<1>4. OutsideType
  BY NodeAssumption DEF Init, OutsideType
<1>5. CoordInv
  BY JobsDiffer DEF Init, CoordInv, LoopPoints, Started
<1>6. MemberInv
  BY DEF Init, MemberInv, LoopPoints, Started
<1> QED
  BY <1>1, <1>2, <1>3, <1>4, <1>5, <1>6 DEF IInv

(* The row of one job is written, and no other.                            *)
LEMMA PutFacts ==
    ASSUME JobType, NEW j \in Jobs, NEW s \in JobStates, Put(j, s)
    PROVE  /\ JobType'
           /\ \A k \in Jobs : job'[k].st = IF k = j THEN s ELSE job[k].st
BY DEF JobType, Put

(* One supervisor moves, and no other.                                     *)
LEMMA GoFacts ==
    ASSUME PlaceType, NEW j \in Jobs, NEW p \in Places, Go(j, p)
    PROVE  /\ at' \in [Jobs -> Places]
           /\ \A k \in Jobs : at'[k] = IF k = j THEN p ELSE at[k]
BY DEF PlaceType, Go

(* What a step has to leave of the jobs: those that are accounted for stay *)
(* so, and those that have been started stay so, and no others are.        *)
JobsGoOn ==
    /\ \A k \in Jobs : Accounted(k) => Accounted(k)'
    /\ \A k \in Jobs : Started(k) <=> Started(k)'

(* The move of one job.                                                    *)
LEMMA OneMoves ==
    ASSUME JInv, NEW j \in Jobs, Started(j), NEW s \in JobStates \ {"none"},
           JobType', \A k \in Jobs : job'[k].st = IF k = j THEN s ELSE job[k].st,
           at' \in [Jobs -> Places], early \subseteq early', early' \subseteq Jobs,
           \A k \in Jobs \ {j} : at'[k] = at[k],
           at'[j] # "none", at[j] \in Ended => at'[j] \in Ended,
           s \in Settled => at'[j] \in Ended \/ j \in early' \/ s = job[j].st
    PROVE  JInv' /\ JobsGoOn
<1>1. PlaceType'
  BY DEF PlaceType
<1>2. \A k \in Jobs : Accounted(k) => Accounted(k)'
  BY DEF Accounted, Ended
<1>3. \A k \in Jobs : Started(k) <=> Started(k)'
  BY DEF Started
<1>4. \A k \in Jobs : AtRest(k)' => Accounted(k)'
  <2> SUFFICES ASSUME NEW k \in Jobs, AtRest(k)' PROVE Accounted(k)'
    OBVIOUS
  <2>1. CASE k = j /\ (at'[j] \in Ended \/ j \in early')
    BY <2>1 DEF Accounted, Ended
  <2>2. CASE k # j \/ s = job[j].st
    BY <1>2, <2>2 DEF AtRest, JInv, JobInv
  <2> QED
    BY <2>1, <2>2 DEF AtRest
<1>5. \A k \in Jobs : Started(k)' <=> at'[k] # "none"
  BY <1>3 DEF JInv, JobInv
<1> QED
  BY <1>1, <1>2, <1>3, <1>4, <1>5 DEF JInv, JobInv, JobsGoOn

(* A step that leaves the jobs alone.                                      *)
LEMMA SameJobs ==
    ASSUME JInv, UNCHANGED jobs
    PROVE  JInv' /\ JobsGoOn
BY DEF jobs, JInv, JobType, PlaceType, JobInv, JobsGoOn, AtRest, Started, Accounted

(* A row is written, and its supervisor may move with it.                  *)
LEMMA WriteAndMove ==
    ASSUME JInv, NEW j \in Jobs, Started(j), NEW s \in JobStates \ {"none"}, Put(j, s),
           NEW p \in Places \ {"none"}, Go(j, p) \/ (at' = at /\ p = at[j]),
           early \subseteq early', early' \subseteq Jobs,
           at[j] \in Ended => p \in Ended,
           s \in Settled => p \in Ended \/ j \in early'
    PROVE  JInv' /\ JobsGoOn
<1>1. JobType' /\ \A k \in Jobs : job'[k].st = IF k = j THEN s ELSE job[k].st
  BY PutFacts DEF JInv
<1>2. /\ at' \in [Jobs -> Places] /\ at'[j] = p
      /\ \A k \in Jobs \ {j} : at'[k] = at[k]
  BY GoFacts DEF JInv, PlaceType
<1> QED
  BY <1>1, <1>2, OneMoves

(* A job that lives has been started.                                      *)
LEMMA LivingStarted ==
    ASSUME JInv, NEW j \in Jobs, Lives(j) \/ Running(j) \/ at[j] \in {"first", "turn", "parked"}
    PROVE  Started(j) /\ at[j] # "none" /\ at[j] \in Places
<1>1. at[j] \in Places
  BY DEF JInv, PlaceType
<1>2. Started(j) <=> at[j] # "none"
  BY DEF JInv, JobInv
<1>3. CASE Lives(j) \/ at[j] \in {"first", "turn", "parked"}
  BY <1>1, <1>2, <1>3 DEF Lives
<1>4. CASE Running(j)
  BY <1>1, <1>2, <1>4 DEF Running, Started, Active
<1> QED
  BY <1>3, <1>4

(* What the steps of the jobs leave alone of the rest.                     *)
RestSame == UNCHANGED <<st, pc, coord, heard, mem, todo, changed, waitee, failed,
                        row, mrow, cli, kill>>

(* The steps of a job.                                                     *)
LEMMA JobStepFacts ==
    ASSUME IInv, NEW j \in Jobs, JobStep(j)
    PROVE  JInv' /\ OutsideType' /\ JobsGoOn /\ RestSame /\ blocked' \in BOOLEAN
<1>0. JInv /\ blocked \in BOOLEAN /\ OutsideType
  BY DEF IInv, LoopType
<1>1. OutsideType' /\ RestSame /\ blocked' \in BOOLEAN
  <2>1. CASE SessionUp(j)
    BY <1>0, <2>1 DEF SessionUp, OutsideType, RestSame, outside
  <2>2. CASE Writes(j) \/ TurnEnds(j) \/ Stall(j)
    BY <1>0, <2>2 DEF Writes, TurnEnds, Stall, OutsideType, RestSame, loop, outside
  <2>3. CASE TakesResume(j)
    BY <1>0, <2>3 DEF TakesResume, OutsideType, RestSame, loop, outside
  <2>4. CASE Repaired(j)
    <3>1. UNCHANGED <<loop, row, mrow, pipe, deaf, cli, kill>>
      BY <2>4 DEF Repaired
    <3>2. commands' \in 0..CommandBound
      BY <1>0, <2>4, NodeAssumption DEF Repaired, OutsideType
    <3> QED
      BY <1>0, <3>1, <3>2 DEF OutsideType, RestSame, loop
  <2>5. CASE Closes(j) \/ Fails(j)
    BY <1>0, <2>5 DEF Closes, Fails, RunOver, OutsideType, RestSame, loop
  <2> QED
    BY <2>1, <2>2, <2>3, <2>4, <2>5 DEF JobStep
<1>2. Started(j) /\ at[j] # "none" /\ at[j] \in Places
  <2>1. Lives(j) \/ Running(j) \/ at[j] \in {"first", "turn", "parked"}
    BY DEF JobStep, SessionUp, Writes, TurnEnds, TakesResume, Closes, Fails, Stall, Repaired,
           CanRun
  <2> QED
    BY <1>0, <2>1, LivingStarted
<1>3. early \subseteq early /\ early \subseteq Jobs
  BY <1>0 DEF JInv, PlaceType
<1>4. {"starting", "running", "waiting", "done", "error"} \subseteq JobStates \ {"none"}
  BY DEF JobStates, Active, Settled
<1>5. {"first", "turn", "parked", "killed", "over"} \subseteq Places \ {"none"}
  BY DEF Places
<1>6. JInv' /\ JobsGoOn
  <2>1. CASE SessionUp(j)
    <3>1. /\ at[j] = "spawn" /\ Go(j, "first") /\ UNCHANGED <<job, early>>
      BY <2>1 DEF SessionUp
    <3>2. JobType'
      BY <1>0, <3>1 DEF JInv, JobType
    <3>3. /\ at' \in [Jobs -> Places] /\ at'[j] = "first"
          /\ \A k \in Jobs \ {j} : at'[k] = at[k]
      BY <1>0, <1>5, <3>1, GoFacts DEF JInv
    <3>4. job[j].st \in JobStates \ {"none"}
      BY <1>0, <1>2 DEF JInv, JobType, Started
    <3>5. \A k \in Jobs : job'[k].st = IF k = j THEN job[j].st ELSE job[k].st
      BY <3>1
    <3> QED
      BY <1>0, <1>2, <1>3, <3>1, <3>2, <3>3, <3>4, <3>5, OneMoves DEF Ended
  <2>2. CASE Writes(j)
    <3>1. /\ Put(j, Word[at[j]]) /\ UNCHANGED <<at, early>> /\ at[j] \in DOMAIN Word
      BY <2>2 DEF Writes
    <3>2. Word[at[j]] \in {"starting", "running", "waiting"}
      BY <3>1 DEF Word
    <3>3. PICK s \in {"starting", "running", "waiting"} : Put(j, s)
      BY <3>1, <3>2
    <3> QED
      BY <1>0, <1>2, <1>3, <1>4, <3>1, <3>3, WriteAndMove DEF Settled
  <2>3. CASE TurnEnds(j)
    <3>1. at[j] \in {"first", "turn"} /\ Go(j, "parked") /\ UNCHANGED early
      BY <2>3 DEF TurnEnds
    <3>2. CASE Put(j, "waiting")
      BY <1>0, <1>2, <1>3, <1>4, <1>5, <3>1, <3>2, WriteAndMove DEF Settled, Ended
    <3>3. CASE /\ job[j].out < OutBound[j[1]]
               /\ job' = [job EXCEPT ![j] = [st |-> "waiting", out |-> @.out + 1]]
      <4>1. /\ JobType'
            /\ \A k \in Jobs : job'[k].st = IF k = j THEN "waiting" ELSE job[k].st
        BY <1>0, <3>3, JobsDiffer DEF JInv, JobType, JobStates, Active
      <4>2. /\ at' \in [Jobs -> Places] /\ at'[j] = "parked"
            /\ \A k \in Jobs \ {j} : at'[k] = at[k]
        BY <1>0, <1>5, <3>1, GoFacts DEF JInv
      <4> QED
        BY <1>0, <1>2, <1>3, <1>4, <3>1, <4>1, <4>2, OneMoves DEF Settled, Ended
    <3> QED
      BY <2>3, <3>2, <3>3 DEF TurnEnds
  <2>4. CASE TakesResume(j)
    <3>1. at[j] = "parked" /\ Put(j, "running") /\ Go(j, "turn") /\ UNCHANGED early
      BY <2>4 DEF TakesResume
    <3> QED
      BY <1>0, <1>2, <1>3, <1>4, <1>5, <3>1, WriteAndMove DEF Settled, Ended
  <2>5. CASE Closes(j)
    <3>1. Put(j, "done") /\ Go(j, "over") /\ UNCHANGED early
      BY <2>5 DEF Closes, RunOver
    <3> QED
      BY <1>0, <1>2, <1>3, <1>4, <1>5, <3>1, WriteAndMove DEF Ended
  <2>6. CASE Fails(j)
    <3>1. Put(j, "error") /\ Go(j, "over") /\ UNCHANGED early
      BY <2>6 DEF Fails, RunOver
    <3> QED
      BY <1>0, <1>2, <1>3, <1>4, <1>5, <3>1, WriteAndMove DEF Ended
  <2>7. CASE Stall(j)
    <3>1. Put(j, "error") /\ Go(j, "killed") /\ UNCHANGED early
      BY <2>7 DEF Stall
    <3> QED
      BY <1>0, <1>2, <1>3, <1>4, <1>5, <3>1, WriteAndMove DEF Ended
  <2>8. CASE Repaired(j)
    <3>1. Put(j, "error") /\ UNCHANGED at /\ early' \in {early, early \cup {j}}
          /\ (at[j] \in Ended \/ j \in early')
      BY <2>8 DEF Repaired, Ended
    <3>2. early \subseteq early' /\ early' \subseteq Jobs
      BY <1>3, <3>1
    <3> QED
      BY <1>0, <1>2, <1>4, <3>1, <3>2, WriteAndMove
  <2> QED
    BY <2>1, <2>2, <2>3, <2>4, <2>5, <2>6, <2>7, <2>8 DEF JobStep
<1> QED
  BY <1>1, <1>6

(* A generation that is known of a member is a job.                        *)
LEMMA GensAreJobs ==
    ASSUME IInv
    PROVE  /\ \A m \in Member : /\ mem[m].gen \in 0..2 /\ mrow[m].gen \in 0..2
                                /\ mem[m].gen > 0 => <<m, mem[m].gen>> \in Jobs
                                /\ mrow[m].gen > 0 => <<m, mrow[m].gen>> \in Jobs
           /\ \A m \in cli : <<m, 2>> \in Jobs
<1>1. \A m \in Member : mem[m].gen \in 0..2 /\ mrow[m].gen \in 0..2
  BY DEF IInv, MemType
<1>2. \A g \in 0..2 : g > 0 => g \in {1, 2}
  OBVIOUS
<1>3. \A m \in cli : <<m, 2>> \in Jobs
  BY JobsDiffer DEF IInv, OutsideType
<1> QED
  BY <1>1, <1>2, <1>3, JobsDiffer

(* The two invariants about the jobs are kept by whatever leaves the loop  *)
(* and what is known of the members alone.                                 *)
LEMMA GoOnKeeps ==
    ASSUME IInv, JobsGoOn, UNCHANGED <<pc, coord, mem, mrow, todo>>, cli' \subseteq cli
    PROVE  CoordInv' /\ MemberInv'
<1>1. CoordInv'
  BY JobsDiffer DEF IInv, CoordInv, JobsGoOn
<1>2. MemberInv'
  BY GensAreJobs DEF IInv, MemberInv, JobsGoOn
<1> QED
  BY <1>1, <1>2

(* The steps of the jobs.                                                  *)
LEMMA JobStepInv == ASSUME IInv, NEW j \in Jobs, JobStep(j) PROVE IInv'
<1>1. JInv' /\ OutsideType' /\ JobsGoOn /\ RestSame /\ blocked' \in BOOLEAN
  BY JobStepFacts
<1>2. LoopType' /\ MemType'
  BY <1>1 DEF IInv, LoopType, MemType, RestSame
<1>3. CoordInv' /\ MemberInv'
  BY <1>1, GoOnKeeps DEF RestSame
<1> QED
  BY <1>1, <1>2, <1>3 DEF IInv

-----------------------------------------------------------------------------
(* The loop.  Most of its steps leave the jobs and the members alone: what *)
(* is left to show of them is where they lead.                             *)
LEMMA QuietStep ==
    ASSUME IInv, LoopType', coord' = coord, UNCHANGED <<mem, mrow, jobs, outside>>,
           pipe' \in [Jobs -> {"empty", "resume", "close"}],
           pc' # "spawn", pc' \in LoopPoints => pc \in LoopPoints,
           pc' \in {"stopping", "launch"} => coord = 1,
           pc' = "launch" => Accounted(<<Coordinator, 1>>)
    PROVE  IInv'
<1>1. JInv' /\ JobsGoOn
  BY SameJobs DEF IInv
<1>2. MemType' /\ OutsideType'
  BY DEF IInv, MemType, OutsideType, outside
<1>3. CoordInv'
  BY <1>1, JobsDiffer DEF IInv, CoordInv, JobsGoOn
<1>4. MemberInv'
  BY <1>1, GensAreJobs DEF IInv, MemberInv, JobsGoOn, outside
<1> QED
  BY <1>1, <1>2, <1>3, <1>4 DEF IInv

(* Leaving the loop keeps the invariant, whatever state it is left in.     *)
LEMMA LeaveInv ==
    ASSUME IInv, NEW s \in NodeStates, Leave(s), blocked' = blocked,
           pipe' \in [Jobs -> {"empty", "resume", "close"}],
           UNCHANGED <<coord, mem, mrow, waitee, failed, jobs, outside>>
    PROVE  IInv'
<1>1. st' \in NodeStates /\ row' \in RowStates
  BY BecomeType DEF Leave, IInv
<1>2. heard' \in (0..2) \X Nat /\ changed' \in BOOLEAN
  <2>1. heard' = <<0, 0>> /\ changed' = FALSE
    BY DEF Leave
  <2>2. <<0, 0>> \in (0..2) \X Nat
    OBVIOUS
  <2> QED
    BY <2>1, <2>2
<1>3. LoopType'
  BY <1>1, <1>2 DEF IInv, LoopType, Leave, Cleanup, NodeStates, RowStates, LoopPoints
<1> QED
  BY <1>3, QuietStep DEF Leave, Cleanup, LoopPoints

(* The current coordinator's job is one of the jobs.                       *)
LEMMA CurrentIsJob ==
    ASSUME IInv, pc \in LoopPoints
    PROVE  /\ coord \in {1, 2} /\ Current \in Jobs
           /\ coord = 1 => Current = <<Coordinator, 1>>
           /\ coord = 2 => Accounted(<<Coordinator, 1>>)
           /\ st \in {"running", "waiting", "degraded"}
           /\ Result(Current) \in (0..2) \X Nat
<1>1. coord \in {1, 2}
  BY DEF IInv, CoordInv, LoopType
<1>2. Current \in Jobs
  BY <1>1, JobsDiffer DEF Current
<1>3. Result(Current) \in (0..2) \X Nat
  BY <1>1, <1>2 DEF Result, IInv, JInv, JobType, Current
<1> QED
  BY <1>1, <1>2, <1>3 DEF IInv, CoordInv, LoopType, Current

(* stopJob writes a line that a pipe may hold.                             *)
LEMMA StopJobType ==
    ASSUME OutsideType, NEW j \in Jobs, StopJob(j)
    PROVE  pipe' \in [Jobs -> {"empty", "resume", "close"}] /\ blocked' \in BOOLEAN
BY DEF OutsideType, StopJob

(* A restart is decided: the loop goes on with the coordinator 1, or ends. *)
LEMMA RestartInv ==
    ASSUME IInv, pc = "report", RestartCoordinator,
           UNCHANGED <<coord, mem, mrow, waitee, failed, jobs, outside>>
    PROVE  IInv'
<1>0. pc \in LoopPoints
  BY DEF LoopPoints
<1>1. CASE coord > MaxRestarts
  <2>1. Leave("failed") /\ pipe' = pipe /\ blocked' = blocked
    BY <1>1 DEF RestartCoordinator
  <2>2. pipe' \in [Jobs -> {"empty", "resume", "close"}]
    BY <2>1 DEF IInv, OutsideType
  <2> QED
    BY <2>1, <2>2, LeaveInv DEF NodeStates
<1>2. CASE ~(coord > MaxRestarts)
  <2>1. coord = 1 /\ Current = <<Coordinator, 1>> /\ Current \in Jobs
    BY <1>0, <1>2, CurrentIsJob DEF MaxRestarts
  <2>2. /\ StopJob(Current) /\ UNCHANGED <<st, row, heard, todo>> /\ changed' = FALSE
        /\ pc' = IF AtRest(Current) THEN "launch" ELSE "stopping"
    BY <1>2 DEF RestartCoordinator
  <2>3. pipe' \in [Jobs -> {"empty", "resume", "close"}] /\ blocked' \in BOOLEAN
    BY <2>1, <2>2, StopJobType DEF IInv
  <2>4. LoopType'
    BY <1>0, <2>2, <2>3 DEF IInv, LoopType, LoopPoints
  <2>5. pc' = "launch" => Accounted(<<Coordinator, 1>>)
    BY <2>1, <2>2 DEF IInv, JInv, JobInv
  <2> QED
    BY <1>0, <2>1, <2>2, <2>3, <2>4, <2>5, QuietStep
<1> QED
  BY <1>1, <1>2

(* The end of an iteration.                                                *)
Decision == \/ CoordinatorFailed \/ CoordinatorDone \/ ResumeThrows
            \/ MembersAreTerminal \/ Sleep \/ Watchdog

LEMMA DecisionInv == ASSUME IInv, Decision PROVE IInv'
<1>0. pc = "report" /\ pc \in LoopPoints
  BY DEF Decision, CoordinatorFailed, CoordinatorDone, ResumeThrows, MembersAreTerminal, Sleep,
         Watchdog, GoOn, Deciding, LoopPoints
<1>1. st \in {"running", "waiting", "degraded"} /\ Current \in Jobs
  BY <1>0, CurrentIsJob
<1>2. \A s \in {"waiting", "done"} : Move(st, s) \in NodeStates
  BY <1>1 DEF Move, NodeStates
<1>3. Heard \in {"running", "waiting", "degraded"}
  BY <1>1 DEF Heard
<1>4. ASSUME Resume PROVE pipe' \in [Jobs -> {"empty", "resume", "close"}] /\ blocked' = blocked
  BY <1>4 DEF Resume, IInv, OutsideType
<1>5. pipe \in [Jobs -> {"empty", "resume", "close"}] /\ heard \in (0..2) \X Nat
  BY DEF IInv, OutsideType, LoopType
<1>6. CASE CoordinatorFailed
  BY <1>0, <1>6, RestartInv DEF CoordinatorFailed
<1>7. CASE CoordinatorDone
  <2>1. PICK s \in Strategy : Leave(Move(st, IF s = "manual" THEN "waiting" ELSE "done"))
    BY <1>7 DEF CoordinatorDone
  <2> DEFINE to == Move(st, IF s = "manual" THEN "waiting" ELSE "done")
  <2>2. to \in NodeStates
    BY <1>2
  <2>3. Leave(to)
    BY <2>1
  <2> HIDE DEF to
  <2> QED
    BY <1>5, <1>7, <2>2, <2>3, LeaveInv DEF CoordinatorDone
<1>8. CASE ResumeThrows
  BY <1>5, <1>8, LeaveInv DEF ResumeThrows, NodeStates
<1>9. CASE MembersAreTerminal
  <2>1. Resume /\ Leave(Move(Heard, "done"))
    BY <1>9 DEF MembersAreTerminal
  <2>2. Move(Heard, "done") \in NodeStates
    BY <1>3 DEF Move, NodeStates
  <2> QED
    BY <1>4, <1>9, <2>1, <2>2, LeaveInv DEF MembersAreTerminal
<1>10. CASE Sleep
  <2>1. /\ Resume /\ Become(Heard) /\ pc' = "sleep" /\ changed' = FALSE
        /\ heard' = IF News THEN Result(Current) ELSE heard
    BY <1>10 DEF Sleep
  <2>2. heard' \in (0..2) \X Nat
    BY <1>0, <1>5, <2>1, CurrentIsJob
  <2>3. st' = Heard /\ row' \in RowStates
    BY <1>3, <2>1, BecomeType DEF IInv, NodeStates
  <2>4. LoopType'
    BY <1>3, <1>4, <1>10, <2>1, <2>2, <2>3
    DEF Sleep, IInv, LoopType, LoopPoints, RowStates, NodeStates
  <2> QED
    BY <1>0, <1>4, <1>10, <2>1, <2>4, QuietStep DEF Sleep, LoopPoints
<1>11. CASE Watchdog
  BY <1>0, <1>11, RestartInv DEF Watchdog
<1> QED
  BY <1>6, <1>7, <1>8, <1>9, <1>10, <1>11 DEF Decision

(* Where the loop waits, fails to go on, or ends.                          *)
OtherPoint == \/ SpawnThrows \/ StartIsLost \/ Wake
              \/ StoppedInTime \/ StopTimesOut \/ Waited \/ Return

LEMMA OtherPointsInv ==
    ASSUME IInv, OtherPoint
    PROVE  IInv'
<1>0. pipe \in [Jobs -> {"empty", "resume", "close"}] /\ heard \in (0..2) \X Nat
  BY DEF IInv, OutsideType, LoopType
<1>1. CASE SpawnThrows
  BY <1>0, <1>1, LeaveInv DEF SpawnThrows, NodeStates
<1>2. CASE StopTimesOut
  BY <1>0, <1>2, LeaveInv DEF StopTimesOut, NodeStates
<1>3. CASE Wake
  <2>1. LoopType'
    BY <1>3 DEF Wake, IInv, LoopType, LoopPoints
  <2> QED
    BY <1>0, <1>3, <2>1, QuietStep DEF Wake, LoopPoints
<1>4. CASE StoppedInTime
  <2>1. LoopType'
    BY <1>4 DEF StoppedInTime, IInv, LoopType, LoopPoints
  <2>2. coord = 1 /\ Accounted(<<Coordinator, 1>>)
    <3>1. coord = 1 /\ AtRest(<<Coordinator, 1>>)
      BY <1>4 DEF StoppedInTime, IInv, CoordInv, Current
    <3> QED
      BY <3>1, JobsDiffer DEF IInv, JInv, JobInv
  <2> QED
    BY <1>0, <1>4, <2>1, <2>2, QuietStep DEF StoppedInTime, LoopPoints
<1>5. CASE Waited
  <2>1. failed' \subseteq Jobs
    BY <1>5 DEF Waited, IInv, LoopType
  <2>2. LoopType'
    BY <1>5, <2>1 DEF Waited, IInv, LoopType, LoopPoints
  <2> QED
    BY <1>0, <1>5, <2>2, QuietStep DEF Waited, LoopPoints
<1>6. CASE Return
  <2>1. LoopType'
    BY <1>6 DEF Return, IInv, LoopType, LoopPoints
  <2> QED
    BY <1>0, <1>6, <2>1, QuietStep DEF Return, LoopPoints
<1>7. CASE StartIsLost
  <2>1. LoopType'
    BY <1>7 DEF StartIsLost, IInv, LoopType, LoopPoints
  <2> QED
    BY <1>0, <1>7, <2>1, QuietStep DEF StartIsLost, LoopPoints
<1> QED
  BY <1>1, <1>2, <1>3, <1>4, <1>5, <1>6, <1>7 DEF OtherPoint

(* The turn of one holder in the cleanup.                                  *)
LEMMA CleanUpInv == ASSUME IInv, NEW w \in Who, CleanUp(w) PROVE IInv'
<1>1. /\ pc = "cleanup" /\ todo' = todo \ {w}
      /\ UNCHANGED <<st, row, coord, heard, mem, mrow, changed, failed, jobs, outside>>
  BY DEF CleanUp
<1>2. CASE JobOf(w)[2] = 0 \/ AtRest(JobOf(w))
  <2>1. UNCHANGED <<pc, waitee, blocked, pipe>>
    BY <1>2 DEF CleanUp
  <2>2. LoopType'
    BY <1>1, <2>1 DEF IInv, LoopType, LoopPoints
  <2>3. pipe' \in [Jobs -> {"empty", "resume", "close"}]
    BY <2>1 DEF IInv, OutsideType
  <2> QED
    BY <1>1, <2>1, <2>2, <2>3, QuietStep DEF LoopPoints
<1>3. CASE ~(JobOf(w)[2] = 0 \/ AtRest(JobOf(w)))
  <2>1. StopJob(JobOf(w)) /\ waitee' = JobOf(w) /\ pc' = "cleaning"
    BY <1>3 DEF CleanUp
  <2>2. JobOf(w) \in Jobs
    <3>1. CASE w = Coordinator
      <4>1. JobOf(w) = <<Coordinator, coord>>
        BY <3>1 DEF JobOf, Current
      <4>2. coord \in {1, 2}
        BY <1>3, <4>1 DEF IInv, LoopType
      <4> QED
        BY <4>1, <4>2, JobsDiffer
    <3>2. CASE w # Coordinator
      <4>1. w \in Member /\ JobOf(w) = <<w, mem[w].gen>>
        BY <3>2 DEF JobOf, Adopted, Who
      <4>2. mem[w].gen \in 0..2
        BY <4>1 DEF IInv, MemType
      <4>3. mem[w].gen \in {1, 2}
        BY <1>3, <4>1, <4>2
      <4> QED
        BY <4>1, <4>3, JobsDiffer
    <3> QED
      BY <3>1, <3>2
  <2>3. pipe' \in [Jobs -> {"empty", "resume", "close"}] /\ blocked' \in BOOLEAN
    BY <2>1, <2>2, StopJobType DEF IInv
  <2>4. LoopType'
    BY <1>1, <2>1, <2>2, <2>3 DEF IInv, LoopType, LoopPoints
  <2> QED
    BY <1>1, <2>1, <2>3, <2>4, QuietStep DEF LoopPoints
<1> QED
  BY <1>2, <1>3

(* A job is started: only the coordinator's own start touches its jobs.    *)
LEMMA BeginFacts ==
    ASSUME JInv, NEW j \in Jobs, Begin(j)
    PROVE  /\ JInv' /\ Started(j)'
           /\ \A k \in Jobs : k # j => /\ Started(k)' <=> Started(k)
                                       /\ Accounted(k)' <=> Accounted(k)
           /\ \A k \in Jobs : Started(k) => Started(k)'
<1>1. JobType' /\ \A k \in Jobs : job'[k].st = IF k = j THEN "starting" ELSE job[k].st
  <2>1. Put(j, "starting") /\ "starting" \in JobStates
    BY DEF Begin, Put, JobStates, Active
  <2> QED
    BY <2>1, PutFacts DEF JInv
<1>2. /\ at' \in [Jobs -> Places] /\ early' = early
      /\ \A k \in Jobs : at'[k] = IF k = j THEN "spawn" ELSE at[k]
  <2>1. Go(j, "spawn") /\ "spawn" \in Places
    BY DEF Begin, Go, Places
  <2> QED
    BY <2>1, GoFacts DEF JInv, Begin
<1>3. PlaceType'
  BY <1>2 DEF JInv, PlaceType
<1>4. JobInv'
  BY <1>1, <1>2 DEF JInv, JobInv, AtRest, Started, Accounted, Settled
<1> QED
  BY <1>1, <1>2, <1>3, <1>4 DEF JInv, Started, Accounted

(* The start of the first coordinator and of its replacement.              *)
LEMMA CoordinatorStartsInv ==
    ASSUME IInv, SpawnCoordinator \/ StartCoordinator PROVE IInv'
<1>1. CASE SpawnCoordinator
  <2>1. coord = 0 /\ pc = "spawn" /\ todo = {} /\ coord' = 1
        /\ Begin(<<Coordinator, 1>>) /\ Become("running") /\ pc' = "poll"
        /\ UNCHANGED <<heard, mem, mrow, todo, changed, waitee, blocked, failed, pipe, outside>>
    BY <1>1 DEF SpawnCoordinator, IInv, CoordInv
  <2>2. st' = "running" /\ row' \in RowStates
    BY <2>1, BecomeType DEF IInv, NodeStates
  <2>3. LoopType'
    BY <2>1, <2>2 DEF IInv, LoopType, LoopPoints, RowStates, NodeStates
  <2>4. MemType' /\ OutsideType'
    BY <2>1 DEF IInv, MemType, OutsideType, outside
  <2>5. /\ JInv' /\ Started(<<Coordinator, 1>>)'
        /\ \A k \in Jobs : k # <<Coordinator, 1>> => (Started(k)' <=> Started(k))
        /\ \A k \in Jobs : Started(k) => Started(k)'
    BY <2>1, BeginFacts, JobsDiffer DEF IInv
  <2>6. CoordInv'
    BY <2>1, <2>5, JobsDiffer DEF IInv, CoordInv, LoopPoints
  <2>7. MemberInv'
    BY <2>1, <2>5, GensAreJobs DEF IInv, MemberInv, LoopPoints, outside
  <2> QED
    BY <2>3, <2>4, <2>5, <2>6, <2>7 DEF IInv
<1>2. CASE StartCoordinator
  <2>1. coord = 1 /\ pc = "launch" /\ coord' = 2 /\ Accounted(<<Coordinator, 1>>)
        /\ Begin(<<Coordinator, 2>>) /\ pc' = "poll"
        /\ Become(IF st = "degraded" THEN "running" ELSE st)
        /\ UNCHANGED <<heard, mem, mrow, todo, changed, waitee, blocked, failed, pipe, outside>>
    BY <1>2 DEF StartCoordinator, IInv, CoordInv
  <2>2. st' \in {"running", "waiting"} /\ row' \in RowStates
    BY <2>1, BecomeType DEF IInv, LoopType, LoopPoints, NodeStates
  <2>3. LoopType'
    BY <2>1, <2>2 DEF IInv, LoopType, LoopPoints, RowStates, NodeStates
  <2>4. MemType' /\ OutsideType'
    BY <2>1 DEF IInv, MemType, OutsideType, outside
  <2>5. /\ JInv' /\ Started(<<Coordinator, 2>>)'
        /\ \A k \in Jobs : k # <<Coordinator, 2>> => (Accounted(k)' <=> Accounted(k))
        /\ \A k \in Jobs : Started(k) => Started(k)'
    BY <2>1, BeginFacts, JobsDiffer DEF IInv
  <2>6. CoordInv'
    BY <2>1, <2>5, JobsDiffer DEF IInv, CoordInv, LoopPoints
  <2>7. MemberInv'
    BY <2>1, <2>5, GensAreJobs DEF IInv, MemberInv, LoopPoints, outside
  <2> QED
    BY <2>3, <2>4, <2>5, <2>6, <2>7 DEF IInv
<1> QED
  BY <1>1, <1>2

(* A member's entry, when what is known of its job is written in it.       *)
MemberEntries == [gen : 0..2, seen : SeenStates, out : (0..2) \X Nat, enabled : BOOLEAN]

Written(e, g, s)       == [e EXCEPT !.gen = g, !.seen = s]
WrittenAll(e, g, s, o) == [e EXCEPT !.gen = g, !.seen = s, !.out = o]
Able(e, b)             == [e EXCEPT !.enabled = b]

(* Writing it leaves an entry.                                             *)
LEMMA EntryFacts ==
    ASSUME NEW e \in MemberEntries, NEW g \in 0..2, NEW s \in SeenStates
    PROVE  /\ Written(e, g, s) \in MemberEntries
           /\ Written(e, g, s).gen = g
           /\ \A o \in (0..2) \X Nat : WrittenAll(e, g, s, o) \in MemberEntries
           /\ \A b \in BOOLEAN : Able(e, b) \in MemberEntries /\ Able(e, b).gen = e.gen
<1> DEFINE Outs == (0..2) \X Nat
           Gens == 0..2
<1> HIDE DEF Outs, Gens
<1>1. MemberEntries = [gen : Gens, seen : SeenStates, out : Outs, enabled : BOOLEAN] /\ g \in Gens
  BY DEF MemberEntries, Outs, Gens
<1>2. Written(e, g, s).gen = g
  BY <1>1 DEF Written
<1>3. Written(e, g, s) \in MemberEntries
  BY <1>1 DEF Written
<1>4. \A o \in Outs : WrittenAll(e, g, s, o) \in MemberEntries
  BY <1>1 DEF WrittenAll
<1>5. \A b \in BOOLEAN : Able(e, b) \in MemberEntries /\ Able(e, b).gen = e.gen
  BY <1>1 DEF Able
<1> QED
  BY <1>2, <1>3, <1>4, <1>5 DEF Outs

(* A member is spawned.                                                    *)
LEMMA SpawnMemberInv == ASSUME IInv, NEW m \in Member, SpawnMember(m) PROVE IInv'
<1>1. /\ pc = "spawn" /\ m \in todo /\ todo' = todo \ {m} /\ Begin(<<m, 1>>)
      /\ UNCHANGED <<st, row, pc, coord, heard, changed, waitee, blocked, failed, pipe, outside>>
  BY DEF SpawnMember
<1>2. LoopType'
  BY <1>1 DEF IInv, LoopType, LoopPoints
<1>3. /\ MemType'
      /\ \A k \in Member : /\ mem'[k].gen = IF k = m THEN 1 ELSE mem[k].gen
                           /\ mrow'[k].gen = IF k = m THEN 1 ELSE mrow[k].gen
  <2>1. mem' = [mem EXCEPT ![m].gen = 1, ![m].seen = "starting"]
    BY DEF SpawnMember
  <2>2. mrow' = [mrow EXCEPT ![m] = [gen |-> 1, st |-> "starting"]]
    BY DEF SpawnMember
  <2>3. "starting" \in SeenStates
    BY DEF SeenStates, Active
  <2>4. /\ mem' \in [Member -> [gen : 0..2, seen : SeenStates,
                                out : (0..2) \X Nat, enabled : BOOLEAN]]
        /\ \A k \in Member : mem'[k].gen = IF k = m THEN 1 ELSE mem[k].gen
    <3> DEFINE r == Written(mem[m], 1, "starting")
    <3>1. mem[m] \in MemberEntries /\ mem \in [Member -> MemberEntries]
      BY DEF IInv, MemType, MemberEntries
    <3>2. r \in MemberEntries /\ r.gen = 1
      <4>1. 1 \in 0..2
        OBVIOUS
      <4> QED
        BY <2>3, <3>1, <4>1, EntryFacts
    <3>3. mem' = [mem EXCEPT ![m] = r]
      BY <2>1, <3>1 DEF Written
    <3> HIDE DEF r
    <3> QED
      BY <3>1, <3>2, <3>3 DEF MemberEntries
  <2>5. /\ mrow' \in [Member -> [gen : 0..2, st : SeenStates]]
        /\ \A k \in Member : mrow'[k].gen = IF k = m THEN 1 ELSE mrow[k].gen
    BY <2>2, <2>3 DEF IInv, MemType
  <2> QED
    BY <2>4, <2>5 DEF MemType
<1>4. OutsideType'
  BY <1>1 DEF IInv, OutsideType, outside
<1>5. /\ JInv' /\ Started(<<m, 1>>)'
      /\ \A k \in Jobs : k # <<m, 1>> => /\ Started(k)' <=> Started(k)
                                         /\ Accounted(k)' <=> Accounted(k)
      /\ \A k \in Jobs : Started(k) => Started(k)'
  BY <1>1, BeginFacts, JobsDiffer DEF IInv
<1>6. CoordInv'
  BY <1>1, <1>5, JobsDiffer DEF IInv, CoordInv, LoopPoints
<1>7. MemberInv'
  <2>1. \A k \in Member : /\ mem'[k].gen > 0 => Started(<<k, mem[k].gen>>)'
                          /\ mrow'[k].gen > 0 => Started(<<k, mrow[k].gen>>)'
    <3> SUFFICES ASSUME NEW k \in Member
                 PROVE  /\ mem'[k].gen > 0 => Started(<<k, mem[k].gen>>)'
                        /\ mrow'[k].gen > 0 => Started(<<k, mrow[k].gen>>)'
      OBVIOUS
    <3>1. CASE k = m
      BY <1>3, <1>5, <3>1
    <3>2. CASE k # m
      BY <1>3, <1>5, <3>2, GensAreJobs DEF IInv, MemberInv
    <3> QED
      BY <3>1, <3>2
  <2>2. \A k \in cli' : Started(<<k, 2>>)'
    BY <1>1, <1>5, GensAreJobs DEF IInv, MemberInv, outside
  <2>3. \A k \in Member \ todo' : mem'[k].gen > 0
    BY <1>1, <1>3, GensAreJobs DEF IInv, MemberInv
  <2>4. pc' \notin LoopPoints
    BY <1>1 DEF LoopPoints
  <2> QED
    BY <2>1, <2>2, <2>3, <2>4 DEF MemberInv
<1> QED
  BY <1>2, <1>3, <1>4, <1>5, <1>6, <1>7 DEF IInv

(* What the poll reads of a member is of a generation that was started.    *)
LEMMA SeenFacts ==
    ASSUME IInv, pc = "poll", NEW m \in Member
    PROVE  /\ Seen(m) \in [gen : 0..2, seen : SeenStates, out : (0..2) \X Nat,
                           enabled : BOOLEAN]
           /\ Seen(m).gen > 0 /\ Started(<<m, Seen(m).gen>>)
<1> DEFINE g == IF mrow[m].gen > mem[m].gen THEN mrow[m].gen ELSE mem[m].gen
<1>1. mem[m].gen > 0
  BY DEF IInv, MemberInv, LoopPoints
<1>2. g \in {1, 2} /\ <<m, g>> \in Jobs /\ Started(<<m, g>>)
  <2>1. mem[m].gen \in 0..2 /\ mrow[m].gen \in 0..2
    BY GensAreJobs
  <2>2. g \in {mem[m].gen, mrow[m].gen} /\ g > 0
    BY <1>1, <2>1
  <2>3. g \in {1, 2}
    BY <2>1, <2>2
  <2> QED
    BY <2>2, <2>3, JobsDiffer DEF IInv, MemberInv
<1>3. job[<<m, g>>].st \in SeenStates /\ job[<<m, g>>].out \in Nat
  BY <1>2 DEF IInv, JInv, JobType, JobStates, SeenStates, Started
<1>4. Result(<<m, g>>) \in (0..2) \X Nat
  BY <1>2, <1>3 DEF Result
<1> HIDE DEF g
<1>5. Seen(m) = [mem[m] EXCEPT !.gen = g, !.seen = job[<<m, g>>].st, !.out = Result(<<m, g>>)]
  BY DEF Seen, g
<1>6. mem[m] \in [gen : 0..2, seen : SeenStates, out : (0..2) \X Nat, enabled : BOOLEAN]
  BY DEF IInv, MemType
<1>7. Seen(m).gen = g
  BY <1>5, <1>6
<1>8. Seen(m) \in [gen : 0..2, seen : SeenStates, out : (0..2) \X Nat, enabled : BOOLEAN]
  <2>1. g \in 0..2 /\ mem[m] \in MemberEntries
    BY <1>2, <1>6 DEF MemberEntries
  <2> DEFINE s == job[<<m, g>>].st
             o == Result(<<m, g>>)
  <2>2. s \in SeenStates /\ o \in (0..2) \X Nat
    BY <1>3, <1>4
  <2>3. Seen(m) = WrittenAll(mem[m], g, s, o)
    BY <1>5 DEF WrittenAll
  <2> HIDE DEF s, o
  <2>4. WrittenAll(mem[m], g, s, o) \in MemberEntries
    BY <2>1, <2>2, EntryFacts
  <2> QED
    BY <2>3, <2>4 DEF MemberEntries
<1> QED
  BY <1>2, <1>7, <1>8

(* The poll adopts generations that have been started.                     *)
LEMMA PollInv == ASSUME IInv, Poll PROVE IInv'
<1>1. /\ pc = "poll" /\ pc' = "report" /\ todo' = {m \in Member : Differs(m)}
      /\ changed' = (todo' # {})
      /\ UNCHANGED <<st, row, coord, heard, mrow, waitee, blocked, failed, jobs, pipe, outside>>
  BY DEF Poll
<1>2. LoopType'
  <2>1. changed' \in BOOLEAN
    BY <1>1
  <2>2. todo' \subseteq Who
    BY <1>1, JobsDiffer
  <2> QED
    BY <1>1, <2>1, <2>2 DEF IInv, LoopType, LoopPoints
<1>3. \A m \in Member :
         /\ mem'[m] \in [gen : 0..2, seen : SeenStates, out : (0..2) \X Nat, enabled : BOOLEAN]
         /\ mem'[m].gen \in {mem[m].gen, Seen(m).gen}
  <2> SUFFICES ASSUME NEW m \in Member
               PROVE  /\ mem'[m] \in [gen : 0..2, seen : SeenStates, out : (0..2) \X Nat,
                                      enabled : BOOLEAN]
                      /\ mem'[m].gen \in {mem[m].gen, Seen(m).gen}
    OBVIOUS
  <2>1. mem'[m] \in {mem[m], Seen(m), [mem[m] EXCEPT !.gen = Seen(m).gen]}
    BY DEF Poll
  <2>2. mem[m] \in [gen : 0..2, seen : SeenStates, out : (0..2) \X Nat, enabled : BOOLEAN]
    BY DEF IInv, MemType
  <2> QED
    BY <1>1, <2>1, <2>2, SeenFacts
<1>4. MemType'
  <2>1. DOMAIN mem' = Member /\ mem' = [m \in Member |-> mem'[m]]
    BY DEF Poll
  <2> QED
    BY <1>1, <1>3, <2>1 DEF IInv, MemType
<1>5. JInv' /\ JobsGoOn
  BY <1>1, SameJobs DEF IInv
<1>6. OutsideType'
  BY <1>1 DEF IInv, OutsideType, outside
<1>7. CoordInv'
  BY <1>1, <1>5, JobsDiffer DEF IInv, CoordInv, LoopPoints, JobsGoOn
<1>8. MemberInv'
  <2>1. \A m \in Member : mem'[m].gen > 0 /\ Started(<<m, mem'[m].gen>>)
    BY <1>1, <1>3, SeenFacts DEF IInv, MemberInv, LoopPoints
  <2> QED
    BY <1>1, <2>1 DEF IInv, MemberInv, Started, LoopPoints, outside, jobs
<1> QED
  BY <1>2, <1>4, <1>5, <1>6, <1>7, <1>8 DEF IInv

(* A change is reported.                                                   *)
LEMMA ReportInv == ASSUME IInv, NEW m \in Member, Report(m) PROVE IInv'
<1> DEFINE bad == mem[m].seen = "error"
<1>1. /\ pc = "report" /\ todo' = todo \ {m}
      /\ mem' = [mem EXCEPT ![m].enabled = ~bad]
      /\ mrow' = [mrow EXCEPT ![m] = [gen |-> mem[m].gen, st |-> mem[m].seen]]
      /\ UNCHANGED <<pc, coord, heard, changed, waitee, blocked, failed, jobs, pipe, outside>>
  BY DEF Report
<1>2. PICK critical \in BOOLEAN, well \in BOOLEAN :
         Become(IF bad \/ critical
                THEN IF st \in {"running", "waiting"} THEN "degraded" ELSE st
                ELSE IF st = "degraded" /\ well THEN "running" ELSE st)
  BY DEF Report
<1>3. st \in {"running", "waiting", "degraded"}
  BY <1>1 DEF IInv, LoopType, LoopPoints
<1>4. PICK s \in {"running", "waiting", "degraded"} : Become(s)
  BY <1>2, <1>3
<1>5. st' \in {"running", "waiting", "degraded"} /\ row' \in RowStates
  BY <1>4, BecomeType DEF IInv, NodeStates
<1>6. LoopType'
  BY <1>1, <1>5 DEF IInv, LoopType, LoopPoints, RowStates, NodeStates
<1>7. MemType' /\ \A k \in Member : mem'[k].gen = mem[k].gen
      /\ mrow'[k].gen = IF k = m THEN mem[m].gen ELSE mrow[k].gen
  <2>1. (~bad) \in BOOLEAN
    OBVIOUS
  <2> HIDE DEF bad
  <2>2. /\ mem \in [Member -> MemberEntries] /\ mrow \in [Member -> [gen : 0..2, st : SeenStates]]
        /\ mem[m].gen \in 0..2 /\ mem[m].seen \in SeenStates
    BY DEF IInv, MemType, MemberEntries
  <2>3. /\ mem' \in [Member -> MemberEntries]
        /\ \A k \in Member : mem'[k].gen = mem[k].gen
    <3>1. mem' = [mem EXCEPT ![m] = Able(mem[m], ~bad)]
      BY <1>1, <2>2 DEF Able
    <3>2. 0 \in 0..2 /\ mem[m] \in MemberEntries
      BY <2>2
    <3>3. Able(mem[m], ~bad) \in MemberEntries /\ Able(mem[m], ~bad).gen = mem[m].gen
      BY <2>1, <2>2, <3>2, EntryFacts
    <3> QED
      BY <2>2, <3>1, <3>3
  <2>4. /\ mrow' \in [Member -> [gen : 0..2, st : SeenStates]]
        /\ \A k \in Member : mrow'[k].gen = IF k = m THEN mem[m].gen ELSE mrow[k].gen
    BY <1>1, <2>2
  <2> QED
    BY <2>3, <2>4 DEF MemType, MemberEntries
<1>8. JInv' /\ JobsGoOn /\ OutsideType'
  BY <1>1, SameJobs DEF IInv, OutsideType, outside
<1>9. CoordInv'
  BY <1>1, <1>8, JobsDiffer DEF IInv, CoordInv, JobsGoOn
<1>10. MemberInv'
  BY <1>1, <1>7 DEF IInv, MemberInv, Started, LoopPoints, outside, jobs
<1> QED
  BY <1>6, <1>7, <1>8, <1>9, <1>10 DEF IInv

-----------------------------------------------------------------------------
(* The commands of other processes.                                        *)
LEMMA SpawnBeginsInv == ASSUME IInv, NEW m \in Spawned, SpawnBegins(m) PROVE IInv'
<1>1. /\ Begin(<<m, 2>>) /\ cli' = cli \cup {m}
      /\ UNCHANGED <<loop, row, mrow, pipe, deaf, kill>>
  BY DEF SpawnBegins
<1>2. m \in Member /\ <<m, 2>> \in Jobs
  BY JobsDiffer
<1>3. LoopType' /\ MemType' /\ OutsideType'
  <2>1. commands' \in 0..CommandBound
    BY NodeAssumption DEF SpawnBegins, IInv, OutsideType
  <2> QED
    BY <1>1, <2>1 DEF IInv, LoopType, MemType, OutsideType, loop
<1>4. /\ JInv' /\ Started(<<m, 2>>)'
      /\ \A k \in Jobs : k # <<m, 2>> => /\ Started(k)' <=> Started(k)
                                         /\ Accounted(k)' <=> Accounted(k)
      /\ \A k \in Jobs : Started(k) => Started(k)'
  BY <1>1, <1>2, BeginFacts DEF IInv
<1>5. CoordInv'
  BY <1>1, <1>2, <1>4, JobsDiffer DEF IInv, CoordInv, loop
<1>6. MemberInv'
  BY <1>1, <1>4, GensAreJobs DEF IInv, MemberInv, loop
<1> QED
  BY <1>3, <1>4, <1>5, <1>6 DEF IInv

(* spawn-member writes the row of the job it has started.                  *)
LEMMA SpawnWritesInv == ASSUME IInv, NEW m \in Spawned, SpawnWrites(m) PROVE IInv'
<1>1. /\ m \in cli /\ cli' = cli \ {m}
      /\ mrow' = [mrow EXCEPT ![m] = [gen |-> 2, st |-> "starting"]]
      /\ UNCHANGED <<loop, row, jobs, pipe, deaf, kill, commands>>
  BY DEF SpawnWrites
<1>2. m \in Member
  BY JobsDiffer
<1>3. LoopType' /\ JInv' /\ JobsGoOn /\ OutsideType'
  BY <1>1, SameJobs DEF IInv, LoopType, OutsideType, loop
<1>4. /\ MemType'
      /\ \A k \in Member : mrow'[k].gen = IF k = m THEN 2 ELSE mrow[k].gen
  BY <1>1, <1>2 DEF IInv, MemType, SeenStates, Active, loop
<1>5. CoordInv'
  BY <1>1, <1>3, JobsDiffer DEF IInv, CoordInv, JobsGoOn, loop
<1>6. MemberInv'
  BY <1>1, <1>4 DEF IInv, MemberInv, Started, loop, jobs
<1> QED
  BY <1>3, <1>4, <1>5, <1>6 DEF IInv

(* What a command leaves of the rest.                                      *)
LEMMA OutsideStep ==
    ASSUME IInv, OutsideType', JInv', JobsGoOn, pc' \in {pc, "dead"}, row' \in RowStates,
           UNCHANGED <<st, coord, heard, mem, mrow, todo, changed, waitee, blocked, failed, cli>>
    PROVE  IInv'
<1>1. LoopType' /\ MemType'
  BY DEF IInv, LoopType, MemType, LoopPoints, RowStates, NodeStates
<1>2. CoordInv'
  BY JobsDiffer DEF IInv, CoordInv, JobsGoOn, LoopPoints
<1>3. MemberInv'
  BY GensAreJobs DEF IInv, MemberInv, JobsGoOn, LoopPoints
<1> QED
  BY <1>1, <1>2, <1>3 DEF IInv

(* Supervisors that are killed, or whose process ends, and no others.      *)
Felled ==
    /\ at' \in [Jobs -> Places]
    /\ \A k \in Jobs : at'[k] = at[k] \/ (Lives(k) /\ at'[k] \in Ended)

(* What the handlers of the living do.                                     *)
LEMMA HandledFacts ==
    ASSUME JInv, OutsideType, NEW S \in SUBSET Jobs, Handled(S)
    PROVE  /\ Felled /\ deaf' \subseteq Jobs
           /\ pipe' \in [Jobs -> {"empty", "resume", "close"}]
<1>1. /\ at' \in [Jobs -> Places]
      /\ \A k \in Jobs : at'[k] = IF k \in S /\ at[k] = "first" THEN "killed" ELSE at[k]
  BY DEF Handled, JInv, PlaceType, Places
<1>2. Felled
  BY <1>1 DEF Felled, Lives, Ended
<1>3. deaf' \subseteq Jobs /\ pipe' \in [Jobs -> {"empty", "resume", "close"}]
  BY DEF Handled, OutsideType
<1> QED
  BY <1>2, <1>3

(* What the end of a process does.                                         *)
LEMMA EndsFacts ==
    ASSUME JInv, OutsideType, NEW S \in SUBSET {k \in Jobs : Lives(k)}, Ends(S)
    PROVE  Felled /\ UNCHANGED <<pipe, deaf>>
<1>1. /\ at' \in [Jobs -> Places] /\ UNCHANGED <<pipe, deaf>>
      /\ \A k \in Jobs : at'[k] = IF k \in S THEN "gone" ELSE at[k]
  BY DEF Ends, JInv, PlaceType, Places
<1> QED
  BY <1>1 DEF Felled, Ended

(* A signal fells some of the living, and may end the process of the node. *)
LEMMA SignalFacts ==
    ASSUME IInv, NEW j \in Jobs, SignalJob(j)
    PROVE  /\ pc' \in {pc, "dead"} /\ deaf' \subseteq Jobs /\ Felled
           /\ pipe' \in [Jobs -> {"empty", "resume", "close"}]
<1>1. JInv /\ OutsideType
  BY DEF IInv
<1>2. ASSUME UNCHANGED <<at, pipe, deaf>>
      PROVE  Felled /\ deaf' \subseteq Jobs /\ pipe' \in [Jobs -> {"empty", "resume", "close"}]
  BY <1>1, <1>2 DEF JInv, PlaceType, OutsideType, Felled
<1>3. ASSUME NEW S \in SUBSET {k \in Jobs : Lives(k)}, Ends(S)
      PROVE  Felled /\ deaf' \subseteq Jobs /\ pipe' \in [Jobs -> {"empty", "resume", "close"}]
  BY <1>1, <1>3, EndsFacts DEF OutsideType
<1>4. CASE Local(j)
  <2>1. SignalNode /\ Housed \subseteq {k \in Jobs : Lives(k)} /\ Housed \ deaf \subseteq Jobs
    BY <1>4 DEF SignalJob, Housed
  <2>2. CASE UNCHANGED <<pc, at, pipe, deaf>>
    BY <1>2, <2>2
  <2>3. CASE pc' = "dead" /\ Ends(Housed)
    BY <1>3, <2>1, <2>3
  <2>4. CASE Handled(Housed \ deaf) /\ UNCHANGED pc
    BY <1>1, <2>1, <2>4, HandledFacts
  <2> QED
    BY <2>1, <2>2, <2>3, <2>4 DEF SignalNode
<1>5. CASE ~Local(j)
  <2>1. UNCHANGED pc
    BY <1>5 DEF SignalJob
  <2>2. CASE UNCHANGED <<at, pipe, deaf>>
    BY <1>2, <2>1, <2>2
  <2>3. CASE Lives(j) /\ Ends({j})
    BY <1>3, <2>1, <2>3
  <2>4. CASE Handled({j})
    BY <1>1, <2>1, <2>4, HandledFacts
  <2> QED
    BY <1>5, <2>2, <2>3, <2>4 DEF SignalJob
<1> QED
  BY <1>4, <1>5

(* The commands that only write or read rows.                              *)
LEMMA RecordsInv == ASSUME IInv, CompleteNode \/ StopNode PROVE IInv'
<1>1. pc' = pc /\ CommandBound \in Nat
      /\ UNCHANGED <<st, coord, heard, mem, mrow, todo, changed, waitee, blocked, failed, cli>>
  BY NodeAssumption DEF CompleteNode, StopNode, loop
<1>2. JInv' /\ JobsGoOn
  BY SameJobs DEF CompleteNode, StopNode, IInv
<1>3. commands' \in 0..CommandBound /\ UNCHANGED <<pipe, deaf>>
  BY <1>1 DEF CompleteNode, StopNode, IInv, OutsideType
<1>4. CASE CompleteNode
  <2>1. OutsideType'
    BY <1>1, <1>3, <1>4 DEF CompleteNode, IInv, OutsideType
  <2>2. row' \in RowStates
    BY <1>4 DEF CompleteNode, RowStates, NodeStates
  <2> QED
    BY <1>1, <1>2, <2>1, <2>2, OutsideStep
<1>5. CASE StopNode
  <2>1. kill' \subseteq Jobs
    BY <1>5, GensAreJobs, JobsDiffer DEF StopNode
  <2>2. OutsideType'
    BY <1>1, <1>3, <2>1 DEF IInv, OutsideType
  <2>3. row' \in RowStates
    BY <1>5 DEF StopNode, IInv, LoopType, RowStates, NodeStates
  <2> QED
    BY <1>1, <1>2, <2>2, <2>3, OutsideStep
<1> QED
  BY <1>4, <1>5

(* A signal without a row.                                                 *)
LEMMA FelledOnly ==
    ASSUME JInv, Felled, UNCHANGED <<job, early>>
    PROVE  JInv' /\ JobsGoOn
<1>1. JobType' /\ PlaceType'
  BY DEF JInv, JobType, PlaceType, Felled
<1>2. \A k \in Jobs : /\ Accounted(k) => Accounted(k)'
                      /\ AtRest(k)' <=> AtRest(k)
                      /\ Started(k)' <=> Started(k)
                      /\ at'[k] # "none" <=> at[k] # "none"
  BY DEF Felled, Accounted, AtRest, Started, Lives, Ended
<1> QED
  BY <1>1, <1>2 DEF JInv, JobInv, JobsGoOn

(* A signal and the row of one job, which is accounted for when the row is *)
(* at rest.                                                                *)
LEMMA FelledAndSettled ==
    ASSUME JInv, Felled, NEW j \in Jobs, Running(j), NEW s \in {"done", "cancelled"}, Put(j, s),
           early' = IF s = "done" /\ Lives(j) THEN early \cup {j} ELSE early
    PROVE  JInv' /\ JobsGoOn
<1>1. JobType' /\ \A k \in Jobs : job'[k].st = IF k = j THEN s ELSE job[k].st
  <2>1. s \in JobStates
    BY DEF JobStates, Settled
  <2> QED
    BY <2>1, PutFacts DEF JInv
<1>2. PlaceType' /\ early \subseteq early' /\ early' \subseteq early \cup {j}
  BY DEF JInv, PlaceType, Felled
<1>3. at[j] # "none" /\ at[j] \in Places
  BY LivingStarted
<1>4. \A k \in Jobs : /\ Accounted(k) => Accounted(k)'
                      /\ at'[k] # "none" <=> at[k] # "none"
  BY <1>2 DEF Felled, Accounted, Lives, Ended
<1>5. \A k \in Jobs : Started(k)' <=> Started(k)
  BY <1>1 DEF Started, Running, Active
<1>6. \A k \in Jobs : AtRest(k)' => Accounted(k)'
  <2> SUFFICES ASSUME NEW k \in Jobs, AtRest(k)' PROVE Accounted(k)'
    OBVIOUS
  <2>1. CASE k # j
    BY <1>1, <1>4, <2>1 DEF AtRest, JInv, JobInv
  <2>2. CASE k = j
    <3>1. s = "done"
      BY <1>1, <2>2 DEF AtRest, Settled
    <3>2. CASE Lives(j)
      BY <2>2, <3>1, <3>2 DEF Accounted
    <3>3. CASE ~Lives(j)
      BY <1>3, <1>4, <2>2, <3>3 DEF Accounted, Lives, Places
    <3> QED
      BY <3>2, <3>3
  <2> QED
    BY <2>1, <2>2
<1> QED
  BY <1>1, <1>2, <1>4, <1>5, <1>6 DEF JInv, JobInv, JobsGoOn

(* What the commands that signal or settle a job leave.                    *)
LEMMA JobCommandFacts ==
    ASSUME IInv, NEW j \in Jobs, SignalNext(j) \/ StopOneJob(j) \/ FinalizeJob(j)
    PROVE  /\ JInv' /\ JobsGoOn /\ OutsideType' /\ pc' \in {pc, "dead"}
           /\ UNCHANGED <<st, row, coord, heard, mem, mrow, todo, changed, waitee, blocked,
                          failed, cli>>
<1>1. UNCHANGED <<st, row, coord, heard, mem, mrow, todo, changed, waitee, blocked, failed, cli>>
  BY DEF SignalNext, StopOneJob, FinalizeJob, loop
<1>2. JInv /\ OutsideType
  BY DEF IInv
<1>3. CASE SignalNext(j)
  <2>1. SignalJob(j) /\ kill' = kill \ {j} /\ UNCHANGED <<job, early, commands>>
    BY <1>3 DEF SignalNext
  <2>2. OutsideType'
    BY <1>1, <1>2, <2>1, SignalFacts DEF OutsideType
  <2> QED
    BY <1>1, <1>2, <2>1, <2>2, SignalFacts, FelledOnly
<1>4. CASE StopOneJob(j)
  <2>1. /\ SignalJob(j) /\ Running(j) /\ UNCHANGED kill
        /\ commands' \in 0..CommandBound
    BY <1>2, <1>4, NodeAssumption DEF StopOneJob, OutsideType
  <2>2. OutsideType'
    BY <1>1, <1>2, <2>1, SignalFacts DEF OutsideType
  <2>3. Verdict(j) \subseteq {"done", "cancelled"}
    BY DEF Verdict
  <2>4. PICK s \in {"done", "cancelled"} :
           Put(j, s) /\ early' = IF s = "done" /\ Lives(j) THEN early \cup {j} ELSE early
    BY <1>4, <2>3 DEF StopOneJob
  <2> QED
    BY <1>1, <1>2, <2>1, <2>2, <2>4, SignalFacts, FelledAndSettled
<1>5. CASE FinalizeJob(j)
  <2>1. /\ at[j] = "parked" /\ Put(j, "done") /\ early' = early \cup {j}
        /\ UNCHANGED <<pc, at, deaf, kill>> /\ commands' \in 0..CommandBound
    BY <1>2, <1>5, NodeAssumption DEF FinalizeJob, OutsideType, loop
  <2>2. pipe' \in [Jobs -> {"empty", "resume", "close"}]
    BY <1>2, <1>5 DEF FinalizeJob, OutsideType
  <2>3. OutsideType'
    BY <1>1, <1>2, <2>1, <2>2 DEF OutsideType
  <2>4. Started(j) /\ at[j] \in Places \ {"none"}
    BY <1>2, <2>1, LivingStarted DEF Places
  <2>5. "done" \in JobStates \ {"none"} /\ early \subseteq early' /\ early' \subseteq Jobs
    BY <1>2, <2>1 DEF JobStates, Settled, JInv, PlaceType
  <2>6. JInv' /\ JobsGoOn
    BY <1>2, <2>1, <2>4, <2>5, WriteAndMove
  <2> QED
    BY <1>1, <2>1, <2>3, <2>6
<1> QED
  BY <1>3, <1>4, <1>5

(* The commands that signal or settle a job.                               *)
LEMMA JobCommandInv ==
    ASSUME IInv, NEW j \in Jobs, SignalNext(j) \/ StopOneJob(j) \/ FinalizeJob(j) PROVE IInv'
<1>1. row' \in RowStates
  BY JobCommandFacts DEF IInv, LoopType, RowStates, NodeStates
<1> QED
  BY <1>1, JobCommandFacts, OutsideStep

-----------------------------------------------------------------------------
(* Nothing is left behind: a member's first job is accounted for before a  *)
(* second one is started, and in the cleanup every job whose turn has been *)
(* is accounted for, is the one that is waited for, or is on record.       *)
RestInv ==
    /\ coord = 0 => ~Started(<<Coordinator, 1>>)
    /\ \A m \in Member :
          /\ mem[m].gen = 0 => ~Started(<<m, 1>>)
          /\ mem[m].gen = 1 /\ mem[m].seen \in Settled => Accounted(<<m, 1>>)
          /\ mrow[m].gen = 1 /\ mrow[m].st \in Settled => Accounted(<<m, 1>>)
          /\ Started(<<m, 2>>) => Accounted(<<m, 1>>)
          /\ pc = "spawn" /\ m \in todo => mrow[m].gen = 0 /\ ~Started(<<m, 2>>)

Covered(j) == Accounted(j) \/ j \in failed \/ (pc = "cleaning" /\ waitee = j)
CleanInv ==
    /\ pc \in {"cleanup", "cleaning", "returned"} =>
          \A w \in Who \ todo : JobOf(w)[2] # 0 => Covered(JobOf(w))
    /\ pc = "returned" => todo = {}

FInv == IInv /\ RestInv /\ CleanInv

(* The full invariant holds at first.                                      *)
LEMMA InitFInv == Init => FInv
<1> SUFFICES ASSUME Init PROVE FInv
  OBVIOUS
<1>1. RestInv
  BY JobsDiffer DEF Init, RestInv, Started, Settled
<1>2. CleanInv
  BY DEF Init, CleanInv
<1> QED
  BY <1>1, <1>2, InitInv DEF FInv

(* What a step that begins no job has to say for RestInv.                  *)
LEMMA RestStays ==
    ASSUME FInv, JobsGoOn, UNCHANGED <<coord, mem, mrow>>,
           pc' = "spawn" => pc = "spawn" /\ todo' = todo
    PROVE  RestInv'
BY JobsDiffer DEF FInv, RestInv, JobsGoOn

(* A job that is at rest is accounted for.                                 *)
LEMMA RestIsAccounted == ASSUME IInv, NEW j \in Jobs, AtRest(j) PROVE Accounted(j)
BY DEF IInv, JInv, JobInv

(* The job whose turn it is in the cleanup.                                *)
LEMMA JobOfIsJob ==
    ASSUME IInv, NEW w \in Who, JobOf(w)[2] # 0
    PROVE  /\ JobOf(w) \in Jobs /\ JobOf(w)[1] = w
           /\ JobOf(w) = <<Coordinator, coord>> \/ (w \in Member /\ Started(JobOf(w)))
<1>1. CASE w = Coordinator
  <2>1. JobOf(w) = <<Coordinator, coord>>
    BY <1>1 DEF JobOf, Current
  <2>2. coord \in {1, 2}
    BY <2>1 DEF IInv, LoopType
  <2> QED
    BY <1>1, <2>1, <2>2, JobsDiffer
<1>2. CASE w # Coordinator
  <2>1. w \in Member /\ JobOf(w) = <<w, mem[w].gen>>
    BY <1>2 DEF JobOf, Adopted, Who
  <2>2. mem[w].gen # 0
    BY <2>1
  <2>3. mem[w].gen > 0 /\ <<w, mem[w].gen>> \in Jobs
    <3>1. mem[w].gen \in 0..2 /\ (mem[w].gen > 0 => <<w, mem[w].gen>> \in Jobs)
      BY <2>1, GensAreJobs
    <3> QED
      BY <2>2, <3>1
  <2>4. Started(<<w, mem[w].gen>>)
    BY <2>1, <2>3 DEF IInv, MemberInv
  <2> QED
    BY <2>1, <2>3, <2>4
<1> QED
  BY <1>1, <1>2

(* What a step outside the loop has to leave for CleanInv.                 *)
LEMMA CleanStays ==
    ASSUME FInv, pc' \in {pc, "dead"}, UNCHANGED <<coord, mem, todo, waitee, failed>>,
           \A w \in Who : JobOf(w)[2] # 0 /\ Accounted(JobOf(w)) => Accounted(JobOf(w))'
    PROVE  CleanInv'
<1>1. \A w \in Who : JobOf(w)' = JobOf(w)
  BY DEF JobOf, Current, Adopted
<1>2. ASSUME NEW w \in Who, JobOf(w)[2] # 0, Covered(JobOf(w)), pc' = pc
      PROVE  Covered(JobOf(w))'
  <2>1. CASE Accounted(JobOf(w))
    BY <1>2, <2>1 DEF Covered
  <2>2. CASE JobOf(w) \in failed \/ (pc = "cleaning" /\ waitee = JobOf(w))
    BY <1>1, <1>2, <2>2 DEF Covered
  <2> QED
    BY <1>2, <2>1, <2>2 DEF Covered
<1> QED
  BY <1>1, <1>2 DEF FInv, CleanInv

(* What the jobs keep is what a step outside the loop has to keep.         *)
LEMMA OutsideKeepsClean ==
    ASSUME FInv, JobsGoOn, pc' \in {pc, "dead"}, UNCHANGED <<coord, mem, todo, waitee, failed>>
    PROVE  CleanInv'
<1>1. \A w \in Who : JobOf(w)[2] # 0 => JobOf(w) \in Jobs
  BY JobOfIsJob DEF FInv
<1>2. \A w \in Who : JobOf(w)' = JobOf(w)
  BY DEF JobOf, Current, Adopted
<1>3. ASSUME NEW w \in Who, JobOf(w)[2] # 0, Accounted(JobOf(w)) PROVE Accounted(JobOf(w))'
  <2>1. PICK k \in Jobs : k = JobOf(w)
    BY <1>1, <1>3
  <2>2. Accounted(k)'
    BY <1>3, <2>1 DEF JobsGoOn
  <2> QED
    BY <1>2, <2>1, <2>2 DEF Accounted
<1> QED
  BY <1>3, CleanStays

(* The steps of the loop before the cleanup, or into it.                   *)
LEMMA NotYetClean ==
    ASSUME pc' \in LoopPoints \cup {"spawn"} \/ (pc' = "cleanup" /\ todo' = Who)
    PROVE  CleanInv'
BY DEF CleanInv, LoopPoints

(* Where a restart leads.                                                  *)
LEMMA RestartLeads ==
    ASSUME RestartCoordinator
    PROVE  pc' \in {"launch", "stopping"} \/ (pc' = "cleanup" /\ todo' = Who)
BY DEF RestartCoordinator, Leave, Cleanup

(* The same steps again, for the full invariant.                           *)
LEMMA DecisionFInv ==
    ASSUME FInv, Decision
    PROVE  FInv'
<1>1. /\ pc' \in {"launch", "stopping", "sleep"} \/ (pc' = "cleanup" /\ todo' = Who)
      /\ UNCHANGED <<coord, mem, mrow, jobs>>
  BY RestartLeads DEF Decision, CoordinatorFailed, CoordinatorDone, ResumeThrows,
     MembersAreTerminal, Sleep, Watchdog, Leave, Cleanup
<1>2. JobsGoOn /\ pc' # "spawn"
  BY <1>1, SameJobs DEF FInv, IInv
<1>4. RestInv'
  BY <1>1, <1>2, RestStays
<1>3. CleanInv'
  BY <1>1, NotYetClean DEF LoopPoints
<1> QED
  BY <1>3, <1>4, DecisionInv DEF FInv

(* Waited records the job that did not end in time: it stays covered.      *)
LEMMA OtherPointsFInv ==
    ASSUME FInv, OtherPoint
    PROVE  FInv'
<1>1. UNCHANGED <<coord, mem, mrow, jobs>> /\ pc' # "spawn"
  BY DEF OtherPoint, SpawnThrows, StartIsLost, Wake, StoppedInTime, StopTimesOut, Waited, Return,
         Leave, Cleanup
<1>2. JobsGoOn
  BY <1>1, SameJobs DEF FInv, IInv
<1>3. RestInv'
  BY <1>1, <1>2, RestStays
<1>4. \A w \in Who : JobOf(w)' = JobOf(w)
  BY <1>1 DEF JobOf, Current, Adopted
<1>5. \A k \in Jobs : Accounted(k) => Accounted(k)'
  BY <1>2 DEF JobsGoOn
<1>6. CleanInv'
  <2>1. CASE SpawnThrows \/ StopTimesOut \/ Wake \/ StoppedInTime
    <3>1. pc' \in {"poll", "launch"} \/ (pc' = "cleanup" /\ todo' = Who)
      BY <2>1 DEF SpawnThrows, StopTimesOut, Wake, StoppedInTime, Leave, Cleanup
    <3> QED
      BY <3>1, NotYetClean DEF LoopPoints
  <2>2. CASE StartIsLost
    BY <2>2 DEF StartIsLost, CleanInv
  <2>3. CASE Waited
    <3>1. /\ pc = "cleaning" /\ pc' = "cleanup" /\ waitee \in Jobs /\ UNCHANGED todo
          /\ failed' = IF AtRest(waitee) THEN failed ELSE failed \cup {waitee}
      BY <2>3 DEF Waited, FInv, IInv, LoopType
    <3>2. ASSUME NEW w \in Who \ todo, JobOf(w)[2] # 0 PROVE Covered(JobOf(w))'
      <4>1. PICK j \in Jobs : j = JobOf(w)
        BY <3>2, JobOfIsJob DEF FInv
      <4>2. Accounted(j) \/ j \in failed \/ waitee = j
        BY <3>1, <3>2, <4>1 DEF FInv, CleanInv, Covered
      <4>3. waitee = j => j \in failed' \/ Accounted(j)
        BY <3>1, <4>1, RestIsAccounted DEF FInv
      <4>4. failed \subseteq failed'
        BY <3>1
      <4>5. Accounted(j)' \/ j \in failed'
        BY <1>5, <4>2, <4>3, <4>4
      <4> QED
        BY <1>4, <4>1, <4>5 DEF Covered, Accounted
    <3> QED
      BY <1>4, <3>1, <3>2 DEF CleanInv
  <2>4. CASE Return
    <3>1. /\ pc = "cleanup" /\ pc' = "returned" /\ todo = {}
          /\ UNCHANGED <<coord, mem, todo, waitee, failed, jobs>>
      BY <2>4 DEF Return
    <3> QED
      BY <1>4, <3>1 DEF FInv, CleanInv, Covered, Accounted, jobs
  <2> QED
    BY <2>1, <2>2, <2>3, <2>4 DEF OtherPoint
<1> QED
  BY <1>3, <1>6, OtherPointsInv DEF FInv

(* The job whose turn it is is waited for, or is at rest.                  *)
LEMMA CleanUpFInv == ASSUME FInv, NEW w \in Who, CleanUp(w) PROVE FInv'
<1>1. /\ pc = "cleanup" /\ pc' \in {"cleanup", "cleaning"} /\ w \in todo /\ todo' = todo \ {w}
      /\ UNCHANGED <<coord, mem, mrow, failed, jobs>>
  BY DEF CleanUp, NextInLine
<1>2. JobsGoOn
  BY <1>1, SameJobs DEF FInv, IInv
<1>3. RestInv'
  BY <1>1, <1>2, RestStays
<1>4. \A v \in Who : JobOf(v)' = JobOf(v)
  BY <1>1 DEF JobOf, Current, Adopted
<1>5. ASSUME NEW v \in Who \ todo, JobOf(v)[2] # 0 PROVE Covered(JobOf(v))'
  <2>1. Accounted(JobOf(v)) \/ JobOf(v) \in failed
    BY <1>1, <1>5 DEF FInv, CleanInv, Covered
  <2> QED
    BY <1>1, <1>4, <2>1 DEF Covered, Accounted, jobs
<1>6. ASSUME JobOf(w)[2] # 0 PROVE Covered(JobOf(w))'
  <2>1. CASE AtRest(JobOf(w))
    <3>1. Accounted(JobOf(w))
      BY <1>6, <2>1, JobOfIsJob, RestIsAccounted DEF FInv
    <3> QED
      BY <1>1, <1>4, <3>1 DEF Covered, Accounted, jobs
  <2>2. CASE ~AtRest(JobOf(w))
    <3>1. waitee' = JobOf(w) /\ pc' = "cleaning"
      BY <1>6, <2>2 DEF CleanUp
    <3> QED
      BY <1>4, <3>1 DEF Covered
  <2> QED
    BY <2>1, <2>2
<1>7. CleanInv'
  BY <1>1, <1>4, <1>5, <1>6 DEF CleanInv
<1> QED
  BY <1>3, <1>7, CleanUpInv DEF FInv

(* The start of a coordinator is no concern of the members.                *)
LEMMA CoordinatorStartsFInv ==
    ASSUME FInv, SpawnCoordinator \/ StartCoordinator PROVE FInv'
<1>1. PICK n \in {1, 2} : Begin(<<Coordinator, n>>)
  BY DEF SpawnCoordinator, StartCoordinator, FInv, IInv, CoordInv
<1>2. pc' = "poll" /\ coord' # 0 /\ UNCHANGED <<mem, mrow>>
  BY DEF SpawnCoordinator, StartCoordinator, FInv, IInv, CoordInv
<1>3. \A m \in Member, g \in {1, 2} : /\ Started(<<m, g>>)' <=> Started(<<m, g>>)
                                      /\ Accounted(<<m, g>>)' <=> Accounted(<<m, g>>)
  BY <1>1, BeginFacts, JobsDiffer DEF FInv, IInv
<1>4. RestInv'
  BY <1>2, <1>3 DEF FInv, RestInv
<1>5. CleanInv'
  BY <1>2, NotYetClean DEF LoopPoints
<1> QED
  BY <1>4, <1>5, CoordinatorStartsInv DEF FInv

(* A member is spawned once, before it can have a second job.              *)
LEMMA SpawnMemberFInv == ASSUME FInv, NEW m \in Member, SpawnMember(m) PROVE FInv'
<1>1. /\ pc = "spawn" /\ m \in todo /\ todo' = todo \ {m} /\ Begin(<<m, 1>>)
      /\ mem' = [mem EXCEPT ![m].gen = 1, ![m].seen = "starting"]
      /\ mrow' = [mrow EXCEPT ![m] = [gen |-> 1, st |-> "starting"]]
      /\ UNCHANGED <<pc, coord>>
  BY DEF SpawnMember
<1>2. /\ Started(<<m, 1>>)'
      /\ \A k \in Jobs : k # <<m, 1>> => /\ Started(k)' <=> Started(k)
                                         /\ Accounted(k)' <=> Accounted(k)
  BY <1>1, BeginFacts, JobsDiffer DEF FInv, IInv
<1>3. \A k \in Member \ {m} : mem'[k] = mem[k] /\ mrow'[k] = mrow[k]
  BY <1>1 DEF FInv, IInv, MemType
<1>4. mem'[m].gen = 1 /\ mem'[m].seen = "starting" /\ mrow'[m].gen = 1 /\ mrow'[m].st = "starting"
  BY <1>1 DEF FInv, IInv, MemType
<1>5. ~Started(<<m, 2>>)' /\ (coord = 0 => ~Started(<<Coordinator, 1>>)')
  BY <1>1, <1>2, JobsDiffer DEF FInv, RestInv
<1>6. RestInv'
  <2>1. coord' = 0 => ~Started(<<Coordinator, 1>>)'
    BY <1>1, <1>5
  <2>2. ASSUME NEW k \in Member
        PROVE  /\ mem'[k].gen = 0 => ~Started(<<k, 1>>)'
               /\ mem'[k].gen = 1 /\ mem'[k].seen \in Settled => Accounted(<<k, 1>>)'
               /\ mrow'[k].gen = 1 /\ mrow'[k].st \in Settled => Accounted(<<k, 1>>)'
               /\ Started(<<k, 2>>)' => Accounted(<<k, 1>>)'
               /\ pc' = "spawn" /\ k \in todo' => mrow'[k].gen = 0 /\ ~Started(<<k, 2>>)'
    <3>1. CASE k = m
      BY <1>1, <1>4, <1>5, <3>1 DEF Settled
    <3>2. CASE k # m
      <4>1. /\ Started(<<k, 1>>)' <=> Started(<<k, 1>>)
            /\ Started(<<k, 2>>)' <=> Started(<<k, 2>>)
            /\ Accounted(<<k, 1>>)' <=> Accounted(<<k, 1>>)
        BY <1>2, <3>2, JobsDiffer
      <4>2. mem'[k] = mem[k] /\ mrow'[k] = mrow[k] /\ (k \in todo' => k \in todo) /\ pc' = pc
        BY <1>1, <1>3, <3>2
      <4>3. /\ mem[k].gen = 0 => ~Started(<<k, 1>>)
            /\ mem[k].gen = 1 /\ mem[k].seen \in Settled => Accounted(<<k, 1>>)
            /\ mrow[k].gen = 1 /\ mrow[k].st \in Settled => Accounted(<<k, 1>>)
            /\ Started(<<k, 2>>) => Accounted(<<k, 1>>)
            /\ pc = "spawn" /\ k \in todo => mrow[k].gen = 0 /\ ~Started(<<k, 2>>)
        BY DEF FInv, RestInv
      <4> QED
        BY <4>1, <4>2, <4>3
    <3> QED
      BY <3>1, <3>2
  <2> QED
    BY <2>1, <2>2 DEF RestInv
<1>7. CleanInv'
  BY <1>1, NotYetClean
<1> QED
  BY <1>6, <1>7, SpawnMemberInv DEF FInv

(* A generation is adopted with the status of its own job.                 *)
LEMMA PollFInv == ASSUME FInv, Poll PROVE FInv'
<1>1. pc = "poll" /\ pc' = "report" /\ UNCHANGED <<coord, mrow, jobs>>
  BY DEF Poll
<1>2. \A m \in Member : mem[m].gen \in {1, 2} /\ mrow[m].gen \in 0..2 /\ Seen(m).gen \in {1, 2}
  <2> SUFFICES ASSUME NEW m \in Member
               PROVE  /\ mem[m].gen \in {1, 2} /\ mrow[m].gen \in 0..2
                      /\ Seen(m).gen \in {1, 2}
    OBVIOUS
  <2>1. mem[m].gen > 0 /\ mem[m].gen \in 0..2 /\ mrow[m].gen \in 0..2
    BY <1>1, GensAreJobs DEF FInv, IInv, MemberInv, LoopPoints
  <2>2. Seen(m).gen > 0 /\ Seen(m).gen \in 0..2
    BY <1>1, SeenFacts DEF FInv
  <2> QED
    BY <2>1, <2>2
<1>3. \A m \in Member : mem'[m] \in {mem[m], Seen(m), [mem[m] EXCEPT !.gen = Seen(m).gen]}
  BY DEF Poll
<1>4. ASSUME NEW m \in Member
      PROVE  /\ mem'[m].gen # 0
             /\ mem'[m].gen = 1 /\ mem'[m].seen \in Settled => Accounted(<<m, 1>>)
  <2>1. mem[m] \in MemberEntries
    BY DEF FInv, IInv, MemType, MemberEntries
  <2>2. CASE mem'[m] = mem[m]
    <3>1. mem[m].gen = 1 /\ mem[m].seen \in Settled => Accounted(<<m, 1>>)
      BY DEF FInv, RestInv
    <3> QED
      BY <1>2, <2>2, <3>1
  <2>3. CASE mem'[m] = Seen(m)
    <3>1. Seen(m).seen = job[<<m, Seen(m).gen>>].st
      BY <2>1 DEF Seen, MemberEntries
    <3>2. Seen(m).gen = 1 /\ Seen(m).seen \in Settled => Accounted(<<m, 1>>)
      <4>1. Seen(m).gen = 1 /\ Seen(m).seen \in Settled => AtRest(<<m, 1>>)
        BY <3>1 DEF AtRest
      <4> QED
        BY <4>1, JobsDiffer, RestIsAccounted DEF FInv
    <3> QED
      BY <1>2, <2>3, <3>2
  <2>4. CASE mem'[m] = [mem[m] EXCEPT !.gen = Seen(m).gen]
    <3>1. mem'[m].gen = Seen(m).gen /\ mem'[m].seen = mem[m].seen
      BY <2>1, <2>4 DEF MemberEntries
    <3>2. Seen(m).gen = 1 => mem[m].gen = 1
      <4>1. Seen(m).gen = IF mrow[m].gen > mem[m].gen THEN mrow[m].gen ELSE mem[m].gen
        BY <2>1 DEF Seen, MemberEntries
      <4> QED
        BY <1>2, <4>1
    <3> QED
      <4>1. mem[m].gen = 1 /\ mem[m].seen \in Settled => Accounted(<<m, 1>>)
        BY DEF FInv, RestInv
      <4> QED
        BY <1>2, <3>1, <3>2, <4>1
  <2> QED
    BY <1>3, <2>2, <2>3, <2>4
<1>5. RestInv'
  BY <1>1, <1>4 DEF FInv, RestInv, Accounted, Started, jobs
<1>6. CleanInv'
  BY <1>1, NotYetClean DEF LoopPoints
<1> QED
  BY <1>5, <1>6, PollInv DEF FInv

(* A row in a settled status is that of a job at rest.                     *)
LEMMA ReportFInv == ASSUME FInv, NEW m \in Member, Report(m) PROVE FInv'
<1>1. /\ pc = "report" /\ pc' = "report"
      /\ mem' = [mem EXCEPT ![m].enabled = ~(mem[m].seen = "error")]
      /\ mrow' = [mrow EXCEPT ![m] = [gen |-> mem[m].gen, st |-> mem[m].seen]]
      /\ UNCHANGED <<coord, jobs>>
  BY DEF Report
<1>2. \A k \in Member : mem'[k].gen = mem[k].gen /\ mem'[k].seen = mem[k].seen
  BY <1>1 DEF FInv, IInv, MemType
<1>3. \A k \in Member : IF k = m THEN mrow'[k].gen = mem[m].gen /\ mrow'[k].st = mem[m].seen
                                 ELSE mrow'[k] = mrow[k]
  BY <1>1 DEF FInv, IInv, MemType
<1>4. RestInv'
  BY <1>1, <1>2, <1>3 DEF FInv, RestInv, Accounted, Started, jobs
<1>5. CleanInv'
  BY <1>1, NotYetClean DEF LoopPoints
<1> QED
  BY <1>4, <1>5, ReportInv DEF FInv

(* The steps of the jobs keep what is accounted for.                       *)
LEMMA JobStepFInv == ASSUME FInv, NEW j \in Jobs, JobStep(j) PROVE FInv'
<1>1. JobsGoOn /\ RestSame
  BY JobStepFacts DEF FInv
<1>2. RestInv'
  BY <1>1, RestStays DEF RestSame
<1>3. CleanInv'
  BY <1>1, OutsideKeepsClean DEF RestSame
<1> QED
  BY <1>2, <1>3, JobStepInv DEF FInv

(* spawn-member replaces only a job that is accounted for.                 *)
LEMMA SpawnBeginsFInv == ASSUME FInv, NEW m \in Spawned, SpawnBegins(m) PROVE FInv'
<1>1. /\ m \in Member /\ mrow[m].st \in Settled /\ mrow[m].gen = 1 /\ ~Started(<<m, 2>>)
      /\ Begin(<<m, 2>>) /\ UNCHANGED <<loop, mrow, pipe>>
  BY JobsDiffer DEF SpawnBegins
<1>2. /\ Started(<<m, 2>>)'
      /\ \A k \in Jobs : k # <<m, 2>> => /\ Started(k)' <=> Started(k)
                                         /\ Accounted(k)' <=> Accounted(k)
  BY <1>1, BeginFacts, JobsDiffer DEF FInv, IInv
<1>3. Accounted(<<m, 1>>) /\ ~(pc = "spawn" /\ m \in todo)
  BY <1>1 DEF FInv, RestInv
<1>4. /\ \A k \in Member : (Started(<<k, 1>>)' <=> Started(<<k, 1>>))
                           /\ (Accounted(<<k, 1>>)' <=> Accounted(<<k, 1>>))
      /\ \A k \in Member \ {m} : Started(<<k, 2>>)' <=> Started(<<k, 2>>)
      /\ Started(<<Coordinator, 1>>)' <=> Started(<<Coordinator, 1>>)
  <2>1. \A k \in Member : <<k, 1>> \in Jobs /\ <<k, 1>> # <<m, 2>>
    BY JobsDiffer
  <2>2. \A k \in Member \ {m} : <<k, 2>> \in Jobs /\ <<k, 2>> # <<m, 2>>
    BY JobsDiffer
  <2>3. <<Coordinator, 1>> \in Jobs /\ <<Coordinator, 1>> # <<m, 2>>
    BY JobsDiffer
  <2> QED
    BY <1>2, <2>1, <2>2, <2>3
<1>5. RestInv'
  BY <1>1, <1>2, <1>3, <1>4 DEF FInv, RestInv, loop
<1>6. CleanInv'
  <2>1. ASSUME NEW w \in Who, JobOf(w)[2] # 0, Accounted(JobOf(w)) PROVE Accounted(JobOf(w))'
    <3>1. PICK k \in Jobs : k = JobOf(w)
      BY <2>1, JobOfIsJob DEF FInv
    <3>2. JobOf(w)' = JobOf(w)
      BY <1>1 DEF JobOf, Current, Adopted, loop
    <3>3. k # <<m, 2>>
      <4>1. k = <<Coordinator, coord>> \/ Started(k)
        BY <2>1, <3>1, JobOfIsJob DEF FInv
      <4> QED
        BY <1>1, <4>1, JobsDiffer
    <3>4. Accounted(k)'
      BY <1>2, <2>1, <3>1, <3>3
    <3> QED
      BY <3>1, <3>2, <3>4 DEF Accounted
  <2> QED
    BY <1>1, <2>1, CleanStays DEF loop
<1> QED
  BY <1>5, <1>6, SpawnBeginsInv DEF FInv

(* Its row is of the second generation.                                    *)
LEMMA SpawnWritesFInv == ASSUME FInv, NEW m \in Spawned, SpawnWrites(m) PROVE FInv'
<1>1. /\ m \in cli /\ m \in Member /\ UNCHANGED <<loop, jobs, pipe>>
      /\ mrow' = [mrow EXCEPT ![m] = [gen |-> 2, st |-> "starting"]]
  BY JobsDiffer DEF SpawnWrites
<1>2. mrow'[m].gen = 2 /\ \A k \in Member \ {m} : mrow'[k] = mrow[k]
  BY <1>1 DEF FInv, IInv, MemType
<1>3. ~(pc = "spawn" /\ m \in todo)
  BY <1>1 DEF FInv, IInv, MemberInv, RestInv
<1>4. RestInv'
  BY <1>1, <1>2, <1>3 DEF FInv, RestInv, Accounted, Started, loop, jobs
<1>5. CleanInv'
  BY <1>1, SameJobs, OutsideKeepsClean DEF FInv, IInv, loop
<1> QED
  BY <1>4, <1>5, SpawnWritesInv DEF FInv

(* Commands that write or read rows leave the jobs alone.                  *)
LEMMA RecordsFInv == ASSUME FInv, CompleteNode \/ StopNode PROVE FInv'
<1>1. UNCHANGED <<loop, mrow, jobs>>
  BY DEF CompleteNode, StopNode
<1>2. JobsGoOn
  BY <1>1, SameJobs DEF FInv, IInv
<1>3. RestInv' /\ CleanInv'
  BY <1>1, <1>2, RestStays, OutsideKeepsClean DEF loop
<1> QED
  BY <1>3, RecordsInv DEF FInv

(* Commands that signal or settle a job keep what is accounted for.        *)
LEMMA JobCommandFInv ==
    ASSUME FInv, NEW j \in Jobs, SignalNext(j) \/ StopOneJob(j) \/ FinalizeJob(j) PROVE FInv'
<1>1. /\ JobsGoOn /\ pc' \in {pc, "dead"}
      /\ UNCHANGED <<coord, mem, mrow, todo, waitee, failed>>
  BY JobCommandFacts DEF FInv
<1>2. RestInv' /\ CleanInv'
  BY <1>1, RestStays, OutsideKeepsClean
<1> QED
  BY <1>2, JobCommandInv DEF FInv

-----------------------------------------------------------------------------
(* Every step keeps the full invariant.                                    *)
LEMMA NextFInv == FInv /\ [Next]_vars => FInv'
<1> SUFFICES ASSUME FInv, [Next]_vars PROVE FInv'
  OBVIOUS
<1>1. CASE Loop
  BY <1>1, SpawnMemberFInv, ReportFInv, OtherPointsFInv, CoordinatorStartsFInv, PollFInv,
     DecisionFInv, CleanUpFInv DEF Loop, Decision, OtherPoint
<1>2. CASE \E j \in Jobs : JobStep(j)
  BY <1>2, JobStepFInv
<1>3. CASE Command
  BY <1>3, SpawnBeginsFInv, SpawnWritesFInv, RecordsFInv, JobCommandFInv DEF Command
<1>4. CASE UNCHANGED vars
  <2>1. UNCHANGED <<loop, row, mrow, jobs, pipe, outside>>
    BY <1>4 DEF vars
  <2>2. JInv' /\ JobsGoOn
    BY <2>1, SameJobs DEF FInv, IInv
  <2>3. OutsideType' /\ row' \in RowStates
    BY <2>1 DEF FInv, IInv, OutsideType, LoopType, RowStates, NodeStates, outside
  <2>4. IInv'
    BY <2>1, <2>2, <2>3, OutsideStep DEF FInv, loop, outside
  <2>5. RestInv' /\ CleanInv'
    BY <2>1, <2>2, RestStays, OutsideKeepsClean DEF loop
  <2> QED
    BY <2>4, <2>5 DEF FInv
<1> QED
  BY <1>1, <1>2, <1>3, <1>4 DEF Next

(* So it always holds.                                                     *)
LEMMA Invariant == Spec => []FInv
<1> QED
  BY InitFInv, NextFInv, PTL DEF Spec

(* Every variable of a node's run has its type, whatever the members do    *)
(* and the operators order; while its loop goes on the node is in a state  *)
(* from which VALID_STATE_TRANSITIONS has a way on.                        *)
THEOREM NodeTypeCorrect == Spec => []NodeTypeOK
<1>1. FInv => NodeTypeOK
  BY TypeParts DEF FInv
<1> QED
  BY <1>1, Invariant, PTL

(* Two coordinators of one node live at once only if another settled the   *)
(* row of the first while its supervisor lived, or the first is being      *)
(* killed: restartCoordinator starts the second over a row at rest, and a  *)
(* supervisor writes such a row of its own only when it ends or is killed. *)
THEOREM OneCoordinatorTheorem == Spec => []OneCoordinator
<1>1. FInv => OneCoordinator
  <2> SUFFICES ASSUME FInv PROVE OneCoordinator
    OBVIOUS
  <2>1. CASE coord = 2
    BY <2>1 DEF FInv, IInv, CoordInv, OneCoordinator
  <2>2. CASE coord < 2
    <3>1. ~Started(<<Coordinator, 2>>)
      BY <2>2 DEF FInv, IInv, CoordInv
    <3>2. at[<<Coordinator, 2>>] = "none"
      BY <3>1, JobsDiffer DEF FInv, IInv, JInv, JobInv
    <3> QED
      BY <3>2 DEF OneCoordinator, Lives
  <2>3. coord \in 0..2
    BY DEF FInv, IInv, LoopType
  <2> QED
    BY <2>1, <2>2, <2>3
<1> QED
  BY <1>1, Invariant, PTL

(* When run() has returned, each job that its process ever started has     *)
(* ended or is being killed, had its row settled by another, or is on      *)
(* record as a failed cleanup: a member that spawnMembers did not reach, a *)
(* coordinator or a generation that was replaced, and a job that has no    *)
(* pipe to be told on, all the same.                                       *)
THEOREM NothingLeftBehindTheorem == Spec => []NothingLeftBehind
<1>1. FInv => NothingLeftBehind
  <2> SUFFICES ASSUME FInv, pc = "returned", NEW j \in Jobs, Local(j), Started(j),
                      ~Accounted(j)
               PROVE  j \in failed
    BY DEF NothingLeftBehind
  <2>1. \A w \in Who : JobOf(w)[2] # 0 => Covered(JobOf(w))
    BY DEF FInv, CleanInv
  <2>2. PICK w \in Who, n \in {1, 2} : j = <<w, n>>
    BY DEF Jobs
  <2>3. j = JobOf(w) /\ JobOf(w)[2] # 0
    <3>1. CASE w = Coordinator
      <4>1. coord \in {0, 1, 2}
        BY DEF FInv, IInv, LoopType
      <4>2. coord = n
        <5>1. coord = 0 => ~Started(<<Coordinator, 1>>) /\ ~Started(<<Coordinator, 2>>)
          BY DEF FInv, IInv, CoordInv, RestInv
        <5>2. coord = 1 => ~Started(<<Coordinator, 2>>)
          BY DEF FInv, IInv, CoordInv
        <5>3. coord = 2 => Accounted(<<Coordinator, 1>>)
          BY DEF FInv, IInv, CoordInv
        <5> QED
          BY <2>2, <3>1, <4>1, <5>1, <5>2, <5>3
      <4> QED
        BY <2>2, <3>1, <4>2 DEF JobOf, Current
    <3>2. CASE w # Coordinator
      <4>1. w \in Member /\ n = 1
        BY <2>2, <3>2 DEF Local, Who
      <4>2. mem[w].gen \in {0, 1, 2}
        <5>1. mem[w].gen \in 0..2
          BY <4>1, GensAreJobs DEF FInv
        <5> QED
          BY <5>1
      <4>3. mem[w].gen # 0
        BY <2>2, <4>1 DEF FInv, RestInv
      <4>4. mem[w].gen # 2
        <5>1. mem[w].gen = 2 => Started(<<w, 2>>)
          BY <4>1 DEF FInv, IInv, MemberInv
        <5>2. Started(<<w, 2>>) => Accounted(<<w, 1>>)
          BY <4>1 DEF FInv, RestInv
        <5> QED
          BY <2>2, <4>1, <5>1, <5>2
      <4> QED
        BY <2>2, <3>2, <4>1, <4>2, <4>3, <4>4 DEF JobOf, Adopted
    <3> QED
      BY <3>1, <3>2
  <2> QED
    BY <2>1, <2>3 DEF Covered
<1> QED
  BY <1>1, Invariant, PTL
=============================================================================
