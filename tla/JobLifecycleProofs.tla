-------------------------- MODULE JobLifecycleProofs --------------------------
(***************************************************************************)
(* The row of a job that has ended never becomes active again and no parent *)
(* is told done of a run that did not complete: for any jobs, operators,    *)
(* readers and crashes, and whatever the probes misjudge.                  *)
(*                                                                         *)
(* JInv is proved one group of variables after the other: first what each   *)
(* process may write of the group, then that the writes keep its part.      *)
(***************************************************************************)
EXTENDS JobLifecycle, TLAPS

Statuses == Active \cup Terminal
Settled  == {"done", "error"}
Stages   == {"idle", "resume", "close", "finalize", "line", "look", "update", "write",
             "signal", "kill", "slay", "reap"}
Order    == [cmd : Commands \cup {"none"}, job : Job \cup {"none"}, at : Stages,
             mark : Terminal \cup {"none"}, then : Stages \cup {"none"}]

(* JobTypeOK, by what changes together.                                    *)
RowType  == row \in [Job -> Statuses \cup {"none"}] /\ recency \subseteq Job \X Job
LogType  == /\ complete \in [Job -> SUBSET {"turn", "final", "failed"}]
            /\ told \in [Job -> SUBSET Settled]
PcType   == pc \in [Job -> Places] /\ sig \in [Job -> {"none", "sent", "run"}]
SnapType == snap \in [Job -> Statuses] /\ exit \in [Job -> {"none", "closed", "fatal"}]
RunType  == /\ resuming \in [Job -> Nat] /\ closing \in [Job -> Nat]
            /\ killed \in [Job -> BOOLEAN] /\ watch \in [Job -> {"on", "closed", "off"}]
PipeType == /\ pipe \in [Job -> Seq({"resume", "close"})]
            /\ \A j \in Job : Len(pipe[j]) <= PipeBound
ReadType == reader \in [Job -> {"none", "list", "one"}]
GhostType == ghost \in [Job -> {"none", "reused", "notmux", "late"}]
OpType   == op \in [Op -> Order]

(* A job without a row is known to nobody.                                  *)
RowInv ==
    /\ \A j \in Job : pc[j] = "unborn" <=> row[j] = "none"
    /\ \A j \in Job : reader[j] # "none" => row[j] # "none"
    /\ \A o \in Op : op[o].at # "idle" => op[o].job \in Job /\ row[op[o].job] # "none"
    /\ \A o \in Op : op[o].at \in {"update", "write"} =>
          op[o].mark \in Terminal /\ op[o].then \in Stages \ {"update", "write"}

(* What a run that is over tells its parent, it has logged.                 *)
TellInv ==
    /\ \A j \in Job : pc[j] = "telling" => snap[j] \in Settled
    /\ \A j \in Job : pc[j] = "telling" /\ snap[j] = "done" => "final" \in complete[j]
    /\ DoneIsFinal

JInv == /\ RowType /\ LogType /\ PcType /\ SnapType /\ RunType /\ PipeType /\ ReadType /\ OpType
        /\ GhostType /\ RowInv /\ TellInv

-----------------------------------------------------------------------------
(* Writing a row                                                           *)

(* The new updated_at_ms relates jobs only.                                *)
LEMMA StampedType ==
    ASSUME NEW j \in Job, NEW order, order \subseteq Job \X Job,
           NEW new, new \in Stamped(j, order)
    PROVE  new \subseteq Job \X Job
<1>1. PICK K : K \in {Others(j), Outdated(j, order)} /\ new = After(j, K, order)
  BY DEF Stamped
<1>2. K \subseteq Job
  BY <1>1 DEF Others, Outdated
<1> QED
  BY <1>1, <1>2 DEF After

(* A row is written.                                                       *)
LEMMA PutType ==
    ASSUME RowType, NEW j \in Job, NEW s \in Statuses, Put(j, s)
    PROVE  /\ RowType'
           /\ \A k \in Job : row'[k] = IF k = j THEN s ELSE row[k]
<1>1. /\ row' \in [Job -> Statuses \cup {"none"}]
      /\ \A k \in Job : row'[k] = IF k = j THEN s ELSE row[k]
  BY DEF RowType, Put
<1>2. recency' \subseteq Job \X Job
  BY StampedType DEF RowType, Put
<1> QED
  BY <1>1, <1>2 DEF RowType

(* A start takes over the row of an orphan.                                *)
Takeover(j, h) ==
    /\ pc[j] = "written" /\ h # j /\ row[h] \in Active
    /\ row' = [row EXCEPT ![h] = "cancelled", ![j] = "starting"]
    /\ \E order \in Stamped(h, recency) : recency' \in Stamped(j, order)

(* Both rows are written, that of the start last.                          *)
LEMMA TakeoverType ==
    ASSUME RowType, NEW j \in Job, NEW h \in Job, Takeover(j, h), row[j] # "none"
    PROVE  /\ RowType'
           /\ \A k \in Job : row'[k] = IF k = j THEN "starting"
                                       ELSE IF k = h THEN "cancelled" ELSE row[k]
<1>1. \A k \in Job : row'[k] = IF k = j THEN "starting"
                               ELSE IF k = h THEN "cancelled" ELSE row[k]
  BY DEF RowType, Takeover
<1>2. row' \in [Job -> Statuses \cup {"none"}]
  BY DEF RowType, Takeover, Statuses, Active, Terminal
<1>3. PICK order \in Stamped(h, recency) : recency' \in Stamped(j, order)
  BY DEF Takeover
<1>4. order \subseteq Job \X Job
  BY <1>3, StampedType DEF RowType
<1>5. recency' \subseteq Job \X Job
  BY <1>3, <1>4, StampedType
<1> QED
  BY <1>1, <1>2, <1>5 DEF RowType

-----------------------------------------------------------------------------
(* What a step may write of the rows                                       *)

(* The supervisor writes its own row, and a claim that of an orphan.        *)
LEMMA ProcessRow ==
    ASSUME JInv, NEW j \in Job, Process(j)
    PROVE  \/ UNCHANGED <<row, recency>>
           \/ \E s \in Statuses : Put(j, s)
           \/ \E h \in Job : Takeover(j, h)
<1>1. snap[j] \in Statuses
  BY DEF JInv, SnapType
<1>2. \A s \in Settled \cup Active : s \in Statuses
  BY DEF Settled, Statuses, Terminal
<1>3. CASE Claim(j)
  <2>1. CASE Put(j, "starting")
    BY <2>1 DEF Statuses, Active
  <2>2. CASE \E h \in ActiveRows \ {j} : Takeover(j, h)
    BY <2>2 DEF ActiveRows
  <2> QED
    BY <1>3, <2>1, <2>2 DEF Claim, Takeover, ActiveRows
<1>4. CASE Launch(j) \/ Refuse(j) \/ SessionUp(j) \/ Event(j) \/ AgentEnd(j) \/ ResumeReady(j)
           \/ RunnerReturns(j) \/ Nudged(j)
  BY <1>1, <1>4 DEF Launch, Refuse, SessionUp, Event, AgentEnd, ResumeReady, RunnerReturns, Nudged,
                    SetStatus, db, Statuses, Active
<1>5. CASE Fail(j) \/ Complete(j) \/ Notify(j) \/ TakeResume(j) \/ ResumeReturns(j)
           \/ ResumeThrows(j)
  BY <1>5 DEF Fail, Complete, Notify, TakeResume, ResumeReturns, ResumeThrows,
              SetStatus, db, Statuses, Active, Terminal
<1>6. CASE TakeClose(j) \/ CloseReturns(j) \/ CloseThrows(j) \/ AutoCloses(j) \/ Stall(j)
           \/ Sigterm(j)
  BY <1>1, <1>6 DEF TakeClose, CloseReturns, CloseThrows, AutoCloses, Stall, Sigterm,
                    SetStatus, db, Statuses, Terminal
<1> QED
  BY <1>3, <1>4, <1>5, <1>6 DEF Process

(* A command and a reader write an end into the row of a job that has one.  *)
Finishes(j) == \E s \in Terminal : Put(j, s)

(* Nothing outside a supervisor writes an active status.                   *)
LEMMA OutsideRow ==
    ASSUME JInv,
           \/ \E j \in Job : Crash(j) \/ Misprobe(j) \/ ReadRow(j) \/ ReadOne(j) \/ Repair(j)
           \/ \E o \in Op : Operator(o)
    PROVE  \/ UNCHANGED <<row, recency>>
           \/ \E j \in Job : Finishes(j) /\ row[j] # "none"
<1> DEFINE Goal == \/ UNCHANGED <<row, recency>>
                   \/ \E j \in Job : Finishes(j) /\ row[j] # "none"
<1>1. ASSUME NEW j \in Job, Crash(j) \/ Misprobe(j) \/ ReadRow(j) \/ ReadOne(j) PROVE Goal
  BY <1>1 DEF Crash, Misprobe, ReadRow, ReadOne, db
<1>2. ASSUME NEW j \in Job, Repair(j) PROVE Goal
  <2>1. row[j] # "none"
    BY <1>2 DEF Repair, JInv, RowInv
  <2>2. UNCHANGED <<row, recency>> \/ Finishes(j)
    BY <1>2 DEF Repair, Finishes, Terminal, db
  <2> QED
    BY <2>1, <2>2
<1>3. ASSUME NEW o \in Op, Operator(o) PROVE Goal
  <2>1. op[o].at # "idle" => op[o].job \in Job /\ row[op[o].job] # "none"
    BY DEF JInv, RowInv
  <2>2. op[o].at = "write" => op[o].mark \in Terminal
    BY DEF JInv, RowInv
  <2>3. CASE WriteStatus(o)
    <3>1. op[o].at = "write" /\ Put(op[o].job, op[o].mark)
      BY <2>3 DEF WriteStatus
    <3> QED
      BY <2>1, <2>2, <3>1 DEF Finishes
  <2>4. CASE \/ (\E cmd \in Commands, j \in Job : Issue(o, cmd, j))
             \/ WritePipe(o) \/ FinalizeWaiting(o) \/ Look(o) \/ Reread(o) \/ SendSigterm(o)
             \/ ForceKill(o) \/ Slay(o) \/ Reap(o)
    BY <2>4 DEF Issue, WritePipe, FinalizeWaiting, Look, Reread, SendSigterm, ForceKill, Slay,
                Reap, db
  <2> QED
    BY <1>3, <2>3, <2>4 DEF Operator
<1> QED
  BY <1>1, <1>2, <1>3

(* A job is misjudged in one way, and for good.                             *)
LEMMA GhostStep ==
    ASSUME GhostType, [Next]_vars
    PROVE  GhostType'
<1>1. \/ ghost' = ghost
      \/ \E j \in Job, g \in {"reused", "notmux", "late"} : ghost' = [ghost EXCEPT ![j] = g]
  <2>1. ASSUME NEW j \in Job, Process(j)
        PROVE  ghost' = ghost \/ ghost' = [ghost EXCEPT ![j] = "late"]
    BY <2>1 DEF Process, Launch, Claim, Refuse, SessionUp, Event, AgentEnd, ResumeReady,
                RunnerReturns, Nudged, Fail, Complete, Notify, TakeResume, ResumeReturns,
                ResumeThrows, TakeClose, CloseReturns, CloseThrows, AutoCloses, Stall,
                Sigterm, world
  <2>2. ASSUME NEW j \in Job, Crash(j) \/ Misprobe(j) \/ ReadRow(j) \/ ReadOne(j) \/ Repair(j)
        PROVE  ghost' = ghost \/ \E g \in {"reused", "notmux"} : ghost' = [ghost EXCEPT ![j] = g]
    BY <2>2 DEF Crash, Misprobe, ReadRow, ReadOne, Repair, world
  <2>3. ASSUME NEW o \in Op, Operator(o)
        PROVE  ghost' = ghost
    BY <2>3 DEF Operator, Issue, WritePipe, FinalizeWaiting, Look, Reread, WriteStatus,
                SendSigterm, ForceKill, Slay, Reap, world
  <2> QED
    BY <2>1, <2>2, <2>3 DEF Next, vars, world
<1> QED
  BY <1>1 DEF GhostType

-----------------------------------------------------------------------------
(* The step of a supervisor                                                *)

(* Where its run goes: every run over was written as done or error before.  *)
LEMMA ProcessPc ==
    ASSUME JInv, NEW j \in Job, Process(j)
    PROVE  /\ PcType' /\ pc'[j] # "unborn"
           /\ \A k \in Job \ {j} : pc'[k] = pc[k]
<1>1. CASE \/ Launch(j) \/ Claim(j) \/ Refuse(j) \/ SessionUp(j) \/ ResumeReady(j)
           \/ RunnerReturns(j) \/ Nudged(j)
           \/ Fail(j) \/ Complete(j) \/ Notify(j)
  <2>1. PICK l \in Places \ {"unborn"} : Goto(j, l)
    BY <1>1 DEF Launch, Claim, Refuse, SessionUp, ResumeReady, RunnerReturns, Nudged, Fail,
                Complete, Notify,
                Goto, Places, Looping
  <2>2. sig' = sig
    BY <1>1 DEF Launch, Claim, Refuse, SessionUp, ResumeReady, RunnerReturns, Nudged, Fail,
                Complete, Notify
  <2> QED
    BY <2>1, <2>2 DEF Goto, JInv, PcType
<1>2. CASE \/ Event(j) \/ AgentEnd(j) \/ TakeResume(j) \/ ResumeReturns(j) \/ ResumeThrows(j)
           \/ TakeClose(j) \/ CloseReturns(j) \/ CloseThrows(j) \/ AutoCloses(j) \/ Stall(j)
           \/ Sigterm(j)
  <2>1. pc' = pc /\ Free(j)
    BY <1>2 DEF Event, AgentEnd, TakeResume, ResumeReturns, ResumeThrows, TakeClose, CloseReturns,
                CloseThrows, AutoCloses, Stall, Sigterm
  <2>2. sig' = sig \/ sig' = [sig EXCEPT ![j] = "run"]
    BY <1>2 DEF Event, AgentEnd, TakeResume, ResumeReturns, ResumeThrows, TakeClose, CloseReturns,
                CloseThrows, AutoCloses, Stall, Sigterm
  <2> QED
    BY <2>1, <2>2 DEF Free, Looping, JInv, PcType
<1> QED
  BY <1>1, <1>2 DEF Process

(* What it logs and tells.                                                  *)
LEMMA ProcessLog ==
    ASSUME JInv, NEW j \in Job, Process(j)
    PROVE  /\ LogType'
           /\ \A k \in Job : complete[k] \subseteq complete'[k]
           /\ \A k \in Job : told'[k] = told[k] \/ (k = j /\ pc[j] = "telling"
                                                     /\ told'[k] = told[k] \cup {snap[j]})
<1>1. complete \in [Job -> SUBSET {"turn", "final", "failed"}] /\ told \in [Job -> SUBSET Settled]
  BY DEF JInv, LogType
<1>2. CASE Notify(j)
  <2>1. pc[j] = "telling" /\ Tell(j, snap[j]) /\ complete' = complete /\ snap[j] \in Settled
    BY <1>2 DEF Notify, JInv, TellInv
  <2> QED
    BY <1>1, <2>1 DEF Tell, LogType
<1>3. CASE /\ told' = told
           /\ complete' = complete \/ \E e \in {"turn", "final", "failed"} : Log(j, e)
  BY <1>1, <1>3 DEF Log, LogType
<1>4. CASE \/ Launch(j) \/ Claim(j) \/ Refuse(j) \/ SessionUp(j) \/ Event(j) \/ AgentEnd(j)
           \/ ResumeReady(j)
           \/ RunnerReturns(j) \/ Nudged(j) \/ Fail(j) \/ Complete(j)
  BY <1>3, <1>4 DEF Launch, Claim, Refuse, SessionUp, Event, AgentEnd, ResumeReady, RunnerReturns,
                    Nudged,
                    Fail, Complete, db
<1>5. CASE \/ TakeResume(j) \/ ResumeReturns(j) \/ ResumeThrows(j) \/ TakeClose(j)
           \/ CloseReturns(j) \/ CloseThrows(j) \/ AutoCloses(j) \/ Stall(j) \/ Sigterm(j)
  BY <1>3, <1>5 DEF TakeResume, ResumeReturns, ResumeThrows, TakeClose, CloseReturns, CloseThrows,
                    AutoCloses, Stall, Sigterm, db
<1> QED
  BY <1>2, <1>4, <1>5 DEF Process

(* What it keeps in memory.                                                 *)
LEMMA ProcessSnap ==
    ASSUME JInv, NEW j \in Job, Process(j)
    PROVE  SnapType' /\ \A k \in Job \ {j} : snap'[k] = snap[k]
<1>1. snap \in [Job -> Statuses] /\ exit \in [Job -> {"none", "closed", "fatal"}]
  BY DEF JInv, SnapType
<1>2. /\ snap' = snap \/ \E s \in Statuses : snap' = [snap EXCEPT ![j] = s]
      /\ exit' = exit \/ \E e \in {"closed", "fatal"} : Exit(j, e)
  <2>1. CASE \/ Launch(j) \/ Claim(j) \/ Refuse(j) \/ SessionUp(j) \/ Event(j) \/ AgentEnd(j)
             \/ ResumeReady(j)
             \/ RunnerReturns(j) \/ Nudged(j) \/ Fail(j) \/ Complete(j) \/ Notify(j)
    BY <2>1 DEF Launch, Claim, Refuse, SessionUp, Event, AgentEnd, ResumeReady, RunnerReturns,
                Nudged,
                Fail, Complete, Notify, mem, SetStatus, Statuses, Active, Terminal
  <2>2. CASE \/ TakeResume(j) \/ ResumeReturns(j) \/ ResumeThrows(j) \/ TakeClose(j)
             \/ CloseReturns(j)
    BY <2>2 DEF TakeResume, ResumeReturns, ResumeThrows, TakeClose, CloseReturns, StartClose,
                SetStatus, Statuses, Active, Terminal
  <2>3. CASE CloseThrows(j) \/ AutoCloses(j) \/ Stall(j) \/ Sigterm(j)
    BY <2>3 DEF CloseThrows, AutoCloses, Stall, Sigterm, StartClose,
                SetStatus, Statuses, Active, Terminal
  <2> QED
    BY <2>1, <2>2, <2>3 DEF Process
<1> QED
  BY <1>1, <1>2 DEF SnapType, Exit

(* The flags of the keep-alive loop.                                       *)
LEMMA ProcessRun ==
    ASSUME JInv, NEW j \in Job, Process(j)
    PROVE  RunType'
<1>1. /\ resuming \in [Job -> Nat] /\ closing \in [Job -> Nat] /\ killed \in [Job -> BOOLEAN]
      /\ watch \in [Job -> {"on", "closed", "off"}]
  BY DEF JInv, RunType
<1>2. resuming' \in [Job -> Nat]
  <2>1. \/ resuming' = resuming
        \/ resuming' = [resuming EXCEPT ![j] = @ + 1]
        \/ resuming[j] > 0 /\ resuming' = [resuming EXCEPT ![j] = @ - 1]
    BY DEF Process, Launch, Claim, Refuse, SessionUp, Event, AgentEnd, ResumeReady,
           RunnerReturns, Nudged, Fail, Complete, Notify, TakeResume, ResumeReturns,
           ResumeThrows, TakeClose, CloseReturns, CloseThrows, AutoCloses, Stall,
           Sigterm, mem
  <2> QED
    BY <1>1, <2>1
<1>3. closing' \in [Job -> Nat]
  <2>1. \/ closing' = closing
        \/ closing' = [closing EXCEPT ![j] = @ + 1]
        \/ closing[j] > 0 /\ closing' = [closing EXCEPT ![j] = @ - 1]
    BY DEF Process, Launch, Claim, Refuse, SessionUp, Event, AgentEnd, ResumeReady,
           RunnerReturns, Nudged, Fail, Complete, Notify, TakeResume, ResumeReturns,
           ResumeThrows, TakeClose, CloseReturns, CloseThrows, AutoCloses, Stall,
           Sigterm, StartClose, mem
  <2> QED
    BY <1>1, <2>1
<1>4. killed' \in [Job -> BOOLEAN]
  <2>1. killed' = killed \/ \E b \in BOOLEAN : killed' = [killed EXCEPT ![j] = b]
    <3>1. (killed[j] \/ pc[j] # "spawn") \in BOOLEAN
      BY <1>1
    <3>2. \/ killed' = killed
          \/ killed' = [killed EXCEPT ![j] = TRUE]
          \/ killed' = [killed EXCEPT ![j] = @ \/ pc[j] # "spawn"]
      BY DEF Process, Launch, Claim, Refuse, SessionUp, Event, AgentEnd, ResumeReady,
             RunnerReturns, Nudged, Fail, Complete, Notify, TakeResume, ResumeReturns,
             ResumeThrows, TakeClose, CloseReturns, CloseThrows, AutoCloses, Stall,
             Sigterm, KillSession, mem
    <3> QED
      BY <3>1, <3>2
  <2> QED
    BY <1>1, <2>1
<1>5. watch' \in [Job -> {"on", "closed", "off"}]
  <2>1. watch' = watch \/ \E w \in {"closed", "off"} : watch' = [watch EXCEPT ![j] = w]
    BY DEF Process, Launch, Claim, Refuse, SessionUp, Event, AgentEnd, ResumeReady,
           RunnerReturns, Nudged, Fail, Complete, Notify, TakeResume, ResumeReturns,
           ResumeThrows, TakeClose, CloseReturns, CloseThrows, AutoCloses, Stall,
           Sigterm, mem
  <2> QED
    BY <1>1, <2>1
<1> QED
  BY <1>2, <1>3, <1>4, <1>5 DEF RunType

(* What it takes from its pipe.                                             *)
LEMMA PipeTaken ==
    ASSUME NEW S, NEW s \in Seq(S), s # <<>>
    PROVE  Tail(s) \in Seq(S) /\ Len(Tail(s)) <= Len(s)
OBVIOUS

(* It knows nothing of readers and commands.                               *)
LEMMA ProcessPipe ==
    ASSUME JInv, NEW j \in Job, Process(j)
    PROVE  PipeType' /\ UNCHANGED <<reader, op>>
<1>1. /\ \/ pipe' = pipe
         \/ pipe[j] # <<>> /\ pipe' = [pipe EXCEPT ![j] = Tail(pipe[j])]
      /\ UNCHANGED <<reader, op>>
  BY DEF Process, Launch, Claim, Refuse, SessionUp, Event, AgentEnd, ResumeReady, RunnerReturns,
         Nudged,
         Fail, Complete, Notify, TakeResume, ResumeReturns, ResumeThrows, TakeClose,
         CloseReturns, CloseThrows, AutoCloses, Stall, Sigterm
<1>2. pipe \in [Job -> Seq({"resume", "close"})] /\ \A k \in Job : Len(pipe[k]) <= PipeBound
  BY DEF JInv, PipeType
<1>3. pipe[j] # <<>> =>
         Tail(pipe[j]) \in Seq({"resume", "close"}) /\ Len(Tail(pipe[j])) <= PipeBound
  <2>1. pipe[j] \in Seq({"resume", "close"}) /\ Len(pipe[j]) <= PipeBound /\ PipeBound \in Nat
    BY <1>2, JobAssumption
  <2>2. ASSUME pipe[j] # <<>> PROVE Len(Tail(pipe[j])) \in Nat /\ Len(pipe[j]) \in Nat
    BY <2>1, <2>2, PipeTaken
  <2> QED
    BY <2>1, <2>2, PipeTaken
<1> QED
  BY <1>1, <1>2, <1>3 DEF PipeType

(* A run ends as an error, or as done once it has logged its final event.   *)
LEMMA ProcessTell ==
    ASSUME JInv, NEW j \in Job, Process(j), pc'[j] = "telling"
    PROVE  snap'[j] = "error" \/ (snap'[j] = "done" /\ "final" \in complete'[j])
<1>1. /\ pc \in [Job -> Places] /\ snap \in [Job -> Statuses]
      /\ complete \in [Job -> SUBSET {"turn", "final", "failed"}]
  BY DEF JInv, PcType, SnapType, LogType
<1>2. CASE Fail(j)
  BY <1>1, <1>2 DEF Fail, SetStatus
<1>3. CASE Complete(j)
  BY <1>1, <1>3 DEF Complete, SetStatus, Log
<1>4. CASE \/ Launch(j) \/ Claim(j) \/ Refuse(j) \/ SessionUp(j) \/ ResumeReady(j)
           \/ RunnerReturns(j) \/ Nudged(j)
           \/ Notify(j)
  <2>1. \E l \in Places \ {"telling"} : Goto(j, l)
    BY <1>4 DEF Launch, Claim, Refuse, SessionUp, ResumeReady, RunnerReturns, Nudged, Notify,
                Goto, Places, Looping
  <2> QED
    BY <1>1, <2>1 DEF Goto
<1>5. CASE \/ Event(j) \/ AgentEnd(j) \/ TakeResume(j) \/ ResumeReturns(j) \/ ResumeThrows(j)
           \/ TakeClose(j) \/ CloseReturns(j) \/ CloseThrows(j) \/ AutoCloses(j) \/ Stall(j)
           \/ Sigterm(j)
  <2>1. pc' = pc /\ Free(j)
    BY <1>5 DEF Event, AgentEnd, TakeResume, ResumeReturns, ResumeThrows, TakeClose, CloseReturns,
                CloseThrows, AutoCloses, Stall, Sigterm
  <2> QED
    BY <2>1 DEF Free, Looping
<1> QED
  BY <1>2, <1>3, <1>4, <1>5 DEF Process

(* The process of a job writes rows of jobs that are known, or its first.   *)
LEMMA ProcessBorn ==
    ASSUME JInv, NEW j \in Job, Process(j)
    PROVE  /\ RowType'
           /\ \A k \in Job : row'[k] = "none" <=> (row[k] = "none" /\ k # j)
<1>1. RowType /\ \A k \in Job : pc[k] = "unborn" <=> row[k] = "none"
  BY DEF JInv, RowInv
<1>2. \A s \in Statuses : s # "none"
  BY DEF Statuses, Active, Terminal
<1>3. CASE \E s \in Statuses : Put(j, s)
  BY <1>1, <1>2, <1>3, PutType
<1>4. CASE \E h \in Job : Takeover(j, h)
  <2>1. PICK h \in Job : Takeover(j, h)
    BY <1>4
  <2>2. row[j] # "none" /\ row[h] # "none"
    BY <1>1, <2>1 DEF Takeover, Active
  <2> QED
    BY <1>1, <2>1, <2>2, TakeoverType
<1>5. CASE UNCHANGED <<row, recency>>
  <2>1. RowType'
    BY <1>1, <1>5 DEF RowType
  <2>2. ~Launch(j)
    <3>1. ASSUME Launch(j) PROVE FALSE
      BY <1>1, <1>5, <3>1 DEF Launch, Put, RowType
    <3> QED
      BY <3>1
  <2>3. pc[j] # "unborn"
    BY <2>2 DEF Process, Claim, Refuse, SessionUp, Event, AgentEnd, ResumeReady, RunnerReturns,
                Nudged, Fail,
                Complete, Notify, TakeResume, ResumeReturns, ResumeThrows, TakeClose, CloseReturns,
                CloseThrows, AutoCloses, Stall, Sigterm, Free, Looping
  <2> QED
    BY <1>1, <1>5, <2>1, <2>3
<1> QED
  BY <1>3, <1>4, <1>5, ProcessRow

(* Every step of a supervisor keeps the invariant.                         *)
LEMMA ProcessKeeps ==
    ASSUME JInv, NEW j \in Job, Process(j)
    PROVE  JInv'
<1>0. GhostType'
  BY GhostStep DEF JInv, Next
<1>1. PcType' /\ pc'[j] # "unborn" /\ \A k \in Job \ {j} : pc'[k] = pc[k]
  BY ProcessPc
<1>2. RowType' /\ \A k \in Job : row'[k] = "none" <=> (row[k] = "none" /\ k # j)
  BY ProcessBorn
<1>3. PipeType' /\ reader' = reader /\ op' = op
  BY ProcessPipe
<1>4. /\ LogType'
      /\ \A k \in Job : complete[k] \subseteq complete'[k]
      /\ \A k \in Job : told'[k] = told[k] \/ (k = j /\ pc[j] = "telling"
                                                /\ told'[k] = told[k] \cup {snap[j]})
  BY ProcessLog
<1>5. SnapType' /\ \A k \in Job \ {j} : snap'[k] = snap[k]
  BY ProcessSnap
<1>6. RunType'
  BY ProcessRun
<1>7. ReadType' /\ OpType'
  BY <1>3 DEF JInv, ReadType, OpType
<1>8. RowInv'
  <2>1. RowInv
    BY DEF JInv
  <2> QED
    BY <1>1, <1>2, <1>3, <2>1 DEF RowInv
<1>9. TellInv'
  <2>1. TellInv
    BY DEF JInv
  <2>2. \A k \in Job : pc'[k] = "telling" =>
           snap'[k] \in Settled /\ (snap'[k] = "done" => "final" \in complete'[k])
    BY <1>1, <1>4, <1>5, <2>1, ProcessTell DEF TellInv, Settled
  <2>3. DoneIsFinal'
    BY <1>4, <2>1 DEF TellInv, DoneIsFinal
  <2> QED
    BY <2>2, <2>3 DEF TellInv
<1> QED
  BY <1>0, <1>1, <1>2, <1>3, <1>4, <1>5, <1>6, <1>7, <1>8, <1>9 DEF JInv

-----------------------------------------------------------------------------
(* The step of a reader, of an operator, of a crash                        *)

Outside ==
    \/ \E j \in Job : Crash(j) \/ Misprobe(j) \/ ReadRow(j) \/ ReadOne(j) \/ Repair(j)
    \/ \E o \in Op : Operator(o)

(* All it does to a process is end it, or ask it to end.                    *)
Killed(j) == Alive(j) /\ Goto(j, "dead")

(* It never wakes a process that is gone.                                  *)
LEMMA OutsidePc ==
    ASSUME JInv, Outside
    PROVE  /\ PcType' /\ UNCHANGED mem
           /\ \A k \in Job : pc'[k] = pc[k] \/ (Alive(k) /\ pc'[k] = "dead")
<1> DEFINE Kept == UNCHANGED <<mem, sig, pc>>
           Ended(j) == UNCHANGED <<mem, sig>> /\ Killed(j)
           Asked(j) == UNCHANGED <<mem, pc>> /\ sig' = [sig EXCEPT ![j] = "sent"]
<1>1. Kept \/ \E j \in Job : Ended(j) \/ Asked(j)
  <2>1. ASSUME NEW j \in Job, Crash(j) \/ Misprobe(j) \/ ReadRow(j) \/ ReadOne(j) \/ Repair(j)
        PROVE  Kept \/ Ended(j)
    BY <2>1 DEF Crash, Misprobe, ReadRow, ReadOne, Repair, Killed
  <2>2. ASSUME NEW j \in Job, Alive(j), Signal(j), UNCHANGED mem
        PROVE  Ended(j) \/ Asked(j)
    BY <2>2 DEF Signal, Killed
  <2>3. ASSUME NEW o \in Op, Operator(o)
        PROVE  Kept \/ \E j \in Job : Ended(j) \/ Asked(j)
    <3>1. op[o].at # "idle" => op[o].job \in Job
      BY DEF JInv, RowInv
    <3>2. CASE \/ (\E cmd \in Commands, j \in Job : Issue(o, cmd, j))
               \/ WritePipe(o) \/ FinalizeWaiting(o) \/ Look(o) \/ Reread(o) \/ WriteStatus(o)
               \/ ForceKill(o)
      BY <3>2 DEF Issue, WritePipe, FinalizeWaiting, Look, Reread, WriteStatus, ForceKill
    <3>3. CASE SendSigterm(o) \/ Reap(o)
      <4>1. op[o].at # "idle" /\ UNCHANGED mem
        BY <3>3 DEF SendSigterm, Reap
      <4>2. Kept \/ (Alive(op[o].job) /\ Signal(op[o].job))
        BY <3>3 DEF SendSigterm, Reap
      <4> QED
        BY <2>2, <3>1, <4>1, <4>2
    <3>4. CASE Slay(o)
      <4>1. op[o].at # "idle" /\ (Kept \/ Ended(op[o].job))
        BY <3>4 DEF Slay, Killed
      <4> QED
        BY <3>1, <4>1
    <3> QED
      BY <2>3, <3>2, <3>3, <3>4 DEF Operator
  <2> QED
    BY <2>1, <2>3 DEF Outside
<1>2. pc \in [Job -> Places] /\ sig \in [Job -> {"none", "sent", "run"}] /\ "dead" \in Places
  BY DEF JInv, PcType, Places
<1> QED
  BY <1>1, <1>2 DEF PcType, Killed, Goto

(* What it logs and tells: done only of a job that logged its final event.  *)
LEMMA OutsideLog ==
    ASSUME JInv, Outside
    PROVE  /\ LogType'
           /\ \A k \in Job : complete[k] \subseteq complete'[k]
           /\ \A k \in Job : "done" \in told'[k] => "done" \in told[k] \/ "final" \in complete[k]
<1>1. /\ complete \in [Job -> SUBSET {"turn", "final", "failed"}]
      /\ told \in [Job -> SUBSET Settled]
  BY DEF JInv, LogType
<1> DEFINE Logged(j, E) == complete' = [complete EXCEPT ![j] = @ \cup E]
           Told(j, E)   == told' = [told EXCEPT ![j] = @ \cup E]
           Goal == \/ UNCHANGED <<complete, told>>
                   \/ \E j \in Job : \E E \in SUBSET {"failed"}, F \in SUBSET {"error"} :
                         Logged(j, E) /\ Told(j, F)
                   \/ \E j \in Job :
                         UNCHANGED complete /\ "final" \in complete[j] /\ Told(j, {"done"})
<1>2. ASSUME NEW j \in Job, Crash(j) \/ Misprobe(j) \/ ReadRow(j) \/ ReadOne(j) PROVE Goal
  BY <1>2 DEF Crash, Misprobe, ReadRow, ReadOne, db
<1>3. ASSUME NEW j \in Job, UNCHANGED complete, Tell(j, "error") PROVE Goal
  <2>1. complete' = [complete EXCEPT ![j] = @ \cup {}]
    BY <1>1, <1>3
  <2> QED
    BY <1>3, <2>1 DEF Tell
<1>4. ASSUME NEW j \in Job, Repair(j) PROVE Goal
  <2>1. CASE UNCHANGED db
    BY <2>1 DEF db
  <2>2. CASE Log(j, "failed") /\ Tell(j, "error")
    BY <2>2 DEF Log, Tell
  <2>3. CASE /\ UNCHANGED complete
             /\ \/ Tell(j, "done") /\ "final" \in complete[j]
                \/ Tell(j, "error")
    BY <1>3, <2>3 DEF Tell
  <2> QED
    BY <1>4, <2>1, <2>2, <2>3 DEF Repair
<1>5. ASSUME NEW o \in Op, Operator(o) PROVE Goal
  <2>1. op[o].at # "idle" => op[o].job \in Job
    BY DEF JInv, RowInv
  <2>2. CASE WriteStatus(o)
    <3>1. op[o].at = "write" /\ UNCHANGED complete
      BY <2>2 DEF WriteStatus
    <3>2. Tell(op[o].job, "error") \/ UNCHANGED told
      BY <2>2 DEF WriteStatus
    <3> QED
      BY <1>3, <2>1, <3>1, <3>2
  <2>3. CASE \/ (\E cmd \in Commands, j \in Job : Issue(o, cmd, j))
             \/ WritePipe(o) \/ FinalizeWaiting(o) \/ Look(o) \/ Reread(o) \/ SendSigterm(o)
             \/ ForceKill(o) \/ Slay(o) \/ Reap(o)
    BY <2>3 DEF Issue, WritePipe, FinalizeWaiting, Look, Reread, SendSigterm, ForceKill, Slay,
                Reap, db
  <2> QED
    BY <1>5, <2>2, <2>3 DEF Operator
<1>6. Goal
  BY <1>2, <1>4, <1>5 DEF Outside
<1>7. CASE UNCHANGED <<complete, told>>
  BY <1>1, <1>7 DEF LogType
<1>8. ASSUME NEW j \in Job, NEW E \in SUBSET {"failed"}, NEW F \in SUBSET {"error"},
             Logged(j, E), Told(j, F)
      PROVE  /\ LogType'
             /\ \A k \in Job : complete[k] \subseteq complete'[k]
             /\ \A k \in Job : "done" \in told'[k] => "done" \in told[k]
  BY <1>1, <1>8 DEF LogType, Settled
<1>9. ASSUME NEW j \in Job, UNCHANGED complete, "final" \in complete[j], Told(j, {"done"})
      PROVE  /\ LogType'
             /\ \A k \in Job : "done" \in told'[k] => "done" \in told[k] \/ "final" \in complete[k]
  BY <1>1, <1>9 DEF LogType, Settled
<1> QED
  BY <1>6, <1>7, <1>8, <1>9

(* What it puts into a pipe, up to its bound.                               *)
LEMMA OutsidePipe ==
    ASSUME JInv, Outside
    PROVE  PipeType'
<1>1. /\ pipe \in [Job -> Seq({"resume", "close"})] /\ PipeBound \in Nat
      /\ \A j \in Job : Len(pipe[j]) <= PipeBound
  BY JobAssumption DEF JInv, PipeType
<1>2. ASSUME NEW j \in Job, NEW l \in {"resume", "close"}, Send(j, l) PROVE PipeType'
  <2>1. CASE pipe' = pipe
    BY <1>1, <2>1 DEF PipeType
  <2>2. CASE Len(pipe[j]) < PipeBound /\ pipe' = [pipe EXCEPT ![j] = Append(pipe[j], l)]
    <3>1. pipe[j] \in Seq({"resume", "close"})
      BY <1>1
    <3>2. /\ Append(pipe[j], l) \in Seq({"resume", "close"})
          /\ Len(Append(pipe[j], l)) = Len(pipe[j]) + 1 /\ Len(pipe[j]) \in Nat
      BY <3>1
    <3> QED
      BY <1>1, <2>2, <3>2 DEF PipeType
  <2> QED
    BY <1>2, <2>1, <2>2 DEF Send
<1>3. pipe' = pipe \/ \E j \in Job : \E l \in {"resume", "close"} : Send(j, l)
  <2>1. ASSUME NEW j \in Job, Crash(j) \/ Misprobe(j) \/ ReadRow(j) \/ ReadOne(j) \/ Repair(j)
        PROVE  pipe' = pipe
    BY <2>1 DEF Crash, Misprobe, ReadRow, ReadOne, Repair
  <2>2. ASSUME NEW o \in Op, Operator(o)
        PROVE  pipe' = pipe \/ \E j \in Job : \E l \in {"resume", "close"} : Send(j, l)
    <3>1. op[o].at # "idle" => op[o].job \in Job
      BY DEF JInv, RowInv
    <3>2. CASE WritePipe(o) \/ FinalizeWaiting(o)
      BY <3>1, <3>2 DEF WritePipe, FinalizeWaiting
    <3> QED
      BY <2>2, <3>2 DEF Operator, Issue, Look, Reread, WriteStatus, SendSigterm, ForceKill, Slay,
                          Reap
  <2> QED
    BY <2>1, <2>2 DEF Outside
<1> QED
  BY <1>1, <1>2, <1>3 DEF PipeType

(* What a reader remembers.                                                 *)
LEMMA OutsideRead ==
    ASSUME JInv, Outside
    PROVE  ReadType' /\ \A j \in Job : reader'[j] # "none" => row[j] # "none"
<1>1. /\ reader \in [Job -> {"none", "list", "one"}]
      /\ \A j \in Job : reader[j] # "none" => row[j] # "none"
  BY DEF JInv, ReadType, RowInv
<1>2. \/ reader' = reader
      \/ \E j \in Job : reader' = [reader EXCEPT ![j] = "none"]
      \/ \E j \in Job, r \in {"list", "one"} :
            row[j] \in Active /\ reader' = [reader EXCEPT ![j] = r]
  <2>1. ASSUME NEW j \in Job, Crash(j) \/ Misprobe(j) \/ ReadRow(j) \/ ReadOne(j) \/ Repair(j)
        PROVE  \/ reader' = reader
               \/ reader' = [reader EXCEPT ![j] = "none"]
               \/ row[j] \in Active /\ \E r \in {"list", "one"} : reader' = [reader EXCEPT ![j] = r]
    BY <2>1 DEF Crash, Misprobe, ReadRow, ReadOne, Repair, Active
  <2>2. ASSUME NEW o \in Op, Operator(o)
        PROVE  reader' = reader
    BY <2>2 DEF Operator, Issue, WritePipe, FinalizeWaiting, Look, Reread, WriteStatus,
                SendSigterm, ForceKill, Slay, Reap
  <2> QED
    BY <2>1, <2>2 DEF Outside
<1> QED
  BY <1>1, <1>2 DEF ReadType, Active

(* What an order may be: of a job that has a row, with a status to write.   *)
Sound(r) == r.at # "idle" =>
    /\ r.job \in Job /\ row[r.job] # "none"
    /\ r.at \in {"update", "write"} =>
          r.mark \in Terminal /\ r.then \in Stages \ {"update", "write"}

(* What a command does next is decided by what it has read.                *)
LEMMA OutsideOp ==
    ASSUME JInv, Outside
    PROVE  OpType' /\ \A o \in Op : Sound(op'[o])
<1>1. op \in [Op -> Order] /\ \A o \in Op : Sound(op[o])
  BY DEF JInv, OpType, RowInv, Sound
<1> DEFINE Goal(o) == \E r \in Order : Sound(r) /\ op' = [op EXCEPT ![o] = r]
<1>2. Idle \in Order /\ Sound(Idle)
  BY DEF Idle, Order, Stages, Sound
<1>3. ASSUME NEW o \in Op, NEW l \in Stages \ {"update", "write"}, op[o].at # "idle", At(o, l)
      PROVE  Goal(o)
  <2>1. CASE l = "idle"
    BY <1>1, <1>2, <1>3, <2>1 DEF At
  <2>2. CASE l # "idle"
    <3> DEFINE r == [op[o] EXCEPT !.at = l, !.mark = "none", !.then = "none"]
    <3>1. op' = [op EXCEPT ![o] = r]
      BY <1>1, <1>3, <2>2 DEF At
    <3>2. r \in Order /\ r.job = op[o].job /\ r.at = l
      BY <1>1 DEF Order
    <3> HIDE DEF r
    <3> QED
      BY <1>1, <1>3, <3>1, <3>2 DEF Sound
  <2> QED
    BY <2>1, <2>2
<1>4. ASSUME NEW o \in Op, NEW s \in Terminal, NEW l \in Stages \ {"update", "write"},
             op[o].at # "idle", Update(o, s, l)
      PROVE  Goal(o)
  <2> DEFINE r == [op[o] EXCEPT !.at = "update", !.mark = s, !.then = l]
  <2>1. op' = [op EXCEPT ![o] = r]
    BY <1>1, <1>4 DEF Update
  <2>2. r \in Order /\ r.job = op[o].job /\ r.at = "update" /\ r.mark = s /\ r.then = l
    BY <1>1 DEF Order, Stages
  <2> HIDE DEF r
  <2> QED
    BY <1>1, <1>4, <2>1, <2>2 DEF Sound
<1>5. ASSUME NEW o \in Op, \E cmd \in Commands, j \in Job : Issue(o, cmd, j)
      PROVE  Goal(o)
  <2>1. PICK cmd \in Commands, j \in Job : Issue(o, cmd, j)
    BY <1>5
  <2> DEFINE s == NextStep(cmd, j, row[j])
             r == [Idle EXCEPT !.cmd = cmd, !.job = j, !.at = s]
  <2>2. s \in Stages \ {"update", "write"}
    BY <2>1 DEF NextStep, Stages, Commands
  <2>3. row[j] # "none" /\ op' = [op EXCEPT ![o] = r]
    BY <2>1 DEF Issue
  <2> HIDE DEF s
  <2>4. r \in Order /\ r.job = j /\ r.at = s
    BY <2>2 DEF Order, Idle
  <2> HIDE DEF r
  <2> QED
    BY <2>2, <2>3, <2>4 DEF Sound
<1>6. ASSUME NEW o \in Op, Reread(o) PROVE Goal(o)
  <2> DEFINE r == [op[o] EXCEPT !.at = "write"]
  <2>1. op' = [op EXCEPT ![o] = r] /\ op[o].at = "update"
    BY <1>1, <1>6 DEF Reread
  <2>2. /\ r \in Order /\ r.job = op[o].job /\ r.at = "write"
        /\ r.mark = op[o].mark /\ r.then = op[o].then
    BY <1>1 DEF Order, Stages
  <2> HIDE DEF r
  <2> QED
    BY <1>1, <2>1, <2>2 DEF Sound
<1>7. ASSUME NEW o \in Op, WriteStatus(o) PROVE Goal(o)
  <2>1. op[o].at = "write" /\ At(o, op[o].then)
    BY <1>7 DEF WriteStatus
  <2> QED
    BY <1>1, <1>3, <2>1 DEF Sound
<1>8. ASSUME NEW o \in Op, \/ WritePipe(o) \/ FinalizeWaiting(o) \/ Look(o) \/ SendSigterm(o)
                           \/ ForceKill(o) \/ Slay(o) \/ Reap(o)
      PROVE  Goal(o)
  <2>1. op[o].at # "idle"
    BY <1>8 DEF WritePipe, FinalizeWaiting, Look, SendSigterm, ForceKill, Slay, Reap
  <2>2. \/ \E l \in {"idle", "line", "look", "kill", "slay"} : At(o, l)
        \/ \E s \in {"done", "cancelled", "error"}, l \in {"idle", "look", "signal", "slay"} :
              Update(o, s, l)
    BY <1>8 DEF WritePipe, FinalizeWaiting, Look, SendSigterm, ForceKill, Slay, Reap, Done
  <2>3. {"idle", "line", "look", "kill", "slay", "signal"} \subseteq Stages \ {"update", "write"}
    BY DEF Stages
  <2> QED
    BY <1>3, <1>4, <2>1, <2>2, <2>3 DEF Terminal
<1>9. op' = op \/ \E o \in Op : Goal(o)
  <2>1. ASSUME NEW j \in Job, Crash(j) \/ Misprobe(j) \/ ReadRow(j) \/ ReadOne(j) \/ Repair(j)
        PROVE  op' = op
    BY <2>1 DEF Crash, Misprobe, ReadRow, ReadOne, Repair
  <2> QED
    BY <1>5, <1>6, <1>7, <1>8, <2>1 DEF Outside, Operator
<1>10. op' \in [Op -> Order] /\ \A o \in Op : Sound(op'[o])
  BY <1>1, <1>9 DEF Sound
<1> QED
  BY <1>10 DEF OpType

(* Every other step keeps the invariant.                                   *)
LEMMA OutsideKeeps ==
    ASSUME JInv, Outside
    PROVE  JInv'
<1>0. GhostType'
  BY GhostStep DEF JInv, Next, Outside
<1>1. /\ PcType' /\ UNCHANGED mem
      /\ \A k \in Job : pc'[k] = pc[k] \/ (Alive(k) /\ pc'[k] = "dead")
  BY OutsidePc
<1>2. RowType' /\ \A k \in Job : row'[k] = "none" <=> row[k] = "none"
  <2>1. CASE UNCHANGED <<row, recency>>
    BY <2>1 DEF JInv, RowType
  <2>2. CASE \E j \in Job : Finishes(j) /\ row[j] # "none"
    <3>1. PICK j \in Job, s \in Terminal : Put(j, s) /\ row[j] # "none"
      BY <2>2 DEF Finishes
    <3>2. s \in Statuses /\ s # "none"
      BY DEF Statuses, Terminal
    <3> QED
      BY <3>1, <3>2, PutType DEF JInv
  <2> QED
    BY <2>1, <2>2, OutsideRow DEF Outside
<1>3. /\ LogType'
      /\ \A k \in Job : complete[k] \subseteq complete'[k]
      /\ \A k \in Job : "done" \in told'[k] => "done" \in told[k] \/ "final" \in complete[k]
  BY OutsideLog
<1>4. SnapType' /\ RunType'
  BY <1>1 DEF JInv, SnapType, RunType, mem
<1>5. PipeType'
  BY OutsidePipe
<1>6. ReadType' /\ \A j \in Job : reader'[j] # "none" => row[j] # "none"
  BY OutsideRead
<1>7. OpType' /\ \A o \in Op : Sound(op'[o])
  BY OutsideOp
<1>8. RowInv'
  <2>1. \A j \in Job : pc[j] = "unborn" <=> row[j] = "none"
    BY DEF JInv, RowInv
  <2>2. \A j \in Job : pc'[j] = "unborn" <=> row'[j] = "none"
    BY <1>1, <1>2, <2>1 DEF Alive, Looping
  <2>3. \A o \in Op : op'[o].at # "idle" => op'[o].job \in Job /\ row'[op'[o].job] # "none"
    BY <1>2, <1>7 DEF Sound
  <2>4. \A o \in Op : op'[o].at \in {"update", "write"} =>
           op'[o].mark \in Terminal /\ op'[o].then \in Stages \ {"update", "write"}
    BY <1>7 DEF Sound
  <2> QED
    BY <1>2, <1>6, <2>2, <2>3, <2>4 DEF RowInv
<1>9. TellInv'
  <2>1. TellInv
    BY DEF JInv
  <2>2. \A k \in Job : snap'[k] = snap[k]
    BY <1>1 DEF mem
  <2>3. \A k \in Job : pc'[k] = "telling" => pc[k] = "telling"
    BY <1>1
  <2>4. DoneIsFinal'
    BY <1>3, <2>1 DEF TellInv, DoneIsFinal
  <2> QED
    BY <1>3, <2>1, <2>2, <2>3, <2>4 DEF TellInv
<1> QED
  BY <1>0, <1>1, <1>2, <1>3, <1>4, <1>5, <1>6, <1>7, <1>8, <1>9 DEF JInv

-----------------------------------------------------------------------------
(* The theorems                                                            *)

(* Nothing has run yet.                                                    *)
LEMMA InitJInv == Init => JInv
<1> SUFFICES ASSUME Init PROVE JInv
  OBVIOUS
<1>2. RowType
  BY DEF Init, RowType
<1>3. LogType /\ PcType /\ SnapType
  BY DEF Init, LogType, PcType, SnapType, Places, Statuses, Active
<1>4. RunType
  BY DEF Init, RunType
<1>5. PipeType
  <2>1. pipe = [j \in Job |-> <<>>] /\ <<>> \in Seq({"resume", "close"}) /\ Len(<<>>) = 0
    BY DEF Init
  <2> QED
    BY <2>1, JobAssumption DEF PipeType
<1>6. ReadType /\ GhostType /\ OpType
  BY DEF Init, ReadType, GhostType, OpType, Order, Idle, Stages
<1>7. RowInv /\ TellInv
  BY DEF Init, RowInv, TellInv, DoneIsFinal, Idle
<1> QED
  BY <1>2, <1>3, <1>4, <1>5, <1>6, <1>7 DEF JInv

(* Every step, and every stutter.                                          *)
LEMMA JInvStep == JInv /\ [Next]_vars => JInv'
<1> SUFFICES ASSUME JInv, [Next]_vars PROVE JInv'
  OBVIOUS
<1>1. CASE UNCHANGED vars
  BY <1>1 DEF JInv, RowType, LogType, PcType, SnapType, RunType, PipeType, ReadType, GhostType,
              OpType, RowInv, TellInv, DoneIsFinal, vars, db, mem, world
<1>2. CASE \E j \in Job : Process(j)
  BY <1>2, ProcessKeeps
<1>3. CASE Outside
  BY <1>3, OutsideKeeps
<1> QED
  BY <1>1, <1>2, <1>3 DEF Next, Outside

(* The inductive invariant of every behaviour.                             *)
LEMMA AlwaysJInv == Spec => []JInv
  BY InitJInv, JInvStep, PTL DEF Spec

(* Every variable has its type, a pipe is never over its bound, and a row    *)
(* has a status from its first write on, whatever a stop leaves in it.      *)
THEOREM JobTypeCorrect == Spec => []JobTypeOK
<1>1. ASSUME JInv PROVE JobTypeOK
  <2>1. RowType /\ PipeType /\ RunType /\ RowInv
    BY <1>1 DEF JInv
  <2>2. /\ complete \in [Job -> SUBSET {"turn", "final", "failed"}]
        /\ told \in [Job -> SUBSET {"done", "error"}]
        /\ pc \in [Job -> Places] /\ snap \in [Job -> Active \cup Terminal]
        /\ exit \in [Job -> {"none", "closed", "fatal"}]
        /\ sig \in [Job -> {"none", "sent", "run"}]
    BY <1>1 DEF JInv, LogType, PcType, SnapType, Statuses, Settled
  <2>3. \A j \in Job : pipe[j] \in Seq({"resume", "close"}) /\ Len(pipe[j]) <= PipeBound
    BY <2>1 DEF PipeType
  <2>4. /\ reader \in [Job -> {"none", "list", "one"}]
        /\ ghost \in [Job -> {"none", "reused", "notmux", "late"}]
    BY <1>1 DEF JInv, ReadType, GhostType
  <2> QED
    BY <2>1, <2>2, <2>3, <2>4 DEF JobTypeOK, RowType, RunType, RowInv, Statuses
<1> QED
  BY <1>1, AlwaysJInv, PTL

(* The parent is told done only of a run that logged its final event, with  *)
(* any commands and readers writing done into the row.                      *)
THEOREM ToldDoneIsFinal == Spec => []DoneIsFinal
<1>1. JInv => DoneIsFinal
  BY DEF JInv, TellInv
<1> QED
  BY <1>1, AlwaysJInv, PTL

(* A process that is gone or has its last write behind it writes no row.    *)
LEMMA LastWrite ==
    ASSUME NEW j \in Job, Process(j)
    PROVE  /\ Alive(j) \/ pc[j] = "unborn"
           /\ pc[j] = "telling" => UNCHANGED <<row, recency>>
<1>1. CASE Notify(j)
  BY <1>1 DEF Notify, Alive
<1>2. CASE \/ Launch(j) \/ Claim(j) \/ Refuse(j) \/ SessionUp(j) \/ ResumeReady(j)
           \/ RunnerReturns(j) \/ Nudged(j)
           \/ Fail(j) \/ Complete(j)
  BY <1>2 DEF Launch, Claim, Refuse, SessionUp, ResumeReady, RunnerReturns, Nudged, Fail, Complete,
              Alive,
              Looping
<1>3. CASE \/ Event(j) \/ AgentEnd(j) \/ TakeResume(j) \/ ResumeReturns(j) \/ ResumeThrows(j)
           \/ TakeClose(j) \/ CloseReturns(j) \/ CloseThrows(j) \/ AutoCloses(j) \/ Stall(j)
           \/ Sigterm(j)
  <2>1. Free(j)
    BY <1>3 DEF Event, AgentEnd, TakeResume, ResumeReturns, ResumeThrows, TakeClose, CloseReturns,
                CloseThrows, AutoCloses, Stall, Sigterm
  <2> QED
    BY <2>1 DEF Free, Alive, Looping
<1> QED
  BY <1>1, <1>2, <1>3 DEF Process

(* The row of a job that has ended stays terminal, whoever writes it.       *)
THEOREM EndedRowStays == Spec => SettledStays
<1> DEFINE Stays == \A j \in Job : (pc[j] = "telling" \/ ~Alive(j)) /\ row[j] \in Terminal
                                      => row'[j] \in Terminal
<1>1. ASSUME JInv, [Next]_vars PROVE Stays \/ UNCHANGED vars
  <2>1. \A k \in Job : pc[k] = "unborn" <=> row[k] = "none"
    BY <1>1 DEF JInv, RowInv
  <2>2. RowType /\ "none" \notin Terminal /\ "cancelled" \in Terminal
    BY <1>1 DEF JInv, Terminal
  <2>3. CASE UNCHANGED row
    BY <2>3
  <2>4. ASSUME NEW k \in Job, Process(k) PROVE Stays
    <3>1. /\ Alive(k) \/ pc[k] = "unborn"
          /\ pc[k] = "telling" => UNCHANGED <<row, recency>>
      BY <2>4, LastWrite
    <3>2. CASE \E s \in Statuses : Put(k, s)
      <4>1. \A j \in Job \ {k} : row'[j] = row[j]
        BY <2>2, <3>2, PutType
      <4> QED
        BY <2>1, <2>2, <3>1, <4>1
    <3>3. CASE \E h \in Job : Takeover(k, h)
      <4>1. PICK h \in Job : Takeover(k, h)
        BY <3>3
      <4>2. pc[k] = "written" /\ row[k] # "none" /\ Alive(k)
        BY <2>1, <4>1 DEF Takeover, Alive
      <4>3. \A j \in Job : row'[j] = IF j = k THEN "starting"
                                     ELSE IF j = h THEN "cancelled" ELSE row[j]
        BY <2>2, <4>1, <4>2, TakeoverType
      <4> QED
        BY <2>2, <4>2, <4>3
    <3> QED
      BY <1>1, <2>3, <2>4, <3>2, <3>3, ProcessRow
  <2>5. ASSUME Outside PROVE Stays
    <3>1. CASE \E j \in Job : Finishes(j) /\ row[j] # "none"
      <4>1. PICK j \in Job, s \in Terminal : Put(j, s)
        BY <3>1 DEF Finishes
      <4>2. \A k \in Job : row'[k] = IF k = j THEN s ELSE row[k]
        BY <2>2, <4>1, PutType DEF Statuses
      <4> QED
        BY <4>2
    <3> QED
      BY <1>1, <2>3, <2>5, <3>1, OutsideRow DEF Outside
  <2> QED
    BY <1>1, <2>4, <2>5 DEF Next, Outside
<1>2. JInv /\ [Next]_vars =>
         [\A j \in Job : (pc[j] = "telling" \/ ~Alive(j)) /\ row[j] \in Terminal
                            => row'[j] \in Terminal]_vars
  BY <1>1
<1> QED
  BY <1>2, AlwaysJInv, PTL DEF Spec, SettledStays

===============================================================================
