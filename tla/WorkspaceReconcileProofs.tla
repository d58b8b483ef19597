---------------------- MODULE WorkspaceReconcileProofs ----------------------
(***************************************************************************)
(* Proofs about WorkspaceReconcile, for any number of operators who        *)
(* propose anything for any workspace: the types, what a removal in the    *)
(* log is about, and that a removal which hits a live writer's file is the *)
(* only thing that can break the writer lock.                              *)
(***************************************************************************)
EXTENDS WorkspaceReconcile, WorkspaceLeaseProofs

Reconciling(p) == op[p].kind = "reconcile" /\ op[p].at # "journal"

\* Only a start moves the clock, and it hands out the next tick.
LEMMA ClockSteps ==
  ASSUME [Next]_vars
  PROVE  \/ boot' = boot /\ clock' = clock
         \/ \E p \in Pids : boot' = [boot EXCEPT ![p] = clock + 1] /\ clock' = clock + 1
         \/ \E p \in Pids : boot' = [boot EXCEPT ![p] = 0] /\ clock' = clock
<1>1. ASSUME NEW p \in Pids, Boot(p)
      PROVE  boot' = [boot EXCEPT ![p] = clock + 1] /\ clock' = clock + 1
  BY <1>1 DEF Boot
<1>2. ASSUME NEW p \in Pids, Crash(p) PROVE boot' = [boot EXCEPT ![p] = 0] /\ clock' = clock
  BY <1>2 DEF Crash
<1>3. ASSUME NEW p \in Pids, NEW a \in Acts, Call(p, a) PROVE boot' = boot /\ clock' = clock
  BY <1>3 DEF Call, CallAcquire, CallRelease, CallAdmit
<1>4. ASSUME NEW p \in Pids, Inspect(p) PROVE boot' = boot /\ clock' = clock
  BY <1>4 DEF Inspect, Exists, Read, Probe, LooksOnly
<1>5. ASSUME NEW p \in Pids, Decide(p) PROVE boot' = boot /\ clock' = clock
  BY <1>5 DEF Decide, Link, Rewrite, RefuseAcquire, Release, Admit, CoordinatorAdmit
<1>6. ASSUME NEW p \in Pids, CallCoordinatorAdmit(p) \/ EndCoordinatorWrite(p)
      PROVE  boot' = boot /\ clock' = clock
  BY <1>6 DEF CallCoordinatorAdmit, EndCoordinatorWrite
<1>7. ASSUME NEW a \in Acts, EndWrite(a) PROVE boot' = boot /\ clock' = clock
  BY <1>7 DEF EndWrite
<1>. QED  BY <1>1, <1>2, <1>3, <1>4, <1>5, <1>6, <1>7 DEF Next, vars

\* The dead stay dead: a reused pid has a later start tick than every process
\* that was named before it started.
LEMMA DeadStaysDead ==
  ASSUME TypeOK, NEW h \in HolderProcess, h.startTicks <= clock, ~Live(h), [Next]_vars
  PROVE  ~Live(h)'
<1>2. /\ h.startTicks \in Nat \ {0} /\ h.pid \in Pids /\ clock \in Nat /\ boot \in [Pids -> Nat]
  BY DEF TypeOK, HolderProcess
<1>3. \/ boot' = boot
      \/ \E p \in Pids : boot' = [boot EXCEPT ![p] = clock + 1]
      \/ \E p \in Pids : boot' = [boot EXCEPT ![p] = 0]
  BY ClockSteps
<1>. QED  BY <1>2, <1>3 DEF Live

\* What a lease step may do to the operation of a process: end it, begin one
\* that is no reconciliation, or take an undecided one further.
LEMMA OpSteps ==
  ASSUME TypeOK, [Next]_vars, NEW p \in Pids
  PROVE  \/ op'[p] = op[p]
         \/ op'[p] = Idle
         \/ /\ op[p] = Idle /\ op'[p].kind # "reconcile"
            /\ op'[p].at = "exists" /\ op'[p].seen = NoLease
         \/ /\ Inspect(p) /\ op[p].at # "journal"
            /\ op'[p].kind = op[p].kind /\ op'[p].at # "journal"
<1>t. op \in [Pids -> Op]
  BY DEF TypeOK
<1>0. CASE UNCHANGED vars
  BY <1>0 DEF vars
<1>1. ASSUME NEW q \in Pids, Boot(q) \/ EndCoordinatorWrite(q) PROVE op' = op
  BY <1>1 DEF Boot, EndCoordinatorWrite
<1>2. ASSUME NEW a \in Acts, EndWrite(a) PROVE op' = op
  BY <1>2 DEF EndWrite
<1>3. ASSUME NEW q \in Pids, Crash(q)
      PROVE  op' = [op EXCEPT ![q] = Idle]
  BY <1>3 DEF Crash
<1>4. ASSUME NEW q \in Pids, Decide(q)
      PROVE  op' = [op EXCEPT ![q] = Idle]
  BY <1>4 DEF Decide, Link, Rewrite, RefuseAcquire, Release, Admit, CoordinatorAdmit, Done
<1>5. ASSUME NEW q \in Pids, CallCoordinatorAdmit(q) \/ \E a \in Acts : Call(q, a)
      PROVE  /\ op[q] = Idle /\ op' = [op EXCEPT ![q] = op'[q]]
             /\ op'[q].kind # "reconcile" /\ op'[q].at = "exists" /\ op'[q].seen = NoLease
  <2>0. PICK kind \in Kinds \ {"reconcile"} : \E a : Begin(q, kind, a)
    BY <1>5 DEF Kinds, ActKinds, CallCoordinatorAdmit, Call, CallAcquire, CallRelease, CallAdmit
  <2>1. PICK a : Begin(q, kind, a)
    BY <2>0
  <2>. QED  BY <2>1, <1>t DEF Begin
<1>6. ASSUME NEW q \in Pids, Inspect(q)
      PROVE  /\ op[q].at # "journal"
             /\ op' = [op EXCEPT ![q] = op'[q]]
             /\ op'[q].kind = op[q].kind /\ op'[q].at # "journal"
  <2>1. CASE Exists(q)
    BY <2>1, <1>t DEF Exists, Op
  <2>2. CASE Read(q)
    BY <2>2, <1>t DEF Read, Op
  <2>3. CASE Probe(q)
    BY <2>3, <1>t DEF Probe, Op
  <2>. QED
    BY <1>6, <2>1, <2>2, <2>3 DEF Inspect
<1>. QED
  BY <1>t, <1>0, <1>1, <1>2, <1>3, <1>4, <1>5, <1>6 DEF Next

\* A reconciliation in progress was in progress before.
LEMMA LeaseStepsDoNotReconcile ==
  ASSUME TypeOK, [Next]_vars, NEW p \in Pids, Reconciling(p)'
  PROVE  Reconciling(p) /\ (op'[p] = op[p] \/ Inspect(p))
BY OpSteps DEF Reconciling, Idle

\* What a lease step can put into the file: nothing new, nothing at all, the
\* record of a process that runs, or the copy an operation has read.
LEMMA FileSteps ==
  ASSUME [Next]_vars
  PROVE  \/ lease' = lease
         \/ lease' = NoLease
         \/ \E p \in Pids : lease' = [act |-> op[p].act, holder |-> Self(p)] /\ UNCHANGED boot
         \/ \E p \in Pids : lease' = op[p].seen
<1>1. ASSUME NEW p \in Pids, Boot(p) \/ Crash(p) \/ CallCoordinatorAdmit(p) \/ EndCoordinatorWrite(p)
      PROVE  lease' = lease
  BY <1>1 DEF Boot, Crash, CallCoordinatorAdmit, EndCoordinatorWrite
<1>2. ASSUME NEW a \in Acts, EndWrite(a) \/ \E p \in Pids : Call(p, a) PROVE lease' = lease
  BY <1>2 DEF EndWrite, Call, CallAcquire, CallRelease, CallAdmit
<1>3. ASSUME NEW p \in Pids, Inspect(p) PROVE lease' = lease
  BY <1>3 DEF Inspect, Exists, Read, Probe, LooksOnly
<1>4. ASSUME NEW p \in Pids, RefuseAcquire(p) \/ Admit(p) \/ CoordinatorAdmit(p) PROVE lease' = lease
  BY <1>4 DEF RefuseAcquire, Admit, CoordinatorAdmit
<1>5. ASSUME NEW p \in Pids, Rewrite(p) PROVE lease' = op[p].seen
  BY <1>5 DEF Rewrite
<1>6. ASSUME NEW p \in Pids, Link(p)
      PROVE  \/ lease' = lease
             \/ lease' = [act |-> op[p].act, holder |-> Self(p)] /\ UNCHANGED boot
  BY <1>6 DEF Link
<1>7. ASSUME NEW p \in Pids, Release(p) PROVE lease' = lease \/ lease' = NoLease
  BY <1>7 DEF Release
<1>. QED
  BY <1>1, <1>2, <1>3, <1>4, <1>5, <1>6, <1>7 DEF Next, Decide, vars

\* What a lease step can make of what an operation has read.
LEMMA SeenSteps ==
  ASSUME TypeOK, [Next]_vars, NEW p \in Pids
  PROVE  op'[p].seen \in {op[p].seen, NoLease, lease}
<1>t. op \in [Pids -> Op]
  BY DEF TypeOK
<1>1. CASE op'[p] = op[p]
  BY <1>1
<1>2. CASE op'[p] = Idle
  BY <1>2 DEF Idle
<1>3. CASE op'[p].seen = NoLease
  BY <1>3
<1>4. CASE Inspect(p)
  <2>1. CASE Exists(p)
    BY <1>t, <2>1 DEF Exists, Op
  <2>2. CASE Read(p)
    BY <1>t, <2>2 DEF Read, Op
  <2>3. CASE Probe(p)
    BY <1>t, <2>3 DEF Probe, Op
  <2>. QED  BY <1>4, <2>1, <2>2, <2>3 DEF Inspect
<1>. QED  BY <1>1, <1>2, <1>3, <1>4, OpSteps

-----------------------------------------------------------------------------
\* What is pending is a proposal up to the decision and an entry after it.
PendingFits == \A p \in Pids : /\ Reconciling(p) => pending[p] \in Proposal
                               /\ op[p].at = "journal" => pending[p] \in Entry
LogTypes == /\ pending \in [Pids -> Proposal \cup Entry \cup {Nothing}]
            /\ journal \in SUBSET Entry
            /\ freed \in SUBSET Lease
TInv == TypeOK /\ OpsRunAtHome /\ LogTypes /\ PendingFits

\* An operation runs where its activation lives, whatever the lease file says.
LEMMA HomeStep == TypeOK /\ OpsRunAtHome /\ [Next]_vars => OpsRunAtHome'
<1>. SUFFICES ASSUME TypeOK, OpsRunAtHome, [Next]_vars PROVE OpsRunAtHome'
  OBVIOUS
<1>. USE NoProcessAssumption, NoActAssumption, PidsAssumption DEF OpsRunAtHome, Self
<1>t. /\ op \in [Pids -> Op] /\ boot \in [Pids -> Nat]
      /\ host \in [Acts -> HolderProcess \cup {NoProcess}]
      /\ \A p \in Pids : boot[p] # 0 => Self(p) \in HolderProcess
  BY DEF TypeOK, HolderProcess
<1>0. CASE UNCHANGED vars
  BY <1>0 DEF vars
<1>1. ASSUME NEW p \in Pids, Boot(p) PROVE OpsRunAtHome'
  BY <1>1, <1>t DEF Boot, Running
<1>2. ASSUME NEW p \in Pids, Crash(p) PROVE OpsRunAtHome'
  BY <1>2, <1>t DEF Crash, Idle, ActKinds
<1>3. ASSUME NEW p \in Pids, NEW a \in Acts, CallAcquire(p, a) PROVE OpsRunAtHome'
  BY <1>3, <1>t DEF CallAcquire, Begin, Running, ActKinds
<1>4. ASSUME NEW p \in Pids, NEW a \in Acts, CallRelease(p, a) \/ CallAdmit(p, a)
      PROVE  OpsRunAtHome'
  BY <1>4, <1>t DEF CallRelease, CallAdmit, Begin, Running, ActKinds
<1>5. ASSUME NEW p \in Pids, CallCoordinatorAdmit(p) PROVE OpsRunAtHome'
  BY <1>5, <1>t DEF CallCoordinatorAdmit, Begin, ActKinds
<1>6. ASSUME NEW p \in Pids, Inspect(p) PROVE OpsRunAtHome'
  <2>1. UNCHANGED <<boot, host>>
    BY <1>6 DEF Inspect, Exists, Read, Probe, LooksOnly
  <2>2. \A q \in Pids : op'[q].kind = op[q].kind /\ op'[q].act = op[q].act
    <3>1. CASE Exists(p)
      BY <3>1, <1>t DEF Exists, Op
    <3>2. CASE Read(p)
      BY <3>2, <1>t DEF Read, Op
    <3>3. CASE Probe(p)
      BY <3>3, <1>t DEF Probe, Op
    <3>. QED  BY <1>6, <3>1, <3>2, <3>3 DEF Inspect
  <2>. QED  BY <2>1, <2>2
<1>7. ASSUME NEW p \in Pids, Decide(p) PROVE OpsRunAtHome'
  <2>1. op' = [op EXCEPT ![p] = Idle] /\ UNCHANGED <<boot, host>>
    BY <1>7 DEF Decide, Link, Rewrite, RefuseAcquire, Release, Admit, CoordinatorAdmit, Done
  <2>. QED  BY <2>1, <1>t DEF Idle, ActKinds
<1>8. ASSUME NEW p \in Pids, EndCoordinatorWrite(p) PROVE OpsRunAtHome'
  BY <1>8 DEF EndCoordinatorWrite
<1>9. ASSUME NEW a \in Acts, EndWrite(a) PROVE OpsRunAtHome'
  BY <1>9 DEF EndWrite
<1>. QED
  BY <1>0, <1>1, <1>2, <1>3, <1>4, <1>5, <1>6, <1>7, <1>8, <1>9 DEF Next, Call

\* A decision is logged with the lease it was taken on.
LEMMA ResolveEntry ==
  ASSUME TInv, NEW p \in Reconcilers, Resolve(p)
  PROVE  /\ pending' = [pending EXCEPT ![p] = pending'[p]]
         /\ pending'[p] \in Entry
         /\ pending'[p].holder = op[p].seen
         /\ Resolving(p) => /\ pending'[p].applied
                            /\ pending'[p].outcome # "manual_attention_required"
<1>1. p \in Pids /\ Reconciling(p)
  BY ReconcilersAssumption DEF Resolve, Deciding, Reconciling
<1>2. /\ pending[p] \in Proposal /\ op[p].seen \in Lease \cup {NoLease}
      /\ pending \in [Pids -> Proposal \cup Entry \cup {Nothing}]
  BY <1>1 DEF TInv, PendingFits, LogTypes, TypeOK, Op
<1> DEFINE decided == IF op[p].verdict = "held" THEN "recovered_holder"
                      ELSE IF Applied(p) THEN pending[p].outcome
                      ELSE "manual_attention_required"
<1>3. decided \in ProposedOutcome \cup {"recovered_holder"}
  BY <1>2 DEF Proposal, ProposedOutcome
<1>4. Applied(p) \in BOOLEAN
  BY DEF Applied
<1>5. Resolving(p) => Applied(p) /\ decided = pending[p].outcome
                      /\ pending[p].outcome # "manual_attention_required"
  BY DEF Resolving, Applied, Uncertain
<1>6. pending' = [pending EXCEPT ![p] = [applied |-> Applied(p), outcome |-> decided,
                                         holder |-> op[p].seen]]
  BY DEF Resolve
<1> HIDE DEF decided
<1>7. [applied |-> Applied(p), outcome |-> decided, holder |-> op[p].seen] \in Entry
  BY <1>2, <1>3, <1>4 DEF Entry
<1>. QED  BY <1>1, <1>2, <1>5, <1>6, <1>7

\* Every step keeps the types, with any number of operators proposing anything.
LEMMA TInvStep == TInv /\ [ReconcileNext]_allvars => TInv'
<1>. SUFFICES ASSUME TInv, [ReconcileNext]_allvars PROVE TInv'
  OBVIOUS
<1>t. /\ TypeOK /\ OpsRunAtHome
      /\ op \in [Pids -> Op] /\ pending \in [Pids -> Proposal \cup Entry \cup {Nothing}]
      /\ journal \in SUBSET Entry /\ freed \in SUBSET Lease /\ lease \in Lease \cup {NoLease}
  BY DEF TInv, LogTypes, TypeOK
<1>1. CASE LeaseStep \/ UNCHANGED allvars
  <2>1. [Next]_vars /\ UNCHANGED <<journal, freed>>
    BY <1>1 DEF LeaseStep, allvars, rvars
  <2>2. TypeOK' /\ OpsRunAtHome'
    BY <1>t, <2>1, TypeStep, HomeStep
  <2>3. /\ pending' \in [Pids -> Proposal \cup Entry \cup {Nothing}]
        /\ \A p \in Pids : op'[p] # Idle => pending'[p] = pending[p]
    BY <1>1, <1>t DEF LeaseStep, allvars, rvars
  <2>4. ASSUME NEW p \in Pids
        PROVE  /\ Reconciling(p)' => pending'[p] \in Proposal
               /\ op'[p].at = "journal" => pending'[p] \in Entry
    <3>1. Reconciling(p)' => Reconciling(p) /\ op'[p] # Idle
      BY <1>t, <2>1, LeaseStepsDoNotReconcile DEF Reconciling, Idle
    <3>2. op'[p].at = "journal" => op[p].at = "journal" /\ op'[p] # Idle
      BY <1>t, <2>1, OpSteps DEF Idle
    <3>. QED  BY <2>3, <3>1, <3>2 DEF TInv, PendingFits
  <2>. QED  BY <1>t, <2>1, <2>2, <2>3, <2>4 DEF TInv, LogTypes, PendingFits
<1>2. ASSUME NEW p \in Reconcilers, NEW prop \in Proposal, Propose(p, prop) PROVE TInv'
  <2>. USE ReconcilersAssumption, NoActAssumption
  <2>1. /\ p \in Pids
        /\ UNCHANGED <<boot, clock, host, lease, writing, coordWriting, journal, freed>>
        /\ pending' = [pending EXCEPT ![p] = prop]
        /\ op' = [op EXCEPT ![p] = [kind |-> "reconcile", act |-> NoAct, at |-> "exists",
                                    seen |-> NoLease, verdict |-> "none"]]
    BY <1>2 DEF Propose, Begin
  <2>2. TypeOK' /\ OpsRunAtHome'
    BY <1>t, <2>1 DEF TypeOK, Op, Kinds, Steps, Verdict, OpsRunAtHome, ActKinds, Self
  <2>3. LogTypes' /\ PendingFits'
    BY <1>t, <2>1 DEF TInv, LogTypes, PendingFits, Reconciling
  <2>. QED  BY <2>2, <2>3 DEF TInv
<1>3. ASSUME NEW p \in Reconcilers, Resolve(p) PROVE TInv'
  <2>1. p \in Pids /\ Reconciling(p)
    BY <1>3, ReconcilersAssumption DEF Resolve, Deciding, Reconciling
  <2>2. /\ op' = [op EXCEPT ![p].at = "journal"]
        /\ UNCHANGED <<boot, clock, host, writing, coordWriting, journal>>
    BY <1>3 DEF Resolve
  <2>3. lease' \in Lease \cup {NoLease} /\ freed' \in SUBSET Lease
    BY <1>3, <1>t DEF Resolve
  <2>4. TypeOK' /\ OpsRunAtHome'
    BY <1>t, <2>1, <2>2, <2>3 DEF TypeOK, Op, Steps, OpsRunAtHome, ActKinds, Self, Reconciling
  <2>5. LogTypes'
    BY <1>3, <1>t, <2>1, <2>2, <2>3, ResolveEntry DEF LogTypes
  <2>6. PendingFits'
    BY <1>3, <1>t, <2>1, <2>2, ResolveEntry DEF TInv, PendingFits, Reconciling, Op
  <2>. QED  BY <2>4, <2>5, <2>6 DEF TInv
<1>4. ASSUME NEW p \in Reconcilers, AppendRecord(p) PROVE TInv'
  <2>1. /\ p \in Pids /\ op[p].at = "journal" /\ op' = [op EXCEPT ![p] = Idle]
        /\ journal' = journal \cup {pending[p]} /\ pending' = [pending EXCEPT ![p] = Nothing]
        /\ UNCHANGED <<boot, clock, host, lease, writing, coordWriting, freed>>
    BY <1>4, ReconcilersAssumption DEF AppendRecord, Done
  <2>2. Idle \in Op
    BY DEF Idle, Op, Kinds, Steps, Verdict
  <2>3. TypeOK' /\ OpsRunAtHome'
    BY <1>t, <2>1, <2>2 DEF TypeOK, OpsRunAtHome, ActKinds, Self, Idle
  <2>4. LogTypes' /\ PendingFits'
    BY <1>t, <2>1 DEF TInv, LogTypes, PendingFits, Reconciling, Idle
  <2>. QED  BY <2>3, <2>4 DEF TInv
<1>. QED  BY <1>1, <1>2, <1>3, <1>4 DEF ReconcileNext

\* Nothing has been proposed yet.
LEMMA TInvInit == ReconcileInit => TInv
<1>. SUFFICES ASSUME ReconcileInit PROVE TInv
  OBVIOUS
<1>1. TypeOK /\ OpsRunAtHome
  BY InitInv DEF ReconcileInit, IInv
<1>2. LogTypes /\ PendingFits
  BY DEF ReconcileInit, Init, Idle, LogTypes, PendingFits, Reconciling
<1>. QED  BY <1>1, <1>2 DEF TInv

\* Every variable keeps its type, whoever proposes what: in particular every
\* line of the log is a decided outcome about a real record.
THEOREM ReconcileTypeCorrect == ReconcileSpec => []ReconcileTypeOK
<1>1. TInv => ReconcileTypeOK
  BY DEF TInv, LogTypes, ReconcileTypeOK
<1>. QED  BY <1>1, TInvInit, TInvStep, PTL DEF ReconcileSpec

-----------------------------------------------------------------------------
(***************************************************************************)
(* What a decision is about.                                               *)
(***************************************************************************)
\* A process that was named, and started before now.
Named(l) == l # NoLease => l.holder.startTicks <= clock
Gone(l) == l # NoLease => ~Live(l.holder)

TicksNamed == /\ \A p \in Pids : boot[p] <= clock
              /\ Named(lease)
              /\ \A p \in Pids : Named(op[p].seen)

\* What a look left behind: nothing before the file is read, and the record of
\* a gone process once the probe said so.
LooksTrue(p) == /\ op[p].at \in {"exists", "read"} => op[p].seen = NoLease
                /\ op[p].at = "decide" /\ op[p].verdict = "unreadable_record" => op[p].seen = NoLease
                /\ /\ op[p].at = "decide"
                   /\ op[p].verdict \in {"holder_process_gone", "holder_start_mismatch"}
                   => Gone(op[p].seen)

\* An entry that removes names nobody, or somebody who is gone for good.
AboutTheDead(e) == Removes(e) => Named(e.holder) /\ Gone(e.holder)

GInv == /\ TInv
        /\ TicksNamed
        /\ \A p \in Pids : LooksTrue(p)
        /\ \A e \in Decisions : AboutTheDead(e)

\* A decision that removes was taken on nothing, or on somebody who is gone.
LEMMA DecidedOnTheDead ==
  ASSUME GInv, NEW p \in Pids, Deciding(p, "reconcile"), Resolving(p)
  PROVE  Gone(op[p].seen)
<1>1. op[p].verdict \in Uncertain /\ op[p].verdict # "liveness_unverifiable"
  BY DEF Resolving, Applied, PERMITTED, Uncertain
<1>. QED  BY <1>1 DEF GInv, LooksTrue, Deciding, Gone, Uncertain

\* A named process that is gone stays named and gone.
LEMMA GoneStays ==
  ASSUME TypeOK, [Next]_vars, NEW l \in Lease \cup {NoLease}, Named(l)
  PROVE  Named(l)' /\ (Gone(l) => Gone(l)')
<1>. USE NoLeaseAssumption DEF Named, Gone
<1>1. CASE l = NoLease
  BY <1>1
<1>2. CASE l # NoLease
  <2>1. l.holder \in HolderProcess /\ l.holder.startTicks \in Nat
    BY <1>2 DEF Lease, HolderProcess
  <2>2. clock' \in Nat /\ clock \in Nat /\ clock <= clock'
    BY ClockSteps DEF TypeOK
  <2>. QED  BY <1>2, <2>1, <2>2, DeadStaysDead
<1>. QED  BY <1>1, <1>2

\* Ticks come from the clock, whoever removes what.
LEMMA TicksStep ==
  ASSUME TInv, TicksNamed, [Next]_vars
  PROVE  TicksNamed'
<1>. USE NoLeaseAssumption
<1>t. /\ TypeOK /\ boot \in [Pids -> Nat] /\ clock \in Nat /\ lease \in Lease \cup {NoLease}
      /\ op \in [Pids -> Op]
      /\ \A p \in Pids : op[p].seen \in Lease \cup {NoLease}
  BY DEF TInv, TypeOK, Op
<1>n. \A l \in Lease \cup {NoLease} : Named(l) => Named(l)'
  BY <1>t, GoneStays
<1>1. \A p \in Pids : boot'[p] <= clock'
  BY <1>t, ClockSteps DEF TicksNamed
<1>2. Named(lease)'
  <2>1. CASE lease' = lease
    BY <1>t, <1>n, <2>1 DEF TicksNamed, Named
  <2>2. CASE lease' = NoLease
    BY <2>2 DEF Named
  <2>3. CASE \E p \in Pids : lease' = [act |-> op[p].act, holder |-> Self(p)] /\ UNCHANGED boot
    BY <1>1, <2>3 DEF Named, Self
  <2>4. CASE \E p \in Pids : lease' = op[p].seen
    <3>1. PICK p \in Pids : lease' = op[p].seen
      BY <2>4
    <3>2. Named(op[p].seen) /\ op[p].seen \in Lease \cup {NoLease}
      BY <1>t DEF TicksNamed
    <3>. QED  BY <1>n, <3>1, <3>2 DEF Named
  <2>. QED  BY <2>1, <2>2, <2>3, <2>4, FileSteps
<1>3. ASSUME NEW p \in Pids PROVE Named(op[p].seen)'
  <2>1. op'[p].seen \in {op[p].seen, NoLease, lease}
    BY <1>t, SeenSteps
  <2>2. Named(op[p].seen) /\ Named(lease)
    BY <1>t DEF TicksNamed
  <2>3. CASE op'[p].seen = NoLease
    BY <2>3 DEF Named
  <2>4. CASE op'[p].seen = op[p].seen
    BY <1>t, <1>n, <2>2, <2>4 DEF Named
  <2>5. CASE op'[p].seen = lease
    BY <1>t, <1>n, <2>2, <2>5 DEF Named
  <2>. QED  BY <2>1, <2>3, <2>4, <2>5
<1>. QED  BY <1>1, <1>2, <1>3 DEF TicksNamed
\* The looks of every process stay true through a lease step.
LEMMA LooksStep ==
  ASSUME GInv, [Next]_vars, NEW p \in Pids
  PROVE  LooksTrue(p)'
<1>. USE NoLeaseAssumption
<1>t. /\ TInv /\ TypeOK /\ op \in [Pids -> Op] /\ lease \in Lease \cup {NoLease}
      /\ \A q \in Pids : op[q].seen \in Lease \cup {NoLease} /\ Named(op[q].seen)
  BY DEF GInv, TInv, TicksNamed, TypeOK, Op
<1>l. LooksTrue(p)
  BY DEF GInv
<1>s. PICK s \in Lease \cup {NoLease} : s = op[p].seen
  BY <1>t
<1>g. Gone(s) => Gone(s)'
  BY <1>t, <1>s, GoneStays
<1>1. CASE op'[p] = op[p]
  <2>1. Gone(op[p].seen) => (op[p].seen # NoLease => ~(boot'[op[p].seen.holder.pid]
                                                         = op[p].seen.holder.startTicks))
    BY <1>s, <1>g DEF Gone, Live
  <2>. QED  BY <1>1, <1>l, <2>1 DEF LooksTrue, Gone, Live
<1>2. CASE op'[p] = Idle
  BY <1>2 DEF LooksTrue, Idle
<1>3. CASE op'[p].at = "exists" /\ op'[p].seen = NoLease
  BY <1>3 DEF LooksTrue
<1>4. CASE Exists(p)
  <2>1. op'[p].seen = NoLease /\ op'[p].at # "probe"
    BY <1>t, <1>l, <1>4 DEF Exists, LooksTrue, Op
  <2>. QED  BY <2>1 DEF LooksTrue, Gone
<1>5. CASE Read(p)
  <2>1. \/ op'[p].at = "decide" /\ op'[p].verdict = "unreadable_record" /\ op'[p].seen = NoLease
        \/ op'[p].at = "probe"
    BY <1>t, <1>l, <1>5 DEF Read, LooksTrue, Op
  <2>. QED  BY <2>1 DEF LooksTrue
<1>6. CASE Probe(p)
  <2>1. /\ op'[p].at = "decide" /\ op'[p].seen = op[p].seen /\ boot' = boot
        /\ op'[p].verdict = Judge(p, op[p].seen.holder)
    BY <1>t, <1>6 DEF Probe, LooksOnly, Op
  <2>2. op'[p].verdict # "unreadable_record"
    BY <2>1 DEF Judge
  <2>3. op'[p].verdict \in {"holder_process_gone", "holder_start_mismatch"}
          => (s # NoLease => ~(boot'[s.holder.pid] = s.holder.startTicks))
    <3>1. ASSUME op'[p].verdict \in {"holder_process_gone", "holder_start_mismatch"},
                 s # NoLease
          PROVE  boot[s.holder.pid] # s.holder.startTicks
      <4>1. s.holder.startTicks # 0
        BY <3>1 DEF Lease, HolderProcess
      <4>. QED  BY <1>s, <2>1, <3>1, <4>1 DEF Judge
    <3>. QED  BY <2>1, <3>1
  <2>. QED  BY <1>s, <2>1, <2>2, <2>3 DEF LooksTrue, Gone, Live
<1>. QED  BY <1>t, <1>1, <1>2, <1>3, <1>4, <1>5, <1>6, OpSteps DEF Inspect

\* What has been decided is a line of the log, or one that waits to be written.
LEMMA DecisionsAreEntries == TInv => Decisions \subseteq Entry
  BY DEF TInv, LogTypes, PendingFits, Decisions

\* Every step keeps what is known of looks and decisions.
LEMMA GInvStep == GInv /\ [ReconcileNext]_allvars => GInv'
<1>. SUFFICES ASSUME GInv, [ReconcileNext]_allvars PROVE GInv'
  OBVIOUS
<1>. USE NoLeaseAssumption, ReconcilersAssumption
<1>t. /\ TInv /\ TInv' /\ TypeOK /\ op \in [Pids -> Op] /\ lease \in Lease \cup {NoLease}
      /\ pending \in [Pids -> Proposal \cup Entry \cup {Nothing}]
      /\ TicksNamed /\ Decisions \subseteq Entry
      /\ \A p \in Pids : op[p].seen \in Lease \cup {NoLease} /\ Named(op[p].seen)
  BY TInvStep, DecisionsAreEntries DEF GInv, TInv, LogTypes, TicksNamed, TypeOK, Op
<1>d. \A e \in Decisions : AboutTheDead(e)
  BY DEF GInv
<1>l. \A p \in Pids : LooksTrue(p)
  BY DEF GInv
<1>1. CASE LeaseStep \/ UNCHANGED allvars
  <2>1. [Next]_vars /\ UNCHANGED <<journal, freed>>
    BY <1>1 DEF LeaseStep, allvars, rvars
  <2>2. \A p \in Pids : op'[p] # Idle => pending'[p] = pending[p]
    BY <1>1, <1>t DEF LeaseStep, allvars, rvars
  <2>3. Decisions' \subseteq Decisions
    <3>1. \A p \in Pids : op'[p].at = "journal" => op[p].at = "journal" /\ op'[p] # Idle
      BY <1>t, <2>1, OpSteps DEF Idle
    <3>. QED  BY <2>1, <2>2, <3>1 DEF Decisions
  <2>4. ASSUME NEW e \in Decisions' PROVE AboutTheDead(e)'
    <3>1. e \in Decisions /\ e.holder \in Lease \cup {NoLease}
      BY <1>t, <2>3 DEF Entry
    <3>2. AboutTheDead(e)
      BY <1>d, <3>1
    <3>3. Named(e.holder) => Named(e.holder)' /\ (Gone(e.holder) => Gone(e.holder)')
      BY <1>t, <2>1, <3>1, GoneStays
    <3>. QED  BY <3>2, <3>3 DEF AboutTheDead, Removes, Named, Gone
  <2>. QED  BY <1>t, <2>1, <2>4, TicksStep, LooksStep DEF GInv
<1>2. ASSUME NEW p \in Reconcilers, NEW prop \in Proposal, Propose(p, prop) PROVE GInv'
  <2>1. /\ p \in Pids /\ op[p] = Idle /\ UNCHANGED <<boot, clock, lease, journal>>
        /\ pending' = [pending EXCEPT ![p] = prop]
        /\ op' = [op EXCEPT ![p] = [kind |-> "reconcile", act |-> NoAct, at |-> "exists",
                                    seen |-> NoLease, verdict |-> "none"]]
    BY <1>2 DEF Propose, Begin
  <2>2. TicksNamed'
    BY <1>t, <2>1 DEF TicksNamed, Named
  <2>3. \A q \in Pids : LooksTrue(q)'
    BY <1>t, <1>l, <2>1 DEF LooksTrue, Gone, Live
  <2>4. Decisions' \subseteq Decisions
    BY <1>t, <2>1 DEF Decisions
  <2>5. \A e \in Decisions' : AboutTheDead(e)'
    BY <1>d, <2>1, <2>4 DEF AboutTheDead, Removes, Named, Gone, Live
  <2>. QED  BY <1>t, <2>2, <2>3, <2>5 DEF GInv
<1>3. ASSUME NEW p \in Reconcilers, Resolve(p) PROVE GInv'
  <2>1. /\ p \in Pids /\ Deciding(p, "reconcile") /\ UNCHANGED <<boot, clock, journal>>
        /\ op' = [op EXCEPT ![p].at = "journal"] /\ lease' \in {lease, NoLease}
    BY <1>3 DEF Resolve
  <2>2. \A q \in Pids : op'[q].seen = op[q].seen
    BY <1>t, <2>1 DEF Op
  <2>3. TicksNamed'
    BY <1>t, <2>1, <2>2 DEF TicksNamed, Named
  <2>4. \A q \in Pids : LooksTrue(q)'
    BY <1>t, <1>l, <2>1, <2>2 DEF LooksTrue, Gone, Live, Op
  <2>5. pending'[p] \in Entry /\ pending'[p].holder = op[p].seen
        /\ pending' = [pending EXCEPT ![p] = pending'[p]]
    BY <1>3, <1>t, ResolveEntry
  <2>6. Removes(pending'[p]) => Resolving(p)
    <3>1. Removes(pending'[p]) => Applied(p) /\ pending'[p].outcome # "manual_attention_required"
      BY <1>3, <1>t, <2>1 DEF Resolve, Removes
    <3>2. Applied(p) => pending'[p].outcome = pending[p].outcome
      BY <1>3, <1>t, <2>1 DEF Resolve, Applied, Uncertain
    <3>. QED  BY <3>1, <3>2 DEF Resolving
  <2>7. AboutTheDead(pending'[p])
    BY <1>t, <2>1, <2>5, <2>6, DecidedOnTheDead DEF AboutTheDead
  <2>8. Decisions' \subseteq Decisions \cup {pending'[p]}
    BY <1>t, <2>1, <2>5 DEF Decisions
  <2>9. \A e \in Decisions' : AboutTheDead(e)
    BY <1>d, <2>7, <2>8
  <2>. QED  BY <1>t, <2>1, <2>3, <2>4, <2>9 DEF GInv, AboutTheDead, Removes, Named, Gone, Live
<1>4. ASSUME NEW p \in Reconcilers, AppendRecord(p) PROVE GInv'
  <2>1. /\ p \in Pids /\ op[p].at = "journal" /\ op' = [op EXCEPT ![p] = Idle]
        /\ journal' = journal \cup {pending[p]} /\ pending' = [pending EXCEPT ![p] = Nothing]
        /\ UNCHANGED <<boot, clock, lease>>
    BY <1>4 DEF AppendRecord, Done
  <2>2. TicksNamed'
    BY <1>t, <2>1 DEF TicksNamed, Named, Idle
  <2>3. \A q \in Pids : LooksTrue(q)'
    BY <1>t, <1>l, <2>1 DEF LooksTrue, Gone, Live, Idle
  <2>4. Decisions' \subseteq Decisions
    BY <1>t, <2>1 DEF Decisions, Idle
  <2>5. \A e \in Decisions' : AboutTheDead(e)'
    BY <1>d, <2>1, <2>4 DEF AboutTheDead, Removes, Named, Gone, Live
  <2>. QED  BY <1>t, <2>2, <2>3, <2>5 DEF GInv
<1>. QED  BY <1>1, <1>2, <1>3, <1>4 DEF ReconcileNext

\* No decision to remove ever names a process that is alive, for any number of
\* operators and however long the looks and the decision are apart: a probe that
\* found nobody, or a later start, cannot go stale.
THEOREM DecisionsNameTheDeadTheorem == ReconcileSpec => []DecisionsNameTheDead
<1>1. ReconcileInit => GInv
  <2>. SUFFICES ASSUME ReconcileInit PROVE GInv
    OBVIOUS
  <2>1. TInv
    BY TInvInit
  <2>2. TicksNamed /\ (\A p \in Pids : LooksTrue(p)) /\ (\A e \in Decisions : AboutTheDead(e))
    BY DEF ReconcileInit, Init, Idle, TicksNamed, Named, LooksTrue, Decisions
  <2>. QED  BY <2>1, <2>2 DEF GInv
<1>2. GInv => DecisionsNameTheDead
  BY DEF GInv, DecisionsNameTheDead, AboutTheDead, Gone
<1>. QED  BY <1>1, <1>2, GInvStep, PTL DEF ReconcileSpec
-----------------------------------------------------------------------------
(***************************************************************************)
(* The writer lock.  A removal that spares live writers keeps the lease's  *)
(* own invariant, and is the recovery the lock allows.                     *)
(***************************************************************************)
\* What LiveWriterNeverReconciled says of one step.
Spares == \A p \in Reconcilers : Resolve(p) /\ lease # NoLease /\ Live(lease.holder)
                                   => lease' = lease

\* A step that spares live writers keeps the invariant of the lease protocol.
LEMMA SparingStep == IInv /\ [ReconcileNext]_allvars /\ [Spares]_allvars => IInv'
<1>. SUFFICES ASSUME IInv, [ReconcileNext]_allvars, [Spares]_allvars PROVE IInv'
  OBVIOUS
<1>. USE NoLeaseAssumption, NoProcessAssumption, NoActAssumption, PidsAssumption,
         ReconcilersAssumption
<1>i. TypeOK
  BY DEF IInv
<1>1. CASE LeaseStep \/ UNCHANGED allvars
  BY <1>1, InvStep DEF LeaseStep, allvars
<1>2. ASSUME NEW p \in Reconcilers, NEW prop \in Proposal, Propose(p, prop) PROVE IInv'
  <2>. USE <1>2, <1>i DEF Propose, Begin
  <2>1. TypeOK'
    BY DEF TypeOK, Op, Kinds, Steps, Verdict
  <2>. QED
    BY <2>1 DEF IInv, TypeOK, ClockBounds, LeaseNamesItsProcess, OpsRunAtHome, LooksAreReal,
               OwnLooksAreCurrent, ReleaseIsQuiet, WriterHolds, Self, Live, ActKinds
<1>3. ASSUME NEW p \in Reconcilers, Resolve(p) PROVE IInv'
  <2>0. op' = [op EXCEPT ![p].at = "journal"] /\ op[p].kind = "reconcile" /\ p \in Pids
    BY <1>3 DEF Resolve, Deciding
  <2>1. TypeOK'
    BY <1>3, <1>i DEF Resolve, TypeOK, Op, Steps
  <2>2. CASE lease' = lease
    BY <1>3, <1>i, <2>0, <2>1, <2>2
       DEF Resolve, IInv, TypeOK, ClockBounds, LeaseNamesItsProcess, OpsRunAtHome, LooksAreReal,
           OwnLooksAreCurrent, ReleaseIsQuiet, WriterHolds, Self, Live, ActKinds, Op
  <2>3. CASE lease' # lease
    <3>1. lease' = NoLease /\ HeldByTheDead
      <4>1. ~UNCHANGED allvars
        BY <2>3 DEF allvars, vars
      <4>. QED  BY <1>3, <2>3, <4>1 DEF Resolve, HeldByTheDead, Spares
    <3>2. writing = {}
      BY <3>1, <1>i DEF IInv, WriterHolds, HeldByTheDead
    <3>3. OwnLooksAreCurrent'
      \* An activation that saw itself hold lives, so it was not on this record.
      <4>1. ASSUME NEW q \in Pids, op[q].kind \in ActKinds, op[q].seen.act = op[q].act,
                   \/ op[q].at = "probe"
                   \/ op[q].at = "decide" /\ op[q].verdict = "held"
            PROVE  FALSE
        <5>1. lease = op[q].seen /\ lease.holder = Self(q)
          BY <4>1, <3>1, OpFacts
             DEF IInv, OwnLooksAreCurrent, LeaseNamesItsProcess, HeldByTheDead
        <5>. QED  BY <5>1, <4>1, <3>1, OpFacts DEF HeldByTheDead
      <4>. QED  BY <2>0, <4>1, <1>i DEF OwnLooksAreCurrent, TypeOK, ActKinds, Op
    <3>. QED
      BY <1>3, <3>1, <3>2, <3>3, <2>0, <2>1, <1>i
         DEF Resolve, IInv, TypeOK, ClockBounds, LeaseNamesItsProcess, OpsRunAtHome, LooksAreReal,
             ReleaseIsQuiet, WriterHolds, Self, Live, ActKinds, Op
  <2>. QED  BY <2>2, <2>3
<1>4. ASSUME NEW p \in Reconcilers, AppendRecord(p) PROVE IInv'
  <2>. USE <1>4, <1>i DEF AppendRecord, Done, Idle
  <2>1. TypeOK'
    BY DEF TypeOK, Op, Kinds, Steps, Verdict
  <2>. QED
    BY <2>1 DEF IInv, TypeOK, ClockBounds, LeaseNamesItsProcess, OpsRunAtHome, LooksAreReal,
               OwnLooksAreCurrent, ReleaseIsQuiet, WriterHolds, Self, Live, ActKinds
<1>. QED  BY <1>1, <1>2, <1>3, <1>4 DEF ReconcileNext

\* The file is removed under a live writer, or the reconciled lease is the
\* writer lock with its one way out of a lost owner: there is no other way for
\* any number of operators, proposals, deaths and reused pids to break it.
THEOREM RecoversMutexTheorem == ReconcileSpec /\ LiveWriterNeverReconciled => RecoversMutex
<1>1. ReconcileInit => IInv /\ Mutex!Init
  BY InitInv DEF ReconcileInit, Init, Mutex!Init
<1>2. IInv /\ [ReconcileNext]_allvars /\ [Spares]_allvars => [Mutex!Next]_(Mutex!avars)
  <2>. SUFFICES ASSUME IInv, [ReconcileNext]_allvars, [Spares]_allvars
                PROVE  [Mutex!Next]_(Mutex!avars)
    OBVIOUS
  <2>1. CASE LeaseStep \/ UNCHANGED allvars
    BY <2>1, RefinementStep DEF LeaseStep, allvars
  <2>2. ASSUME NEW p \in Reconcilers, Resolve(p) PROVE [Mutex!Next]_(Mutex!avars)
    <3>1. CASE lease' = lease
      BY <2>2, <3>1 DEF Resolve, Mutex!avars, Live
    <3>2. CASE lease' # lease
      <4>1. lease' = NoLease /\ HeldByTheDead
        <5>1. ~UNCHANGED allvars
          BY <3>2 DEF allvars, vars
        <5>. QED  BY <2>2, <3>2, <5>1 DEF Resolve, HeldByTheDead, Spares
      <4>2. Mutex!Recover
        BY <2>2, <4>1 DEF Resolve, Mutex!Recover, HeldByTheDead
      <4>. QED  BY <4>2 DEF Mutex!Next
    <3>. QED  BY <3>1, <3>2
  <2>3. ASSUME NEW p \in Reconcilers, AppendRecord(p) \/ \E prop \in Proposal : Propose(p, prop)
        PROVE  [Mutex!Next]_(Mutex!avars)
    BY <2>3 DEF AppendRecord, Propose, Mutex!avars, Live
  <2>. QED  BY <2>1, <2>2, <2>3 DEF ReconcileNext
<1>3. LiveWriterNeverReconciled <=> [][Spares]_allvars
  BY DEF LiveWriterNeverReconciled, Spares
<1>. QED  BY <1>1, <1>2, <1>3, SparingStep, PTL DEF ReconcileSpec, RecoversMutex, Mutex!Spec

===============================================================================
