------------------------ MODULE WorkspaceLeaseProofs ------------------------
(***************************************************************************)
(* Proofs about WorkspaceLease, for any number of processes, activations   *)
(* and process starts.                                                     *)
(***************************************************************************)
EXTENDS WorkspaceLease, TLAPS

\* Everything that carries a start tick got it from the clock.
ClockBounds == /\ \A p \in Pids : boot[p] <= clock
               /\ \A a \in Acts : host[a] # NoProcess => host[a].startTicks <= clock

\* An operation on an activation runs in the process that minted it.
OpsRunAtHome == \A p \in Pids : op[p].kind \in ActKinds =>
                    /\ op[p].act \in Acts
                    /\ boot[p] # 0
                    /\ host[op[p].act] = Self(p)

\* A record read has been read.
LooksAreReal == \A p \in Pids :
                    \/ op[p].at = "probe"
                    \/ op[p].at = "decide" /\ op[p].verdict = "held"
                  => op[p].seen # NoLease

\* What an operation read of its own activation's lease stays true: only that
\* activation's process removes the file, and it is busy with this operation.
OwnLooksAreCurrent == \A p \in Pids :
    /\ op[p].kind \in ActKinds
    /\ \/ op[p].at = "probe"
       \/ op[p].at = "decide" /\ op[p].verdict = "held"
    /\ op[p].seen.act = op[p].act
    => lease = op[p].seen

\* Nothing is released under a call in flight.
ReleaseIsQuiet == \A p \in Pids : op[p].kind = "release" => op[p].act \notin writing

IInv == /\ TypeOK
        /\ ClockBounds
        /\ LeaseNamesItsProcess
        /\ OpsRunAtHome
        /\ LooksAreReal
        /\ OwnLooksAreCurrent
        /\ ReleaseIsQuiet
        /\ WriterHolds
-----------------------------------------------------------------------------
\* Nothing has run yet.
LEMMA TypeInit == Init => TypeOK
  BY PidsAssumption DEF Init, TypeOK, Idle, Op, Kinds, Steps, Verdict

LEMMA InitInv == Init => IInv
<1>1. Init => TypeOK
  BY TypeInit
<1>2. Init => /\ ClockBounds /\ LeaseNamesItsProcess /\ OpsRunAtHome
              /\ LooksAreReal /\ OwnLooksAreCurrent /\ ReleaseIsQuiet /\ WriterHolds
  BY DEF Init, ClockBounds, LeaseNamesItsProcess, OpsRunAtHome, LooksAreReal,
         OwnLooksAreCurrent, ReleaseIsQuiet, WriterHolds, Idle, ActKinds
<1>. QED  BY <1>1, <1>2 DEF IInv

LEMMA TypeStep == TypeOK /\ OpsRunAtHome /\ [Next]_vars => TypeOK'
<1>. SUFFICES ASSUME TypeOK, OpsRunAtHome, [Next]_vars PROVE TypeOK'
  OBVIOUS
<1>. USE NoLeaseAssumption, NoProcessAssumption, NoActAssumption, PidsAssumption
<1>0. CASE UNCHANGED vars
  BY <1>0 DEF TypeOK, vars
<1>1. ASSUME NEW p \in Pids, Boot(p) PROVE TypeOK'
  BY <1>1 DEF TypeOK, Boot
<1>2. ASSUME NEW p \in Pids, Crash(p) PROVE TypeOK'
  BY <1>2 DEF TypeOK, Crash, Idle, Op, Kinds, Steps, Verdict
<1>3. ASSUME NEW p \in Pids, NEW a \in Acts, Call(p, a) PROVE TypeOK'
  BY <1>3 DEF TypeOK, Call, CallAcquire, CallRelease, CallAdmit, Begin, Running, Self,
              HolderProcess, Op, Kinds, ActKinds, Steps, Verdict
<1>4. ASSUME NEW p \in Pids, CallCoordinatorAdmit(p) PROVE TypeOK'
  BY <1>4 DEF TypeOK, CallCoordinatorAdmit, Begin, Op, Kinds, ActKinds, Steps, Verdict
<1>5. ASSUME NEW p \in Pids, Inspect(p) PROVE TypeOK'
  <2>1. CASE Exists(p)
    <3>1. op'[p] \in Op /\ op' = [op EXCEPT ![p] = op'[p]]
      BY <2>1 DEF TypeOK, Exists, Op, Steps, Verdict
    <3>. QED  BY <2>1, <3>1 DEF TypeOK, Exists, LooksOnly
  <2>2. CASE Read(p)
    <3>1. op'[p] \in Op /\ op' = [op EXCEPT ![p] = op'[p]]
      BY <2>2 DEF TypeOK, Read, Op, Steps, Verdict, Uncertain
    <3>. QED  BY <2>2, <3>1 DEF TypeOK, Read, LooksOnly
  <2>3. CASE Probe(p)
    <3>1. Judge(p, op[p].seen.holder) \in Verdict
      BY DEF Judge, Verdict, Uncertain
    <3>2. op'[p] \in Op /\ op' = [op EXCEPT ![p] = op'[p]]
      BY <2>3, <3>1 DEF TypeOK, Probe, Op, Steps
    <3>. QED  BY <2>3, <3>2 DEF TypeOK, Probe, LooksOnly
  <2>. QED  BY <1>5, <2>1, <2>2, <2>3 DEF Inspect
<1>6. ASSUME NEW p \in Pids, Decide(p) PROVE TypeOK'
  <2>1. op' \in [Pids -> Op]
    <3>1. Idle \in Op
      BY DEF Idle, Op, Kinds, Steps, Verdict
    <3>2. op' = [op EXCEPT ![p] = Idle]
      BY <1>6 DEF Decide, Link, Rewrite, RefuseAcquire, Release, Admit, CoordinatorAdmit, Done
    <3>. QED  BY <3>1, <3>2 DEF TypeOK
  <2>2. op[p] \in Op /\ (op[p].kind \in ActKinds => /\ op[p].act \in Acts
                                                    /\ Self(p) \in HolderProcess)
    BY DEF TypeOK, OpsRunAtHome, Self, HolderProcess
  <2>3. lease' \in Lease \cup {NoLease} /\ writing' \in SUBSET Acts
    BY <1>6, <2>2 DEF TypeOK, Decide, Link, Rewrite, RefuseAcquire, Release, Admit,
                      CoordinatorAdmit, Deciding, ActKinds, Op, Lease
  <2>4. UNCHANGED <<boot, clock, host>> /\ coordWriting' \in SUBSET Pids
    BY <1>6 DEF Decide, Link, Rewrite, RefuseAcquire, Release, Admit, CoordinatorAdmit, TypeOK
  <2>. QED  BY <2>1, <2>2, <2>3, <2>4 DEF TypeOK
<1>7. ASSUME NEW p \in Pids, EndCoordinatorWrite(p) PROVE TypeOK'
  BY <1>7 DEF TypeOK, EndCoordinatorWrite
<1>8. ASSUME NEW a \in Acts, EndWrite(a) PROVE TypeOK'
  BY <1>8 DEF TypeOK, EndWrite
<1>. QED  BY <1>0, <1>1, <1>2, <1>3, <1>4, <1>5, <1>6, <1>7, <1>8 DEF Next

\* The type facts every step proof needs, one operation at a time.
LEMMA OpFacts ==
  ASSUME IInv, NEW p \in Pids
  PROVE  /\ op[p] \in Op
         /\ boot[p] \in Nat
         /\ op[p].kind \in ActKinds => /\ op[p].act \in Acts
                                       /\ host[op[p].act] = Self(p)
                                       /\ host[op[p].act] \in HolderProcess
                                       /\ Live(Self(p))
  BY DEF IInv, TypeOK, OpsRunAtHome, Self, HolderProcess, Live

\* Whoever sees its own activation hold the workspace still holds it.
LEMMA HeldIsCurrent ==
  ASSUME IInv, NEW p \in Pids, op[p].kind \in ActKinds, op[p].at = "decide", HeldByMe(p)
  PROVE  /\ lease = op[p].seen
         /\ lease \in Lease
         /\ lease.act = op[p].act
         /\ lease.holder = host[op[p].act]
         /\ lease.holder = Self(p)
         /\ Live(lease.holder)
  BY OpFacts DEF IInv, OwnLooksAreCurrent, LooksAreReal, HeldByMe, LeaseNamesItsProcess, TypeOK

LEMMA InvStep == IInv /\ [Next]_vars => IInv'
<1>. SUFFICES ASSUME IInv, [Next]_vars PROVE IInv'
  OBVIOUS
<1>. USE NoLeaseAssumption, NoProcessAssumption, NoActAssumption, PidsAssumption
<1>t. TypeOK /\ TypeOK'
  BY TypeStep DEF IInv
<1>. USE DEF IInv, ClockBounds, LeaseNamesItsProcess, OpsRunAtHome, LooksAreReal,
             OwnLooksAreCurrent, ReleaseIsQuiet, WriterHolds, Self, Live
<1>0. CASE UNCHANGED vars
  BY <1>0, <1>t DEF vars
<1>1. ASSUME NEW p \in Pids, Boot(p) PROVE IInv'
  <2>. USE <1>1, <1>t DEF TypeOK, Boot, Running, ActKinds, HolderProcess, Lease
  <2>1. ClockBounds' /\ LeaseNamesItsProcess'
    OBVIOUS
  <2>2. OpsRunAtHome' /\ LooksAreReal' /\ OwnLooksAreCurrent' /\ ReleaseIsQuiet'
    OBVIOUS
  <2>3. WriterHolds'
    \* A process that is alive was not booted by this step.
    OBVIOUS
  <2>. QED  BY <2>1, <2>2, <2>3
<1>2. ASSUME NEW p \in Pids, Crash(p) PROVE IInv'
  BY <1>2, <1>t DEF TypeOK, Crash, Running, HostedBy, Idle, ActKinds, HolderProcess, Lease
<1>3. ASSUME NEW p \in Pids, NEW a \in Acts, CallAcquire(p, a) PROVE IInv'
  BY <1>3, <1>t DEF TypeOK, CallAcquire, Begin, Running, ActKinds, HolderProcess, Lease
<1>4. ASSUME NEW p \in Pids, NEW a \in Acts, CallRelease(p, a) PROVE IInv'
  BY <1>4, <1>t DEF TypeOK, CallRelease, Begin, Running, ActKinds
<1>5. ASSUME NEW p \in Pids, NEW a \in Acts, CallAdmit(p, a) PROVE IInv'
  BY <1>5, <1>t DEF TypeOK, CallAdmit, Begin, Running, ActKinds
<1>6. ASSUME NEW p \in Pids, CallCoordinatorAdmit(p) PROVE IInv'
  BY <1>6, <1>t DEF TypeOK, CallCoordinatorAdmit, Begin, Running, ActKinds
<1>7. ASSUME NEW p \in Pids, Exists(p) PROVE IInv'
  BY <1>7, <1>t, OpFacts DEF TypeOK, Exists, LooksOnly, Op, ActKinds
<1>8. ASSUME NEW p \in Pids, Read(p) PROVE IInv'
  BY <1>8, <1>t, OpFacts DEF TypeOK, Read, LooksOnly, Op, ActKinds
<1>9. ASSUME NEW p \in Pids, Probe(p) PROVE IInv'
  BY <1>9, <1>t, OpFacts DEF TypeOK, Probe, LooksOnly, Op, ActKinds
<1>10. ASSUME NEW p \in Pids, Link(p) PROVE IInv'
  BY <1>10, <1>t, OpFacts DEF TypeOK, Link, Deciding, Done, Idle, ActKinds, HolderProcess, Lease
<1>11. ASSUME NEW p \in Pids, Rewrite(p) PROVE IInv'
  <2>1. lease' = lease
    BY <1>11, HeldIsCurrent DEF Rewrite, Deciding, ActKinds
  <2>. QED  BY <1>11, <1>t, <2>1 DEF TypeOK, Rewrite, Deciding, Done, Idle, ActKinds
<1>12. ASSUME NEW p \in Pids, RefuseAcquire(p) PROVE IInv'
  BY <1>12, <1>t DEF TypeOK, RefuseAcquire, Done, Idle, ActKinds
<1>13. ASSUME NEW p \in Pids, Release(p) PROVE IInv'
  <2>. USE <1>13, <1>t DEF TypeOK, Release, Deciding, Done, Idle, ActKinds
  <2>1. CASE ~HeldByMe(p)
    BY <2>1
  <2>2. CASE HeldByMe(p)
    <3>1. /\ lease = op[p].seen /\ lease.act = op[p].act /\ lease # NoLease
          /\ host[op[p].act] = Self(p)
      BY <2>2, HeldIsCurrent
    <3>2. writing = {}
      BY <3>1
    <3>3. OwnLooksAreCurrent'
      \* Another process that saw its own activation hold would share this one.
      <4>. SUFFICES ASSUME NEW q \in Pids, q # p, op[q].kind \in ActKinds,
                           op[q].seen = lease, op[q].seen.act = op[q].act
                    PROVE  FALSE
        OBVIOUS
      <4>1. host[op[q].act] = Self(q) /\ Self(q).pid = q /\ Self(p).pid = p
        OBVIOUS
      <4>. QED  BY <3>1, <4>1
    <3>. QED  BY <2>2, <3>2, <3>3
  <2>. QED  BY <2>1, <2>2
<1>14. ASSUME NEW p \in Pids, Admit(p) PROVE IInv'
  <2>. USE <1>14, <1>t DEF TypeOK, Admit, Deciding, Done, Idle, ActKinds
  <2>1. CASE ~HeldByMe(p)
    BY <2>1
  <2>2. CASE HeldByMe(p)
    <3>1. /\ lease # NoLease /\ lease.act = op[p].act /\ lease.holder = host[op[p].act]
          /\ Live(lease.holder) /\ host[op[p].act] = Self(p)
      BY <2>2, HeldIsCurrent
    <3>2. ReleaseIsQuiet'
      \* A release of the same activation would be another operation of this process.
      <4>. SUFFICES ASSUME NEW q \in Pids, q # p, op[q].kind = "release" PROVE op[q].act # op[p].act
        BY <2>2
      <4>1. host[op[q].act] = Self(q) /\ Self(q).pid = q /\ Self(p).pid = p
        OBVIOUS
      <4>. QED  BY <3>1, <4>1
    <3>3. WriterHolds'
      BY <2>2, <3>1
    <3>. QED  BY <2>2, <3>2, <3>3
  <2>. QED  BY <2>1, <2>2
<1>15. ASSUME NEW p \in Pids, CoordinatorAdmit(p) PROVE IInv'
  BY <1>15, <1>t DEF TypeOK, CoordinatorAdmit, Done, Idle, ActKinds
<1>16. ASSUME NEW a \in Acts, EndWrite(a) PROVE IInv'
  BY <1>16, <1>t DEF EndWrite
<1>17. ASSUME NEW p \in Pids, EndCoordinatorWrite(p) PROVE IInv'
  BY <1>17, <1>t DEF EndCoordinatorWrite
<1>. QED
  BY <1>0, <1>1, <1>2, <1>3, <1>4, <1>5, <1>6, <1>7, <1>8, <1>9, <1>10, <1>11, <1>12,
     <1>13, <1>14, <1>15, <1>16, <1>17 DEF Next, Call, Inspect, Decide

LEMMA InvAlways == Spec => []IInv
  BY InitInv, InvStep, PTL DEF Spec
-----------------------------------------------------------------------------
\* Every variable keeps its type: in particular a published record always
\* names a process that was really running, for any number of starts.
THEOREM TypeCorrect == Spec => []TypeOK
<1>1. IInv => TypeOK
  BY DEF IInv
<1>. QED  BY <1>1, InvAlways, PTL

\* A mutating call in flight is covered by the lease from admission to end.
THEOREM WriterHoldsTheorem == Spec => []WriterHolds
<1>1. IInv => WriterHolds
  BY DEF IInv
<1>. QED  BY <1>1, InvAlways, PTL

\* One writer per workspace, for any number of processes and activations.
THEOREM MutualExclusionTheorem == Spec => []MutualExclusion
<1>1. IInv => MutualExclusion
  BY DEF IInv, WriterHolds, MutualExclusion
<1>. QED  BY <1>1, InvAlways, PTL

\* The probe of a record is always a probe of the process that would write.
THEOREM LeaseNamesItsProcessTheorem == Spec => []LeaseNamesItsProcess
<1>1. IInv => LeaseNamesItsProcess
  BY DEF IInv
<1>. QED  BY <1>1, InvAlways, PTL
-----------------------------------------------------------------------------
\* The only steps that touch the file, and what each needs of it.
LEMMA LeaseSteps ==
  ASSUME IInv, [Next]_vars
  PROVE  \/ lease' = lease
         \/ \E p \in Pids : /\ Link(p)
                            /\ lease = NoLease
                            /\ lease' = [act |-> op[p].act, holder |-> Self(p)]
         \/ \E p \in Pids : /\ Release(p) /\ HeldByMe(p)
                            /\ lease' = NoLease
                            /\ lease # NoLease
                            /\ lease.act = op[p].act
                            /\ Live(lease.holder)
<1>0. CASE UNCHANGED vars
  BY <1>0 DEF vars
<1>1. ASSUME NEW p \in Pids, Boot(p) \/ Crash(p) \/ CallCoordinatorAdmit(p) \/ EndCoordinatorWrite(p)
      PROVE  lease' = lease
  BY <1>1 DEF Boot, Crash, CallCoordinatorAdmit, EndCoordinatorWrite
<1>2. ASSUME NEW a \in Acts, EndWrite(a) \/ \E p \in Pids : Call(p, a) PROVE lease' = lease
  BY <1>2 DEF EndWrite, Call, CallAcquire, CallRelease, CallAdmit
<1>3. ASSUME NEW p \in Pids, Inspect(p) PROVE lease' = lease
  BY <1>3 DEF Inspect, Exists, Read, Probe, LooksOnly
<1>4. ASSUME NEW p \in Pids, RefuseAcquire(p) \/ Admit(p) \/ CoordinatorAdmit(p) PROVE lease' = lease
  BY <1>4 DEF RefuseAcquire, Admit, CoordinatorAdmit
<1>5. ASSUME NEW p \in Pids, Rewrite(p) PROVE lease' = lease
  BY <1>5, HeldIsCurrent DEF Rewrite, Deciding, ActKinds
<1>6. ASSUME NEW p \in Pids, Link(p), lease' # lease
      PROVE  lease = NoLease /\ lease' = [act |-> op[p].act, holder |-> Self(p)]
  BY <1>6 DEF Link
<1>7. ASSUME NEW p \in Pids, Release(p), lease' # lease
      PROVE  /\ HeldByMe(p) /\ lease' = NoLease /\ lease # NoLease
             /\ lease.act = op[p].act /\ Live(lease.holder)
  BY <1>7, HeldIsCurrent, NoLeaseAssumption DEF Release, Deciding, ActKinds
<1>. QED
  BY <1>0, <1>1, <1>2, <1>3, <1>4, <1>5, <1>6, <1>7 DEF Next, Inspect, Decide

\* A dead holder's file is nobody's to take: no interleaving of looks and
\* deaths makes any acquire, resume or release change it.
THEOREM NeverStolenTheorem == Spec => NeverStolen
<1>1. IInv /\ [Next]_vars => (lease # NoLease /\ ~Live(lease.holder) => lease' = lease)
  BY LeaseSteps
<1>2. IInv /\ [Next]_vars => [lease # NoLease /\ ~Live(lease.holder) => lease' = lease]_vars
  BY <1>1
<1>. QED  BY <1>2, InvAlways, PTL DEF Spec, NeverStolen

\* A live holder's file goes only by its own activation's release.
THEOREM OnlyOwnReleaseTheorem == Spec => OnlyOwnRelease
<1>. DEFINE Own == lease # NoLease /\ Live(lease.holder) =>
                     \/ lease' = lease
                     \/ lease' = NoLease /\ \E p \in Pids : /\ Deciding(p, "release")
                                                            /\ op[p].act = lease.act
<1>1. IInv /\ [Next]_vars => Own
  BY LeaseSteps DEF Release
<1>2. IInv /\ [Next]_vars => [Own]_vars
  BY <1>1
<1>. QED  BY <1>2, InvAlways, PTL DEF Spec, OnlyOwnRelease
-----------------------------------------------------------------------------
(***************************************************************************)
(* Refinement: the lease file implements the writer lock without recovery. *)
(***************************************************************************)
\* Only the live holder has calls in flight, so an admission, the end of a
\* call and a death each map to one step of the lock, or to none.
LEMMA RefinementStep ==
  ASSUME IInv, [Next]_vars
  PROVE  [Mutex!Next /\ ~Mutex!Recover]_(Mutex!avars)
<1>. DEFINE Owner == IF lease = NoLease THEN NoAct ELSE lease.act
            Lost == lease # NoLease /\ ~Live(lease.holder)
            Stutter == Owner' = Owner /\ writing' = writing /\ Lost' = Lost
<1>. USE NoLeaseAssumption, NoActAssumption, NoProcessAssumption
<1>. USE DEF IInv, TypeOK, ClockBounds, LeaseNamesItsProcess, OpsRunAtHome, LooksAreReal,
             OwnLooksAreCurrent, ReleaseIsQuiet, WriterHolds, Self, Live, Lease, HolderProcess
<1>t. TypeOK'
  BY TypeStep
<1>s. SUFFICES \/ Stutter
               \/ ~Lost /\ \/ \E a \in Acts : \/ Mutex!Take(a) \/ Mutex!Give(a)
                                              \/ Mutex!Begin(a) \/ Mutex!End(a)
                           \/ Mutex!Lose
  BY DEF Mutex!Next, Mutex!avars, Mutex!Recover
<1>q. lease' = lease /\ writing' = writing /\ boot' = boot => Stutter
  OBVIOUS
<1>0. CASE UNCHANGED vars
  <2>. Stutter
    BY <1>0 DEF vars
  <2>. QED  OBVIOUS
<1>1. ASSUME NEW p \in Pids, Boot(p) PROVE Stutter
  \* The new process starts later than any recorded holder did.
  <2>1. lease # NoLease => /\ lease \in Lease
                           /\ lease.holder.startTicks <= clock
    OBVIOUS
  <2>2. Lost' = Lost
    BY <1>1, <2>1 DEF Boot, Running
  <2>. QED  BY <1>1, <2>2 DEF Boot
<1>2. ASSUME NEW p \in Pids, Crash(p) PROVE Stutter \/ (~Lost /\ Mutex!Lose)
  <2>1. CASE lease # NoLease /\ lease.holder = Self(p)
    <3>1. ~Lost /\ Lost' /\ lease.act \in HostedBy(p)
      BY <1>2, <2>1 DEF Crash, Running, HostedBy
    <3>2. writing' = writing \ {lease.act}
      BY <1>2, <2>1, <3>1 DEF Crash
    <3>. QED  BY <1>2, <2>1, <3>1, <3>2 DEF Crash, Mutex!Lose
  <2>2. CASE lease = NoLease \/ lease.holder # Self(p)
    <3>1. writing' = writing
      BY <1>2, <2>2 DEF Crash, HostedBy
    <3>2. Lost' = Lost
      BY <1>2, <2>2 DEF Crash, Running
    <3>3. Stutter
      BY <1>2, <3>1, <3>2 DEF Crash
    <3>. QED  BY <3>3
  <2>. QED  BY <2>1, <2>2
<1>3. ASSUME NEW p \in Pids, NEW a \in Acts, Call(p, a) PROVE Stutter
  BY <1>3 DEF Call, CallAcquire, CallRelease, CallAdmit
<1>4. ASSUME NEW p \in Pids, CallCoordinatorAdmit(p) \/ EndCoordinatorWrite(p) \/ CoordinatorAdmit(p)
      PROVE  Stutter
  BY <1>4 DEF CallCoordinatorAdmit, EndCoordinatorWrite, CoordinatorAdmit
<1>5. ASSUME NEW p \in Pids, Inspect(p) PROVE Stutter
  BY <1>5 DEF Inspect, Exists, Read, Probe, LooksOnly
<1>6. ASSUME NEW p \in Pids, Link(p) PROVE Stutter \/ (~Lost /\ \E a \in Acts : Mutex!Take(a))
  <2>1. CASE lease' = lease
    <3>. Stutter
      BY <1>6, <1>q, <2>1 DEF Link
    <3>. QED  OBVIOUS
  <2>2. CASE lease' # lease
    <3>1. /\ lease = NoLease /\ lease' = [act |-> op[p].act, holder |-> Self(p)]
          /\ op[p].act \in Acts /\ ~Lost' /\ ~Lost
      BY <1>6, <2>2, OpFacts DEF Link, Deciding, ActKinds
    <3>2. Owner = NoAct /\ Owner' = op[p].act
      <4>1. lease' # NoLease
        BY <1>6, <2>2, <3>1
      <4>. QED  BY <3>1, <4>1
    <3>4. writing' = writing /\ Lost' = Lost
      BY <1>6, <3>1 DEF Link
    <3>3. Mutex!Take(op[p].act)
      BY <3>2, <3>4 DEF Mutex!Take
    <3>. QED  BY <3>1, <3>3
  <2>. QED  BY <2>1, <2>2
<1>7. ASSUME NEW p \in Pids, Rewrite(p) PROVE Stutter
  <2>1. lease' = lease
    BY <1>7, HeldIsCurrent DEF Rewrite, Deciding, ActKinds
  <2>. QED  BY <1>7, <2>1 DEF Rewrite
<1>8. ASSUME NEW p \in Pids, RefuseAcquire(p) PROVE Stutter
  BY <1>8 DEF RefuseAcquire
<1>9. ASSUME NEW p \in Pids, Release(p) PROVE Stutter \/ (~Lost /\ \E a \in Acts : Mutex!Give(a))
  <2>1. CASE ~HeldByMe(p)
    <3>. Stutter
      BY <1>9, <1>q, <2>1 DEF Release
    <3>. QED  OBVIOUS
  <2>2. CASE HeldByMe(p)
    <3>1. /\ lease \in Lease /\ lease.act = op[p].act /\ ~Lost
          /\ op[p].act \notin writing
      BY <1>9, <2>2, HeldIsCurrent DEF Release, Deciding, ActKinds
    <3>2. Mutex!Give(op[p].act)
      BY <1>9, <2>2, <3>1 DEF Release, Mutex!Give
    <3>. QED  BY <3>1, <3>2
  <2>. QED  BY <2>1, <2>2
<1>10. ASSUME NEW p \in Pids, Admit(p) PROVE Stutter \/ (~Lost /\ \E a \in Acts : Mutex!Begin(a))
  <2>1. CASE ~HeldByMe(p) \/ op[p].act \in writing
    <3>. Stutter
      BY <1>10, <1>q, <2>1 DEF Admit
    <3>. QED  OBVIOUS
  <2>2. CASE HeldByMe(p) /\ op[p].act \notin writing
    <3>1. /\ lease \in Lease /\ lease.act = op[p].act /\ ~Lost
      BY <1>10, <2>2, HeldIsCurrent DEF Admit, Deciding, ActKinds
    <3>2. Mutex!Begin(op[p].act)
      BY <1>10, <2>2, <3>1 DEF Admit, Mutex!Begin
    <3>. QED  BY <3>1, <3>2
  <2>. QED  BY <2>1, <2>2
<1>11. ASSUME NEW a \in Acts, EndWrite(a) PROVE ~Lost /\ Mutex!End(a)
  BY <1>11 DEF EndWrite, Mutex!End
<1>. QED
  BY <1>0, <1>1, <1>2, <1>3, <1>4, <1>5, <1>6, <1>7, <1>8, <1>9, <1>10, <1>11
     DEF Next, Decide

\* Every behaviour of the lease protocol is a behaviour of the writer lock
\* that is never freed under a lost owner.
THEOREM ImplementsMutexTheorem == Spec => ImplementsMutex
<1>1. Init => Mutex!Init
  BY DEF Init, Mutex!Init
<1>2. IInv /\ [Next]_vars => [Mutex!Next /\ ~Mutex!Recover]_(Mutex!avars)
  BY RefinementStep
<1>. QED  BY <1>1, <1>2, InvAlways, PTL DEF Spec, ImplementsMutex, Mutex!NoRecoverySpec
=============================================================================
