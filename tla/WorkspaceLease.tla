--------------------------- MODULE WorkspaceLease ---------------------------
(***************************************************************************)
(* The writer lease of src/src/activation/workspace-lease.ts for one       *)
(* workspace (leases of different workspaces are different files and do    *)
(* not interact).                                                          *)
(*                                                                         *)
(* The lease is a file.  Every operation first runs inspect(), which is    *)
(* three separate looks at the world (does the file exist, what does it    *)
(* say, is the process it names running) and only then acts with one       *)
(* link, rename or unlink.  An operation is synchronous in its process,    *)
(* so a process has at most one in progress; operations of different       *)
(* processes interleave at every look.  Processes crash, and a pid comes   *)
(* back with a later start time.                                           *)
(***************************************************************************)
EXTENDS Naturals, FiniteSets

CONSTANTS Pids,         \* pids of the processes that share the lease directory
          Acts,         \* activation ids, each minted by one process
          Verifiers,    \* pids of processes with a /proc (canVerify)
          Coordinators, \* pids of processes with a coordinator that writes
          Crashable,    \* pids of processes that may die
          MaxClock,     \* bound on process starts
          NoLease, NoProcess, NoAct

ASSUME PidsAssumption == /\ Verifiers \subseteq Pids
                         /\ Coordinators \subseteq Pids
                         /\ Crashable \subseteq Pids
                         /\ MaxClock \in Nat
ASSUME NoActAssumption == NoAct \notin Acts

\* A process is named by its pid and the tick it started at.
HolderProcess == [pid : Pids, startTicks : Nat \ {0}]
\* A lease record: who holds the workspace and the process to probe for it.
Lease == [act : Acts, holder : HolderProcess]

ASSUME NoLeaseAssumption == NoLease \notin Lease
ASSUME NoProcessAssumption == NoProcess \notin HolderProcess

Uncertain == {"unreadable_record", "liveness_unverifiable",
              "holder_process_gone", "holder_start_mismatch"}
Verdict == {"none", "free", "held"} \cup Uncertain

ActKinds == {"acquire", "release", "admit"}
Kinds == {"none", "coordinator", "reconcile"} \cup ActKinds
\* Where an operation stands: the three looks of inspect, then its decision.
\* "journal" is only used by reconciliation, after its decision.
Steps == {"idle", "exists", "read", "probe", "decide", "journal"}

Op == [kind : Kinds, act : Acts \cup {NoAct}, at : Steps,
       seen : Lease \cup {NoLease}, verdict : Verdict]

Idle == [kind |-> "none", act |-> NoAct, at |-> "idle",
         seen |-> NoLease, verdict |-> "none"]

VARIABLES boot,          \* start tick of the process running under each pid, 0 if none
          clock,         \* the last start tick handed out
          host,          \* the process an activation lives in, NoProcess before dispatch
          lease,         \* the lease file
          op,            \* the operation each process is in the middle of
          writing,       \* activations with an admitted mutating call in flight
          coordWriting   \* pids whose coordinator has an admitted mutating call in flight
vars == <<boot, clock, host, lease, op, writing, coordWriting>>

Running(p) == boot[p] # 0
Self(p) == [pid |-> p, startTicks |-> boot[p]]
Live(h) == boot[h.pid] = h.startTicks
HostedBy(p) == {a \in Acts : host[a] = Self(p)}

TypeOK == /\ boot \in [Pids -> Nat]
          /\ clock \in Nat
          /\ host \in [Acts -> HolderProcess \cup {NoProcess}]
          /\ lease \in Lease \cup {NoLease}
          /\ op \in [Pids -> Op]
          /\ writing \in SUBSET Acts
          /\ coordWriting \in SUBSET Pids

Init == /\ boot = [p \in Pids |-> 0]
        /\ clock = 0
        /\ host = [a \in Acts |-> NoProcess]
        /\ lease = NoLease
        /\ op = [p \in Pids |-> Idle]
        /\ writing = {}
        /\ coordWriting = {}
-----------------------------------------------------------------------------
(***************************************************************************)
(* Processes.                                                              *)
(***************************************************************************)
Boot(p) == /\ ~Running(p)
           /\ clock < MaxClock
           /\ clock' = clock + 1
           /\ boot' = [boot EXCEPT ![p] = clock + 1]
           /\ UNCHANGED <<host, lease, op, writing, coordWriting>>

\* Death ends the process's operation and its writes.  The lease file stays.
Crash(p) == /\ p \in Crashable
            /\ Running(p)
            /\ boot' = [boot EXCEPT ![p] = 0]
            /\ op' = [op EXCEPT ![p] = Idle]
            /\ writing' = writing \ HostedBy(p)
            /\ coordWriting' = coordWriting \ {p}
            /\ UNCHANGED <<clock, host, lease>>
-----------------------------------------------------------------------------
(***************************************************************************)
(* Calls: an operation begins, and inspect() is its first work.            *)
(***************************************************************************)
Begin(p, kind, a) ==
    /\ Running(p)
    /\ op[p] = Idle
    /\ op' = [op EXCEPT ![p] = [kind |-> kind, act |-> a, at |-> "exists",
                                seen |-> NoLease, verdict |-> "none"]]

\* A dispatch mints the activation in this process; a retry or resume
\* acquires again for an activation that already lives here.
CallAcquire(p, a) == /\ \/ host[a] = NoProcess
                        \/ host[a] = Self(p) /\ a \notin writing
                     /\ Begin(p, "acquire", a)
                     /\ host' = [host EXCEPT ![a] = Self(p)]
                     /\ UNCHANGED <<boot, clock, lease, writing, coordWriting>>

\* The host releases an activation that has gone quiet.
CallRelease(p, a) == /\ host[a] = Self(p)
                     /\ a \notin writing
                     /\ Begin(p, "release", a)
                     /\ UNCHANGED <<boot, clock, host, lease, writing, coordWriting>>

\* The guard in front of one mutating tool call.
CallAdmit(p, a) == /\ host[a] = Self(p)
                   /\ a \notin writing
                   /\ Begin(p, "admit", a)
                   /\ UNCHANGED <<boot, clock, host, lease, writing, coordWriting>>

CallCoordinatorAdmit(p) == /\ p \in Coordinators \ coordWriting
                           /\ Begin(p, "coordinator", NoAct)
                           /\ UNCHANGED <<boot, clock, host, lease, writing, coordWriting>>
-----------------------------------------------------------------------------
(***************************************************************************)
(* inspect(): existsSync, then readFileSync, then the process probe.       *)
(***************************************************************************)
LooksOnly == UNCHANGED <<boot, clock, host, lease, writing, coordWriting>>

Exists(p) ==
    /\ op[p].at = "exists"
    /\ op' = [op EXCEPT ![p] =
                IF lease = NoLease THEN [@ EXCEPT !.at = "decide", !.verdict = "free"]
                                   ELSE [@ EXCEPT !.at = "read"]]
    /\ LooksOnly

\* A file that is gone by the time it is read fails like one that does not
\* parse: one catch covers both.
Read(p) ==
    /\ op[p].at = "read"
    /\ op' = [op EXCEPT ![p] =
                IF lease = NoLease
                THEN [@ EXCEPT !.at = "decide", !.verdict = "unreadable_record"]
                ELSE [@ EXCEPT !.at = "probe", !.seen = lease]]
    /\ LooksOnly

\* The record never decides; the probe does.
Judge(p, h) == IF p \notin Verifiers THEN "liveness_unverifiable"
               ELSE IF boot[h.pid] = 0 THEN "holder_process_gone"
               ELSE IF boot[h.pid] # h.startTicks THEN "holder_start_mismatch"
               ELSE "held"

Probe(p) ==
    /\ op[p].at = "probe"
    /\ op' = [op EXCEPT ![p].at = "decide",
                        ![p].verdict = Judge(p, op[p].seen.holder)]
    /\ LooksOnly

Inspect(p) == Exists(p) \/ Read(p) \/ Probe(p)
-----------------------------------------------------------------------------
(***************************************************************************)
(* Decisions.                                                              *)
(***************************************************************************)
Deciding(p, kind) == op[p].kind = kind /\ op[p].at = "decide"
Done(p) == op' = [op EXCEPT ![p] = Idle]

HeldByMe(p) == op[p].verdict = "held" /\ op[p].seen.act = op[p].act

\* Mutants of Link.  A record without the start-time guard; rename instead of
\* link; somebody else's start time; the clean-up unlinks the published path.
LinkAs(p, record, publishes) ==
    /\ Deciding(p, "acquire")
    /\ op[p].verdict = "free"
    /\ lease' = IF publishes THEN record ELSE lease
    /\ Done(p)
    /\ UNCHANGED <<boot, clock, host, writing, coordWriting>>
LinkUnguarded(p) ==
    LinkAs(p, [act |-> op[p].act,
               holder |-> [pid |-> p, startTicks |-> IF p \in Verifiers THEN boot[p] ELSE 0]],
           lease = NoLease)
LinkThenUnlink(p) == LinkAs(p, NoLease, TRUE)

\* Free: stage a record naming this process and link it into place.  A file
\* that appeared in the meantime makes link fail with EEXIST, a refusal.  A
\* process that cannot read its own start time throws instead.
Link(p) == /\ Deciding(p, "acquire")
           /\ op[p].verdict = "free"
           /\ lease' = IF lease = NoLease /\ p \in Verifiers
                       THEN [act |-> op[p].act, holder |-> Self(p)]
                       ELSE lease
           /\ Done(p)
           /\ UNCHANGED <<boot, clock, host, writing, coordWriting>>

\* Held by the same activation: rename a copy of what was read over the file.
Rewrite(p) == /\ Deciding(p, "acquire")
              /\ HeldByMe(p)
              /\ lease' = op[p].seen
              /\ Done(p)
              /\ UNCHANGED <<boot, clock, host, writing, coordWriting>>

\* A mutant: the file of a dead holder is taken over in place.
StealFromTheDead(p) == /\ Deciding(p, "acquire")
                       /\ op[p].verdict # "free"
                       /\ ~HeldByMe(p)
                       /\ lease' = IF op[p].verdict \in {"holder_process_gone", "holder_start_mismatch"}
                                   THEN [act |-> op[p].act, holder |-> Self(p)] ELSE lease
                       /\ Done(p)
                       /\ UNCHANGED <<boot, clock, host, writing, coordWriting>>

\* Held by another activation, or uncertain: never stolen.
RefuseAcquire(p) == /\ Deciding(p, "acquire")
                    /\ op[p].verdict # "free"
                    /\ ~HeldByMe(p)
                    /\ Done(p)
                    /\ UNCHANGED <<boot, clock, host, lease, writing, coordWriting>>

\* A mutant of Release: it removes the file unless another is known to hold it.
ReleaseIf(p, removes) == /\ Deciding(p, "release")
                         /\ lease' = IF removes THEN NoLease ELSE lease
                         /\ Done(p)
                         /\ UNCHANGED <<boot, clock, host, writing, coordWriting>>
ReleaseUnlessAnothers(p) ==
    ReleaseIf(p, ~(op[p].verdict = "held" /\ op[p].seen.act # op[p].act))

\* release: free is a no-op; another's lease or an uncertain one throws; its
\* own is unlinked.
Release(p) == /\ Deciding(p, "release")
              /\ lease' = IF HeldByMe(p) THEN NoLease ELSE lease
              /\ Done(p)
              /\ UNCHANGED <<boot, clock, host, writing, coordWriting>>

\* A mutant: the coordinator's rule, a free workspace admits too.
AdmitWhenFree(p) == /\ Deciding(p, "admit")
                    /\ writing' = IF HeldByMe(p) \/ op[p].verdict = "free"
                                  THEN writing \cup {op[p].act} ELSE writing
                    /\ Done(p)
                    /\ UNCHANGED <<boot, clock, host, lease, coordWriting>>

\* admitToolCall: only a workspace held by this very activation admits.
Admit(p) == /\ Deciding(p, "admit")
            /\ writing' = IF HeldByMe(p) THEN writing \cup {op[p].act} ELSE writing
            /\ Done(p)
            /\ UNCHANGED <<boot, clock, host, lease, coordWriting>>

\* admitCoordinatorToolCall: the mirror image, only a free workspace admits.
CoordinatorAdmit(p) == /\ Deciding(p, "coordinator")
                       /\ coordWriting' = IF op[p].verdict = "free"
                                          THEN coordWriting \cup {p} ELSE coordWriting
                       /\ Done(p)
                       /\ UNCHANGED <<boot, clock, host, lease, writing>>

\* An admitted call finishes.  Nothing is looked up: the verdict was for the
\* whole call.
EndWrite(a) == /\ a \in writing
               /\ writing' = writing \ {a}
               /\ UNCHANGED <<boot, clock, host, lease, op, coordWriting>>

EndCoordinatorWrite(p) == /\ p \in coordWriting
                          /\ coordWriting' = coordWriting \ {p}
                          /\ UNCHANGED <<boot, clock, host, lease, op, writing>>

Decide(p) == \/ Link(p) \/ Rewrite(p) \/ RefuseAcquire(p)
             \/ Release(p) \/ Admit(p) \/ CoordinatorAdmit(p)

Call(p, a) == CallAcquire(p, a) \/ CallRelease(p, a) \/ CallAdmit(p, a)

Next == \/ \E p \in Pids : \/ Boot(p) \/ Crash(p)
                           \/ \E a \in Acts : Call(p, a)
                           \/ CallCoordinatorAdmit(p)
                           \/ Inspect(p) \/ Decide(p)
                           \/ EndCoordinatorWrite(p)
        \/ \E a \in Acts : EndWrite(a)

Spec == Init /\ [][Next]_vars

\* A synchronous operation that has begun runs to its end while its process lives.
FairSpec == Spec /\ \A p \in Pids : WF_vars(Inspect(p) \/ Decide(p))
-----------------------------------------------------------------------------
(***************************************************************************)
(* Properties.                                                             *)
(***************************************************************************)
\* "exactly one writer per mutable workspace" (workspace-lease.ts:2), between
\* activations: two admitted mutating calls are never in flight together.
MutualExclusion == \A a, b \in writing : a = b

\* A call in flight is covered from its admission to its end: the lease file
\* names its activation, in the process that runs it, and that process is alive.
WriterHolds == \A a \in writing : /\ lease # NoLease
                                  /\ lease.act = a
                                  /\ lease.holder = host[a]
                                  /\ Live(lease.holder)

\* The lease file always names the process that minted the activation it
\* names, so a probe of the record is a probe of the writer.
LeaseNamesItsProcess == lease # NoLease => lease.holder = host[lease.act]

\* "A crashed holder yields uncertain, never a blind free": no acquire, rewrite
\* or release of anybody changes a lease file whose holder is dead.
NeverStolen == [][lease # NoLease /\ ~Live(lease.holder) => lease' = lease]_vars

\* An operation of one activation never takes the file from another live one:
\* a held file goes only by the release of its own activation.
OnlyOwnRelease ==
    [][lease # NoLease /\ Live(lease.holder) =>
         \/ lease' = lease
         \/ lease' = NoLease /\ \E p \in Pids : /\ Deciding(p, "release")
                                                /\ op[p].act = lease.act]_vars

\* The protocol implements the writer lock that has no recovery authority.
Mutex == INSTANCE WriterMutex
           WITH NoOwner <- NoAct,
                owner <- IF lease = NoLease THEN NoAct ELSE lease.act,
                lost <- lease # NoLease /\ ~Live(lease.holder)
ImplementsMutex == Mutex!NoRecoverySpec

\* Contention has a winner: when an acquirer that can verify has seen the
\* workspace free, somebody's record is published, even if every acquirer saw it
\* free, unless that acquirer dies first.
ContentionHasAWinner ==
    \A p \in Verifiers : (Deciding(p, "acquire") /\ op[p].verdict = "free")
                             ~> (lease # NoLease \/ ~Running(p))

=============================================================================
