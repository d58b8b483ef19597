------------------------- MODULE WorkspaceReconcile -------------------------
(***************************************************************************)
(* Reconciliation of an uncertain workspace                                *)
(* (src/src/activation/workspace-reconcile.ts), the only way out of a      *)
(* lease whose holder died.  An operator proposes an outcome; reconcile()  *)
(* inspects the lease again, removes the file when the verdict permits the *)
(* outcome, and then appends what it decided to a log.  It runs beside the *)
(* acquires, releases and deaths of WorkspaceLease.                        *)
(***************************************************************************)
EXTENDS WorkspaceLease

CONSTANTS Reconcilers,   \* pids of processes an operator reconciles from
          OnlyReported,  \* operators propose only for a workspace the status
                         \* surface lists as held by a dead process
          Nothing        \* no reconciliation in progress

ASSUME ReconcilersAssumption == Reconcilers \subseteq Pids /\ OnlyReported \in BOOLEAN

ProposedOutcome == {"safe_free", "superseded", "manual_attention_required"}
\* complete: the request has a basis, and names a successor if it must.
Proposal == [outcome : ProposedOutcome, complete : BOOLEAN]
\* One line of the log.  holder is the lease the decision was taken on.
Entry == [applied : BOOLEAN, outcome : ProposedOutcome \cup {"recovered_holder"},
          holder : Lease \cup {NoLease}]

VARIABLES pending,   \* what each process is reconciling: a proposal, then an entry
          journal,   \* the entries of the append-only log
          freed      \* lease records a reconciliation has removed (history)
rvars == <<pending, journal, freed>>
allvars == <<vars, rvars>>

ReconcileTypeOK == /\ TypeOK
                   /\ pending \in [Pids -> Proposal \cup Entry \cup {Nothing}]
                   /\ journal \in SUBSET Entry
                   /\ freed \in SUBSET Lease

ReconcileInit == /\ Init
                 /\ pending = [p \in Pids |-> Nothing]
                 /\ journal = {}
                 /\ freed = {}
-----------------------------------------------------------------------------
HeldByTheDead == lease # NoLease /\ ~Live(lease.holder)

Propose(p, prop) == /\ OnlyReported => HeldByTheDead
                    /\ Begin(p, "reconcile", NoAct)
                    /\ pending' = [pending EXCEPT ![p] = prop]
                    /\ UNCHANGED <<boot, clock, host, lease, writing, coordWriting, journal, freed>>

\* A mutant: a reused pid is not evidence that the holder is gone.
PERMITTEDButReuse == [v \in Uncertain |->
                        IF v = "unreadable_record" THEN {"superseded", "manual_attention_required"}
                        ELSE IF v = "holder_process_gone" THEN ProposedOutcome
                        ELSE {"manual_attention_required"}]

PERMITTED == [v \in Uncertain |->
                IF v = "unreadable_record" THEN {"superseded", "manual_attention_required"}
                ELSE IF v = "liveness_unverifiable" THEN {"manual_attention_required"}
                ELSE ProposedOutcome]

\* decide(): a held or free workspace, an incomplete request and an outcome
\* the verdict forbids are all refused.
Applied(p) == /\ op[p].verdict \in Uncertain
              /\ pending[p].complete
              /\ pending[p].outcome \in PERMITTED[op[p].verdict]
Resolving(p) == Applied(p) /\ pending[p].outcome # "manual_attention_required"

\* Mutants of Resolve: the proposal is logged as it came; the log names the
\* holder that is left after the removal.
ResolveAs(p, entry) ==
    /\ Deciding(p, "reconcile")
    /\ lease' = IF Resolving(p) THEN NoLease ELSE lease
    /\ freed' = IF Resolving(p) /\ lease # NoLease THEN freed \cup {lease} ELSE freed
    /\ pending' = [pending EXCEPT ![p] = entry]
    /\ op' = [op EXCEPT ![p].at = "journal"]
    /\ UNCHANGED <<boot, clock, host, writing, coordWriting, journal>>
ResolveUndecided(p) == ResolveAs(p, pending[p])
ResolveThenLook(p) ==
    ResolveAs(p, [applied |-> Applied(p), outcome |-> pending[p].outcome, holder |-> lease'])

\* What is unlinked is the path, whatever record it holds by now.
Resolve(p) ==
    /\ Deciding(p, "reconcile")
    /\ lease' = IF Resolving(p) THEN NoLease ELSE lease
    /\ freed' = IF Resolving(p) /\ lease # NoLease THEN freed \cup {lease} ELSE freed
    /\ pending' = [pending EXCEPT ![p] =
                     [applied |-> Applied(p),
                      outcome |-> IF op[p].verdict = "held" THEN "recovered_holder"
                                  ELSE IF Applied(p) THEN pending[p].outcome
                                  ELSE "manual_attention_required",
                      holder |-> op[p].seen]]
    /\ op' = [op EXCEPT ![p].at = "journal"]
    /\ UNCHANGED <<boot, clock, host, writing, coordWriting, journal>>

AppendRecord(p) == /\ op[p].at = "journal"
                   /\ journal' = journal \cup {pending[p]}
                   /\ pending' = [pending EXCEPT ![p] = Nothing]
                   /\ Done(p)
                   /\ UNCHANGED <<boot, clock, host, lease, writing, coordWriting, freed>>

\* Everything else a process does; death takes an unwritten entry with it.
LeaseStep == /\ Next
             /\ pending' = [p \in Pids |-> IF op'[p] = Idle THEN Nothing ELSE pending[p]]
             /\ UNCHANGED <<journal, freed>>

ReconcileNext == \/ LeaseStep
                 \/ \E p \in Reconcilers : \/ \E prop \in Proposal : Propose(p, prop)
                                           \/ Resolve(p)
                                           \/ AppendRecord(p)

ReconcileSpec == ReconcileInit /\ [][ReconcileNext]_allvars

\* An operator who does not give up, in a process that finishes what it begins.
InsistentOperator(p) ==
    /\ SF_allvars(Propose(p, [outcome |-> "safe_free", complete |-> TRUE]))
    /\ WF_allvars(((Inspect(p) \/ Decide(p)) /\ LeaseStep) \/ Resolve(p) \/ AppendRecord(p))
FairReconcileSpec == ReconcileSpec /\ \A p \in Reconcilers : InsistentOperator(p)
-----------------------------------------------------------------------------
(***************************************************************************)
(* Properties.                                                             *)
(***************************************************************************)
\* "A live writer's workspace can never be reconciled out from under it"
\* (workspace-reconcile.ts:198-199): no removal hits a file whose holder lives.
\* Two operators break it: the first frees the file, a writer takes it, and the
\* second unlinks the path on what it saw before.
LiveWriterNeverReconciled ==
    [][\A p \in Reconcilers : Resolve(p) /\ lease # NoLease /\ Live(lease.holder)
                                => lease' = lease]_allvars

\* A reconciled workspace is still a writer lock, with one operator at a time:
\* only Recover frees a lost one.
RecoversMutex == Mutex!Spec

\* What has been decided and is in the log, or about to be written there.
Decisions == journal \cup {pending[p] : p \in {q \in Pids : op[q].at = "journal"}}
Removes(e) == e.applied /\ e.outcome # "manual_attention_required"

\* The way out of an uncertain workspace is "a recorded decision rather than an
\* inference" (workspace-reconcile.ts:8-9): every removed record is in the log
\* as an applied decision about that very record, or about to be written there.
RemovalIsRecorded == \A l \in freed : \E e \in Decisions : e.holder = l /\ Removes(e)

\* No decision to remove is ever about a living holder, however long ago its
\* process was probed: by the time of the decision, and ever after, the process
\* the decision names is gone.  What is unlinked may still be another record.
DecisionsNameTheDead ==
    \A e \in Decisions : Removes(e) /\ e.holder # NoLease => ~Live(e.holder.holder)

\* A dead holder, its pid reused or not, does not lock the workspace for ever
\* when an operator who can see processes insists.
DeadHolderIsFreed ==
    (HeldByTheDead /\ \E p \in Reconcilers \cap Verifiers : Running(p)) ~> ~HeldByTheDead
=============================================================================
