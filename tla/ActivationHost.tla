--------------------------- MODULE ActivationHost ---------------------------
(***************************************************************************)
(* One process's NativeActivationHost (src/src/activation/native-host.ts)  *)
(* and its FleetRegistry (registry.ts), on one workspace.                  *)
(*                                                                         *)
(* The host is single-threaded: what runs between two awaits is one        *)
(* action, and everything else may happen at an await.  Several            *)
(* coroutines of one activation can be pending at once: its turns          *)
(* (runToSettled, one per attempt, the first wrapped by the fallback walk  *)
(* of runWithFallback), a retry with a model override, and a stop.  The    *)
(* Pi session is external: a prompt starts a turn, the turn makes tool     *)
(* calls and asks, agent_settled is emitted, and then the prompt returns.  *)
(* The writer lease is a variable that names its holder; the file behind   *)
(* it is WorkspaceLease's business.                                        *)
(***************************************************************************)
EXTENDS Naturals, FiniteSets

CONSTANTS Acts,          \* activations, each dispatched at most once
          Writers,       \* those whose tier resolves to access 'write'
          Other,         \* a writer in another process
          NoOwner,       \* nobody holds the workspace
          ChainLength,   \* models in the configured chain
          MaxAttempts,   \* bound on attempts of one activation
          CreateMayFail, \* createAgentSession may throw
          Operators      \* the calls operators make

ASSUME HostAssumption == /\ Writers \subseteq Acts
                         /\ Other \notin Acts /\ NoOwner \notin Acts \cup {Other}
                         /\ ChainLength \in Nat \ {0}
                         /\ MaxAttempts \in Nat \ {0}
                         /\ CreateMayFail \in BOOLEAN
                         /\ Operators \subseteq {"resume", "retry", "override", "stop"}

Attempts == 1..MaxAttempts
States == {"none", "starting", "running", "needs_reply", "settled", "failed",
           "stopping", "stopped"}
RESUMABLE_STATES == {"settled", "needs_reply"}
RETRYABLE_STATES == {"failed"}

\* A dispatched activation is in the registry from its session to its stop.
Phases == {"new", "creating", "live", "stopping", "gone", "rejected"}

\* Where the coroutine of an attempt stands.  prompted, running, asking: the
\* session's turn; settled, threw: the turn is over and the await has not
\* returned; validate, create: the awaits of the fallback walk.
Turning == {"prompted", "running", "asking"}
Run == [pc : {"none", "settled", "threw", "validate", "create", "done"} \cup Turning,
        session : Nat, model : Nat, outcome : {"none", "ok", "retryable", "fatal"}]
NoRun == [pc |-> "none", session |-> 0, model |-> 0, outcome |-> "none"]

\* The coroutine of a retry with a model override.
Swap == [pc : {"none", "validate", "create"}, attempt : Attempts \cup {0}]
NoSwap == [pc |-> "none", attempt |-> 0]

VARIABLES phase,      \* where an activation is in its life
          state,      \* snapshot.state
          rows,       \* activations with a row in the authority store
          owner,      \* the holder of the workspace lease
          attempt,    \* the number in snapshot.attemptId
          session,    \* the number of record.session
          disposed,   \* sessions up to this number are disposed
          aborting,   \* the session stop() aborts, 0 if it was not called
          listening,  \* the session the host's own listener is on, 0 if none
          run,        \* the coroutine of each attempt
          swap,       \* the coroutine of a retry with an override
          calls       \* <<activation, attempt>> with an admitted call in flight
vars == <<phase, state, rows, owner, attempt, session, disposed, aborting, listening, run, swap, calls>>
record == <<attempt, session, disposed, aborting, listening>>

TypeOK == /\ phase \in [Acts -> Phases]
          /\ state \in [Acts -> States]
          /\ rows \subseteq Acts
          /\ owner \in Acts \cup {Other, NoOwner}
          /\ attempt \in [Acts -> Attempts \cup {0}]
          /\ session \in [Acts -> Nat]
          /\ disposed \in [Acts -> Nat] /\ \A a \in Acts : disposed[a] <= session[a]
          /\ aborting \in [Acts -> Nat]
          /\ listening \in [Acts -> Nat]
          /\ run \in [Acts -> [Attempts -> Run]]
          /\ swap \in [Acts -> Swap]
          /\ calls \subseteq Acts \X Attempts

Init == /\ phase = [a \in Acts |-> "new"]
        /\ state = [a \in Acts |-> "none"]
        /\ rows = {}
        /\ owner = NoOwner
        /\ attempt = [a \in Acts |-> 0]
        /\ session = [a \in Acts |-> 0]
        /\ disposed = [a \in Acts |-> 0]
        /\ aborting = [a \in Acts |-> 0]
        /\ listening = [a \in Acts |-> 0]
        /\ run = [a \in Acts |-> [n \in Attempts |-> NoRun]]
        /\ swap = [a \in Acts |-> NoSwap]
        /\ calls = {}

Registered(a) == phase[a] \in {"live", "stopping"}
Turn(a, n) == run[a][n].pc \in Turning
Busy(a, s) == \E n \in Attempts : Turn(a, n) /\ run[a][n].session = s
\* No turn of the session is under way: prompt() may start one, waitForIdle() returns.
Idle(a, s) == \A n \in Attempts : run[a][n].session = s
                                 => run[a][n].pc \notin {"running", "asking"}
\* stop()'s abort is returning: only promise continuations run before its
\* finally block, no model answers and no operator calls.
StopDue(a) == phase[a] = "stopping" /\ ~Busy(a, aborting[a])
\* Every promise of the activation has resolved.
Quiet(a) == /\ \A n \in Attempts : run[a][n].pc \in {"none", "done"}
            /\ swap[a] = NoSwap
-----------------------------------------------------------------------------
(***************************************************************************)
(* The pieces handlers share.                                              *)
(***************************************************************************)
\* acquireLease: free, or held by this very activation.
CanAcquire(a) == a \in Writers => owner \in {NoOwner, a}
Acquire(a) == owner' = IF a \in Writers THEN a ELSE owner

\* releaseIfWriter, when it is called at all.
Released(a, releases) == IF releases /\ a \in Writers /\ owner = a THEN NoOwner ELSE owner

\* Set the snapshot's state and save it to the authority store.
Save(a, s) == /\ state' = [state EXCEPT ![a] = s]
              /\ rows' = rows \cup {a}

GoTo(a, n, pc) == run' = [run EXCEPT ![a][n].pc = pc]

\* runToSettled is entered and awaits session.prompt.
Prompt(a, n, s, model) ==
    run' = [run EXCEPT ![a][n] = [pc |-> "prompted", session |-> s, model |-> model,
                                  outcome |-> "none"]]

\* A fresh session replaces the record's, which is disposed.
NewSession(a) == /\ session' = [session EXCEPT ![a] = @ + 1]
                 /\ disposed' = [disposed EXCEPT ![a] = session[a]]
                 /\ listening' = [listening EXCEPT ![a] = session[a] + 1]
-----------------------------------------------------------------------------
(***************************************************************************)
(* start(): everything before createAgentSession either rejects or takes   *)
(* the lease; then one await, and registration.                            *)
(***************************************************************************)
Dispatch(a) == /\ phase[a] = "new"
               /\ CanAcquire(a)
               /\ Acquire(a)
               /\ phase' = [phase EXCEPT ![a] = "creating"]
               /\ UNCHANGED <<state, rows, record, run, swap, calls>>

Reject(a) == /\ phase[a] = "new"
             /\ ~CanAcquire(a)
             /\ phase' = [phase EXCEPT ![a] = "rejected"]
             /\ UNCHANGED <<state, rows, owner, record, run, swap, calls>>

Register(a) == /\ phase[a] = "creating"
               /\ phase' = [phase EXCEPT ![a] = "live"]
               /\ Save(a, "starting")
               /\ attempt' = [attempt EXCEPT ![a] = 1]
               /\ NewSession(a)
               /\ Prompt(a, 1, session[a] + 1, 0)
               /\ UNCHANGED <<owner, aborting, swap, calls>>

\* createAgentSession throws out of start, or the mutating tools cannot be
\* guarded: the caller is refused, and nothing else happens.
StartFails(a) == /\ CreateMayFail
                 /\ phase[a] = "creating"
                 /\ phase' = [phase EXCEPT ![a] = "rejected"]
                 /\ UNCHANGED <<state, rows, owner, record, run, swap, calls>>
-----------------------------------------------------------------------------
(***************************************************************************)
(* The session (external) and the host's listener, onSessionEvent.         *)
(***************************************************************************)
Hears(a, n) == listening[a] = run[a][n].session

AgentStart(a, n) ==
    /\ run[a][n].pc = "prompted"
    /\ run[a][n].session > disposed[a]
    /\ ~StopDue(a)
    /\ Idle(a, run[a][n].session)
    /\ GoTo(a, n, "running")
    /\ IF Hears(a, n) THEN Save(a, "running") ELSE UNCHANGED <<state, rows>>
    /\ UNCHANGED <<phase, owner, record, swap, calls>>

\* A guarded mutating tool: admitted only while the lease names the activation.
ToolCall(a, n) == /\ run[a][n].pc = "running"
                  /\ run[a][n].session > disposed[a]
                  /\ owner = a
                  /\ <<a, n>> \notin calls
                  /\ calls' = calls \cup {<<a, n>>}
                  /\ UNCHANGED <<phase, state, rows, owner, record, run, swap>>

EndCall(a, n) == /\ <<a, n>> \in calls
                 /\ calls' = calls \ {<<a, n>>}
                 /\ UNCHANGED <<phase, state, rows, owner, record, run, swap>>

\* Mutant: an activation that waits for an answer gives the workspace back meanwhile.
AskGivesBack(a, n) == /\ run[a][n].pc = "running"
                      /\ GoTo(a, n, "asking")
                      /\ IF Registered(a) THEN Save(a, "needs_reply") ELSE UNCHANGED <<state, rows>>
                      /\ owner' = Released(a, TRUE)
                      /\ UNCHANGED <<phase, record, swap, calls>>

\* ask_coordinator and escalate block their turn; the handlers look the record up.
Ask(a, n) == /\ run[a][n].pc = "running"
             /\ GoTo(a, n, "asking")
             /\ IF Registered(a) THEN Save(a, "needs_reply") ELSE UNCHANGED <<state, rows>>
             /\ UNCHANGED <<phase, owner, record, swap, calls>>

Answered(a, n) == /\ run[a][n].pc = "asking"
                  /\ GoTo(a, n, "running")
                  /\ IF Registered(a) THEN Save(a, "running") ELSE UNCHANGED <<state, rows>>
                  /\ UNCHANGED <<phase, owner, record, swap, calls>>

\* A turn ends by itself.  One that waits for an answer can end only because stop
\* aborted it, and need not even then: the ask awaits its transport with no signal.
TurnOver(a, n) == /\ <<a, n>> \notin calls
                  /\ \/ run[a][n].pc = "running"
                     \/ run[a][n].pc = "asking" /\ aborting[a] = run[a][n].session

AgentSettled(a, n, outcome) ==
    /\ TurnOver(a, n)
    /\ run[a][n].session > disposed[a]
    /\ run' = [run EXCEPT ![a][n].pc = "settled", ![a][n].outcome = outcome]
    /\ IF Hears(a, n) THEN Save(a, "settled") ELSE UNCHANGED <<state, rows>>
    /\ owner' = Released(a, Hears(a, n))
    /\ UNCHANGED <<phase, record, swap, calls>>

\* The prompt rejects without a settled turn: the session is busy, disposed or broken.
PromptThrows(a, n, outcome) ==
    /\ TurnOver(a, n) \/ run[a][n].pc = "prompted"
    /\ outcome # "ok"
    /\ run' = [run EXCEPT ![a][n].pc = "threw", ![a][n].outcome = outcome]
    /\ UNCHANGED <<phase, state, rows, owner, record, swap, calls>>
-----------------------------------------------------------------------------
(***************************************************************************)
(* runToSettled after its await, and the fallback walk of runWithFallback. *)
(***************************************************************************)
Completes(a, n) == run[a][n].pc = "settled" /\ run[a][n].outcome = "ok"

\* Only the first attempt walks the chain, only past retryable failures, and
\* only while the record is registered.
Walks(a, n) == /\ ~Completes(a, n)
               /\ n = 1
               /\ run[a][n].model + 1 < ChainLength
               /\ Registered(a)
               /\ run[a][n].outcome = "retryable"

\* Mutant: without the catch, a thrown prompt never becomes a result.
ContinueWithoutCatch(a, n) ==
    /\ run[a][n].pc = "settled" /\ Idle(a, run[a][n].session)
    /\ Save(a, IF Completes(a, n) THEN "settled" ELSE "failed")
    /\ owner' = Released(a, Completes(a, n))
    /\ GoTo(a, n, IF Walks(a, n) THEN "validate" ELSE "done")
    /\ UNCHANGED <<phase, record, swap, calls>>

\* Mutant: a failed attempt does not say so in the snapshot.
ContinueSilently(a, n) ==
    /\ \/ run[a][n].pc = "settled" /\ Idle(a, run[a][n].session)
       \/ run[a][n].pc = "threw"
    /\ IF Completes(a, n) THEN Save(a, "settled") ELSE UNCHANGED <<state, rows>>
    /\ owner' = Released(a, Completes(a, n))
    /\ GoTo(a, n, IF Walks(a, n) THEN "validate" ELSE "done")
    /\ UNCHANGED <<phase, record, swap, calls>>

Continue(a, n) ==
    /\ \/ run[a][n].pc = "settled" /\ Idle(a, run[a][n].session)
       \/ run[a][n].pc = "threw"
    /\ Save(a, IF Completes(a, n) THEN "settled" ELSE "failed")
    /\ owner' = Released(a, Completes(a, n))
    /\ GoTo(a, n, IF Walks(a, n) THEN "validate" ELSE "done")
    /\ UNCHANGED <<phase, record, swap, calls>>

ModelHonoured(a, n) == /\ run[a][n].pc = "validate"
                       /\ GoTo(a, n, "create")
                       /\ UNCHANGED <<phase, state, rows, owner, record, swap, calls>>

\* The next model is unavailable, or its session cannot be created.
WalkEnds(a, n) == /\ \/ run[a][n].pc = "validate"
                     \/ run[a][n].pc = "create" /\ CreateMayFail
                  /\ GoTo(a, n, "done")
                  /\ UNCHANGED <<phase, state, rows, owner, record, swap, calls>>

\* The registry is not consulted again, and the lease is not reacquired.
FallbackSession(a, n) == /\ run[a][n].pc = "create"
                         /\ NewSession(a)
                         /\ Save(a, "starting")
                         /\ Prompt(a, n, session[a] + 1, run[a][n].model + 1)
                         /\ UNCHANGED <<phase, owner, attempt, aborting, swap, calls>>
-----------------------------------------------------------------------------
(***************************************************************************)
(* Operator calls: retry, resume, stop.  A lease that is denied changes    *)
(* nothing.                                                                *)
(***************************************************************************)
MayOperate(a, call) == /\ call \in Operators
                       /\ Registered(a) /\ ~StopDue(a)

\* Mutant: the attempt number counts the sessions as well.
AdvanceBySession(a) == /\ attempt[a] < MaxAttempts
                       /\ CanAcquire(a)
                       /\ Acquire(a)
                       /\ attempt' = [attempt EXCEPT ![a] = @ + session[a]]
                       /\ Save(a, "starting")

\* A new attempt is recorded and its lease acquired.
Advance(a) == /\ attempt[a] < MaxAttempts
              /\ CanAcquire(a)
              /\ Acquire(a)
              /\ attempt' = [attempt EXCEPT ![a] = @ + 1]
              /\ Save(a, "starting")

AgainOnThisSession(a) == /\ Advance(a)
                         /\ listening' = [listening EXCEPT ![a] = session[a]]
                         /\ Prompt(a, attempt[a] + 1, session[a], 0)
                         /\ UNCHANGED <<phase, session, disposed, aborting, swap, calls>>

Resume(a) == /\ MayOperate(a, "resume")
             /\ state[a] \in RESUMABLE_STATES
             /\ AgainOnThisSession(a)

Retry(a) == /\ MayOperate(a, "retry")
            /\ state[a] \in RETRYABLE_STATES
            /\ AgainOnThisSession(a)

\* With an override the model is validated first; what was checked before that
\* await is not checked again after it.
RetryOverride(a) == /\ MayOperate(a, "override")
                    /\ state[a] \in RETRYABLE_STATES
                    /\ swap[a] = NoSwap
                    /\ swap' = [swap EXCEPT ![a].pc = "validate"]
                    /\ UNCHANGED <<phase, state, rows, owner, record, run, calls>>

OverrideRefused(a) == /\ swap[a].pc = "validate"
                      /\ swap' = [swap EXCEPT ![a] = NoSwap]
                      /\ UNCHANGED <<phase, state, rows, owner, record, run, calls>>

OverrideAdmitted(a) == /\ swap[a].pc = "validate"
                       /\ Advance(a)
                       /\ swap' = [swap EXCEPT ![a] = [pc |-> "create", attempt |-> attempt[a] + 1]]
                       /\ UNCHANGED <<phase, session, disposed, aborting, listening, run, calls>>

OverrideSession(a) == /\ swap[a].pc = "create"
                      /\ NewSession(a)
                      /\ Prompt(a, swap[a].attempt, session[a] + 1, 0)
                      /\ swap' = [swap EXCEPT ![a] = NoSwap]
                      /\ UNCHANGED <<phase, state, rows, owner, attempt, aborting, calls>>

OverrideCreateFails(a) == /\ CreateMayFail
                          /\ swap[a].pc = "create"
                          /\ swap' = [swap EXCEPT ![a] = NoSwap]
                          /\ UNCHANGED <<phase, state, rows, owner, record, run, calls>>

Stop(a) == /\ "stop" \in Operators
           /\ phase[a] = "live"
           /\ phase' = [phase EXCEPT ![a] = "stopping"]
           /\ state' = [state EXCEPT ![a] = "stopping"]
           /\ aborting' = [aborting EXCEPT ![a] = session[a]]
           /\ UNCHANGED <<rows, owner, attempt, session, disposed, listening, run, swap, calls>>

\* Mutant: stop() keeps the lease for a later resume.
StopKeepsLease(a) == /\ StopDue(a)
                     /\ phase' = [phase EXCEPT ![a] = "gone"]
                     /\ state' = [state EXCEPT ![a] = "stopped"]
                     /\ rows' = rows \ {a}
                     /\ listening' = [listening EXCEPT ![a] = 0]
                     /\ disposed' = [disposed EXCEPT ![a] = session[a]]
                     /\ UNCHANGED <<owner, attempt, session, aborting, run, swap, calls>>

\* Mutant: stop() finishes only what still says it is stopping.
StopIfStillStopping(a) == /\ StopDue(a) /\ state[a] = "stopping"
                          /\ phase' = [phase EXCEPT ![a] = "gone"]
                          /\ state' = [state EXCEPT ![a] = "stopped"]
                          /\ rows' = rows \ {a}
                          /\ owner' = Released(a, TRUE)
                          /\ listening' = [listening EXCEPT ![a] = 0]
                          /\ disposed' = [disposed EXCEPT ![a] = session[a]]
                          /\ UNCHANGED <<attempt, session, aborting, run, swap, calls>>

\* abort() returns once its session is idle; then the finally block disposes
\* the record's session.  A second stop() during the first only repeats it.
StopFinishes(a) == /\ StopDue(a)
                   /\ phase' = [phase EXCEPT ![a] = "gone"]
                   /\ state' = [state EXCEPT ![a] = "stopped"]
                   /\ rows' = rows \ {a}
                   /\ owner' = Released(a, TRUE)
                   /\ listening' = [listening EXCEPT ![a] = 0]
                   /\ disposed' = [disposed EXCEPT ![a] = session[a]]
                   /\ UNCHANGED <<attempt, session, aborting, run, swap, calls>>
-----------------------------------------------------------------------------
\* A writer of another process takes the workspace while it is free.
OtherTakes == /\ owner = NoOwner
              /\ owner' = Other
              /\ UNCHANGED <<phase, state, rows, record, run, swap, calls>>
OtherGives == /\ owner = Other
              /\ owner' = NoOwner
              /\ UNCHANGED <<phase, state, rows, record, run, swap, calls>>
-----------------------------------------------------------------------------
Begin(a) == Dispatch(a) \/ Reject(a) \/ Register(a) \/ StartFails(a)
TurnEnds(a, n) == \E outcome \in {"ok", "retryable", "fatal"} :
                     AgentSettled(a, n, outcome) \/ PromptThrows(a, n, outcome)
Tool(a, n) == ToolCall(a, n) \/ EndCall(a, n) \/ Ask(a, n) \/ Answered(a, n)
Walk(a, n) == Continue(a, n) \/ ModelHonoured(a, n) \/ WalkEnds(a, n) \/ FallbackSession(a, n)
Override(a) == RetryOverride(a) \/ OverrideRefused(a) \/ OverrideAdmitted(a)
               \/ OverrideSession(a) \/ OverrideCreateFails(a)

Next == \/ \E a \in Acts : \/ Begin(a) \/ Resume(a) \/ Retry(a) \/ Override(a)
                           \/ Stop(a) \/ StopFinishes(a)
                           \/ \E n \in Attempts : \/ AgentStart(a, n) \/ Tool(a, n)
                                                  \/ TurnEnds(a, n) \/ Walk(a, n)
        \/ OtherTakes \/ OtherGives

Spec == Init /\ [][Next]_vars

\* The fair part of TurnEnds: nothing promises that an abort ends an ask.
Answers(a, n) == run[a][n].pc # "asking" /\ TurnEnds(a, n)

\* Continuations run and sessions answer or throw; a turn makes finitely many
\* tool calls, each of which returns.  Nothing makes an operator answer, an
\* aborted ask return, or another process give the workspace back.
Fairness == \A a \in Acts :
               /\ WF_vars(Register(a)) /\ WF_vars(StopFinishes(a))
               /\ \A n \in Attempts : /\ WF_vars(AgentStart(a, n) \/ Answers(a, n))
                                      /\ SF_vars(Answers(a, n))
                                      /\ WF_vars(EndCall(a, n))
                                      /\ WF_vars(Walk(a, n))
FairSpec == Spec /\ Fairness
-----------------------------------------------------------------------------
(***************************************************************************)
(* Properties.                                                             *)
(***************************************************************************)
\* Attempt n is the only coroutine of a that is pending.
Alone(a, n) == /\ \A m \in Attempts \ {n} : run[a][m].pc \in {"none", "done"}
               /\ swap[a] = NoSwap
HoldsAlone(a, n) == phase[a] = "live" /\ Turn(a, n) /\ Alone(a, n) /\ owner = a

\* A writer's turn works on files nobody else may change: if it begins while nothing
\* else of its activation is pending it begins under the lease, and as long as nothing
\* else of its activation is pending it keeps the lease until it is over, whatever its
\* tools, its asks and other processes do.  What can take the workspace from under a
\* turn is only another coroutine of its own activation.
LoneTurnHoldsLease ==
    [][\A a \in Writers, n \in Attempts :
          phase'[a] = "live" /\ Turn(a, n)' /\ (Quiet(a) \/ HoldsAlone(a, n))
              => owner' = a]_vars

\* An activation with nothing pending has a way on that is not stop: its state is
\* resumable or retryable and its session is there and listened to.  The exception is
\* an attempt that was admitted and never prompted: its session could not be created.
NeverStranded == \A a \in Acts : phase[a] = "live" /\ Quiet(a) =>
                    /\ \/ state[a] \in RESUMABLE_STATES \cup RETRYABLE_STATES
                       \/ run[a][attempt[a]].pc = "none"
                    /\ session[a] > disposed[a]
                    /\ listening[a] = session[a]

\* The step in which stop() returns leaves the activation without the lease, and no
\* later step gives it back, except an override that was still validating its model:
\* it does not look again whether the activation is there.
StoppedHoldsNothing ==
    [][\A a \in Acts : phase'[a] = "gone" /\ owner' = a
                          => phase[a] = "gone" /\ (owner = a \/ swap[a].pc = "validate")]_vars

\* "a disposed activation must never resurrect" (native-host.ts:836-838): once
\* stop() has returned, no turn runs for the activation on a live session.
NeverResurrects == \A a \in Acts, n \in Attempts :
                      phase[a] = "gone" => ~(run[a][n].pc = "running"
                                             /\ run[a][n].session > disposed[a])

\* stop() returns, whether a turn runs, throws, walks the chain or has never begun,
\* unless the turn it aborts waits for an answer that nobody gives.
StopCompletes == \A a \in Acts :
    phase[a] = "stopping"
        ~> \/ phase[a] = "gone"
           \/ \E n \in Attempts : run[a][n].pc = "asking" /\ run[a][n].session = aborting[a]

\* An attempt reports a result, whichever of its turns, sessions, models and stops fail,
\* unless a turn of its session waits for an answer that nobody gives.
AttemptReports == \A a \in Acts, n \in Attempts :
    run[a][n].pc = "prompted"
        ~> \/ run[a][n].pc = "done"
           \/ \E m \in Attempts : run[a][m].pc = "asking" /\ run[a][m].session = run[a][n].session
=============================================================================
