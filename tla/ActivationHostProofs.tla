------------------------ MODULE ActivationHostProofs ------------------------
(***************************************************************************)
(* Proofs about ActivationHost, for every set of activations, every length *)
(* of the model chain and every mix of operator calls, patient or not.     *)
(***************************************************************************)
EXTENDS ActivationHost, TLAPS

Pending == Turning \cup {"settled", "threw"}

-----------------------------------------------------------------------------
(* The invariants                                                          *)

\* A registered record's session is there, and the host listens to it.
RecordInv == \A a \in Acts :
    /\ phase[a] \in {"new", "creating", "rejected"} =>
          /\ session[a] = 0 /\ swap[a] = NoSwap
          /\ \A n \in Attempts : run[a][n].pc = "none"
    /\ Registered(a) => session[a] > disposed[a] /\ listening[a] = session[a]
    /\ swap[a].pc = "create" => swap[a].attempt \in Attempts

\* A live activation says that it may be resumed or retried, or a coroutine will say
\* so, or the attempt admitted last was never prompted.
WayOn == \A a \in Acts : phase[a] = "live" =>
    \/ state[a] \in RESUMABLE_STATES \cup RETRYABLE_STATES
    \/ \E n \in Attempts : run[a][n].pc \in Pending
    \/ run[a][attempt[a]].pc = "none"

\* Nothing runs above the number of the attempt admitted last.
Numbered == \A a \in Acts :
    /\ \A n \in Attempts : run[a][n].pc # "none" => n <= attempt[a]
    /\ swap[a].pc = "create" => swap[a].attempt <= attempt[a]

\* The lease of this process is held by a writer, and a start that creates
\* its session has it.
OwnerInv == /\ owner \in Acts => owner \in Writers
            /\ \A a \in Writers : phase[a] = "creating" => owner = a

-----------------------------------------------------------------------------
(* What a handler may do to a coroutine                                    *)

Pcs == {"none", "settled", "threw", "validate", "create", "done"} \cup Turning
RunTyped == run \in [Acts -> [Attempts -> Run]]

\* Only the coroutine (a, n) is another afterwards.
OnlyRun(a, n) == \A b \in Acts, m \in Attempts : b # a \/ m # n => run'[b][m] = run[b][m]

\* One coroutine is replaced.
LEMMA RunPut ==
  ASSUME RunTyped, NEW a \in Acts, NEW n \in Attempts, NEW r \in Run,
         run' = [run EXCEPT ![a][n] = r]
  PROVE  RunTyped' /\ OnlyRun(a, n) /\ run'[a][n] = r
<1> DEFINE f == [run[a] EXCEPT ![n] = r]
<1>1. /\ f \in [Attempts -> Run] /\ f[n] = r
      /\ \A m \in Attempts : m # n => f[m] = run[a][m]
  BY DEF RunTyped
<1>2. run' = [run EXCEPT ![a] = f]
  OBVIOUS
<1> HIDE DEF f
<1>. QED  BY <1>1, <1>2 DEF RunTyped, OnlyRun

\* A coroutine goes on where it is.
LEMMA GoToFacts ==
  ASSUME RunTyped, NEW a \in Acts, NEW n \in Attempts, NEW pc \in Pcs, GoTo(a, n, pc)
  PROVE  /\ RunTyped' /\ OnlyRun(a, n)
         /\ run'[a][n].pc = pc /\ run'[a][n].session = run[a][n].session
         /\ run'[a][n].model = run[a][n].model /\ run'[a][n].outcome = run[a][n].outcome
<1> DEFINE r == [run[a][n] EXCEPT !.pc = pc]
<1>1. run[a][n] \in Run
  BY DEF RunTyped
<1>2. /\ r \in Run /\ r.pc = pc /\ r.session = run[a][n].session
      /\ r.model = run[a][n].model /\ r.outcome = run[a][n].outcome
  BY <1>1 DEF Run, Pcs
<1>3. run' = [run EXCEPT ![a][n] = r]
  BY DEF GoTo
<1> HIDE DEF r
<1>. QED  BY <1>2, <1>3, RunPut

\* A turn is over, with its outcome.
Over(a, n, pc, outcome) == run' = [run EXCEPT ![a][n].pc = pc, ![a][n].outcome = outcome]

\* What it says of a coroutine that is over.
LEMMA OverFacts ==
  ASSUME RunTyped, NEW a \in Acts, NEW n \in Attempts,
         NEW pc \in {"settled", "threw"}, NEW outcome \in {"ok", "retryable", "fatal"},
         Over(a, n, pc, outcome)
  PROVE  /\ RunTyped' /\ OnlyRun(a, n)
         /\ run'[a][n].pc = pc /\ run'[a][n].session = run[a][n].session
         /\ run'[a][n].model = run[a][n].model
<1> DEFINE r == [run[a][n] EXCEPT !.pc = pc, !.outcome = outcome]
<1>1. run[a][n] \in Run
  BY DEF RunTyped
<1>2. /\ r \in Run /\ r.pc = pc /\ r.session = run[a][n].session
      /\ r.model = run[a][n].model
  BY <1>1 DEF Run
<1>3. run' = [run EXCEPT ![a][n] = r]
  BY DEF RunTyped, Over
<1> HIDE DEF r
<1>4. RunTyped' /\ OnlyRun(a, n) /\ run'[a][n] = r
  BY <1>2, <1>3, RunPut
<1>. QED  BY <1>2, <1>4

\* A prompt begins.
LEMMA PromptFacts ==
  ASSUME RunTyped, NEW a \in Acts, NEW n \in Attempts, NEW s \in Nat, NEW model \in Nat,
         Prompt(a, n, s, model)
  PROVE  /\ RunTyped' /\ OnlyRun(a, n)
         /\ run'[a][n].pc = "prompted" /\ run'[a][n].session = s /\ run'[a][n].model = model
<1> DEFINE r == [pc |-> "prompted", session |-> s, model |-> model, outcome |-> "none"]
<1>1. r \in Run /\ r.pc = "prompted" /\ r.session = s /\ r.model = model
  BY DEF Run, Turning
<1>2. run' = [run EXCEPT ![a][n] = r]
  BY DEF Prompt
<1> HIDE DEF r
<1>. QED  BY <1>1, <1>2, RunPut

-----------------------------------------------------------------------------
(* The types                                                               *)

LiveTyped   == /\ phase \in [Acts -> Phases] /\ state \in [Acts -> States]
               /\ rows \subseteq Acts
RecordTyped == /\ attempt \in [Acts -> Attempts \cup {0}] /\ session \in [Acts -> Nat]
               /\ disposed \in [Acts -> Nat] /\ aborting \in [Acts -> Nat]
               /\ listening \in [Acts -> Nat]
OtherTyped  == owner \in Acts \cup {Other, NoOwner} /\ calls \subseteq Acts \X Attempts

\* Where a coroutine may be disposed of: never a session that is not yet there.
DisposedOK  == \A a \in Acts : disposed[a] <= session[a]

\* The invariants that need no assumption.
Base == /\ LiveTyped /\ RecordTyped /\ OtherTyped /\ RunTyped /\ swap \in [Acts -> Swap]
        /\ DisposedOK /\ RecordInv /\ OwnerInv

\* Type correctness is a part of it.
LEMMA BaseTypes == Base => TypeOK
BY DEF Base, LiveTyped, RecordTyped, OtherTyped, RunTyped, DisposedOK, TypeOK

\* The steps by what they do to coroutines: nothing, move one, end its turn,
\* or begin one.
Untouched(a) == \/ Dispatch(a) \/ Reject(a) \/ StartFails(a) \/ RetryOverride(a)
                \/ OverrideRefused(a) \/ OverrideAdmitted(a) \/ OverrideCreateFails(a)
                \/ Stop(a) \/ StopFinishes(a)
                \/ \E n \in Attempts : ToolCall(a, n) \/ EndCall(a, n)
Moved(a, n)  == \/ AgentStart(a, n) \/ Ask(a, n) \/ Answered(a, n) \/ Continue(a, n)
                \/ ModelHonoured(a, n) \/ WalkEnds(a, n)
Began(a)     == \/ Register(a) \/ Resume(a) \/ Retry(a) \/ OverrideSession(a)
                \/ \E n \in Attempts : FallbackSession(a, n)
Others       == OtherTakes \/ OtherGives

\* Every step is of one of these kinds.
LEMMA Kinds ==
  ASSUME Next
  PROVE  \/ \E a \in Acts : Untouched(a) \/ Began(a)
         \/ \E a \in Acts, n \in Attempts : Moved(a, n) \/ TurnEnds(a, n)
         \/ Others
BY DEF Next, Begin, Override, Tool, Walk, Untouched, Moved, Began, Others

\* What a snapshot says and which rows are stored.
LEMMA LiveStep ==
  ASSUME LiveTyped, Next
  PROVE  LiveTyped'
<1>1. ASSUME NEW a \in Acts, Untouched(a) PROVE LiveTyped'
  BY <1>1 DEF Untouched, Dispatch, Reject, StartFails, RetryOverride, OverrideRefused,
       OverrideAdmitted, OverrideCreateFails, Stop, StopFinishes, ToolCall, EndCall, Advance, Save,
       LiveTyped, Phases, States
<1>2. ASSUME NEW a \in Acts, NEW n \in Attempts, Moved(a, n) PROVE LiveTyped'
  <2>1. phase' = phase
    BY <1>2 DEF Moved, AgentStart, Ask, Answered, Continue, ModelHonoured, WalkEnds
  <2>2. UNCHANGED <<state, rows>>
        \/ \E s \in {"running", "needs_reply", "settled", "failed"} : Save(a, s)
    BY <1>2 DEF Moved, AgentStart, Ask, Answered, Continue, ModelHonoured, WalkEnds
  <2>. QED  BY <2>1, <2>2 DEF LiveTyped, Save, States
<1>3. ASSUME NEW a \in Acts, NEW n \in Attempts, TurnEnds(a, n) PROVE LiveTyped'
  BY <1>3 DEF TurnEnds, AgentSettled, PromptThrows, Save, LiveTyped, States
<1>4. ASSUME NEW a \in Acts, Began(a) PROVE LiveTyped'
  <2>1. phase' = phase \/ phase' = [phase EXCEPT ![a] = "live"]
    BY <1>4 DEF Began, Register, Resume, Retry, OverrideSession, FallbackSession,
                AgainOnThisSession
  <2>2. UNCHANGED <<state, rows>> \/ Save(a, "starting")
    BY <1>4 DEF Began, Register, Resume, Retry, OverrideSession, FallbackSession,
                AgainOnThisSession, Advance
  <2>. QED  BY <2>1, <2>2 DEF LiveTyped, Save, States, Phases
<1>5. CASE Others
  BY <1>5 DEF Others, OtherTakes, OtherGives, LiveTyped
<1>. QED  BY <1>1, <1>2, <1>3, <1>4, <1>5, Kinds

\* The numbers of the record.
LEMMA RecordStep ==
  ASSUME RecordTyped, DisposedOK, Next
  PROVE  /\ RecordTyped' /\ DisposedOK'
<1>. USE HostAssumption
<1>1. \/ UNCHANGED record
      \/ \E a \in Acts : \/ NewSession(a) /\ UNCHANGED aborting
                            /\ attempt' \in {attempt, [attempt EXCEPT ![a] = 1]}
                         \/ attempt' = [attempt EXCEPT ![a] = @ + 1] /\ attempt[a] < MaxAttempts
                            /\ UNCHANGED <<session, disposed, aborting>>
                            /\ listening' \in {listening, [listening EXCEPT ![a] = session[a]]}
                         \/ aborting' = [aborting EXCEPT ![a] = session[a]]
                            /\ UNCHANGED <<attempt, session, disposed, listening>>
                         \/ listening' = [listening EXCEPT ![a] = 0]
                            /\ disposed' = [disposed EXCEPT ![a] = session[a]]
                            /\ UNCHANGED <<attempt, session, aborting>>
  <2>1. ASSUME NEW a \in Acts, Untouched(a) PROVE <1>1
    BY <2>1 DEF Untouched, Dispatch, Reject, StartFails, RetryOverride, OverrideRefused,
       OverrideAdmitted, OverrideCreateFails, Stop, StopFinishes, ToolCall, EndCall, Advance, record
  <2>2. ASSUME NEW a \in Acts, NEW n \in Attempts, Moved(a, n) \/ TurnEnds(a, n) PROVE <1>1
    BY <2>2 DEF Moved, AgentStart, Ask, Answered, Continue, ModelHonoured, WalkEnds,
                TurnEnds, AgentSettled, PromptThrows
  <2>3. ASSUME NEW a \in Acts, Began(a) PROVE <1>1
    BY <2>3 DEF Began, Register, Resume, Retry, OverrideSession, FallbackSession,
                AgainOnThisSession, Advance
  <2>4. CASE Others
    BY <2>4 DEF Others, OtherTakes, OtherGives
  <2>. QED  BY <2>1, <2>2, <2>3, <2>4, Kinds
<1>2. CASE UNCHANGED record
  BY <1>2 DEF record, RecordTyped, DisposedOK
<1>3. ASSUME NEW a \in Acts, NewSession(a), UNCHANGED aborting,
             attempt' \in {attempt, [attempt EXCEPT ![a] = 1]}
      PROVE  RecordTyped' /\ DisposedOK'
  BY <1>3 DEF NewSession, RecordTyped, DisposedOK, Attempts
<1>4. ASSUME NEW a \in Acts, attempt' = [attempt EXCEPT ![a] = @ + 1], attempt[a] < MaxAttempts,
             UNCHANGED <<session, disposed, aborting>>,
             listening' \in {listening, [listening EXCEPT ![a] = session[a]]}
      PROVE  RecordTyped' /\ DisposedOK'
  BY <1>4 DEF RecordTyped, DisposedOK, Attempts
<1>5. ASSUME NEW a \in Acts, aborting' = [aborting EXCEPT ![a] = session[a]],
             UNCHANGED <<attempt, session, disposed, listening>>
      PROVE  RecordTyped' /\ DisposedOK'
  BY <1>5 DEF RecordTyped, DisposedOK
<1>6. ASSUME NEW a \in Acts, listening' = [listening EXCEPT ![a] = 0],
             disposed' = [disposed EXCEPT ![a] = session[a]],
             UNCHANGED <<attempt, session, aborting>>
      PROVE  RecordTyped' /\ DisposedOK'
  BY <1>6 DEF RecordTyped, DisposedOK
<1>. QED  BY <1>1, <1>2, <1>3, <1>4, <1>5, <1>6
\* Where a turn begins, it begins on an attempt and a session.
Begins(a) == \E n \in Attempts, s \in Nat, model \in Nat : Prompt(a, n, s, model)

\* Each of start, resume, retry and the walk's next session begins one prompt.
LEMMA BeganBegins ==
  ASSUME RunTyped, RecordTyped, RecordInv, NEW a \in Acts, Began(a)
  PROVE  Begins(a)
<1>. USE HostAssumption
<1>1. session[a] \in Nat /\ session[a] + 1 \in Nat /\ 1 \in Attempts /\ 0 \in Nat
  BY DEF RecordTyped, Attempts
<1>2. CASE Register(a)
  BY <1>1, <1>2 DEF Register, Begins
<1>3. CASE Resume(a) \/ Retry(a)
  <2>1. attempt[a] + 1 \in Attempts
    BY <1>3 DEF RecordTyped, Attempts, Resume, Retry, AgainOnThisSession, Advance
  <2>2. Prompt(a, attempt[a] + 1, session[a], 0)
    BY <1>3 DEF Resume, Retry, AgainOnThisSession
  <2>. QED  BY <1>1, <2>1, <2>2 DEF Begins
<1>4. CASE OverrideSession(a)
  <2>1. swap[a].attempt \in Attempts
    BY <1>4 DEF OverrideSession, RecordInv
  <2>. QED  BY <1>1, <1>4, <2>1 DEF OverrideSession, Begins
<1>5. ASSUME NEW n \in Attempts, FallbackSession(a, n) PROVE Begins(a)
  <2>1. run[a][n].model + 1 \in Nat
    BY DEF RunTyped, Run
  <2>2. Prompt(a, n, session[a] + 1, run[a][n].model + 1)
    BY <1>5 DEF FallbackSession
  <2>. QED  BY <1>1, <2>1, <2>2 DEF Begins
<1>. QED  BY <1>2, <1>3, <1>4, <1>5 DEF Began

\* Where a coroutine goes that is moved.
LEMMA MovedGoes ==
  ASSUME NEW a \in Acts, NEW n \in Attempts, Moved(a, n)
  PROVE  \E pc \in {"running", "asking", "validate", "create", "done"} : GoTo(a, n, pc)
<1>1. CASE AgentStart(a, n) \/ Answered(a, n) \/ Ask(a, n)
  BY <1>1 DEF AgentStart, Answered, Ask
<1>2. CASE Continue(a, n)
  BY <1>2 DEF Continue
<1>3. CASE ModelHonoured(a, n) \/ WalkEnds(a, n)
  BY <1>3 DEF ModelHonoured, WalkEnds
<1>. QED  BY <1>1, <1>2, <1>3 DEF Moved

\* How a turn ends.
LEMMA TurnEndsOver ==
  ASSUME NEW a \in Acts, NEW n \in Attempts, TurnEnds(a, n)
  PROVE  \E pc \in {"settled", "threw"}, outcome \in {"ok", "retryable", "fatal"} :
            Over(a, n, pc, outcome)
BY DEF TurnEnds, AgentSettled, PromptThrows, Over

\* A step of an activation.
Step(a) == \/ Untouched(a) \/ Began(a)
           \/ \E n \in Attempts : Moved(a, n) \/ TurnEnds(a, n)

\* Every step is an activation's or the other process's.
LEMMA Steps == Next => Others \/ \E a \in Acts : Step(a)
BY Kinds DEF Step

\* Coroutines keep their type, and those of the others stay.
LEMMA RunStep ==
  ASSUME RunTyped, RecordTyped, RecordInv, NEW a \in Acts, Step(a)
  PROVE  RunTyped' /\ \A b \in Acts : b # a => \A m \in Attempts : run'[b][m] = run[b][m]
<1>1. CASE Untouched(a)
  <2>1. run' = run
    BY <1>1 DEF Untouched, Dispatch, Reject, StartFails, RetryOverride, OverrideRefused,
       OverrideAdmitted, OverrideCreateFails, Stop, StopFinishes, ToolCall, EndCall
  <2>. QED  BY <2>1 DEF RunTyped
<1>2. CASE Began(a)
  <2>1. PICK n \in Attempts, s \in Nat, model \in Nat : Prompt(a, n, s, model)
    BY <1>2, BeganBegins DEF Begins
  <2>2. RunTyped' /\ OnlyRun(a, n)
    BY <2>1, PromptFacts
  <2>. QED  BY <2>2 DEF OnlyRun
<1>3. ASSUME NEW n \in Attempts, Moved(a, n)
      PROVE  RunTyped' /\ OnlyRun(a, n)
  <2>1. PICK pc \in {"running", "asking", "validate", "create", "done"} : GoTo(a, n, pc)
    BY <1>3, MovedGoes
  <2>2. pc \in Pcs
    BY DEF Pcs, Turning
  <2>. QED  BY <2>1, <2>2, GoToFacts
<1>4. ASSUME NEW n \in Attempts, TurnEnds(a, n)
      PROVE  RunTyped' /\ OnlyRun(a, n)
  <2>1. PICK pc \in {"settled", "threw"}, outcome \in {"ok", "retryable", "fatal"} :
            Over(a, n, pc, outcome)
    BY <1>4, TurnEndsOver
  <2>. QED  BY <2>1, OverFacts
<1>. QED  BY <1>1, <1>2, <1>3, <1>4 DEF Step, OnlyRun

\* The lease: it stays, goes to a writer that could acquire it, or is given up
\* by the activation that holds it.
Kept     == UNCHANGED owner
Taken(a) == CanAcquire(a) /\ Acquire(a)
Given(a) == a \in Writers /\ owner = a /\ owner' = NoOwner

\* No handler does anything else to it.
LEMMA OwnerStep ==
  ASSUME NEW a \in Acts, Step(a)
  PROVE  Kept \/ Taken(a) \/ Given(a)
<1>1. CASE Untouched(a)
  BY <1>1 DEF Untouched, Dispatch, Reject, StartFails, RetryOverride, OverrideRefused,
     OverrideAdmitted, OverrideCreateFails, Stop, StopFinishes, ToolCall, EndCall, Advance,
     Kept, Taken, Given, Released
<1>2. CASE Began(a)
  BY <1>2 DEF Began, Register, Resume, Retry, OverrideSession, FallbackSession,
              AgainOnThisSession, Advance, Kept, Taken
<1>3. ASSUME NEW n \in Attempts, Moved(a, n) \/ TurnEnds(a, n)
      PROVE  Kept \/ Given(a)
  BY <1>3 DEF Moved, AgentStart, Ask, Answered, Continue, ModelHonoured, WalkEnds,
              TurnEnds, AgentSettled, PromptThrows, Kept, Given, Released
<1>. QED  BY <1>1, <1>2, <1>3 DEF Step

\* The other activations are not touched.
Same(b) == /\ phase'[b] = phase[b] /\ state'[b] = state[b] /\ attempt'[b] = attempt[b]
           /\ session'[b] = session[b] /\ disposed'[b] = disposed[b]
           /\ aborting'[b] = aborting[b] /\ listening'[b] = listening[b]
           /\ swap'[b] = swap[b]
           /\ \A n \in Attempts : /\ run'[b][n] = run[b][n]
                                  /\ <<b, n>> \in calls' <=> <<b, n>> \in calls
SwapTyped == swap \in [Acts -> Swap]

\* The coroutine of an override keeps its type, and those of the others stay.
LEMMA SwapStep ==
  ASSUME SwapTyped, RecordTyped, NEW a \in Acts, Step(a)
  PROVE  SwapTyped' /\ \A b \in Acts : b # a => swap'[b] = swap[b]
<1>. USE HostAssumption
<1>1. \/ UNCHANGED swap
      \/ \E s \in Swap : swap' = [swap EXCEPT ![a] = s]
  <2>1. CASE OverrideAdmitted(a)
    <3>1. [pc |-> "create", attempt |-> attempt[a] + 1] \in Swap
      BY <2>1 DEF OverrideAdmitted, Advance, Swap, RecordTyped, Attempts
    <3>. QED  BY <2>1, <3>1 DEF OverrideAdmitted
  <2>2. CASE RetryOverride(a)
    <3>1. [swap[a] EXCEPT !.pc = "validate"] \in Swap
      BY DEF Swap, SwapTyped
    <3>2. swap' = [swap EXCEPT ![a] = [swap[a] EXCEPT !.pc = "validate"]]
      BY <2>2 DEF RetryOverride
    <3>. QED  BY <3>1, <3>2
  <2>3. NoSwap \in Swap
    BY DEF NoSwap, Swap
  <2>4. CASE OverrideRefused(a) \/ OverrideCreateFails(a) \/ OverrideSession(a)
    BY <2>3, <2>4 DEF OverrideRefused, OverrideCreateFails, OverrideSession
  <2>5. ASSUME Untouched(a), ~OverrideAdmitted(a), ~RetryOverride(a), ~OverrideRefused(a),
               ~OverrideCreateFails(a)
        PROVE  UNCHANGED swap
    BY <2>5 DEF Untouched, Dispatch, Reject, StartFails, Stop, StopFinishes, ToolCall, EndCall
  <2>6. ASSUME Began(a), ~OverrideSession(a) PROVE UNCHANGED swap
    BY <2>6 DEF Began, Register, Resume, Retry, FallbackSession, AgainOnThisSession
  <2>7. ASSUME NEW n \in Attempts, Moved(a, n) \/ TurnEnds(a, n) PROVE UNCHANGED swap
    BY <2>7 DEF Moved, AgentStart, Ask, Answered, Continue, ModelHonoured, WalkEnds,
                TurnEnds, AgentSettled, PromptThrows
  <2>. QED  BY <2>1, <2>2, <2>4, <2>5, <2>6, <2>7 DEF Step
<1>. QED  BY <1>1 DEF SwapTyped
\* The calls in flight keep their type, and those of the others stay.
LEMMA CallsStep ==
  ASSUME OtherTyped, NEW a \in Acts, Step(a)
  PROVE  /\ calls' \subseteq Acts \X Attempts
         /\ \A b \in Acts, n \in Attempts : b # a => (<<b, n>> \in calls' <=> <<b, n>> \in calls)
<1>1. \/ UNCHANGED calls
      \/ \E n \in Attempts : calls' \in {calls \cup {<<a, n>>}, calls \ {<<a, n>>}}
  <2>1. CASE Untouched(a)
    BY <2>1 DEF Untouched, Dispatch, Reject, StartFails, RetryOverride, OverrideRefused,
       OverrideAdmitted, OverrideCreateFails, Stop, StopFinishes, ToolCall, EndCall
  <2>2. CASE Began(a)
    BY <2>2 DEF Began, Register, Resume, Retry, OverrideSession, FallbackSession,
                AgainOnThisSession
  <2>3. ASSUME NEW n \in Attempts, Moved(a, n) \/ TurnEnds(a, n) PROVE UNCHANGED calls
    BY <2>3 DEF Moved, AgentStart, Ask, Answered, Continue, ModelHonoured, WalkEnds,
                TurnEnds, AgentSettled, PromptThrows
  <2>. QED  BY <2>1, <2>2, <2>3 DEF Step
<1>. QED  BY <1>1 DEF OtherTyped

\* What a step does to the life, the snapshot and the record of its activation.
LEMMA LocalStep ==
  ASSUME LiveTyped, RecordTyped, NEW a \in Acts, Step(a), NEW b \in Acts, b # a
  PROVE  /\ phase'[b] = phase[b] /\ state'[b] = state[b] /\ attempt'[b] = attempt[b]
         /\ session'[b] = session[b] /\ disposed'[b] = disposed[b]
         /\ aborting'[b] = aborting[b] /\ listening'[b] = listening[b]
<1>1. CASE Untouched(a)
  BY <1>1 DEF Untouched, Dispatch, Reject, StartFails, RetryOverride, OverrideRefused,
     OverrideAdmitted, OverrideCreateFails, Stop, StopFinishes, ToolCall, EndCall,
     Advance, Save, record, LiveTyped, RecordTyped
<1>2. CASE Began(a)
  BY <1>2 DEF Began, Register, Resume, Retry, OverrideSession, FallbackSession,
              AgainOnThisSession, Advance, Save, NewSession, record, LiveTyped, RecordTyped
<1>3. ASSUME NEW n \in Attempts, Moved(a, n) PROVE UNCHANGED <<phase, record>>
                                                   /\ state'[b] = state[b]
  BY <1>3 DEF Moved, AgentStart, Ask, Answered, Continue, ModelHonoured, WalkEnds, Save, LiveTyped
<1>4. ASSUME NEW n \in Attempts, TurnEnds(a, n) PROVE UNCHANGED <<phase, record>>
                                                      /\ state'[b] = state[b]
  BY <1>4 DEF TurnEnds, AgentSettled, PromptThrows, Save, LiveTyped
<1>. QED  BY <1>1, <1>2, <1>3, <1>4 DEF Step, record

\* A step of one activation is the other activations' stutter.
LEMMA SameStep ==
  ASSUME Base, NEW a \in Acts, Step(a), NEW b \in Acts, b # a
  PROVE  Same(b)
<1>1. LiveTyped /\ RecordTyped /\ RecordInv /\ RunTyped /\ OtherTyped /\ SwapTyped
  BY DEF Base, SwapTyped
<1>. QED  BY <1>1, LocalStep, RunStep, SwapStep, CallsStep DEF Same

-----------------------------------------------------------------------------
(* What a registered record points at                                      *)

RecordOf(a) == /\ phase[a] \in {"new", "creating", "rejected"} =>
                     /\ session[a] = 0 /\ swap[a] = NoSwap
                     /\ \A n \in Attempts : run[a][n].pc = "none"
               /\ Registered(a) => session[a] > disposed[a] /\ listening[a] = session[a]
               /\ swap[a].pc = "create" => swap[a].attempt \in Attempts
Early(a) == phase[a] \in {"new", "creating", "rejected"}

\* Something runs for an activation only once it has a session.
LEMMA LateOnly ==
  ASSUME RecordInv, NEW a \in Acts
  PROVE  /\ \A n \in Attempts : run[a][n].pc # "none" => ~Early(a)
         /\ swap[a].pc # "none" => ~Early(a)
BY DEF RecordInv, Early, NoSwap

\* A handler leaves its activation's record pointing at a session that is there.
LEMMA RecordOfStep ==
  ASSUME Base, NEW a \in Acts, Step(a)
  PROVE  RecordOf(a)'
<1>. USE HostAssumption
<1>0. LiveTyped /\ RecordTyped /\ RecordInv /\ RunTyped /\ SwapTyped
  BY DEF Base, SwapTyped
<1>a. RecordOf(a)
  BY <1>0 DEF RecordInv, RecordOf
<1>1. CASE Untouched(a)
  <2>1. CASE Dispatch(a) \/ Reject(a) \/ StartFails(a)
    BY <2>1, <1>0, <1>a DEF Dispatch, Reject, StartFails, RecordOf, Registered, record, LiveTyped
  <2>2. CASE RetryOverride(a)
    BY <2>2, <1>0, <1>a DEF RetryOverride, MayOperate, RecordOf, Registered, record, SwapTyped, Swap
  <2>3. CASE OverrideRefused(a) \/ OverrideCreateFails(a)
    BY <2>3, <1>0, <1>a DEF OverrideRefused, OverrideCreateFails, RecordOf, Registered, record,
       SwapTyped, NoSwap
  <2>4. CASE OverrideAdmitted(a)
    <3>1. ~Early(a) /\ UNCHANGED <<phase, session, disposed, listening, run>>
      BY <2>4, <1>0, LateOnly DEF OverrideAdmitted
    <3>2. attempt[a] + 1 \in Attempts
      BY <2>4, <1>0 DEF OverrideAdmitted, Advance, RecordTyped, Attempts
    <3>3. swap'[a].attempt = attempt[a] + 1
      BY <2>4, <1>0 DEF OverrideAdmitted, SwapTyped
    <3>. QED  BY <3>1, <3>2, <3>3, <1>a DEF RecordOf, Registered, Early
  <2>5. CASE Stop(a)
    BY <2>5, <1>0, <1>a DEF Stop, RecordOf, Registered, LiveTyped
  <2>6. CASE StopFinishes(a)
    BY <2>6, <1>0, <1>a DEF StopFinishes, StopDue, RecordOf, Registered, LiveTyped
  <2>7. ASSUME NEW n \in Attempts, ToolCall(a, n) \/ EndCall(a, n) PROVE RecordOf(a)'
    BY <2>7, <1>a DEF ToolCall, EndCall, RecordOf, Registered, record
  <2>. QED  BY <1>1, <2>1, <2>2, <2>3, <2>4, <2>5, <2>6, <2>7 DEF Untouched
<1>2. CASE Register(a) \/ OverrideSession(a) \/ \E n \in Attempts : FallbackSession(a, n)
  <2>1. NewSession(a) /\ ~Early(a)' /\ phase'[a] \in Phases
    <3>1. CASE Register(a)
      BY <3>1, <1>0 DEF Register, Early, LiveTyped, Phases
    <3>2. CASE OverrideSession(a)
      BY <3>2, <1>0, LateOnly DEF OverrideSession, Early, LiveTyped
    <3>3. ASSUME NEW n \in Attempts, FallbackSession(a, n)
          PROVE  NewSession(a) /\ ~Early(a)' /\ phase'[a] \in Phases
      BY <3>3, <1>0, LateOnly DEF FallbackSession, Early, LiveTyped
    <3>. QED  BY <1>2, <3>1, <3>2, <3>3
  <2>2. session'[a] > disposed'[a] /\ listening'[a] = session'[a]
    BY <2>1, <1>0 DEF NewSession, RecordTyped
  <2>3. swap' = swap \/ swap'[a] = NoSwap
    BY <1>2, <1>0 DEF Register, OverrideSession, FallbackSession, SwapTyped
  <2>. QED  BY <2>1, <2>2, <2>3, <1>a DEF RecordOf, Early, NoSwap
<1>3. CASE Resume(a) \/ Retry(a)
  <2>1. /\ Registered(a) /\ UNCHANGED <<phase, session, disposed, swap>>
        /\ listening'[a] = session[a]
    BY <1>3, <1>0 DEF Resume, Retry, MayOperate, AgainOnThisSession, RecordTyped
  <2>. QED  BY <2>1, <1>a DEF RecordOf, Registered
<1>4. ASSUME NEW n \in Attempts, Moved(a, n) \/ TurnEnds(a, n) PROVE RecordOf(a)'
  <2>1. UNCHANGED <<phase, record, swap>> /\ run[a][n].pc # "none"
    BY <1>4 DEF Moved, AgentStart, Ask, Answered, Continue, ModelHonoured, WalkEnds,
                TurnEnds, AgentSettled, PromptThrows, TurnOver
  <2>2. ~Early(a)
    BY <2>1, <1>0, LateOnly
  <2>. QED  BY <2>1, <2>2, <1>a DEF RecordOf, Registered, Early, record
<1>. QED  BY <1>1, <1>2, <1>3, <1>4 DEF Step, Began

\* And every other activation's as it was.
LEMMA RecordInvStep ==
  ASSUME Base, NEW a \in Acts, Step(a)
  PROVE  RecordInv'
<1>1. RecordInv
  BY DEF Base
<1>2. ASSUME NEW b \in Acts, b # a PROVE RecordOf(b)'
  <2>1. RecordOf(b)
    BY <1>1 DEF RecordInv, RecordOf
  <2>2. Same(b)
    BY <1>2, SameStep
  <2>. QED  BY <2>1, <2>2 DEF Same, RecordOf, Registered
<1>3. RecordOf(a)'
  BY RecordOfStep
<1>. QED  BY <1>2, <1>3 DEF RecordInv, RecordOf

-----------------------------------------------------------------------------
(* The lease                                                               *)

\* Whoever creates its first session has taken the lease.
LEMMA OwnerInvStep ==
  ASSUME Base, NEW a \in Acts, Step(a)
  PROVE  OwnerInv' /\ owner' \in Acts \cup {Other, NoOwner}
<1>. USE HostAssumption
<1>1. OwnerInv /\ LiveTyped /\ OtherTyped /\ RecordInv
  BY DEF Base
<1>2. Kept \/ Taken(a) \/ Given(a)
  BY OwnerStep
<1>3. /\ owner' \in Acts \cup {Other, NoOwner}
      /\ owner' \in Acts => owner' \in Writers
  BY <1>1, <1>2 DEF OwnerInv, OtherTyped, Kept, Taken, Given, CanAcquire, Acquire
<1>4. ASSUME NEW b \in Writers, b # a, phase'[b] = "creating" PROVE owner' = b
  <2>1. owner = b
    BY <1>1, <1>4, SameStep DEF Same, OwnerInv
  <2>. QED  BY <2>1, <1>2, <1>4 DEF Kept, Taken, Given, CanAcquire, Acquire
<1>5. ASSUME a \in Writers, phase'[a] = "creating" PROVE owner' = a
  <2>1. CASE Dispatch(a)
    BY <2>1, <1>5 DEF Dispatch, Acquire
  <2>2. CASE ~Dispatch(a)
    <3>1. phase[a] = "creating"
      <4>1. CASE Untouched(a)
        BY <4>1, <1>5, <1>1, <2>2 DEF Untouched, Reject, StartFails, RetryOverride,
           OverrideRefused, OverrideAdmitted, OverrideCreateFails, Stop, StopFinishes,
           ToolCall, EndCall, LiveTyped
      <4>2. CASE Began(a)
        BY <4>2, <1>5, <1>1 DEF Began, Register, Resume, Retry, OverrideSession,
           FallbackSession, AgainOnThisSession, LiveTyped
      <4>3. ASSUME NEW n \in Attempts, Moved(a, n) \/ TurnEnds(a, n) PROVE UNCHANGED phase
        BY <4>3 DEF Moved, AgentStart, Ask, Answered, Continue, ModelHonoured, WalkEnds,
                    TurnEnds, AgentSettled, PromptThrows
      <4>. QED  BY <4>1, <4>2, <4>3, <1>5 DEF Step
    <3>2. owner = a
      BY <3>1, <1>1, <1>5 DEF OwnerInv
    <3>3. ~Given(a)
      <4>1. \A n \in Attempts : run[a][n].pc = "none"
        BY <3>1, <1>1 DEF RecordInv
      <4>2. swap[a] = NoSwap
        BY <3>1, <1>1 DEF RecordInv
      <4>3. CASE Untouched(a)
        BY <4>3, <2>2, <3>1, <3>2, <1>5 DEF Untouched, Reject, StartFails, RetryOverride,
           OverrideRefused, OverrideAdmitted, OverrideCreateFails, Stop, StopFinishes, StopDue,
           ToolCall, EndCall, Advance, Acquire, Given
      <4>4. CASE Began(a)
        BY <4>4, <3>2, <1>5 DEF Began, Register, Resume, Retry, OverrideSession,
           FallbackSession, AgainOnThisSession, Advance, Acquire, Given
      <4>5. ASSUME NEW n \in Attempts, Moved(a, n) \/ TurnEnds(a, n) PROVE FALSE
        BY <4>5, <4>1 DEF Moved, AgentStart, Ask, Answered, Continue, ModelHonoured, WalkEnds,
                    TurnEnds, AgentSettled, PromptThrows, TurnOver
      <4>. QED  BY <4>3, <4>4, <4>5 DEF Step
    <3>. QED  BY <3>2, <3>3, <1>2, <1>5 DEF Kept, Taken, Acquire
  <2>. QED  BY <2>1, <2>2
<1>. QED  BY <1>3, <1>4, <1>5 DEF OwnerInv

-----------------------------------------------------------------------------
\* The initial states satisfy what needs no assumption.
LEMMA BaseInit == Init => Base
<1>. SUFFICES ASSUME Init PROVE Base
  OBVIOUS
<1>. USE HostAssumption DEF Init
<1>1. NoRun \in Run /\ NoRun.pc = "none" /\ NoSwap \in Swap /\ NoSwap.pc = "none"
  BY DEF NoRun, Run, NoSwap, Swap
<1>2. LiveTyped /\ RecordTyped /\ OtherTyped /\ DisposedOK
  BY DEF LiveTyped, Phases, States, RecordTyped, OtherTyped, DisposedOK
<1>3. RunTyped /\ swap \in [Acts -> Swap]
  BY <1>1 DEF RunTyped
<1>4. RecordInv
  BY <1>1 DEF RecordInv, Registered
<1>5. OwnerInv
  BY DEF OwnerInv
<1>. QED  BY <1>2, <1>3, <1>4, <1>5 DEF Base

\* Every step preserves it.
LEMMA BaseStep == Base /\ [Next]_vars => Base'
<1>. USE HostAssumption
<1>1. ASSUME Base, NEW a \in Acts, Step(a), Next PROVE Base'
  <2>0. LiveTyped /\ RecordTyped /\ RecordInv /\ RunTyped /\ OtherTyped /\ DisposedOK /\ SwapTyped
    BY <1>1 DEF Base, SwapTyped
  <2>1. LiveTyped' /\ RecordTyped' /\ DisposedOK'
    BY <1>1, <2>0, LiveStep, RecordStep
  <2>2. RunTyped' /\ SwapTyped'
    BY <1>1, <2>0, RunStep, SwapStep
  <2>3. RecordInv' /\ OwnerInv' /\ OtherTyped'
    BY <1>1, <2>0, RecordInvStep, OwnerInvStep, CallsStep DEF OtherTyped
  <2>. QED  BY <2>1, <2>2, <2>3 DEF Base, SwapTyped
<1>2. ASSUME Base, Others PROVE Base'
  BY <1>2 DEF Others, OtherTakes, OtherGives, Base, LiveTyped, RecordTyped, OtherTyped, RunTyped,
     DisposedOK, RecordInv, Registered, OwnerInv, record
<1>3. ASSUME Base, UNCHANGED vars PROVE Base'
  BY <1>3 DEF vars, Base, LiveTyped, RecordTyped, OtherTyped, RunTyped,
     DisposedOK, RecordInv, Registered, OwnerInv, record
<1>. QED  BY <1>1, <1>2, <1>3, Steps

\* Every reachable state has its type: in particular no session is disposed of
\* that was never created (runWithFallback, retry, stop).
THEOREM HostTypeCorrect == Spec => []TypeOK
<1>. QED  BY BaseInit, BaseStep, BaseTypes, PTL DEF Spec
-----------------------------------------------------------------------------
-----------------------------------------------------------------------------
(* A live activation has a way on                                          *)

NumberedOf(a) == /\ \A n \in Attempts : run[a][n].pc # "none" => n <= attempt[a]
                 /\ swap[a].pc = "create" => swap[a].attempt <= attempt[a]
WayOnOf(a) == phase[a] = "live" =>
    \/ state[a] \in RESUMABLE_STATES \cup RETRYABLE_STATES
    \/ \E n \in Attempts : run[a][n].pc \in Pending
    \/ run[a][attempt[a]].pc = "none"

\* The handlers that leave the coroutines alone.
LEMMA NumberedUntouched ==
  ASSUME Base, NEW a \in Acts, NumberedOf(a), Untouched(a)
  PROVE  NumberedOf(a)'
<1>. USE HostAssumption
<1>0. LiveTyped /\ SwapTyped /\ RecordTyped
  BY DEF Base, SwapTyped
<1>1. CASE OverrideAdmitted(a)
  <2>1. /\ run' = run /\ attempt[a] \in Nat
        /\ attempt'[a] = attempt[a] + 1 /\ swap'[a].attempt = attempt[a] + 1
    BY <1>0, <1>1 DEF OverrideAdmitted, Advance, RecordTyped, SwapTyped, Attempts
  <2>. QED  BY <2>1 DEF NumberedOf, Attempts
<1>2. CASE RetryOverride(a) \/ OverrideRefused(a) \/ OverrideCreateFails(a)
  <2>1. /\ run' = run /\ attempt' = attempt
        /\ swap'[a].pc # "create"
    BY <1>0, <1>2 DEF RetryOverride, OverrideRefused, OverrideCreateFails, record, SwapTyped,
                      Swap, NoSwap
  <2>. QED  BY <2>1 DEF NumberedOf
<1>3. ASSUME \/ Dispatch(a) \/ Reject(a) \/ StartFails(a) \/ Stop(a) \/ StopFinishes(a)
             \/ \E n \in Attempts : ToolCall(a, n) \/ EndCall(a, n)
      PROVE  NumberedOf(a)'
  BY <1>3 DEF Dispatch, Reject, StartFails, Stop, StopFinishes, ToolCall, EndCall, NumberedOf, record
<1>. QED  BY <1>1, <1>2, <1>3 DEF Untouched

\* The handlers that begin a prompt: of a number that has been given out.
LEMMA NumberedBegan ==
  ASSUME Base, NEW a \in Acts, NumberedOf(a), Began(a)
  PROVE  NumberedOf(a)'
<1>. USE HostAssumption
<1>0. LiveTyped /\ SwapTyped /\ RecordTyped /\ RunTyped /\ RecordInv
  BY DEF Base, SwapTyped
<1>1. CASE Register(a)
  <2>1. /\ attempt'[a] = 1 /\ swap' = swap /\ 1 \in Attempts
        /\ Prompt(a, 1, session[a] + 1, 0) /\ session[a] + 1 \in Nat
    BY <1>0, <1>1 DEF Register, RecordTyped, Attempts
  <2>2. OnlyRun(a, 1)
    BY <2>1, <1>0, PromptFacts
  <2>3. swap[a] = NoSwap /\ \A n \in Attempts : run[a][n].pc = "none"
    BY <1>0, <1>1 DEF Register, RecordInv
  <2>. QED  BY <2>1, <2>2, <2>3 DEF NumberedOf, OnlyRun, NoSwap
<1>2. CASE Resume(a) \/ Retry(a)
  <2>1. /\ attempt'[a] = attempt[a] + 1 /\ swap' = swap /\ attempt[a] + 1 \in Attempts
        /\ attempt[a] \in Nat
        /\ Prompt(a, attempt[a] + 1, session[a], 0) /\ session[a] \in Nat
    BY <1>0, <1>2 DEF Resume, Retry, AgainOnThisSession, Advance, RecordTyped, Attempts
  <2>2. OnlyRun(a, attempt[a] + 1)
    BY <2>1, <1>0, PromptFacts
  <2>3. swap[a].attempt \in Nat
    BY <1>0 DEF SwapTyped, Swap, Attempts
  <2>. QED  BY <2>1, <2>2, <2>3 DEF NumberedOf, OnlyRun, Attempts
<1>3. CASE OverrideSession(a)
  <2>1. /\ attempt' = attempt /\ swap'[a] = NoSwap /\ swap[a].attempt \in Attempts
        /\ swap[a].attempt <= attempt[a]
        /\ Prompt(a, swap[a].attempt, session[a] + 1, 0) /\ session[a] + 1 \in Nat
    BY <1>0, <1>3 DEF OverrideSession, RecordTyped, RecordInv, NumberedOf, SwapTyped
  <2>2. OnlyRun(a, swap[a].attempt)
    BY <2>1, <1>0, PromptFacts
  <2>. QED  BY <2>1, <2>2 DEF NumberedOf, OnlyRun, NoSwap
<1>4. ASSUME NEW n \in Attempts, FallbackSession(a, n) PROVE NumberedOf(a)'
  <2>1. /\ attempt' = attempt /\ swap' = swap /\ run[a][n].pc # "none"
        /\ Prompt(a, n, session[a] + 1, run[a][n].model + 1)
        /\ session[a] + 1 \in Nat /\ run[a][n].model + 1 \in Nat
    BY <1>0, <1>4 DEF FallbackSession, RecordTyped, RunTyped, Run
  <2>2. OnlyRun(a, n)
    BY <2>1, <1>0, PromptFacts
  <2>. QED  BY <2>1, <2>2 DEF NumberedOf, OnlyRun
<1>. QED  BY <1>1, <1>2, <1>3, <1>4 DEF Began

\* Every handler keeps its activation's numbers.
LEMMA NumberedStep ==
  ASSUME Base, Numbered, NEW a \in Acts, Step(a)
  PROVE  Numbered'
<1>0. RunTyped /\ NumberedOf(a)
  BY DEF Base, Numbered, NumberedOf
<1>1. ASSUME NEW b \in Acts, b # a PROVE NumberedOf(b)'
  <2>1. Same(b) /\ NumberedOf(b)
    BY <1>1, SameStep DEF Numbered, NumberedOf
  <2>. QED  BY <2>1 DEF Same, NumberedOf
<1>2. ASSUME NEW n \in Attempts, Moved(a, n) \/ TurnEnds(a, n) PROVE NumberedOf(a)'
  <2>1. UNCHANGED <<record, swap>> /\ run[a][n].pc # "none"
    BY <1>2 DEF Moved, AgentStart, Ask, Answered, Continue, ModelHonoured, WalkEnds,
                TurnEnds, AgentSettled, PromptThrows, TurnOver
  <2>2. OnlyRun(a, n)
    <3>1. CASE Moved(a, n)
      <4>1. PICK pc \in {"running", "asking", "validate", "create", "done"} : GoTo(a, n, pc)
        BY <3>1, MovedGoes
      <4>. QED  BY <4>1, <1>0, GoToFacts DEF Pcs, Turning
    <3>2. CASE TurnEnds(a, n)
      <4>1. PICK pc \in {"settled", "threw"}, outcome \in {"ok", "retryable", "fatal"} :
                Over(a, n, pc, outcome)
        BY <3>2, TurnEndsOver
      <4>. QED  BY <4>1, <1>0, OverFacts
    <3>. QED  BY <1>2, <3>1, <3>2
  <2>. QED  BY <2>1, <2>2, <1>0 DEF NumberedOf, OnlyRun, record
<1>3. NumberedOf(a)'
  BY <1>0, <1>2, NumberedUntouched, NumberedBegan DEF Step
<1>. QED  BY <1>1, <1>3 DEF Numbered, NumberedOf

\* What a handler that is not a turn's does to the way on.
LEMMA WayOnUntouched ==
  ASSUME Base, NEW a \in Acts, NumberedOf(a), WayOnOf(a), Untouched(a)
  PROVE  WayOnOf(a)'
<1>. USE HostAssumption
<1>0. LiveTyped /\ SwapTyped /\ RecordTyped
  BY DEF Base, SwapTyped
<1>1. CASE Dispatch(a) \/ Reject(a) \/ StartFails(a) \/ Stop(a) \/ StopFinishes(a)
  BY <1>0, <1>1 DEF Dispatch, Reject, StartFails, Stop, StopFinishes, LiveTyped, WayOnOf, record
<1>2. CASE RetryOverride(a) \/ OverrideRefused(a) \/ OverrideCreateFails(a)
  BY <1>2 DEF RetryOverride, OverrideRefused, OverrideCreateFails, WayOnOf, record
<1>3. CASE OverrideAdmitted(a)
  <2>1. /\ run' = run /\ attempt[a] \in Nat
        /\ attempt'[a] = attempt[a] + 1 /\ attempt[a] + 1 \in Attempts
    BY <1>0, <1>3 DEF OverrideAdmitted, Advance, RecordTyped, Attempts
  <2>. QED  BY <2>1 DEF NumberedOf, WayOnOf
<1>4. ASSUME NEW n \in Attempts, ToolCall(a, n) \/ EndCall(a, n) PROVE WayOnOf(a)'
  BY <1>4 DEF ToolCall, EndCall, WayOnOf, record
<1>. QED  BY <1>1, <1>2, <1>3, <1>4 DEF Untouched

\* What a turn's handler does to it.
LEMMA WayOnMoved ==
  ASSUME Base, NEW a \in Acts, NEW n \in Attempts, WayOnOf(a), Moved(a, n)
  PROVE  WayOnOf(a)'
<1>0. LiveTyped /\ RunTyped
  BY DEF Base
<1>1. CASE AgentStart(a, n) \/ Ask(a, n) \/ Answered(a, n)
  <2>1. PICK pc \in {"running", "asking"} : GoTo(a, n, pc)
    BY <1>1 DEF AgentStart, Ask, Answered
  <2>2. run'[a][n].pc = pc
    BY <2>1, <1>0, GoToFacts DEF Pcs, Turning
  <2>. QED  BY <2>2 DEF WayOnOf, Pending, Turning
<1>2. CASE Continue(a, n)
  <2>1. state'[a] \in {"settled", "failed"}
    BY <1>2, <1>0 DEF Continue, Save, LiveTyped
  <2>. QED  BY <2>1 DEF WayOnOf, RESUMABLE_STATES, RETRYABLE_STATES
<1>3. CASE ModelHonoured(a, n) \/ WalkEnds(a, n)
  <2>1. /\ UNCHANGED <<phase, state, attempt>>
        /\ run[a][n].pc \notin Pending \cup {"none"}
    BY <1>3 DEF ModelHonoured, WalkEnds, Pending, Turning, record
  <2>2. PICK pc \in {"create", "done"} : GoTo(a, n, pc)
    BY <1>3 DEF ModelHonoured, WalkEnds
  <2>3. OnlyRun(a, n)
    BY <2>2, <1>0, GoToFacts DEF Pcs
  <2>4. ASSUME run[a][attempt[a]].pc = "none" PROVE run'[a][attempt[a]].pc = "none"
    <3>1. attempt[a] # n
      BY <2>1, <2>4
    <3>2. run' = [run EXCEPT ![a][n].pc = pc]
      BY <2>2 DEF GoTo
    <3>3. run'[a] = [run[a] EXCEPT ![n] = [run[a][n] EXCEPT !.pc = pc]]
      BY <3>2, <1>0 DEF RunTyped
    <3>4. run'[a][attempt[a]] = run[a][attempt[a]]
      BY <3>1, <3>3, <1>0 DEF Base, RecordTyped, RunTyped
    <3>. QED  BY <3>4, <2>4
  <2>. QED  BY <2>1, <2>3, <2>4 DEF WayOnOf, OnlyRun
<1>. QED  BY <1>1, <1>2, <1>3 DEF Moved

\* The other activations' coroutines, as functions.
LEMMA RunKept ==
  ASSUME Base, NEW a \in Acts, Step(a), NEW b \in Acts, b # a
  PROVE  run'[b] = run[b]
<1>1. RunTyped /\ RunTyped'
  BY RunStep DEF Base
<1>2. \A m \in Attempts : run'[b][m] = run[b][m]
  BY RunStep DEF Base
<1>3. run[b] \in [Attempts -> Run] /\ run'[b] \in [Attempts -> Run]
  BY <1>1 DEF RunTyped
<1>. QED  BY <1>2, <1>3

\* A step leaves every live activation a way on.
LEMMA WayOnStep ==
  ASSUME Base, Numbered, WayOn, NEW a \in Acts, Step(a)
  PROVE  WayOn'
<1>0. RunTyped /\ RecordTyped /\ RecordInv /\ WayOnOf(a) /\ NumberedOf(a)
  BY DEF Base, WayOn, WayOnOf, Numbered, NumberedOf
<1>1. ASSUME NEW b \in Acts, b # a PROVE WayOnOf(b)'
  <2>1. Same(b) /\ WayOnOf(b) /\ run'[b] = run[b]
    BY <1>1, SameStep, RunKept DEF WayOn, WayOnOf
  <2>. QED  BY <2>1 DEF Same, WayOnOf
<1>2. WayOnOf(a)'
  <2>1. CASE Untouched(a)
    BY <2>1, <1>0, WayOnUntouched
  <2>2. CASE Began(a)
    <3>1. PICK n \in Attempts, s \in Nat, model \in Nat : Prompt(a, n, s, model)
      BY <2>2, <1>0, BeganBegins DEF Begins
    <3>2. run'[a][n].pc = "prompted"
      BY <3>1, <1>0, PromptFacts
    <3>. QED  BY <3>2 DEF WayOnOf, Pending, Turning
  <2>3. ASSUME NEW n \in Attempts, Moved(a, n) PROVE WayOnOf(a)'
    BY <2>3, <1>0, WayOnMoved
  <2>4. ASSUME NEW n \in Attempts, TurnEnds(a, n) PROVE WayOnOf(a)'
    <3>1. PICK pc \in {"settled", "threw"}, outcome \in {"ok", "retryable", "fatal"} :
              Over(a, n, pc, outcome)
      BY <2>4, TurnEndsOver
    <3>2. run'[a][n].pc = pc
      BY <3>1, <1>0, OverFacts
    <3>. QED  BY <3>2 DEF WayOnOf, Pending
  <2>. QED  BY <2>1, <2>2, <2>3, <2>4 DEF Step
<1>. QED  BY <1>1, <1>2 DEF WayOn, WayOnOf

\* What NeverStranded rests on.
WInv == Base /\ Numbered /\ WayOn

\* It is inductive.
LEMMA WInvStep == WInv /\ [Next]_vars => WInv'
<1>1. ASSUME WInv, NEW a \in Acts, Step(a) PROVE Numbered' /\ WayOn'
  BY <1>1, NumberedStep, WayOnStep DEF WInv
<1>2. ASSUME WInv, Others \/ UNCHANGED vars PROVE Numbered' /\ WayOn'
  BY <1>2 DEF WInv, WayOn, Numbered, Others, OtherTakes, OtherGives, vars, record
<1>3. ASSUME WInv, [Next]_vars PROVE Base'
  BY <1>3, BaseStep DEF WInv
<1>. QED  BY <1>1, <1>2, <1>3, Steps DEF WInv

\* It holds at first: nothing is live.
LEMMA WInvInit == Init => WInv
BY BaseInit DEF Init, WInv, WayOn, Numbered, NoRun, NoSwap

\* With nothing pending, the way on is one that does not stop.
LEMMA WayOnIsEnough == WInv => NeverStranded
<1>1. ASSUME WInv, NEW a \in Acts, phase[a] = "live", Quiet(a)
      PROVE  /\ \/ state[a] \in RESUMABLE_STATES \cup RETRYABLE_STATES
                \/ run[a][attempt[a]].pc = "none"
             /\ session[a] > disposed[a] /\ listening[a] = session[a]
  <2>1. \A n \in Attempts : run[a][n].pc \notin Pending
    BY <1>1 DEF Quiet, Pending, Turning
  <2>. QED  BY <1>1, <2>1 DEF WInv, WayOn, Base, RecordInv, Registered
<1>. QED  BY <1>1 DEF NeverStranded

\* However operators overlap their calls with the walk and with each other, an
\* activation with nothing pending can be resumed or retried, on a session that is
\* there and that the host listens to, or its last attempt got no session.
THEOREM NeverStrandedTheorem == Spec => []NeverStranded
<1>. QED  BY WInvStep, WInvInit, WayOnIsEnough, PTL DEF Spec

-----------------------------------------------------------------------------
(* Who takes the lease of a live or a stopped activation                   *)

\* The only step that takes the lease for a stopped activation is the end of an
\* override's validation, and the step that stops one gives its lease back.
LEMMA StoppedOf ==
  ASSUME Base, NEW a \in Acts, Step(a), phase'[a] = "gone", owner' = a
  PROVE  phase[a] = "gone" /\ (owner = a \/ swap[a].pc = "validate")
<1>. USE HostAssumption
<1>0. LiveTyped /\ OwnerInv /\ RecordInv
  BY DEF Base
<1>1. ~StopFinishes(a)
  BY <1>0 DEF StopFinishes, Released, OwnerInv
<1>2. CASE OverrideAdmitted(a)
  BY <1>2, <1>0 DEF OverrideAdmitted, Advance
<1>3. ASSUME ~OverrideAdmitted(a) PROVE phase[a] = "gone" /\ (Kept \/ Given(a))
  <2>1. CASE Untouched(a)
    BY <2>1, <1>0, <1>1, <1>3 DEF Untouched, Dispatch, Reject, StartFails, RetryOverride,
       OverrideRefused, OverrideCreateFails, Stop, ToolCall, EndCall, LiveTyped, Kept
  <2>2. CASE Began(a)
    BY <2>2, <1>0 DEF Began, Register, Resume, Retry, OverrideSession, FallbackSession,
       AgainOnThisSession, MayOperate, Registered, LiveTyped, Kept
  <2>3. ASSUME NEW n \in Attempts, Moved(a, n) \/ TurnEnds(a, n)
        PROVE  UNCHANGED phase /\ (Kept \/ Given(a))
    BY <2>3 DEF Moved, AgentStart, Ask, Answered, Continue, ModelHonoured, WalkEnds,
                TurnEnds, AgentSettled, PromptThrows, Kept, Given, Released
  <2>. QED  BY <2>1, <2>2, <2>3 DEF Step
<1>. QED  BY <1>2, <1>3 DEF Kept, Given

\* What stop() gives back stays given back, to everybody but an override that was
\* validating its model when the activation was disposed of.
THEOREM StoppedHoldsNothingTheorem == Spec => StoppedHoldsNothing
<1> DEFINE A == \A a \in Acts : phase'[a] = "gone" /\ owner' = a
                   => phase[a] = "gone" /\ (owner = a \/ swap[a].pc = "validate")
<1>1. ASSUME Base, NEW a \in Acts, Step(a) PROVE A
  <2>1. Kept \/ Taken(a) \/ Given(a)
    BY <1>1, OwnerStep
  <2>2. ASSUME NEW b \in Acts, b # a, phase'[b] = "gone", owner' = b
        PROVE  phase[b] = "gone" /\ owner = b
    BY <1>1, <2>1, <2>2, SameStep, HostAssumption DEF Same, Kept, Taken, Given, Acquire
  <2>. QED  BY <1>1, <2>2, StoppedOf
<1>2. ASSUME Others PROVE A
  BY <1>2, HostAssumption DEF Others, OtherTakes, OtherGives
<1>3. Base /\ [Next]_vars => [A]_vars
  BY <1>1, <1>2, Steps
<1>. QED  BY <1>3, BaseInit, BaseStep, PTL DEF Spec, StoppedHoldsNothing

\* Where nothing is pending, a turn begins under the lease.
LEMMA QuietBegins ==
  ASSUME Base, NEW a \in Writers, NEW n \in Attempts, Step(a), Quiet(a), Turn(a, n)',
         phase'[a] = "live"
  PROVE  owner' = a
<1>. USE HostAssumption
<1>0. a \in Acts /\ LiveTyped /\ RunTyped /\ OwnerInv
  BY DEF Base
<1>1. \A m \in Attempts : run[a][m].pc \in {"none", "done"}
  BY DEF Quiet
<1>2. run' # run
  BY <1>1 DEF Turn, Turning
<1>3. CASE Untouched(a)
  BY <1>2, <1>3 DEF Untouched, Dispatch, Reject, StartFails, RetryOverride, OverrideRefused,
     OverrideAdmitted, OverrideCreateFails, Stop, StopFinishes, ToolCall, EndCall
<1>4. CASE Began(a)
  <2>1. CASE Register(a)
    BY <2>1, <1>0 DEF Register, OwnerInv
  <2>2. CASE Resume(a) \/ Retry(a)
    BY <2>2 DEF Resume, Retry, AgainOnThisSession, Advance, Acquire
  <2>3. CASE OverrideSession(a)
    BY <2>3 DEF OverrideSession, Quiet, NoSwap
  <2>4. ASSUME NEW m \in Attempts, FallbackSession(a, m) PROVE FALSE
    BY <2>4, <1>1 DEF FallbackSession
  <2>. QED  BY <1>4, <2>1, <2>2, <2>3, <2>4 DEF Began
<1>5. ASSUME NEW m \in Attempts, Moved(a, m) \/ TurnEnds(a, m) PROVE FALSE
  BY <1>5, <1>1 DEF Moved, AgentStart, Ask, Answered, Continue, ModelHonoured, WalkEnds,
                    TurnEnds, AgentSettled, PromptThrows, TurnOver
<1>. QED  BY <1>3, <1>4, <1>5 DEF Step

\* A lone turn's own handlers release nothing before it is over, and no other handler
\* of its activation can run.
LEMMA LoneTurnOf ==
  ASSUME Base, NEW a \in Writers, NEW n \in Attempts, Step(a), phase[a] = "live",
         Turn(a, n), Turn(a, n)', Alone(a, n), owner = a
  PROVE  owner' = a
<1>. USE HostAssumption
<1>0. a \in Acts /\ LiveTyped /\ RunTyped
  BY DEF Base
<1>1. CASE Untouched(a)
  BY <1>0, <1>1 DEF Untouched, Dispatch, Reject, StartFails, RetryOverride, OverrideRefused,
     OverrideAdmitted, OverrideCreateFails, Stop, StopFinishes, StopDue, ToolCall, EndCall,
     Advance, Acquire
<1>2. CASE Began(a)
  BY <1>0, <1>2 DEF Began, Register, Resume, Retry, OverrideSession, FallbackSession,
     AgainOnThisSession, Advance, Acquire
<1>3. ASSUME NEW m \in Attempts, Moved(a, m) PROVE owner' = a
  <2>1. CASE Continue(a, m)
    BY <2>1 DEF Continue, Turn, Alone, Turning
  <2>2. CASE ~Continue(a, m)
    BY <1>3, <2>2 DEF Moved, AgentStart, Ask, Answered, ModelHonoured, WalkEnds
  <2>. QED  BY <2>1, <2>2
<1>4. ASSUME NEW m \in Attempts, TurnEnds(a, m) PROVE FALSE
  <2>1. PICK pc \in {"settled", "threw"}, outcome \in {"ok", "retryable", "fatal"} :
            Over(a, m, pc, outcome)
    BY <1>0, <1>4, TurnEndsOver
  <2>2. run'[a][m].pc = pc
    BY <2>1, <1>0, OverFacts
  <2>3. m # n
    BY <2>2 DEF Turn, Turning
  <2>. QED  BY <1>4, <2>3 DEF Alone, TurnEnds, AgentSettled, PromptThrows, TurnOver
<1>. QED  BY <1>1, <1>2, <1>3, <1>4 DEF Step

\* A turn that begins with nothing else of its activation pending, and goes on with
\* nothing else pending, holds the lease from its prompt to its end.
THEOREM LoneTurnHoldsLeaseTheorem == Spec => LoneTurnHoldsLease
<1> DEFINE A == \A a \in Writers, n \in Attempts :
                   phase'[a] = "live" /\ Turn(a, n)' /\ (Quiet(a) \/ HoldsAlone(a, n))
                       => owner' = a
<1>1. ASSUME Base, NEW a \in Acts, Step(a) PROVE A
  <2>1. Kept \/ Taken(a) \/ Given(a)
    BY <1>1, OwnerStep
  <2>2. ASSUME NEW b \in Writers, b # a, NEW n \in Attempts, Turn(b, n)',
               Quiet(b) \/ HoldsAlone(b, n)
        PROVE  owner' = b
    <3>0. b \in Acts
      BY HostAssumption
    <3>1. run'[b][n] = run[b][n]
      BY <1>1, <2>2, <3>0, SameStep DEF Same
    <3>2. ~Quiet(b)
      BY <2>2, <3>1 DEF Quiet, Turn, Turning
    <3>3. owner = b
      BY <2>2, <3>2 DEF HoldsAlone
    <3>. QED  BY <3>3, <2>1, <2>2, HostAssumption DEF Kept, Taken, Given, CanAcquire, Acquire
  <2>3. ASSUME a \in Writers, NEW n \in Attempts, phase'[a] = "live", Turn(a, n)',
               Quiet(a) \/ HoldsAlone(a, n)
        PROVE  owner' = a
    BY <1>1, <2>3, QuietBegins, LoneTurnOf DEF HoldsAlone
  <2>. QED  BY <2>2, <2>3
<1>2. ASSUME Base, Others PROVE A
  BY <1>2, HostAssumption DEF Others, OtherTakes, OtherGives, Quiet, Turn, Turning, HoldsAlone
<1>3. ASSUME Base, UNCHANGED vars PROVE [A]_vars
  BY <1>3
<1>4. Base /\ [Next]_vars => [A]_vars
  BY <1>1, <1>2, <1>3, Steps
<1>. QED  BY <1>4, BaseInit, BaseStep, PTL DEF Spec, LoneTurnHoldsLease
=============================================================================
