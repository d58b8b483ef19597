------------------------- MODULE EpicLifecycleProofs --------------------------
(***************************************************************************)
(* An epic becomes merged only when all that the merge gathered is in the   *)
(* main branch, and a final epic is reopened only by a job or by somebody   *)
(* who had read the row before: for any chains, jobs and commands.          *)
(*                                                                         *)
(* The first needs EInv: what a command has taken off its list is           *)
(* published, it had something to publish, and whoever loaded a summary     *)
(* while there was no row has seen an open epic; and OpenedInv: whoever is   *)
(* about to add a member has opened the epic.                               *)
(***************************************************************************)
EXTENDS EpicLifecycle, TLAPS

RowStates  == EpicState \cup {"none"}
Readied    == {"resolving", "failed", "blocked", "merge_ready"}
AllKinds   == {"sync", "abandon", "force", "merge", "pr", "chain"}
Publishers == {"merge", "pr", "chain"}

Record9 == [kind : AllKinds \cup {"none"}, old : RowStates, marked : BOOLEAN,
            dead : SUBSET Job, chains : SUBSET Chain, cur : EpicState \ Final,
            targets : SUBSET Chain, todo : SUBSET Chain, last : SUBSET Chain]
View3   == [rows : [Job -> JobState], persisted : EpicState, ready : Readied]

(* EpicTypeOK, by what changes together.                                   *)
RowType  == epic \in RowStates /\ redirect \in BOOLEAN /\ members \subseteq Chain
JobsType == /\ job \in [Job -> JobState]
            /\ verdict \in [Job -> {"missing", "pass", "fail"}] /\ live \subseteq Job
AtType   == /\ at \in [Actor -> Places] /\ lock \in Cmd \cup {"free"} /\ published \subseteq Chain
            /\ \A j \in Job : at[j] \in {"written", "opened"} => ChainOf[j] # Prep
ViewType == view \in [Actor -> View3]
CmdType  == cmd \in [Cmd -> Record9]

(* While there is no row nothing is known of the epic.                      *)
NoRowInv == epic = "none" => /\ members = {} /\ ~redirect
                             /\ \A a \in Actor : view[a].persisted = "open"

Syncing  == {"scan", "drift", "repair", "load", "seen", "derive", "sync", "clear"}
Guarding == {"guard", "weigh", "judge"}

(* What a command has read, and what it has done with what it gathered: r is *)
(* what it remembers, l where it is.                                        *)
Sound(r, l, pub) ==
    /\ r.todo \subseteq r.targets
    /\ r.kind # "pr" => r.targets \ r.todo \subseteq pub
    /\ r.kind \in {"merge", "pr"} /\ l # "gather" => r.targets # {}
    /\ l \in Syncing => r.kind \in Syncs
    /\ l \in {"gather", "publish", "gate"} => r.kind \in Publishers
    /\ l \in Guarding => r.kind = "chain"
    /\ l = "clear" => r.old # "none"
    /\ l = "idle" => r.kind # "pr"
CmdInv == \A p \in Cmd : Sound(cmd[p], at[p], published)

EInv == RowType /\ JobsType /\ AtType /\ ViewType /\ CmdType /\ NoRowInv /\ CmdInv

(* Whoever is about to add a member has opened the epic.                    *)
OpenedInv == \A j \in Job : at[j] = "opened" => epic # "none"

-----------------------------------------------------------------------------
(* What is derived from the rows                                           *)

(* Any job rows have a readiness.                                           *)
LEMMA ReadinessType == \A rows : Readiness(rows) \in Readied
BY DEF Readiness, Readied

(* What is derived from a final state is that state, and nothing else is.   *)
LEMMA NextStateFacts ==
    ASSUME NEW s \in EpicState, NEW r \in Readied
    PROVE  /\ NextState(s, r) \in EpicState
           /\ s \in Final => NextState(s, r) = s
           /\ s \notin Final => NextState(s, r) \notin Final
BY DEF NextState, EpicState, Final, Readied

(* Somebody sees something else, and the row of the epic stays.              *)
LEMMA ViewMoves ==
    ASSUME EInv, NEW a \in Actor, NEW w \in View3, view' = [view EXCEPT ![a] = w], UNCHANGED row,
           \/ w.persisted = view[a].persisted
           \/ epic = "none" => w.persisted = "open"
    PROVE  RowType' /\ ViewType' /\ NoRowInv'
<1>1. RowType' /\ ViewType'
  BY DEF EInv, RowType, ViewType, row
<1>2. \A b \in Actor : view'[b] = IF b = a THEN w ELSE view[b]
  BY DEF EInv, ViewType
<1>3. epic' = epic /\ members' = members /\ redirect' = redirect
  BY DEF row
<1>4. NoRowInv'
  BY <1>2, <1>3 DEF EInv, NoRowInv
<1> QED
  BY <1>1, <1>4

(* A summary is loaded, part by part.                                      *)
LEMMA LoadFacts ==
    ASSUME EInv, NEW a \in Actor, Loads(a)
    PROVE  /\ RowType' /\ ViewType' /\ NoRowInv'
           /\ UNCHANGED <<row, jobs, cmd, lock, published>>
           /\ at[a] \in {"load", "seen", "derive"}
           /\ \E l \in {"seen", "derive", "sync"} : Goto(a, l)
<1>0. view[a] \in View3
  BY DEF EInv, ViewType
<1>1. CASE LoadJobs(a)
  <2> DEFINE w == [view[a] EXCEPT !.rows = job]
  <2>1. w \in View3 /\ w.persisted = view[a].persisted
    BY <1>0 DEF View3, EInv, JobsType
  <2>2. view' = [view EXCEPT ![a] = w] /\ UNCHANGED <<row, jobs, cmd, lock, published>>
    BY <1>1 DEF LoadJobs
  <2>3. at[a] = "load" /\ Goto(a, "seen")
    BY <1>1 DEF LoadJobs
  <2> HIDE DEF w
  <2> QED
    BY <2>1, <2>2, <2>3, ViewMoves
<1>2. CASE LoadRow(a)
  <2> DEFINE e == IF epic = "none" THEN "open" ELSE epic
             w == [view[a] EXCEPT !.persisted = e]
  <2>1. e \in EpicState /\ (epic = "none" => e = "open")
    BY DEF EInv, RowType, RowStates, EpicState
  <2>2. view' = [view EXCEPT ![a] = w] /\ UNCHANGED <<row, jobs, cmd, lock, published>>
    BY <1>2 DEF LoadRow
  <2> HIDE DEF e
  <2>3. w \in View3 /\ w.persisted = e
    BY <1>0, <2>1 DEF View3
  <2>4. at[a] = "seen" /\ Goto(a, "derive")
    BY <1>2 DEF LoadRow
  <2> HIDE DEF w
  <2> QED
    BY <2>1, <2>2, <2>3, <2>4, ViewMoves
<1>3. CASE LoadChains(a)
  <2> DEFINE d == Readiness(view[a].rows)
             n == NoView.rows
             w == [view[a] EXCEPT !.ready = d, !.rows = n]
  <2>1. d \in Readied
    BY ReadinessType
  <2>2. n \in [Job -> JobState]
    BY DEF NoView, JobState
  <2>3. view' = [view EXCEPT ![a] = w] /\ UNCHANGED <<row, jobs, cmd, lock, published>>
    BY <1>3 DEF LoadChains
  <2> HIDE DEF d, n
  <2>4. w \in View3 /\ w.persisted = view[a].persisted
    BY <1>0, <2>1, <2>2 DEF View3
  <2>5. at[a] = "derive" /\ Goto(a, "sync")
    BY <1>3 DEF LoadChains
  <2> HIDE DEF w
  <2> QED
    BY <2>3, <2>4, <2>5, ViewMoves
<1> QED
  BY <1>1, <1>2, <1>3 DEF Loads

(* Nobody sees anything before the rows are listed.                         *)
LEMMA NoViewType == NoView \in View3 /\ NoView.persisted = "open"
BY DEF NoView, View3, EpicState, Readied, JobState

(* The row is replaced: from then on there is one.                          *)
LEMMA PutFacts ==
    ASSUME EInv, NEW s \in EpicState, PutEpic(s), members' \subseteq Chain
    PROVE  RowType' /\ NoRowInv'
<1>1. redirect' \in BOOLEAN /\ epic' \in EpicState /\ epic' # "none"
  BY DEF PutEpic, EpicState
<1> QED
  BY <1>1 DEF RowType, RowStates, NoRowInv

(* A derived state is written, over whatever the row says by now.           *)
LEMMA WriteReadinessFacts ==
    ASSUME EInv, NEW a \in Actor, WriteReadiness(a), UNCHANGED members
    PROVE  /\ RowType' /\ ViewType' /\ NoRowInv'
           /\ epic \in Final /\ epic' \notin Final => view[a].persisted \notin Final
           /\ epic # "merged" => epic' # "merged"
<1> DEFINE s == NextState(view[a].persisted, view[a].ready)
<1>1. view[a].persisted \in EpicState /\ view[a].ready \in Readied
  BY DEF EInv, ViewType, View3
<1>2. /\ s \in EpicState
      /\ view[a].persisted \in Final => s = view[a].persisted
      /\ view[a].persisted \notin Final => s \notin Final
  BY <1>1, NextStateFacts
<1>3. /\ IF s # view[a].persisted \/ epic = "none" THEN PutEpic(s) ELSE UNCHANGED <<epic, redirect>>
      /\ view' = [view EXCEPT ![a] = NoView]
  BY DEF WriteReadiness
<1> HIDE DEF s
<1>4. ViewType' /\ \A b \in Actor : view'[b].persisted \in {view[b].persisted, "open"}
  <2>1. NoView \in View3 /\ NoView.persisted = "open"
    BY NoViewType
  <2> QED
    BY <1>3, <2>1 DEF EInv, ViewType
<1>5. CASE PutEpic(s) /\ (s # view[a].persisted \/ epic = "none")
  <2>1. RowType' /\ NoRowInv'
    BY <1>2, <1>5, PutFacts DEF EInv, RowType
  <2>2. epic = "none" => view[a].persisted = "open"
    BY DEF EInv, NoRowInv
  <2>3. epic' = s
    BY <1>5 DEF PutEpic
  <2>4. epic \in Final /\ epic' \notin Final => view[a].persisted \notin Final
    BY <1>2, <2>3
  <2>5. s # "merged"
    <3>1. s \in Final => view[a].persisted \in Final /\ s = view[a].persisted
      BY <1>2
    <3>2. s \in Final => FALSE
      BY <1>5, <2>2, <3>1 DEF Final
    <3> QED
      BY <3>2 DEF Final
  <2> QED
    BY <1>4, <2>1, <2>3, <2>4, <2>5
<1>6. CASE UNCHANGED <<epic, redirect>>
  BY <1>4, <1>6 DEF EInv, RowType, NoRowInv
<1> QED
  BY <1>3, <1>5, <1>6

-----------------------------------------------------------------------------
(* What is known of the commands                                           *)

(* A command moves on with something else to remember.                      *)
LEMMA CommandMoves ==
    ASSUME EInv, NEW p \in Cmd, NEW r \in Record9, NEW l \in Places,
           cmd' = [cmd EXCEPT ![p] = r], at' = [at EXCEPT ![p] = l],
           published \subseteq published', published' \subseteq Chain,
           lock' \in Cmd \cup {"free"}, Sound(r, l, published'), l \notin {"written", "opened"}
    PROVE  AtType' /\ CmdType' /\ CmdInv'
<1>1. AtType'
  BY DEF EInv, AtType, Actor
<1>2. CmdType'
  BY DEF EInv, CmdType
<1>3. ASSUME NEW q \in Cmd, q # p PROVE Sound(cmd[q], at[q], published')
  BY DEF EInv, CmdInv, Sound
<1>4. \A q \in Cmd : /\ cmd'[q] = IF q = p THEN r ELSE cmd[q]
                     /\ at'[q] = IF q = p THEN l ELSE at[q]
  BY DEF EInv, CmdType, AtType, Actor
<1> HIDE DEF Sound
<1>5. CmdInv'
  BY <1>3, <1>4 DEF CmdInv
<1> QED
  BY <1>1, <1>2, <1>5

(* A command that is over remembers nothing.                                *)
LEMMA NothingKept ==
    /\ NoCmd \in Record9
    /\ \A pub \in SUBSET Chain : Sound(NoCmd, "over", pub) /\ Sound(NoCmd, "dead", pub)
BY DEF NoCmd, Record9, RowStates, EpicState, Final, AllKinds, Sound, Syncing, Guarding

(* A job or a viewer moves, and the commands stand still.                   *)
LEMMA OthersMove ==
    ASSUME EInv, NEW a \in Actor, NEW l \in Places, Goto(a, l), a \notin Cmd,
           l \in {"written", "opened"} => a \in Job /\ ChainOf[a] # Prep,
           UNCHANGED <<cmd, lock, published>>
    PROVE  AtType' /\ CmdType' /\ CmdInv'
<1>1. AtType'
  BY DEF EInv, AtType, Goto
<1>2. CmdType'
  BY DEF EInv, CmdType
<1>3. \A q \in Cmd : at'[q] = at[q]
  BY DEF EInv, AtType, Goto, Actor
<1>4. CmdInv'
  BY <1>3 DEF EInv, CmdInv
<1> QED
  BY <1>1, <1>2, <1>4

(* The rows of the jobs change, and the row of the epic does not.            *)
LEMMA RowStays ==
    ASSUME EInv, UNCHANGED row
    PROVE  RowType' /\ (view' = view => NoRowInv')
BY DEF EInv, RowType, NoRowInv, row

(* Where a step of a job or a viewer leads.                                 *)
LEMMA PlacesOf == {"written", "opened", "on", "over", "load", "seen", "derive", "sync", "idle"}
                      \subseteq Places
BY DEF Places

(* A step of a job keeps the invariant.                                     *)
LEMMA SuperviseKeeps ==
    ASSUME EInv, OpenedInv, NEW j \in Job, Supervise(j)
    PROVE  EInv'
<1> j \in Actor /\ j \notin Cmd
  BY EpicAssumption DEF Actor
<1>1. CASE Start(j) \/ Touch(j) \/ Finish(j) \/ Cancel(j)
  <2>1. UNCHANGED <<row, view, cmd, lock, published>>
    BY <1>1 DEF Start, Touch, Finish, Cancel, row, jobs
  <2>2. JobsType'
    <3>1. CASE Start(j)
      BY <3>1 DEF EInv, JobsType, Start, JobState
    <3>2. CASE Touch(j)
      BY <3>2 DEF EInv, JobsType, Touch, jobs
    <3>3. CASE Finish(j)
      BY <3>3 DEF EInv, JobsType, Finish, JobState
    <3>4. CASE Cancel(j)
      BY <3>4 DEF EInv, JobsType, Cancel, JobState
    <3> QED
      BY <1>1, <3>1, <3>2, <3>3, <3>4
  <2>3. \E l \in {"written", "on", "over"} : Goto(j, l) /\ (l = "written" => ChainOf[j] # Prep)
    BY <1>1 DEF Start, Touch, Finish, Cancel
  <2>4. AtType' /\ CmdType' /\ CmdInv'
    BY <2>1, <2>3, OthersMove, PlacesOf
  <2>5. RowType' /\ NoRowInv' /\ ViewType'
    BY <2>1, RowStays DEF EInv, ViewType
  <2> QED
    BY <2>2, <2>4, <2>5 DEF EInv
<1>2. CASE Reopen(j)
  <2>1. ChainOf[j] # Prep /\ "open" \in EpicState
    BY <1>2 DEF Reopen, EInv, AtType, EpicState
  <2>2. /\ PutEpic("open") /\ members' \subseteq Chain /\ Goto(j, "opened")
        /\ UNCHANGED <<jobs, view, cmd, lock, published>>
    BY <1>2 DEF Reopen, EInv, RowType
  <2>3. AtType' /\ CmdType' /\ CmdInv'
    BY <2>1, <2>2, OthersMove, PlacesOf
  <2>4. RowType' /\ NoRowInv'
    BY <2>1, <2>2, PutFacts
  <2>5. JobsType' /\ ViewType'
    BY <2>2 DEF EInv, JobsType, ViewType, jobs
  <2> QED
    BY <2>3, <2>4, <2>5 DEF EInv
<1>3. CASE Join(j)
  <2>1. ChainOf[j] \in Chain /\ epic # "none"
    BY <1>3, EpicAssumption DEF Join, EInv, AtType, OpenedInv
  <2>2. /\ members' = members \cup {ChainOf[j]} /\ Goto(j, "load")
        /\ UNCHANGED <<epic, redirect, jobs, view, cmd, lock, published>>
    BY <1>3 DEF Join
  <2>3. AtType' /\ CmdType' /\ CmdInv'
    BY <2>2, OthersMove, PlacesOf
  <2>4. RowType' /\ NoRowInv'
    BY <2>1, <2>2 DEF EInv, RowType, NoRowInv
  <2>5. JobsType' /\ ViewType'
    BY <2>2 DEF EInv, JobsType, ViewType, jobs
  <2> QED
    BY <2>3, <2>4, <2>5 DEF EInv
<1>4. CASE Loads(j)
  <2>1. /\ RowType' /\ ViewType' /\ NoRowInv' /\ UNCHANGED <<row, jobs, cmd, lock, published>>
        /\ \E l \in {"seen", "derive", "sync"} : Goto(j, l)
    BY <1>4, LoadFacts
  <2>2. AtType' /\ CmdType' /\ CmdInv'
    BY <2>1, OthersMove, PlacesOf
  <2>3. JobsType'
    BY <2>1 DEF EInv, JobsType, jobs
  <2> QED
    BY <2>1, <2>2, <2>3 DEF EInv
<1>5. CASE SyncAfterJoin(j)
  <2>1. /\ WriteReadiness(j) /\ UNCHANGED <<members, jobs, cmd, lock, published>>
        /\ \E l \in {"on", "over"} : Goto(j, l)
    BY <1>5 DEF SyncAfterJoin
  <2>2. AtType' /\ CmdType' /\ CmdInv'
    BY <2>1, OthersMove, PlacesOf
  <2>3. RowType' /\ ViewType' /\ NoRowInv'
    BY <2>1, WriteReadinessFacts
  <2>4. JobsType'
    BY <2>1 DEF EInv, JobsType, jobs
  <2> QED
    BY <2>2, <2>3, <2>4 DEF EInv
<1> QED
  BY <1>1, <1>2, <1>3, <1>4, <1>5 DEF Supervise

(* The rows of dead jobs are repaired.                                      *)
LEMMA MarkErrorType ==
    ASSUME JobsType, NEW dead, MarkError(dead), UNCHANGED <<verdict, live>>
    PROVE  JobsType'
BY DEF JobsType, MarkError, JobState

(* A look at the epic keeps the invariant.                                  *)
LEMMA ViewKeeps ==
    ASSUME EInv, NEW v \in Viewer, View(v)
    PROVE  EInv'
<1>1. v \in Actor /\ v \notin Cmd
  BY EpicAssumption DEF Actor
<1>2. /\ \E l \in {"load", "seen", "derive", "sync", "idle"} : Goto(v, l)
      /\ UNCHANGED <<cmd, lock, published>>
  <2>1. CASE Look(v) \/ LookSyncs(v)
    BY <2>1 DEF Look, LookSyncs
  <2>2. CASE Loads(v)
    BY <1>1, <2>2, LoadFacts
  <2> QED
    BY <2>1, <2>2 DEF View
<1>3. AtType' /\ CmdType' /\ CmdInv'
  BY <1>1, <1>2, OthersMove, PlacesOf
<1>4. CASE Look(v)
  <2>1. RowType' /\ NoRowInv' /\ ViewType'
    BY <1>4, RowStays DEF Look, EInv, ViewType
  <2>2. JobsType'
    BY <1>4, MarkErrorType DEF Look, EInv
  <2> QED
    BY <1>3, <2>1, <2>2 DEF EInv
<1>5. CASE Loads(v)
  <2>1. RowType' /\ ViewType' /\ NoRowInv' /\ UNCHANGED jobs
    BY <1>1, <1>5, LoadFacts
  <2>2. JobsType'
    BY <2>1 DEF EInv, JobsType, jobs
  <2> QED
    BY <1>3, <2>1, <2>2 DEF EInv
<1>6. CASE LookSyncs(v)
  <2>1. RowType' /\ ViewType' /\ NoRowInv'
    BY <1>1, <1>6, WriteReadinessFacts DEF LookSyncs
  <2>2. JobsType'
    BY <1>6 DEF LookSyncs, EInv, JobsType, jobs
  <2> QED
    BY <1>3, <2>1, <2>2 DEF EInv
<1> QED
  BY <1>4, <1>5, <1>6 DEF View

-----------------------------------------------------------------------------
(* The commands                                                            *)

(* A command that goes on with what it remembers.                           *)
LEMMA CommandWalks ==
    ASSUME EInv, NEW p \in Cmd, NEW l \in Places \ {"written", "opened"}, Goto(p, l), cmd' = cmd,
           published \subseteq published', published' \subseteq Chain,
           lock' \in Cmd \cup {"free"}, Sound(cmd[p], l, published')
    PROVE  AtType' /\ CmdType' /\ CmdInv'
<1>1. cmd[p] \in Record9 /\ cmd' = [cmd EXCEPT ![p] = cmd[p]]
  BY DEF EInv, CmdType
<1> QED
  BY <1>1, CommandMoves DEF Goto

(* A command that is over.                                                  *)
LEMMA CommandOver ==
    ASSUME EInv, NEW p \in Cmd, Over(p), UNCHANGED published, lock' \in Cmd \cup {"free"}
    PROVE  AtType' /\ CmdType' /\ CmdInv'
<1>1. NoCmd \in Record9 /\ Sound(NoCmd, "over", published) /\ "over" \in Places
  BY NothingKept DEF EInv, AtType, Places
<1>2. published \subseteq Chain
  BY DEF EInv, AtType
<1> QED
  BY <1>1, <1>2, CommandMoves DEF Over, Goto

(* What is remembered, one field or more of it anew.                        *)
LEMMA Remembered ==
    ASSUME NEW r \in Record9
    PROVE  /\ \A x \in BOOLEAN : [r EXCEPT !.marked = x] \in Record9
           /\ \A x \in AllKinds : [r EXCEPT !.kind = x] \in Record9
           /\ \A x \in SUBSET Job : [r EXCEPT !.dead = x] \in Record9
           /\ \A x \in SUBSET Chain : [r EXCEPT !.chains = x] \in Record9
           /\ \A x \in SUBSET Chain : [r EXCEPT !.todo = x] \in Record9
           /\ \A x \in SUBSET Chain : [r EXCEPT !.last = x] \in Record9
BY DEF Record9

(* Two fields of it.                                                       *)
LEMMA RememberedTwo ==
    ASSUME NEW r \in Record9
    PROVE  /\ \A x \in BOOLEAN, y \in RowStates :
                 [r EXCEPT !.marked = x, !.old = y] \in Record9
           /\ \A x \in BOOLEAN, y \in RowStates :
                 [r EXCEPT !.old = y, !.marked = x] \in Record9
           /\ \A x \in SUBSET Job, y \in SUBSET Chain :
                 [r EXCEPT !.dead = x, !.chains = y] \in Record9
           /\ \A x, y \in SUBSET Chain : [r EXCEPT !.todo = x, !.last = y] \in Record9
BY DEF Record9

(* A command remembers what it has gathered.                               *)
LEMMA RememberedMembers ==
    ASSUME NEW r \in Record9, NEW k \in AllKinds, NEW t \in SUBSET Chain,
           NEW c \in EpicState \ Final
    PROVE  [r EXCEPT !.kind = k, !.chains = t, !.cur = c] \in Record9
BY DEF Record9

(* A command remembers what it is about to do.                             *)
LEMMA RememberedPlan ==
    ASSUME NEW r \in Record9, NEW k \in AllKinds, NEW t \in SUBSET Chain
    PROVE  /\ [r EXCEPT !.chains = {}, !.targets = t, !.todo = t] \in Record9
           /\ [r EXCEPT !.kind = k, !.targets = t, !.todo = t] \in Record9
BY DEF Record9

(* A command takes the lock, or goes away.                                  *)
LEMMA LockKeeps ==
    ASSUME EInv, NEW p \in Cmd, NEW kind, Lock(p, kind)
    PROVE  EInv'
<1>1. /\ at[p] = "idle" /\ kind \in {"sync", "abandon", "force"}
      /\ UNCHANGED <<row, jobs, view, published>>
  BY DEF Lock
<1>2. RowType' /\ NoRowInv' /\ JobsType' /\ ViewType'
  BY <1>1, RowStays DEF EInv, JobsType, ViewType, jobs
<1>3. AtType' /\ CmdType' /\ CmdInv'
  <2>1. CASE Over(p) /\ UNCHANGED lock
    BY <1>1, <2>1, CommandOver DEF EInv, AtType
  <2>2. CASE lock' = p /\ Goto(p, "read") /\ cmd' = [cmd EXCEPT ![p].kind = kind]
    <3> DEFINE r == [cmd[p] EXCEPT !.kind = kind]
    <3>1. cmd[p] \in Record9 /\ Sound(cmd[p], "idle", published)
      BY <1>1 DEF EInv, CmdType, CmdInv
    <3>2. r \in Record9 /\ cmd' = [cmd EXCEPT ![p] = r]
      BY <1>1, <2>2, <3>1, Remembered DEF AllKinds
    <3>3. /\ r.todo = cmd[p].todo /\ r.targets = cmd[p].targets
          /\ r.kind = kind /\ cmd[p].kind # "pr"
      BY <3>1 DEF Record9, Sound
    <3>4. Sound(r, "read", published)
      <4> HIDE DEF r
      <4> QED
        BY <1>1, <3>1, <3>3 DEF Sound, Syncing, Guarding
    <3> HIDE DEF r
    <3>5. published' = published /\ published' \subseteq Chain /\ "read" \in Places
      BY <1>1 DEF EInv, AtType, Places
    <3> QED
      BY <2>2, <3>2, <3>4, <3>5, CommandMoves DEF Goto
  <2> QED
    BY <2>1, <2>2 DEF Lock
<1> QED
  BY <1>2, <1>3 DEF EInv

(* An abandonment keeps the invariant.                                      *)
LEMMA AbandonKeeps ==
    ASSUME EInv, NEW p \in Cmd, Unlock(p) \/ AbandonReads(p) \/ AbandonLooks(p) \/ AbandonWrites(p)
    PROVE  EInv'
<1>0. cmd[p] \in Record9 /\ Sound(cmd[p], at[p], published) /\ redirect \in BOOLEAN
  BY DEF EInv, CmdType, CmdInv, RowType
<1>1. JobsType' /\ ViewType'
  BY DEF Unlock, AbandonReads, AbandonLooks, AbandonWrites, EInv, JobsType, ViewType, jobs
<1>2. CASE Unlock(p)
  <2>1. RowType' /\ NoRowInv'
    BY <1>2, RowStays DEF Unlock
  <2>2. AtType' /\ CmdType' /\ CmdInv'
    BY <1>2, CommandOver DEF Unlock
  <2> QED
    BY <1>1, <2>1, <2>2 DEF EInv
<1>3. CASE AbandonReads(p)
  <2> DEFINE r == [cmd[p] EXCEPT !.marked = redirect]
  <2>1. RowType' /\ NoRowInv'
    BY <1>3, RowStays DEF AbandonReads
  <2>2. PICK l \in {"unlock", "members"} : Goto(p, l)
    BY <1>3 DEF AbandonReads
  <2>3. r \in Record9 /\ cmd' = [cmd EXCEPT ![p] = r]
    BY <1>0, <1>3, Remembered DEF AbandonReads
  <2>4. r.todo = cmd[p].todo /\ r.targets = cmd[p].targets /\ r.kind = cmd[p].kind
    BY <1>0 DEF Record9
  <2> HIDE DEF r
  <2>5. Sound(r, l, published)
    BY <1>0, <1>3, <2>4 DEF Sound, AbandonReads, Syncing, Guarding
  <2>6. /\ published' = published /\ published' \subseteq Chain /\ l \in Places
        /\ lock' \in Cmd \cup {"free"}
    BY <1>3 DEF AbandonReads, EInv, AtType, Places
  <2>7. AtType' /\ CmdType' /\ CmdInv'
    BY <2>2, <2>3, <2>5, <2>6, CommandMoves DEF Goto
  <2> QED
    BY <1>1, <2>1, <2>7 DEF EInv
<1>4. CASE AbandonWrites(p)
  <2>1. /\ epic' = "abandoned" /\ redirect' = cmd[p].marked /\ Goto(p, "unlock")
        /\ UNCHANGED <<members, cmd, lock, published>>
    BY <1>4 DEF AbandonWrites
  <2>2. redirect' \in BOOLEAN
    BY <1>0, <2>1 DEF Record9
  <2>3. RowType' /\ NoRowInv'
    BY <2>1, <2>2 DEF EInv, RowType, RowStates, EpicState, NoRowInv
  <2>4. Sound(cmd[p], "unlock", published)
    BY <1>0, <1>4 DEF Sound, AbandonWrites, Syncing, Guarding
  <2>5. AtType' /\ CmdType' /\ CmdInv'
    BY <2>1, <2>4, CommandWalks DEF EInv, AtType, Places
  <2> QED
    BY <1>1, <2>3, <2>5 DEF EInv
<1>5. CASE AbandonLooks(p)
  <2>1. RowType' /\ NoRowInv'
    BY <1>5, RowStays DEF AbandonLooks
  <2>2. PICK l \in {"unlock", "abandon"} : Goto(p, l)
    BY <1>5 DEF AbandonLooks
  <2>3. Sound(cmd[p], l, published)
    BY <1>0, <1>5 DEF Sound, AbandonLooks, Syncing, Guarding
  <2>4. AtType' /\ CmdType' /\ CmdInv'
    BY <1>5, <2>2, <2>3, CommandWalks DEF AbandonLooks, EInv, AtType, Places
  <2> QED
    BY <1>1, <2>1, <2>4 DEF EInv
<1> QED
  BY <1>2, <1>3, <1>4, <1>5

(* A command on the way through syncEpicState goes on there.                *)
LEMMA SyncGoesOn ==
    ASSUME EInv, NEW p \in Cmd, cmd[p].kind \in Syncs, at[p] # "gather",
           NEW r \in Record9, NEW l \in Syncing \ {"clear"},
           cmd' = [cmd EXCEPT ![p] = r], Goto(p, l), UNCHANGED <<lock, published>>,
           r.todo = cmd[p].todo, r.targets = cmd[p].targets, r.kind = cmd[p].kind
    PROVE  AtType' /\ CmdType' /\ CmdInv'
<1>1. Sound(cmd[p], at[p], published)
  BY DEF EInv, CmdInv
<1>2. Sound(r, l, published')
  BY <1>1 DEF Sound, Syncing, Guarding
<1>3. /\ published' = published /\ published' \subseteq Chain /\ lock' \in Cmd \cup {"free"}
      /\ l \in Places /\ l \notin {"written", "opened"}
  BY DEF EInv, AtType, Places, Syncing
<1> HIDE DEF Sound
<1> QED
  BY <1>2, <1>3, CommandMoves DEF Goto

(* Reading the drift keeps the invariant.                                   *)
LEMMA SyncReadsKeeps ==
    ASSUME EInv, NEW p \in Cmd, SyncReads(p) \/ SyncScans(p) \/ SyncFinds(p)
    PROVE  EInv'
<1>0. cmd[p] \in Record9 /\ Sound(cmd[p], at[p], published)
  BY DEF EInv, CmdType, CmdInv
<1>1. UNCHANGED <<row, jobs, view, lock, published>> /\ at[p] \in {"read", "scan", "drift"}
  BY DEF SyncReads, SyncScans, SyncFinds
<1>2. cmd[p].kind \in Syncs
  BY <1>0 DEF SyncReads, SyncScans, SyncFinds, Sound, Syncing
<1>3. RowType' /\ NoRowInv' /\ JobsType' /\ ViewType'
  BY <1>1, RowStays DEF EInv, JobsType, ViewType, jobs
<1>4. ASSUME SyncReads(p) PROVE AtType' /\ CmdType' /\ CmdInv'
  <2> DEFINE r == [cmd[p] EXCEPT !.marked = redirect, !.old = epic]
  <2>1. redirect \in BOOLEAN /\ epic \in RowStates
    BY DEF EInv, RowType
  <2>2. r \in Record9
    BY <1>0, <2>1, RememberedTwo
  <2>3. cmd' = [cmd EXCEPT ![p] = r] /\ Goto(p, "scan") /\ "scan" \in Syncing \ {"clear"}
    BY <1>4 DEF SyncReads, Syncing
  <2>4. r.todo = cmd[p].todo /\ r.targets = cmd[p].targets /\ r.kind = cmd[p].kind
    BY <1>0 DEF Record9
  <2> HIDE DEF r
  <2> QED
    BY <1>1, <1>2, <2>2, <2>3, <2>4, SyncGoesOn
<1>5. ASSUME SyncScans(p) PROVE AtType' /\ CmdType' /\ CmdInv'
  <2> DEFINE d == {j \in Job : ActiveJob(j)}
             r == [cmd[p] EXCEPT !.dead = d]
  <2>1. d \in SUBSET Job
    OBVIOUS
  <2>2. cmd' = [cmd EXCEPT ![p] = r] /\ Goto(p, "drift") /\ "drift" \in Syncing \ {"clear"}
    BY <1>5 DEF SyncScans, Syncing
  <2> HIDE DEF d
  <2>3. r \in Record9
    BY <1>0, <2>1, Remembered
  <2>4. r.todo = cmd[p].todo /\ r.targets = cmd[p].targets /\ r.kind = cmd[p].kind
    BY <1>0 DEF Record9
  <2> HIDE DEF r
  <2> QED
    BY <1>1, <1>2, <2>2, <2>3, <2>4, SyncGoesOn
<1>6. ASSUME SyncFinds(p) PROVE AtType' /\ CmdType' /\ CmdInv'
  <2> DEFINE d == cmd[p].dead \ live
             s == {c \in members : ChainJobs(job, c) = <<>>}
             r == [cmd[p] EXCEPT !.dead = d, !.chains = s]
  <2>1. d \in SUBSET Job /\ s \in SUBSET Chain
    BY <1>0 DEF Record9, EInv, RowType
  <2>2. cmd' = [cmd EXCEPT ![p] = r] /\ Goto(p, "repair") /\ "repair" \in Syncing \ {"clear"}
    BY <1>6 DEF SyncFinds, Syncing
  <2> HIDE DEF d, s
  <2>3. r \in Record9
    BY <1>0, <2>1, RememberedTwo
  <2>4. r.todo = cmd[p].todo /\ r.targets = cmd[p].targets /\ r.kind = cmd[p].kind
    BY <1>0 DEF Record9
  <2> HIDE DEF r
  <2> QED
    BY <1>1, <1>2, <2>2, <2>3, <2>4, SyncGoesOn
<1>7. AtType' /\ CmdType' /\ CmdInv'
  BY <1>4, <1>5, <1>6
<1> QED
  BY <1>3, <1>7 DEF EInv

(* Repairing it keeps the invariant.                                        *)
LEMMA SyncRepairsKeeps ==
    ASSUME EInv, NEW p \in Cmd, (\E j \in Job : SyncMarks(p, j)) \/ SyncPrunes(p)
    PROVE  EInv'
<1>0. cmd[p] \in Record9 /\ Sound(cmd[p], at[p], published)
  BY DEF EInv, CmdType, CmdInv
<1>1. UNCHANGED <<epic, redirect, view, lock, published>> /\ at[p] = "repair"
  BY DEF SyncMarks, SyncPrunes, row
<1>2. cmd[p].kind \in Syncs
  BY <1>0, <1>1 DEF Sound, Syncing
<1>3. ViewType'
  BY <1>1 DEF EInv, ViewType
<1>4. ASSUME NEW j \in Job, SyncMarks(p, j) PROVE EInv'
  <2> DEFINE d == cmd[p].dead \ {j}
             r == [cmd[p] EXCEPT !.dead = d]
  <2>1. RowType' /\ NoRowInv'
    BY <1>4, RowStays DEF SyncMarks
  <2>2. JobsType'
    BY <1>4, MarkErrorType DEF SyncMarks, EInv
  <2>3. d \in SUBSET Job
    BY <1>0 DEF Record9
  <2>4. cmd' = [cmd EXCEPT ![p] = r] /\ at' = at
    BY <1>4 DEF SyncMarks
  <2> HIDE DEF d
  <2>5. r \in Record9
    BY <1>0, <2>3, Remembered
  <2>6. r.todo = cmd[p].todo /\ r.targets = cmd[p].targets /\ r.kind = cmd[p].kind
    BY <1>0 DEF Record9
  <2> HIDE DEF r
  <2>7. Goto(p, "repair") /\ "repair" \in Syncing \ {"clear"}
    BY <1>1, <2>4 DEF Goto, EInv, AtType, Syncing, Actor
  <2>8. AtType' /\ CmdType' /\ CmdInv'
    BY <1>1, <1>2, <2>4, <2>5, <2>6, <2>7, SyncGoesOn
  <2> QED
    BY <1>3, <2>1, <2>2, <2>8 DEF EInv
<1>5. ASSUME SyncPrunes(p) PROVE EInv'
  <2> DEFINE r == [cmd[p] EXCEPT !.chains = {}]
  <2>1. JobsType'
    BY <1>5 DEF SyncPrunes, EInv, JobsType, jobs
  <2>2. members' = members \ cmd[p].chains
    BY <1>5 DEF SyncPrunes
  <2>3. RowType' /\ NoRowInv'
    BY <1>1, <2>2 DEF EInv, RowType, NoRowInv
  <2>4. r \in Record9 /\ cmd' = [cmd EXCEPT ![p] = r]
    BY <1>0, <1>5, Remembered DEF SyncPrunes
  <2>5. r.todo = cmd[p].todo /\ r.targets = cmd[p].targets /\ r.kind = cmd[p].kind
    BY <1>0 DEF Record9
  <2> HIDE DEF r
  <2>6. Goto(p, "load") /\ "load" \in Syncing \ {"clear"}
    BY <1>5 DEF SyncPrunes, Syncing
  <2>7. AtType' /\ CmdType' /\ CmdInv'
    BY <1>1, <1>2, <2>4, <2>5, <2>6, SyncGoesOn
  <2> QED
    BY <1>3, <2>1, <2>3, <2>7 DEF EInv
<1> QED
  BY <1>4, <1>5

(* The end of syncEpicState leads on.                                       *)
LEMMA SyncReturnsKeeps ==
    ASSUME EInv, NEW p \in Cmd, SyncReturns(p), at[p] \in {"sync", "clear"},
           UNCHANGED <<lock, published>>
    PROVE  AtType' /\ CmdType' /\ CmdInv'
<1> DEFINE r == [cmd[p] EXCEPT !.old = "none", !.marked = FALSE]
<1>1. cmd[p] \in Record9 /\ Sound(cmd[p], at[p], published)
  BY DEF EInv, CmdType, CmdInv
<1>2. "none" \in RowStates /\ FALSE \in BOOLEAN
  BY DEF RowStates
<1>3. r \in Record9 /\ cmd' = [cmd EXCEPT ![p] = r]
  BY <1>1, <1>2, RememberedTwo DEF SyncReturns
<1>4. r.todo = cmd[p].todo /\ r.targets = cmd[p].targets /\ r.kind = cmd[p].kind
  BY <1>1 DEF Record9
<1> HIDE DEF r
<1>5. cmd[p].kind \in Syncs
  BY <1>1 DEF Sound, Syncing
<1>6. PICK l \in {"unlock", "publish"} : Goto(p, l) /\ (l = "publish" => cmd[p].kind # "sync")
  BY DEF SyncReturns
<1>7. Sound(r, l, published)
  BY <1>1, <1>4, <1>5, <1>6 DEF Sound, Syncs, Syncing, Guarding, Publishers
<1>8. /\ published' = published /\ published' \subseteq Chain /\ lock' \in Cmd \cup {"free"}
      /\ l \in Places /\ l \notin {"written", "opened"}
  BY DEF EInv, AtType, Places
<1> HIDE DEF Sound
<1> QED
  BY <1>3, <1>6, <1>7, <1>8, CommandMoves DEF Goto

(* Writing what was derived from the row keeps the invariant.               *)
LEMMA SyncWritesKeeps ==
    ASSUME EInv, NEW p \in Cmd, Loads(p) \/ SyncWrites(p) \/ SyncClears(p)
    PROVE  EInv'
<1>0. cmd[p] \in Record9 /\ Sound(cmd[p], at[p], published) /\ p \in Actor
  BY DEF EInv, CmdType, CmdInv, Actor
<1>1. CASE Loads(p)
  <2>1. /\ RowType' /\ ViewType' /\ NoRowInv' /\ UNCHANGED <<row, jobs, cmd, lock, published>>
        /\ at[p] \in {"load", "seen", "derive"}
        /\ \E l \in {"seen", "derive", "sync"} : Goto(p, l)
    BY <1>0, <1>1, LoadFacts
  <2>2. PICK l \in {"seen", "derive", "sync"} : Goto(p, l)
    BY <2>1
  <2>3. l \in Syncing \ {"clear"} /\ cmd[p].kind \in Syncs
    BY <1>0, <2>1 DEF Sound, Syncing
  <2>4. cmd' = [cmd EXCEPT ![p] = cmd[p]]
    BY <2>1 DEF EInv, CmdType
  <2>5. AtType' /\ CmdType' /\ CmdInv'
    BY <1>0, <2>1, <2>2, <2>3, <2>4, SyncGoesOn
  <2>6. JobsType'
    BY <2>1 DEF EInv, JobsType, jobs
  <2> QED
    BY <2>1, <2>5, <2>6 DEF EInv
<1>2. CASE SyncWrites(p)
  <2>1. /\ WriteReadiness(p) /\ UNCHANGED <<members, jobs, lock, published>> /\ at[p] = "sync"
        /\ \/ Goto(p, "clear") /\ UNCHANGED cmd /\ cmd[p].old # "none"
           \/ SyncReturns(p)
    BY <1>2 DEF SyncWrites
  <2>2. RowType' /\ ViewType' /\ NoRowInv'
    BY <1>0, <2>1, WriteReadinessFacts
  <2>3. JobsType'
    BY <2>1 DEF EInv, JobsType, jobs
  <2>4. ASSUME Goto(p, "clear"), UNCHANGED cmd, cmd[p].old # "none"
        PROVE  AtType' /\ CmdType' /\ CmdInv'
    <3>1. Sound(cmd[p], "clear", published)
      BY <1>0, <2>1, <2>4 DEF Sound, Syncing, Guarding
    <3>2. /\ published' = published /\ published' \subseteq Chain /\ lock' \in Cmd \cup {"free"}
          /\ "clear" \in Places \ {"written", "opened"}
      BY <2>1 DEF EInv, AtType, Places
    <3> QED
      BY <2>4, <3>1, <3>2, CommandWalks
  <2>5. AtType' /\ CmdType' /\ CmdInv'
    BY <2>1, <2>4, SyncReturnsKeeps
  <2> QED
    BY <2>2, <2>3, <2>5 DEF EInv
<1>3. CASE SyncClears(p)
  <2>1. /\ PutEpic(cmd[p].old) /\ SyncReturns(p) /\ at[p] = "clear"
        /\ UNCHANGED <<members, jobs, view, lock, published>>
    BY <1>3 DEF SyncClears
  <2>2. cmd[p].old \in EpicState
    BY <1>0, <2>1 DEF Sound, Record9, RowStates
  <2>3. RowType' /\ NoRowInv'
    BY <2>1, <2>2, PutFacts DEF EInv, RowType
  <2>4. JobsType' /\ ViewType'
    BY <2>1 DEF EInv, JobsType, ViewType, jobs
  <2>5. AtType' /\ CmdType' /\ CmdInv'
    BY <2>1, SyncReturnsKeeps
  <2> QED
    BY <2>3, <2>4, <2>5 DEF EInv
<1> QED
  BY <1>1, <1>2, <1>3

(* A command that gathers goes on with what it found, or goes away.         *)
LEMMA GatherGoesOn ==
    ASSUME EInv, NEW p \in Cmd, NEW r \in Record9, NEW l \in {"gather", "guard", "publish"},
           cmd' = [cmd EXCEPT ![p] = r], Goto(p, l), UNCHANGED <<lock, published>>,
           Sound(r, l, published)
    PROVE  AtType' /\ CmdType' /\ CmdInv'
<1>1. /\ published' = published /\ published' \subseteq Chain /\ lock' \in Cmd \cup {"free"}
      /\ l \in Places /\ l \notin {"written", "opened"}
  BY DEF EInv, AtType, Places
<1> HIDE DEF Sound
<1> QED
  BY <1>1, CommandMoves DEF Goto

(* A merge gathers what it will publish.                                    *)
LEMMA GatherKeeps ==
    ASSUME EInv, NEW p \in Cmd,
           (\E kind : GatherReads(p, kind)) \/ Gather(p) \/ (\E c \in Chain : GatherChain(p, c))
    PROVE  EInv'
<1>1. UNCHANGED <<row, jobs, view, lock, published>>
  BY DEF GatherReads, Gather, GatherChain
<1>2. RowType' /\ NoRowInv' /\ JobsType' /\ ViewType'
  BY <1>1, RowStays DEF EInv, JobsType, ViewType, jobs
<1>3. cmd[p] \in Record9 /\ Sound(cmd[p], at[p], published)
  BY DEF EInv, CmdType, CmdInv
<1>4. ASSUME NEW kind, GatherReads(p, kind) PROVE AtType' /\ CmdType' /\ CmdInv'
  <2> DEFINE cur == IF kind = "chain" \/ epic = "none" THEN "open" ELSE epic
             r == [cmd[p] EXCEPT !.kind = kind, !.chains = members, !.cur = cur]
  <2>1. /\ kind \in {"merge", "pr", "chain"} /\ (kind # "chain" => epic \notin Final)
        /\ at[p] = "idle" /\ Goto(p, "gather")
    BY <1>4 DEF GatherReads
  <2>2. cur \in EpicState \ Final /\ members \in SUBSET Chain
    BY <2>1 DEF EInv, RowType, RowStates, EpicState, Final
  <2>3. cmd' = [cmd EXCEPT ![p] = r]
    BY <1>4 DEF GatherReads
  <2> HIDE DEF cur
  <2>4. kind \in AllKinds
    BY <2>1 DEF AllKinds
  <2>5. r \in Record9
    BY <1>3, <2>2, <2>4, RememberedMembers
  <2>6. r.todo = cmd[p].todo /\ r.targets = cmd[p].targets /\ r.kind = kind
    BY <1>3 DEF Record9
  <2> HIDE DEF r
  <2>7. Sound(r, "gather", published)
    BY <1>3, <2>1, <2>6 DEF Sound, Publishers, Syncing, Guarding
  <2> QED
    BY <1>1, <2>1, <2>3, <2>5, <2>7, GatherGoesOn
<1>5. ASSUME Gather(p) PROVE AtType' /\ CmdType' /\ CmdInv'
  <2>1. CASE Over(p)
    BY <1>1, <2>1, CommandOver DEF EInv, AtType
  <2>2. CASE ~Over(p)
    <3> DEFINE t == Targets(p)
               r == [cmd[p] EXCEPT !.chains = {}, !.targets = t, !.todo = t]
    <3>1. t # {} /\ Goto(p, "publish") /\ at[p] = "gather" /\ cmd' = [cmd EXCEPT ![p] = r]
      BY <1>5, <2>2 DEF Gather, Mergeable
    <3>2. t \in SUBSET Chain
      BY <1>3 DEF Targets, Record9
    <3> HIDE DEF t
    <3>3. r \in Record9
      BY <1>3, <3>2, RememberedPlan DEF AllKinds
    <3>4. r.todo = t /\ r.targets = t /\ r.kind = cmd[p].kind
      BY <1>3 DEF Record9
    <3> HIDE DEF r
    <3>5. Sound(r, "publish", published)
      BY <1>3, <3>1, <3>4 DEF Sound, Publishers, Syncing, Guarding
    <3> QED
      BY <1>1, <3>1, <3>3, <3>5, GatherGoesOn
  <2> QED
    BY <2>1, <2>2
<1>6. ASSUME NEW c \in Chain, GatherChain(p, c) PROVE AtType' /\ CmdType' /\ CmdInv'
  <2> DEFINE r == [cmd[p] EXCEPT !.kind = "chain", !.targets = {c}, !.todo = {c}]
  <2>1. cmd' = [cmd EXCEPT ![p] = r] /\ Goto(p, "guard")
    BY <1>6 DEF GatherChain
  <2>2. r \in Record9
    <3>1. {c} \in SUBSET Chain /\ "chain" \in AllKinds
      BY DEF AllKinds
    <3> QED
      BY <1>3, <3>1, RememberedPlan
  <2>3. r.todo = {c} /\ r.targets = {c} /\ r.kind = "chain"
    BY <1>3 DEF Record9
  <2> HIDE DEF r
  <2>4. Sound(r, "guard", published)
    BY <2>3 DEF Sound, Publishers, Syncing, Guarding
  <2> QED
    BY <1>1, <2>1, <2>2, <2>4, GatherGoesOn
<1>7. AtType' /\ CmdType' /\ CmdInv'
  BY <1>4, <1>5, <1>6
<1> QED
  BY <1>2, <1>7 DEF EInv

(* The guard of a chain keeps the invariant.                                *)
LEMMA GuardKeeps ==
    ASSUME EInv, NEW p \in Cmd, GuardReads(p) \/ GuardLoads(p) \/ GuardJudges(p)
    PROVE  EInv'
<1>0. cmd[p] \in Record9 /\ Sound(cmd[p], at[p], published) /\ p \in Actor
  BY DEF EInv, CmdType, CmdInv, Actor
<1>1. UNCHANGED <<row, jobs, lock, published>> /\ at[p] \in Guarding
  BY DEF GuardReads, GuardLoads, GuardJudges, Guarding
<1>2. JobsType' /\ cmd[p].kind = "chain"
  BY <1>0, <1>1 DEF EInv, JobsType, jobs, Sound
<1>3. ASSUME NEW l \in {"weigh", "judge", "publish"}, Goto(p, l), cmd' = cmd
      PROVE  AtType' /\ CmdType' /\ CmdInv'
  <2>1. Sound(cmd[p], l, published)
    BY <1>0, <1>2, <1>3 DEF Sound, Publishers, Syncing, Guarding
  <2>2. /\ published' = published /\ published' \subseteq Chain /\ lock' \in Cmd \cup {"free"}
        /\ l \in Places \ {"written", "opened"}
    BY <1>1 DEF EInv, AtType, Places
  <2> QED
    BY <1>3, <2>1, <2>2, CommandWalks
<1>4. CASE GuardReads(p)
  <2>1. view' = view /\ cmd' = cmd /\ \E l \in {"weigh", "publish"} : Goto(p, l)
    BY <1>4 DEF GuardReads
  <2>2. RowType' /\ NoRowInv' /\ ViewType'
    BY <1>1, <2>1, RowStays DEF EInv, ViewType
  <2> QED
    BY <1>2, <1>3, <2>1, <2>2 DEF EInv
<1>5. CASE GuardLoads(p)
  <2> DEFINE w == [view[p] EXCEPT !.rows = job]
  <2>1. view' = [view EXCEPT ![p] = w] /\ cmd' = cmd /\ Goto(p, "judge")
    BY <1>5 DEF GuardLoads
  <2>2. w \in View3 /\ w.persisted = view[p].persisted
    BY <1>0 DEF EInv, ViewType, JobsType, View3
  <2> HIDE DEF w
  <2>3. RowType' /\ NoRowInv' /\ ViewType'
    BY <1>0, <1>1, <2>1, <2>2, ViewMoves
  <2> QED
    BY <1>2, <1>3, <2>1, <2>3 DEF EInv
<1>6. CASE GuardJudges(p)
  <2>1. view' = [view EXCEPT ![p] = NoView]
    BY <1>6 DEF GuardJudges
  <2>2. RowType' /\ NoRowInv' /\ ViewType'
    BY <1>0, <1>1, <2>1, NoViewType, ViewMoves
  <2>3. CASE Goto(p, "publish") /\ cmd' = cmd
    BY <1>2, <1>3, <2>2, <2>3 DEF EInv
  <2>4. CASE Over(p)
    <3>1. AtType' /\ CmdType' /\ CmdInv'
      BY <1>1, <2>4, CommandOver DEF EInv, AtType
    <3> QED
      BY <1>2, <2>2, <3>1 DEF EInv
  <2> QED
    BY <1>6, <2>3, <2>4 DEF GuardJudges
<1> QED
  BY <1>4, <1>5, <1>6

(* Publishing one chain after the other keeps the invariant.                *)
LEMMA PublishKeeps ==
    ASSUME EInv, NEW p \in Cmd,
           (\E c \in Chain : PublishSkips(p, c) \/ Publish(p, c)) \/ GatePasses(p)
    PROVE  EInv'
<1>0. cmd[p] \in Record9 /\ Sound(cmd[p], at[p], published) /\ published \subseteq Chain
  BY DEF EInv, CmdType, CmdInv, AtType
<1>1. UNCHANGED <<row, jobs, view, lock>> /\ at[p] \in {"publish", "gate"}
  BY DEF PublishSkips, Publish, GatePasses
<1>2. RowType' /\ NoRowInv' /\ JobsType' /\ ViewType'
  BY <1>1, RowStays DEF EInv, JobsType, ViewType, jobs
<1>3. cmd[p].kind \in Publishers /\ cmd[p].todo \subseteq Chain
  BY <1>0, <1>1 DEF Sound, Record9
<1>4. lock' \in Cmd \cup {"free"} /\ {"publish", "gate", "read"} \subseteq Places
  BY <1>1 DEF EInv, AtType, Places
<1>5. ASSUME NEW c \in Chain, PublishSkips(p, c) PROVE AtType' /\ CmdType' /\ CmdInv'
  <2> DEFINE r == [cmd[p] EXCEPT !.todo = cmd[p].todo \ {c}]
  <2>1. /\ cmd' = [cmd EXCEPT ![p] = r] /\ at[p] = "publish" /\ UNCHANGED <<at, published>>
        /\ c \in published
    BY <1>5 DEF PublishSkips, Forget
  <2>2. r \in Record9
    <3>1. cmd[p].todo \ {c} \in SUBSET Chain
      BY <1>3
    <3> QED
      BY <1>0, <3>1, Remembered
  <2>3. r.todo = cmd[p].todo \ {c} /\ r.targets = cmd[p].targets /\ r.kind = cmd[p].kind
    BY <1>0 DEF Record9
  <2> HIDE DEF r
  <2>4. Sound(r, "publish", published)
    BY <1>0, <1>3, <2>1, <2>3 DEF Sound, Syncing, Guarding
  <2>5. at' = [at EXCEPT ![p] = "publish"]
    BY <2>1 DEF EInv, AtType, Actor
  <2> QED
    BY <1>0, <1>4, <2>1, <2>2, <2>4, <2>5, CommandMoves
<1>6. ASSUME NEW c \in Chain, Publish(p, c) PROVE AtType' /\ CmdType' /\ CmdInv'
  <2> DEFINE r == [cmd[p] EXCEPT !.todo = cmd[p].todo \ {c}, !.last = {c}]
  <2>1. /\ cmd' = [cmd EXCEPT ![p] = r] /\ Goto(p, "gate")
        /\ published' = IF cmd[p].kind = "pr" THEN published ELSE published \cup {c}
    BY <1>6 DEF Publish
  <2>2. r \in Record9
    <3>1. cmd[p].todo \ {c} \in SUBSET Chain /\ {c} \in SUBSET Chain
      BY <1>3
    <3> QED
      BY <1>0, <3>1, RememberedTwo
  <2>3. r.todo = cmd[p].todo \ {c} /\ r.targets = cmd[p].targets /\ r.kind = cmd[p].kind
    BY <1>0 DEF Record9
  <2> HIDE DEF r
  <2>4. at[p] = "publish"
    BY <1>6 DEF Publish
  <2>6. Sound(r, "gate", published')
    BY <1>0, <1>3, <2>1, <2>3, <2>4 DEF Sound, Syncing, Guarding
  <2>5. published \subseteq published' /\ published' \subseteq Chain
    BY <1>0, <2>1
  <2> QED
    BY <1>4, <2>1, <2>2, <2>5, <2>6, CommandMoves DEF Goto
<1>7. ASSUME GatePasses(p) PROVE AtType' /\ CmdType' /\ CmdInv'
  <2> DEFINE r == [cmd[p] EXCEPT !.last = {}]
  <2>1. cmd' = [cmd EXCEPT ![p] = r] /\ published' = published
    BY <1>7 DEF GatePasses
  <2>2. PICK l \in {"read", "publish"} : Goto(p, l)
    BY <1>7 DEF GatePasses
  <2>3. r \in Record9
    BY <1>0, Remembered
  <2>4. r.todo = cmd[p].todo /\ r.targets = cmd[p].targets /\ r.kind = cmd[p].kind
    BY <1>0 DEF Record9
  <2> HIDE DEF r
  <2>5. Sound(r, l, published)
    BY <1>0, <1>1, <1>3, <2>4 DEF Sound, Syncing, Guarding
  <2> QED
    BY <1>0, <1>4, <2>1, <2>2, <2>3, <2>5, CommandMoves DEF Goto
<1>8. AtType' /\ CmdType' /\ CmdInv'
  BY <1>5, <1>6, <1>7
<1> QED
  BY <1>2, <1>8 DEF EInv

(* The catch block and the end of a command keep the invariant.             *)
LEMMA OverKeeps ==
    ASSUME EInv, NEW p \in Cmd, PublishFails(p) \/ GateFails(p) \/ Record(p) \/ ChainDone(p)
    PROVE  EInv'
<1>0. cmd[p] \in Record9
  BY DEF EInv, CmdType
<1>1. /\ Over(p) /\ UNCHANGED <<members, jobs, view, lock, published>>
      /\ \/ UNCHANGED <<epic, redirect>>
         \/ PutEpic("failed")
         \/ PutEpic(RecordState(p))
  BY DEF PublishFails, GateFails, Record, ChainDone, Catch, row
<1>2. JobsType' /\ ViewType'
  BY <1>1 DEF EInv, JobsType, ViewType, jobs
<1>3. AtType' /\ CmdType' /\ CmdInv'
  BY <1>1, CommandOver DEF EInv, AtType
<1>4. RowType' /\ NoRowInv'
  <2>1. "failed" \in EpicState /\ RecordState(p) \in EpicState
    BY <1>0 DEF RecordState, EpicState, Record9
  <2>2. members' \subseteq Chain
    BY <1>1 DEF EInv, RowType
  <2>3. CASE UNCHANGED <<epic, redirect>>
    BY <1>1, <2>3 DEF EInv, RowType, NoRowInv
  <2> QED
    BY <1>1, <2>1, <2>2, <2>3, PutFacts
<1> QED
  BY <1>2, <1>3, <1>4 DEF EInv

(* A crash keeps the invariant.                                             *)
LEMMA CrashKeeps ==
    ASSUME EInv, NEW a \in Actor, Crash(a)
    PROVE  EInv'
<1>1. /\ Goto(a, "dead") /\ live' = live \ {a} /\ view' = [view EXCEPT ![a] = NoView]
      /\ cmd' = [p \in Cmd |-> IF p = a THEN NoCmd ELSE cmd[p]]
      /\ UNCHANGED <<row, job, verdict, lock, published>>
  BY DEF Crash
<1>2. JobsType'
  BY <1>1 DEF EInv, JobsType
<1>3. NoView \in View3 /\ NoView.persisted = "open"
  BY NoViewType
<1>4. ViewType' /\ \A b \in Actor : view'[b].persisted \in {view[b].persisted, "open"}
  BY <1>1, <1>3 DEF EInv, ViewType
<1>5. RowType' /\ NoRowInv'
  BY <1>1, <1>4 DEF EInv, RowType, NoRowInv, row
<1>6. AtType'
  BY <1>1 DEF EInv, AtType, Goto, Places, Actor
<1>7. CmdType'
  BY <1>1, NothingKept DEF EInv, CmdType
<1>8. CmdInv'
  <2> SUFFICES ASSUME NEW q \in Cmd PROVE Sound(cmd'[q], at'[q], published')
    BY DEF CmdInv
  <2>1. published \in SUBSET Chain /\ published' = published
    BY <1>1 DEF EInv, AtType
  <2>2. CASE q = a
    <3>1. cmd'[q] = NoCmd /\ at'[q] = "dead"
      BY <1>1, <2>2 DEF EInv, AtType, Goto
    <3> QED
      BY <2>1, <3>1, NothingKept
  <2>3. CASE q # a
    <3>1. cmd'[q] = cmd[q] /\ at'[q] = at[q]
      BY <1>1, <2>3 DEF EInv, AtType, Goto, Actor
    <3> QED
      BY <2>1, <3>1 DEF EInv, CmdInv
  <2> QED
    BY <2>2, <2>3
<1> QED
  BY <1>2, <1>4, <1>5, <1>6, <1>7, <1>8 DEF EInv

(* The epic starts from nothing, or from what was left of it.               *)
LEMMA InitEInv == Init => EInv
<1> SUFFICES ASSUME Init PROVE EInv
  OBVIOUS
<1>1. Past \subseteq Job /\ \A j \in Past : ChainOf[j] \in Chain
  BY EpicAssumption DEF Past
<1>2. members \subseteq Chain /\ published \subseteq Chain
  BY <1>1, EpicAssumption DEF Init
<1>3. Readiness(job) \in Readied
  BY ReadinessType
<1>4. NextState("open", Readiness(job)) \in EpicState
  BY <1>3, NextStateFacts DEF EpicState
<1>5. redirect \in BOOLEAN
  BY DEF Init
<1>6. epic \in RowStates /\ (epic = "none" => members = {} /\ ~redirect)
  <2> HIDE DEF NextState, Readiness
  <2>1. NextState("open", Readiness(job)) # "none"
    BY <1>4 DEF EpicState
  <2> QED
    BY <1>4, <2>1 DEF Init, RowStates, EpicState
<1>7. NoView \in View3 /\ NoView.persisted = "open"
  BY NoViewType
<1>8. view = [a \in Actor |-> NoView]
  BY DEF Init
<1>9. RowType /\ ViewType /\ NoRowInv
  BY <1>2, <1>5, <1>6, <1>7, <1>8 DEF RowType, ViewType, NoRowInv
<1>10. JobsType
  BY DEF Init, JobsType, JobState
<1>11. at = [a \in Actor |-> IF a \in Past THEN "over" ELSE "idle"]
  BY DEF Init
<1>12. AtType
  BY <1>2, <1>11 DEF Init, AtType, Places, Actor
<1>13. CmdType /\ CmdInv
  <2>1. cmd = [p \in Cmd |-> NoCmd]
    BY DEF Init
  <2>2. NoCmd \in Record9
    BY NothingKept
  <2>3. \A p \in Cmd : Sound(NoCmd, at[p], published)
    BY <1>11 DEF Sound, NoCmd, Actor, Syncing, Guarding
  <2> QED
    BY <2>1, <2>2, <2>3 DEF CmdType, CmdInv
<1> QED
  BY <1>9, <1>10, <1>12, <1>13 DEF EInv

(* Every step keeps the parts.                                              *)
LEMMA EInvStep == EInv /\ OpenedInv /\ [Next]_vars => EInv'
<1> SUFFICES ASSUME EInv, OpenedInv, [Next]_vars PROVE EInv'
  OBVIOUS
<1>1. ASSUME NEW p \in Cmd, Command(p) PROVE EInv'
  <2>1. CASE \E kind \in {"sync", "abandon", "force"} : Lock(p, kind)
    BY <2>1, LockKeeps
  <2>2. CASE \/ \E kind \in {"merge", "pr", "chain"} : GatherReads(p, kind)
             \/ \E c \in Chain : GatherChain(p, c)
    BY <2>2, GatherKeeps
  <2>3. CASE \/ Unlock(p) \/ AbandonReads(p) \/ AbandonLooks(p) \/ AbandonWrites(p)
             \/ SyncReads(p) \/ SyncScans(p) \/ SyncFinds(p)
             \/ (\E j \in Job : SyncMarks(p, j)) \/ SyncPrunes(p)
    BY <2>3, AbandonKeeps, SyncReadsKeeps, SyncRepairsKeeps
  <2>4. CASE \/ Loads(p) \/ SyncWrites(p) \/ SyncClears(p)
             \/ Gather(p) \/ GuardReads(p) \/ GuardLoads(p) \/ GuardJudges(p)
    BY <2>4, SyncWritesKeeps, GatherKeeps, GuardKeeps
  <2>5. CASE \/ \E c \in Chain : PublishSkips(p, c) \/ Publish(p, c)
             \/ PublishFails(p) \/ GateFails(p) \/ GatePasses(p) \/ Record(p) \/ ChainDone(p)
    BY <2>5, PublishKeeps, OverKeeps
  <2> QED
    BY <1>1, <2>1, <2>2, <2>3, <2>4, <2>5 DEF Command, Proceed
<1>2. CASE UNCHANGED vars
  BY <1>2 DEF vars, row, jobs, EInv, RowType, JobsType, AtType, ViewType, CmdType, NoRowInv, CmdInv
<1> QED
  BY <1>1, <1>2, SuperviseKeeps, ViewKeeps, CrashKeeps DEF Next

-----------------------------------------------------------------------------
(* The theorems                                                            *)

(* The parts together are the type invariant.                               *)
LEMMA TypeParts == EInv => EpicTypeOK
<1> SUFFICES ASSUME EInv PROVE EpicTypeOK
  OBVIOUS
<1>1. \A p \in Cmd : cmd[p].todo \subseteq cmd[p].targets /\ cmd[p].targets \subseteq Chain
  BY DEF EInv, CmdType, CmdInv, Sound, Record9
<1>2. epic = "none" => members = {} /\ ~redirect
  BY DEF EInv, NoRowInv
<1> QED
  BY <1>1, <1>2 DEF EInv, EpicTypeOK, RowType, RowStates, JobsType, AtType, ViewType, View3, Readied

(* Who writes the row, and over what.                                       *)
LEMMA RowWriters ==
    ASSUME EInv, [Next]_vars, epic' # epic
    PROVE  \/ \E j \in Job : at[j] = "written" /\ epic' = "open"
           \/ \E a \in Actor : /\ at[a] = "sync" /\ WriteReadiness(a)
                               /\ UNCHANGED members
           \/ \E p \in Cmd : \/ at[p] = "abandon" /\ epic' = "abandoned"
                             \/ at[p] = "clear" /\ epic' = cmd[p].old
                             \/ /\ at[p] \in {"publish", "gate"} /\ epic' = "failed"
                                /\ CanTransition(cmd[p].cur, "failed")
                             \/ at[p] = "publish" /\ cmd[p].todo = {} /\ cmd[p].kind # "chain"
                                /\ epic' = RecordState(p)
<1>0. ASSUME NEW a \in Actor, Loads(a) PROVE FALSE
  BY <1>0 DEF Loads, LoadJobs, LoadRow, LoadChains, row
<1>1. ASSUME NEW j \in Job, Supervise(j)
      PROVE  \/ at[j] = "written" /\ epic' = "open"
             \/ at[j] = "sync" /\ WriteReadiness(j) /\ UNCHANGED members
  BY <1>0, <1>1 DEF Supervise, Start, Touch, Reopen, Join, SyncAfterJoin, Finish, Cancel,
              PutEpic, row, Actor
<1>2. ASSUME NEW v \in Viewer, View(v)
      PROVE  at[v] = "sync" /\ WriteReadiness(v) /\ UNCHANGED members
  BY <1>0, <1>2 DEF View, Look, LookSyncs, row, Actor
<1>3. ASSUME NEW p \in Cmd, Command(p)
      PROVE  \/ at[p] = "sync" /\ WriteReadiness(p) /\ UNCHANGED members
             \/ at[p] = "abandon" /\ epic' = "abandoned"
             \/ at[p] = "clear" /\ epic' = cmd[p].old
             \/ /\ at[p] \in {"publish", "gate"} /\ epic' = "failed"
                /\ CanTransition(cmd[p].cur, "failed")
             \/ at[p] = "publish" /\ cmd[p].todo = {} /\ cmd[p].kind # "chain"
                /\ epic' = RecordState(p)
  <2>1. CASE SyncWrites(p) \/ SyncClears(p) \/ AbandonWrites(p)
    BY <2>1 DEF SyncWrites, SyncClears, AbandonWrites, PutEpic
  <2>2. CASE PublishFails(p) \/ GateFails(p) \/ Record(p)
    BY <2>2 DEF PublishFails, GateFails, Record, Catch, PutEpic
  <2>3. CASE Unlock(p) \/ AbandonReads(p) \/ AbandonLooks(p)
    BY <2>3 DEF Unlock, AbandonReads, AbandonLooks, row
  <2>4. CASE \/ SyncReads(p) \/ SyncScans(p) \/ SyncFinds(p)
             \/ (\E j \in Job : SyncMarks(p, j)) \/ SyncPrunes(p)
    BY <2>4 DEF SyncReads, SyncScans, SyncFinds, SyncMarks, SyncPrunes, row
  <2>5. CASE Loads(p) \/ Gather(p) \/ GuardReads(p) \/ GuardLoads(p) \/ GuardJudges(p)
    BY <1>0, <2>5 DEF Gather, GuardReads, GuardLoads, GuardJudges, row, Actor
  <2>6. CASE (\E c \in Chain : PublishSkips(p, c) \/ Publish(p, c)) \/ GatePasses(p) \/ ChainDone(p)
    BY <2>6 DEF PublishSkips, Publish, GatePasses, ChainDone, row
  <2>7. CASE (\E k : Lock(p, k) \/ GatherReads(p, k)) \/ (\E c \in Chain : GatherChain(p, c))
    BY <2>7 DEF Lock, GatherReads, GatherChain, row
  <2> QED
    BY <1>3, <2>1, <2>2, <2>3, <2>4, <2>5, <2>6, <2>7 DEF Command, Proceed
<1>4. CASE UNCHANGED vars \/ \E a \in Actor : Crash(a)
  BY <1>4 DEF vars, row, Crash
<1> QED
  BY <1>1, <1>2, <1>3, <1>4 DEF Next, Actor

(* A row is never taken away.                                               *)
LEMMA RowRemains ==
    ASSUME EInv, [Next]_vars, epic # "none"
    PROVE  epic' # "none"
<1>1. ASSUME NEW a \in Actor, WriteReadiness(a) PROVE epic' # "none"
  <2>1. view[a].persisted \in EpicState /\ view[a].ready \in Readied
    BY DEF EInv, ViewType, View3
  <2>2. NextState(view[a].persisted, view[a].ready) \in EpicState
    BY <2>1, NextStateFacts
  <2> QED
    BY <1>1, <2>2 DEF WriteReadiness, PutEpic, EpicState
<1>2. ASSUME NEW p \in Cmd PROVE /\ at[p] = "clear" => cmd[p].old # "none"
                                 /\ RecordState(p) # "none"
  <2>1. cmd[p] \in Record9 /\ Sound(cmd[p], at[p], published)
    BY DEF EInv, CmdType, CmdInv
  <2> QED
    BY <2>1 DEF Sound, RecordState, Record9, EpicState
<1> QED
  BY <1>1, <1>2, RowWriters

(* Nobody is about to add a member before the epic is opened.               *)
LEMMA OpenedStep == EInv /\ OpenedInv /\ [Next]_vars => OpenedInv'
<1> SUFFICES ASSUME EInv, OpenedInv, [Next]_vars PROVE OpenedInv'
  OBVIOUS
<1>1. epic # "none" => epic' # "none"
  BY RowRemains
<1>2. ASSUME NEW j \in Job, Reopen(j) PROVE epic' # "none"
  BY <1>2 DEF Reopen, PutEpic
<1>3. ASSUME NEW j \in Job, at'[j] = "opened", at[j] # "opened", epic' = "none" PROVE FALSE
  <2>0. ASSUME NEW a \in Actor, NEW l, Goto(a, l), l # "opened" PROVE FALSE
    BY <1>3, <2>0 DEF Goto, EInv, AtType, Actor
  <2>1. at' # at
    BY <1>3
  <2>2. ASSUME NEW k \in Job, Supervise(k) PROVE FALSE
    <3>1. k \in Actor
      BY DEF Actor
    <3>2. CASE Loads(k)
      BY <2>0, <3>1, <3>2, LoadFacts
    <3>3. CASE Reopen(k)
      BY <1>2, <1>3, <3>3
    <3>4. CASE Start(k) \/ Touch(k) \/ Join(k) \/ SyncAfterJoin(k) \/ Finish(k) \/ Cancel(k)
      BY <2>0, <3>1, <3>4 DEF Start, Touch, Join, SyncAfterJoin, Finish, Cancel
    <3> QED
      BY <2>2, <3>2, <3>3, <3>4 DEF Supervise
  <2>3. ASSUME NEW v \in Viewer, View(v) PROVE FALSE
    <3>1. v \in Actor
      BY DEF Actor
    <3>2. CASE Loads(v)
      BY <2>0, <3>1, <3>2, LoadFacts
    <3>3. CASE Look(v) \/ LookSyncs(v)
      BY <2>0, <3>1, <3>3 DEF Look, LookSyncs
    <3> QED
      BY <2>3, <3>2, <3>3 DEF View
  <2>4. ASSUME NEW p \in Cmd, Command(p) PROVE FALSE
    <3>1. j \in Actor /\ j \notin Cmd /\ p \in Actor
      BY EpicAssumption DEF Actor
    <3>2. CASE Loads(p)
      BY <2>0, <3>1, <3>2, LoadFacts
    <3>3. CASE \/ \E kind \in {"sync", "abandon", "force"} : Lock(p, kind)
               \/ \E kind \in {"merge", "pr", "chain"} : GatherReads(p, kind)
               \/ \E c \in Chain : GatherChain(p, c)
      BY <2>0, <3>1, <3>3 DEF Lock, Over, GatherReads, GatherChain
    <3>4. CASE Unlock(p) \/ AbandonReads(p) \/ AbandonLooks(p) \/ AbandonWrites(p)
      BY <2>0, <3>1, <3>4 DEF Unlock, Over, AbandonReads, AbandonLooks, AbandonWrites
    <3>5. CASE \/ SyncReads(p) \/ SyncScans(p) \/ SyncFinds(p)
               \/ (\E k \in Job : SyncMarks(p, k)) \/ SyncPrunes(p)
      BY <2>0, <2>1, <3>1, <3>5 DEF SyncReads, SyncScans, SyncFinds, SyncMarks, SyncPrunes
    <3>6. CASE SyncWrites(p) \/ SyncClears(p)
      BY <2>0, <3>1, <3>6 DEF SyncWrites, SyncClears, SyncReturns
    <3>7. CASE Gather(p) \/ GuardReads(p) \/ GuardLoads(p) \/ GuardJudges(p)
      BY <2>0, <3>1, <3>7 DEF Gather, GuardReads, GuardLoads, GuardJudges, Over
    <3>8. CASE (\E c \in Chain : PublishSkips(p, c) \/ Publish(p, c)) \/ GatePasses(p)
      BY <2>0, <2>1, <3>1, <3>8 DEF PublishSkips, Publish, GatePasses
    <3>9. CASE PublishFails(p) \/ GateFails(p) \/ Record(p) \/ ChainDone(p)
      BY <2>0, <3>1, <3>9 DEF PublishFails, GateFails, Record, ChainDone, Catch, Over
    <3> QED
      BY <2>4, <3>2, <3>3, <3>4, <3>5, <3>6, <3>7, <3>8, <3>9 DEF Command, Proceed
  <2>5. CASE \E a \in Actor : Crash(a)
    BY <2>0, <2>5 DEF Crash
  <2>6. CASE UNCHANGED vars
    BY <2>1, <2>6 DEF vars
  <2> QED
    BY <2>2, <2>3, <2>4, <2>5, <2>6 DEF Next
<1> QED
  BY <1>1, <1>3 DEF OpenedInv

(* EInv holds in every state of the system.                                 *)
LEMMA AlwaysEInv == Spec => []EInv
<1>1. Init => EInv
  BY InitEInv
<1>2. Init => OpenedInv
  BY DEF Init, OpenedInv, Actor
<1>3. EInv /\ OpenedInv /\ [Next]_vars => EInv' /\ OpenedInv'
  BY EInvStep, OpenedStep
<1> QED
  BY <1>1, <1>2, <1>3, PTL DEF Spec

(* The variables of the epic stay in their types, a command never plans to   *)
(* publish what it has not gathered, and without a row nothing is known of   *)
(* the epic (epic-readiness.ts, cli/epic.ts, cli/merge.ts).                  *)
THEOREM EpicTypeCorrect == Spec => []EpicTypeOK
BY AlwaysEInv, TypeParts, PTL

(* An epic becomes merged only when all the chains that the merge gathered    *)
(* are in the main branch, whatever failed, was skipped or was synced in      *)
(* between; or when a row that said merged is written back.                   *)
THEOREM MergedOnlyPublished == Spec => MergedIsPublished
<1>1. ASSUME EInv, [Next]_vars, epic # "merged", epic' = "merged"
      PROVE  \E p \in Cmd : \/ /\ at[p] = "publish" /\ cmd[p].targets # {}
                               /\ cmd[p].targets \subseteq published
                            \/ at[p] = "clear" /\ cmd[p].old = "merged"
  <2>1. ASSUME NEW a \in Actor, WriteReadiness(a), UNCHANGED members PROVE FALSE
    BY <1>1, <2>1, WriteReadinessFacts
  <2>2. ASSUME NEW p \in Cmd, at[p] = "publish", cmd[p].todo = {}, cmd[p].kind # "chain",
               epic' = RecordState(p)
        PROVE  cmd[p].targets # {} /\ cmd[p].targets \subseteq published
    <3>1. cmd[p] \in Record9 /\ Sound(cmd[p], "publish", published)
      BY <1>1, <2>2 DEF EInv, CmdType, CmdInv
    <3>2. cmd[p].cur # "merged"
      BY <3>1 DEF Record9, Final
    <3>3. cmd[p].kind # "pr"
      BY <1>1, <2>2, <3>2 DEF RecordState
    <3> QED
      BY <2>2, <3>1, <3>3 DEF Sound, Publishers
  <2> QED
    BY <1>1, <2>1, <2>2, RowWriters
<1>2. EInv /\ [Next]_vars =>
        [(epic # "merged" /\ epic' = "merged") =>
          \E p \in Cmd :
             \/ /\ at[p] = "publish" /\ cmd[p].targets # {}
                /\ cmd[p].targets \subseteq published
             \/ at[p] = "clear" /\ cmd[p].old = "merged"]_vars
  BY <1>1
<1> QED
  BY <1>2, AlwaysEInv, PTL DEF Spec, MergedIsPublished

(* A merged or abandoned epic is reopened only by a status write of a job,     *)
(* or by somebody who had read the row before it was final.                    *)
THEOREM FinalOnlyOutdated == Spec => FinalIsRespected
<1>1. ASSUME EInv, [Next]_vars, epic \in Final, epic' \notin Final
      PROVE  (\E j \in Job : at[j] = "written") \/ (\E a \in Actor : Outdated(a))
  <2>1. ASSUME NEW a \in Actor, at[a] = "sync", WriteReadiness(a), UNCHANGED members
        PROVE  Outdated(a)
    BY <1>1, <2>1, WriteReadinessFacts DEF Outdated
  <2>2. ASSUME NEW p \in Cmd
        PROVE  /\ p \in Actor
               /\ at[p] = "clear" /\ epic' = cmd[p].old => Outdated(p)
               /\ at[p] \in {"publish", "gate"} => Outdated(p)
    <3>1. cmd[p].cur \notin Final /\ p \in Actor
      BY <1>1 DEF EInv, CmdType, Record9, Actor
    <3> QED
      BY <1>1, <3>1 DEF Outdated
  <2>3. "abandoned" \in Final /\ epic' # epic
    BY <1>1 DEF Final
  <2> QED
    BY <1>1, <2>1, <2>2, <2>3, RowWriters
<1>2. EInv /\ [Next]_vars =>
        [(epic \in Final /\ epic' \notin Final) =>
            (\E j \in Job : at[j] = "written") \/ (\E a \in Actor : Outdated(a))]_vars
  BY <1>1
<1> QED
  BY <1>2, AlwaysEInv, PTL DEF Spec, FinalIsRespected

===============================================================================
