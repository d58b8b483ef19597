---------------------------- MODULE WriterMutex ----------------------------
(***************************************************************************)
(* What a workspace writer lease promises, with no files, processes or     *)
(* liveness probes: one owner at a time, writing only while owning, and a  *)
(* workspace whose owner is lost stays owned until somebody recovers it.   *)
(* WorkspaceLease and WorkspaceReconcile are shown to implement it.        *)
(***************************************************************************)
CONSTANTS Acts,       \* activations that may want to write
          NoOwner     \* the owner of a free workspace

VARIABLES owner,      \* the activation that owns the workspace, or NoOwner
          writing,    \* the activations with a mutating call in flight
          lost        \* TRUE when the owner's process is gone
avars == <<owner, writing, lost>>

Init == /\ owner = NoOwner
        /\ writing = {}
        /\ lost = FALSE

Take(a) == /\ owner = NoOwner
           /\ owner' = a
           /\ UNCHANGED <<writing, lost>>

\* An owner gives the workspace back only when it has no call in flight.
Give(a) == /\ owner = a /\ ~lost /\ a \notin writing
           /\ owner' = NoOwner
           /\ UNCHANGED <<writing, lost>>

Begin(a) == /\ owner = a /\ ~lost /\ a \notin writing
            /\ writing' = writing \cup {a}
            /\ UNCHANGED <<owner, lost>>

End(a) == /\ a \in writing
          /\ writing' = writing \ {a}
          /\ UNCHANGED <<owner, lost>>

\* The owner's process goes: its writes end, and the workspace stays owned.
Lose == /\ owner # NoOwner /\ ~lost
        /\ writing' = writing \ {owner}
        /\ lost' = TRUE
        /\ UNCHANGED owner

\* Recovery is the only way out of a lost workspace.
Recover == /\ lost
           /\ owner' = NoOwner
           /\ lost' = FALSE
           /\ UNCHANGED writing

Next == \/ \E a \in Acts : Take(a) \/ Give(a) \/ Begin(a) \/ End(a)
        \/ Lose
        \/ Recover

Spec == Init /\ [][Next]_avars

\* The same promise without a recovery authority: a lost workspace is never freed.
NoRecoverySpec == Init /\ [][Next /\ ~Recover]_avars
=============================================================================
