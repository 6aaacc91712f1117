--------------------------- MODULE SessionLifecycle ---------------------------
(***************************************************************************)
(* What the control plane promises a client of its HTTP API: a session is  *)
(* created only below the limit, passes from starting to ready and ends    *)
(* once, for good; it has viewers only while it is ready.                  *)
(***************************************************************************)
EXTENDS Integers, FiniteSets

CONSTANTS Session, MaxSessions

VARIABLES
    phase,     \* what GET /api/sessions/:id tells of each id
    viewers    \* sockets attached to each session

lifecycleVars == <<phase, viewers>>

Live == {s \in Session : phase[s] \in {"starting", "ready"}}

\* A session is admitted; one that cannot even start is gone at once.
Admit(s) ==
    /\ phase[s] = "absent"
    /\ Cardinality(Live) < MaxSessions
    /\ \E p \in {"starting", "gone"} : phase' = [phase EXCEPT ![s] = p]
    /\ UNCHANGED viewers

BecomeReady(s) ==
    /\ phase[s] = "starting"
    /\ phase' = [phase EXCEPT ![s] = "ready"]
    /\ UNCHANGED viewers

\* DELETE, a failed boot, or the reaper, which ends several at once.
End(S) ==
    /\ phase' = [s \in Session |-> IF s \in S THEN "gone" ELSE phase[s]]
    /\ viewers' = [s \in Session |-> IF s \in S THEN 0 ELSE viewers[s]]

Watch(s) ==
    /\ phase[s] = "ready"
    /\ viewers' = [viewers EXCEPT ![s] = @ + 1]
    /\ UNCHANGED phase

\* One viewer leaves, or the stream ends under all of them.
Unwatch(s) ==
    /\ viewers[s] > 0
    /\ \E n \in {0, viewers[s] - 1} : viewers' = [viewers EXCEPT ![s] = n]
    /\ UNCHANGED phase

Init ==
    /\ phase = [s \in Session |-> "absent"]
    /\ viewers = [s \in Session |-> 0]

Next ==
    \/ \E s \in Session : Admit(s)
    \/ \E s \in Session : BecomeReady(s)
    \/ \E S \in SUBSET Live : End(S)
    \/ \E s \in Session : Watch(s)
    \/ \E s \in Session : Unwatch(s)

Spec == Init /\ [][Next]_lifecycleVars
=============================================================================
