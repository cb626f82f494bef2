--------------------------- MODULE RunAuthorization ---------------------------
(***************************************************************************)
(* What the gateway promises the owner of a workspace, without handlers,   *)
(* transactions or a log: an action has its effect at most once, only      *)
(* between its authorisation and its settlement, and only in a run that is *)
(* open; a run closes only when everything it authorised is settled.       *)
(***************************************************************************)
EXTENDS Naturals

CONSTANTS Runs, NoRun, Actions

VARIABLES
    open,    \* the runs that accept and authorise actions
    closed,  \* the runs that never will again
    owner,   \* the run of an action, NoRun before the gateway has decided on it
    phase,   \* where the gateway's decision on an action stands
    done     \* how often an action's effect has happened

vars == <<open, closed, owner, phase, done>>

Phase == {"unseen", "held", "authorised", "refused", "succeeded", "failed"}

Init ==
    /\ open = {}
    /\ closed = {}
    /\ owner = [a \in Actions |-> NoRun]
    /\ phase = [a \in Actions |-> "unseen"]
    /\ done  = [a \in Actions |-> 0]

OpenRun(r) ==
    /\ r \notin open \cup closed
    /\ open' = open \cup {r}
    /\ UNCHANGED <<closed, owner, phase, done>>

CloseRun(r) ==
    /\ r \in open
    /\ \A a \in Actions : owner[a] = r => phase[a] # "authorised"
    /\ open'   = open \ {r}
    /\ closed' = closed \cup {r}
    /\ UNCHANGED <<owner, phase, done>>

\* The policy decides, alone.
Decide(a, r) ==
    /\ phase[a] = "unseen"
    /\ r \in open
    /\ owner' = [owner EXCEPT ![a] = r]
    /\ \E p \in {"held", "authorised", "refused"} : phase' = [phase EXCEPT ![a] = p]
    /\ UNCHANGED <<open, closed, done>>

\* A reviewer lets a held action go ahead.
Approve(a) ==
    /\ phase[a] = "held"
    /\ owner[a] \in open
    /\ phase' = [phase EXCEPT ![a] = "authorised"]
    /\ UNCHANGED <<open, closed, owner, done>>

\* A reviewer refuses, the agent gives up, or the time to answer is over,
\* perhaps for several actions at once and perhaps in a closed run.
Withdraw(S) ==
    /\ S # {}
    /\ \A a \in S : phase[a] = "held"
    /\ phase' = [a \in Actions |-> IF a \in S THEN "refused" ELSE phase[a]]
    /\ UNCHANGED <<open, closed, owner, done>>

Act(a) ==
    /\ phase[a] = "authorised"
    /\ done[a] = 0
    /\ done' = [done EXCEPT ![a] = 1]
    /\ UNCHANGED <<open, closed, owner, phase>>

\* The outcome is reported; a failed action may have acted or not.
Settle(a) ==
    /\ phase[a] = "authorised"
    /\ \E p \in {"succeeded", "failed"} :
         /\ p = "succeeded" => done[a] = 1
         /\ phase' = [phase EXCEPT ![a] = p]
    /\ UNCHANGED <<open, closed, owner, done>>

Next ==
    \/ \E r \in Runs : OpenRun(r) \/ CloseRun(r)
    \/ \E a \in Actions, r \in Runs : Decide(a, r)
    \/ \E a \in Actions : Approve(a) \/ Act(a) \/ Settle(a)
    \/ \E S \in SUBSET Actions : Withdraw(S)

Spec == Init /\ [][Next]_vars

=============================================================================
