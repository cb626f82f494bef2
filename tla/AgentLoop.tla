------------------------------ MODULE AgentLoop ------------------------------
(***************************************************************************)
(* The agent's side of a run (agent/loop.py, agent/tools.py): turns with   *)
(* the model provider, submissions to the gateway, the wait for a review   *)
(* and its end, and the closing of the run; beside the gateway, a          *)
(* reviewer, the gateway's sweep and an operator.                          *)
(*                                                                         *)
(* Every call of the gateway can fail for the agent, before or after it    *)
(* took effect.  An action is named by the count of tool calls.            *)
(***************************************************************************)
EXTENDS Integers

CONSTANTS
    MaxTurns,    \* max_turns
    MaxCalls,    \* max_tool_calls
    PerTurn,     \* bound on the tool calls of one answer
    WallClock,   \* wall_clock_timeout_s, from the start of the loop
    ReviewWait   \* approval_timeout_s

ASSUME LoopAssumption == {MaxTurns, MaxCalls, PerTurn, WallClock, ReviewWait} \subseteq Nat

VARIABLES
    elapsed,   \* the agent's monotonic clock, from the start of the loop
    agent,     \* the loop: its place, its counts and its result
    acts,      \* per call: the action at the gateway
    held,      \* the calls the gateway answered with HOLD
    told,      \* per call: what the model was told about it
    runStatus, \* the run's status
    stray      \* a completion the agent gave up on has yet to reach the gateway

loopVars == <<elapsed, agent, acts, held, told, runStatus, stray>>

Calls == 1 .. MaxCalls

Places == {"top", "asking", "tools", "submitting", "polling", "completing",
           "failing", "aborting", "ended"}

\* "arriving": the submission is audited and decided; "running": allowed or
\* approved, without a receipt yet.
ActStates == {"none", "arriving", "rejected", "refused", "pending", "running",
              "done", "denied", "expired"}

LoopTypeOK ==
    /\ elapsed \in 0 .. WallClock
    /\ agent \in [at : Places, turns : 0 .. MaxTurns, calls : 0 .. MaxCalls,
                  left : 0 .. PerTurn, since : 0 .. WallClock,
                  inFlight : BOOLEAN, result : {"none", "COMPLETED", "FAILED"}]
    /\ acts \in [Calls -> ActStates]
    /\ held \in SUBSET Calls
    /\ told \in [Calls -> {"nothing", "receipt", "DENIED", "TIMEOUT"}]
    /\ runStatus \in {"open", "COMPLETED", "FAILED", "gone"}
    /\ stray \in BOOLEAN

LoopInit ==
    /\ elapsed = 0
    /\ agent = [at |-> "top", turns |-> 0, calls |-> 0, left |-> 0, since |-> 0,
                inFlight |-> FALSE, result |-> "none"]
    /\ acts = [c \in Calls |-> "none"]
    /\ held = {}
    /\ told = [c \in Calls |-> "nothing"]
    /\ runStatus = "open"
    /\ stray = FALSE

TickLoop ==
    /\ elapsed < WallClock
    /\ elapsed' = elapsed + 1
    /\ UNCHANGED <<agent, acts, held, told, runStatus, stray>>

-----------------------------------------------------------------------------
(* The gateway, the reviewer and the operator. *)

HasInFlight == \E c \in Calls : acts[c] = "running"

ActMoves(c, to) ==
    /\ acts' = [acts EXCEPT ![c] = to]
    /\ UNCHANGED <<elapsed, agent, told, runStatus, stray>>

\* submit_action, whether the agent still waits for the answer or not.
DecideSubmission(c) ==
    /\ acts[c] = "arriving"
    /\ IF runStatus = "open"
       THEN \E to \in {"refused", "pending", "running"} :
              /\ ActMoves(c, to)
              /\ held' = IF to = "pending" THEN held \cup {c} ELSE held
       ELSE ActMoves(c, "rejected") /\ UNCHANGED held

FinishExecution(c) ==
    acts[c] = "running" /\ ActMoves(c, "done") /\ UNCHANGED held

Review(c) ==
    /\ acts[c] = "pending" /\ runStatus = "open"
    /\ \E to \in {"running", "denied"} : ActMoves(c, to)
    /\ UNCHANGED held

SweepExpires(c) ==
    acts[c] = "pending" /\ ActMoves(c, "expired") /\ UNCHANGED held

\* Somebody else closes the run, or resets the demo.
CloseByOther ==
    /\ runStatus # "gone" /\ ~HasInFlight
    /\ \E to \in {"COMPLETED", "FAILED", "gone"} : runStatus' = to
    /\ UNCHANGED <<elapsed, agent, acts, held, told, stray>>

\* The completion the agent no longer waits for takes the lock at last.
StrayCompletion ==
    /\ stray
    /\ stray' = FALSE
    /\ runStatus' = IF runStatus = "gone" \/ HasInFlight THEN runStatus ELSE "COMPLETED"
    /\ UNCHANGED <<elapsed, agent, acts, held, told>>

-----------------------------------------------------------------------------
(* The loop. *)

WallClockSpent == elapsed >= WallClock

Goes(to) == agent' = [agent EXCEPT !.at = to]

LoopOnly == UNCHANGED <<elapsed, acts, held, told, runStatus, stray>>

\* Any exception outside the two terminal posts.
Abort ==
    /\ agent.at \in {"asking", "submitting", "polling"}
    /\ Goes("aborting")
    /\ LoopOnly

StartTurn ==
    /\ agent.at = "top"
    /\ Goes(IF agent.turns >= MaxTurns \/ WallClockSpent THEN "failing" ELSE "asking")
    /\ LoopOnly

\* The provider's answer, with n tool calls; none means the task is done.
ProviderAnswers ==
    /\ agent.at = "asking"
    /\ \E n \in 0 .. PerTurn :
         agent' = [agent EXCEPT
           !.turns = @ + 1, !.left = n,
           !.at = IF WallClockSpent THEN "failing"
                  ELSE IF n = 0 THEN "completing" ELSE "tools"]
    /\ LoopOnly

EndTurn ==
    /\ agent.at = "tools" /\ agent.left = 0
    /\ Goes("top")
    /\ LoopOnly

RefuseCall ==
    /\ agent.at = "tools" /\ agent.left > 0
    /\ agent.calls >= MaxCalls \/ WallClockSpent
    /\ Goes("failing")
    /\ LoopOnly

Submit ==
    /\ agent.at = "tools" /\ agent.left > 0
    /\ agent.calls < MaxCalls /\ ~WallClockSpent
    /\ agent' = [agent EXCEPT !.at = "submitting", !.calls = @ + 1, !.left = @ - 1]
    /\ acts' = [acts EXCEPT ![agent.calls + 1] = "arriving"]
    /\ UNCHANGED <<elapsed, held, told, runStatus, stray>>

Current == agent.calls

\* The model is told about the current call and the loop goes on.
Tells(what) ==
    /\ told' = [told EXCEPT ![Current] = what]
    /\ Goes("tools")
    /\ UNCHANGED <<elapsed, held, runStatus, stray>>

AnsweredDirectly ==
    /\ agent.at = "submitting" /\ Current \notin held
    /\ \/ acts[Current] = "done" /\ Tells("receipt")
       \/ acts[Current] = "refused" /\ Tells("DENIED")
    /\ UNCHANGED acts

SubmissionRejected ==
    /\ agent.at = "submitting" /\ acts[Current] = "rejected"
    /\ Goes("aborting")
    /\ LoopOnly

AnsweredWithHold ==
    /\ agent.at = "submitting" /\ Current \in held
    /\ agent' = [agent EXCEPT !.at = "polling", !.since = elapsed, !.inFlight = FALSE]
    /\ LoopOnly

\* The wall clock ends the wait; the approval is expired if it still can be,
\* and whatever the gateway answers is ignored.
PollOutOfTime ==
    /\ agent.at = "polling" /\ WallClockSpent
    /\ Goes("failing")
    /\ \/ UNCHANGED acts
       \/ /\ acts[Current] = "pending" /\ runStatus # "gone"
          /\ acts' = [acts EXCEPT ![Current] = "expired"]
    /\ UNCHANGED <<elapsed, held, told, runStatus, stray>>

ReviewTimedOut == ~agent.inFlight /\ elapsed - agent.since >= ReviewWait

FinalStatus == IF acts[Current] = "pending" THEN "expired" ELSE acts[Current]

\* Mutant of ExpireApproval: a last look at the approval instead of the expiry.
LastLook == UNCHANGED acts

\* The gateway expires a pending approval under its lock, or answers with the
\* review that took the lock before.
ExpireApproval == acts' = [acts EXCEPT ![Current] = FinalStatus]

EndReviewWait ==
    /\ agent.at = "polling" /\ ~WallClockSpent /\ ReviewTimedOut /\ runStatus # "gone"
    /\ ExpireApproval
    /\ CASE FinalStatus = "expired" -> Tells("TIMEOUT")
         [] FinalStatus = "denied" -> Tells("DENIED")
         [] FinalStatus = "done" -> Tells("receipt")
         [] OTHER -> /\ agent' = [agent EXCEPT !.inFlight = TRUE]
                     /\ UNCHANGED <<elapsed, held, told, runStatus, stray>>

\* get_action shows a receipt.
ReceiptShown == acts[Current] = "done"

Poll ==
    /\ agent.at = "polling" /\ ~WallClockSpent /\ ~ReviewTimedOut /\ runStatus # "gone"
    /\ \/ acts[Current] \in {"running", "done"} /\ ReceiptShown /\ Tells("receipt")
       \/ acts[Current] \in {"denied", "expired"} /\ Tells("DENIED")
       \/ /\ acts[Current] = "running" /\ ~ReceiptShown
          /\ agent' = [agent EXCEPT !.inFlight = TRUE]
          /\ UNCHANGED <<elapsed, held, told, runStatus, stray>>
    /\ UNCHANGED acts

Ends(result) == agent' = [agent EXCEPT !.at = "ended", !.result = result]

\* Mutant of Refused: every refusal is taken for an execution in flight.
RefusedForGood == FALSE

\* A refusal other than APPROVED_ACTION_IN_FLIGHT ends the retries.
Refused == runStatus = "gone"

\* _post_terminal retries while an action executes.
Closes(status) ==
    /\ runStatus # "gone" /\ ~HasInFlight
    /\ runStatus' = status

Complete ==
    /\ agent.at = "completing" /\ ~WallClockSpent
    /\ \/ Closes("COMPLETED") /\ Ends("COMPLETED")
       \/ Refused /\ Goes("failing") /\ UNCHANGED runStatus
    /\ UNCHANGED <<elapsed, acts, held, told, stray>>

\* The agent's connection breaks or times out; the handler goes on.
CompleteRaises ==
    /\ agent.at = "completing"
    /\ Goes("failing")
    /\ stray' = TRUE
    /\ UNCHANGED <<elapsed, acts, held, told, runStatus>>

CompleteOutOfTime ==
    /\ agent.at = "completing" /\ WallClockSpent
    /\ Goes("failing")
    /\ LoopOnly

\* fail_run; its answer does not matter.
Fail ==
    /\ agent.at \in {"failing", "aborting"}
    /\ \/ Closes("FAILED") /\ Ends("FAILED")
       \/ Refused /\ Ends("FAILED") /\ UNCHANGED runStatus
    /\ UNCHANGED <<elapsed, acts, held, told, stray>>

\* An exception of fail_run, before or after it took effect, goes to the
\* handler of exceptions, which tries once more and swallows a second one.
FailRaises ==
    /\ agent.at \in {"failing", "aborting"}
    /\ IF agent.at = "failing" THEN Goes("aborting") ELSE Ends("FAILED")
    /\ Closes("FAILED") \/ UNCHANGED runStatus
    /\ UNCHANGED <<elapsed, acts, held, told, stray>>

-----------------------------------------------------------------------------
LoopStep ==
    \/ StartTurn \/ ProviderAnswers \/ EndTurn \/ RefuseCall \/ Submit
    \/ AnsweredDirectly \/ SubmissionRejected \/ AnsweredWithHold
    \/ PollOutOfTime \/ EndReviewWait \/ Poll
    \/ Complete \/ CompleteOutOfTime \/ Fail

LoopNext ==
    \/ TickLoop
    \/ \E c \in Calls : \/ DecideSubmission(c) \/ FinishExecution(c)
                        \/ Review(c) \/ SweepExpires(c)
    \/ CloseByOther \/ StrayCompletion
    \/ LoopStep
    \/ Abort \/ CompleteRaises \/ FailRaises

LoopSpec == LoopInit /\ [][LoopNext]_loopVars

\* The clock runs, the loop's own steps are taken, the gateway answers what
\* it was sent and its executions end.  Nobody has to review anything, and
\* no call has to raise.
LoopFairness ==
    /\ WF_loopVars(TickLoop)
    /\ WF_loopVars(LoopStep)
    /\ \A c \in Calls : WF_loopVars(DecideSubmission(c) \/ FinishExecution(c))

FairLoopSpec == LoopSpec /\ LoopFairness

-----------------------------------------------------------------------------
(* Properties. *)

\* What the model is told is true and stays true: a call with a receipt has
\* been executed; a call that timed out or was denied never runs, though a
\* reviewer may answer while the wait ends.  A COMPLETED result leaves
\* nothing of its calls pending or under way.
ReportIsTrue ==
    /\ \A c \in Calls :
         /\ told[c] = "receipt" => acts[c] = "done"
         /\ told[c] \in {"DENIED", "TIMEOUT"} =>
              acts[c] \in {"refused", "denied", "expired"}
    /\ agent.result = "COMPLETED" =>
         \A c \in Calls : acts[c] \notin {"arriving", "pending", "running"}

\* The loop comes to a result, whoever fails to answer and whatever the
\* gateway refuses.
LoopEnds == <>(agent.at = "ended")

=============================================================================
