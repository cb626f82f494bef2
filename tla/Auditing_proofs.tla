-------------------------- MODULE Auditing_proofs ---------------------------
(***************************************************************************)
(* Proofs about an agent and what watches it: AgentLoop, for every bound   *)
(* on turns, calls and time; TokenLedger, for every budget, every estimate *)
(* and every number of audits and days; TurnAudits, for every set of       *)
(* submissions, contents, turns and texts.                                 *)
(*                                                                         *)
(* The ledger. Every day is paid for by what was recorded on it and by     *)
(* what is still reserved, less what late completions gave back to a day   *)
(* that was not theirs. LedgerAgrees says so; it needs the dates of the    *)
(* reservations (DatesFollow), that the handlers are where their           *)
(* reservations say they are (ReservationsFit, OneChecked, NothingAhead),  *)
(* and that the file is the ledger (FileFollows), which holds only while   *)
(* one process writes it (SoleWriter).                                     *)
(*                                                                         *)
(* Turn audits. Actions and audits are stored together (ActionsAgree,      *)
(* AuditsAgree), an action's audit is its own or an earlier one of the     *)
(* same turn (OwnAudits, AuditsFound), the outcome follows the verdict     *)
(* (OutcomesFollow), and two actions of one turn that differ in nothing    *)
(* got the same audit (Retries).                                           *)
(***************************************************************************)
EXTENDS AgentLoop, TokenLedger, TurnAudits, Sequences, TLAPS,
        FiniteSetTheorems, WellFoundedInduction

(* The agent loop. *)

Agent == [at : Places, turns : 0 .. MaxTurns, calls : 0 .. MaxCalls,
          left : 0 .. PerTurn, since : 0 .. WallClock,
          inFlight : BOOLEAN, result : {"none", "COMPLETED", "FAILED"}]

Reports == {"nothing", "receipt", "DENIED", "TIMEOUT"}

\* Where the loop goes after one of its steps, and with which result.
Changed(at, result) ==
    /\ agent'.at = at /\ agent'.result = result
    /\ agent'.calls = agent.calls

-----------------------------------------------------------------------------
(* Typing. *)

\* A turn is asked for only while there is one left.
TurnLeft == agent.at = "asking" => agent.turns < MaxTurns

LoopTyped == LoopTypeOK /\ TurnLeft

LEMMA LoopInitType == LoopInit => LoopTyped
<1> SUFFICES ASSUME LoopInit PROVE LoopTyped
  OBVIOUS
<1>1. {0} \subseteq 0 .. MaxTurns \cap 0 .. MaxCalls \cap 0 .. PerTurn \cap 0 .. WallClock
  BY LoopAssumption
<1>2. agent \in Agent
  BY <1>1 DEF LoopInit, Agent, Places
<1> QED
  BY <1>1, <1>2 DEF LoopInit, LoopTyped, LoopTypeOK, TurnLeft, Agent, ActStates

\* A new place alone.
LEMMA GoesType ==
    ASSUME LoopTyped, NEW to \in Places \ {"asking"}, Goes(to)
    PROVE  /\ agent' \in Agent /\ TurnLeft'
           /\ agent'.at = to /\ agent'.calls = agent.calls /\ agent'.result = agent.result
BY DEF LoopTyped, LoopTypeOK, TurnLeft, Goes, Agent

LEMMA LoopOnlyType ==
    ASSUME LoopTyped, agent' \in Agent, TurnLeft', LoopOnly
    PROVE  LoopTyped'
BY DEF LoopTyped, LoopTypeOK, LoopOnly, Agent

\* The steps of the gateway and of time leave the loop where it is.
LEMMA GatewayType ==
    ASSUME LoopTyped, NEW c \in Calls,
           DecideSubmission(c) \/ FinishExecution(c) \/ Review(c) \/ SweepExpires(c)
    PROVE  LoopTyped' /\ agent' = agent /\ told' = told
<1>1. /\ UNCHANGED <<elapsed, agent, told, runStatus, stray>>
      /\ \E to \in ActStates : acts' = [acts EXCEPT ![c] = to]
      /\ held' = held \/ held' = held \cup {c}
  BY DEF DecideSubmission, FinishExecution, Review, SweepExpires, ActMoves, ActStates
<1> QED
  BY <1>1 DEF LoopTyped, LoopTypeOK, TurnLeft

LEMMA WorldType ==
    ASSUME LoopTyped, TickLoop \/ CloseByOther \/ StrayCompletion \/ UNCHANGED loopVars
    PROVE  LoopTyped' /\ UNCHANGED <<agent, acts, told>>
<1>1. UNCHANGED <<agent, acts, told, held>>
  BY DEF TickLoop, CloseByOther, StrayCompletion, loopVars
<1>2. elapsed' \in 0 .. WallClock
  BY LoopAssumption DEF TickLoop, CloseByOther, StrayCompletion, loopVars, LoopTyped, LoopTypeOK
<1>3. /\ runStatus' \in {"open", "COMPLETED", "FAILED", "gone"}
      /\ stray' \in BOOLEAN
  BY DEF TickLoop, CloseByOther, StrayCompletion, loopVars, LoopTyped, LoopTypeOK
<1> QED
  BY <1>1, <1>2, <1>3 DEF LoopTyped, LoopTypeOK, TurnLeft

\* The steps that change the loop's place and counts only.
LEMMA CountingType ==
    ASSUME LoopTyped, \/ Abort \/ StartTurn \/ ProviderAnswers \/ EndTurn \/ RefuseCall
                      \/ SubmissionRejected \/ AnsweredWithHold \/ CompleteOutOfTime
    PROVE  LoopTyped'
<1> USE DEF Places
<1>0. agent \in Agent /\ elapsed \in 0 .. WallClock
  BY DEF LoopTyped, LoopTypeOK, Agent
<1>1. CASE Abort
  BY <1>1, GoesType, LoopOnlyType DEF Abort
<1>2. CASE StartTurn
  <2>1. \/ Goes("failing")
        \/ Goes("asking") /\ ~(agent.turns >= MaxTurns)
    BY <1>2 DEF StartTurn
  <2>2. agent' \in Agent
    BY <1>0, <2>1 DEF Goes, Agent, Places
  <2>3. agent'.turns = agent.turns /\ agent.turns \in Int /\ MaxTurns \in Int
    BY <1>0, <2>1, LoopAssumption DEF Goes, Agent
  <2>4. CASE Goes("failing")
    <3>1. agent'.at = "failing"
      BY <1>0, <2>4 DEF Goes, Agent
    <3> QED
      BY <1>2, <2>2, <3>1, LoopOnlyType DEF StartTurn, TurnLeft
  <2>5. CASE ~(agent.turns >= MaxTurns)
    <3>1. agent.turns < MaxTurns
      BY <2>3, <2>5
    <3>2. TurnLeft'
      BY <2>3, <3>1 DEF TurnLeft
    <3> QED
      BY <1>2, <2>2, <3>2, LoopOnlyType DEF StartTurn
  <2> QED
    BY <2>1, <2>4, <2>5
<1>3. CASE ProviderAnswers
  <2>0. agent.turns < MaxTurns /\ agent.turns \in 0 .. MaxTurns /\ MaxTurns \in Nat
    BY <1>0, <1>3, LoopAssumption DEF ProviderAnswers, Agent, LoopTyped, TurnLeft
  <2>1. agent' \in Agent /\ TurnLeft'
    <3>1. agent.turns + 1 \in 0 .. MaxTurns
      BY <2>0
    <3>2. PICK n \in 0 .. PerTurn, at \in {"failing", "completing", "tools"} :
             agent' = [agent EXCEPT !.turns = @ + 1, !.left = n, !.at = at]
      BY <1>3 DEF ProviderAnswers
    <3> QED
      BY <1>0, <3>1, <3>2 DEF Agent, TurnLeft
  <2> QED
    BY <1>3, <2>1, LoopOnlyType DEF ProviderAnswers
<1>4. CASE EndTurn
  BY <1>4, GoesType, LoopOnlyType DEF EndTurn
<1>5. CASE RefuseCall
  BY <1>5, GoesType, LoopOnlyType DEF RefuseCall
<1>6. CASE SubmissionRejected
  BY <1>6, GoesType, LoopOnlyType DEF SubmissionRejected
<1>7. CASE AnsweredWithHold
  <2>1. agent' \in Agent /\ TurnLeft'
    BY <1>0, <1>7 DEF AnsweredWithHold, Agent, TurnLeft
  <2> QED
    BY <1>7, <2>1, LoopOnlyType DEF AnsweredWithHold
<1>8. CASE CompleteOutOfTime
  BY <1>8, GoesType, LoopOnlyType DEF CompleteOutOfTime
<1> QED
  BY <1>1, <1>2, <1>3, <1>4, <1>5, <1>6, <1>7, <1>8

LEMMA SubmitType ==
    ASSUME LoopTyped, Submit
    PROVE  /\ LoopTyped'
           /\ agent.calls + 1 \in Calls
<1>0. agent \in Agent /\ elapsed \in 0 .. WallClock /\ acts \in [Calls -> ActStates]
  BY DEF LoopTyped, LoopTypeOK, Agent
<1>1. agent.calls + 1 \in Calls
  BY <1>0, LoopAssumption DEF Submit, Agent, Calls
<1>2. /\ agent' \in Agent /\ TurnLeft' /\ agent'.calls = agent.calls + 1
  <2>1. agent.calls + 1 \in 0 .. MaxCalls /\ agent.left - 1 \in 0 .. PerTurn
    BY <1>0, <1>1, LoopAssumption DEF Submit, Agent, Calls
  <2> QED
    BY <1>0, <2>1 DEF Submit, Agent, Places, TurnLeft
<1>3. acts' \in [Calls -> ActStates]
  BY <1>0 DEF Submit, ActStates
<1> QED
  BY <1>1, <1>2, <1>3 DEF Submit, LoopTyped, LoopTypeOK, Agent

\* The model is told about the current call.
LEMMA TellsType ==
    ASSUME LoopTyped, NEW what \in Reports, Tells(what), acts' \in [Calls -> ActStates]
    PROVE  LoopTyped' /\ Changed("tools", agent.result)
<1>1. agent' \in Agent /\ TurnLeft' /\ Changed("tools", agent.result)
  BY GoesType DEF Tells, Places, Changed
<1>2. told' \in [Calls -> Reports]
  BY DEF Tells, LoopTyped, LoopTypeOK, Reports
<1> QED
  BY <1>1, <1>2 DEF Tells, LoopTyped, LoopTypeOK, Agent, Reports

LEMMA AnswerType ==
    ASSUME LoopTyped, AnsweredDirectly \/ PollOutOfTime \/ EndReviewWait \/ Poll
    PROVE  LoopTyped'
<1> USE DEF Reports
<1>0. agent \in Agent /\ elapsed \in 0 .. WallClock /\ acts \in [Calls -> ActStates]
  BY DEF LoopTyped, LoopTypeOK, Agent
<1>1. CASE AnsweredDirectly
  <2>1. acts' \in [Calls -> ActStates] /\ \E what \in Reports : Tells(what)
    BY <1>0, <1>1 DEF AnsweredDirectly
  <2> QED
    BY <2>1, TellsType
<1>2. CASE PollOutOfTime
  <2>1. agent' \in Agent /\ TurnLeft'
    BY <1>2, GoesType DEF PollOutOfTime, Places
  <2>2. acts' \in [Calls -> ActStates]
    BY <1>0, <1>2 DEF PollOutOfTime, ActStates
  <2> QED
    BY <1>2, <2>1, <2>2 DEF PollOutOfTime, LoopTyped, LoopTypeOK, Agent
<1>3. CASE EndReviewWait
  <2>1. acts' \in [Calls -> ActStates]
    BY <1>0, <1>3 DEF EndReviewWait, ExpireApproval, FinalStatus, ActStates
  <2>2. CASE \E what \in Reports : Tells(what)
    BY <2>1, <2>2, TellsType
  <2>3. CASE /\ agent' = [agent EXCEPT !.inFlight = TRUE]
             /\ UNCHANGED <<elapsed, held, told, runStatus, stray>>
    <3>1. agent' \in Agent /\ TurnLeft'
      BY <1>0, <2>3 DEF Agent, TurnLeft, LoopTyped
    <3> QED
      BY <2>1, <2>3, <3>1 DEF LoopTyped, LoopTypeOK, Agent
  <2> QED
    BY <1>3, <2>2, <2>3 DEF EndReviewWait
<1>4. CASE Poll
  <2>1. acts' \in [Calls -> ActStates]
    BY <1>0, <1>4 DEF Poll
  <2>2. CASE \E what \in Reports : Tells(what)
    BY <2>1, <2>2, TellsType
  <2>3. CASE /\ agent' = [agent EXCEPT !.inFlight = TRUE]
             /\ UNCHANGED <<elapsed, held, told, runStatus, stray>>
    <3>1. agent' \in Agent /\ TurnLeft'
      BY <1>0, <2>3 DEF Agent, TurnLeft, LoopTyped
    <3> QED
      BY <2>1, <2>3, <3>1 DEF LoopTyped, LoopTypeOK, Agent
  <2> QED
    BY <1>4, <2>2, <2>3 DEF Poll
<1> QED
  BY <1>1, <1>2, <1>3, <1>4

\* The ends of a loop, and what can go wrong with them.
LEMMA EndingType ==
    ASSUME LoopTyped, Complete \/ CompleteRaises \/ Fail \/ FailRaises
    PROVE  /\ LoopTyped'
           /\ UNCHANGED <<acts, told>> /\ agent'.calls = agent.calls
           /\ \/ agent'.at \in {"failing", "aborting"} /\ agent'.result = agent.result
              \/ agent'.at = "ended" /\ agent'.result = "FAILED"
              \/ agent'.at = "ended" /\ agent.at = "completing"
<1>0. agent \in Agent
  BY DEF LoopTyped, LoopTypeOK, Agent
<1>1. UNCHANGED <<elapsed, acts, held, told>> /\ stray' \in BOOLEAN
  BY DEF Complete, CompleteRaises, Fail, FailRaises, LoopTyped, LoopTypeOK
<1>2. runStatus' \in {"open", "COMPLETED", "FAILED", "gone"}
  BY DEF Complete, CompleteRaises, Fail, FailRaises, Closes, LoopTyped, LoopTypeOK
<1>3. \/ agent.at = "completing" /\ Ends("COMPLETED")
      \/ Goes("failing") \/ Goes("aborting") \/ Ends("FAILED")
  BY DEF Complete, CompleteRaises, Fail, FailRaises
<1>4. /\ agent' \in Agent /\ TurnLeft' /\ agent'.calls = agent.calls
      /\ \/ agent'.at \in {"failing", "aborting"} /\ agent'.result = agent.result
         \/ agent'.at = "ended" /\ agent'.result = "FAILED"
         \/ agent'.at = "ended" /\ agent.at = "completing"
  BY <1>0, <1>3 DEF Goes, Ends, Agent, Places, TurnLeft
<1> QED
  BY <1>1, <1>2, <1>4 DEF LoopTyped, LoopTypeOK, Agent

LEMMA LoopStepType ==
    ASSUME LoopTyped, [LoopNext]_loopVars
    PROVE  LoopTyped'
BY GatewayType, WorldType, CountingType, SubmitType, AnswerType, EndingType
   DEF LoopNext, LoopStep

\* The loop, the actions and what the model was told keep their types.
THEOREM LoopTypeCorrect == LoopSpec => []LoopTypeOK
<1>1. LoopTyped => LoopTypeOK
  BY DEF LoopTyped
<1> QED
  BY <1>1, LoopInitType, LoopStepType, PTL DEF LoopSpec

-----------------------------------------------------------------------------
(* What the model is told. *)

\* An action that will not change any more, or does not exist.
Quiet == {"none", "done", "refused", "denied", "expired"}

\* Between two calls the loop has nothing under way.
Between == {"top", "asking", "tools", "completing"}

\* The inductive invariant: only the current call can be under way, and only
\* while the loop submits it, waits for it or has given up; nobody was told
\* anything of a call that is not made; what was told is about a quiet action.
LoopInv ==
    /\ \A c \in Calls : c # agent.calls \/ agent.at \in Between => acts[c] \in Quiet
    /\ \A c \in Calls : c > agent.calls => told[c] = "nothing"
    /\ \A c \in Calls : told[c] = "receipt" => acts[c] = "done"
    /\ \A c \in Calls : told[c] \in {"DENIED", "TIMEOUT"} =>
                          acts[c] \in {"refused", "denied", "expired"}
    /\ agent.result = "COMPLETED" =>
         agent.at = "ended" /\ \A c \in Calls : acts[c] \in Quiet

LEMMA LoopInvInit == LoopInit => LoopInv
BY DEF LoopInit, LoopInv, Quiet, Between

LEMMA LoopInvImplies == LoopTypeOK /\ LoopInv => ReportIsTrue
BY DEF LoopInv, ReportIsTrue, Quiet

\* The gateway moves only actions that are under way.
LEMMA GatewayKeeps ==
    ASSUME LoopTyped, LoopInv, NEW c \in Calls,
           DecideSubmission(c) \/ FinishExecution(c) \/ Review(c) \/ SweepExpires(c)
    PROVE  LoopInv'
<1>1. /\ acts[c] \notin Quiet
      /\ \A d \in Calls : d # c => acts'[d] = acts[d]
      /\ agent' = agent /\ told' = told
  BY DEF DecideSubmission, FinishExecution, Review, SweepExpires, ActMoves, Quiet,
         LoopTyped, LoopTypeOK
<1>2. told[c] = "nothing"
  BY <1>1 DEF LoopInv, LoopTyped, LoopTypeOK, Quiet
<1> QED
  BY <1>1, <1>2 DEF LoopInv

\* The loop moves on with no action touched.
LEMMA MovesOn ==
    ASSUME LoopInv, agent.at # "ended", UNCHANGED <<acts, told>>,
           agent'.calls = agent.calls,
           agent'.at \in Between => agent.at \in Between,
           \/ agent'.result = agent.result \/ agent'.result = "FAILED"
           \/ agent'.at = "ended" /\ agent.at \in Between
    PROVE  LoopInv'
BY DEF LoopInv

LEMMA CountingKeeps ==
    ASSUME LoopTyped, LoopInv,
           \/ Abort \/ StartTurn \/ ProviderAnswers \/ EndTurn \/ RefuseCall
           \/ SubmissionRejected \/ AnsweredWithHold \/ CompleteOutOfTime
    PROVE  LoopInv'
<1>0. agent \in Agent
  BY DEF LoopTyped, LoopTypeOK, Agent
<1>1. /\ agent.at # "ended" /\ UNCHANGED <<acts, told>>
      /\ agent'.calls = agent.calls /\ agent'.result = agent.result
      /\ agent'.at \in Between => agent.at \in Between
  BY <1>0 DEF Abort, StartTurn, ProviderAnswers, EndTurn, RefuseCall, SubmissionRejected,
         AnsweredWithHold, CompleteOutOfTime, Goes, LoopOnly, Agent, Between
<1> QED
  BY <1>1, MovesOn

LEMMA SubmitKeeps ==
    ASSUME LoopTyped, LoopInv, Submit
    PROVE  LoopInv'
<1>0. agent \in Agent /\ acts \in [Calls -> ActStates]
  BY DEF LoopTyped, LoopTypeOK, Agent
<1>1. /\ agent.at = "tools" /\ agent'.at = "submitting"
      /\ agent'.calls = agent.calls + 1 /\ agent'.result = agent.result /\ told' = told
      /\ agent.calls \in Nat
      /\ \A c \in Calls : c # agent.calls + 1 => acts'[c] = acts[c]
  BY <1>0, LoopAssumption DEF Submit, Agent
<1>2. \A c \in Calls : c \in Int
  BY DEF Calls
<1>3. \A c \in Calls : acts[c] \in Quiet
  BY <1>1 DEF LoopInv, Between
<1>4. agent.result # "COMPLETED"
  BY <1>1 DEF LoopInv
<1>5. \A c \in Calls : c = agent.calls + 1 => told[c] = "nothing"
  BY <1>1, <1>2 DEF LoopInv
<1>6. \A c \in Calls : c > agent.calls + 1 => told[c] = "nothing"
  BY <1>1, <1>2 DEF LoopInv
<1> QED
  BY <1>1, <1>3, <1>4, <1>5, <1>6 DEF LoopInv, Between

\* The model is told of the current call what the gateway made of it.
LEMMA Telling ==
    ASSUME LoopTyped, LoopInv, NEW what \in Reports, Tells(what),
           agent.at \in {"submitting", "polling"},
           \A c \in Calls : c # agent.calls => acts'[c] = acts[c],
           agent.calls \in Calls =>
             \/ what = "receipt" /\ acts'[agent.calls] = "done"
             \/ what # "receipt" /\ acts'[agent.calls] \in {"refused", "denied", "expired"}
    PROVE  LoopInv'
<1>0. /\ agent \in Agent /\ told \in [Calls -> Reports]
      /\ \A c \in Calls : c \in Int
  BY DEF LoopTyped, LoopTypeOK, Agent, Reports, Calls
<1>1. /\ agent'.at = "tools" /\ agent'.calls = agent.calls /\ agent'.result = agent.result
      /\ \A c \in Calls : told'[c] = IF c = agent.calls THEN what ELSE told[c]
  BY <1>0 DEF Tells, Goes, Agent, Current
<1>2. \A c \in Calls : acts'[c] \in Quiet
  BY DEF LoopInv, Quiet
<1>3. agent.result # "COMPLETED"
  BY DEF LoopInv
<1>4. agent.calls \in Int
  BY <1>0, LoopAssumption DEF Agent
<1>5. \A c \in Calls : c > agent.calls => told'[c] = "nothing"
  BY <1>0, <1>1, <1>4 DEF LoopInv
<1>6. \A c \in Calls : told'[c] = "receipt" => acts'[c] = "done"
  BY <1>1 DEF LoopInv
<1>7. \A c \in Calls : told'[c] \in {"DENIED", "TIMEOUT"} =>
                          acts'[c] \in {"refused", "denied", "expired"}
  BY <1>1 DEF LoopInv
<1> QED
  BY <1>1, <1>2, <1>3, <1>5, <1>6, <1>7 DEF LoopInv

LEMMA AnswerKeeps ==
    ASSUME LoopTyped, LoopInv, AnsweredDirectly \/ PollOutOfTime \/ EndReviewWait \/ Poll
    PROVE  LoopInv'
<1> USE DEF Reports
<1>0. agent \in Agent /\ acts \in [Calls -> ActStates]
  BY DEF LoopTyped, LoopTypeOK, Agent
<1>1. CASE AnsweredDirectly
  <2>1. /\ agent.at = "submitting" /\ acts' = acts
        /\ \/ acts[agent.calls] = "done" /\ Tells("receipt")
           \/ acts[agent.calls] = "refused" /\ Tells("DENIED")
    BY <1>1 DEF AnsweredDirectly, Current
  <2> QED
    BY <2>1, Telling
<1>2. CASE PollOutOfTime
  <2>1. /\ agent.at = "polling" /\ agent'.at = "failing" /\ told' = told
        /\ agent'.calls = agent.calls /\ agent'.result = agent.result
        /\ \/ acts' = acts
           \/ /\ acts[agent.calls] = "pending"
              /\ acts' = [acts EXCEPT ![agent.calls] = "expired"]
    BY <1>0, <1>2 DEF PollOutOfTime, Goes, Agent, Current
  <2>2. CASE acts' = acts
    BY <2>1, <2>2 DEF LoopInv, Between
  <2>3. CASE /\ acts[agent.calls] = "pending"
             /\ acts' = [acts EXCEPT ![agent.calls] = "expired"]
    <3>1. agent.calls \in Calls => told[agent.calls] = "nothing"
      BY <2>3 DEF LoopInv, LoopTyped, LoopTypeOK
    <3>2. \A c \in Calls : c # agent.calls => acts'[c] = acts[c]
      BY <1>0, <2>3
    <3>3. agent.result # "COMPLETED"
      BY <2>1 DEF LoopInv
    <3> QED
      BY <2>1, <3>1, <3>2, <3>3 DEF LoopInv, Between
  <2> QED
    BY <2>1, <2>2, <2>3
<1>3. CASE EndReviewWait
  <2>1. /\ agent.at = "polling"
        /\ \A c \in Calls : c # agent.calls => acts'[c] = acts[c]
        /\ agent.calls \in Calls => acts'[agent.calls] = FinalStatus
    BY <1>0, <1>3 DEF EndReviewWait, ExpireApproval, Current
  <2>2. \/ FinalStatus = "expired" /\ Tells("TIMEOUT")
        \/ FinalStatus = "denied" /\ Tells("DENIED")
        \/ FinalStatus = "done" /\ Tells("receipt")
        \/ /\ FinalStatus \notin {"expired", "denied", "done"}
           /\ agent' = [agent EXCEPT !.inFlight = TRUE] /\ told' = told
    BY <1>3 DEF EndReviewWait
  <2>3. CASE /\ FinalStatus \notin {"expired", "denied", "done"}
             /\ agent' = [agent EXCEPT !.inFlight = TRUE] /\ told' = told
    <3>1. \A c \in Calls : acts'[c] = acts[c]
      BY <2>1, <2>3 DEF FinalStatus, Current
    <3>2. agent'.at = agent.at /\ agent'.calls = agent.calls /\ agent'.result = agent.result
      BY <1>0, <2>3 DEF Agent
    <3> QED
      BY <2>3, <3>1, <3>2 DEF LoopInv
  <2> QED
    BY <2>1, <2>2, <2>3, Telling
<1>4. CASE Poll
  <2>1. /\ agent.at = "polling" /\ acts' = acts
        /\ \/ acts[agent.calls] = "done" /\ Tells("receipt")
           \/ acts[agent.calls] \in {"denied", "expired"} /\ Tells("DENIED")
           \/ agent' = [agent EXCEPT !.inFlight = TRUE] /\ told' = told
    BY <1>4 DEF Poll, Current, ReceiptShown
  <2>2. CASE agent' = [agent EXCEPT !.inFlight = TRUE] /\ told' = told
    <3>2. agent'.at = agent.at /\ agent'.calls = agent.calls /\ agent'.result = agent.result
      BY <1>0, <2>2 DEF Agent
    <3> QED
      BY <2>1, <2>2, <3>2 DEF LoopInv
  <2> QED
    BY <2>1, <2>2, Telling
<1> QED
  BY <1>1, <1>2, <1>3, <1>4

LEMMA EndingKeeps ==
    ASSUME LoopTyped, LoopInv, Complete \/ CompleteRaises \/ Fail \/ FailRaises
    PROVE  LoopInv'
<1>1. agent.at # "ended"
  BY DEF Complete, CompleteRaises, Fail, FailRaises
<1>2. agent'.at \notin Between
  BY EndingType DEF Between
<1> QED
  BY <1>1, <1>2, EndingType, MovesOn DEF Between

LEMMA LoopInvStep ==
    ASSUME LoopTyped, LoopInv, [LoopNext]_loopVars
    PROVE  LoopInv'
<1>1. ASSUME TickLoop \/ CloseByOther \/ StrayCompletion \/ UNCHANGED loopVars
      PROVE  LoopInv'
  BY <1>1, WorldType DEF LoopInv
<1> QED
  BY <1>1, GatewayKeeps, CountingKeeps, SubmitKeeps, AnswerKeeps, EndingKeeps
     DEF LoopNext, LoopStep

\* What the loop tells the model is true and stays true, and a COMPLETED
\* result leaves nothing under way, whatever reviewers, sweeps and operators
\* do beside it and whichever of its calls fail.
THEOREM ReportsAreTrue == LoopSpec => []ReportIsTrue
<1>1. LoopInit => LoopTyped /\ LoopInv
  BY LoopInitType, LoopInvInit
<1>2. LoopTyped /\ LoopInv /\ [LoopNext]_loopVars => (LoopTyped /\ LoopInv)'
  BY LoopStepType, LoopInvStep
<1>3. LoopTyped /\ LoopInv => ReportIsTrue
  BY LoopInvImplies DEF LoopTyped
<1> QED
  BY <1>1, <1>2, <1>3, PTL DEF LoopSpec

-----------------------------------------------------------------------------
(* The token ledger. *)

\* What so many reservations are worth.
Worth(S) == Estimate * Cardinality(S)

Handlers == {"new", "checked", "waiting", "done", "dead", "refused"}
AuditState == [handler : Handlers, thread : {"idle", "running", "ended"},
               reservedOn : Days \cup {Never}, releasedOn : Days \cup {Never}]

LedgerTypeOK ==
    /\ today \in Days
    /\ ledger \in [Processes -> [day : Days, used : Nat]]
    /\ store \in [day : Days \cup {Never}, used : Nat]
    /\ audit \in [Audits -> AuditState]
    /\ calls \in Nat
    /\ spent \in [Processes -> [Days -> Nat]]
    /\ extra \in [Processes -> [Days -> Nat]]

\* The ledger's day is today or an earlier one, and no audit is ahead of it.
DatesFollow ==
    /\ ledger[Gateway].day <= today
    /\ \A a \in Audits :
         /\ audit[a].reservedOn <= ledger[Gateway].day
         /\ audit[a].releasedOn <= ledger[Gateway].day

\* An audit that has no reservation, one that holds it, one that returned it.
ReservationFits(x) ==
    /\ x.handler \in {"new", "checked", "refused"} =>
          x.reservedOn = Never /\ x.releasedOn = Never /\ x.thread # "running"
    /\ x.handler \in {"waiting", "dead"} => x.releasedOn = Never
    /\ x.handler = "dead" => x.thread = "ended"

ReservationsFit == \A a \in Audits : ReservationFits(audit[a])

OneChecked ==
    \A a, b \in Audits : audit[a].handler = "checked" /\ audit[b].handler = "checked" => a = b

NothingAhead == \A d \in Days : d > ledger[Gateway].day => spent[Gateway][d] = 0

\* What a restart reads from the file is what the gateway knew.
FileFollows ==
    MayRestart => \/ store = ledger[Gateway]
                  \/ store.day < ledger[Gateway].day /\ ledger[Gateway].used = 0

\* What was recorded on a day and is reserved for it, against a ledger of u.
Accounted(u, d) ==
    /\ u <= spent[Gateway][d] + Worth(ReservedOn(d))
    /\ spent[Gateway][d] + Worth(ReservedOn(d)) <= u + Worth(LateReleases(d))

LedgerAgrees == Accounted(ledger[Gateway].used, ledger[Gateway].day)

\* The calls that may still be charged to the reservations of a day.
Running(d) ==
    {a \in Audits : /\ audit[a].handler = "waiting" /\ audit[a].thread = "running"
                    /\ audit[a].reservedOn = d}

SomeChecked == \E a \in Audits : audit[a].handler = "checked"

Pending(d) == IF d = today /\ SomeChecked THEN Estimate ELSE 0

\* What was recorded and what is promised stay within the budget and what
\* nobody reserved.
Claim(d) ==
    spent[Gateway][d] + Worth(Running(d)) + Pending(d)
      <= Budget + extra[Gateway][d] + Worth(LateReleases(d))

Claims == (SomeChecked => Estimate <= Budget) /\ \A d \in Days : Claim(d)

LedgerInvariant ==
    /\ LedgerTypeOK /\ DatesFollow /\ ReservationsFit /\ OneChecked
    /\ NothingAhead /\ FileFollows /\ LedgerAgrees /\ Claims

\* Restarts are of a gateway that is alone on its store and can write it.
SoleWriter == MayRestart => Processes = {Gateway} /\ SaveOutcomes = {TRUE}

-----------------------------------------------------------------------------
(* What reservations are worth. *)

LEMMA WorthType ==
    ASSUME NEW S \in SUBSET Audits
    PROVE  Worth(S) \in Nat /\ IsFiniteSet(S) /\ Cardinality(S) \in Nat
<1>1. IsFiniteSet(S) /\ Cardinality(S) \in Nat
  BY LedgerAssumption, FS_Subset, FS_CardinalityType
<1> QED
  BY <1>1, LedgerAssumption DEF Worth

LEMMA WorthEmpty == Worth({}) = 0
BY FS_EmptySet, LedgerAssumption DEF Worth

LEMMA WorthAdd ==
    ASSUME NEW S \in SUBSET Audits, NEW a \in Audits \ S
    PROVE  Worth(S \cup {a}) = Worth(S) + Estimate
<1>1. Cardinality(S \cup {a}) = Cardinality(S) + 1
  BY WorthType, FS_AddElement
<1>2. \A n \in Nat : Estimate * (n + 1) = Estimate * n + Estimate
  BY LedgerAssumption
<1> QED
  BY <1>1, <1>2, WorthType DEF Worth

LEMMA WorthDrop ==
    ASSUME NEW S \in SUBSET Audits, NEW a \in S
    PROVE  Worth(S) = Worth(S \ {a}) + Estimate
<1>1. S \ {a} \in SUBSET Audits /\ a \in Audits \ (S \ {a}) /\ (S \ {a}) \cup {a} = S
  OBVIOUS
<1> QED
  BY <1>1, WorthAdd

LEMMA WorthSubset ==
    ASSUME NEW S \in SUBSET Audits, NEW T \in SUBSET S
    PROVE  Worth(T) <= Worth(S)
<1>1. Cardinality(T) \in Nat /\ Cardinality(S) \in Nat /\ Cardinality(T) <= Cardinality(S)
  BY WorthType, FS_Subset
<1>2. \A m, n \in Nat : m <= n => Estimate * m <= Estimate * n
  BY LedgerAssumption
<1> QED
  BY <1>1, <1>2 DEF Worth

LEMMA WorthOfDays ==
    ASSUME NEW d
    PROVE  /\ ReservedOn(d) \in SUBSET Audits /\ LateReleases(d) \in SUBSET Audits
           /\ Running(d) \in SUBSET ReservedOn(d)
           /\ Worth(ReservedOn(d)) \in Nat /\ Worth(LateReleases(d)) \in Nat
           /\ Worth(Running(d)) \in Nat /\ Worth(Running(d)) <= Worth(ReservedOn(d))
<1>1. /\ ReservedOn(d) \in SUBSET Audits /\ LateReleases(d) \in SUBSET Audits
      /\ Running(d) \in SUBSET ReservedOn(d)
  BY DEF ReservedOn, LateReleases, Running
<1> QED
  BY <1>1, WorthType, WorthSubset

LEMMA WorthOfDaysNext ==
    ASSUME NEW CONSTANT d
    PROVE  /\ ReservedOn(d)' \in SUBSET Audits /\ LateReleases(d)' \in SUBSET Audits
           /\ Running(d)' \in SUBSET ReservedOn(d)'
           /\ Worth(ReservedOn(d)') \in Nat /\ Worth(LateReleases(d)') \in Nat
           /\ Worth(Running(d)') \in Nat
<1>1. /\ ReservedOn(d)' \in SUBSET Audits /\ LateReleases(d)' \in SUBSET Audits
      /\ Running(d)' \in SUBSET ReservedOn(d)'
  BY DEF ReservedOn, LateReleases, Running
<1> QED
  BY <1>1, WorthType

-----------------------------------------------------------------------------
(* What the steps do to the ledger and to an audit. *)

Ledgers == [day : Days, used : Nat]
Files   == [day : Days \cup {Never}, used : Nat]

LEMMA SetEffect ==
    ASSUME LedgerTypeOK, NEW p \in Processes, NEW used \in Nat, Set(p, used)
    PROVE  /\ ledger' \in [Processes -> Ledgers]
           /\ ledger' = [ledger EXCEPT ![p] = [day |-> today, used |-> used]]
           /\ store' \in Files
           /\ SaveOutcomes = {TRUE} => store' = ledger'[p]
<1>1. [day |-> today, used |-> used] \in Ledgers
  BY DEF LedgerTypeOK, Ledgers
<1>2. ledger' = [ledger EXCEPT ![p] = [day |-> today, used |-> used]]
  BY DEF Set
<1>3. ledger' \in [Processes -> Ledgers] /\ ledger'[p] = [day |-> today, used |-> used]
  BY <1>1, <1>2 DEF LedgerTypeOK, Ledgers
<1>4. Ledgers \subseteq Files
  BY DEF Ledgers, Files
<1>5. PICK ok \in SaveOutcomes : store' = IF ok THEN ledger'[p] ELSE store
  BY DEF Set, Save
<1>6. store' \in Files
  BY <1>1, <1>3, <1>4, <1>5 DEF LedgerTypeOK, Files
<1>7. ASSUME SaveOutcomes = {TRUE} PROVE store' = ledger'[p]
  <2>1. ok = TRUE
    BY <1>7
  <2> QED
    BY <1>5, <2>1
<1> QED
  BY <1>2, <1>3, <1>6, <1>7

LEMMA UsedType ==
    ASSUME LedgerTypeOK, NEW p \in Processes
    PROVE  Used(p) \in Nat
BY DEF LedgerTypeOK, Used

LEMMA AddEffect ==
    ASSUME LedgerTypeOK, NEW p \in Processes, NEW tokens \in Int, Add(p, tokens)
    PROVE  /\ AtLeastZero(Used(p) + tokens) \in Nat
           /\ ledger' \in [Processes -> Ledgers]
           /\ ledger' = [ledger EXCEPT ![p] =
                 [day |-> today, used |-> AtLeastZero(Used(p) + tokens)]]
           /\ store' \in Files
           /\ SaveOutcomes = {TRUE} => store' = ledger'[p]
<1>1. AtLeastZero(Used(p) + tokens) \in Nat
  BY UsedType DEF AtLeastZero
<1>2. Set(p, AtLeastZero(Used(p) + tokens))
  BY DEF Add
<1> QED
  BY <1>1, <1>2, SetEffect

LEMMA RecordEffect ==
    ASSUME LedgerTypeOK, NEW p \in Processes, NEW tokens \in Nat, NEW reserved \in Nat,
           Record(p, tokens, reserved)
    PROVE  /\ spent' \in [Processes -> [Days -> Nat]]
           /\ extra' \in [Processes -> [Days -> Nat]]
           /\ spent'[p][today] = spent[p][today] + tokens
           /\ extra'[p][today] = extra[p][today] + AtLeastZero(tokens - reserved)
           /\ \A d \in Days \ {today} : spent'[p][d] = spent[p][d] /\ extra'[p][d] = extra[p][d]
           /\ \A q \in Processes \ {p} : spent'[q] = spent[q] /\ extra'[q] = extra[q]
<1>1. AtLeastZero(tokens - reserved) \in Nat
  BY DEF AtLeastZero
<1>2. PICK more \in Nat : more = AtLeastZero(tokens - reserved)
  BY <1>1
<1>3. /\ spent' = [spent EXCEPT ![p][today] = spent[p][today] + tokens]
      /\ extra' = [extra EXCEPT ![p][today] = extra[p][today] + more]
  BY <1>2 DEF Record
<1>4. /\ spent[p] \in [Days -> Nat] /\ extra[p] \in [Days -> Nat] /\ today \in Days
      /\ spent[p][today] + tokens \in Nat /\ extra[p][today] + more \in Nat
  BY DEF LedgerTypeOK
<1> QED
  BY <1>2, <1>3, <1>4 DEF LedgerTypeOK

\* One audit moves on.
LEMMA AuditMoves ==
    ASSUME LedgerTypeOK, NEW a \in Audits, NEW x \in AuditState,
           audit' = [audit EXCEPT ![a] = x]
    PROVE  /\ audit' \in [Audits -> AuditState]
           /\ audit'[a] = x /\ \A b \in Audits \ {a} : audit'[b] = audit[b]
BY DEF LedgerTypeOK

LEMMA ReservedMoves ==
    ASSUME LedgerTypeOK, NEW a \in Audits, NEW x \in AuditState,
           audit' = [audit EXCEPT ![a] = x], NEW CONSTANT d
    PROVE  /\ x.handler \in {"waiting", "dead"} /\ x.reservedOn = d => ReservedOn(d)' = ReservedOn(d) \cup {a}
           /\ ~(x.handler \in {"waiting", "dead"} /\ x.reservedOn = d) => ReservedOn(d)' = ReservedOn(d) \ {a}
BY AuditMoves DEF ReservedOn

LEMMA LateMoves ==
    ASSUME LedgerTypeOK, NEW a \in Audits, NEW x \in AuditState,
           audit' = [audit EXCEPT ![a] = x], NEW CONSTANT d
    PROVE  /\ x.releasedOn = d /\ x.reservedOn # d => LateReleases(d)' = LateReleases(d) \cup {a}
           /\ ~(x.releasedOn = d /\ x.reservedOn # d) => LateReleases(d)' = LateReleases(d) \ {a}
BY AuditMoves DEF LateReleases

LEMMA RunningMoves ==
    ASSUME LedgerTypeOK, NEW a \in Audits, NEW x \in AuditState,
           audit' = [audit EXCEPT ![a] = x], NEW CONSTANT d
    PROVE  /\ x.handler = "waiting" /\ x.thread = "running" /\ x.reservedOn = d => Running(d)' = Running(d) \cup {a}
           /\ ~(x.handler = "waiting" /\ x.thread = "running" /\ x.reservedOn = d) => Running(d)' = Running(d) \ {a}
BY AuditMoves DEF Running

\* What is known of every audit after one of them moved.
LEMMA AuditsFit ==
    ASSUME LedgerInvariant, NEW a \in Audits, NEW x \in AuditState,
           audit' = [audit EXCEPT ![a] = x],
           ReservationFits(x), x.reservedOn <= ledger'[Gateway].day,
           x.releasedOn <= ledger'[Gateway].day,
           ledger[Gateway].day <= ledger'[Gateway].day,
           ledger'[Gateway].day <= today', ledger' \in [Processes -> Ledgers],
           x.handler = "checked" => LoopFree
    PROVE  DatesFollow' /\ ReservationsFit' /\ OneChecked'
<1>1. /\ audit'[a] = x /\ \A b \in Audits \ {a} : audit'[b] = audit[b]
      /\ audit' \in [Audits -> AuditState] /\ audit \in [Audits -> AuditState]
      /\ ledger \in [Processes -> Ledgers] /\ Gateway \in Processes
  BY AuditMoves, LedgerAssumption DEF LedgerInvariant, LedgerTypeOK, Ledgers
<1>2. ReservationsFit'
  BY <1>1 DEF LedgerInvariant, ReservationsFit, ReservationFits
<1>3. OneChecked'
  BY <1>1 DEF LedgerInvariant, OneChecked, LoopFree
<1>4. ledger[Gateway].day \in Int /\ ledger'[Gateway].day \in Int
  BY <1>1 DEF Ledgers, Days
<1>5. \A b \in Audits : /\ audit'[b].reservedOn \in Int /\ audit[b].reservedOn \in Int
                        /\ audit'[b].releasedOn \in Int /\ audit[b].releasedOn \in Int
  BY <1>1 DEF AuditState, Days, Never
<1>6. DatesFollow'
  <2>1. \A b \in Audits : /\ audit'[b].reservedOn <= ledger'[Gateway].day
                          /\ audit'[b].releasedOn <= ledger'[Gateway].day
    BY <1>1, <1>4, <1>5 DEF LedgerInvariant, DatesFollow
  <2> QED
    BY <2>1 DEF DatesFollow
<1> QED
  BY <1>2, <1>3, <1>6

-----------------------------------------------------------------------------
(* The ledger as of today, whether or not a call has rolled it over. *)

LEMMA AheadIsEmpty ==
    ASSUME LedgerInvariant, NEW CONSTANT t \in Days, t > ledger[Gateway].day
    PROVE  /\ spent[Gateway][t] = 0 /\ Running(t) = {}
           /\ ReservedOn(t) = {} /\ LateReleases(t) = {}
<1>1. /\ ledger[Gateway] \in Ledgers /\ audit \in [Audits -> AuditState]
  BY LedgerAssumption DEF LedgerInvariant, LedgerTypeOK, Ledgers
<1>2. \A b \in Audits : audit[b].reservedOn # t /\ audit[b].releasedOn # t
  BY <1>1 DEF LedgerInvariant, DatesFollow, AuditState, Ledgers, Days, Never
<1>3. spent[Gateway][t] = 0
  BY <1>1 DEF LedgerInvariant, NothingAhead, Ledgers, Days
<1> QED
  BY <1>2, <1>3 DEF Running, ReservedOn, LateReleases

LEMMA TodayAccounts ==
    ASSUME LedgerInvariant, NEW CONSTANT t, t = today
    PROVE  /\ t \in Days /\ Used(Gateway) \in Nat
           /\ ledger[Gateway].day # t => Used(Gateway) = 0 /\ t > ledger[Gateway].day
           /\ Accounted(Used(Gateway), t)
<1>1. /\ ledger[Gateway] \in Ledgers /\ t \in Days /\ Used(Gateway) \in Nat
  BY LedgerAssumption, UsedType DEF LedgerInvariant, LedgerTypeOK, Ledgers
<1>2. ASSUME ledger[Gateway].day # t
      PROVE  Used(Gateway) = 0 /\ t > ledger[Gateway].day
  BY <1>1, <1>2 DEF LedgerInvariant, DatesFollow, Ledgers, Days, Used
<1>3. CASE ledger[Gateway].day # t
  BY <1>1, <1>2, <1>3, AheadIsEmpty, WorthEmpty DEF Accounted
<1>4. CASE ledger[Gateway].day = t
  <2>1. Used(Gateway) = ledger[Gateway].used
    BY <1>4 DEF Used
  <2>2. Accounted(ledger[Gateway].used, ledger[Gateway].day)
    BY DEF LedgerInvariant, LedgerAgrees
  <2> QED
    BY <1>1, <1>4, <2>1, <2>2
<1> QED
  BY <1>1, <1>2, <1>3, <1>4

LEMMA AgreesNext ==
    ASSUME NEW CONSTANT t, NEW CONSTANT u,
           ledger'[Gateway] = [day |-> t, used |-> u],
           u <= spent'[Gateway][t] + Worth(ReservedOn(t)'),
           spent'[Gateway][t] + Worth(ReservedOn(t)') <= u + Worth(LateReleases(t)')
    PROVE  LedgerAgrees'
<1>1. ledger'[Gateway].day = t /\ ledger'[Gateway].used = u
  OBVIOUS
<1>2. /\ ReservedOn(ledger[Gateway].day)' = ReservedOn(t)'
      /\ LateReleases(ledger[Gateway].day)' = LateReleases(t)'
  BY <1>1 DEF ReservedOn, LateReleases
<1> QED
  BY <1>1, <1>2 DEF LedgerAgrees, Accounted, Worth

\* The gateway's own ledger was set; nothing was recorded for a later day.
LEMMA GatewaySet ==
    ASSUME LedgerInvariant, SoleWriter, NEW CONSTANT t, t = today, today' = today,
           NEW u \in Nat,
           ledger' = [ledger EXCEPT ![Gateway] = [day |-> t, used |-> u]],
           SaveOutcomes = {TRUE} => store' = ledger'[Gateway],
           \A d \in Days \ {t} : spent'[Gateway][d] = spent[Gateway][d]
    PROVE  /\ ledger'[Gateway] = [day |-> t, used |-> u] /\ ledger'[Gateway].day = t
           /\ ledger[Gateway].day <= t /\ t \in Days
           /\ NothingAhead' /\ FileFollows'
<1>1. /\ ledger \in [Processes -> Ledgers] /\ Gateway \in Processes /\ t \in Days
  BY LedgerAssumption DEF LedgerInvariant, LedgerTypeOK, Ledgers
<1>2. ledger'[Gateway] = [day |-> t, used |-> u] /\ ledger'[Gateway].day = t
  BY <1>1
<1>3. ledger[Gateway].day <= t
  BY DEF LedgerInvariant, DatesFollow
<1>4. FileFollows'
  BY <1>2 DEF FileFollows, SoleWriter
<1>5. ledger[Gateway].day \in Int /\ t \in Int
  BY <1>1 DEF Ledgers, Days
<1>6. NothingAhead'
  <2>1. \A d \in Days : d > t => spent'[Gateway][d] = 0
    BY <1>1, <1>3, <1>5 DEF LedgerInvariant, NothingAhead, Days
  <2> QED
    BY <1>2, <2>1 DEF NothingAhead
<1> QED
  BY <1>1, <1>2, <1>3, <1>4, <1>6

\* The gateway's ledger was not touched.
LEMMA LedgerRests ==
    ASSUME LedgerInvariant, ledger'[Gateway] = ledger[Gateway],
           spent'[Gateway] = spent[Gateway], MayRestart => store' = store,
           \A d : ReservedOn(d)' = ReservedOn(d) /\ LateReleases(d)' = LateReleases(d)
    PROVE  NothingAhead' /\ FileFollows' /\ LedgerAgrees'
<1>1. PICK t, u : t = ledger[Gateway].day /\ u = ledger[Gateway].used
  OBVIOUS
<1>2. ledger[Gateway] \in Ledgers
  BY LedgerAssumption DEF LedgerInvariant, LedgerTypeOK, Ledgers
<1>3. ledger'[Gateway] = [day |-> t, used |-> u]
  BY <1>1, <1>2 DEF Ledgers
<1>4. Accounted(u, t)
  BY <1>1 DEF LedgerInvariant, LedgerAgrees
<1>5. LedgerAgrees'
  BY <1>3, <1>4, AgreesNext DEF Accounted
<1>6. NothingAhead'
  BY DEF LedgerInvariant, NothingAhead
<1>7. FileFollows'
  BY DEF LedgerInvariant, FileFollows
<1> QED
  BY <1>5, <1>6, <1>7

\* The terms of the claim on a day.
LEMMA ClaimTerms ==
    ASSUME LedgerInvariant, NEW CONSTANT d \in Days
    PROVE  /\ spent[Gateway][d] \in Nat /\ extra[Gateway][d] \in Nat
           /\ Worth(Running(d)) \in Nat /\ Worth(LateReleases(d)) \in Nat
           /\ spent[Gateway][d] + Worth(Running(d)) <=
                 Budget + extra[Gateway][d] + Worth(LateReleases(d))
           /\ (d = today /\ SomeChecked) =>
                 spent[Gateway][d] + Worth(Running(d)) + Estimate <=
                   Budget + extra[Gateway][d] + Worth(LateReleases(d))
           /\ Budget \in Nat /\ Estimate \in Nat
<1>1. /\ spent[Gateway][d] \in Nat /\ extra[Gateway][d] \in Nat
      /\ Budget \in Nat /\ Estimate \in Nat
  BY LedgerAssumption DEF LedgerInvariant, LedgerTypeOK
<1>2. Worth(Running(d)) \in Nat /\ Worth(LateReleases(d)) \in Nat
  BY WorthOfDays
<1>3. Claim(d)
  BY DEF LedgerInvariant, Claims
<1> QED
  BY <1>1, <1>2, <1>3 DEF Claim, Pending

\* The claims of the next state, day by day.
LEMMA ClaimsNext ==
    ASSUME SomeChecked' => Estimate <= Budget,
           \A d \in Days :
             /\ spent'[Gateway][d] + Worth(Running(d)') <=
                   Budget + extra'[Gateway][d] + Worth(LateReleases(d)')
             /\ (d = today' /\ SomeChecked') =>
                   spent'[Gateway][d] + Worth(Running(d)') + Estimate <=
                     Budget + extra'[Gateway][d] + Worth(LateReleases(d)'),
           spent' \in [Processes -> [Days -> Nat]]
    PROVE  Claims'
<1>1. Gateway \in Processes
  BY LedgerAssumption
<1>2. ASSUME NEW CONSTANT d \in Days PROVE Claim(d)'
  <2>1. spent'[Gateway][d] \in Nat /\ Worth(Running(d)') \in Nat
    BY <1>1, WorthOfDaysNext
  <2> QED
    BY <2>1 DEF Claim, Pending, Worth
<1> QED
  BY <1>2 DEF Claims

-----------------------------------------------------------------------------
(* One lemma per action. *)

LEMMA CheckKeeps ==
    ASSUME LedgerInvariant, SoleWriter, NEW a \in Audits, Check(a)
    PROVE  LedgerInvariant'
<1> USE LedgerAssumption
<1>1. PICK t : t = today
  OBVIOUS
<1>2. PICK h : h = IF Fits THEN "checked" ELSE "refused"
  OBVIOUS
<1>3. PICK x : x = [audit[a] EXCEPT !.handler = h]
  OBVIOUS
<1>4. /\ audit' = [audit EXCEPT ![a] = x]
      /\ audit[a].handler = "new" /\ LoopFree /\ today' = today /\ calls' = calls
      /\ spent' = spent /\ extra' = extra
  BY <1>2, <1>3 DEF Check
<1>5. LedgerTypeOK /\ audit[a] \in AuditState /\ ReservationFits(audit[a])
  BY DEF LedgerInvariant, LedgerTypeOK, ReservationsFit
<1>6. /\ x \in AuditState /\ x.handler = h /\ h \in {"checked", "refused"}
      /\ x.reservedOn = Never /\ x.releasedOn = Never /\ x.thread # "running"
  BY <1>2, <1>3, <1>4, <1>5 DEF AuditState, Handlers, ReservationFits
<1>7. ReservationFits(x)
  BY <1>6 DEF ReservationFits
<1>8. /\ audit[a].handler \notin {"waiting", "dead"}
      /\ audit[a].releasedOn = Never /\ audit[a].reservedOn = Never
  BY <1>4, <1>5 DEF ReservationFits
<1>9. ASSUME NEW CONSTANT d
      PROVE  /\ ReservedOn(d)' = ReservedOn(d) /\ LateReleases(d)' = LateReleases(d)
             /\ Running(d)' = Running(d)
  <2>1. ~(x.handler \in {"waiting", "dead"} /\ x.reservedOn = d) /\ x.handler # "waiting"
    BY <1>6
  <2>2. a \notin ReservedOn(d) /\ a \notin Running(d)
    BY <1>8 DEF ReservedOn, Running
  <2>3. (a \in LateReleases(d)) <=> (x.releasedOn = d /\ x.reservedOn # d)
    BY <1>6, <1>8 DEF LateReleases
  <2>4. ReservedOn(d)' = ReservedOn(d) \ {a} /\ Running(d)' = Running(d) \ {a}
    BY <1>4, <1>5, <1>6, <2>1, ReservedMoves, RunningMoves
  <2>5. /\ a \in LateReleases(d) => LateReleases(d)' = LateReleases(d) \cup {a}
        /\ a \notin LateReleases(d) => LateReleases(d)' = LateReleases(d) \ {a}
    BY <1>4, <1>5, <1>6, <2>3, LateMoves
  <2> QED
    BY <2>2, <2>4, <2>5
<1>10. /\ ledger' \in [Processes -> Ledgers] /\ store' \in Files
       /\ ledger[Gateway].day <= ledger'[Gateway].day /\ ledger'[Gateway].day <= t
       /\ NothingAhead' /\ FileFollows' /\ LedgerAgrees'
  <2>1. CASE ledger[Gateway].day = today
    <3>1. ledger' = ledger /\ store' = store
      BY <2>1 DEF Check
    <3>2. NothingAhead' /\ FileFollows' /\ LedgerAgrees'
      BY <1>4, <1>9, <3>1, LedgerRests
    <3>3. /\ ledger' \in [Processes -> Ledgers] /\ store' \in Files
          /\ ledger'[Gateway].day \in Int
      BY <1>5, <3>1 DEF LedgerTypeOK, Ledgers, Files, Days
    <3> QED
      BY <1>1, <2>1, <3>1, <3>2, <3>3
  <2>2. CASE ledger[Gateway].day # today
    <3>1. Set(Gateway, 0)
      BY <2>2 DEF Check
    <3>2. /\ ledger' \in [Processes -> Ledgers] /\ store' \in Files
          /\ ledger' = [ledger EXCEPT ![Gateway] = [day |-> t, used |-> 0]]
          /\ SaveOutcomes = {TRUE} => store' = ledger'[Gateway]
      BY <1>1, <1>5, <3>1, SetEffect
    <3>3. /\ ledger'[Gateway] = [day |-> t, used |-> 0]
          /\ ledger'[Gateway].day = t /\ ledger[Gateway].day <= t /\ t \in Days
          /\ NothingAhead' /\ FileFollows'
      BY <1>1, <1>4, <3>2, GatewaySet
    <3>4. /\ t > ledger[Gateway].day
      BY <1>1, <2>2, TodayAccounts
    <3>5. /\ spent[Gateway][t] = 0 /\ ReservedOn(t) = {} /\ LateReleases(t) = {}
      BY <3>3, <3>4, AheadIsEmpty
    <3>6. LedgerAgrees'
      <4>1. spent'[Gateway][t] = 0 /\ Worth(ReservedOn(t)') = 0 /\ Worth(LateReleases(t)') = 0
        BY <1>4, <1>9, <3>5, WorthEmpty
      <4> QED
        BY <3>3, <4>1, AgreesNext
    <3> QED
      BY <3>2, <3>3, <3>6 DEF Days
  <2> QED
    BY <2>1, <2>2
<1>11. LedgerTypeOK'
  BY <1>4, <1>5, <1>6, <1>10, AuditMoves DEF LedgerTypeOK, Ledgers, Files
<1>12. DatesFollow' /\ ReservationsFit' /\ OneChecked'
  <2>1. ledger'[Gateway].day \in Nat
    BY <1>10 DEF Ledgers, Days
  <2>2. x.reservedOn <= ledger'[Gateway].day /\ x.releasedOn <= ledger'[Gateway].day
    BY <1>6, <2>1 DEF Never
  <2>3. ledger'[Gateway].day <= today'
    BY <1>1, <1>4, <1>10
  <2> QED
    BY <1>4, <1>6, <1>7, <1>10, <2>2, <2>3, AuditsFit
<1>13. Claims'
  <2>1. SomeChecked' => Fits
    <3>1. \A b \in Audits : audit[b].handler # "checked"
      BY <1>4 DEF LoopFree
    <3>2. SomeChecked' => h = "checked"
      BY <1>4, <1>5, <1>6, <3>1, AuditMoves DEF SomeChecked
    <3> QED
      BY <1>2, <3>2
  <2>2. Used(Gateway) \in Nat /\ Accounted(Used(Gateway), t) /\ t \in Days
    BY <1>1, TodayAccounts
  <2>3. Fits => Estimate <= Budget
    BY <2>2 DEF Fits
  <2>4. ASSUME NEW CONSTANT d \in Days
        PROVE  /\ spent'[Gateway][d] + Worth(Running(d)') <=
                     Budget + extra'[Gateway][d] + Worth(LateReleases(d)')
               /\ (d = today' /\ SomeChecked') =>
                     spent'[Gateway][d] + Worth(Running(d)') + Estimate <=
                       Budget + extra'[Gateway][d] + Worth(LateReleases(d)')
    <3>1. /\ Worth(Running(d)') = Worth(Running(d))
          /\ Worth(LateReleases(d)') = Worth(LateReleases(d))
      BY <1>9
    <3>2. ASSUME d = t, Fits
          PROVE  spent[Gateway][d] + Worth(Running(d)) + Estimate <=
                   Budget + extra[Gateway][d] + Worth(LateReleases(d))
      <4>1. spent[Gateway][d] + Worth(ReservedOn(d)) <= Used(Gateway) + Worth(LateReleases(d))
        BY <2>2, <3>2 DEF Accounted
      <4>2. /\ Worth(Running(d)) <= Worth(ReservedOn(d)) /\ Worth(Running(d)) \in Nat
            /\ Worth(ReservedOn(d)) \in Nat
        BY WorthOfDays
      <4>3. Used(Gateway) + Estimate <= Budget
        BY <3>2 DEF Fits
      <4> QED
        BY <2>2, <4>1, <4>2, <4>3, ClaimTerms
    <3> QED
      BY <1>1, <1>4, <2>1, <3>1, <3>2, ClaimTerms
  <2>5. spent' \in [Processes -> [Days -> Nat]]
    BY <1>4, <1>5 DEF LedgerTypeOK
  <2> QED
    BY <2>1, <2>3, <2>4, <2>5, ClaimsNext
<1> QED
  BY <1>10, <1>11, <1>12, <1>13 DEF LedgerInvariant

LEMMA ReserveKeeps ==
    ASSUME LedgerInvariant, SoleWriter, NEW a \in Audits, Reserve(a)
    PROVE  LedgerInvariant'
<1> USE LedgerAssumption
<1>1. PICK t : t = today
  OBVIOUS
<1>2. PICK x : x = [handler |-> "waiting", thread |-> "running",
                    reservedOn |-> t, releasedOn |-> Never]
  OBVIOUS
<1>3. PICK u : u = AtLeastZero(Used(Gateway) + Estimate)
  OBVIOUS
<1>4. /\ audit' = [audit EXCEPT ![a] = x] /\ audit[a].handler = "checked"
      /\ today' = today /\ calls' = calls /\ spent' = spent /\ extra' = extra
      /\ Add(Gateway, Estimate)
  BY <1>1, <1>2 DEF Reserve
<1>5. LedgerTypeOK /\ audit[a] \in AuditState /\ ReservationFits(audit[a])
  BY DEF LedgerInvariant, LedgerTypeOK, ReservationsFit
<1>6. /\ t \in Days /\ Used(Gateway) \in Nat /\ Accounted(Used(Gateway), t)
      /\ Estimate \in Nat /\ u = Used(Gateway) + Estimate
  <2>1. t \in Days /\ Used(Gateway) \in Nat /\ Accounted(Used(Gateway), t)
    BY <1>1, TodayAccounts
  <2>2. Used(Gateway) + Estimate \in Nat
    BY <2>1
  <2>3. AtLeastZero(Used(Gateway) + Estimate) = Used(Gateway) + Estimate
    BY <2>2 DEF AtLeastZero
  <2> QED
    BY <1>3, <2>1, <2>3
<1>7. x \in AuditState /\ ReservationFits(x)
  <2>1. /\ x.handler = "waiting" /\ x.releasedOn = Never /\ "waiting" \in Handlers
        /\ Never \in Days \cup {Never} /\ t \in Days \cup {Never}
    BY <1>2, <1>6 DEF Handlers
  <2>2. x \in AuditState
    BY <1>2, <2>1 DEF AuditState
  <2> QED
    BY <2>1, <2>2 DEF ReservationFits
<1>8. /\ ledger' \in [Processes -> Ledgers] /\ store' \in Files
      /\ ledger' = [ledger EXCEPT ![Gateway] = [day |-> t, used |-> u]]
      /\ SaveOutcomes = {TRUE} => store' = ledger'[Gateway]
  <2>1. Gateway \in Processes /\ Estimate \in Int
    BY <1>6
  <2>2. /\ ledger' \in [Processes -> Ledgers] /\ store' \in Files
        /\ ledger' = [ledger EXCEPT ![Gateway] =
              [day |-> today, used |-> AtLeastZero(Used(Gateway) + Estimate)]]
        /\ SaveOutcomes = {TRUE} => store' = ledger'[Gateway]
    BY <1>4, <1>5, <2>1, AddEffect
  <2> QED
    BY <1>1, <1>3, <2>2
<1>9. /\ ledger'[Gateway] = [day |-> t, used |-> u] /\ ledger'[Gateway].day = t
      /\ ledger[Gateway].day <= t /\ NothingAhead' /\ FileFollows'
  <2>1. u \in Nat
    BY <1>6
  <2> QED
    BY <1>1, <1>4, <1>8, <2>1, GatewaySet
<1>10. /\ audit[a].handler \notin {"waiting", "dead"}
       /\ audit[a].releasedOn = Never /\ audit[a].reservedOn = Never
  BY <1>4, <1>5 DEF ReservationFits
<1>11. ASSUME NEW CONSTANT d \in Days
       PROVE  /\ LateReleases(d)' = LateReleases(d)
              /\ a \notin ReservedOn(d) /\ a \notin Running(d)
              /\ d = t => /\ ReservedOn(d)' = ReservedOn(d) \cup {a}
                          /\ Running(d)' = Running(d) \cup {a}
              /\ d # t => Running(d)' = Running(d)
  <2>1. a \notin ReservedOn(d) /\ a \notin Running(d)
    BY <1>10 DEF ReservedOn, Running
  <2>2. a \notin LateReleases(d)
    BY <1>10 DEF LateReleases, Days, Never
  <2>3. LateReleases(d)' = LateReleases(d) \ {a}
    <3>1. ~(x.releasedOn = d /\ x.reservedOn # d)
      BY <1>2 DEF Days, Never
    <3> QED
      BY <1>4, <1>5, <1>7, <3>1, LateMoves
  <2>4. d = t => /\ ReservedOn(d)' = ReservedOn(d) \cup {a}
                 /\ Running(d)' = Running(d) \cup {a}
    <3>1. /\ x.handler \in {"waiting", "dead"} /\ x.handler = "waiting"
          /\ x.thread = "running" /\ x.reservedOn = t
      BY <1>2
    <3>2. d = t => ReservedOn(d)' = ReservedOn(d) \cup {a}
      BY <1>4, <1>5, <1>7, <3>1, ReservedMoves
    <3>3. d = t => Running(d)' = Running(d) \cup {a}
      BY <1>4, <1>5, <1>7, <3>1, RunningMoves
    <3> QED
      BY <3>2, <3>3
  <2>5. d # t => Running(d)' = Running(d) \ {a}
    <3>1. x.reservedOn = t
      BY <1>2
    <3> QED
      BY <1>4, <1>5, <1>7, <3>1, RunningMoves
  <2> QED
    BY <2>1, <2>2, <2>3, <2>4, <2>5
<1>12. LedgerAgrees'
  <2>1. Worth(ReservedOn(t)') = Worth(ReservedOn(t)) + Estimate
    BY <1>6, <1>11, WorthAdd, WorthOfDays
  <2>2. /\ Worth(LateReleases(t)') = Worth(LateReleases(t)) /\ spent'[Gateway][t] = spent[Gateway][t]
        /\ spent[Gateway][t] \in Nat /\ Worth(LateReleases(t)) \in Nat
        /\ Worth(ReservedOn(t)) \in Nat
    BY <1>4, <1>6, <1>11, ClaimTerms, WorthOfDays
  <2>3. /\ Used(Gateway) <= spent[Gateway][t] + Worth(ReservedOn(t))
        /\ spent[Gateway][t] + Worth(ReservedOn(t)) <= Used(Gateway) + Worth(LateReleases(t))
    BY <1>6 DEF Accounted
  <2>4. /\ u <= spent'[Gateway][t] + Worth(ReservedOn(t)')
        /\ spent'[Gateway][t] + Worth(ReservedOn(t)') <= u + Worth(LateReleases(t)')
    BY <1>6, <2>1, <2>2, <2>3
  <2> QED
    BY <1>9, <2>4, AgreesNext
<1>13. LedgerTypeOK'
  BY <1>4, <1>5, <1>7, <1>8, AuditMoves DEF LedgerTypeOK, Ledgers, Files
<1>14. DatesFollow' /\ ReservationsFit' /\ OneChecked'
  <2>1. x.reservedOn <= t /\ x.releasedOn <= t /\ t <= today' /\ x.handler # "checked"
    BY <1>1, <1>2, <1>4, <1>6 DEF Days, Never
  <2> QED
    BY <1>4, <1>7, <1>8, <1>9, <2>1, AuditsFit
<1>15. Claims'
  <2>1. ~SomeChecked'
    <3>1. \A b \in Audits \ {a} : audit[b].handler # "checked"
      BY <1>4 DEF LedgerInvariant, OneChecked
    <3>2. x.handler # "checked"
      BY <1>2
    <3> QED
      BY <1>4, <1>5, <1>7, <3>1, <3>2, AuditMoves DEF SomeChecked
  <2>2. SomeChecked
    BY <1>4 DEF SomeChecked
  <2>3. ASSUME NEW CONSTANT d \in Days
        PROVE  spent'[Gateway][d] + Worth(Running(d)') <=
                 Budget + extra'[Gateway][d] + Worth(LateReleases(d)')
    <3>1. Worth(LateReleases(d)') = Worth(LateReleases(d))
      BY <1>11
    <3>2. CASE d = t
      <4>1. Worth(Running(d)') = Worth(Running(d)) + Estimate
        BY <1>11, <3>2, WorthAdd, WorthOfDays
      <4>2. /\ spent[Gateway][d] + Worth(Running(d)) + Estimate <=
                 Budget + extra[Gateway][d] + Worth(LateReleases(d))
            /\ spent[Gateway][d] \in Nat /\ Worth(Running(d)) \in Nat
        BY <1>1, <2>2, <3>2, ClaimTerms
      <4> QED
        BY <1>4, <1>6, <3>1, <4>1, <4>2
    <3>3. CASE d # t
      <4>1. Worth(Running(d)') = Worth(Running(d))
        BY <1>11, <3>3
      <4> QED
        BY <1>4, <3>1, <4>1, ClaimTerms
    <3> QED
      BY <3>2, <3>3
  <2>4. spent' \in [Processes -> [Days -> Nat]]
    BY <1>4, <1>5 DEF LedgerTypeOK
  <2> QED
    BY <2>1, <2>3, <2>4, ClaimsNext
<1> QED
  BY <1>9, <1>12, <1>13, <1>14, <1>15 DEF LedgerInvariant

\* Something was recorded for the gateway and at most a thread ended: nothing
\* is reserved or released by that.
LEMMA RecordingKeeps ==
    ASSUME LedgerInvariant, SoleWriter, NEW tokens \in Nat, NEW reserved \in {0, Estimate},
           Record(Gateway, tokens, reserved), today' = today, calls' \in Nat,
           audit' \in [Audits -> AuditState],
           \A b \in Audits : /\ audit'[b].handler = audit[b].handler
                             /\ audit'[b].reservedOn = audit[b].reservedOn
                             /\ audit'[b].releasedOn = audit[b].releasedOn
                             /\ audit'[b].thread \in {audit[b].thread, "ended"},
           \A d \in Days : /\ Running(d)' \subseteq Running(d)
                           /\ reserved = Estimate /\ d = today =>
                                 \E a \in Running(d) : Running(d)' = Running(d) \ {a}
    PROVE  LedgerInvariant'
<1> USE LedgerAssumption
<1>1. PICK t : t = today
  OBVIOUS
<1>2. PICK u : u = AtLeastZero(Used(Gateway) + tokens)
  OBVIOUS
<1>3. PICK more : more = AtLeastZero(tokens - reserved)
  OBVIOUS
<1>4. LedgerTypeOK /\ reserved \in Nat /\ Add(Gateway, tokens)
  BY DEF LedgerInvariant, Record
<1>5. /\ t \in Days /\ Used(Gateway) \in Nat /\ Accounted(Used(Gateway), t)
      /\ Estimate \in Nat /\ u = Used(Gateway) + tokens /\ more \in Nat
      /\ tokens - reserved <= more
      /\ reserved = 0 => more = tokens
  <2>1. t \in Days /\ Used(Gateway) \in Nat /\ Accounted(Used(Gateway), t)
    BY <1>1, TodayAccounts
  <2>2. Used(Gateway) + tokens \in Nat
    BY <2>1
  <2>3. AtLeastZero(Used(Gateway) + tokens) = Used(Gateway) + tokens
    BY <2>2 DEF AtLeastZero
  <2>4. tokens - reserved \in Int
    BY <1>4
  <2>5. more \in Nat /\ tokens - reserved <= more
    BY <1>3, <2>4 DEF AtLeastZero
  <2>6. reserved = 0 => more = tokens
    BY <1>3 DEF AtLeastZero
  <2> QED
    BY <1>2, <2>1, <2>3, <2>5, <2>6
<1>6. /\ ledger' \in [Processes -> Ledgers] /\ store' \in Files
      /\ ledger' = [ledger EXCEPT ![Gateway] = [day |-> t, used |-> u]]
      /\ SaveOutcomes = {TRUE} => store' = ledger'[Gateway]
  <2>1. Gateway \in Processes /\ tokens \in Int
    OBVIOUS
  <2>2. /\ ledger' \in [Processes -> Ledgers] /\ store' \in Files
        /\ ledger' = [ledger EXCEPT ![Gateway] =
              [day |-> today, used |-> AtLeastZero(Used(Gateway) + tokens)]]
        /\ SaveOutcomes = {TRUE} => store' = ledger'[Gateway]
    BY <1>4, <2>1, AddEffect
  <2> QED
    BY <1>1, <1>2, <2>2
<1>7. /\ spent' \in [Processes -> [Days -> Nat]] /\ extra' \in [Processes -> [Days -> Nat]]
      /\ spent'[Gateway][t] = spent[Gateway][t] + tokens
      /\ extra'[Gateway][t] = extra[Gateway][t] + more
      /\ \A d \in Days \ {t} : /\ spent'[Gateway][d] = spent[Gateway][d]
                               /\ extra'[Gateway][d] = extra[Gateway][d]
  BY <1>1, <1>3, <1>4, RecordEffect
<1>8. /\ ledger'[Gateway] = [day |-> t, used |-> u] /\ ledger'[Gateway].day = t
      /\ ledger[Gateway].day <= t /\ NothingAhead' /\ FileFollows'
  <2>1. u \in Nat
    BY <1>5
  <2> QED
    BY <1>1, <1>6, <1>7, <2>1, GatewaySet
<1>9. ASSUME NEW CONSTANT d
      PROVE  ReservedOn(d)' = ReservedOn(d) /\ LateReleases(d)' = LateReleases(d)
  BY DEF ReservedOn, LateReleases
<1>10. SomeChecked' = SomeChecked
  BY DEF SomeChecked
<1>11. LedgerAgrees'
  <2>1. /\ Worth(LateReleases(t)') = Worth(LateReleases(t))
        /\ Worth(ReservedOn(t)') = Worth(ReservedOn(t))
        /\ spent[Gateway][t] \in Nat /\ Worth(LateReleases(t)) \in Nat
        /\ Worth(ReservedOn(t)) \in Nat
    BY <1>5, <1>9, ClaimTerms, WorthOfDays
  <2>2. /\ Used(Gateway) <= spent[Gateway][t] + Worth(ReservedOn(t))
        /\ spent[Gateway][t] + Worth(ReservedOn(t)) <= Used(Gateway) + Worth(LateReleases(t))
    BY <1>5 DEF Accounted
  <2>3. /\ u <= spent'[Gateway][t] + Worth(ReservedOn(t)')
        /\ spent'[Gateway][t] + Worth(ReservedOn(t)') <= u + Worth(LateReleases(t)')
    BY <1>5, <1>7, <2>1, <2>2
  <2> QED
    BY <1>8, <2>3, AgreesNext
<1>12. LedgerTypeOK'
  BY <1>4, <1>6, <1>7 DEF LedgerTypeOK, Ledgers, Files
<1>13. DatesFollow' /\ ReservationsFit' /\ OneChecked'
  <2>1. ReservationsFit'
    BY DEF LedgerInvariant, ReservationsFit, ReservationFits
  <2>2. OneChecked'
    BY DEF LedgerInvariant, OneChecked
  <2>3. ledger[Gateway].day \in Int /\ t \in Int
    BY <1>4, <1>5 DEF LedgerTypeOK, Ledgers, Days
  <2>4. \A b \in Audits : /\ audit[b].reservedOn \in Int /\ audit[b].releasedOn \in Int
    BY <1>4 DEF LedgerTypeOK, AuditState, Days, Never
  <2>5. \A b \in Audits : audit'[b].reservedOn <= t /\ audit'[b].releasedOn <= t
    BY <1>8, <2>3, <2>4 DEF LedgerInvariant, DatesFollow
  <2>6. DatesFollow'
    BY <1>1, <1>8, <2>3, <2>5 DEF DatesFollow
  <2> QED
    BY <2>1, <2>2, <2>6
<1>14. Claims'
  <2>1. ASSUME NEW CONSTANT d \in Days
        PROVE  /\ spent'[Gateway][d] + Worth(Running(d)') <=
                     Budget + extra'[Gateway][d] + Worth(LateReleases(d)')
               /\ (d = today' /\ SomeChecked') =>
                     spent'[Gateway][d] + Worth(Running(d)') + Estimate <=
                       Budget + extra'[Gateway][d] + Worth(LateReleases(d)')
    <3>1. /\ Worth(LateReleases(d)') = Worth(LateReleases(d))
          /\ Worth(Running(d)') <= Worth(Running(d)) /\ Worth(Running(d)') \in Nat
      <4>1. Running(d) \in SUBSET Audits /\ Running(d)' \in SUBSET Running(d)
        BY DEF Running
      <4> QED
        BY <1>9, <4>1, WorthSubset, WorthOfDaysNext
    <3>2. CASE d # t
      BY <1>1, <1>7, <3>1, <3>2, ClaimTerms
    <3>3. CASE d = t /\ reserved = 0
      BY <1>1, <1>5, <1>7, <1>10, <3>1, <3>3, ClaimTerms
    <3>4. CASE d = t /\ reserved = Estimate
      <4>1. PICK a \in Running(d) : Running(d)' = Running(d) \ {a}
        BY <1>1, <3>4
      <4>2. Worth(Running(d)) = Worth(Running(d)') + Estimate
        <5>1. Running(d) \in SUBSET Audits
          BY DEF Running
        <5> QED
          BY <4>1, <5>1, WorthDrop
      <4>3. spent[Gateway][d] + tokens + Worth(Running(d)') <=
              spent[Gateway][d] + Worth(Running(d)) + more
        BY <1>5, <3>1, <3>4, <4>2, ClaimTerms
      <4> QED
        BY <1>1, <1>5, <1>7, <1>10, <3>1, <3>4, <4>2, <4>3, ClaimTerms
    <3> QED
      BY <3>2, <3>3, <3>4
  <2>2. SomeChecked' => Estimate <= Budget
    BY <1>10 DEF LedgerInvariant, Claims
  <2> QED
    BY <1>7, <2>1, <2>2, ClaimsNext
<1> QED
  BY <1>8, <1>11, <1>12, <1>13, <1>14 DEF LedgerInvariant

\* The thread of an audit ends.
LEMMA ThreadEnds ==
    ASSUME LedgerInvariant, NEW a \in Audits, audit[a].thread = "running",
           audit' = [audit EXCEPT ![a].thread = "ended"]
    PROVE  /\ audit' \in [Audits -> AuditState]
           /\ \A b \in Audits : /\ audit'[b].handler = audit[b].handler
                                /\ audit'[b].reservedOn = audit[b].reservedOn
                                /\ audit'[b].releasedOn = audit[b].releasedOn
                                /\ audit'[b].thread \in {audit[b].thread, "ended"}
           /\ \A d \in Days : Running(d)' = Running(d) \ {a}
<1>1. PICK x : x = [audit[a] EXCEPT !.thread = "ended"]
  OBVIOUS
<1>2. LedgerTypeOK /\ audit[a] \in AuditState
  BY DEF LedgerInvariant, LedgerTypeOK
<1>3. /\ x \in AuditState /\ x.thread = "ended" /\ x.handler = audit[a].handler
      /\ x.reservedOn = audit[a].reservedOn /\ x.releasedOn = audit[a].releasedOn
  BY <1>1, <1>2 DEF AuditState
<1>4. audit' = [audit EXCEPT ![a] = x]
  BY <1>1, <1>2 DEF LedgerTypeOK
<1>5. /\ audit' \in [Audits -> AuditState]
      /\ audit'[a] = x /\ \A b \in Audits \ {a} : audit'[b] = audit[b]
  BY <1>2, <1>3, <1>4, AuditMoves
<1>6. ASSUME NEW CONSTANT d \in Days PROVE Running(d)' = Running(d) \ {a}
  <2>1. x.thread # "running"
    BY <1>3
  <2> QED
    BY <1>2, <1>3, <1>4, <2>1, RunningMoves
<1> QED
  BY <1>3, <1>5, <1>6

LEMMA CompletionKeeps ==
    ASSUME LedgerInvariant, SoleWriter, NEW a \in Audits, NEW tokens \in Spends,
           Answer(a, tokens)
    PROVE  LedgerInvariant'
<1>1. PICK reserved : reserved = IF audit[a].handler = "waiting" /\ audit[a].reservedOn = today
                                 THEN Estimate ELSE 0
  OBVIOUS
<1>2. /\ audit[a].thread = "running" /\ audit' = [audit EXCEPT ![a].thread = "ended"]
      /\ Record(Gateway, tokens, reserved) /\ today' = today /\ calls' = calls
  BY <1>1 DEF Answer
<1>3. /\ tokens \in Nat /\ reserved \in {0, Estimate} /\ calls' \in Nat /\ Estimate # 0
  BY <1>1, <1>2, LedgerAssumption DEF LedgerInvariant, LedgerTypeOK
<1>4. /\ audit' \in [Audits -> AuditState]
      /\ \A b \in Audits : /\ audit'[b].handler = audit[b].handler
                           /\ audit'[b].reservedOn = audit[b].reservedOn
                           /\ audit'[b].releasedOn = audit[b].releasedOn
                           /\ audit'[b].thread \in {audit[b].thread, "ended"}
      /\ \A d \in Days : Running(d)' = Running(d) \ {a}
  BY <1>2, ThreadEnds
<1>5. ASSUME NEW CONSTANT d \in Days, reserved = Estimate, d = today
      PROVE  a \in Running(d)
  BY <1>1, <1>2, <1>3, <1>5 DEF Running
<1> QED
  BY <1>2, <1>3, <1>4, <1>5, RecordingKeeps

LEMMA FailCallKeeps ==
    ASSUME LedgerInvariant, SoleWriter, NEW a \in Audits, FailCall(a)
    PROVE  LedgerInvariant'
<1>1. /\ audit[a].thread = "running" /\ audit' = [audit EXCEPT ![a].thread = "ended"]
      /\ UNCHANGED <<today, ledger, store, calls, spent, extra>>
  BY DEF FailCall
<1>2. /\ audit' \in [Audits -> AuditState]
      /\ \A b \in Audits : /\ audit'[b].handler = audit[b].handler
                           /\ audit'[b].reservedOn = audit[b].reservedOn
                           /\ audit'[b].releasedOn = audit[b].releasedOn
                           /\ audit'[b].thread \in {audit[b].thread, "ended"}
      /\ \A d \in Days : Running(d)' = Running(d) \ {a}
  BY <1>1, ThreadEnds
<1>3. ASSUME NEW CONSTANT d
      PROVE  ReservedOn(d)' = ReservedOn(d) /\ LateReleases(d)' = LateReleases(d)
  BY <1>2 DEF ReservedOn, LateReleases
<1>4. NothingAhead' /\ FileFollows' /\ LedgerAgrees'
  BY <1>1, <1>3, LedgerRests
<1>5. LedgerTypeOK'
  BY <1>1, <1>2 DEF LedgerInvariant, LedgerTypeOK
<1>6. ReservationsFit' /\ OneChecked' /\ DatesFollow'
  BY <1>1, <1>2 DEF LedgerInvariant, ReservationsFit, ReservationFits, OneChecked, DatesFollow
<1>7. Claims'
  <2>1. SomeChecked' = SomeChecked
    BY <1>2 DEF SomeChecked
  <2>2. ASSUME NEW CONSTANT d \in Days
        PROVE  /\ spent'[Gateway][d] + Worth(Running(d)') <=
                     Budget + extra'[Gateway][d] + Worth(LateReleases(d)')
               /\ (d = today' /\ SomeChecked') =>
                     spent'[Gateway][d] + Worth(Running(d)') + Estimate <=
                       Budget + extra'[Gateway][d] + Worth(LateReleases(d)')
    <3>1. /\ Worth(LateReleases(d)') = Worth(LateReleases(d))
          /\ Worth(Running(d)') <= Worth(Running(d)) /\ Worth(Running(d)') \in Nat
      <4>1. Running(d) \in SUBSET Audits /\ Running(d)' \in SUBSET Running(d)
        BY <1>2 DEF Running
      <4> QED
        BY <1>3, <4>1, WorthSubset, WorthOfDaysNext
    <3> QED
      BY <1>1, <2>1, <3>1, ClaimTerms
  <2>3. spent' \in [Processes -> [Days -> Nat]] /\ (SomeChecked' => Estimate <= Budget)
    BY <1>1, <2>1 DEF LedgerInvariant, LedgerTypeOK, Claims
  <2> QED
    BY <2>2, <2>3, ClaimsNext
<1> QED
  BY <1>4, <1>5, <1>6, <1>7 DEF LedgerInvariant

LEMMA AgentCallKeeps ==
    ASSUME LedgerInvariant, SoleWriter, NEW p \in Processes, NEW tokens \in Spends,
           AgentCall(p, tokens)
    PROVE  LedgerInvariant'
<1>1. /\ Record(p, tokens, 0) /\ today' = today /\ audit' = audit /\ calls' = calls + 1
      /\ tokens \in Nat
  BY LedgerAssumption DEF AgentCall
<1>2. /\ LedgerTypeOK /\ calls' \in Nat /\ audit' \in [Audits -> AuditState]
      /\ Estimate \in Nat \ {0}
  BY <1>1, LedgerAssumption DEF LedgerInvariant, LedgerTypeOK
<1>3. ASSUME NEW CONSTANT d
      PROVE  /\ ReservedOn(d)' = ReservedOn(d) /\ LateReleases(d)' = LateReleases(d)
             /\ Running(d)' = Running(d)
  BY <1>1 DEF ReservedOn, LateReleases, Running
<1>4. CASE p = Gateway
  BY <1>1, <1>2, <1>3, <1>4, RecordingKeeps
<1>5. CASE p # Gateway
  <2>1. Add(p, tokens) /\ tokens \in Int
    BY <1>1 DEF Record
  <2>2. /\ ledger' \in [Processes -> Ledgers] /\ store' \in Files
        /\ ledger' = [ledger EXCEPT ![p] =
              [day |-> today, used |-> AtLeastZero(Used(p) + tokens)]]
    BY <1>1, <1>2, <2>1, AddEffect
  <2>3. /\ ledger'[Gateway] = ledger[Gateway] /\ Gateway \in Processes
    BY <1>2, <1>5, <2>2, LedgerAssumption DEF LedgerTypeOK
  <2>4. /\ spent' \in [Processes -> [Days -> Nat]] /\ extra' \in [Processes -> [Days -> Nat]]
        /\ spent'[Gateway] = spent[Gateway] /\ extra'[Gateway] = extra[Gateway]
    BY <1>1, <1>2, <1>5, <2>3, RecordEffect
  <2>5. ~MayRestart
    BY <1>5 DEF SoleWriter
  <2>6. NothingAhead' /\ FileFollows' /\ LedgerAgrees'
    BY <1>3, <2>3, <2>4, <2>5, LedgerRests
  <2>7. LedgerTypeOK'
    BY <1>1, <1>2, <2>2, <2>4 DEF LedgerTypeOK, Ledgers, Files
  <2>8. DatesFollow' /\ ReservationsFit' /\ OneChecked'
    BY <1>1, <2>3 DEF LedgerInvariant, ReservationsFit, OneChecked, DatesFollow
  <2>9. Claims'
    <3>1. SomeChecked' = SomeChecked
      BY <1>1 DEF SomeChecked
    <3>2. ASSUME NEW CONSTANT d \in Days PROVE Claim(d)'
      <4>1. Claim(d)
        BY DEF LedgerInvariant, Claims
      <4> QED
        BY <1>1, <1>3, <2>4, <3>1, <4>1 DEF Claim, Pending, Worth
    <3> QED
      BY <3>1, <3>2 DEF LedgerInvariant, Claims
  <2> QED
    BY <2>6, <2>7, <2>8, <2>9 DEF LedgerInvariant
<1> QED
  BY <1>4, <1>5

LEMMA MidnightKeeps ==
    ASSUME LedgerInvariant, SoleWriter, Midnight
    PROVE  LedgerInvariant'
<1>1. /\ today < MaxDay /\ today' = today + 1
      /\ UNCHANGED <<ledger, store, audit, calls, spent, extra>>
  BY DEF Midnight
<1>2. LedgerTypeOK /\ today \in Days /\ today' \in Days /\ MaxDay \in Nat
  BY <1>1, LedgerAssumption DEF LedgerInvariant, LedgerTypeOK, Days
<1>3. ASSUME NEW CONSTANT d
      PROVE  /\ ReservedOn(d)' = ReservedOn(d) /\ LateReleases(d)' = LateReleases(d)
             /\ Running(d)' = Running(d)
  BY <1>1 DEF ReservedOn, LateReleases, Running
<1>4. NothingAhead' /\ FileFollows' /\ LedgerAgrees'
  BY <1>1, <1>3, LedgerRests
<1>5. LedgerTypeOK' /\ ReservationsFit' /\ OneChecked'
  BY <1>1, <1>2 DEF LedgerInvariant, LedgerTypeOK, ReservationsFit, OneChecked
<1>6. ledger[Gateway].day \in Nat /\ ledger[Gateway].day < today'
  BY <1>1, <1>2, LedgerAssumption DEF LedgerInvariant, LedgerTypeOK, DatesFollow, Days
<1>7. DatesFollow'
  BY <1>1, <1>2, <1>6 DEF LedgerInvariant, DatesFollow, Days
<1>8. Claims'
  <2>1. (SomeChecked' = SomeChecked) /\ (SomeChecked => Estimate <= Budget)
    BY <1>1 DEF SomeChecked, LedgerInvariant, Claims
  <2>2. ASSUME NEW CONSTANT d \in Days
        PROVE  /\ spent'[Gateway][d] + Worth(Running(d)') <=
                     Budget + extra'[Gateway][d] + Worth(LateReleases(d)')
               /\ (d = today' /\ SomeChecked') =>
                     spent'[Gateway][d] + Worth(Running(d)') + Estimate <=
                       Budget + extra'[Gateway][d] + Worth(LateReleases(d)')
    <3>1. /\ Worth(LateReleases(d)') = Worth(LateReleases(d))
          /\ Worth(Running(d)') = Worth(Running(d))
      BY <1>3
    <3>2. ASSUME d = today', SomeChecked
          PROVE  spent[Gateway][d] + Worth(Running(d)) + Estimate <=
                   Budget + extra[Gateway][d] + Worth(LateReleases(d))
      <4>1. spent[Gateway][d] = 0 /\ Worth(Running(d)) = 0
        BY <1>6, <3>2, AheadIsEmpty, WorthEmpty
      <4> QED
        BY <2>1, <3>2, <4>1, ClaimTerms
    <3> QED
      BY <1>1, <2>1, <3>1, <3>2, ClaimTerms
  <2>3. spent' \in [Processes -> [Days -> Nat]] /\ (SomeChecked' => Estimate <= Budget)
    BY <1>1, <1>2, <2>1 DEF LedgerTypeOK
  <2> QED
    BY <2>2, <2>3, ClaimsNext
<1> QED
  BY <1>4, <1>5, <1>7, <1>8 DEF LedgerInvariant

LEMMA ReleaseKeeps ==
    ASSUME LedgerInvariant, SoleWriter, NEW a \in Audits, Release(a)
    PROVE  LedgerInvariant'
<1> USE LedgerAssumption
<1>1. PICK t : t = today
  OBVIOUS
<1>2. PICK x : x = [audit[a] EXCEPT !.handler = "done", !.releasedOn = t]
  OBVIOUS
<1>3. PICK u : u = AtLeastZero(Used(Gateway) + (-Estimate))
  OBVIOUS
<1>4. /\ audit[a].handler = "waiting" /\ LoopFree
      /\ today' = today /\ calls' = calls /\ spent' = spent /\ extra' = extra
      /\ Add(Gateway, -Estimate)
      /\ audit' = [audit EXCEPT ![a].handler = "done", ![a].releasedOn = today]
  BY DEF Release, Returns, Settled
<1>5. LedgerTypeOK /\ audit[a] \in AuditState /\ ReservationFits(audit[a])
  BY DEF LedgerInvariant, LedgerTypeOK, ReservationsFit
<1>6. /\ t \in Days /\ Used(Gateway) \in Nat /\ Accounted(Used(Gateway), t)
      /\ Estimate \in Nat /\ u \in Nat /\ u <= Used(Gateway)
      /\ u = 0 \/ u = Used(Gateway) - Estimate
      /\ Used(Gateway) - Estimate <= u
  <2>1. t \in Days /\ Used(Gateway) \in Nat /\ Accounted(Used(Gateway), t)
    BY <1>1, TodayAccounts
  <2>2. Used(Gateway) + (-Estimate) = Used(Gateway) - Estimate /\ Used(Gateway) - Estimate \in Int
    BY <2>1
  <2>3. u = IF Used(Gateway) - Estimate < 0 THEN 0 ELSE Used(Gateway) - Estimate
    BY <1>3, <2>2 DEF AtLeastZero
  <2> QED
    BY <2>1, <2>2, <2>3
<1>7. /\ x.handler = "done" /\ x.releasedOn = t /\ x.reservedOn = audit[a].reservedOn
      /\ x.thread = audit[a].thread
      /\ x \in AuditState /\ ReservationFits(x)
  <2>1. /\ x.handler = "done" /\ x.releasedOn = t /\ x.reservedOn = audit[a].reservedOn
        /\ x.thread = audit[a].thread
    BY <1>2, <1>5 DEF AuditState
  <2>2. "done" \in Handlers /\ t \in Days \cup {Never}
    BY <1>6 DEF Handlers
  <2>3. x \in AuditState
    BY <1>2, <1>5, <2>2 DEF AuditState
  <2> QED
    BY <2>1, <2>3 DEF ReservationFits
<1>8. audit' = [audit EXCEPT ![a] = x]
  BY <1>1, <1>2, <1>4, <1>5 DEF LedgerTypeOK
<1>9. /\ ledger' \in [Processes -> Ledgers] /\ store' \in Files
      /\ ledger' = [ledger EXCEPT ![Gateway] = [day |-> t, used |-> u]]
      /\ SaveOutcomes = {TRUE} => store' = ledger'[Gateway]
  <2>1. Gateway \in Processes /\ -Estimate \in Int
    BY <1>6
  <2>2. /\ ledger' \in [Processes -> Ledgers] /\ store' \in Files
        /\ ledger' = [ledger EXCEPT ![Gateway] =
              [day |-> today, used |-> AtLeastZero(Used(Gateway) + (-Estimate))]]
        /\ SaveOutcomes = {TRUE} => store' = ledger'[Gateway]
    BY <1>4, <1>5, <2>1, AddEffect
  <2> QED
    BY <1>1, <1>3, <2>2
<1>10. /\ ledger'[Gateway] = [day |-> t, used |-> u] /\ ledger'[Gateway].day = t
       /\ ledger[Gateway].day <= t /\ NothingAhead' /\ FileFollows'
  BY <1>1, <1>4, <1>6, <1>9, GatewaySet
<1>11. ASSUME NEW CONSTANT d \in Days
       PROVE  /\ ReservedOn(d)' = ReservedOn(d) \ {a} /\ Running(d)' = Running(d) \ {a}
              /\ a \in ReservedOn(d) <=> audit[a].reservedOn = d
              /\ a \notin LateReleases(d)
              /\ d = t /\ audit[a].reservedOn # t =>
                    LateReleases(d)' = LateReleases(d) \cup {a}
              /\ d # t \/ audit[a].reservedOn = t => LateReleases(d)' = LateReleases(d)
  <2>1. ReservedOn(d)' = ReservedOn(d) \ {a}
    BY <1>5, <1>7, <1>8, ReservedMoves
  <2>2. Running(d)' = Running(d) \ {a}
    BY <1>5, <1>7, <1>8, RunningMoves
  <2>3. a \in ReservedOn(d) <=> audit[a].reservedOn = d
    BY <1>4 DEF ReservedOn
  <2>4. a \notin LateReleases(d)
    BY <1>4, <1>5 DEF ReservationFits, LateReleases, Days, Never
  <2>5. d = t /\ audit[a].reservedOn # t => LateReleases(d)' = LateReleases(d) \cup {a}
    <3>1. CASE d = t /\ audit[a].reservedOn # t
      <4>1. x.releasedOn = d /\ x.reservedOn # d
        BY <1>7, <3>1
      <4> QED
        BY <1>5, <1>7, <1>8, <4>1, LateMoves
    <3> QED
      BY <3>1
  <2>6. d # t \/ audit[a].reservedOn = t => LateReleases(d)' = LateReleases(d) \ {a}
    <3>1. CASE d # t \/ audit[a].reservedOn = t
      <4>1. ~(x.releasedOn = d /\ x.reservedOn # d)
        BY <1>7, <3>1
      <4> QED
        BY <1>5, <1>7, <1>8, <4>1, LateMoves
    <3> QED
      BY <3>1
  <2> QED
    BY <2>1, <2>2, <2>3, <2>4, <2>5, <2>6
<1>12. LedgerAgrees'
  <2>1. /\ spent'[Gateway][t] = spent[Gateway][t] /\ spent[Gateway][t] \in Nat
        /\ Worth(LateReleases(t)) \in Nat /\ Worth(ReservedOn(t)) \in Nat
        /\ Worth(LateReleases(t)') \in Nat /\ Worth(ReservedOn(t)') \in Nat
        /\ ReservedOn(t) \in SUBSET Audits /\ LateReleases(t) \in SUBSET Audits
    BY <1>4, <1>6, ClaimTerms, WorthOfDays, WorthOfDaysNext
  <2>2. /\ Used(Gateway) <= spent[Gateway][t] + Worth(ReservedOn(t))
        /\ spent[Gateway][t] + Worth(ReservedOn(t)) <= Used(Gateway) + Worth(LateReleases(t))
    BY <1>6 DEF Accounted
  <2>3. CASE audit[a].reservedOn = t
    <3>1. Worth(ReservedOn(t)) = Worth(ReservedOn(t)') + Estimate
      BY <1>6, <1>11, <2>1, <2>3, WorthDrop
    <3>2. Worth(LateReleases(t)') = Worth(LateReleases(t))
      BY <1>6, <1>11, <2>3
    <3>3. /\ u <= spent'[Gateway][t] + Worth(ReservedOn(t)')
          /\ spent'[Gateway][t] + Worth(ReservedOn(t)') <= u + Worth(LateReleases(t)')
      BY <1>6, <2>1, <2>2, <3>1, <3>2
    <3> QED
      BY <1>10, <3>3, AgreesNext
  <2>4. CASE audit[a].reservedOn # t
    <3>1. Worth(ReservedOn(t)') = Worth(ReservedOn(t))
      <4>1. ReservedOn(t)' = ReservedOn(t)
        <5>1. a \notin ReservedOn(t) /\ ReservedOn(t)' = ReservedOn(t) \ {a}
          BY <1>6, <1>11, <2>4
        <5> QED
          BY <5>1
      <4> QED
        BY <4>1
    <3>2. Worth(LateReleases(t)') = Worth(LateReleases(t)) + Estimate
      BY <1>6, <1>11, <2>1, <2>4, WorthAdd
    <3>3. /\ u <= spent'[Gateway][t] + Worth(ReservedOn(t)')
          /\ spent'[Gateway][t] + Worth(ReservedOn(t)') <= u + Worth(LateReleases(t)')
      BY <1>6, <2>1, <2>2, <3>1, <3>2
    <3> QED
      BY <1>10, <3>3, AgreesNext
  <2> QED
    BY <2>3, <2>4
<1>13. LedgerTypeOK'
  <2>1. audit' \in [Audits -> AuditState]
    BY <1>5, <1>7, <1>8, AuditMoves
  <2> QED
    BY <1>4, <1>5, <1>9, <2>1 DEF LedgerTypeOK, Ledgers, Files
<1>14. DatesFollow' /\ ReservationsFit' /\ OneChecked'
  <2>1. x.reservedOn <= t /\ x.releasedOn <= t /\ t <= today' /\ x.handler # "checked"
    <3>1. audit[a].reservedOn <= ledger[Gateway].day
      BY DEF LedgerInvariant, DatesFollow
    <3>2. /\ audit[a].reservedOn \in Int /\ ledger[Gateway].day \in Int /\ t \in Int
      BY <1>5, <1>6 DEF LedgerTypeOK, AuditState, Days, Never
    <3> QED
      BY <1>1, <1>4, <1>7, <1>10, <3>1, <3>2
  <2> QED
    BY <1>4, <1>7, <1>8, <1>9, <1>10, <2>1, AuditsFit
<1>15. Claims'
  <2>1. ~SomeChecked'
    BY <1>4, <1>5, <1>7, <1>8, AuditMoves DEF SomeChecked, LoopFree
  <2>2. ASSUME NEW CONSTANT d \in Days
        PROVE  spent'[Gateway][d] + Worth(Running(d)') <=
                 Budget + extra'[Gateway][d] + Worth(LateReleases(d)')
    <3>1. /\ Worth(Running(d)') <= Worth(Running(d)) /\ Worth(Running(d)') \in Nat
      <4>1. Running(d) \in SUBSET Audits /\ Running(d)' \in SUBSET Running(d)
        BY <1>11 DEF Running
      <4> QED
        BY <4>1, WorthSubset, WorthOfDaysNext
    <3>2. Worth(LateReleases(d)) <= Worth(LateReleases(d)') /\ Worth(LateReleases(d)') \in Nat
      <4>1. LateReleases(d)' \in SUBSET Audits /\ LateReleases(d) \in SUBSET LateReleases(d)'
        BY <1>11, WorthOfDaysNext
      <4> QED
        BY <4>1, WorthSubset, WorthOfDaysNext
    <3> QED
      BY <1>4, <3>1, <3>2, ClaimTerms
  <2>3. spent' \in [Processes -> [Days -> Nat]]
    BY <1>4, <1>5 DEF LedgerTypeOK
  <2> QED
    BY <2>1, <2>2, <2>3, ClaimsNext
<1> QED
  BY <1>10, <1>12, <1>13, <1>14, <1>15 DEF LedgerInvariant

\* What a restart makes of an audit.
LEMMA RestartedAudit ==
    ASSUME LedgerInvariant, Restart, NEW b \in Audits
    PROVE  /\ audit'[b] \in AuditState /\ ReservationFits(audit'[b])
           /\ audit'[b].reservedOn = audit[b].reservedOn
           /\ audit'[b].releasedOn = audit[b].releasedOn
           /\ audit'[b].handler \notin {"waiting", "checked"}
           /\ audit'[b].handler = "dead" <=> audit[b].handler \in {"waiting", "dead"}
<1>1. PICK y : y = audit[b]
  OBVIOUS
<1>2. y \in AuditState /\ ReservationFits(y)
  BY <1>1 DEF LedgerInvariant, LedgerTypeOK, ReservationsFit
<1>3. audit'[b] = IF y.handler = "new" THEN NewAudit
                  ELSE [y EXCEPT !.handler = CASE @ = "waiting" -> "dead"
                                               [] @ = "checked" -> "refused"
                                               [] OTHER -> @,
                                 !.thread = "ended"]
  BY <1>1 DEF Restart
<1>4. CASE y.handler = "new"
  <2>1. audit'[b] = NewAudit /\ y.reservedOn = Never /\ y.releasedOn = Never
    BY <1>2, <1>3, <1>4 DEF ReservationFits
  <2> QED
    BY <1>1, <1>4, <2>1 DEF NewAudit, AuditState, Handlers, ReservationFits
<1>5. CASE y.handler # "new"
  <2>1. PICK h : h = CASE y.handler = "waiting" -> "dead"
                       [] y.handler = "checked" -> "refused"
                       [] OTHER -> y.handler
    OBVIOUS
  <2>2. audit'[b] = [y EXCEPT !.handler = h, !.thread = "ended"]
    BY <1>3, <1>5, <2>1
  <2>3. /\ h \in Handlers /\ h \notin {"waiting", "checked", "new"}
        /\ h = "dead" <=> y.handler \in {"waiting", "dead"}
        /\ h = "refused" => y.handler \in {"checked", "refused"}
    BY <1>2, <1>5, <2>1 DEF AuditState, Handlers
  <2>4. /\ audit'[b] \in AuditState /\ audit'[b].handler = h /\ audit'[b].thread = "ended"
        /\ audit'[b].reservedOn = y.reservedOn /\ audit'[b].releasedOn = y.releasedOn
    BY <1>2, <2>2, <2>3 DEF AuditState
  <2> QED
    BY <1>1, <1>2, <2>3, <2>4 DEF ReservationFits
<1> QED
  BY <1>4, <1>5

LEMMA RestartKeeps ==
    ASSUME LedgerInvariant, SoleWriter, Restart
    PROVE  LedgerInvariant'
<1> USE LedgerAssumption
<1>1. PICK t, g : t = today /\ g = ledger[Gateway]
  OBVIOUS
<1>2. /\ MayRestart /\ today' = today /\ store' = store /\ calls' = calls
      /\ spent' = spent /\ extra' = extra
      /\ ledger' = [ledger EXCEPT ![Gateway] = Loaded(store)]
  BY DEF Restart
<1>3. /\ LedgerTypeOK /\ t \in Days /\ g \in Ledgers /\ store \in Files
      /\ ledger \in [Processes -> Ledgers] /\ g.day <= t
  BY <1>1 DEF LedgerInvariant, LedgerTypeOK, Ledgers, Files, DatesFollow
<1>4. \A b \in Audits : /\ audit'[b] \in AuditState /\ ReservationFits(audit'[b])
                        /\ audit'[b].reservedOn = audit[b].reservedOn
                        /\ audit'[b].releasedOn = audit[b].releasedOn
                        /\ audit'[b].handler \notin {"waiting", "checked"}
                        /\ audit'[b].handler = "dead" <=> audit[b].handler \in {"waiting", "dead"}
  BY RestartedAudit
<1>5. ASSUME NEW CONSTANT d
      PROVE  /\ ReservedOn(d)' = ReservedOn(d) /\ LateReleases(d)' = LateReleases(d)
             /\ Running(d)' = {}
  BY <1>4 DEF ReservedOn, LateReleases, Running
<1>6. /\ Loaded(store) \in Ledgers /\ Loaded(store).day = t
      /\ g.day = t => Loaded(store) = g
      /\ g.day # t => Loaded(store) = [day |-> t, used |-> 0]
      /\ store = Loaded(store) \/ (store.day < t /\ Loaded(store).used = 0)
  <2>1. store = g \/ (store.day < g.day /\ g.used = 0)
    BY <1>1, <1>2 DEF LedgerInvariant, FileFollows
  <2>2. g.day \in Nat /\ t \in Nat /\ store.day \in Int
    BY <1>3 DEF Ledgers, Files, Days, Never
  <2>3. g = [day |-> g.day, used |-> g.used]
    BY <1>3 DEF Ledgers
  <2>4. CASE store.day = t
    <3>1. store = g /\ Loaded(store) = store
      BY <1>1, <1>3, <2>1, <2>2, <2>4 DEF Loaded
    <3> QED
      BY <1>3, <2>4, <3>1
  <2>5. CASE store.day # t
    <3>1. Loaded(store) = [day |-> t, used |-> 0]
      BY <1>1, <2>5 DEF Loaded
    <3>2. store.day < t
      BY <1>3, <2>1, <2>2, <2>5
    <3>3. g.day = t => Loaded(store) = g
      BY <2>1, <2>3, <2>5, <3>1
    <3> QED
      BY <1>3, <3>1, <3>2, <3>3 DEF Ledgers
  <2> QED
    BY <2>4, <2>5
<1>7. /\ ledger' \in [Processes -> Ledgers] /\ ledger'[Gateway] = Loaded(store)
  BY <1>2, <1>3, <1>6
<1>8. LedgerTypeOK'
  <2>1. audit' \in [Audits -> AuditState]
    <3>1. audit' = [b \in Audits |-> audit'[b]]
      BY DEF Restart
    <3> QED
      BY <1>4, <3>1
  <2> QED
    BY <1>2, <1>3, <1>7, <2>1 DEF LedgerTypeOK, Ledgers, Files
<1>9. DatesFollow' /\ ReservationsFit' /\ OneChecked'
  <2>1. g.day \in Int /\ t \in Int
    BY <1>3 DEF Ledgers, Days
  <2>2. \A b \in Audits : audit[b].reservedOn \in Int /\ audit[b].releasedOn \in Int
    BY <1>3 DEF LedgerTypeOK, AuditState, Days, Never
  <2>3. \A b \in Audits : audit[b].reservedOn <= g.day /\ audit[b].releasedOn <= g.day
    BY <1>1 DEF LedgerInvariant, DatesFollow
  <2>4. ledger'[Gateway].day = t
    BY <1>6, <1>7
  <2>5. \A b \in Audits : audit'[b].reservedOn <= t /\ audit'[b].releasedOn <= t
    BY <1>3, <1>4, <2>1, <2>2, <2>3
  <2>6. DatesFollow'
    BY <1>1, <1>2, <2>1, <2>4, <2>5 DEF DatesFollow
  <2> QED
    BY <1>4, <2>6 DEF ReservationsFit, OneChecked
<1>10. NothingAhead'
  <2>1. \A d \in Days : d > t => d > g.day
    BY <1>3 DEF Ledgers, Days
  <2> QED
    BY <1>1, <1>2, <1>6, <1>7, <2>1 DEF LedgerInvariant, NothingAhead
<1>11. FileFollows'
  BY <1>2, <1>6, <1>7 DEF FileFollows
<1>12. LedgerAgrees'
  <2>1. CASE g.day = t
    <3>1. ledger'[Gateway] = ledger[Gateway]
      BY <1>1, <1>6, <1>7, <2>1
    <3> QED
      BY <1>2, <1>5, <3>1, LedgerRests
  <2>2. CASE g.day # t
    <3>1. t > g.day
      BY <1>3, <2>2 DEF Ledgers, Days
    <3>2. /\ spent'[Gateway][t] = 0 /\ Worth(ReservedOn(t)') = 0
          /\ Worth(LateReleases(t)') = 0
      BY <1>1, <1>2, <1>3, <1>5, <3>1, AheadIsEmpty, WorthEmpty
    <3>3. ledger'[Gateway] = [day |-> t, used |-> 0]
      BY <1>6, <1>7, <2>2
    <3> QED
      BY <3>2, <3>3, AgreesNext
  <2> QED
    BY <2>1, <2>2
<1>13. Claims'
  <2>1. ~SomeChecked'
    BY <1>4 DEF SomeChecked
  <2>2. ASSUME NEW CONSTANT d \in Days
        PROVE  spent'[Gateway][d] + Worth(Running(d)') <=
                 Budget + extra'[Gateway][d] + Worth(LateReleases(d)')
    <3>1. Worth(Running(d)') = 0 /\ Worth(LateReleases(d)') = Worth(LateReleases(d))
      BY <1>5, WorthEmpty
    <3> QED
      BY <1>2, <3>1, ClaimTerms
  <2>3. spent' \in [Processes -> [Days -> Nat]]
    BY <1>2, <1>3 DEF LedgerTypeOK
  <2> QED
    BY <2>1, <2>2, <2>3, ClaimsNext
<1> QED
  BY <1>8, <1>9, <1>10, <1>11, <1>12, <1>13 DEF LedgerInvariant

-----------------------------------------------------------------------------
(* The invariant holds. *)

LEMMA LedgerInitHolds == LedgerInit => LedgerInvariant
<1> SUFFICES ASSUME LedgerInit PROVE LedgerInvariant
  OBVIOUS
<1> USE LedgerAssumption
<1>1. 0 \in Days /\ MaxDay \in Nat
  BY DEF Days
<1>2. /\ \A a \in Audits : audit[a] = NewAudit
      /\ ledger[Gateway] = [day |-> 0, used |-> 0]
      /\ today = 0 /\ store = NoStore /\ Never = -1
      /\ \A d \in Days : spent[Gateway][d] = 0 /\ extra[Gateway][d] = 0
  BY DEF LedgerInit, Never
<1>3. NewAudit \in AuditState
  BY DEF NewAudit, AuditState, Handlers
<1>4. /\ NewAudit.handler = "new" /\ NewAudit.thread = "idle"
      /\ NewAudit.reservedOn = -1 /\ NewAudit.releasedOn = -1
  BY DEF NewAudit, Never
<1>5. LedgerTypeOK
  <2>1. NoStore \in Files
    BY DEF NoStore, Files
  <2>2. audit \in [Audits -> AuditState]
    BY <1>3 DEF LedgerInit
  <2>3. calls \in Nat /\ store \in Files /\ today \in Days
    BY <1>1, <1>2, <2>1 DEF LedgerInit
  <2>4. /\ ledger \in [Processes -> Ledgers]
        /\ spent \in [Processes -> [Days -> Nat]] /\ extra \in [Processes -> [Days -> Nat]]
    BY <1>1 DEF LedgerInit, Ledgers
  <2> QED
    BY <2>2, <2>3, <2>4 DEF LedgerTypeOK, Files, Ledgers
<1>6. DatesFollow /\ ReservationsFit /\ OneChecked
  BY <1>2, <1>4 DEF DatesFollow, ReservationsFit, ReservationFits, OneChecked, Never
<1>7. NothingAhead /\ FileFollows
  BY <1>2 DEF NothingAhead, FileFollows, NoStore
<1>8. ASSUME NEW d \in Days
      PROVE  /\ Worth(ReservedOn(d)) = 0 /\ Worth(LateReleases(d)) = 0
             /\ Worth(Running(d)) = 0
  <2>1. ReservedOn(d) = {} /\ LateReleases(d) = {} /\ Running(d) = {}
    BY <1>2, <1>4 DEF ReservedOn, LateReleases, Running, Days
  <2> QED
    BY <2>1, WorthEmpty
<1>9. LedgerAgrees
  BY <1>1, <1>2, <1>8 DEF LedgerAgrees, Accounted
<1>10. Claims
  <2>1. ~SomeChecked
    BY <1>2, <1>4 DEF SomeChecked
  <2>2. ASSUME NEW d \in Days PROVE Claim(d)
    BY <1>2, <1>8, <2>1 DEF Claim, Pending
  <2> QED
    BY <2>1, <2>2 DEF Claims
<1> QED
  BY <1>5, <1>6, <1>7, <1>9, <1>10 DEF LedgerInvariant

LEMMA LedgerStepKeeps ==
    SoleWriter /\ LedgerInvariant /\ [LedgerNext]_ledgerVars => LedgerInvariant'
<1> SUFFICES ASSUME SoleWriter, LedgerInvariant, [LedgerNext]_ledgerVars
             PROVE  LedgerInvariant'
  OBVIOUS
<1>1. CASE UNCHANGED ledgerVars
  <2>1. /\ LedgerTypeOK' /\ DatesFollow' /\ ReservationsFit' /\ OneChecked'
        /\ NothingAhead' /\ FileFollows'
    BY <1>1 DEF LedgerInvariant, ledgerVars, LedgerTypeOK, DatesFollow, ReservationsFit,
                OneChecked, NothingAhead, FileFollows
  <2>2. LedgerAgrees' /\ Claims'
    BY <1>1 DEF LedgerInvariant, ledgerVars, LedgerAgrees, Accounted, Claims, Claim, Pending,
                SomeChecked, Worth, ReservedOn, LateReleases, Running
  <2> QED
    BY <2>1, <2>2 DEF LedgerInvariant
<1>2. CASE LedgerNext
  <2>1. ASSUME NEW a \in Audits, Handle(a) PROVE LedgerInvariant'
    BY <2>1, CheckKeeps, ReserveKeeps, ReleaseKeeps DEF Handle
  <2>2. ASSUME NEW a \in Audits, FailCall(a) PROVE LedgerInvariant'
    BY <2>2, FailCallKeeps
  <2>3. ASSUME NEW a \in Audits, NEW tokens \in Spends, Answer(a, tokens)
        PROVE  LedgerInvariant'
    BY <2>3, CompletionKeeps
  <2>4. ASSUME NEW p \in Processes, NEW tokens \in Spends, AgentCall(p, tokens)
        PROVE  LedgerInvariant'
    BY <2>4, AgentCallKeeps
  <2> QED
    BY <1>2, <2>1, <2>2, <2>3, <2>4, MidnightKeeps, RestartKeeps DEF LedgerNext
<1> QED
  BY <1>1, <1>2

LEMMA LedgerInvariantAccounts == LedgerInvariant => LedgerAccounts
<1> SUFFICES ASSUME LedgerInvariant PROVE LedgerAccounts
  OBVIOUS
<1>1. PICK t, u : t = ledger[Gateway].day /\ u = ledger[Gateway].used
  OBVIOUS
<1>2. /\ t \in Days /\ u \in Nat
  BY <1>1, LedgerAssumption DEF LedgerInvariant, LedgerTypeOK
<1>3. Accounted(u, t)
  BY <1>1 DEF LedgerInvariant, LedgerAgrees
<1>4. /\ Worth(ReservedOn(t)) \in Nat /\ Worth(LateReleases(t)) \in Nat
      /\ spent[Gateway][t] \in Nat
  BY <1>2, WorthOfDays, ClaimTerms
<1>5. NeverOverclaims
  BY <1>1, <1>3 DEF NeverOverclaims, Accounted, Worth
<1>6. spent[Gateway][t] <= u + Worth(LateReleases(t))
  BY <1>2, <1>3, <1>4 DEF Accounted
<1>7. NeverForgets
  BY <1>1, <1>6 DEF NeverForgets, Worth
<1>8. OverspendExplained
  <2>1. ASSUME NEW CONSTANT d \in Days
        PROVE  spent[Gateway][d] <= Budget + extra[Gateway][d] + Worth(LateReleases(d))
    BY ClaimTerms
  <2> QED
    BY <2>1 DEF OverspendExplained, Worth
<1> QED
  BY <1>5, <1>7, <1>8 DEF LedgerAccounts

\* A gateway that is alone on its store file, and can write it, never claims
\* more of a day than was recorded and is reserved, never forgets what was
\* recorded, and exceeds the budget of a day only by what nobody reserved: for
\* every number of audits, budget, estimate and sequence of timeouts, late
\* answers, midnights and restarts.  Without restarts it holds of a gateway
\* with neighbours and a store that cannot be written, too.
THEOREM LedgerIsSafe == SoleWriter => (LedgerSpec => []LedgerAccounts)
<1> SUFFICES ASSUME SoleWriter PROVE LedgerSpec => []LedgerAccounts
  OBVIOUS
<1>1. LedgerInit => LedgerInvariant
  BY LedgerInitHolds
<1>2. LedgerInvariant /\ [LedgerNext]_ledgerVars => LedgerInvariant'
  BY LedgerStepKeeps
<1>3. LedgerInvariant => LedgerAccounts
  BY LedgerInvariantAccounts
<1> QED
  BY <1>1, <1>2, <1>3, PTL DEF LedgerSpec

-----------------------------------------------------------------------------
(* Turn audits. *)

\* What a submission's handler holds from its lookup on.
Handling == [pc : {"auditing", "decided", "done"}, request : Requests,
             policy : Outcomes, outcome : Outcomes, audit : Submissions \cup {None},
             verdict : Verdicts \cup {None}, at : Nat, earlier : SUBSET Submissions]

TurnTypeOK ==
    /\ open \in BOOLEAN /\ now \in Nat
    /\ audits \in [Submissions -> AuditRow \cup {None}]
    /\ actions \in [Submissions -> ActionRow \cup {None}]
    /\ \A s \in Submissions : submit[s] \in Handling \/ submit[s] = NoRequest
    /\ DOMAIN submit = Submissions

Begun(s) == submit[s].pc # "new"

\* A stored action is what its handler held at the end.
ActionsAgree ==
    \A s \in Submissions : actions[s] # None =>
        /\ submit[s].pc = "done"
        /\ actions[s] = [turn    |-> TurnOf(s, submit[s].request),
                         audit   |-> submit[s].audit,
                         outcome |-> submit[s].outcome]

\* An audit is stored with the action that ran it, and only then.
AuditsAgree ==
    \A a \in Submissions :
        /\ (audits[a] # None) <=> (actions[a] # None /\ submit[a].audit = a)
        /\ audits[a] # None =>
              audits[a] = [verdict |-> submit[a].verdict, at |-> submit[a].at]

OwnAudits ==
    \A s \in Submissions : Begun(s) /\ submit[s].audit = s =>
        submit[s].verdict \in Verdicts /\ submit[s].at <= now

SameTurnAction(s, t) ==
    /\ SameAction(submit[s].request, submit[t].request)
    /\ TurnOf(t, submit[t].request) = TurnOf(s, submit[s].request)

\* An audit that was found is stored and was of this action in this turn.
AuditsFound ==
    \A s \in Submissions : Begun(s) /\ submit[s].audit \notin {None, s} =>
        audits[submit[s].audit] # None /\ SameTurnAction(s, submit[s].audit)

ToAudit(r, outcome) == outcome # "DENY" /\ AuditEnabled /\ Evidence(r) # << >>

VerdictOf(s) ==
    IF submit[s].audit = s THEN submit[s].verdict ELSE audits[submit[s].audit].verdict

\* The outcome is the policy's and what the requirement and the audit made of it.
OutcomesFollow ==
    \A s \in Submissions : Begun(s) =>
        LET x == submit[s]
            o == Required(x.request, x.policy)
        IN  /\ x.audit # None =>
                  /\ x.pc # "auditing" /\ ToAudit(x.request, o)
                  /\ x.outcome = Escalated(o, VerdictOf(s))
            /\ x.audit = None =>
                  /\ x.outcome = o
                  /\ (x.pc = "auditing") <=> ToAudit(x.request, o)

\* The audited actions it repeats, of those stored when it began.
Repeats(s) == {t \in submit[s].earlier : t \in Audited /\ Identical(s, t)}

ToBeAudited(s) == ToAudit(submit[s].request, Required(submit[s].request, submit[s].policy))

Retries ==
    \A s \in Submissions : Begun(s) =>
        /\ submit[s].earlier \subseteq Stored
        /\ Repeats(s) # {} /\ ToBeAudited(s) =>
              \E u \in Repeats(s) : submit[s].audit = actions[u].audit

TurnInvariant ==
    /\ TurnTypeOK /\ ActionsAgree /\ AuditsAgree /\ OwnAudits
    /\ AuditsFound /\ OutcomesFollow /\ Retries

-----------------------------------------------------------------------------
(* The operators. *)

LEMMA RequestType ==
    ASSUME NEW r \in Requests
    PROVE  r.trace \in Texts \cup {None} /\ r.summary \in Texts \cup {None}
           /\ r.turn \in Turns \cup {None}
BY TurnAuditAssumption DEF AnyRequest

\* What is audited is every text there is.
LEMMA TextsOfEvidence ==
    ASSUME NEW r \in Requests
    PROVE  {r.trace, r.summary} \ {None} = {Evidence(r)[i] : i \in 1 .. Len(Evidence(r))}
<1>1. CASE r.trace = None /\ r.summary = None
  <2>1. Evidence(r) = << >> /\ Len(Evidence(r)) = 0
    BY <1>1 DEF Evidence
  <2> QED
    BY <1>1, <2>1
<1>2. CASE r.trace = None /\ r.summary # None
  <2>1. Evidence(r) = <<r.summary>>
    BY <1>2 DEF Evidence
  <2>2. Len(Evidence(r)) = 1 /\ Evidence(r)[1] = r.summary /\ 1 .. 1 = {1}
    BY <2>1
  <2> QED
    BY <1>2, <2>2
<1>3. CASE r.trace # None /\ r.summary \in {None, r.trace}
  <2>1. Evidence(r) = <<r.trace>>
    BY <1>3 DEF Evidence
  <2>2. Len(Evidence(r)) = 1 /\ Evidence(r)[1] = r.trace /\ 1 .. 1 = {1}
    BY <2>1
  <2> QED
    BY <1>3, <2>2
<1>4. CASE r.trace # None /\ r.summary \notin {None, r.trace}
  <2>1. Evidence(r) = <<r.trace, r.summary>>
    BY <1>4 DEF Evidence
  <2>2. /\ Len(Evidence(r)) = 2 /\ Evidence(r)[1] = r.trace /\ Evidence(r)[2] = r.summary
        /\ 1 .. 2 = {1, 2}
    BY <2>1
  <2> QED
    BY <1>4, <2>2
<1> QED
  BY <1>1, <1>2, <1>3, <1>4

\* The policy's denials and holds stay what they are.
LEMMA OutcomesOnlyEscalate ==
    ASSUME NEW r, NEW policy \in Outcomes, NEW verdict
    PROVE  /\ Required(r, policy) \in Outcomes
           /\ Escalated(Required(r, policy), verdict) \in Outcomes
           /\ policy # "ALLOW" => Required(r, policy) = policy
           /\ Required(r, policy) # "ALLOW" =>
                 Escalated(Required(r, policy), verdict) = Required(r, policy)
           /\ Escalated(Required(r, policy), verdict) = "ALLOW" => verdict = "NO_CONCERN"
           /\ (Required(r, policy) = "ALLOW" /\ r.content \in Requiring) =>
                 AuditEnabled /\ Evidence(r) # << >>
BY DEF Required, Escalated, Outcomes

LEMMA LeastNumber ==
    ASSUME NEW T, T \subseteq Nat, T # {}
    PROVE  \E x \in T : \A y \in T : x <= y
<1> DEFINE Less == {ss \in Nat \X Nat : ss[1] < ss[2]}
<1>1. IsWellFoundedOn(Less, Nat)
  BY NatLessThanWellFounded DEF OpToRel
<1>2. PICK x \in T : \A y \in T : ~ (<<y, x>> \in Less)
  BY <1>1, WFMin
<1>3. \A y \in T : ~ (y < x)
  BY <1>2
<1> QED
  BY <1>3

-----------------------------------------------------------------------------
(* What is stored. *)

\* The audit of an audited action is stored and was of this action.
LEMMA AuditOfAction ==
    ASSUME TurnInvariant, NEW t \in Audited
    PROVE  /\ t \in Submissions /\ actions[t].audit = submit[t].audit
           /\ actions[t].audit \in Submissions /\ audits[actions[t].audit] \in AuditRow
           /\ audits[actions[t].audit] # None /\ audits[actions[t].audit].at <= now
           /\ SameTurnAction(t, actions[t].audit)
           /\ actions[t].turn = TurnOf(t, submit[t].request)
           /\ submit[t] \in Handling /\ submit[t].pc = "done"
<1>1. /\ t \in Submissions /\ actions[t] # None /\ actions[t].audit # None
      /\ actions[t].audit = submit[t].audit /\ submit[t].pc = "done"
      /\ actions[t].turn = TurnOf(t, submit[t].request)
  <2>1. t \in Submissions /\ actions[t] # None /\ actions[t].audit # None
    BY DEF Audited, Stored
  <2>2. /\ submit[t].pc = "done"
        /\ actions[t] = [turn    |-> TurnOf(t, submit[t].request),
                         audit   |-> submit[t].audit,
                         outcome |-> submit[t].outcome]
    BY <2>1 DEF TurnInvariant, ActionsAgree
  <2> QED
    BY <2>1, <2>2
<1>2. PICK a : a = actions[t].audit
  OBVIOUS
<1>3. submit[t] \in Handling
  BY <1>1 DEF TurnInvariant, TurnTypeOK, NoRequest
<1>4. a \in Submissions
  BY <1>1, <1>2, <1>3 DEF Handling
<1>5. audits[a] # None /\ SameTurnAction(t, a)
  <2>1. CASE a = t
    BY <1>1, <1>2, <2>1 DEF TurnInvariant, AuditsAgree, SameTurnAction, SameAction
  <2>2. CASE a # t
    BY <1>1, <1>2, <2>2 DEF TurnInvariant, AuditsFound, Begun
  <2> QED
    BY <2>1, <2>2
<1>6. audits[a] \in AuditRow
  BY <1>4, <1>5 DEF TurnInvariant, TurnTypeOK
<1>7. audits[a].at <= now
  <2>1. /\ submit[a].audit = a /\ actions[a] # None
        /\ audits[a] = [verdict |-> submit[a].verdict, at |-> submit[a].at]
    BY <1>4, <1>5 DEF TurnInvariant, AuditsAgree
  <2>2. Begun(a)
    BY <1>4, <2>1 DEF TurnInvariant, ActionsAgree, Begun
  <2>3. submit[a].at <= now
    BY <1>4, <2>1, <2>2 DEF TurnInvariant, OwnAudits
  <2> QED
    BY <2>1, <2>3
<1> QED
  BY <1>1, <1>2, <1>3, <1>4, <1>5, <1>6, <1>7

\* Among audited actions there is a newest audit.
LEMMA NewestIsOne ==
    ASSUME TurnInvariant, NEW ts \in SUBSET Audited, ts # {}
    PROVE  \E u \in ts : Newest(ts) = actions[u].audit
<1> DEFINE as == {actions[t].audit : t \in ts}
           ages == {now - audits[a].at : a \in as}
<1>1. \A a \in as : audits[a].at \in Nat /\ audits[a].at <= now
  BY AuditOfAction DEF AuditRow
<1>2. now \in Nat
  BY DEF TurnInvariant, TurnTypeOK
<1>3. ages \subseteq Nat /\ ages # {}
  BY <1>1, <1>2
<1>4. PICK n \in ages : \A m \in ages : n <= m
  BY <1>3, LeastNumber
<1>5. PICK a \in as : n = now - audits[a].at
  BY <1>4
<1>6. \A b \in as : audits[b].at <= audits[a].at
  <2>1. ASSUME NEW b \in as PROVE audits[b].at <= audits[a].at
    <3>1. now - audits[a].at <= now - audits[b].at
      BY <1>4, <1>5
    <3> QED
      BY <1>1, <1>2, <3>1
  <2> QED
    BY <2>1
<1>7. Newest(ts) \in as
  BY <1>5, <1>6 DEF Newest
<1> QED
  BY <1>7

-----------------------------------------------------------------------------
(* One lemma per action. *)

\* A submission that has not stored its action.
LEMMA NotStored ==
    ASSUME TurnInvariant, NEW s \in Submissions, submit[s].pc # "done"
    PROVE  /\ actions[s] = None /\ audits[s] = None
           /\ \A q \in Submissions : Begun(q) => s \notin submit[q].earlier
           /\ \A q \in Submissions \ {s} : Begun(q) => submit[q].audit # s
<1>1. actions[s] = None
  BY DEF TurnInvariant, ActionsAgree
<1>2. audits[s] = None
  BY <1>1 DEF TurnInvariant, AuditsAgree
<1>3. \A q \in Submissions : Begun(q) => s \notin submit[q].earlier
  BY <1>1 DEF TurnInvariant, Retries, Stored
<1>4. \A q \in Submissions \ {s} : Begun(q) => submit[q].audit # s
  <2>1. s # None
    BY TurnAuditAssumption
  <2> QED
    BY <1>2, <2>1 DEF TurnInvariant, AuditsFound
<1> QED
  BY <1>1, <1>2, <1>3, <1>4

\* What submissions repeat is not changed by a step of one that has not stored
\* its action, as long as it keeps its request.
LEMMA RepeatsStay ==
    ASSUME TurnInvariant, NEW s \in Submissions, submit[s].pc # "done",
           \A q \in Submissions \ {s} : submit'[q] = submit[q] /\ actions'[q] = actions[q],
           NEW q \in Submissions, Begun(q),
           submit'[q].request = submit[q].request, submit'[q].earlier = submit[q].earlier
    PROVE  Repeats(q)' = Repeats(q)
<1>1. s \notin submit[q].earlier /\ submit[q].earlier \subseteq Submissions
  BY NotStored DEF TurnInvariant, Retries, Stored
<1>2. ASSUME NEW t \in submit[q].earlier
      PROVE  /\ (t \in Audited)' <=> t \in Audited
             /\ Identical(q, t)' <=> Identical(q, t)
  <2>1. t # s /\ t \in Submissions
    BY <1>1
  <2> QED
    BY <2>1 DEF Audited, Stored, Identical, SameAction
<1> QED
  BY <1>2 DEF Repeats

LEMMA LookupKeeps ==
    ASSUME TurnInvariant, NEW s \in Submissions, Lookup(s)
    PROVE  TurnInvariant'
<1> USE TurnAuditAssumption
<1>1. /\ submit[s].pc = "new" /\ open' = open /\ now' = now /\ audits' = audits
      /\ actions' = actions
  BY DEF Lookup
<1>2. PICK r \in Requests, policy \in Outcomes :
        LET outcome == Required(r, policy)
            audited == outcome # "DENY" /\ AuditEnabled /\ Evidence(r) # << >>
            hits    == Reusable(s, r)
        IN  submit' = [submit EXCEPT ![s] =
                [pc       |-> IF audited /\ hits = {} THEN "auditing" ELSE "decided",
                 request  |-> r,
                 policy   |-> policy,
                 outcome  |-> IF audited /\ hits # {}
                              THEN Escalated(outcome, audits[Newest(hits)].verdict)
                              ELSE outcome,
                 audit    |-> IF audited /\ hits # {} THEN Newest(hits) ELSE None,
                 verdict  |-> None,
                 at       |-> 0,
                 earlier  |-> {t \in Submissions : actions[t] # None}]]
  BY DEF Lookup
<1>3. PICK o, hits : o = Required(r, policy) /\ hits = Reusable(s, r)
  OBVIOUS
<1>4. PICK pc, outcome, found :
        /\ pc = IF ToAudit(r, o) /\ hits = {} THEN "auditing" ELSE "decided"
        /\ found = IF ToAudit(r, o) /\ hits # {} THEN Newest(hits) ELSE None
        /\ outcome = IF ToAudit(r, o) /\ hits # {}
                     THEN Escalated(o, audits[Newest(hits)].verdict) ELSE o
  OBVIOUS
<1>5. PICK x : x = [pc |-> pc, request |-> r, policy |-> policy, outcome |-> outcome,
                    audit |-> found, verdict |-> None, at |-> 0, earlier |-> Stored]
  OBVIOUS
<1>6. submit' = [submit EXCEPT ![s] = x]
  BY <1>2, <1>3, <1>4, <1>5 DEF ToAudit, Stored
<1>7. /\ submit'[s] = x /\ \A q \in Submissions \ {s} : submit'[q] = submit[q]
      /\ DOMAIN submit' = Submissions
  BY <1>6 DEF TurnInvariant, TurnTypeOK
<1>8. /\ actions[s] = None /\ audits[s] = None
      /\ \A q \in Submissions \ {s} : Begun(q) => submit[q].audit # s
  BY <1>1, NotStored
<1>9. /\ x.pc = pc /\ x.request = r /\ x.policy = policy /\ x.outcome = outcome
      /\ x.audit = found /\ x.verdict = None /\ x.at = 0 /\ x.earlier = Stored
      /\ pc \in {"auditing", "decided"}
  BY <1>4, <1>5
\* The audit that is found.
<1>10. ASSUME NEW t \in hits
       PROVE  /\ t \in Audited /\ t # s /\ t \in Submissions
              /\ TurnOf(t, submit[t].request) = TurnOf(s, r)
              /\ SameAction(r, submit[t].request)
  <2>1. /\ t \in Submissions /\ actions[t] # None /\ actions[t].audit # None
        /\ actions[t].turn = TurnOf(s, r) /\ SameAction(r, submit[t].request)
    BY <1>3, <1>10 DEF Reusable
  <2>2. t \in Audited
    BY <2>1 DEF Audited, Stored
  <2> QED
    BY <1>8, <2>1, <2>2, AuditOfAction
<1>11. ASSUME ToAudit(r, o), hits # {}
       PROVE  \E u \in hits : found = actions[u].audit
  BY <1>4, <1>10, <1>11, NewestIsOne
<1>12. ASSUME found # None
       PROVE  /\ found \in Submissions /\ found # s /\ audits[found] # None
              /\ audits[found] \in AuditRow /\ ToAudit(r, o)
              /\ SameAction(r, submit[found].request)
              /\ TurnOf(found, submit[found].request) = TurnOf(s, r)
  <2>1. ToAudit(r, o) /\ hits # {}
    BY <1>4, <1>12
  <2>2. PICK u \in hits : found = actions[u].audit
    BY <1>11, <2>1
  <2>3. /\ found \in Submissions /\ audits[found] # None /\ audits[found] \in AuditRow
        /\ SameTurnAction(u, found)
    BY <1>10, <2>2, AuditOfAction
  <2> QED
    BY <1>8, <1>10, <2>1, <2>2, <2>3 DEF SameTurnAction, SameAction
<1>13. x \in Handling
  <2>1. found \in Submissions \cup {None}
    BY <1>12
  <2>2. o \in Outcomes /\ outcome \in Outcomes
    BY <1>3, <1>4, OutcomesOnlyEscalate
  <2>3. Stored \in SUBSET Submissions
    BY DEF Stored
  <2> QED
    BY <1>5, <1>9, <2>1, <2>2, <2>3 DEF Handling
<1>14. TurnTypeOK' /\ ActionsAgree' /\ AuditsAgree' /\ OwnAudits'
  <2>1. TurnTypeOK'
    BY <1>1, <1>7, <1>13 DEF TurnInvariant, TurnTypeOK
  <2>2. ActionsAgree'
    BY <1>1, <1>7, <1>8 DEF TurnInvariant, ActionsAgree
  <2>3. AuditsAgree'
    BY <1>1, <1>7, <1>8 DEF TurnInvariant, AuditsAgree
  <2>4. OwnAudits'
    <3>1. x.audit # s
      BY <1>9, <1>12
    <3> QED
      BY <1>1, <1>7, <3>1 DEF TurnInvariant, OwnAudits, Begun
  <2> QED
    BY <2>1, <2>2, <2>3, <2>4
<1>15. AuditsFound'
  <2>1. ASSUME NEW q \in Submissions, Begun(q)', submit'[q].audit \notin {None, q}
        PROVE  audits'[submit'[q].audit] # None /\ SameTurnAction(q, submit[q].audit)'
    <3>1. CASE q = s
      BY <1>1, <1>7, <1>9, <1>12, <2>1, <3>1 DEF SameTurnAction
    <3>2. CASE q # s
      <4>1. Begun(q) /\ submit[q].audit \notin {None, q} /\ submit[q].audit # s
        BY <1>7, <1>8, <2>1, <3>2 DEF Begun
      <4>2. submit[q].audit \in Submissions
        BY <2>1, <4>1 DEF TurnInvariant, TurnTypeOK, Begun, Handling, NoRequest
      <4> QED
        BY <1>1, <1>7, <3>2, <4>1, <4>2 DEF TurnInvariant, AuditsFound, SameTurnAction
    <3> QED
      BY <3>1, <3>2
  <2> QED
    BY <2>1 DEF AuditsFound
<1>16. OutcomesFollow'
  <2>1. ASSUME found # None
        PROVE  /\ pc # "auditing" /\ ToAudit(r, o)
               /\ outcome = Escalated(o, audits[found].verdict)
    BY <1>4, <2>1
  <2>2. found = None => outcome = o /\ ((pc = "auditing") <=> ToAudit(r, o))
    <3>1. ASSUME found = None, ToAudit(r, o) PROVE hits = {}
      <4>1. ASSUME hits # {} PROVE FALSE
        <5>1. PICK u \in hits : found = actions[u].audit
          BY <1>11, <3>1, <4>1
        <5> QED
          BY <1>10, <3>1, <5>1 DEF Audited
      <4> QED
        BY <4>1
    <3> QED
      BY <1>4, <3>1
  <2>3. x.audit # s
    BY <1>9, <1>12
  <2> QED
    BY <1>1, <1>3, <1>7, <1>9, <2>1, <2>2, <2>3 DEF TurnInvariant, OutcomesFollow, Begun, VerdictOf
<1>17. Retries'
  <2>1. Stored' = Stored
    BY <1>1 DEF Stored
  <2>2. ASSUME NEW q \in Submissions \ {s}, Begun(q)
        PROVE  /\ submit'[q].earlier \subseteq Stored'
               /\ Repeats(q)' # {} /\ ToBeAudited(q)' =>
                     \E u \in Repeats(q)' : submit'[q].audit = actions'[u].audit
    <3>1. Repeats(q)' = Repeats(q)
      BY <1>1, <1>7, <2>2, RepeatsStay
    <3> QED
      BY <1>1, <1>7, <2>1, <2>2, <3>1 DEF TurnInvariant, Retries, ToBeAudited
  <2>3. submit'[s].earlier \subseteq Stored'
    BY <1>7, <1>9, <2>1
  <2>4. Repeats(s)' \subseteq hits
    <3>1. ASSUME NEW t \in Repeats(s)' PROVE t \in hits
      <4>1. t \in Stored /\ (t \in Audited)' /\ Identical(s, t)'
        BY <1>7, <1>9, <3>1 DEF Repeats
      <4>2. t \in Submissions /\ t # s /\ t \in Audited /\ submit'[t] = submit[t]
        BY <1>1, <1>7, <1>8, <4>1 DEF Stored, Audited
      <4>3. /\ SameAction(r, submit[t].request) /\ r.turn = submit[t].request.turn
            /\ r.turn # None
        BY <1>7, <1>9, <4>1, <4>2 DEF Identical
      <4>4. actions[t].turn = TurnOf(s, r)
        BY <4>2, <4>3, AuditOfAction DEF TurnOf
      <4> QED
        BY <1>3, <4>2, <4>3, <4>4 DEF Reusable, Audited, Stored
    <3> QED
      BY <3>1
  <2>5. ASSUME Repeats(s)' # {}, ToBeAudited(s)'
        PROVE  \E u \in Repeats(s)' : submit'[s].audit = actions'[u].audit
    <3>1. PICK t \in Repeats(s)' : TRUE
      BY <2>5
    <3>2. ToAudit(r, o)
      BY <1>3, <1>7, <1>9, <2>5 DEF ToBeAudited
    <3>3. PICK u \in hits : found = actions[u].audit
      BY <1>11, <2>4, <2>5, <3>2
    <3>4. r.turn # None /\ r.turn \in Turns
      BY <1>7, <1>9, <3>1, RequestType DEF Repeats, Identical
    <3>5. u \in Submissions /\ u # s /\ u \in Audited /\ submit'[u] = submit[u]
      BY <1>7, <1>10
    <3>6. submit[u].request.turn = r.turn
      BY <1>10, <3>4, <3>5 DEF TurnOf
    <3>7. u \in Repeats(s)'
      <4>1. u \in submit'[s].earlier
        BY <1>7, <1>9, <3>5 DEF Audited
      <4>2. (u \in Audited)'
        BY <1>1, <3>5 DEF Audited, Stored
      <4>3. Identical(s, u)'
        BY <1>7, <1>9, <1>10, <3>4, <3>5, <3>6 DEF Identical
      <4> QED
        BY <4>1, <4>2, <4>3 DEF Repeats
    <3> QED
      BY <1>1, <1>7, <1>9, <3>3, <3>7
  <2>6. ASSUME NEW q \in Submissions, Begun(q)'
        PROVE  /\ submit'[q].earlier \subseteq Stored'
               /\ Repeats(q)' # {} /\ ToBeAudited(q)' =>
                     \E u \in Repeats(q)' : submit'[q].audit = actions'[u].audit
    <3>1. CASE q = s
      BY <2>3, <2>5, <3>1
    <3>2. CASE q # s
      BY <1>7, <2>2, <2>6, <3>2 DEF Begun
    <3> QED
      BY <3>1, <3>2
  <2> QED
    BY <2>6 DEF Retries
<1> QED
  BY <1>14, <1>15, <1>16, <1>17 DEF TurnInvariant

\* What an unfinished submission holds.
LEMMA HandlingOf ==
    ASSUME TurnInvariant, NEW s \in Submissions, Begun(s)
    PROVE  /\ submit[s] \in Handling
           /\ submit[s].request \in Requests /\ submit[s].policy \in Outcomes
BY DEF TurnInvariant, TurnTypeOK, Begun, NoRequest, Handling

LEMMA AuditReturnsKeeps ==
    ASSUME TurnInvariant, NEW s \in Submissions, AuditReturns(s)
    PROVE  TurnInvariant'
<1> USE TurnAuditAssumption
<1>1. /\ submit[s].pc = "auditing" /\ open' = open /\ now' = now + 1
      /\ audits' = audits /\ actions' = actions
  BY DEF AuditReturns
<1>2. PICK v \in Verdicts :
         submit' = [submit EXCEPT ![s].pc = "decided", ![s].audit = s, ![s].verdict = v,
                                  ![s].at = now + 1, ![s].outcome = Escalated(@, v)]
  BY DEF AuditReturns
<1>3. /\ Begun(s) /\ submit[s] \in Handling /\ submit[s].request \in Requests
      /\ submit[s].policy \in Outcomes /\ now \in Nat
  BY <1>1, HandlingOf DEF Begun, TurnInvariant, TurnTypeOK
<1>4. PICK o : o = Required(submit[s].request, submit[s].policy)
  OBVIOUS
<1>5. /\ submit[s].audit = None /\ submit[s].outcome = o
      /\ ToAudit(submit[s].request, o)
  BY <1>1, <1>3, <1>4 DEF TurnInvariant, OutcomesFollow
<1>6. PICK x : x = [submit[s] EXCEPT !.pc = "decided", !.audit = s, !.verdict = v,
                                     !.at = now + 1, !.outcome = Escalated(o, v)]
  OBVIOUS
<1>7. submit' = [submit EXCEPT ![s] = x]
  BY <1>2, <1>3, <1>5, <1>6 DEF TurnInvariant, TurnTypeOK
<1>8. /\ submit'[s] = x /\ \A q \in Submissions \ {s} : submit'[q] = submit[q]
      /\ DOMAIN submit' = Submissions
  BY <1>7 DEF TurnInvariant, TurnTypeOK
<1>9. /\ x.pc = "decided" /\ x.audit = s /\ x.verdict = v /\ x.at = now + 1
      /\ x.outcome = Escalated(o, v) /\ x.request = submit[s].request
      /\ x.policy = submit[s].policy /\ x.earlier = submit[s].earlier
  BY <1>3, <1>6 DEF Handling
<1>10. x \in Handling
  <2>1. Escalated(o, v) \in Outcomes
    BY <1>3, <1>4, OutcomesOnlyEscalate
  <2>2. now + 1 \in Nat /\ v \in Verdicts \cup {None} /\ s \in Submissions \cup {None}
    BY <1>3
  <2> QED
    BY <1>3, <1>6, <2>1, <2>2 DEF Handling
<1>11. /\ actions[s] = None /\ audits[s] = None
       /\ \A q \in Submissions \ {s} : Begun(q) => submit[q].audit # s
  BY <1>1, NotStored
<1>12. TurnTypeOK' /\ ActionsAgree' /\ AuditsAgree' /\ OwnAudits'
  <2>1. TurnTypeOK'
    BY <1>1, <1>3, <1>8, <1>10 DEF TurnInvariant, TurnTypeOK
  <2>2. ActionsAgree'
    BY <1>1, <1>8, <1>11 DEF TurnInvariant, ActionsAgree
  <2>3. AuditsAgree'
    BY <1>1, <1>8, <1>11 DEF TurnInvariant, AuditsAgree
  <2>4. OwnAudits'
    <3>1. ASSUME NEW q \in Submissions, Begun(q)', submit'[q].audit = q
          PROVE  submit'[q].verdict \in Verdicts /\ submit'[q].at <= now'
      <4>1. CASE q = s
        BY <1>1, <1>3, <1>8, <1>9, <4>1
      <4>2. CASE q # s
        <5>1. Begun(q) /\ submit'[q] = submit[q] /\ submit[q].audit = q
          BY <1>8, <3>1, <4>2 DEF Begun
        <5>2. submit[q].at \in Nat
          BY <5>1, HandlingOf DEF Handling
        <5> QED
          BY <1>1, <1>3, <5>1, <5>2 DEF TurnInvariant, OwnAudits
      <4> QED
        BY <4>1, <4>2
    <3> QED
      BY <3>1 DEF OwnAudits
  <2> QED
    BY <2>1, <2>2, <2>3, <2>4
<1>13. AuditsFound'
  <2>1. ASSUME NEW q \in Submissions, Begun(q)', submit'[q].audit \notin {None, q}
        PROVE  audits'[submit'[q].audit] # None /\ SameTurnAction(q, submit[q].audit)'
    <3>1. q # s
      BY <1>8, <1>9, <2>1
    <3>2. Begun(q) /\ submit[q].audit \notin {None, q} /\ submit[q].audit # s
      BY <1>8, <1>11, <2>1, <3>1 DEF Begun
    <3>3. submit[q].audit \in Submissions
      BY <3>2, HandlingOf DEF Handling
    <3> QED
      BY <1>1, <1>8, <3>1, <3>2, <3>3 DEF TurnInvariant, AuditsFound, SameTurnAction
  <2> QED
    BY <2>1 DEF AuditsFound
<1>14. OutcomesFollow'
  BY <1>1, <1>4, <1>5, <1>8, <1>9
  DEF TurnInvariant, OutcomesFollow, Begun, VerdictOf
<1>15. Retries'
  <2>1. Stored' = Stored
    BY <1>1 DEF Stored
  <2>2. ASSUME NEW q \in Submissions, Begun(q)'
        PROVE  /\ submit'[q].earlier \subseteq Stored'
               /\ Repeats(q)' # {} /\ ToBeAudited(q)' =>
                     \E u \in Repeats(q)' : submit'[q].audit = actions'[u].audit
    <3>1. /\ Begun(q) /\ submit'[q].request = submit[q].request
          /\ submit'[q].earlier = submit[q].earlier /\ submit'[q].policy = submit[q].policy
      BY <1>3, <1>8, <1>9, <2>2 DEF Begun
    <3>2. Repeats(q)' = Repeats(q)
      BY <1>1, <1>8, <3>1, RepeatsStay
    <3>3. ToBeAudited(q)' <=> ToBeAudited(q)
      BY <3>1 DEF ToBeAudited
    <3>4. ~(Repeats(s) # {} /\ ToBeAudited(s))
      <4>1. \A u \in Repeats(s) : submit[s].audit # actions[u].audit
        BY <1>5 DEF Repeats, Audited
      <4> QED
        BY <1>3, <4>1 DEF TurnInvariant, Retries
    <3> QED
      BY <1>1, <1>8, <2>1, <3>1, <3>2, <3>3, <3>4 DEF TurnInvariant, Retries
  <2> QED
    BY <2>2 DEF Retries
<1> QED
  BY <1>12, <1>13, <1>14, <1>15 DEF TurnInvariant

\* Agreement, for one submission and for the others.
LEMMA AgreementParts ==
    ASSUME NEW s \in Submissions,
           actions'[s] # None =>
               /\ submit'[s].pc = "done"
               /\ actions'[s] = [turn    |-> TurnOf(s, submit'[s].request),
                                 audit   |-> submit'[s].audit,
                                 outcome |-> submit'[s].outcome],
           (audits'[s] # None) <=> (actions'[s] # None /\ submit'[s].audit = s),
           audits'[s] # None =>
               audits'[s] = [verdict |-> submit'[s].verdict, at |-> submit'[s].at],
           ActionsAgree, AuditsAgree,
           \A q \in Submissions \ {s} : /\ submit'[q] = submit[q] /\ actions'[q] = actions[q]
                                        /\ audits'[q] = audits[q]
    PROVE  ActionsAgree' /\ AuditsAgree'
<1>1. ASSUME NEW q \in Submissions, actions'[q] # None
      PROVE  /\ submit'[q].pc = "done"
             /\ actions'[q] = [turn    |-> TurnOf(q, submit'[q].request),
                               audit   |-> submit'[q].audit,
                               outcome |-> submit'[q].outcome]
  <2>1. CASE q = s
    BY <1>1, <2>1
  <2>2. CASE q # s
    BY <1>1, <2>2 DEF ActionsAgree
  <2> QED
    BY <2>1, <2>2
<1>2. ASSUME NEW q \in Submissions
      PROVE  /\ (audits'[q] # None) <=> (actions'[q] # None /\ submit'[q].audit = q)
             /\ audits'[q] # None =>
                   audits'[q] = [verdict |-> submit'[q].verdict, at |-> submit'[q].at]
  <2>1. CASE q = s
    BY <2>1
  <2>2. CASE q # s
    BY <2>2 DEF AuditsAgree
  <2> QED
    BY <2>1, <2>2
<1> QED
  BY <1>1, <1>2 DEF ActionsAgree, AuditsAgree

\* A submission ends, with its action stored or refused.
LEMMA EndKeeps ==
    ASSUME TurnInvariant, NEW s \in Submissions, submit[s].pc = "decided",
           submit' = [submit EXCEPT ![s].pc = "done"], now' = now, open' = open,
           \A q \in Submissions \ {s} : actions'[q] = actions[q] /\ audits'[q] = audits[q],
           actions' \in [Submissions -> ActionRow \cup {None}],
           audits' \in [Submissions -> AuditRow \cup {None}],
           actions'[s] # None =>
               actions'[s] = [turn    |-> TurnOf(s, submit[s].request),
                              audit   |-> submit[s].audit,
                              outcome |-> submit[s].outcome],
           (audits'[s] # None) <=> (actions'[s] # None /\ submit[s].audit = s),
           audits'[s] # None =>
               audits'[s] = [verdict |-> submit[s].verdict, at |-> submit[s].at]
    PROVE  TurnInvariant'
<1> USE TurnAuditAssumption
<1>1. Begun(s) /\ submit[s] \in Handling
  BY HandlingOf DEF Begun
<1>2. /\ \A q \in Submissions \ {s} : submit'[q] = submit[q]
      /\ DOMAIN submit' = Submissions /\ submit'[s] = [submit[s] EXCEPT !.pc = "done"]
  BY DEF TurnInvariant, TurnTypeOK
<1>3. PICK x : x = submit'[s]
  OBVIOUS
<1>4. /\ x \in Handling /\ x.pc = "done" /\ x.audit = submit[s].audit
      /\ x.verdict = submit[s].verdict /\ x.at = submit[s].at
      /\ x.outcome = submit[s].outcome /\ x.request = submit[s].request
      /\ x.policy = submit[s].policy /\ x.earlier = submit[s].earlier
  BY <1>1, <1>2, <1>3 DEF Handling
<1>5. /\ actions[s] = None /\ audits[s] = None
      /\ \A q \in Submissions : Begun(q) => s \notin submit[q].earlier
      /\ \A q \in Submissions \ {s} : Begun(q) => submit[q].audit # s
  BY NotStored
<1>6. TurnTypeOK'
  BY <1>2, <1>3, <1>4 DEF TurnInvariant, TurnTypeOK
<1>7. /\ submit'[s].pc = "done" /\ submit'[s].request = submit[s].request
      /\ submit'[s].audit = submit[s].audit /\ submit'[s].outcome = submit[s].outcome
      /\ submit'[s].at = submit[s].at /\ submit'[s].verdict = submit[s].verdict
  BY <1>3, <1>4
<1>8. ActionsAgree' /\ AuditsAgree'
  <2>1. actions'[s] # None =>
           /\ submit'[s].pc = "done"
           /\ actions'[s] = [turn    |-> TurnOf(s, submit'[s].request),
                             audit   |-> submit'[s].audit,
                             outcome |-> submit'[s].outcome]
    BY <1>7
  <2>2. /\ (audits'[s] # None) <=> (actions'[s] # None /\ submit'[s].audit = s)
        /\ audits'[s] # None =>
              audits'[s] = [verdict |-> submit'[s].verdict, at |-> submit'[s].at]
    BY <1>7
  <2> QED
    BY <1>2, <2>1, <2>2, AgreementParts DEF TurnInvariant
<1>9. OwnAudits'
  BY <1>1, <1>2, <1>3, <1>4 DEF TurnInvariant, OwnAudits, Begun
<1>10. AuditsFound'
  <2>1. ASSUME NEW q \in Submissions, Begun(q)', submit'[q].audit \notin {None, q}
        PROVE  audits'[submit'[q].audit] # None /\ SameTurnAction(q, submit[q].audit)'
    <3>1. /\ Begun(q) /\ submit'[q].audit = submit[q].audit
          /\ submit'[q].request = submit[q].request
      BY <1>1, <1>2, <1>3, <1>4, <2>1 DEF Begun
    <3>2. submit[q].audit \in Submissions \ {s}
      BY <1>5, <2>1, <3>1, HandlingOf DEF Handling
    <3>3. audits[submit[q].audit] # None /\ SameTurnAction(q, submit[q].audit)
      BY <2>1, <3>1 DEF TurnInvariant, AuditsFound
    <3> QED
      BY <1>2, <3>1, <3>2, <3>3 DEF SameTurnAction
  <2> QED
    BY <2>1 DEF AuditsFound
<1>11. ASSUME NEW q \in Submissions, Begun(q)'
       PROVE  /\ Begun(q)
              /\ submit'[q].audit = submit[q].audit /\ submit'[q].request = submit[q].request
              /\ submit'[q].policy = submit[q].policy
              /\ submit'[q].outcome = submit[q].outcome
              /\ submit'[q].earlier = submit[q].earlier
              /\ (submit'[q].pc = "auditing") <=> (submit[q].pc = "auditing")
  <2>1. CASE q = s
    BY <1>1, <1>3, <1>4, <2>1
  <2>2. CASE q # s
    BY <1>2, <1>11, <2>2 DEF Begun
  <2> QED
    BY <2>1, <2>2
<1>12. OutcomesFollow'
  <2>1. ASSUME NEW q \in Submissions, Begun(q)', submit[q].audit # None
        PROVE  VerdictOf(q)' = VerdictOf(q)
    <3>1. Begun(q) /\ submit'[q].audit = submit[q].audit
      BY <1>11, <2>1
    <3>2. CASE submit[q].audit = q
      <4>1. submit'[q].verdict = submit[q].verdict
        BY <1>2, <1>3, <1>4
      <4> QED
        BY <3>1, <3>2, <4>1 DEF VerdictOf
    <3>3. CASE submit[q].audit # q
      <4>1. submit[q].audit \in Submissions
        BY <2>1, <3>1, HandlingOf DEF Handling
      <4>2. submit[q].audit # s
        BY <1>5, <3>1, <3>3
      <4> QED
        BY <3>1, <3>3, <4>1, <4>2 DEF VerdictOf
    <3> QED
      BY <3>2, <3>3
  <2>2. ASSUME NEW q \in Submissions, Begun(q)', NEW o,
               o = Required(submit[q].request, submit[q].policy)
        PROVE  /\ submit'[q].audit # None =>
                     /\ submit'[q].pc # "auditing" /\ ToAudit(submit'[q].request, o)
                     /\ submit'[q].outcome = Escalated(o, VerdictOf(q)')
               /\ submit'[q].audit = None =>
                     /\ submit'[q].outcome = o
                     /\ (submit'[q].pc = "auditing") <=> ToAudit(submit'[q].request, o)
    BY <1>11, <2>1, <2>2 DEF TurnInvariant, OutcomesFollow
  <2> QED
    BY <1>11, <2>2 DEF OutcomesFollow
<1>13. Retries'
  <2>1. Stored \subseteq Stored'
    BY <1>5 DEF Stored
  <2>2. ASSUME NEW q \in Submissions, Begun(q)'
        PROVE  /\ submit'[q].earlier \subseteq Stored'
               /\ Repeats(q)' # {} /\ ToBeAudited(q)' =>
                     \E u \in Repeats(q)' : submit'[q].audit = actions'[u].audit
    <3>1. /\ Begun(q) /\ submit'[q].request = submit[q].request
          /\ submit'[q].earlier = submit[q].earlier /\ submit'[q].policy = submit[q].policy
          /\ submit'[q].audit = submit[q].audit
      BY <1>11, <2>2
    <3>2. Repeats(q)' = Repeats(q)
      BY <1>2, <3>1, RepeatsStay
    <3>3. ToBeAudited(q)' <=> ToBeAudited(q)
      BY <3>1 DEF ToBeAudited
    <3>4. \A u \in Repeats(q) : actions'[u] = actions[u]
      BY <1>5, <3>1 DEF Repeats, Audited, Stored
    <3>5. submit[q].earlier \subseteq Stored
      BY <3>1 DEF TurnInvariant, Retries
    <3>6. Repeats(q) # {} /\ ToBeAudited(q) =>
             \E u \in Repeats(q) : submit[q].audit = actions[u].audit
      BY <3>1 DEF TurnInvariant, Retries
    <3> QED
      BY <2>1, <3>1, <3>2, <3>3, <3>4, <3>5, <3>6
  <2> QED
    BY <2>2 DEF Retries
<1> QED
  BY <1>6, <1>8, <1>9, <1>10, <1>12, <1>13 DEF TurnInvariant

LEMMA StoreKeeps ==
    ASSUME TurnInvariant, NEW s \in Submissions, Store(s)
    PROVE  TurnInvariant'
<1> USE TurnAuditAssumption
<1>1. /\ submit[s].pc = "decided" /\ submit' = [submit EXCEPT ![s].pc = "done"]
      /\ open' = open /\ now' = now
  BY DEF Store
<1>2. PICK row, kept : /\ row = [turn    |-> TurnOf(s, submit[s].request),
                                 audit   |-> submit[s].audit,
                                 outcome |-> submit[s].outcome]
                      /\ kept = [verdict |-> submit[s].verdict, at |-> submit[s].at]
  OBVIOUS
<1>3. /\ actions' = [actions EXCEPT ![s] = row]
      /\ audits' = IF submit[s].audit = s THEN [audits EXCEPT ![s] = kept] ELSE audits
  BY <1>2 DEF Store
<1>4. Begun(s) /\ submit[s] \in Handling /\ submit[s].request \in Requests
  BY <1>1, HandlingOf DEF Begun
<1>5. row \in ActionRow /\ row # None
  <2>1. TurnOf(s, submit[s].request) \in Turns \cup Submissions
    BY <1>4, RequestType DEF TurnOf
  <2>2. row \in ActionRow
    BY <1>2, <1>4, <2>1 DEF Handling, ActionRow
  <2> QED
    BY <2>2
<1>6. submit[s].audit = s => kept \in AuditRow /\ kept # None
  <2>1. submit[s].audit = s => submit[s].verdict \in Verdicts
    BY <1>4 DEF TurnInvariant, OwnAudits
  <2>2. submit[s].at \in Nat
    BY <1>4 DEF Handling
  <2>3. submit[s].audit = s => kept \in AuditRow
    BY <1>2, <2>1, <2>2 DEF AuditRow
  <2> QED
    BY <2>3
<1>7. audits[s] = None
  BY <1>1, NotStored
<1>8. /\ actions' \in [Submissions -> ActionRow \cup {None}]
      /\ audits' \in [Submissions -> AuditRow \cup {None}]
      /\ actions'[s] = row /\ \A q \in Submissions \ {s} : actions'[q] = actions[q]
      /\ audits'[s] = IF submit[s].audit = s THEN kept ELSE None
      /\ \A q \in Submissions \ {s} : audits'[q] = audits[q]
  BY <1>3, <1>5, <1>6, <1>7 DEF TurnInvariant, TurnTypeOK
<1>9. (audits'[s] # None) <=> (actions'[s] # None /\ submit[s].audit = s)
  BY <1>5, <1>6, <1>8
<1> QED
  BY <1>1, <1>2, <1>8, <1>9, EndKeeps

LEMMA RefuseKeeps ==
    ASSUME TurnInvariant, NEW s \in Submissions, Refuse(s)
    PROVE  TurnInvariant'
<1>1. /\ submit[s].pc = "decided" /\ submit' = [submit EXCEPT ![s].pc = "done"]
      /\ open' = open /\ now' = now /\ audits' = audits /\ actions' = actions
  BY DEF Refuse
<1>2. actions[s] = None /\ audits[s] = None
  BY <1>1, NotStored
<1> QED
  BY <1>1, <1>2, EndKeeps DEF TurnInvariant, TurnTypeOK

-----------------------------------------------------------------------------
(* The invariant holds, and what it says of stored actions. *)

LEMMA TurnInitHolds == TurnInit => TurnInvariant
<1> SUFFICES ASSUME TurnInit PROVE TurnInvariant
  OBVIOUS
<1>1. /\ \A s \in Submissions : audits[s] = None /\ actions[s] = None
                                 /\ submit[s] = NoRequest /\ submit[s].pc = "new"
      /\ open = TRUE /\ now = 0
  BY DEF TurnInit, NoRequest
<1>2. TurnTypeOK
  BY <1>1 DEF TurnInit, TurnTypeOK
<1> QED
  BY <1>1, <1>2 DEF TurnInvariant, ActionsAgree, AuditsAgree, OwnAudits, AuditsFound,
                    OutcomesFollow, Retries, Begun

LEMMA TurnStepKeeps == TurnInvariant /\ [TurnNext]_turnVars => TurnInvariant'
<1> SUFFICES ASSUME TurnInvariant, [TurnNext]_turnVars PROVE TurnInvariant'
  OBVIOUS
<1>1. ASSUME audits' = audits, actions' = actions, submit' = submit, now' = now,
             open' \in BOOLEAN
      PROVE  TurnInvariant'
  <2>1. TurnTypeOK' /\ ActionsAgree' /\ AuditsAgree' /\ OwnAudits'
    BY <1>1 DEF TurnInvariant, TurnTypeOK, ActionsAgree, AuditsAgree, OwnAudits, Begun
  <2>2. AuditsFound' /\ OutcomesFollow'
    BY <1>1 DEF TurnInvariant, AuditsFound, OutcomesFollow, Begun, SameTurnAction, VerdictOf
  <2>3. Retries'
    BY <1>1 DEF TurnInvariant, Retries, Begun, Repeats, ToBeAudited, Stored, Audited, Identical
  <2> QED
    BY <2>1, <2>2, <2>3 DEF TurnInvariant
<1>2. CASE UNCHANGED turnVars \/ CloseRun
  BY <1>1, <1>2 DEF turnVars, CloseRun, TurnInvariant, TurnTypeOK
<1>3. CASE \E s \in Submissions : Lookup(s) \/ AuditReturns(s) \/ Store(s) \/ Refuse(s)
  BY <1>3, LookupKeeps, AuditReturnsKeeps, StoreKeeps, RefuseKeeps
<1> QED
  BY <1>2, <1>3 DEF TurnNext

LEMMA ExaminedHolds == TurnInvariant => AuditExaminedAction
<1> SUFFICES ASSUME TurnInvariant, NEW s \in Audited
             PROVE  LET a == actions[s].audit
                        r == submit[s].request
                        q == submit[a].request
                    IN  /\ audits[a] # None
                        /\ q.content = r.content
                        /\ TurnOf(a, q) = TurnOf(s, r)
                        /\ {r.trace, r.summary} \ {None} \subseteq {q.trace, q.summary}
  BY DEF AuditExaminedAction
<1>1. PICK a, r, q : a = actions[s].audit /\ r = submit[s].request /\ q = submit[a].request
  OBVIOUS
<1>2. /\ a \in Submissions /\ audits[a] # None /\ SameTurnAction(s, a)
      /\ s \in Submissions /\ submit[s].pc = "done"
  BY <1>1, AuditOfAction
<1>3. actions[a] # None
  BY <1>2 DEF TurnInvariant, AuditsAgree
<1>4. Begun(s) /\ Begun(a)
  BY <1>2, <1>3 DEF TurnInvariant, ActionsAgree, Begun
<1>5. r \in Requests /\ q \in Requests
  BY <1>1, <1>2, <1>4, HandlingOf
<1>6. q.content = r.content /\ Evidence(q) = Evidence(r) /\ TurnOf(a, q) = TurnOf(s, r)
  BY <1>1, <1>2 DEF SameTurnAction, SameAction
<1>7. {r.trace, r.summary} \ {None} = {q.trace, q.summary} \ {None}
  BY <1>5, <1>6, TextsOfEvidence
<1> QED
  BY <1>1, <1>2, <1>6, <1>7

LEMMA EscalatesHolds == TurnInvariant => OnlyEscalates
<1> SUFFICES ASSUME TurnInvariant, NEW s \in Stored
             PROVE  LET r == submit[s].request IN
                    /\ submit[s].policy # "ALLOW" => actions[s].outcome = submit[s].policy
                    /\ Preview(r, submit[s].policy) # "ALLOW" => actions[s].outcome # "ALLOW"
                    /\ (actions[s].outcome = "ALLOW" /\ AuditEnabled /\ {r.trace, r.summary} # {None}) =>
                          s \in Audited /\ audits[actions[s].audit].verdict = "NO_CONCERN"
                    /\ (actions[s].outcome = "ALLOW" /\ r.content \in Requiring) => s \in Audited
  BY DEF OnlyEscalates
<1>1. PICK r, policy, o, found, outcome :
         /\ r = submit[s].request /\ policy = submit[s].policy /\ o = Required(r, policy)
         /\ found = submit[s].audit /\ outcome = submit[s].outcome
  OBVIOUS
<1>2. /\ s \in Submissions /\ actions[s] # None /\ submit[s].pc = "done"
      /\ actions[s].audit = found /\ actions[s].outcome = outcome
  <2>1. s \in Submissions /\ actions[s] # None
    BY DEF Stored
  <2>2. /\ submit[s].pc = "done"
        /\ actions[s] = [turn    |-> TurnOf(s, submit[s].request),
                         audit   |-> submit[s].audit,
                         outcome |-> submit[s].outcome]
    BY <2>1 DEF TurnInvariant, ActionsAgree
  <2> QED
    BY <1>1, <2>1, <2>2
<1>3. Begun(s) /\ r \in Requests /\ policy \in Outcomes
  BY <1>1, <1>2, HandlingOf DEF Begun
<1>4. /\ found # None => ToAudit(r, o) /\ outcome = Escalated(o, VerdictOf(s))
      /\ found = None => outcome = o /\ ~ToAudit(r, o)
  BY <1>1, <1>2, <1>3 DEF TurnInvariant, OutcomesFollow
<1>5. s \in Audited <=> found # None
  BY <1>2 DEF Audited
<1>6. found # None => audits[found].verdict = VerdictOf(s)
  <2>1. ASSUME found = s PROVE audits[s].verdict = submit[s].verdict
    <3>1. audits[s] = [verdict |-> submit[s].verdict, at |-> submit[s].at]
      BY <1>1, <1>2, <2>1 DEF TurnInvariant, AuditsAgree
    <3> QED
      BY <3>1
  <2> QED
    BY <1>1, <2>1 DEF VerdictOf
<1>7. {r.trace, r.summary} # {None} => Evidence(r) # << >>
  <2>1. Len(<< >>) = 0 /\ 1 .. 0 = {}
    OBVIOUS
  <2>2. Evidence(r) = << >> => {r.trace, r.summary} \ {None} = {}
    BY <1>3, <2>1, TextsOfEvidence
  <2> QED
    BY <2>2
<1>8. PICK v : v = VerdictOf(s)
  OBVIOUS
<1>9. /\ o \in Outcomes
      /\ policy # "ALLOW" => o = policy
      /\ o # "ALLOW" => Escalated(o, v) = o
      /\ Escalated(o, v) = "ALLOW" => v = "NO_CONCERN"
      /\ (o = "ALLOW" /\ r.content \in Requiring) => AuditEnabled /\ Evidence(r) # << >>
  BY <1>1, <1>3, OutcomesOnlyEscalate
<1>10. o = "ALLOW" => o # "DENY"
  OBVIOUS
<1>11. policy # "ALLOW" => outcome = policy
  BY <1>4, <1>8, <1>9
<1>12. Preview(r, policy) # "ALLOW" => outcome # "ALLOW"
  BY <1>1, <1>4, <1>8, <1>9 DEF Preview
<1>13. ASSUME outcome = "ALLOW", AuditEnabled, {r.trace, r.summary} # {None}
       PROVE  found # None /\ audits[found].verdict = "NO_CONCERN"
  <2>1. o = "ALLOW"
    BY <1>4, <1>8, <1>9, <1>13
  <2>2. found # None
    BY <1>4, <1>7, <1>13, <2>1 DEF ToAudit
  <2> QED
    BY <1>4, <1>6, <1>8, <1>9, <1>13, <2>2
<1>14. ASSUME outcome = "ALLOW", r.content \in Requiring
       PROVE  found # None
  <2>1. o = "ALLOW"
    BY <1>4, <1>8, <1>9, <1>14
  <2> QED
    BY <1>4, <1>9, <1>14, <2>1 DEF ToAudit
<1> QED
  BY <1>1, <1>2, <1>5, <1>11, <1>12, <1>13, <1>14

LEMMA RetryHolds == TurnInvariant => RetryKeepsVerdict
<1> SUFFICES ASSUME TurnInvariant, NEW s \in Audited,
                    NEW t \in submit[s].earlier \cap Audited, Identical(s, t)
             PROVE  \E u \in submit[s].earlier \cap Audited :
                        Identical(s, u) /\ actions[s].audit = actions[u].audit
  BY DEF RetryKeepsVerdict
<1>1. /\ s \in Submissions /\ actions[s].audit = submit[s].audit /\ submit[s].pc = "done"
      /\ actions[s].audit \in Submissions
  BY AuditOfAction
<1>2. Begun(s) /\ submit[s].audit # None
  BY <1>1, TurnAuditAssumption DEF Begun
<1>3. ToBeAudited(s)
  BY <1>1, <1>2 DEF TurnInvariant, OutcomesFollow, ToBeAudited
<1>4. t \in Repeats(s)
  BY DEF Repeats
<1>5. PICK u \in Repeats(s) : submit[s].audit = actions[u].audit
  BY <1>1, <1>2, <1>3, <1>4 DEF TurnInvariant, Retries
<1> QED
  BY <1>1, <1>5 DEF Repeats

\* The audit an action carries is stored and examined this very action in its
\* turn, with every text it came with: the lookup of submit_action never leads
\* to an audit of something else, however submissions of a turn overlap.
THEOREM AuditsAreOfTheirAction == TurnSpec => []AuditExaminedAction
<1>1. TurnInit => TurnInvariant
  BY TurnInitHolds
<1>2. TurnInvariant /\ [TurnNext]_turnVars => TurnInvariant'
  BY TurnStepKeeps
<1>3. TurnInvariant => AuditExaminedAction
  BY ExaminedHolds
<1> QED
  BY <1>1, <1>2, <1>3, PTL DEF TurnSpec

\* Reasoning only escalates: what is allowed was allowed by the policy, and has
\* a clean audit on record where audits are on and there was a text to audit,
\* and where the scope requires one.
THEOREM ReasoningOnlyEscalates == TurnSpec => []OnlyEscalates
<1>1. TurnInit => TurnInvariant
  BY TurnInitHolds
<1>2. TurnInvariant /\ [TurnNext]_turnVars => TurnInvariant'
  BY TurnStepKeeps
<1>3. TurnInvariant => OnlyEscalates
  BY EscalatesHolds
<1> QED
  BY <1>1, <1>2, <1>3, PTL DEF TurnSpec

\* Asking again gets a verdict that was on record when the submission began.
THEOREM RetriesKeepVerdicts == TurnSpec => []RetryKeepsVerdict
<1>1. TurnInit => TurnInvariant
  BY TurnInitHolds
<1>2. TurnInvariant /\ [TurnNext]_turnVars => TurnInvariant'
  BY TurnStepKeeps
<1>3. TurnInvariant => RetryKeepsVerdict
  BY RetryHolds
<1> QED
  BY <1>1, <1>2, <1>3, PTL DEF TurnSpec

=============================================================================
