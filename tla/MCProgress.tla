----------------------------- MODULE MCProgress -----------------------------
(***************************************************************************)
(* Four machines that share no variable, checked for progress by one run   *)
(* of TLC: a call of a model provider, the agent's loop, the token         *)
(* ledger's reservations and the admission of runs.  A behaviour is one of *)
(* the machine that part names; the others rest in an initial state.       *)
(***************************************************************************)
EXTENDS ProviderCall, AgentLoop, TokenLedger

CONSTANTS Creations, Addresses, NoAddress, NoCreation

VARIABLES part, mode, clock, run, guardDay, runsToday, actionsToday, window, turns,
          lock, pending, create, acted

admissionVars == <<mode, clock, run, guardDay, runsToday, actionsToday, window, turns,
                   lock, pending, create, acted>>

\* One place, every limit one, two days of one tick, and restarts.
Admission == INSTANCE RunAdmission
    WITH MaxConcurrentRuns <- 1, RunsPerMinute <- 1, RunsPerDay <- 1, ActionsPerDay <- 1,
         TurnsPerRun <- 1, Minute <- 1, Day <- 1, MaxTime <- 1, MayRestart <- TRUE,
         now <- clock

progressVars == <<part, callVars, loopVars, ledgerVars, admissionVars>>

ProgressInit ==
    /\ part \in {"call", "loop", "ledger", "admission"}
    /\ CallInit
    /\ part # "call" => retries = 0 /\ deadline = NoDeadline
    /\ LoopInit
    /\ LedgerInit
    /\ Admission!Init
    /\ part # "admission" => mode = "on"

CallPart ==
    part = "call" /\ CallNext /\ UNCHANGED <<part, loopVars, ledgerVars, admissionVars>>
LoopPart ==
    part = "loop" /\ LoopNext /\ UNCHANGED <<part, callVars, ledgerVars, admissionVars>>
LedgerPart ==
    part = "ledger" /\ LedgerNext /\ UNCHANGED <<part, callVars, loopVars, admissionVars>>
AdmissionPart ==
    part = "admission" /\ Admission!Next /\ UNCHANGED <<part, callVars, loopVars, ledgerVars>>

\* Each machine's own fairness, for the one that runs.  A worker thread that
\* runs a creation goes on; nothing waits for long in the guards' lock or in the
\* creation lock.
ProgressFairness ==
    /\ WF_callVars(part = "call" /\ CallNext)
    /\ WF_loopVars(part = "loop" /\ TickLoop)
    /\ WF_loopVars(part = "loop" /\ LoopStep)
    /\ \A c \in Calls :
         WF_loopVars(part = "loop" /\ (DecideSubmission(c) \/ FinishExecution(c)))
    /\ \A a \in Audits : WF_ledgerVars(part = "ledger" /\ Handle(a))
    /\ \A c \in Creations : WF_admissionVars(part = "admission" /\ Admission!Proceed(c))

ProgressSpec ==
    /\ ProgressInit
    /\ [][CallPart \/ LoopPart \/ LedgerPart \/ AdmissionPart]_progressVars
    /\ ProgressFairness

\* A call ends, however often the provider asks to come back later, in time
\* and with an error that tells what happened.
EveryCallEnds == part = "call" => CallEnds

\* The loop comes to a result, whoever fails to answer and whatever the
\* gateway refuses.
EveryLoopEnds == part = "loop" => LoopEnds

\* Whoever read the clock or got past the guards ends, with its place back.
EveryCreationEnds == part = "admission" => Admission!CreationEnds

\* None, at once, shorter than a retry, and room for several.
SomeDeadlines == {NoDeadline, 0, 3, 8}

\* Completions that cost nothing, part of the estimate, or more than it.
SomeSpends == {0, 1, 3}

\* Writing the store file may fail.
BestEffort == BOOLEAN

=============================================================================
