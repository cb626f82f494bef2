-------------------------- MODULE GatewayRefinement --------------------------
(***************************************************************************)
(* GatewayLifecycle implements RunAuthorization.  The mapping reads only   *)
(* the database and the workspace: what a request carries is invisible,    *)
(* and a request that dies is a stuttering step.                           *)
(***************************************************************************)
EXTENDS GatewayLifecycle

HoldPhase(a) ==
    CASE approval[a] = "PENDING"               -> "held"
      [] approval[a] = "APPROVED"              -> "authorised"
      [] approval[a] \in {"DENIED", "EXPIRED"} -> "refused"
      [] approval[a] = "CONSUMED" /\ receipt[a] = "EXECUTED" -> "succeeded"
      [] OTHER                                 -> "failed"

AllowPhase(a) ==
    CASE receipt[a] = "NONE"     -> "authorised"
      [] receipt[a] = "EXECUTED" -> "succeeded"
      [] OTHER                   -> "failed"

PhaseOf(a) ==
    CASE decision[a] = "NONE"  -> "unseen"
      [] decision[a] = "DENY"  -> "refused"
      [] decision[a] = "ALLOW" -> AllowPhase(a)
      [] OTHER                 -> HoldPhase(a)

Authorization ==
    INSTANCE RunAuthorization WITH
        open   <- {r \in Runs : runStatus[r] \in LiveStatus},
        closed <- {r \in Runs : runStatus[r] \in TerminalStatus},
        owner  <- actionRun,
        phase  <- [a \in Actions |-> PhaseOf(a)],
        done   <- effects

\* Every behaviour of the handlers, deaths included, is one RunAuthorization
\* allows: no effect outside its authorisation, none twice, no run closed over
\* an authorised action, nothing authorised in a closed run.
ImplementsAuthorization == Authorization!Spec

=============================================================================
