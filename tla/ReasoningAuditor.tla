--------------------------- MODULE ReasoningAuditor ---------------------------
(***************************************************************************)
(* One reasoning audit, from the provider's answer to the result that is   *)
(* stored: parse_auditor_output and audit_turn (reasoning_audit.py), the   *)
(* worker-thread wrapper (service.py) and the routing over one or two      *)
(* tiers (tiered_audit.py).                                                *)
(***************************************************************************)
EXTENDS Integers, Sequences, SequencesExt

VARIABLES
    pc,        \* routing, a tier's next step, or done
    routing,   \* single, two-tier, or a value that is neither
    tier,      \* the tier at work
    reserved,  \* tiers that hold a reservation of the token ledger
    answers,   \* history: what each tier's auditor met
    found,     \* history: the findings of the scripted auditor
    results,   \* a result per tier
    final      \* the result that is stored

auditorVars == <<pc, routing, tier, reserved, answers, found, results, final>>

-----------------------------------------------------------------------------
(* The provider's answer, by what the parser looks at. *)

Answer == [form     : {"object"},
           verdict  : {"NO_CONCERN", "CONCERN", "other"},
           concern  : {"null", "known", "unknown"},
           excerpts : {"empty", "grounded", "ungrounded", "not_a_list"},
           tokens   : {"known", "unknown"}]
Broken == [form : {"blank", "not_json", "not_an_object"}, tokens : {"known", "unknown"}]

\* What else can happen to a turn's audit before there is an answer.
Mishaps == [form : {"bad_scope", "too_long", "no_client", "timeout", "transport",
                    "provider_error", "exception", "hung"}]
NoClient == [form |-> "no_client"]

Result(verdict, code, tokens) ==
    [verdict |-> verdict, code |-> code, tokens |-> tokens]
Failed(code, tokens) == Result("FAILED", code, tokens)

\* Mutant: a clean verdict is taken without looking at what comes with it.
ParsedTrustingClean(a) ==
    IF a.form = "object" /\ a.verdict = "NO_CONCERN" THEN Result("NO_CONCERN", "none", a.tokens)
    ELSE Failed("INVALID_AUDIT_OUTPUT", a.tokens)

\* parse_auditor_output.
Parsed(a) ==
    CASE a.form \in {"blank", "not_json"} -> Failed("PARSE_ERROR", a.tokens)
      [] a.form = "not_an_object" -> Failed("INVALID_AUDIT_OUTPUT", a.tokens)
      [] OTHER ->
         IF a.verdict = "other" \/ a.excerpts = "not_a_list"
         THEN Failed("INVALID_AUDIT_OUTPUT", a.tokens)
         ELSE IF a.verdict = "NO_CONCERN"
         THEN IF a.concern = "null" /\ a.excerpts = "empty"
              THEN Result("NO_CONCERN", "none", a.tokens)
              ELSE Failed("INVALID_AUDIT_OUTPUT", a.tokens)
         ELSE IF a.concern # "known" \/ a.excerpts = "empty"
         THEN Failed("INVALID_AUDIT_OUTPUT", a.tokens)
         ELSE IF a.excerpts = "ungrounded"
         THEN Failed("UNGROUNDED_EXCERPT", a.tokens)
         ELSE Result("CONCERN", "none", a.tokens)

\* audit_turn and the wrapper around it: every mishap is a failed audit.
\* Only over-long input is known to have cost nothing.
Audited(a) ==
    CASE a.form = "bad_scope"      -> Failed("PARSE_ERROR", "unknown")
      [] a.form = "too_long"       -> Failed("INPUT_TOO_LARGE", "none")
      [] a.form \in {"timeout", "hung"} -> Failed("AUDIT_TIMEOUT", "unknown")
      [] a.form \in {"transport", "provider_error"} -> Failed("PROVIDER_ERROR", "unknown")
      [] a.form \in {"exception", "no_client"} -> Failed("AUDIT_ERROR", "unknown")
      [] OTHER -> Parsed(a)

Met == Mishaps \cup Answer \cup Broken

-----------------------------------------------------------------------------
(* The scripted auditor. *)

Findings == {"injection", "forgery", "refusal", "override", "exfiltration",
             "traversal", "blocked", "drift"}
NotAsked == {"none"}

\* _evaluate_content: the rules in their order.
Scripted(fs) ==
    IF fs \cap {"injection", "forgery"} # {} THEN "CONCERN"
    ELSE IF "refusal" \in fs /\ "override" \notin fs THEN "NO_CONCERN"
    ELSE IF fs \cap {"exfiltration", "traversal", "blocked", "drift"} # {} THEN "CONCERN"
    ELSE "NO_CONCERN"

ScriptedAnswer(fs) ==
    IF Scripted(fs) = "CONCERN"
    THEN [form |-> "object", verdict |-> "CONCERN", concern |-> "known",
          excerpts |-> "grounded", tokens |-> "unknown"]
    ELSE [form |-> "object", verdict |-> "NO_CONCERN", concern |-> "null",
          excerpts |-> "empty", tokens |-> "unknown"]

-----------------------------------------------------------------------------
(* Routing. *)

AuditorInit ==
    /\ pc = "routing"
    /\ routing \in {"single", "two-tier", "neither"}
    /\ tier = 0 /\ reserved = {}
    /\ answers = << >> /\ results = << >> /\ found = NotAsked
    /\ final = "none"

Unrouted == <<tier, reserved, answers, found, results>>

\* One auditor, or none if its profile cannot be built.
Single ==
    /\ pc = "routing" /\ routing = "single"
    /\ \E a \in Met :
         /\ answers' = <<a>>
         /\ final' = Audited(a)
    /\ pc' = "done"
    /\ UNCHANGED <<routing, tier, reserved, found, results>>

\* The scripted auditor in the place of a provider.
SingleScripted ==
    /\ pc = "routing" /\ routing = "single"
    /\ found' \in SUBSET Findings
    /\ answers' = <<ScriptedAnswer(found')>>
    /\ final' = Audited(ScriptedAnswer(found'))
    /\ pc' = "done"
    /\ UNCHANGED <<routing, tier, reserved, results>>

\* An unknown mode, or a tier that is not configured: no tier is tried.
BadConfig ==
    /\ pc = "routing" /\ routing # "single"
    /\ final' = Failed("INVALID_TIER_CONFIG", "unknown")
    /\ pc' = "done"
    /\ UNCHANGED <<routing, Unrouted>>

GoodConfig ==
    /\ pc = "routing" /\ routing = "two-tier"
    /\ pc' = "prepare" /\ tier' = 1
    /\ UNCHANGED <<routing, reserved, answers, found, results, final>>

\* A tier that ends before its auditor runs: unknown profile, no budget left,
\* a client that cannot be built.  It cost nothing.
Unattempted ==
    /\ pc = "prepare"
    /\ \E code \in {"AUDIT_ERROR", "TOKEN_BUDGET_EXCEEDED"}, holds \in BOOLEAN :
         /\ holds => code = "AUDIT_ERROR"
         /\ reserved' = IF holds THEN reserved \cup {tier} ELSE reserved
         /\ results' = Append(results, Failed(code, "none"))
    /\ answers' = Append(answers, NoClient)
    /\ pc' = "settle"
    /\ UNCHANGED <<routing, tier, found, final>>

\* Its profile, with one request and no retries, has its estimate reserved
\* unless it is the scripted one.
Reserve ==
    /\ pc = "prepare"
    /\ reserved' \in {reserved, reserved \cup {tier}}
    /\ pc' = "ask"
    /\ UNCHANGED <<routing, tier, answers, found, results, final>>

Ask ==
    /\ pc = "ask"
    /\ \E a \in Met :
         /\ answers' = Append(answers, a)
         /\ results' = Append(results, Audited(a))
    /\ pc' = "settle"
    /\ UNCHANGED <<routing, tier, reserved, found, final>>

Released == reserved \ {tier}

Screened == Last(results).verdict = "NO_CONCERN"

\* finally: the reservation is released; a clean screen ends the audit.
Settle ==
    /\ pc = "settle"
    /\ reserved' = Released
    /\ IF Screened \/ tier = 2
       THEN pc' = "select" /\ UNCHANGED tier
       ELSE pc' = "prepare" /\ tier' = tier + 1
    /\ UNCHANGED <<routing, answers, found, results, final>>

\* A failure survives, then a concern.
Selected ==
    LET with(v)  == {i \in DOMAIN results : results[i].verdict = v}
        first(v) == results[CHOOSE i \in with(v) : \A j \in with(v) : i <= j]
    IN  IF with("FAILED") # {} THEN first("FAILED")
        ELSE IF with("CONCERN") # {} THEN first("CONCERN")
        ELSE results[1]

\* The sum, if every tier's count is known: nothing if nothing was spent.
Total ==
    LET counts == {r.tokens : r \in {results[i] : i \in DOMAIN results}}
    IN  IF "unknown" \in counts THEN "unknown"
        ELSE IF "known" \in counts THEN "known" ELSE "none"

Select ==
    /\ pc = "select"
    /\ final' = Result(Selected.verdict, Selected.code, Total)
    /\ pc' = "done"
    /\ UNCHANGED <<routing, Unrouted>>

AuditorNext ==
    \/ Single \/ SingleScripted \/ BadConfig \/ GoodConfig
    \/ Unattempted \/ Reserve \/ Ask \/ Settle \/ Select

AuditorSpec == AuditorInit /\ [][AuditorNext]_auditorVars

-----------------------------------------------------------------------------
(* Properties. *)

\* What an auditor must have said for a verdict other than FAILED.
SaysClean(a) ==
    /\ a \in Answer
    /\ a.verdict = "NO_CONCERN" /\ a.concern = "null" /\ a.excerpts = "empty"
SaysConcern(a) ==
    /\ a \in Answer
    /\ a.verdict = "CONCERN" /\ a.concern = "known" /\ a.excerpts = "grounded"

\* The scripted auditor: a refusal excuses what was refused, never an
\* injection or a forged scope, nor what is intended all the same.
RefusalExcusesNoInjection ==
    found # NotAsked /\ final.verdict = "NO_CONCERN" =>
        /\ found \cap {"injection", "forgery"} = {}
        /\ found \subseteq {"refusal", "override"} \/ found \cap {"refusal", "override"} = {"refusal"}

\* An audit is clean only if its first auditor said so, completely and in
\* form; it reports a concern only if an auditor had one it could show; and
\* everything else, whichever step it came from, is a failed audit.  That the
\* agent refuses something excuses no injection.
FailsClosed ==
    pc = "done" =>
        /\ final.verdict = "NO_CONCERN" <=>
              answers # << >> /\ SaysClean(answers[1])
        /\ final.verdict = "CONCERN" <=>
              /\ \E i \in DOMAIN answers : SaysConcern(answers[i])
              /\ \A i \in DOMAIN answers : SaysClean(answers[i]) \/ SaysConcern(answers[i])
        /\ final.verdict = "FAILED" <=> final.code # "none"
        /\ RefusalExcusesNoInjection

=============================================================================
