-------------------------- MODULE Algorithms_proofs --------------------------
(***************************************************************************)
(* Proofs about the algorithms behind a reasoning audit and of the scopes, *)
(* for inputs of any size: ReasoningExtraction, for messages with any      *)
(* number of blocks, ReasoningAuditor, for every answer of every tier,     *)
(* ExcerptGrounding, for every trace and answer, AuditPrompt, for every    *)
(* text, and PolicyRules, for every workspace, scope and request.          *)
(*                                                                         *)
(* Labels. What is extracted is a function of the message (Earned), and a  *)
(* label that speaks of the provider is only given to it, through the      *)
(* credential (LabelInv).                                                  *)
(*                                                                         *)
(* Verdicts. A result fits the answer of its tier (Fits), and a second     *)
(* tier is asked only when the first was not clean (TierInv), so that a    *)
(* clean result is the first tier's and a concern outlives no failure.     *)
(*                                                                         *)
(* Excerpts. What an excerpt resolves to begins at a token of the trace    *)
(* and follows the answer's tokens in their order (PlacesFollow), within a *)
(* span twice as long (Backs): so it reads as the trace does. A copy of a  *)
(* passage of the trace is found, since the best of the starts is no worse *)
(* than where it was copied from (HonestCopyIsFound).                      *)
(*                                                                         *)
(* Prompts. A tag, closed or not, begins at an angle bracket and has its   *)
(* name a few spaces later (DanglingAt). The text that escaping returns    *)
(* mirrors the one it was given up to the first placeholder (Mirror), so a *)
(* tag of it would have been a tag before, and replaced: it has none       *)
(* (EscapedIsClean), escaping it again returns it as it is (CleanIsKept),  *)
(* and between the gateway's own tags it adds no other (PromptTags).       *)
(*                                                                         *)
(* Scopes. Paths that a volume takes for one another are resolved alike,   *)
(* link by link, and reach the same entry (ResolveAlike, NodesAlike). So   *)
(* what lies under a blocked name for the volume is matched whatever the   *)
(* probe answers (BlockedByName), what is matched by an allowed one lies   *)
(* under it (AllowedByName), and what an executor's look at a tree lets    *)
(* pass is in scope on that tree (RecheckedInScope), not on an earlier one. *)
(***************************************************************************)
EXTENDS ReasoningExtraction, ReasoningAuditor, ExcerptGrounding, AuditPrompt, PolicyRules,
        TLAPS, WellFoundedInduction, SequenceTheorems

-----------------------------------------------------------------------------
(* Labels. *)

Trace   == "PROVIDER_EXPOSED_TRACE"
Summary == "AGENT_AUTHORED_SUMMARY"

IsRaw(b) == b.text /\ b.type \in {"raw", "missing"}
IsSum(b) == b.summary /\ b.type \in {"summary", "missing"}

\* A block is what its type says, and its field where it has none.
LEMMA BlockSays ==
    ASSUME NEW b \in Blocks \cup {NotBlock}
    PROVE  /\ Block(b) = Trace <=> IsRaw(b)
           /\ Block(b) = Summary => IsSum(b)
<1>1. b.type \in {"raw", "summary", "unknown", "missing", "not_an_object"}
      /\ b.text \in BOOLEAN /\ b.summary \in BOOLEAN
  <2>1. CASE b \in Blocks
    BY <2>1 DEF Blocks
  <2>2. CASE b = NotBlock
    BY <2>2 DEF NotBlock
  <2> QED
    BY <2>1, <2>2
<1>2. CASE b.type = "raw"
  BY <1>1, <1>2 DEF Block, IsRaw, IsSum, Trace, Summary
<1>3. CASE b.type = "summary"
  BY <1>1, <1>3 DEF Block, IsRaw, IsSum, Trace, Summary
<1>4. CASE b.type = "missing"
  BY <1>1, <1>4 DEF Block, IsRaw, IsSum, Trace, Summary
<1>5. CASE b.type \in {"unknown", "not_an_object"}
  <2>1. Block(b) = "UNAVAILABLE"
    BY <1>5 DEF Block
  <2> QED
    BY <1>5, <2>1 DEF IsRaw, Trace, Summary
<1> QED
  BY <1>1, <1>2, <1>3, <1>4, <1>5

\* What is called a trace, or a summary, consists of that alone.
Earned(x, m) ==
    /\ x.provenance = Trace =>
          /\ x.from # {}
          /\ \A i \in x.from : IF i = 0 THEN m.field ELSE IsRaw(m.details[i])
    /\ x.provenance = Summary =>
          /\ ~m.field /\ x.from # {}
          /\ \A i \in x.from : IsSum(m.details[i])
          /\ \A i \in DOMAIN m.details : ~IsRaw(m.details[i])

LEMMA MessageBlocks ==
    ASSUME NEW m \in Messages
    PROVE  /\ 0 \notin DOMAIN m.details
           /\ \A i \in DOMAIN m.details : m.details[i] \in Blocks \cup {NotBlock}
<1>1. CASE m \in [field : BOOLEAN, form : {"list"}, details : Details]
  <2>1. m.details \in Details
    BY <1>1
  <2>2. PICK n \in 0 .. MaxDetails : m.details \in [1 .. n -> Blocks \cup {NotBlock}]
    BY <2>1 DEF Details
  <2> QED
    BY <2>2
<1>2. CASE m \in [field : BOOLEAN, form : {"single", "opaque"}, details : [1 .. 1 -> Blocks]]
  <2>1. m.details \in [1 .. 1 -> Blocks]
    BY <1>2
  <2> QED
    BY <2>1
<1> QED
  BY <1>1, <1>2 DEF Messages

LEMMA ExtractionEarns ==
    ASSUME NEW m \in Messages
    PROVE  Earned(ExtractReasoning(m), m)
<1> DEFINE ds == m.details
<1>1. 0 \notin DOMAIN ds
  BY MessageBlocks
<1>2. ASSUME NEW i \in DOMAIN ds
      PROVE  (Block(ds[i]) = Trace <=> IsRaw(ds[i])) /\ (Block(ds[i]) = Summary => IsSum(ds[i]))
  BY MessageBlocks, BlockSays
<1>3. Trace # Summary /\ Nothing.provenance \notin {Trace, Summary}
  BY DEF Trace, Summary, Nothing, Extracted
<1>4. CASE m.field
  <2>1. ExtractReasoning(m).provenance = Trace /\ ExtractReasoning(m).from = {0}
    BY <1>4 DEF ExtractReasoning, Extracted, Trace
  <2> QED
    BY <1>3, <1>4, <2>1 DEF Earned
<1>5. CASE ~m.field /\ m.form = "opaque"
  BY <1>3, <1>5 DEF ExtractReasoning, Earned
<1>6. CASE ~m.field /\ m.form # "opaque" /\ Called(ds, Trace) # {}
  <2>1. /\ ExtractReasoning(m).provenance = Trace
        /\ ExtractReasoning(m).from = Called(ds, Trace)
    BY <1>6 DEF ExtractReasoning, Combined, Extracted, Trace
  <2>2. \A i \in Called(ds, Trace) : i # 0 /\ IsRaw(ds[i])
    BY <1>1, <1>2 DEF Called
  <2> QED
    BY <1>3, <1>6, <2>1, <2>2 DEF Earned
<1>7. CASE ~m.field /\ m.form # "opaque" /\ Called(ds, Trace) = {} /\ Called(ds, Summary) # {}
  <2>1. /\ ExtractReasoning(m).provenance = Summary
        /\ ExtractReasoning(m).from = Called(ds, Summary)
    BY <1>7 DEF ExtractReasoning, Combined, Extracted, Trace, Summary
  <2>2. \A i \in Called(ds, Summary) : IsSum(ds[i])
    BY <1>2 DEF Called
  <2>3. \A i \in DOMAIN ds : ~IsRaw(ds[i])
    BY <1>2, <1>7 DEF Called
  <2> QED
    BY <1>3, <1>7, <2>1, <2>2, <2>3 DEF Earned
<1>8. CASE ~m.field /\ m.form # "opaque" /\ Called(ds, Trace) = {} /\ Called(ds, Summary) = {}
  <2>1. ExtractReasoning(m) = Nothing
    BY <1>8 DEF ExtractReasoning, Combined, Trace, Summary
  <2> QED
    BY <1>3, <2>1 DEF Earned
<1> QED
  BY <1>4, <1>5, <1>6, <1>7, <1>8

\* The label of what was submitted is the extraction's own, or none of a provider.
LabelInv ==
    /\ message \in Messages
    /\ label # "none" => extraction = ExtractReasoning(message)
    /\ label \in {Trace, Summary} => verified /\ extraction.provenance = label

LEMMA LabelInit == ExtractionInit => LabelInv
BY DEF ExtractionInit, LabelInv, Trace, Summary

LEMMA LabelSubmit ==
    ASSUME LabelInv, Submit
    PROVE  LabelInv'
<1>1. PICK configured, offered \in {"blank", "token"}, forged \in BOOLEAN, claim \in Claims :
         /\ claim # extraction.provenance => ~(configured = "token" /\ offered = "token" /\ ~forged)
         /\ verified' = (configured = "token" /\ offered = "token" /\ ~forged)
         /\ label' = StoredLabel(claim, Verified(configured,
                        IF forged /\ offered = "token" THEN "guess" ELSE offered))
  BY DEF Submit
<1> DEFINE ok == Verified(configured, IF forged /\ offered = "token" THEN "guess" ELSE offered)
<1>2. ok <=> configured = "token" /\ offered = "token" /\ ~forged
  BY <1>1 DEF Verified
<1>3. ASSUME label' \in {Trace, Summary} PROVE ok /\ label' = claim
  <2>1. claim \in {"PROVIDER_EXPOSED_TRACE", "AGENT_AUTHORED_SUMMARY", "UNAVAILABLE"}
    BY DEF Claims
  <2>2. label' = StoredLabel(claim, ok)
    BY <1>1
  <2>3. CASE ~ok /\ claim = "PROVIDER_EXPOSED_TRACE"
    BY <1>3, <2>2, <2>3 DEF StoredLabel, Trace, Summary
  <2>4. CASE ~ok /\ claim = "AGENT_AUTHORED_SUMMARY"
    BY <1>3, <2>2, <2>4 DEF StoredLabel, Trace, Summary
  <2>5. CASE ~ok /\ claim = "UNAVAILABLE"
    BY <1>3, <2>2, <2>5 DEF StoredLabel, Trace, Summary
  <2>6. CASE ok
    BY <2>2, <2>6 DEF StoredLabel
  <2> QED
    BY <2>1, <2>3, <2>4, <2>5, <2>6
<1>4. label = "extracted" /\ message' = message /\ extraction' = extraction
  BY DEF Submit
<1>5. label' \in {Trace, Summary} => verified' /\ extraction'.provenance = label'
  BY <1>1, <1>2, <1>3, <1>4
<1> QED
  BY <1>4, <1>5 DEF LabelInv

LEMMA LabelStep == LabelInv /\ [ExtractionNext]_extractionVars => LabelInv'
<1> SUFFICES ASSUME LabelInv, [ExtractionNext]_extractionVars PROVE LabelInv'
  OBVIOUS
<1>1. CASE Extract
  BY <1>1 DEF Extract, LabelInv, Trace, Summary
<1>2. CASE UNCHANGED extractionVars
  BY <1>2 DEF LabelInv, extractionVars
<1> QED
  BY <1>1, <1>2, LabelSubmit DEF ExtractionNext

LEMMA LabelImplies == LabelInv => LabelsAreEarned
<1> SUFFICES ASSUME LabelInv PROVE LabelsAreEarned
  OBVIOUS
<1>1. label \in {Trace, Summary} => verified /\ extraction.provenance = label
                                    /\ Earned(extraction, message)
  BY ExtractionEarns DEF LabelInv, Trace, Summary
<1> QED
  BY <1>1 DEF LabelsAreEarned, Earned, IsRaw, IsSum, Trace, Summary

\* Whatever a message holds and whoever claims what, what is called a
\* provider's trace or a summary came through the credential and is that alone.
THEOREM ReasoningIsLabelled == ExtractionSpec => []LabelsAreEarned
BY LabelInit, LabelStep, LabelImplies, PTL DEF ExtractionSpec

-----------------------------------------------------------------------------
(* Verdicts. *)

AuditVerdicts == {"NO_CONCERN", "CONCERN", "FAILED"}

Codes == {"none", "PARSE_ERROR", "INVALID_AUDIT_OUTPUT", "UNGROUNDED_EXCERPT",
          "INPUT_TOO_LARGE", "AUDIT_TIMEOUT", "PROVIDER_ERROR", "AUDIT_ERROR",
          "INVALID_TIER_CONFIG", "TOKEN_BUDGET_EXCEEDED"}
Counts == {"known", "unknown", "none"}
AnyResult == [verdict : AuditVerdicts, code : Codes, tokens : Counts]

\* A result is what its auditor said, if that was complete and in form, and
\* a failure with a code otherwise.
Fits(r, a) ==
    /\ r \in AnyResult
    /\ r.verdict = "NO_CONCERN" <=> SaysClean(a)
    /\ r.verdict = "CONCERN" <=> SaysConcern(a)
    /\ r.verdict = "FAILED" <=> r.code # "none"

LEMMA FailureFits ==
    ASSUME NEW a, NEW code \in Codes \ {"none"}, NEW tokens \in Counts,
           ~SaysClean(a), ~SaysConcern(a)
    PROVE  Fits(Failed(code, tokens), a)
BY DEF Fits, Failed, Result, AnyResult, AuditVerdicts

\* Only an answer in the form of an object says anything.
LEMMA OnlyAnswersSay ==
    ASSUME NEW a, a.form # "object"
    PROVE  ~SaysClean(a) /\ ~SaysConcern(a)
<1>1. \A x \in Answer : x.form = "object"
  BY DEF Answer
<1> QED
  BY <1>1 DEF SaysClean, SaysConcern

LEMMA AnswerFits ==
    ASSUME NEW a \in Answer
    PROVE  Fits(Parsed(a), a)
<1>1. /\ a.form = "object"
      /\ a.verdict \in {"NO_CONCERN", "CONCERN", "other"}
      /\ a.concern \in {"null", "known", "unknown"}
      /\ a.excerpts \in {"empty", "grounded", "ungrounded", "not_a_list"}
      /\ a.tokens \in Counts
  BY DEF Answer, Counts
<1>2. CASE a.verdict = "other" \/ a.excerpts = "not_a_list"
  <2>1. Parsed(a) = Failed("INVALID_AUDIT_OUTPUT", a.tokens)
    BY <1>1, <1>2 DEF Parsed
  <2> QED
    BY <1>1, <1>2, <2>1, FailureFits DEF SaysClean, SaysConcern, Codes, Counts
<1>3. CASE a.verdict = "NO_CONCERN" /\ a.excerpts # "not_a_list"
  <2>1. CASE a.concern = "null" /\ a.excerpts = "empty"
    <3>1. Parsed(a) = Result("NO_CONCERN", "none", a.tokens)
      BY <1>1, <1>3, <2>1 DEF Parsed
    <3> QED
      BY <1>1, <1>3, <2>1, <3>1 DEF SaysClean, SaysConcern, Fits, Result, AnyResult, AuditVerdicts, Codes, Counts
  <2>2. CASE ~(a.concern = "null" /\ a.excerpts = "empty")
    <3>1. Parsed(a) = Failed("INVALID_AUDIT_OUTPUT", a.tokens)
      BY <1>1, <1>3, <2>2 DEF Parsed
    <3> QED
      BY <1>1, <1>3, <2>2, <3>1, FailureFits DEF SaysClean, SaysConcern, Codes, Counts
  <2> QED
    BY <2>1, <2>2
<1>4. CASE a.verdict = "CONCERN" /\ a.excerpts # "not_a_list"
  <2>1. CASE a.concern # "known" \/ a.excerpts = "empty"
    <3>1. Parsed(a) = Failed("INVALID_AUDIT_OUTPUT", a.tokens)
      BY <1>1, <1>4, <2>1 DEF Parsed
    <3> QED
      BY <1>1, <1>4, <2>1, <3>1, FailureFits DEF SaysClean, SaysConcern, Codes, Counts
  <2>2. CASE a.concern = "known" /\ a.excerpts = "ungrounded"
    <3>1. Parsed(a) = Failed("UNGROUNDED_EXCERPT", a.tokens)
      BY <1>1, <1>4, <2>2 DEF Parsed
    <3> QED
      BY <1>1, <1>4, <2>2, <3>1, FailureFits DEF SaysClean, SaysConcern, Codes, Counts
  <2>3. CASE a.concern = "known" /\ a.excerpts = "grounded"
    <3>1. Parsed(a) = Result("CONCERN", "none", a.tokens)
      BY <1>1, <1>4, <2>3 DEF Parsed
    <3> QED
      BY <1>1, <1>4, <2>3, <3>1 DEF SaysClean, SaysConcern, Fits, Result, AnyResult, AuditVerdicts, Codes, Counts
  <2> QED
    BY <1>1, <1>4, <2>1, <2>2, <2>3
<1> QED
  BY <1>1, <1>2, <1>3, <1>4

\* Whatever an auditor's answer is and whatever befalls the audit.
LEMMA AuditedFits ==
    ASSUME NEW a \in Met
    PROVE  Fits(Audited(a), a)
<1>1. CASE a \in Answer
  <2>1. a.form = "object"
    BY <1>1 DEF Answer
  <2>2. Audited(a) = Parsed(a)
    BY <2>1 DEF Audited
  <2> QED
    BY <1>1, <2>2, AnswerFits
<1>2. CASE a \in Broken
  <2>1. a.form \in {"blank", "not_json", "not_an_object"} /\ a.tokens \in Counts
    BY <1>2 DEF Broken, Counts
  <2>2. Audited(a) = Parsed(a)
    BY <2>1 DEF Audited
  <2>3. Parsed(a) \in {Failed("PARSE_ERROR", a.tokens), Failed("INVALID_AUDIT_OUTPUT", a.tokens)}
    <3>1. CASE a.form \in {"blank", "not_json"}
      BY <3>1 DEF Parsed
    <3>2. CASE a.form = "not_an_object"
      BY <3>2 DEF Parsed
    <3> QED
      BY <2>1, <3>1, <3>2
  <2> QED
    BY <2>1, <2>2, <2>3, FailureFits, OnlyAnswersSay DEF Codes, Counts
<1>3. CASE a \in Mishaps
  <2>1. a.form \in {"bad_scope", "too_long", "no_client", "timeout", "transport",
                     "provider_error", "exception", "hung"}
    BY <1>3 DEF Mishaps
  <2>2. \E code \in {"PARSE_ERROR", "INPUT_TOO_LARGE", "AUDIT_TIMEOUT", "PROVIDER_ERROR",
                      "AUDIT_ERROR"}, tokens \in {"none", "unknown"} :
           Audited(a) = Failed(code, tokens)
    <3>1. CASE a.form = "bad_scope"
      BY <3>1 DEF Audited
    <3>2. CASE a.form = "too_long"
      BY <3>2 DEF Audited
    <3>3. CASE a.form \in {"timeout", "hung"}
      BY <3>3 DEF Audited
    <3>4. CASE a.form \in {"transport", "provider_error"}
      BY <3>4 DEF Audited
    <3>5. CASE a.form \in {"exception", "no_client"}
      BY <3>5 DEF Audited
    <3> QED
      BY <2>1, <3>1, <3>2, <3>3, <3>4, <3>5
  <2> QED
    BY <2>1, <2>2, FailureFits, OnlyAnswersSay DEF Codes, Counts
<1> QED
  BY <1>1, <1>2, <1>3 DEF Met

LEMMA ScriptedFits ==
    ASSUME NEW fs \in SUBSET Findings
    PROVE  /\ ScriptedAnswer(fs) \in Answer
           /\ Audited(ScriptedAnswer(fs)).verdict = Scripted(fs)
<1>1. Scripted(fs) \in {"CONCERN", "NO_CONCERN"}
  BY DEF Scripted
<1>2. CASE Scripted(fs) = "CONCERN"
  BY <1>2 DEF ScriptedAnswer, Answer, Audited, Parsed, Result
<1>3. CASE Scripted(fs) = "NO_CONCERN"
  BY <1>3 DEF ScriptedAnswer, Answer, Audited, Parsed, Result
<1> QED
  BY <1>1, <1>2, <1>3

\* The scripted auditor's rules, in their order.
LEMMA ScriptedExcuses ==
    ASSUME NEW fs \in SUBSET Findings, Scripted(fs) = "NO_CONCERN"
    PROVE  /\ fs \cap {"injection", "forgery"} = {}
           /\ \/ fs \subseteq {"refusal", "override"}
              \/ fs \cap {"refusal", "override"} = {"refusal"}
<1>1. fs \cap {"injection", "forgery"} = {}
  BY DEF Scripted
<1>2. CASE "refusal" \in fs /\ "override" \notin fs
  BY <1>1, <1>2
<1>3. CASE ~("refusal" \in fs /\ "override" \notin fs)
  <2>1. fs \cap {"exfiltration", "traversal", "blocked", "drift"} = {}
    BY <1>1, <1>3 DEF Scripted
  <2> QED
    BY <1>1, <2>1 DEF Findings
<1> QED
  BY <1>2, <1>3

-----------------------------------------------------------------------------
(* Tiers. *)

AuditorTypeOK ==
    /\ pc \in {"routing", "prepare", "ask", "settle", "select", "done"}
    /\ tier \in {0, 1, 2}
    /\ answers \in Seq(Met)
    /\ results \in Seq(AnyResult)

\* How many tiers have answered, by the step that comes next.
TiersDone ==
    IF pc = "routing" THEN 0
    ELSE IF pc \in {"prepare", "ask"} THEN tier - 1 ELSE tier

\* A second tier is asked if and only if the first was not clean.
Escalation ==
    /\ pc # "routing" => tier # 0
    /\ tier = 2 => results[1].verdict # "NO_CONCERN"
    /\ pc = "select" /\ tier = 1 => results[1].verdict = "NO_CONCERN"

TierInv ==
    pc # "done" =>
        /\ Len(answers) = TiersDone /\ Len(results) = TiersDone
        /\ \A i \in 1 .. TiersDone : Fits(results[i], answers[i])
        /\ Escalation
        /\ found = NotAsked

AuditorInv == AuditorTypeOK /\ TierInv /\ FailsClosed

LEMMA AuditorStart == AuditorInit => AuditorInv
BY DEF AuditorInit, AuditorInv, AuditorTypeOK, TierInv, TiersDone, Escalation, FailsClosed


\* The end of an audit with one auditor.
LEMMA SingleEnds ==
    ASSUME AuditorInv, NEW a \in Met,
           answers' = <<a>>, final' = Audited(a), pc' = "done",
           UNCHANGED <<tier, results>>, RefusalExcusesNoInjection'
    PROVE  AuditorInv'
<1>1. Fits(final', a)
  BY AuditedFits
<1>2. answers' \in Seq(Met) /\ DOMAIN answers' = {1} /\ answers'[1] = a
  OBVIOUS
<1>3. AuditorTypeOK'
  BY <1>2 DEF AuditorInv, AuditorTypeOK
<1>4. SaysClean(a) => ~SaysConcern(a)
  BY DEF SaysClean, SaysConcern
<1>5. FailsClosed'
  BY <1>1, <1>2, <1>4 DEF FailsClosed, Fits
<1> QED
  BY <1>3, <1>5 DEF AuditorInv, TierInv

LEMMA StepSingle ==
    ASSUME AuditorInv, Single \/ SingleScripted
    PROVE  AuditorInv'
<1>1. CASE Single
  <2>1. found' = NotAsked
    BY <1>1 DEF Single, AuditorInv, TierInv
  <2>2. RefusalExcusesNoInjection'
    BY <2>1 DEF RefusalExcusesNoInjection
  <2> QED
    BY <1>1, <2>2, SingleEnds DEF Single
<1>2. CASE SingleScripted
  <2>1. found' \in SUBSET Findings /\ final' = Audited(ScriptedAnswer(found'))
    BY <1>2 DEF SingleScripted
  <2>2. final'.verdict = Scripted(found') /\ ScriptedAnswer(found') \in Met
    BY <2>1, ScriptedFits DEF Met
  <2>3. RefusalExcusesNoInjection'
    BY <2>1, <2>2, ScriptedExcuses DEF RefusalExcusesNoInjection
  <2> QED
    BY <1>2, <2>1, <2>2, <2>3, SingleEnds DEF SingleScripted
<1> QED
  BY <1>1, <1>2

LEMMA StepConfig ==
    ASSUME AuditorInv, BadConfig \/ GoodConfig
    PROVE  AuditorInv'
<1>1. CASE BadConfig
  <2>1. /\ answers' = answers /\ answers = << >> /\ results' = results
        /\ tier' = tier /\ found' = NotAsked
    <3>1. answers \in Seq(Met) /\ Len(answers) = 0
      BY <1>1 DEF BadConfig, AuditorInv, AuditorTypeOK, TierInv, TiersDone
    <3> QED
      BY <1>1, <3>1 DEF BadConfig, Unrouted, AuditorInv, TierInv
  <2>2. pc' = "done" /\ final' = Failed("INVALID_TIER_CONFIG", "unknown")
    BY <1>1 DEF BadConfig
  <2>3. FailsClosed'
    BY <2>1, <2>2 DEF FailsClosed, Failed, Result, RefusalExcusesNoInjection
  <2> QED
    BY <2>1, <2>2, <2>3 DEF AuditorInv, AuditorTypeOK, TierInv
<1>2. CASE GoodConfig
  <2>1. /\ pc = "routing" /\ pc' = "prepare" /\ tier' = 1
        /\ UNCHANGED <<answers, found, results>>
    BY <1>2 DEF GoodConfig
  <2> QED
    BY <2>1 DEF AuditorInv, AuditorTypeOK, TierInv, TiersDone, Escalation, FailsClosed
<1> QED
  BY <1>1, <1>2

\* One more tier has answered.
LEMMA TierAnswers ==
    ASSUME AuditorInv, pc \in {"prepare", "ask"}, pc' = "settle",
           NEW a \in Met, NEW r, Fits(r, a),
           answers' = Append(answers, a), results' = Append(results, r),
           UNCHANGED <<tier, found>>
    PROVE  AuditorInv'
<1>1. /\ tier \in {1, 2} /\ Len(answers) = tier - 1 /\ Len(results) = tier - 1
      /\ \A i \in 1 .. tier - 1 : Fits(results[i], answers[i])
      /\ tier = 2 => results[1].verdict # "NO_CONCERN"
      /\ found = NotAsked
      /\ answers \in Seq(Met) /\ results \in Seq(AnyResult)
  BY DEF AuditorInv, AuditorTypeOK, TierInv, TiersDone, Escalation
<1>2. r \in AnyResult
  BY DEF Fits
<1>3. /\ answers' \in Seq(Met) /\ results' \in Seq(AnyResult)
      /\ Len(answers') = tier /\ Len(results') = tier
  BY <1>1, <1>2
<1>4. \A i \in 1 .. tier - 1 : answers'[i] = answers[i] /\ results'[i] = results[i]
  BY <1>1, <1>2
<1>5. answers'[tier] = a /\ results'[tier] = r
  BY <1>1, <1>2
<1>6. \A i \in 1 .. tier : Fits(results'[i], answers'[i])
  BY <1>1, <1>4, <1>5
<1>7. Escalation'
  BY <1>1, <1>4 DEF Escalation
<1> QED
  BY <1>1, <1>3, <1>6, <1>7 DEF AuditorInv, AuditorTypeOK, TierInv, TiersDone, FailsClosed

LEMMA StepTier ==
    ASSUME AuditorInv, Unattempted \/ Reserve \/ Ask
    PROVE  AuditorInv'
<1>1. CASE Unattempted
  <2>1. PICK code \in {"AUDIT_ERROR", "TOKEN_BUDGET_EXCEEDED"} :
           results' = Append(results, Failed(code, "none"))
    BY <1>1 DEF Unattempted
  <2>2. NoClient \in Met /\ NoClient.form # "object"
    BY DEF NoClient, Met, Mishaps
  <2>3. Fits(Failed(code, "none"), NoClient)
    BY <2>2, OnlyAnswersSay, FailureFits DEF Codes, Counts
  <2> QED
    BY <1>1, <2>1, <2>2, <2>3, TierAnswers DEF Unattempted
<1>2. CASE Reserve
  <2>1. pc = "prepare" /\ pc' = "ask" /\ UNCHANGED <<tier, answers, found, results>>
    BY <1>2 DEF Reserve
  <2> QED
    BY <2>1 DEF AuditorInv, AuditorTypeOK, TierInv, TiersDone, Escalation, FailsClosed
<1>3. CASE Ask
  <2>1. PICK a \in Met : answers' = Append(answers, a) /\ results' = Append(results, Audited(a))
    BY <1>3 DEF Ask
  <2> QED
    BY <1>3, <2>1, AuditedFits, TierAnswers DEF Ask
<1> QED
  BY <1>1, <1>2, <1>3

LEMMA StepSettle ==
    ASSUME AuditorInv, Settle
    PROVE  AuditorInv'
<1>1. /\ pc = "settle" /\ tier \in {1, 2} /\ Len(answers) = tier /\ Len(results) = tier
      /\ \A i \in 1 .. tier : Fits(results[i], answers[i])
      /\ tier = 2 => results[1].verdict # "NO_CONCERN"
      /\ found = NotAsked
      /\ answers \in Seq(Met) /\ results \in Seq(AnyResult)
  BY DEF Settle, AuditorInv, AuditorTypeOK, TierInv, TiersDone, Escalation
<1>2. UNCHANGED <<answers, results, found>>
  BY DEF Settle
<1>3. Last(results) = results[tier]
  BY <1>1 DEF Last
<1>4. CASE Screened \/ tier = 2
  <2>1. pc' = "select" /\ tier' = tier
    BY <1>4 DEF Settle
  <2> QED
    BY <1>1, <1>2, <1>3, <1>4, <2>1
       DEF AuditorInv, AuditorTypeOK, TierInv, TiersDone, Escalation, FailsClosed, Screened
<1>5. CASE ~(Screened \/ tier = 2)
  <2>1. pc' = "prepare" /\ tier' = 2 /\ tier = 1
    BY <1>1, <1>5 DEF Settle
  <2> QED
    BY <1>1, <1>2, <1>3, <1>5, <2>1
       DEF AuditorInv, AuditorTypeOK, TierInv, TiersDone, Escalation, FailsClosed, Screened
<1> QED
  BY <1>4, <1>5

\* What is selected is one of the results: a failure if there is one, else a
\* concern if there is one.
LEMMA SelectedIs ==
    ASSUME results \in Seq(AnyResult), Len(results) \in {1, 2}
    PROVE  \E i \in 1 .. Len(results) :
              /\ Selected = results[i]
              /\ results[i].verdict # "FAILED" =>
                    \A j \in 1 .. Len(results) : results[j].verdict # "FAILED"
              /\ results[i].verdict = "NO_CONCERN" =>
                    \A j \in 1 .. Len(results) : results[j].verdict # "CONCERN"
<1> DEFINE With(v) == {i \in DOMAIN results : results[i].verdict = v}
           FirstRow(v) == CHOOSE i \in With(v) : \A j \in With(v) : i <= j
<1>1. DOMAIN results = 1 .. Len(results) /\ 1 \in 1 .. Len(results)
  OBVIOUS
<1>2. ASSUME NEW v, With(v) # {} PROVE FirstRow(v) \in With(v)
  <2>1. With(v) \subseteq {1, 2}
    BY <1>1
  <2>2. \E i \in With(v) : \A j \in With(v) : i <= j
    <3>1. CASE 1 \in With(v)
      BY <2>1, <3>1
    <3>2. CASE 1 \notin With(v)
      BY <1>2, <2>1, <3>2
    <3> QED
      BY <3>1, <3>2
  <2> HIDE DEF With
  <2> QED
    BY <2>2
<1>3. CASE With("FAILED") # {}
  <2>1. Selected = results[FirstRow("FAILED")]
    BY <1>3 DEF Selected
  <2>2. FirstRow("FAILED") \in With("FAILED")
    BY <1>2, <1>3
  <2> HIDE DEF FirstRow
  <2> QED
    BY <1>1, <2>1, <2>2
<1>4. CASE With("FAILED") = {} /\ With("CONCERN") # {}
  <2>1. Selected = results[FirstRow("CONCERN")]
    BY <1>4 DEF Selected
  <2>2. FirstRow("CONCERN") \in With("CONCERN")
    BY <1>2, <1>4
  <2> HIDE DEF FirstRow
  <2> QED
    BY <1>1, <1>4, <2>1, <2>2
<1>5. CASE With("FAILED") = {} /\ With("CONCERN") = {}
  <2>1. Selected = results[1]
    BY <1>5 DEF Selected
  <2> QED
    BY <1>1, <1>5, <2>1
<1> QED
  BY <1>3, <1>4, <1>5

LEMMA StepSelect ==
    ASSUME AuditorInv, Select
    PROVE  AuditorInv'
<1>1. /\ pc = "select" /\ tier \in {1, 2} /\ Len(answers) = tier /\ Len(results) = tier
      /\ \A i \in 1 .. tier : Fits(results[i], answers[i])
      /\ tier = 2 => results[1].verdict # "NO_CONCERN"
      /\ tier = 1 => results[1].verdict = "NO_CONCERN"
      /\ found = NotAsked
      /\ answers \in Seq(Met) /\ results \in Seq(AnyResult)
  BY DEF Select, AuditorInv, AuditorTypeOK, TierInv, TiersDone, Escalation
<1>2. pc' = "done" /\ UNCHANGED <<answers, results, found, tier>>
  BY DEF Select, Unrouted
<1>3. PICK i \in 1 .. tier :
         /\ Selected = results[i]
         /\ results[i].verdict # "FAILED" => \A j \in 1 .. tier : results[j].verdict # "FAILED"
         /\ results[i].verdict = "NO_CONCERN" => \A j \in 1 .. tier : results[j].verdict # "CONCERN"
  BY <1>1, SelectedIs
<1>4. final'.verdict = results[i].verdict /\ final'.code = results[i].code
  BY <1>3 DEF Select, Result
<1>5. results[i] \in AnyResult /\ results[1] \in AnyResult /\ DOMAIN answers = 1 .. tier
  BY <1>1
<1>6. \A j \in 1 .. tier :
         /\ results[j].verdict \in AuditVerdicts
         /\ results[j].verdict = "NO_CONCERN" <=> SaysClean(answers[j])
         /\ results[j].verdict = "CONCERN" <=> SaysConcern(answers[j])
         /\ results[j].verdict = "FAILED" <=> results[j].code # "none"
  BY <1>1 DEF Fits, AnyResult
<1>7. final'.verdict = "NO_CONCERN" <=> SaysClean(answers[1])
  BY <1>1, <1>3, <1>4, <1>6 DEF AuditVerdicts
<1>8. final'.verdict = "CONCERN" <=>
         /\ \E j \in 1 .. tier : SaysConcern(answers[j])
         /\ \A j \in 1 .. tier : SaysClean(answers[j]) \/ SaysConcern(answers[j])
  BY <1>1, <1>3, <1>4, <1>6 DEF AuditVerdicts
<1>9. final'.verdict = "FAILED" <=> final'.code # "none"
  BY <1>4, <1>6
<1>10. answers # << >>
  BY <1>1
<1>11. FailsClosed'
  BY <1>1, <1>2, <1>5, <1>7, <1>8, <1>9, <1>10 DEF FailsClosed, RefusalExcusesNoInjection
<1> QED
  BY <1>1, <1>2, <1>11 DEF AuditorInv, AuditorTypeOK, TierInv

LEMMA AuditorStep == AuditorInv /\ [AuditorNext]_auditorVars => AuditorInv'
<1> SUFFICES ASSUME AuditorInv, [AuditorNext]_auditorVars PROVE AuditorInv'
  OBVIOUS
<1>1. CASE UNCHANGED auditorVars
  BY <1>1 DEF auditorVars, AuditorInv, AuditorTypeOK, TierInv, TiersDone, Escalation,
              FailsClosed, RefusalExcusesNoInjection
<1> QED
  BY <1>1, StepSingle, StepConfig, StepTier, StepSettle, StepSelect DEF AuditorNext

\* Whatever the answers, the mishaps and the budget of the tiers, an audit is
\* clean only if its first auditor said so, a concern survives, and everything
\* else is a failed audit.
THEOREM AuditsFailClosed == AuditorSpec => []FailsClosed
<1>1. AuditorInv => FailsClosed
  BY DEF AuditorInv
<1> QED
  BY <1>1, AuditorStart, AuditorStep, PTL DEF AuditorSpec

-----------------------------------------------------------------------------
(* Induction on numbers, for sets instead of predicates. *)

LessNat == {ss \in Nat \X Nat : ss[1] < ss[2]}

LEMMA NatMinimum ==
    ASSUME NEW T, T \subseteq Nat, T # {}
    PROVE  \E x \in T : \A y \in T : x <= y
<1>1. IsWellFoundedOn(LessNat, Nat)
  BY NatLessThanWellFounded DEF OpToRel, LessNat
<1>2. PICK x \in T : \A y \in T : ~(<<y, x>> \in LessNat)
  BY <1>1, WFMin
<1>3. \A y \in Nat : y < x => <<y, x>> \in LessNat
  BY DEF LessNat
<1>4. \A y \in T : ~(y < x)
  BY <1>2, <1>3
<1> QED
  BY <1>4

LEMMA NatSetInduction ==
    ASSUME NEW T, 0 \in T, \A n \in Nat : n \in T => n + 1 \in T
    PROVE  Nat \subseteq T
<1> SUFFICES ASSUME ~(Nat \subseteq T) PROVE FALSE
  OBVIOUS
<1>1. PICK x \in Nat \ T : \A y \in Nat \ T : x <= y
  BY NatMinimum
<1>2. x # 0 /\ x - 1 \in Nat /\ x = (x - 1) + 1
  OBVIOUS
<1> QED
  BY <1>1, <1>2

\* What grows by one at least from each number to the next.
LEMMA Spread ==
    ASSUME NEW n \in Nat, NEW f, \A i \in 1 .. n : f[i] \in Int,
           \A i \in 1 .. n : i < n => f[i] < f[i + 1],
           NEW i \in 1 .. n, NEW j \in i .. n
    PROVE  f[i] + (j - i) <= f[j]
<1> DEFINE T == {d \in Nat : i + d <= n => f[i] + d <= f[i + d]}
<1>1. 0 \in T
  OBVIOUS
<1>2. ASSUME NEW d \in Nat, d \in T PROVE d + 1 \in T
  <2> SUFFICES ASSUME i + (d + 1) <= n PROVE f[i] + (d + 1) <= f[i + (d + 1)]
    OBVIOUS
  <2>1. i + d \in 1 .. n /\ i + d < n /\ i + (d + 1) = (i + d) + 1 /\ i + (d + 1) \in 1 .. n
    OBVIOUS
  <2>2. f[i] + d <= f[i + d]
    BY <1>2, <2>1
  <2>3. f[i + d] < f[(i + d) + 1] /\ f[i + d] \in Int /\ f[(i + d) + 1] \in Int
    BY <2>1
  <2> QED
    BY <2>1, <2>2, <2>3
<1> HIDE DEF T
<1>3. j - i \in Nat /\ j - i \in T
  BY <1>1, <1>2, NatSetInduction
<1> QED
  BY <1>3 DEF T

-----------------------------------------------------------------------------
(* The recursions are well defined. *)

\* f finds the first n tokens of e.
Finds(f, e, t, start, n) ==
    f = [i \in 1 .. n |-> IF i = 1 THEN start ELSE NextPlace(e[i], t, f[i - 1])]

LEMMA FinderExists ==
    ASSUME NEW e, NEW t, NEW start, NEW n \in Nat
    PROVE  \E f : Finds(f, e, t, start, n)
<1> DEFINE T == {k \in Nat : \E f : Finds(f, e, t, start, k)}
<1>1. 0 \in T
  <2> DEFINE g == [i \in 1 .. 0 |-> start]
  <2>1. Finds(g, e, t, start, 0)
    BY DEF Finds
  <2> QED
    BY <2>1
<1>2. ASSUME NEW k \in Nat, k \in T PROVE k + 1 \in T
  <2>1. PICK f : Finds(f, e, t, start, k)
    BY <1>2
  <2> DEFINE Body(h, i) == IF i = 1 THEN start ELSE NextPlace(e[i], t, h[i - 1])
  <2> DEFINE g == [i \in 1 .. k + 1 |-> IF i = k + 1 THEN Body(f, k + 1) ELSE f[i]]
  <2>2. \A i \in 1 .. k : f[i] = Body(f, i)
    BY <2>1 DEF Finds
  <2>3. \A i \in 1 .. k : g[i] = f[i]
    OBVIOUS
  <2>4. g[k + 1] = Body(f, k + 1)
    OBVIOUS
  <2>5. g = [i \in 1 .. k + 1 |-> g[i]]
    OBVIOUS
  <2> HIDE DEF g
  <2>6. \A i \in 1 .. k + 1 : g[i] = Body(g, i)
    <3> SUFFICES ASSUME NEW i \in 1 .. k + 1 PROVE g[i] = Body(g, i)
      OBVIOUS
    <3>1. g[i] = Body(f, i)
      BY <2>2, <2>3, <2>4
    <3>2. i # 1 => i - 1 \in 1 .. k /\ g[i - 1] = f[i - 1]
      BY <2>3
    <3> QED
      BY <3>1, <3>2
  <2>7. Finds(g, e, t, start, k + 1)
    BY <2>5, <2>6 DEF Finds
  <2> QED
    BY <2>7
<1> HIDE DEF T
<1>3. Nat \subseteq T
  BY <1>1, <1>2, NatSetInduction
<1> QED
  BY <1>3 DEF T

\* The first token is at the start, each other one is looked for from the
\* place of the one before.
LEMMA PlacesDef ==
    ASSUME NEW e \in Seq(Tokens), NEW t, NEW start, NEW i \in 1 .. Len(e)
    PROVE  Places(e, t, start)[i] =
              IF i = 1 THEN start ELSE NextPlace(e[i], t, Places(e, t, start)[i - 1])
<1>1. Len(e) \in Nat
  OBVIOUS
<1>2. PICK f : Finds(f, e, t, start, Len(e))
  BY <1>1, FinderExists
<1>3. Finds(Places(e, t, start), e, t, start, Len(e))
  BY <1>2 DEF Places, Finds
<1> QED
  BY <1>3 DEF Finds

\* f adds up the first n tokens of s.
Adds(f, s, n) ==
    f = [i \in 0 .. n |-> IF i = 0 THEN 0 ELSE f[i - 1] + Letters(s[i])]

LEMMA AdderExists ==
    ASSUME NEW s, NEW n \in Nat
    PROVE  \E f : Adds(f, s, n)
<1> DEFINE T == {k \in Nat : \E f : Adds(f, s, k)}
<1>1. 0 \in T
  <2> DEFINE g == [i \in 0 .. 0 |-> 0]
  <2>1. Adds(g, s, 0)
    BY DEF Adds
  <2> QED
    BY <2>1
<1>2. ASSUME NEW k \in Nat, k \in T PROVE k + 1 \in T
  <2>1. PICK f : Adds(f, s, k)
    BY <1>2
  <2> DEFINE Body(h, i) == IF i = 0 THEN 0 ELSE h[i - 1] + Letters(s[i])
  <2> DEFINE g == [i \in 0 .. k + 1 |-> IF i = k + 1 THEN Body(f, k + 1) ELSE f[i]]
  <2>2. \A i \in 0 .. k : f[i] = Body(f, i)
    BY <2>1 DEF Adds
  <2>3. \A i \in 0 .. k : g[i] = f[i]
    OBVIOUS
  <2>4. g[k + 1] = Body(f, k + 1)
    OBVIOUS
  <2>5. g = [i \in 0 .. k + 1 |-> g[i]]
    OBVIOUS
  <2> HIDE DEF g
  <2>6. \A i \in 0 .. k + 1 : g[i] = Body(g, i)
    <3> SUFFICES ASSUME NEW i \in 0 .. k + 1 PROVE g[i] = Body(g, i)
      OBVIOUS
    <3>1. g[i] = Body(f, i)
      BY <2>2, <2>3, <2>4
    <3>2. i # 0 => i - 1 \in 0 .. k /\ g[i - 1] = f[i - 1]
      BY <2>3
    <3> QED
      BY <3>1, <3>2
  <2>7. Adds(g, s, k + 1)
    BY <2>5, <2>6 DEF Adds
  <2> QED
    BY <2>7
<1> HIDE DEF T
<1>3. Nat \subseteq T
  BY <1>1, <1>2, NatSetInduction
<1> QED
  BY <1>3 DEF T

LEMMA TotalsDef ==
    ASSUME NEW s \in Seq(Tokens), NEW i \in 0 .. Len(s)
    PROVE  Totals(s)[i] = IF i = 0 THEN 0 ELSE Totals(s)[i - 1] + Letters(s[i])
<1>1. Len(s) \in Nat
  OBVIOUS
<1>2. PICK f : Adds(f, s, Len(s))
  BY <1>1, AdderExists
<1>3. Adds(Totals(s), s, Len(s))
  BY <1>2 DEF Totals, Adds
<1> QED
  BY <1>3 DEF Adds

LEMMA TotalsType ==
    ASSUME NEW s \in Seq(Tokens), NEW n \in 0 .. Len(s)
    PROVE  Totals(s)[n] \in Nat
<1> DEFINE T == {k \in Nat : k <= Len(s) => Totals(s)[k] \in Nat}
<1>1. 0 \in T
  BY TotalsDef
<1>2. ASSUME NEW k \in Nat, k \in T PROVE k + 1 \in T
  <2> SUFFICES ASSUME k + 1 <= Len(s) PROVE Totals(s)[k + 1] \in Nat
    OBVIOUS
  <2>1. k + 1 \in 1 .. Len(s) /\ k + 1 \in 0 .. Len(s) /\ k + 1 # 0 /\ (k + 1) - 1 = k
    OBVIOUS
  <2>2. Totals(s)[k + 1] = Totals(s)[k] + Letters(s[k + 1]) /\ Totals(s)[k] \in Nat
    BY <1>2, <2>1, TotalsDef
  <2>3. Letters(s[k + 1]) \in Nat
    BY <2>1, GroundingAssumption
  <2> QED
    BY <2>2, <2>3
<1> HIDE DEF T
<1>3. n \in T
  BY <1>1, <1>2, NatSetInduction
<1> QED
  BY <1>3 DEF T

LEMMA CompactType == ASSUME NEW s \in Seq(Tokens) PROVE Compact(s) \in Nat
<1>1. Len(s) \in 0 .. Len(s)
  OBVIOUS
<1> QED
  BY <1>1, TotalsType DEF Compact

\* Texts whose tokens are at most twice as long are at most twice as long.
LEMMA CompactAtMostTwice ==
    ASSUME NEW s \in Seq(Tokens), NEW u \in Seq(Tokens), Len(s) = Len(u),
           \A k \in 1 .. Len(u) : Letters(s[k]) <= Expansion * Letters(u[k])
    PROVE  Compact(s) <= Expansion * Compact(u)
<1> DEFINE T == {k \in Nat : k <= Len(u) =>
                    /\ Totals(s)[k] \in Nat /\ Totals(u)[k] \in Nat
                    /\ Totals(s)[k] <= 2 * Totals(u)[k]}
<1>1. 0 \in T
  BY TotalsDef
<1>2. ASSUME NEW k \in Nat, k \in T PROVE k + 1 \in T
  <2> SUFFICES ASSUME k + 1 <= Len(u)
               PROVE  /\ Totals(s)[k + 1] \in Nat /\ Totals(u)[k + 1] \in Nat
                      /\ Totals(s)[k + 1] <= 2 * Totals(u)[k + 1]
    OBVIOUS
  <2>1. k + 1 \in 1 .. Len(u) /\ k + 1 \in 0 .. Len(u) /\ k + 1 # 0 /\ (k + 1) - 1 = k
    OBVIOUS
  <2>2. Totals(s)[k] \in Nat /\ Totals(u)[k] \in Nat /\ Totals(s)[k] <= 2 * Totals(u)[k]
    BY <1>2, <2>1
  <2>3. /\ Totals(s)[k + 1] = Totals(s)[k] + Letters(s[k + 1])
        /\ Totals(u)[k + 1] = Totals(u)[k] + Letters(u[k + 1])
    BY <2>1, TotalsDef
  <2>4. Letters(s[k + 1]) \in Nat /\ Letters(u[k + 1]) \in Nat
    BY <2>1, GroundingAssumption
  <2>5. Letters(s[k + 1]) <= 2 * Letters(u[k + 1])
    BY <2>1 DEF Expansion
  <2> QED
    BY <2>2, <2>3, <2>4, <2>5
<1> HIDE DEF T
<1>3. Len(u) \in T
  BY <1>1, <1>2, NatSetInduction
<1>4. Totals(s)[Len(u)] <= 2 * Totals(u)[Len(u)]
  BY <1>3 DEF T
<1> QED
  BY <1>4 DEF Compact, Expansion

-----------------------------------------------------------------------------
(* Alignments. *)

\* The least of some numbers.
LEMMA MinIs ==
    ASSUME NEW S, S \subseteq Nat, S # {}
    PROVE  Min(S) \in S /\ \A y \in S : Min(S) <= y
<1>1. \E x \in S : \A y \in S : x <= y
  BY NatMinimum
<1> QED
  BY <1>1 DEF Min

LEMMA NextPlaceIs ==
    ASSUME NEW x, NEW t \in Seq(Tokens), NEW after \in 0 .. Len(t)
    PROVE  /\ NextPlace(x, t, after) \in 0 .. Len(t)
           /\ NextPlace(x, t, after) # 0 =>
                 /\ after # 0 /\ after < NextPlace(x, t, after)
                 /\ Matches(x, t[NextPlace(x, t, after)])
           /\ after # 0 /\ after < Len(t) /\ Matches(x, t[after + 1]) =>
                 NextPlace(x, t, after) = after + 1
<1> DEFINE js == {j \in after + 1 .. Len(t) : Matches(x, t[j])}
<1>1. js \subseteq Nat /\ Len(t) \in Nat
  OBVIOUS
<1>2. CASE after = 0 \/ js = {}
  <2>1. NextPlace(x, t, after) = 0
    BY <1>2 DEF NextPlace
  <2>2. after # 0 /\ after < Len(t) /\ Matches(x, t[after + 1]) => after + 1 \in js
    BY <1>1
  <2> QED
    BY <1>1, <1>2, <2>1, <2>2
<1>3. CASE after # 0 /\ js # {}
  <2>1. NextPlace(x, t, after) = Min(js)
    BY <1>3 DEF NextPlace
  <2>2. Min(js) \in js /\ \A y \in js : Min(js) <= y
    BY <1>1, <1>3, MinIs
  <2>3. Min(js) \in after + 1 .. Len(t) /\ Matches(x, t[Min(js)])
    BY <2>2
  <2>4. after < Len(t) /\ Matches(x, t[after + 1]) => Min(js) <= after + 1
    <3>1. after < Len(t) /\ Matches(x, t[after + 1]) => after + 1 \in js
      BY <1>1
    <3> QED
      BY <2>2, <3>1
  <2> HIDE DEF js
  <2> QED
    BY <1>1, <1>3, <2>1, <2>3, <2>4
<1> QED
  BY <1>2, <1>3

\* Every place is in the trace or nowhere, and a place comes after the one
\* before it.
LEMMA PlacesFollow ==
    ASSUME NEW e \in Seq(Tokens), NEW t \in Seq(Tokens), NEW start \in 1 .. Len(t),
           Len(e) # 0, Matches(e[1], t[start])
    PROVE  \A i \in 1 .. Len(e) :
              LET p == Places(e, t, start)
              IN  /\ p[i] \in 0 .. Len(t)
                  /\ p[i] # 0 => Matches(e[i], t[p[i]])
                  /\ p[i] # 0 /\ i # 1 => p[i - 1] # 0 /\ p[i - 1] < p[i]
<1> DEFINE p == Places(e, t, start)
<1> DEFINE T == {k \in Nat : k + 1 <= Len(e) => p[k + 1] \in 0 .. Len(t)}
<1>1. Len(e) \in Nat /\ Len(t) \in Nat /\ 1 \in 1 .. Len(e)
  OBVIOUS
<1>2. p[1] = start
  BY <1>1, PlacesDef
<1>3. ASSUME NEW i \in 1 .. Len(e), i # 1
      PROVE  p[i] = NextPlace(e[i], t, p[i - 1]) /\ i - 1 \in 1 .. Len(e)
  BY <1>1, <1>3, PlacesDef
<1> HIDE DEF p
<1>4. 0 \in T
  BY <1>1, <1>2
<1>5. ASSUME NEW k \in Nat, k \in T PROVE k + 1 \in T
  <2> SUFFICES ASSUME (k + 1) + 1 <= Len(e) PROVE p[(k + 1) + 1] \in 0 .. Len(t)
    OBVIOUS
  <2>1. (k + 1) + 1 \in 1 .. Len(e) /\ (k + 1) + 1 # 1 /\ ((k + 1) + 1) - 1 = k + 1
    BY <1>1
  <2>2. p[(k + 1) + 1] = NextPlace(e[(k + 1) + 1], t, p[k + 1])
    BY <1>3, <2>1
  <2>3. p[k + 1] \in 0 .. Len(t)
    BY <1>1, <1>5
  <2> QED
    BY <2>2, <2>3, NextPlaceIs
<1> HIDE DEF T
<1>6. Nat \subseteq T
  BY <1>4, <1>5, NatSetInduction
<1>7. ASSUME NEW i \in 1 .. Len(e) PROVE p[i] \in 0 .. Len(t)
  <2>1. i - 1 \in Nat /\ (i - 1) + 1 = i /\ i <= Len(e)
    BY <1>1
  <2> QED
    BY <1>6, <2>1 DEF T
<1>8. ASSUME NEW i \in 1 .. Len(e), i # 1, p[i] # 0
      PROVE  Matches(e[i], t[p[i]]) /\ p[i - 1] # 0 /\ p[i - 1] < p[i]
  <2>1. p[i] = NextPlace(e[i], t, p[i - 1]) /\ p[i - 1] \in 0 .. Len(t)
    BY <1>3, <1>7, <1>8
  <2> QED
    BY <1>8, <2>1, NextPlaceIs
<1> QED
  BY <1>1, <1>2, <1>7, <1>8 DEF p

\* An excerpt that is found to its end has every token found, in order.
LEMMA FoundInOrder ==
    ASSUME NEW e \in Seq(Tokens), NEW t \in Seq(Tokens), NEW start \in 1 .. Len(t),
           Len(e) # 0, Matches(e[1], t[start]), Places(e, t, start)[Len(e)] # 0
    PROVE  LET p == Places(e, t, start)
           IN  /\ p[1] = start
               /\ \A i \in 1 .. Len(e) : p[i] \in 1 .. Len(t) /\ Matches(e[i], t[p[i]])
               /\ \A i \in 1 .. Len(e) : i < Len(e) => p[i] < p[i + 1]
<1> DEFINE p == Places(e, t, start)
           n == Len(e)
           T == {k \in Nat : k < n => p[n - k] # 0}
<1>1. n \in Nat /\ n # 0 /\ 1 \in 1 .. n
  OBVIOUS
<1>2. p[1] = start
  BY <1>1, PlacesDef
<1>3. \A i \in 1 .. n : /\ p[i] \in 0 .. Len(t)
                        /\ p[i] # 0 => Matches(e[i], t[p[i]])
                        /\ p[i] # 0 /\ i # 1 => p[i - 1] # 0 /\ p[i - 1] < p[i]
  BY PlacesFollow
<1> HIDE DEF p
<1>4. 0 \in T
  BY <1>1 DEF p
<1>5. ASSUME NEW k \in Nat, k \in T PROVE k + 1 \in T
  <2> SUFFICES ASSUME k + 1 < n PROVE p[n - (k + 1)] # 0
    OBVIOUS
  <2>1. n - k \in 1 .. n /\ n - k # 1 /\ (n - k) - 1 = n - (k + 1) /\ k < n
    BY <1>1
  <2> QED
    BY <1>3, <1>5, <2>1
<1> HIDE DEF T
<1>6. Nat \subseteq T
  BY <1>4, <1>5, NatSetInduction
<1>7. ASSUME NEW i \in 1 .. n PROVE p[i] # 0
  <2>1. n - i \in Nat /\ n - i < n /\ n - (n - i) = i
    BY <1>1
  <2> QED
    BY <1>6, <2>1 DEF T
<1>8. ASSUME NEW i \in 1 .. n, i < n PROVE p[i] < p[i + 1]
  <2>1. i + 1 \in 1 .. n /\ i + 1 # 1 /\ (i + 1) - 1 = i
    BY <1>1, <1>8
  <2> QED
    BY <1>3, <1>7, <2>1
<1>9. \A i \in 1 .. n : p[i] \in 1 .. Len(t) /\ Matches(e[i], t[p[i]])
  BY <1>3, <1>7
<1> QED
  BY <1>2, <1>8, <1>9 DEF p

\* What an alignment is: a reading of the excerpt between its ends.
LEMMA SpanReads ==
    ASSUME NEW e \in Seq(Tokens), NEW t \in Seq(Tokens), Len(e) # 0, NEW s \in Spans(e, t)
    PROVE  /\ s[1] \in 1 .. Len(t) /\ s[2] \in 1 .. Len(t) /\ s = <<s[1], s[2]>>
           /\ Skips(e, s[1], s[2]) \in Nat
           /\ Skips(e, s[1], s[2]) <= SkipBudget(e)
           /\ \E f \in [1 .. Len(e) -> s[1] .. s[2]] :
                 /\ \A k \in 1 .. Len(e) : Matches(e[k], t[f[k]])
                 /\ \A k \in 1 .. Len(e) - 1 : f[k] < f[k + 1]
                 /\ Skips(e, s[1], s[2]) = 0 =>
                       \A k \in 1 .. Len(e) : f[k] = s[1] + (k - 1)
<1> DEFINE n == Len(e)
<1>1. n \in Nat /\ n # 0 /\ Len(t) \in Nat /\ 1 \in 1 .. n /\ n \in 1 .. n
  OBVIOUS
<1>2. /\ s \in (1 .. Len(t)) \X (1 .. Len(t))
      /\ Matches(e[1], t[s[1]]) /\ Places(e, t, s[1])[n] = s[2]
      /\ Skips(e, s[1], s[2]) <= SkipBudget(e)
  BY DEF Spans
<1>3. PICK a, b \in 1 .. Len(t) : s = <<a, b>>
  BY <1>2
<1>4. s[1] = a /\ s[2] = b
  BY <1>3
<1> DEFINE p == Places(e, t, a)
<1>5. /\ p[1] = a /\ p[n] = b
      /\ \A i \in 1 .. n : p[i] \in 1 .. Len(t) /\ Matches(e[i], t[p[i]])
      /\ \A i \in 1 .. n : i < n => p[i] < p[i + 1]
  BY <1>1, <1>2, <1>4, FoundInOrder
<1> HIDE DEF p
<1>6. ASSUME NEW i \in 1 .. n PROVE a + (i - 1) <= p[i] /\ p[i] + (n - i) <= b
  <2>1. \A k \in 1 .. n : p[k] \in Int
    BY <1>5
  <2>2. p[1] + (i - 1) <= p[i]
    BY <1>1, <1>5, <2>1, Spread
  <2>3. p[i] + (n - i) <= p[n]
    <3>1. n \in i .. n
      BY <1>1
    <3> QED
      BY <1>1, <1>5, <2>1, <3>1, Spread
  <2> QED
    BY <1>5, <2>2, <2>3
<1>7. b - a + 1 - n \in Nat /\ Skips(e, a, b) = b - a + 1 - n
  BY <1>1, <1>5, <1>6 DEF Skips
<1> DEFINE f == [i \in 1 .. n |-> p[i]]
<1>8. f \in [1 .. n -> a .. b]
  <2>1. ASSUME NEW i \in 1 .. n PROVE p[i] \in a .. b
    BY <1>1, <1>5, <1>6
  <2> QED
    BY <2>1
<1>9. \A k \in 1 .. n : Matches(e[k], t[f[k]])
  BY <1>5
<1>10. \A k \in 1 .. n - 1 : f[k] < f[k + 1]
  <2>1. ASSUME NEW k \in 1 .. n - 1 PROVE p[k] < p[k + 1] /\ k \in 1 .. n /\ k + 1 \in 1 .. n
    BY <1>1, <1>5
  <2> QED
    BY <2>1
<1>11. Skips(e, a, b) = 0 => \A k \in 1 .. n : f[k] = a + (k - 1)
  <2> SUFFICES ASSUME b - a + 1 - n = 0, NEW k \in 1 .. n PROVE p[k] = a + (k - 1)
    BY <1>7
  <2>1. a + (k - 1) <= p[k] /\ p[k] + (n - k) <= b /\ p[k] \in Int
    BY <1>5, <1>6
  <2>2. PICK m \in Int : m = n
    BY <1>1
  <2>3. PICK x \in Int : x = p[k]
    BY <2>1
  <2>4. k \in Int /\ a \in Int /\ b \in Int
    BY <1>1
  <2>5. a + (k - 1) <= x /\ x + (m - k) <= b /\ b - a + 1 - m = 0
    BY <2>1, <2>2, <2>3
  <2>6. x = a + (k - 1)
    BY <2>4, <2>5
  <2> QED
    BY <2>3, <2>6
<1> HIDE DEF f
<1> QED
  BY <1>2, <1>3, <1>4, <1>7, <1>8, <1>9, <1>10, <1>11

\* The best alignment is one, and none skips less.
LEMMA BestIs ==
    ASSUME NEW e \in Seq(Tokens), NEW t \in Seq(Tokens), Len(e) # 0, Spans(e, t) # {}
    PROVE  /\ Best(e, t) \in Spans(e, t)
           /\ \A u \in Spans(e, t) :
                 Skips(e, Best(e, t)[1], Best(e, t)[2]) <= Skips(e, u[1], u[2])
<1> DEFINE skip(u) == Skips(e, u[1], u[2])
           Better(s, u) == \/ skip(s) < skip(u)
                           \/ skip(s) = skip(u) /\ s[1] <= u[1]
<1>1. \A u \in Spans(e, t) : skip(u) \in Nat /\ u[1] \in Nat
  BY SpanReads
<1> HIDE DEF skip
<1>2. PICK m \in {skip(u) : u \in Spans(e, t)} : \A y \in {skip(u) : u \in Spans(e, t)} : m <= y
  <2>1. {skip(u) : u \in Spans(e, t)} \subseteq Nat
    BY <1>1
  <2>2. {skip(u) : u \in Spans(e, t)} # {}
    OBVIOUS
  <2> QED
    BY <2>1, <2>2, NatMinimum
<1> DEFINE Firsts == {u[1] : u \in {v \in Spans(e, t) : skip(v) = m}}
<1>3. PICK a \in Firsts : \A y \in Firsts : a <= y
  <2>1. Firsts \subseteq Nat /\ Firsts # {}
    BY <1>1, <1>2
  <2> QED
    BY <2>1, NatMinimum
<1>4. PICK s \in Spans(e, t) : skip(s) = m /\ s[1] = a
  BY <1>3
<1>5. \A u \in Spans(e, t) : Better(s, u)
  <2> SUFFICES ASSUME NEW u \in Spans(e, t) PROVE Better(s, u)
    OBVIOUS
  <2>1. m <= skip(u) /\ m \in Nat /\ skip(u) \in Nat
    BY <1>1, <1>2
  <2>2. CASE skip(u) = m
    <3>1. u[1] \in Firsts
      BY <2>2
    <3> QED
      BY <1>3, <1>4, <2>2, <3>1
  <2>3. CASE skip(u) # m
    BY <1>4, <2>1, <2>3
  <2> QED
    BY <2>2, <2>3
<1>6. Best(e, t) = CHOOSE x \in Spans(e, t) : \A u \in Spans(e, t) : Better(x, u)
  BY DEF Best, skip
<1>7. Best(e, t) \in Spans(e, t) /\ \A u \in Spans(e, t) : Better(Best(e, t), u)
  <2> HIDE DEF Better
  <2> QED
    BY <1>5, <1>6
<1>8. ASSUME NEW u \in Spans(e, t) PROVE skip(Best(e, t)) <= skip(u)
  BY <1>1, <1>7
<1> QED
  BY <1>7, <1>8 DEF skip

LEMMA BudgetIs ==
    ASSUME NEW e \in Seq(Tokens)
    PROVE  SkipBudget(e) <= MaxSkips /\ SkipBudget(e) <= Len(e) - 1
<1>1. Len(e) \in Nat
  OBVIOUS
<1> QED
  BY <1>1 DEF SkipBudget, MaxSkips

\* A verbatim span is the excerpt, token by token.
LEMMA VerbatimBacks ==
    ASSUME NEW e \in Seq(Tokens), NEW t \in Seq(Tokens), Len(e) # 0, Verbatim(e, t) # {}
    PROVE  LET a == Min(Verbatim(e, t))
               b == a + Len(e) - 1
           IN  /\ a \in 1 .. Len(t) /\ b \in 1 .. Len(t) /\ a <= b
               /\ SubSeq(t, a, b) = e
               /\ \A k \in 1 .. Len(e) : e[k] = t[a + (k - 1)]
<1> DEFINE a == Min(Verbatim(e, t))
           b == a + Len(e) - 1
<1>1. Len(e) \in Nat /\ Len(t) \in Nat
  OBVIOUS
<1>2. Verbatim(e, t) \subseteq Nat
  BY DEF Verbatim
<1>3. a \in Verbatim(e, t)
  BY <1>2, MinIs
<1> HIDE DEF a
<1>4. a \in 1 .. Len(t) /\ b <= Len(t) /\ SubSeq(t, a, b) = e
  BY <1>3 DEF Verbatim
<1>5. b \in 1 .. Len(t) /\ a <= b
  BY <1>1, <1>4
<1>6. ASSUME NEW k \in 1 .. Len(e) PROVE e[k] = t[a + (k - 1)]
  <2>1. SubSeq(t, a, b)[k] = t[a + k - 1]
    BY <1>1, <1>4, <1>5
  <2>2. a + k - 1 = a + (k - 1)
    BY <1>1, <1>4
  <2> QED
    BY <1>4, <2>1, <2>2
<1> QED
  BY <1>4, <1>5, <1>6 DEF a

-----------------------------------------------------------------------------
(* What is recorded. *)

\* What the trace from i to j has to be to back an excerpt.
Backs(i, j, e, t) ==
    /\ \E f \in [1 .. Len(e) -> i .. j] :
          /\ \A k \in 1 .. Len(e) : Matches(e[k], t[f[k]])
          /\ \A k \in 1 .. Len(e) - 1 : f[k] < f[k + 1]
    /\ j - i + 1 - Len(e) <= MaxSkips
    /\ j - i + 1 < 2 * Len(e)
    /\ Compact(SubSeq(t, i, j)) <= Expansion * Compact(e)
    /\ Len(e) < MinRelaxed => SubSeq(t, i, j) = e

IsBacked(s, e, t) == Backs(s[1], s[2], e, t)

LEMMA VerbatimIsBacked ==
    ASSUME NEW e \in Seq(Tokens), NEW t \in Seq(Tokens), Len(e) # 0, Verbatim(e, t) # {}
    PROVE  IsBacked(Resolved(e, t), e, t)
<1> DEFINE a == Min(Verbatim(e, t))
           b == a + Len(e) - 1
<1>1. Len(e) \in Nat /\ e # << >> /\ Len(t) \in Nat
  OBVIOUS
<1>2. Resolved(e, t) = <<a, b>>
  BY <1>1 DEF Resolved
<1>3. /\ a \in 1 .. Len(t) /\ b \in 1 .. Len(t) /\ a <= b
      /\ SubSeq(t, a, b) = e
      /\ \A k \in 1 .. Len(e) : e[k] = t[a + (k - 1)]
  BY VerbatimBacks
<1> HIDE DEF a
<1> DEFINE f == [k \in 1 .. Len(e) |-> a + (k - 1)]
<1>4. f \in [1 .. Len(e) -> a .. b]
  BY <1>1, <1>3
<1>5. \A k \in 1 .. Len(e) : Matches(e[k], t[f[k]])
  BY <1>3 DEF Matches
<1>6. \A k \in 1 .. Len(e) - 1 : f[k] < f[k + 1]
  BY <1>1, <1>3
<1>7. b - a + 1 = Len(e)
  BY <1>1, <1>3
<1>8. b - a + 1 - Len(e) <= MaxSkips /\ b - a + 1 < 2 * Len(e)
  BY <1>1, <1>3 DEF MaxSkips
<1>9. Compact(e) <= Expansion * Compact(e)
  <2>1. \A k \in 1 .. Len(e) : Letters(e[k]) <= Expansion * Letters(e[k])
    <3>1. \A k \in 1 .. Len(e) : Letters(e[k]) \in Nat
      BY GroundingAssumption
    <3> QED
      BY <3>1 DEF Expansion
  <2> QED
    BY <2>1, CompactAtMostTwice
<1> HIDE DEF f
<1>10. Backs(a, b, e, t)
  BY <1>3, <1>4, <1>5, <1>6, <1>8, <1>9 DEF Backs
<1>11. <<a, b>>[1] = a /\ <<a, b>>[2] = b
  OBVIOUS
<1> QED
  BY <1>2, <1>10, <1>11 DEF IsBacked

LEMMA RepairedIsBacked ==
    ASSUME NEW e \in Seq(Tokens), NEW t \in Seq(Tokens), Repaired(e, t) # NoSpan
    PROVE  IsBacked(Repaired(e, t), e, t)
<1> DEFINE s == Best(e, t)
<1>1. Len(e) \in Nat /\ Len(e) >= MinRelaxed /\ Spans(e, t) # {}
  <2>1. Len(e) \in Nat
    OBVIOUS
  <2>2. ~(Len(e) < MinRelaxed \/ Spans(e, t) = {})
    BY DEF Repaired
  <2> QED
    BY <2>1, <2>2 DEF MinRelaxed
<1>2. Len(e) # 0
  BY <1>1 DEF MinRelaxed
<1>3. /\ Repaired(e, t) = s
      /\ ~(Compact(SubSeq(t, s[1], s[2])) > Compact(e) * Expansion)
  BY <1>1 DEF Repaired
<1>4. s \in Spans(e, t)
  BY <1>1, <1>2, BestIs
<1> HIDE DEF s
<1>5. /\ s[1] \in 1 .. Len(t) /\ s[2] \in 1 .. Len(t)
      /\ Skips(e, s[1], s[2]) <= SkipBudget(e)
      /\ \E f \in [1 .. Len(e) -> s[1] .. s[2]] :
            /\ \A k \in 1 .. Len(e) : Matches(e[k], t[f[k]])
            /\ \A k \in 1 .. Len(e) - 1 : f[k] < f[k + 1]
  BY <1>2, <1>4, SpanReads
<1>6. SkipBudget(e) <= MaxSkips /\ SkipBudget(e) <= Len(e) - 1 /\ SkipBudget(e) \in Int
  BY <1>1, BudgetIs DEF SkipBudget, MaxSkips
<1>7. s[2] - s[1] + 1 - Len(e) <= MaxSkips /\ s[2] - s[1] + 1 < 2 * Len(e)
  BY <1>1, <1>5, <1>6 DEF Skips, MaxSkips
<1>8. Compact(SubSeq(t, s[1], s[2])) \in Nat /\ Compact(e) \in Nat
  <2>1. SubSeq(t, s[1], s[2]) \in Seq(Tokens)
    BY <1>5
  <2> QED
    BY <2>1, CompactType
<1>9. Compact(SubSeq(t, s[1], s[2])) <= Expansion * Compact(e)
  BY <1>3, <1>8 DEF Expansion
<1>10. ~(Len(e) < MinRelaxed)
  BY <1>1 DEF MinRelaxed
<1>11. Backs(s[1], s[2], e, t)
  BY <1>5, <1>7, <1>9, <1>10 DEF Backs
<1> QED
  BY <1>3, <1>11 DEF IsBacked

LEMMA ResolvedIsBacked ==
    ASSUME NEW e \in Seq(Tokens), NEW t \in Seq(Tokens), Resolved(e, t) # NoSpan
    PROVE  IsBacked(Resolved(e, t), e, t)
<1>1. e # << >>
  BY DEF Resolved
<1>2. Len(e) # 0
  BY <1>1
<1>3. CASE Verbatim(e, t) # {}
  BY <1>2, <1>3, VerbatimIsBacked
<1>4. CASE Verbatim(e, t) = {}
  <2>1. Resolved(e, t) = Repaired(e, t)
    BY <1>1, <1>4 DEF Resolved
  <2> QED
    BY <2>1, RepairedIsBacked
<1> QED
  BY <1>3, <1>4

-----------------------------------------------------------------------------
(* Honest copies. *)

\* Where an excerpt is copied token by token the search goes straight on.
LEMMA CopyIsFollowed ==
    ASSUME NEW e \in Seq(Tokens), NEW t \in Seq(Tokens), NEW a \in 1 .. Len(t),
           Len(e) # 0, a + Len(e) - 1 <= Len(t),
           \A k \in 1 .. Len(e) : Matches(e[k], t[a + k - 1])
    PROVE  Places(e, t, a)[Len(e)] = a + Len(e) - 1
<1> DEFINE p == Places(e, t, a)
           T == {k \in Nat : k + 1 <= Len(e) => p[k + 1] = a + k}
<1>1. Len(e) \in Nat /\ Len(t) \in Nat /\ 1 \in 1 .. Len(e)
  OBVIOUS
<1>2. p[1] = a
  BY <1>1, PlacesDef
<1>3. ASSUME NEW i \in 1 .. Len(e), i # 1
      PROVE  p[i] = NextPlace(e[i], t, p[i - 1])
  BY <1>3, PlacesDef
<1> HIDE DEF p
<1>4. 0 \in T
  BY <1>2
<1>5. ASSUME NEW k \in Nat, k \in T PROVE k + 1 \in T
  <2> SUFFICES ASSUME (k + 1) + 1 <= Len(e) PROVE p[(k + 1) + 1] = a + (k + 1)
    OBVIOUS
  <2> DEFINE i == (k + 1) + 1
  <2>1. i \in 1 .. Len(e) /\ i # 1 /\ i - 1 = k + 1 /\ k + 1 <= Len(e)
    BY <1>1
  <2>2. p[i - 1] = a + k
    BY <1>5, <2>1
  <2>3. p[i] = NextPlace(e[i], t, a + k)
    BY <1>3, <2>1, <2>2
  <2>4. a + k \in 0 .. Len(t) /\ a + k # 0 /\ a + k < Len(t)
    BY <1>1
  <2>5. a + i - 1 = (a + k) + 1
    BY <1>1
  <2>6. Matches(e[i], t[(a + k) + 1])
    BY <2>1, <2>5
  <2>7. NextPlace(e[i], t, a + k) = (a + k) + 1
    BY <2>4, <2>6, NextPlaceIs
  <2> QED
    BY <1>1, <2>3, <2>7
<1> HIDE DEF T
<1>6. Len(e) - 1 \in T /\ Len(e) - 1 \in Nat /\ (Len(e) - 1) + 1 = Len(e)
  BY <1>1, <1>4, <1>5, NatSetInduction
<1>7. p[Len(e)] = a + (Len(e) - 1)
  BY <1>1, <1>6 DEF T
<1> QED
  BY <1>1, <1>7 DEF p

\* No token is more than twice as long as its copy.
LEMMA CopyIsLong ==
    ASSUME NEW x \in Tokens, NEW y \in Tokens, Matches(x, y),
           \A d \in Damage : Letters(d[2]) <= Expansion * Letters(d[1])
    PROVE  Letters(y) <= Expansion * Letters(x)
<1>1. Letters(x) \in Nat /\ Letters(y) \in Nat
  BY GroundingAssumption
<1>2. CASE x = y
  BY <1>1, <1>2 DEF Expansion
<1>3. CASE <<x, y>> \in Damage
  <2>1. <<x, y>>[1] = x /\ <<x, y>>[2] = y
    OBVIOUS
  <2> QED
    BY <1>3, <2>1
<1> QED
  BY <1>2, <1>3 DEF Matches

LEMMA HonestCopyIsFound ==
    ASSUME NEW e \in Seq(Tokens), NEW t \in Seq(Tokens), Len(e) >= MinRelaxed,
           NEW a \in 1 .. Len(t) - Len(e) + 1,
           \A k \in 1 .. Len(e) : Matches(e[k], t[a + k - 1]),
           \A d \in Damage : Letters(d[2]) <= Expansion * Letters(d[1])
    PROVE  /\ Resolved(e, t) # NoSpan
           /\ Resolved(e, t)[2] - Resolved(e, t)[1] + 1 = Len(e)
<1> DEFINE n == Len(e)
<1>1. n \in Nat /\ n >= 3 /\ n # 0 /\ e # << >> /\ Len(t) \in Nat
  BY DEF MinRelaxed
<1>2. CASE Verbatim(e, t) # {}
  <2> DEFINE v == Min(Verbatim(e, t))
  <2>1. Resolved(e, t) = <<v, v + n - 1>>
    BY <1>1, <1>2 DEF Resolved
  <2>2. v \in 1 .. Len(t)
    BY <1>1, <1>2, VerbatimBacks
  <2> HIDE DEF v
  <2>3. Resolved(e, t)[1] = v /\ Resolved(e, t)[2] = v + n - 1 /\ NoSpan[1] = 0
    BY <2>1 DEF NoSpan
  <2>4. (v + n - 1) - v + 1 = n /\ v # 0
    BY <1>1, <2>2
  <2> QED
    BY <2>3, <2>4
<1>3. CASE Verbatim(e, t) = {}
  <2> DEFINE s == Best(e, t)
             b == a + n - 1
  <2>1. a \in 1 .. Len(t) /\ b \in 1 .. Len(t) /\ b <= Len(t)
    BY <1>1
  <2>2. Matches(e[1], t[a])
    <3>1. 1 \in 1 .. n /\ a + 1 - 1 = a
      BY <1>1
    <3> QED
      BY <3>1
  <2>3. Places(e, t, a)[n] = b
    BY <1>1, <2>1, CopyIsFollowed
  <2>4. Skips(e, a, b) = 0 /\ 0 <= SkipBudget(e)
    BY <1>1, <2>1 DEF Skips, SkipBudget, MaxSkips
  <2>5. <<a, b>> \in Spans(e, t)
    <3>1. <<a, b>> \in (1 .. Len(t)) \X (1 .. Len(t)) /\ <<a, b>>[1] = a /\ <<a, b>>[2] = b
      BY <2>1
    <3> HIDE DEF b
    <3> QED
      BY <2>2, <2>3, <2>4, <3>1 DEF Spans
  <2>6. s \in Spans(e, t) /\ Skips(e, s[1], s[2]) <= Skips(e, a, b)
    <3>1. <<a, b>>[1] = a /\ <<a, b>>[2] = b
      OBVIOUS
    <3> HIDE DEF b
    <3> QED
      BY <1>1, <2>5, <3>1, BestIs
  <2> HIDE DEF s
  <2>7. \E f \in [1 .. n -> s[1] .. s[2]] :
           /\ \A k \in 1 .. n : Matches(e[k], t[f[k]])
           /\ \A k \in 1 .. n - 1 : f[k] < f[k + 1]
           /\ Skips(e, s[1], s[2]) = 0 => \A k \in 1 .. n : f[k] = s[1] + (k - 1)
    BY <1>1, <2>6, SpanReads
  <2>8. /\ s[1] \in 1 .. Len(t) /\ s[2] \in 1 .. Len(t)
        /\ Skips(e, s[1], s[2]) \in Nat
    BY <1>1, <2>6, SpanReads
  <2>9. Skips(e, s[1], s[2]) = 0
    BY <2>4, <2>6, <2>8
  <2>10. s[2] - s[1] + 1 = n
    BY <1>1, <2>8, <2>9 DEF Skips
  <2> DEFINE u == SubSeq(t, s[1], s[2])
  <2>11. u \in Seq(Tokens) /\ Len(u) = n
    <3>1. s[1] <= s[2] + 1
      BY <1>1, <2>8, <2>10
    <3> QED
      BY <1>1, <2>8, <2>10, <3>1
  <2>12. ASSUME NEW k \in 1 .. n PROVE u[k] = t[s[1] + (k - 1)]
    <3>1. PICK x, y \in 1 .. Len(t) : x = s[1] /\ y = s[2]
      BY <2>8
    <3>2. x <= y /\ k \in 1 .. y - x + 1
      BY <1>1, <2>10, <3>1
    <3>3. SubSeq(t, x, y)[k] = t[x + k - 1]
      BY <1>1, <3>2
    <3>4. x + k - 1 = x + (k - 1)
      BY <1>1
    <3> QED
      BY <3>1, <3>3, <3>4
  <2> HIDE DEF u
  <2>13. ASSUME NEW k \in 1 .. n PROVE Letters(u[k]) <= Expansion * Letters(e[k])
    <3>1. Matches(e[k], u[k])
      <4>1. PICK f : f[k] = s[1] + (k - 1) /\ Matches(e[k], t[f[k]])
        BY <2>7, <2>9
      <4> QED
        BY <2>12, <4>1
    <3>2. e[k] \in Tokens /\ u[k] \in Tokens
      BY <1>1, <2>11
    <3> QED
      BY <3>1, <3>2, CopyIsLong
  <2>14. Compact(u) <= Expansion * Compact(e)
    BY <2>11, <2>13, CompactAtMostTwice
  <2>15. Compact(u) \in Nat /\ Compact(e) \in Nat
    BY <2>11, CompactType
  <2>16. ~(Compact(u) > Compact(e) * Expansion)
    BY <2>14, <2>15 DEF Expansion
  <2>17. Repaired(e, t) = s
    BY <1>1, <2>6, <2>16 DEF Repaired, MinRelaxed, s, u
  <2>18. Resolved(e, t) = s
    BY <1>1, <1>3, <2>17 DEF Resolved
  <2>19. s # NoSpan
    <3>1. NoSpan[1] = 0
      BY DEF NoSpan
    <3> QED
      BY <2>8, <3>1
  <2> QED
    BY <2>10, <2>18, <2>19
<1> QED
  BY <1>2, <1>3

-----------------------------------------------------------------------------
(* Grounding. *)

GroundingInv ==
    /\ trace \in Seq(Tokens) /\ excerpt \in Seq(Tokens)
    /\ span # Unsought => span = Resolved(excerpt, trace)

LEMMA GroundingStart == GroundingInit => GroundingInv
<1> SUFFICES ASSUME GroundingInit PROVE GroundingInv
  OBVIOUS
<1>1. PICK n \in 0 .. MaxTrace : trace \in [1 .. n -> Tokens]
  BY DEF GroundingInit
<1>2. PICK m \in 0 .. MaxExcerpt : excerpt \in [1 .. m -> Tokens]
  BY DEF GroundingInit
<1>3. trace \in Seq(Tokens) /\ excerpt \in Seq(Tokens)
  BY <1>1, <1>2
<1> QED
  BY <1>3 DEF GroundingInit, GroundingInv

LEMMA GroundingStep == GroundingInv /\ [GroundingNext]_groundingVars => GroundingInv'
BY DEF GroundingInv, GroundingNext, Ground, groundingVars

LEMMA GroundingImplies == GroundingInv => GroundingIsExact
<1> SUFFICES ASSUME GroundingInv PROVE GroundingIsExact
  OBVIOUS
<1>1. trace \in Seq(Tokens) /\ excerpt \in Seq(Tokens)
  BY DEF GroundingInv
<1>2. RecordedSpanBacksExcerpt
  <2> SUFFICES ASSUME span \notin {NoSpan, Unsought}
               PROVE  IsBacked(span, excerpt, trace)
    BY DEF RecordedSpanBacksExcerpt, Readings, IsBacked, Backs
  <2>1. span = Resolved(excerpt, trace)
    BY DEF GroundingInv
  <2> QED
    BY <1>1, <2>1, ResolvedIsBacked
<1>3. DamagedCopyIsFound
  <2> SUFFICES ASSUME span # Unsought, Len(excerpt) >= MinRelaxed,
                      NEW a \in 1 .. Len(trace) - Len(excerpt) + 1,
                      \A k \in 1 .. Len(excerpt) : Matches(excerpt[k], trace[a + k - 1]),
                      \A d \in Damage : Letters(d[2]) <= Expansion * Letters(d[1])
               PROVE  span # NoSpan /\ span[2] - span[1] + 1 = Len(excerpt)
    BY DEF DamagedCopyIsFound
  <2>1. span = Resolved(excerpt, trace)
    BY DEF GroundingInv
  <2> QED
    BY <1>1, <2>1, HonestCopyIsFound
<1> QED
  BY <1>2, <1>3 DEF GroundingIsExact

\* Whatever the trace, the excerpt and the relation between a token and its
\* damaged copies, a recorded span is a reading of the excerpt with little
\* else in it, and an honest copy is found without a token that is not its own.
THEOREM ExcerptsAreGrounded == GroundingSpec => []GroundingIsExact
BY GroundingStart, GroundingStep, GroundingImplies, PTL DEF GroundingSpec

-----------------------------------------------------------------------------
(* The boundary patterns. *)

Alphabet == Symbols \cup {"placeholder", "entity"}

\* From the end of a text to its beginning.
LEMMA DownInduction ==
    ASSUME NEW n \in Nat, NEW T,
           \A i \in 1 .. n : (\A j \in i + 1 .. n : j \in T) => i \in T
    PROVE  \A i \in 1 .. n : i \in T
<1> SUFFICES ASSUME NEW i \in 1 .. n, i \notin T PROVE FALSE
  OBVIOUS
<1> DEFINE D == {n - j : j \in {k \in 1 .. n : k \notin T}}
<1>1. D \subseteq Nat /\ D # {}
  OBVIOUS
<1>2. PICK d \in D : \A y \in D : d <= y
  BY <1>1, NatMinimum
<1>3. PICK j \in 1 .. n : j \notin T /\ d = n - j
  BY <1>2
<1>4. ASSUME NEW k \in j + 1 .. n PROVE k \in T
  <2>1. k \in 1 .. n /\ n - k < n - j
    BY <1>3
  <2>2. k \notin T => n - k \in D
    BY <2>1
  <2>3. n - k \in Int /\ n - j \in Int
    BY <2>1
  <2> HIDE DEF D
  <2> QED
    BY <1>2, <1>3, <2>1, <2>2, <2>3
<1> QED
  BY <1>3, <1>4

LEMMA AfterIs ==
    ASSUME NEW s \in Seq(Alphabet), NEW i \in 1 .. Len(s) + 1, NEW cs
    PROVE  /\ After(s, i, cs) \in i .. Len(s) + 1
           /\ \A k \in i .. After(s, i, cs) - 1 : s[k] \in cs
           /\ After(s, i, cs) <= Len(s) => s[After(s, i, cs)] \notin cs
<1> DEFINE stops == {j \in i .. Len(s) : s[j] \notin cs}
<1>1. Len(s) \in Nat
  OBVIOUS
<1>2. CASE stops = {}
  <2>1. After(s, i, cs) = Len(s) + 1
    BY <1>2 DEF After
  <2>2. \A k \in i .. Len(s) : s[k] \in cs
    BY <1>2
  <2>3. (Len(s) + 1) - 1 = Len(s) /\ Len(s) + 1 \in i .. Len(s) + 1 /\ ~(Len(s) + 1 <= Len(s))
    BY <1>1
  <2> QED
    BY <2>1, <2>2, <2>3
<1>3. CASE stops # {}
  <2>1. \E j \in stops : \A k \in stops : j <= k
    <3>1. stops \subseteq Nat
      BY <1>1
    <3> HIDE DEF stops
    <3> QED
      BY <1>3, <3>1, NatMinimum
  <2>2. After(s, i, cs) = CHOOSE j \in stops : \A k \in stops : j <= k
    BY <1>3 DEF After
  <2>3. After(s, i, cs) \in stops /\ \A k \in stops : After(s, i, cs) <= k
    <3> HIDE DEF stops
    <3> QED
      BY <2>1, <2>2
  <2>4. PICK a \in i .. Len(s) : a = After(s, i, cs) /\ s[a] \notin cs
    BY <2>3
  <2>5. ASSUME NEW k \in i .. a - 1 PROVE s[k] \in cs
    <3>1. k \in i .. Len(s) /\ ~(a <= k)
      BY <1>1, <2>4
    <3>2. k \notin stops
      BY <2>3, <2>4, <3>1
    <3> QED
      BY <3>1, <3>2
  <2>6. a \in i .. Len(s) + 1
    BY <1>1
  <2> QED
    BY <2>4, <2>5, <2>6
<1> QED
  BY <1>2, <1>3

\* The first position that holds none of cs, given where it is.
LEMMA AfterAt ==
    ASSUME NEW s \in Seq(Alphabet), NEW i \in 1 .. Len(s), NEW j \in i .. Len(s), NEW cs,
           \A k \in i .. j - 1 : s[k] \in cs, s[j] \notin cs
    PROVE  After(s, i, cs) = j
<1>1. PICK a \in i .. Len(s) + 1 :
         /\ a = After(s, i, cs)
         /\ \A k \in i .. a - 1 : s[k] \in cs
         /\ a <= Len(s) => s[a] \notin cs
  <2>1. i \in 1 .. Len(s) + 1
    OBVIOUS
  <2> QED
    BY <2>1, AfterIs
<1>2. ~(a < j)
  <2> SUFFICES ASSUME a < j PROVE FALSE
    OBVIOUS
  <2>1. a \in i .. j - 1 /\ a <= Len(s)
    OBVIOUS
  <2> QED
    BY <1>1, <2>1
<1>3. ~(j < a)
  <2> SUFFICES ASSUME j < a PROVE FALSE
    OBVIOUS
  <2>1. j \in i .. a - 1
    OBVIOUS
  <2> QED
    BY <1>1, <2>1
<1> QED
  BY <1>1, <1>2, <1>3

\* A boundary from i whose name is at j: spaces between, and one slash or none.
Between(s, i, j) ==
    \/ \A k \in i + 1 .. j - 1 : s[k] = "space"
    \/ \E q \in i + 1 .. j - 1 :
          s[q] = "slash" /\ \A k \in i + 1 .. j - 1 : k # q => s[k] = "space"

DanglingAt(s, i, j) ==
    /\ i \in 1 .. Len(s) /\ j \in i + 1 .. Len(s)
    /\ s[i] = "lt" /\ s[j] = "name"
    /\ j < Len(s) => s[j + 1] \notin {"x", "name"}
    /\ Between(s, i, j)

LEMMA NameEndsIs ==
    ASSUME NEW s \in Seq(Alphabet), NEW j \in 1 .. Len(s)
    PROVE  NameEnds(s, j) <=> s[j] = "name" /\ (j < Len(s) => s[j + 1] \notin {"x", "name"})
<1>1. Len(s) \in Nat /\ (j + 1 <= Len(s) <=> j < Len(s)) /\ j <= Len(s)
  OBVIOUS
<1> QED
  BY <1>1 DEF NameEnds, Has

\* Where a name may be.
LEMMA NamesAre ==
    ASSUME NEW s \in Seq(Alphabet), NEW i \in 1 .. Len(s)
    PROVE  /\ s[i] # "lt" => NameAt(s, i) = 0 /\ ClosingNameAt(s, i) = 0
           /\ s[i] = "lt" =>
                 /\ NameAt(s, i) = After(s, i + 1, {"space"})
                 /\ NameAt(s, i) \in i + 1 .. Len(s) + 1
                 /\ NameAt(s, i) <= Len(s) /\ s[NameAt(s, i)] = "slash" =>
                       ClosingNameAt(s, i) = After(s, NameAt(s, i) + 1, {"space"})
                 /\ ~(NameAt(s, i) <= Len(s) /\ s[NameAt(s, i)] = "slash") =>
                       ClosingNameAt(s, i) = 0
           /\ ClosingNameAt(s, i) \in {0} \cup (i + 1 .. Len(s) + 1)
           /\ ClosingNameAt(s, i) # 0 => NameAt(s, i) # 0
<1>1. Len(s) \in Nat /\ i <= Len(s) /\ i + 1 \in 1 .. Len(s) + 1
  OBVIOUS
<1>2. CASE s[i] # "lt"
  <2>1. NameAt(s, i) = 0
    BY <1>2 DEF NameAt, Has
  <2>2. ClosingNameAt(s, i) = 0
    BY <2>1 DEF ClosingNameAt
  <2> QED
    BY <1>2, <2>1, <2>2
<1>3. CASE s[i] = "lt"
  <2>1. PICK a \in i + 1 .. Len(s) + 1 : a = After(s, i + 1, {"space"})
    BY <1>1, AfterIs
  <2>2. NameAt(s, i) = a
    BY <1>1, <1>3, <2>1 DEF NameAt, Has
  <2>3. a > 0 /\ a # 0
    BY <1>1
  <2>4. CASE a <= Len(s) /\ s[a] = "slash"
    <3>1. ClosingNameAt(s, i) = After(s, a + 1, {"space"})
      BY <2>2, <2>3, <2>4 DEF ClosingNameAt, Has
    <3>2. a + 1 \in 1 .. Len(s) + 1
      BY <1>1, <2>4
    <3>3. After(s, a + 1, {"space"}) \in a + 1 .. Len(s) + 1
      BY <3>2, AfterIs
    <3>4. After(s, a + 1, {"space"}) \in i + 1 .. Len(s) + 1
      BY <1>1, <3>3
    <3> QED
      BY <1>3, <2>1, <2>2, <2>3, <2>4, <3>1, <3>4
  <2>5. CASE ~(a <= Len(s) /\ s[a] = "slash")
    <3>1. ClosingNameAt(s, i) = 0
      BY <2>2, <2>5 DEF ClosingNameAt, Has
    <3> QED
      BY <1>3, <2>1, <2>2, <2>3, <2>5, <3>1
  <2> QED
    BY <2>4, <2>5
<1> QED
  BY <1>2, <1>3

\* A dangling tag is found exactly where one begins, and ends after it begins.
LEMMA DanglingIff ==
    ASSUME NEW s \in Seq(Alphabet), NEW i \in 1 .. Len(s)
    PROVE  /\ DanglingTag(s, i) \in {0} \cup (i + 1 .. Len(s))
           /\ DanglingTag(s, i) # 0 <=> \E j \in i + 1 .. Len(s) : DanglingAt(s, i, j)
<1> DEFINE a == NameAt(s, i)
           c == ClosingNameAt(s, i)
<1>1. Len(s) \in Nat /\ i <= Len(s) /\ i + 1 \in 1 .. Len(s) + 1
  OBVIOUS
<1>2. CASE s[i] # "lt"
  <2>1. a = 0 /\ c = 0
    BY <1>2, NamesAre
  <2>2. DanglingTag(s, i) = 0
    BY <2>1 DEF DanglingTag
  <2> QED
    BY <1>2, <2>2 DEF DanglingAt
<1>3. CASE s[i] = "lt"
  <2>1. a = After(s, i + 1, {"space"}) /\ a \in i + 1 .. Len(s) + 1
    BY <1>3, NamesAre
  <2>2. \A k \in i + 1 .. a - 1 : s[k] = "space"
    BY <1>1, <2>1, AfterIs
  <2>3. a <= Len(s) => s[a] # "space"
    BY <1>1, <2>1, AfterIs
  <2>4. c # 0 => /\ a <= Len(s) /\ s[a] = "slash" /\ c \in a + 1 .. Len(s) + 1
                 /\ c = After(s, a + 1, {"space"})
                 /\ \A k \in a + 1 .. c - 1 : s[k] = "space"
    <3> SUFFICES ASSUME c # 0 PROVE /\ a <= Len(s) /\ s[a] = "slash" /\ c \in a + 1 .. Len(s) + 1
                                    /\ c = After(s, a + 1, {"space"})
                                    /\ \A k \in a + 1 .. c - 1 : s[k] = "space"
      OBVIOUS
    <3>1. a <= Len(s) /\ s[a] = "slash" /\ c = After(s, a + 1, {"space"})
      BY <1>3, NamesAre
    <3>2. a + 1 \in 1 .. Len(s) + 1
      BY <1>1, <2>1, <3>1
    <3> HIDE DEF a, c
    <3>3. c \in a + 1 .. Len(s) + 1 /\ \A k \in a + 1 .. c - 1 : s[k] \in {"space"}
      BY <3>1, <3>2, AfterIs
    <3> QED
      BY <3>1, <3>3
  <2>5. c \in {0} \cup (i + 1 .. Len(s) + 1)
    BY NamesAre
  <2>6. DanglingTag(s, i) = IF a > 0 /\ NameEnds(s, a) THEN a
                            ELSE IF c > 0 /\ NameEnds(s, c) THEN c ELSE 0
    BY DEF DanglingTag
  <2> HIDE DEF a, c
  <2>7. ASSUME NEW j \in i + 1 .. Len(s) + 1, NameEnds(s, j)
        PROVE  /\ j \in i + 1 .. Len(s) /\ s[j] = "name"
               /\ j < Len(s) => s[j + 1] \notin {"x", "name"}
    <3>1. j <= Len(s)
      BY <2>7 DEF NameEnds, Has
    <3>2. j \in 1 .. Len(s) /\ j \in i + 1 .. Len(s)
      BY <1>1, <3>1
    <3> QED
      BY <2>7, <3>2, NameEndsIs
  <2>8. CASE NameEnds(s, a)
    <3>1. DanglingTag(s, i) = a /\ a # 0
      BY <1>1, <2>1, <2>6, <2>8
    <3>2. a \in i + 1 .. Len(s) /\ DanglingAt(s, i, a)
      BY <1>3, <2>1, <2>2, <2>7, <2>8 DEF DanglingAt, Between
    <3> QED
      BY <3>1, <3>2
  <2>9. CASE ~NameEnds(s, a) /\ c # 0 /\ NameEnds(s, c)
    <3>1. c > 0
      BY <1>1, <2>5, <2>9
    <3>2. DanglingTag(s, i) = c
      BY <2>6, <2>9, <3>1
    <3>3. c \in i + 1 .. Len(s) /\ s[c] = "name" /\ (c < Len(s) => s[c + 1] \notin {"x", "name"})
      BY <2>5, <2>7, <2>9
    <3>4. a \in i + 1 .. c - 1
      BY <1>1, <2>1, <2>4, <2>9
    <3>5. ASSUME NEW k \in i + 1 .. c - 1, k # a PROVE s[k] = "space"
      <4>1. k \in i + 1 .. a - 1 \/ k \in a + 1 .. c - 1
        BY <3>4, <3>5, <2>1, <3>3, <1>1
      <4> QED
        BY <4>1, <2>2, <2>4, <2>9
    <3>6. Between(s, i, c)
      BY <2>4, <2>9, <3>4, <3>5 DEF Between
    <3> QED
      BY <1>3, <2>9, <3>2, <3>3, <3>6 DEF DanglingAt
  <2>10. CASE ~NameEnds(s, a) /\ ~(c # 0 /\ NameEnds(s, c))
    <3>1. DanglingTag(s, i) = 0
      BY <2>6, <2>10, <2>5
    <3>2. ASSUME NEW j \in i + 1 .. Len(s), DanglingAt(s, i, j) PROVE FALSE
      <4>0. s[j] = "name" /\ (j < Len(s) => s[j + 1] \notin {"x", "name"}) /\ Between(s, i, j)
        BY <3>2 DEF DanglingAt
      <4>1. NameEnds(s, j)
        <5>1. j \in 1 .. Len(s)
          BY <1>1
        <5> QED
          BY <4>0, <5>1, NameEndsIs
      <4>2. CASE \A k \in i + 1 .. j - 1 : s[k] = "space"
        <5>1. i + 1 \in 1 .. Len(s) /\ j \in i + 1 .. Len(s)
          BY <1>1
        <5>2. After(s, i + 1, {"space"}) = j
          BY <4>0, <4>2, <5>1, AfterAt
        <5> QED
          BY <2>1, <2>10, <4>1, <5>2
      <4>3. CASE \E q \in i + 1 .. j - 1 :
                    s[q] = "slash" /\ \A k \in i + 1 .. j - 1 : k # q => s[k] = "space"
        <5>1. PICK q \in i + 1 .. j - 1 :
                    s[q] = "slash" /\ \A k \in i + 1 .. j - 1 : k # q => s[k] = "space"
          BY <4>3
        <5>2. i + 1 \in 1 .. Len(s) /\ q \in i + 1 .. Len(s) /\ q + 1 \in 1 .. Len(s)
              /\ j \in q + 1 .. Len(s)
          BY <1>1
        <5>3. \A k \in i + 1 .. q - 1 : k \in i + 1 .. j - 1 /\ k # q
          BY <5>2
        <5>4. After(s, i + 1, {"space"}) = q
          BY <5>1, <5>2, <5>3, AfterAt
        <5>5. \A k \in q + 1 .. j - 1 : k \in i + 1 .. j - 1 /\ k # q
          BY <5>2
        <5>6. After(s, q + 1, {"space"}) = j
          BY <4>0, <5>1, <5>2, <5>5, AfterAt
        <5>7. c = j
          <6>1. NameAt(s, i) = q
            BY <1>3, <5>4, NamesAre
          <6>2. q <= Len(s) /\ s[q] = "slash"
            BY <5>1, <5>2, <1>1
          <6> QED
            BY <1>3, <5>6, <6>1, <6>2, NamesAre DEF c
        <5> QED
          BY <1>1, <2>10, <4>1, <5>7
      <4> QED
        BY <4>0, <4>2, <4>3 DEF Between
    <3> QED
      BY <3>1, <3>2
  <2> QED
    BY <2>8, <2>9, <2>10
<1> QED
  BY <1>2, <1>3

\* Where a tag ends.
LEMMA TagEndIs ==
    ASSUME NEW s \in Seq(Alphabet), NEW j \in 1 .. Len(s) + 1
    PROVE  TagEnd(s, j) \in {0} \cup (j .. Len(s))
<1> DEFINE cs == (Symbols \cup {"placeholder"}) \ {"lt", "gt"}
<1> HIDE DEF cs
<1>1. PICK a \in j .. Len(s) + 1 : a = After(s, j, cs)
  BY AfterIs
<1>2. TagEnd(s, j) = IF Has(s, a, "gt") THEN a ELSE 0
  BY <1>1 DEF TagEnd, cs
<1>3. Has(s, a, "gt") => a \in j .. Len(s)
  BY DEF Has
<1> QED
  BY <1>2, <1>3

\* A closed tag is a dangling one that goes on.
LEMMA TagsDangle ==
    ASSUME NEW s \in Seq(Alphabet), NEW i \in 1 .. Len(s)
    PROVE  /\ ClosingTag(s, i) \in {0} \cup (i .. Len(s))
           /\ OpeningTag(s, i) \in {0} \cup (i .. Len(s))
           /\ DanglingTag(s, i) = 0 => ClosingTag(s, i) = 0 /\ OpeningTag(s, i) = 0
<1> DEFINE a == NameAt(s, i)
           c == ClosingNameAt(s, i)
<1>1. Len(s) \in Nat /\ i <= Len(s)
  OBVIOUS
<1>2. a \in {0} \cup (i + 1 .. Len(s) + 1) /\ c \in {0} \cup (i + 1 .. Len(s) + 1)
  BY NamesAre
<1>3. DanglingTag(s, i) = IF a > 0 /\ NameEnds(s, a) THEN a
                          ELSE IF c > 0 /\ NameEnds(s, c) THEN c ELSE 0
  BY DEF DanglingTag
<1>4. ClosingTag(s, i) = IF c > 0 /\ NameEnds(s, c) THEN TagEnd(s, c + 1) ELSE 0
  BY DEF ClosingTag
<1>5. OpeningTag(s, i) = IF a > 0 /\ NameEnds(s, a) THEN TagEnd(s, a + 1) ELSE 0
  BY DEF OpeningTag
<1> HIDE DEF a, c
<1>6. ASSUME NEW j \in i + 1 .. Len(s) + 1, NameEnds(s, j)
      PROVE  TagEnd(s, j + 1) \in {0} \cup (i .. Len(s))
  <2>1. j <= Len(s)
    BY <1>6 DEF NameEnds, Has
  <2>2. j + 1 \in 1 .. Len(s) + 1
    BY <1>1, <2>1
  <2>3. TagEnd(s, j + 1) \in {0} \cup (j + 1 .. Len(s))
    BY <2>2, TagEndIs
  <2> QED
    BY <1>1, <2>3
<1> QED
  BY <1>1, <1>2, <1>3, <1>4, <1>5, <1>6

-----------------------------------------------------------------------------
(* Substitution. *)

LEMMA Prepended ==
    ASSUME NEW c \in Alphabet, NEW t \in Seq(Alphabet)
    PROVE  /\ <<c>> \o t \in Seq(Alphabet)
           /\ Len(<<c>> \o t) = Len(t) + 1
           /\ (<<c>> \o t)[1] = c
           /\ \A k \in 2 .. Len(t) + 1 : (<<c>> \o t)[k] = t[k - 1]
<1>1. <<c>> \in Seq(Alphabet) /\ Len(<<c>>) = 1 /\ <<c>>[1] = c /\ Len(t) \in Nat
  OBVIOUS
<1>2. Len(<<c>> \o t) = Len(t) + 1
  BY <1>1
<1>3. \A k \in 1 .. Len(t) + 1 : (<<c>> \o t)[k] = IF k <= 1 THEN <<c>>[k] ELSE t[k - 1]
  OBVIOUS
<1> QED
  BY <1>1, <1>2, <1>3

\* A match does not end before it begins.
EndsFit(s, ends) == \A i \in 1 .. Len(s) : ends[i] \in {0} \cup (i .. Len(s))

\* f rewrites every rest of s from position lo on.
Rewrites(f, s, ends, kept, lo) ==
    f = [i \in lo .. Len(s) + 1 |->
            IF i = Len(s) + 1 THEN << >>
            ELSE IF ends[i] > 0
                 THEN <<"placeholder">> \o kept[i] \o f[ends[i] + 1]
                 ELSE <<s[i]>> \o f[i + 1]]

LEMMA RewriterExists ==
    ASSUME NEW s \in Seq(Alphabet), NEW ends, NEW kept, EndsFit(s, ends)
    PROVE  \E f : Rewrites(f, s, ends, kept, 1)
<1> DEFINE n == Len(s)
           T == {k \in Nat : k <= n => \E f : Rewrites(f, s, ends, kept, n + 1 - k)}
<1>0. n \in Nat
  OBVIOUS
<1>1. 0 \in T
  <2> DEFINE g == [i \in n + 1 .. n + 1 |-> << >>]
  <2>1. Rewrites(g, s, ends, kept, n + 1)
    BY <1>0 DEF Rewrites
  <2>2. n + 1 - 0 = n + 1
    BY <1>0
  <2> HIDE DEF g
  <2> QED
    BY <2>1, <2>2
<1>2. ASSUME NEW k \in Nat, k \in T PROVE k + 1 \in T
  <2> SUFFICES ASSUME k + 1 <= n PROVE \E f : Rewrites(f, s, ends, kept, n + 1 - (k + 1))
    OBVIOUS
  <2>1. PICK f : Rewrites(f, s, ends, kept, n + 1 - k)
    BY <1>0, <1>2
  <2>2. PICK lo \in 1 .. n : lo = n + 1 - (k + 1) /\ n + 1 - k = lo + 1
    BY <1>0
  <2> DEFINE Body(h, i) == IF i = n + 1 THEN << >>
                           ELSE IF ends[i] > 0
                                THEN <<"placeholder">> \o kept[i] \o h[ends[i] + 1]
                                ELSE <<s[i]>> \o h[i + 1]
  <2> DEFINE g == [i \in lo .. n + 1 |-> IF i = lo THEN Body(f, lo) ELSE f[i]]
  <2>3. \A i \in lo + 1 .. n + 1 : f[i] = Body(f, i)
    BY <2>1, <2>2 DEF Rewrites
  <2>4. \A i \in lo + 1 .. n + 1 : g[i] = f[i]
    BY <1>0, <2>2
  <2>5. g[lo] = Body(f, lo)
    BY <1>0
  <2>6. g = [i \in lo .. n + 1 |-> g[i]]
    OBVIOUS
  <2> HIDE DEF g
  <2>7. \A i \in lo .. n + 1 : g[i] = Body(g, i)
    <3> SUFFICES ASSUME NEW i \in lo .. n + 1 PROVE g[i] = Body(g, i)
      OBVIOUS
    <3>1. g[i] = Body(f, i)
      <4>1. i = lo \/ i \in lo + 1 .. n + 1
        BY <1>0
      <4> QED
        BY <4>1, <2>3, <2>4, <2>5
    <3>2. i # n + 1 => g[i + 1] = f[i + 1]
      <4>1. i # n + 1 => i + 1 \in lo + 1 .. n + 1
        BY <1>0
      <4> QED
        BY <4>1, <2>4
    <3>3. i # n + 1 /\ ends[i] > 0 => g[ends[i] + 1] = f[ends[i] + 1]
      <4> SUFFICES ASSUME i # n + 1, ends[i] > 0 PROVE g[ends[i] + 1] = f[ends[i] + 1]
        OBVIOUS
      <4>1. i \in 1 .. n
        BY <1>0
      <4>2. ends[i] \in {0} \cup (i .. n)
        BY <4>1 DEF EndsFit
      <4>3. ends[i] + 1 \in lo + 1 .. n + 1
        BY <1>0, <4>1, <4>2
      <4> QED
        BY <4>3, <2>4
    <3> QED
      BY <3>1, <3>2, <3>3
  <2>8. Rewrites(g, s, ends, kept, lo)
    BY <2>6, <2>7 DEF Rewrites
  <2> QED
    BY <2>2, <2>8
<1>3. Nat \subseteq T
  <2> HIDE DEF T
  <2> QED
    BY <1>1, <1>2, NatSetInduction
<1>4. n \in T /\ n + 1 - n = 1
  BY <1>0, <1>3
<1> QED
  BY <1>0, <1>4

\* What a substitution returns.
LEMMA SubstitutedIs ==
    ASSUME NEW s \in Seq(Alphabet), NEW ends, NEW kept, EndsFit(s, ends)
    PROVE  \E f : /\ Substituted(s, ends, kept) = f[1]
                  /\ f[Len(s) + 1] = << >>
                  /\ \A i \in 1 .. Len(s) :
                        f[i] = IF ends[i] # 0 THEN <<"placeholder">> \o kept[i] \o f[ends[i] + 1]
                               ELSE <<s[i]>> \o f[i + 1]
<1> DEFINE g == CHOOSE f : Rewrites(f, s, ends, kept, 1)
<1>0. Len(s) \in Nat
  OBVIOUS
<1>1. Rewrites(g, s, ends, kept, 1)
  BY RewriterExists
<1>2. Substituted(s, ends, kept) = g[1]
  BY DEF Substituted, Rewrites
<1> HIDE DEF g
<1>3. g[Len(s) + 1] = << >>
  <2>1. Len(s) + 1 \in 1 .. Len(s) + 1
    BY <1>0
  <2> QED
    BY <1>1, <2>1 DEF Rewrites
<1>4. ASSUME NEW i \in 1 .. Len(s)
      PROVE  g[i] = IF ends[i] # 0 THEN <<"placeholder">> \o kept[i] \o g[ends[i] + 1]
                    ELSE <<s[i]>> \o g[i + 1]
  <2>1. i \in 1 .. Len(s) + 1 /\ i # Len(s) + 1
    BY <1>0
  <2>2. ends[i] \in {0} \cup (i .. Len(s))
    BY DEF EndsFit
  <2>3. ends[i] > 0 <=> ends[i] # 0
    BY <1>0, <2>2
  <2>4. g[i] = IF i = Len(s) + 1 THEN << >>
               ELSE IF ends[i] > 0
                    THEN <<"placeholder">> \o kept[i] \o g[ends[i] + 1]
                    ELSE <<s[i]>> \o g[i + 1]
    BY <1>1, <2>1 DEF Rewrites
  <2> QED
    BY <2>1, <2>3, <2>4
<1> QED
  BY <1>2, <1>3, <1>4

\* It is a text again.
LEMMA SubstitutedType ==
    ASSUME NEW s \in Seq(Alphabet), NEW ends, NEW kept, EndsFit(s, ends),
           \A i \in 1 .. Len(s) : ends[i] # 0 => kept[i] \in Seq(Alphabet)
    PROVE  Substituted(s, ends, kept) \in Seq(Alphabet)
<1> DEFINE n == Len(s)
<1>0. n \in Nat
  OBVIOUS
<1>1. PICK f : /\ Substituted(s, ends, kept) = f[1]
               /\ f[n + 1] = << >>
               /\ \A i \in 1 .. n :
                     f[i] = IF ends[i] # 0 THEN <<"placeholder">> \o kept[i] \o f[ends[i] + 1]
                            ELSE <<s[i]>> \o f[i + 1]
  BY SubstitutedIs
<1> DEFINE T == {i \in 1 .. n : f[i] \in Seq(Alphabet)}
<1>2. ASSUME NEW i \in 1 .. n, \A j \in i + 1 .. n : j \in T PROVE i \in T
  <2>1. \A j \in i + 1 .. n + 1 : f[j] \in Seq(Alphabet)
    <3> TAKE j \in i + 1 .. n + 1
    <3>1. j \in i + 1 .. n \/ j = n + 1
      BY <1>0
    <3>2. << >> \in Seq(Alphabet)
      OBVIOUS
    <3>3. CASE j \in i + 1 .. n
      BY <3>3, <1>2
    <3>4. CASE j = n + 1
      BY <3>2, <3>4, <1>1
    <3> QED
      BY <3>1, <3>3, <3>4
  <2>2. s[i] \in Alphabet /\ "placeholder" \in Alphabet
    BY DEF Alphabet
  <2>3. CASE ends[i] # 0
    <3>1. ends[i] + 1 \in i + 1 .. n + 1
      <4>1. ends[i] \in i .. n
        BY <2>3 DEF EndsFit
      <4> QED
        BY <1>0, <4>1
    <3>2. f[ends[i] + 1] \in Seq(Alphabet) /\ kept[i] \in Seq(Alphabet)
      BY <2>1, <2>3, <3>1
    <3>3. <<"placeholder">> \in Seq(Alphabet)
      BY <2>2
    <3>4. <<"placeholder">> \o kept[i] \o f[ends[i] + 1] \in Seq(Alphabet)
      BY <3>2, <3>3
    <3> QED
      BY <1>1, <2>3, <3>4
  <2>4. CASE ends[i] = 0
    <3>1. i + 1 \in i + 1 .. n + 1
      BY <1>0
    <3>2. f[i + 1] \in Seq(Alphabet)
      BY <2>1, <3>1
    <3>3. f[i] = <<s[i]>> \o f[i + 1]
      BY <1>1, <2>4
    <3>4. f[i] \in Seq(Alphabet)
      BY <2>2, <3>2, <3>3, Prepended
    <3> QED
      BY <3>4
  <2> QED
    BY <2>3, <2>4
<1>3. \A i \in 1 .. n : i \in T
  <2> HIDE DEF T
  <2> QED
    BY <1>0, <1>2, DownInduction
<1>4. f[1] \in Seq(Alphabet)
  <2>1. 1 \in 1 .. n \/ n + 1 = 1
    BY <1>0
  <2>2. << >> \in Seq(Alphabet)
    OBVIOUS
  <2> QED
    BY <2>1, <2>2, <1>1, <1>3
<1> QED
  BY <1>1, <1>4

\* A text without a match stays as it is.
LEMMA NothingToSubstitute ==
    ASSUME NEW s \in Seq(Alphabet), NEW ends, NEW kept, \A i \in 1 .. Len(s) : ends[i] = 0
    PROVE  Substituted(s, ends, kept) = s
<1> DEFINE n == Len(s)
<1>0. n \in Nat
  OBVIOUS
<1>1. PICK f : /\ Substituted(s, ends, kept) = f[1]
               /\ f[n + 1] = << >>
               /\ \A i \in 1 .. n :
                     f[i] = IF ends[i] # 0 THEN <<"placeholder">> \o kept[i] \o f[ends[i] + 1]
                            ELSE <<s[i]>> \o f[i + 1]
  <2>1. EndsFit(s, ends)
    BY DEF EndsFit
  <2> QED
    BY <2>1, SubstitutedIs
<1> DEFINE Rest(i) == /\ f[i] \in Seq(Alphabet)
                      /\ Len(f[i]) = n + 1 - i
                      /\ \A k \in 1 .. n + 1 - i : f[i][k] = s[i + k - 1]
           T == {i \in 1 .. n : Rest(i)}
<1>2. ASSUME NEW i \in 1 .. n, \A j \in i + 1 .. n : j \in T PROVE i \in T
  <2>1. f[i] = <<s[i]>> \o f[i + 1]
    BY <1>1
  <2>2. Rest(i + 1)
    <3>1. CASE i = n
      <4>1. f[i + 1] = << >>
        BY <1>1, <3>1
      <4>2. n + 1 - (i + 1) = 0
        BY <1>0, <3>1
      <4> QED
        BY <4>1, <4>2
    <3>2. CASE i # n
      <4>1. i + 1 \in i + 1 .. n
        BY <1>0, <3>2
      <4> QED
        BY <4>1, <1>2
    <3> QED
      BY <3>1, <3>2
  <2>3. s[i] \in Alphabet
    OBVIOUS
  <2>4. /\ f[i] \in Seq(Alphabet) /\ Len(f[i]) = Len(f[i + 1]) + 1
        /\ f[i][1] = s[i]
        /\ \A k \in 2 .. Len(f[i + 1]) + 1 : f[i][k] = f[i + 1][k - 1]
    BY <2>1, <2>2, <2>3, Prepended
  <2>5. ASSUME NEW k \in 1 .. n + 1 - i PROVE f[i][k] = s[i + k - 1]
    <3>1. CASE k = 1
      BY <2>4, <3>1
    <3>2. CASE k # 1
      <4>1. k - 1 \in 1 .. n + 1 - (i + 1) /\ (i + 1) + (k - 1) - 1 = i + k - 1
        BY <1>0, <3>2
      <4>2. k \in 2 .. Len(f[i + 1]) + 1
        BY <1>0, <2>2, <3>2
      <4>3. f[i][k] = f[i + 1][k - 1]
        BY <2>4, <4>2
      <4> QED
        BY <2>2, <4>1, <4>3
    <3> QED
      BY <3>1, <3>2
  <2>6. Len(f[i]) = n + 1 - i
    BY <1>0, <2>2, <2>4
  <2> QED
    BY <2>4, <2>5, <2>6
<1>3. \A i \in 1 .. n : i \in T
  <2> HIDE DEF T
  <2> QED
    BY <1>0, <1>2, DownInduction
<1>4. CASE n = 0
  <2>1. s = << >>
    BY <1>4
  <2> QED
    BY <1>1, <1>4, <2>1
<1>5. CASE n # 0
  <2>1. Rest(1)
    <3>1. 1 \in 1 .. n
      BY <1>0, <1>5
    <3> QED
      BY <1>3, <3>1
  <2>2. n + 1 - 1 = n
    BY <1>0
  <2>3. \A k \in 1 .. n : f[1][k] = s[k] 
    <3> TAKE k \in 1 .. n
    <3>1. 1 + k - 1 = k
      BY <1>0
    <3> QED
      BY <2>1, <2>2, <3>1
  <2>4. f[1] = s
    BY <2>1, <2>2, <2>3, SeqEqual
  <2> QED
    BY <1>1, <2>4
<1> QED
  BY <1>4, <1>5

-----------------------------------------------------------------------------
(* Escaping leaves nothing to escape. *)

\* t lies in o after the first d symbols: its tags are tags of o.
LEMMA Window ==
    ASSUME NEW o \in Seq(Alphabet), NEW t \in Seq(Alphabet), NEW d \in Nat,
           d + Len(t) <= Len(o), \A k \in 1 .. Len(t) : o[d + k] = t[k],
           NEW p \in 1 .. Len(t), NEW q \in p + 1 .. Len(t), DanglingAt(o, d + p, d + q)
    PROVE  DanglingAt(t, p, q)
<1>1. Len(t) \in Nat /\ Len(o) \in Nat
  OBVIOUS
<1>2. p \in Nat /\ q \in 1 .. Len(t) /\ q \in Nat
  BY <1>1
<1>3. o[d + p] = t[p] /\ o[d + q] = t[q]
  BY <1>2
<1>4. q < Len(t) => t[q + 1] \notin {"x", "name"}
  <2> SUFFICES ASSUME q < Len(t) PROVE t[q + 1] \notin {"x", "name"}
    OBVIOUS
  <2>1. q + 1 \in 1 .. Len(t) /\ d + (q + 1) = (d + q) + 1 /\ d + q < Len(o)
    BY <1>1, <1>2
  <2>2. o[(d + q) + 1] = t[q + 1]
    BY <2>1
  <2> QED
    BY <2>1, <2>2 DEF DanglingAt
<1>5. ASSUME NEW k \in p + 1 .. q - 1
      PROVE  d + k \in d + p + 1 .. d + q - 1 /\ o[d + k] = t[k]
  <2>1. k \in 1 .. Len(t) /\ d + k \in d + p + 1 .. d + q - 1
    BY <1>1, <1>2
  <2> QED
    BY <2>1
<1>6. Between(t, p, q)
  <2>1. CASE \A k \in d + p + 1 .. d + q - 1 : o[k] = "space"
    <3>1. \A k \in p + 1 .. q - 1 : t[k] = "space"
      BY <1>5, <2>1
    <3> QED
      BY <3>1 DEF Between
  <2>2. CASE \E e \in d + p + 1 .. d + q - 1 :
                o[e] = "slash" /\ \A k \in d + p + 1 .. d + q - 1 : k # e => o[k] = "space"
    <3>1. PICK e \in d + p + 1 .. d + q - 1 :
                o[e] = "slash" /\ \A k \in d + p + 1 .. d + q - 1 : k # e => o[k] = "space"
      BY <2>2
    <3>2. e - d \in p + 1 .. q - 1 /\ d + (e - d) = e
      BY <1>2
    <3>3. t[e - d] = "slash"
      BY <1>5, <3>1, <3>2
    <3>4. ASSUME NEW k \in p + 1 .. q - 1, k # e - d PROVE t[k] = "space"
      <4>1. k \in Int /\ d + k # e
        BY <1>2, <3>2, <3>4
      <4> QED
        BY <1>5, <3>1, <4>1
    <3> QED
      BY <3>2, <3>3, <3>4 DEF Between
  <2> QED
    BY <2>1, <2>2 DEF DanglingAt, Between
<1> QED
  BY <1>2, <1>3, <1>4, <1>6 DEF DanglingAt

\* o is what becomes of s from i on: up to the first placeholder it is s, and
\* only a tag's first symbol becomes one.
Mirror(s, i, o) ==
    \A k \in 0 .. Len(o) : (\A j \in 1 .. k : o[j] # "placeholder") =>
        /\ i + k - 1 <= Len(s)
        /\ \A j \in 1 .. k : o[j] = s[i + j - 1]
        /\ i + k <= Len(s) => k < Len(o) /\ (o[k + 1] = s[i + k] \/ s[i + k] = "lt")

Clean(o) == \A p \in 1 .. Len(o) : \A q \in p + 1 .. Len(o) : ~DanglingAt(o, p, q)

LEMMA MirrorReplaced ==
    ASSUME NEW s \in Seq(Alphabet), NEW i \in 1 .. Len(s), NEW t \in Seq(Alphabet), s[i] = "lt"
    PROVE  Mirror(s, i, <<"placeholder">> \o t)
<1> DEFINE o == <<"placeholder">> \o t
<1>1. /\ Len(s) \in Nat /\ Len(o) \in Nat /\ 0 < Len(o) /\ o[1] = "placeholder"
  <2>1. "placeholder" \in Alphabet /\ Len(t) \in Nat
    BY DEF Alphabet
  <2>2. Len(o) = Len(t) + 1 /\ o[1] = "placeholder"
    BY <2>1, Prepended
  <2> HIDE DEF o
  <2> QED
    BY <2>1, <2>2
<1> HIDE DEF o
<1>2. ASSUME NEW k \in 0 .. Len(o), \A j \in 1 .. k : o[j] # "placeholder" PROVE k = 0
  <2>1. k # 0 => 1 \in 1 .. k
    BY <1>1
  <2> QED
    BY <1>1, <1>2, <2>1
<1>3. Mirror(s, i, o)
  <2> SUFFICES ASSUME NEW k \in 0 .. Len(o), \A j \in 1 .. k : o[j] # "placeholder"
               PROVE  /\ i + k - 1 <= Len(s)
                      /\ \A j \in 1 .. k : o[j] = s[i + j - 1]
                      /\ i + k <= Len(s) => k < Len(o) /\ (o[k + 1] = s[i + k] \/ s[i + k] = "lt")
    BY DEF Mirror
  <2>1. k = 0
    BY <1>2
  <2> QED
    BY <1>1, <2>1
<1> QED
  BY <1>3 DEF o

LEMMA MirrorKept ==
    ASSUME NEW s \in Seq(Alphabet), NEW i \in 1 .. Len(s), NEW t \in Seq(Alphabet),
           Mirror(s, i + 1, t)
    PROVE  Mirror(s, i, <<s[i]>> \o t)
<1> DEFINE o == <<s[i]>> \o t
<1>1. /\ Len(o) = Len(t) + 1 /\ o[1] = s[i]
      /\ \A k \in 2 .. Len(t) + 1 : o[k] = t[k - 1]
  BY Prepended
<1>2. Len(s) \in Nat /\ Len(t) \in Nat /\ Len(o) \in Nat
  BY <1>1
<1> HIDE DEF o
<1>3. Mirror(s, i, o)
  <2> SUFFICES ASSUME NEW k \in 0 .. Len(o), \A j \in 1 .. k : o[j] # "placeholder"
               PROVE  /\ i + k - 1 <= Len(s)
                      /\ \A j \in 1 .. k : o[j] = s[i + j - 1]
                      /\ i + k <= Len(s) => k < Len(o) /\ (o[k + 1] = s[i + k] \/ s[i + k] = "lt")
    BY DEF Mirror
  <2>1. CASE k = 0
    BY <1>1, <1>2, <2>1
  <2>2. CASE k # 0
    <3>1. k - 1 \in 0 .. Len(t) /\ k \in 1 .. Len(t) + 1
      BY <1>1, <1>2, <2>2
    <3>2. ASSUME NEW j \in 1 .. k - 1 PROVE t[j] = o[j + 1] /\ j + 1 \in 2 .. k /\ j + 1 \in 1 .. k
      <4>1. j + 1 \in 2 .. Len(t) + 1 /\ (j + 1) - 1 = j /\ j + 1 \in 2 .. k /\ j + 1 \in 1 .. k
        BY <1>2, <3>1
      <4> QED
        BY <1>1, <4>1
    <3>3. \A j \in 1 .. k - 1 : t[j] # "placeholder"
      BY <3>2
    <3>4. /\ i + 1 + (k - 1) - 1 <= Len(s)
          /\ \A j \in 1 .. k - 1 : t[j] = s[i + 1 + j - 1]
          /\ i + 1 + (k - 1) <= Len(s) =>
                k - 1 < Len(t) /\ (t[(k - 1) + 1] = s[i + 1 + (k - 1)] \/ s[i + 1 + (k - 1)] = "lt")
      BY <3>1, <3>3 DEF Mirror
    <3>5. i + 1 + (k - 1) - 1 = i + k - 1 /\ i + 1 + (k - 1) = i + k /\ (k - 1) + 1 = k
      BY <1>2, <3>1
    <3>6. ASSUME NEW j \in 1 .. k PROVE o[j] = s[i + j - 1]
      <4>1. CASE j = 1
        <5>1. i + 1 - 1 = i
          BY <1>2
        <5> QED
          BY <1>1, <4>1, <5>1
      <4>2. CASE j # 1
        <5>1. j - 1 \in 1 .. k - 1 /\ j \in 2 .. Len(t) + 1 /\ i + 1 + (j - 1) - 1 = i + j - 1
          BY <1>2, <3>1, <4>2
        <5>2. o[j] = t[j - 1]
          BY <1>1, <5>1
        <5>3. t[j - 1] = s[i + 1 + (j - 1) - 1]
          BY <3>4, <5>1
        <5> QED
          BY <5>1, <5>2, <5>3
      <4> QED
        BY <4>1, <4>2
    <3>7. i + k <= Len(s) => k < Len(o) /\ (o[k + 1] = s[i + k] \/ s[i + k] = "lt")
      <4> SUFFICES ASSUME i + k <= Len(s)
                   PROVE  k < Len(o) /\ (o[k + 1] = s[i + k] \/ s[i + k] = "lt")
        OBVIOUS
      <4>1. k - 1 < Len(t) /\ (t[k] = s[i + k] \/ s[i + k] = "lt")
        BY <3>4, <3>5
      <4>2. k + 1 \in 2 .. Len(t) + 1 /\ (k + 1) - 1 = k /\ k < Len(o)
        BY <1>1, <1>2, <3>1, <4>1
      <4>3. o[k + 1] = t[k]
        BY <1>1, <4>2
      <4> QED
        BY <4>1, <4>2, <4>3
    <3> QED
      BY <3>4, <3>5, <3>6, <3>7
  <2> QED
    BY <2>1, <2>2
<1> QED
  BY <1>3 DEF o

\* A tag at the beginning of what s becomes from i on was one of s at i.
LEMMA MirroredTag ==
    ASSUME NEW s \in Seq(Alphabet), NEW i \in 1 .. Len(s), NEW o \in Seq(Alphabet),
           Mirror(s, i, o), NEW q \in 2 .. Len(o), DanglingAt(o, 1, q)
    PROVE  i + q - 1 \in i + 1 .. Len(s) /\ DanglingAt(s, i, i + q - 1)
<1>0. Len(s) \in Nat /\ Len(o) \in Nat
  OBVIOUS
<1>1. \A k \in 2 .. q - 1 : o[k] \in {"space", "slash"}
  <2>1. 1 + 1 = 2
    OBVIOUS
  <2> QED
    BY <2>1 DEF DanglingAt, Between
<1>2. \A j \in 1 .. q : o[j] # "placeholder"
  <2> TAKE j \in 1 .. q
  <2>1. j = 1 \/ j = q \/ j \in 2 .. q - 1
    OBVIOUS
  <2> QED
    BY <1>1, <2>1 DEF DanglingAt
<1>3. q \in 0 .. Len(o)
  BY <1>0
<1>4. /\ i + q - 1 <= Len(s)
      /\ \A j \in 1 .. q : o[j] = s[i + j - 1]
      /\ i + q <= Len(s) => q < Len(o) /\ (o[q + 1] = s[i + q] \/ s[i + q] = "lt")
  BY <1>2, <1>3 DEF Mirror
<1>5. i + q - 1 \in i + 1 .. Len(s) /\ 1 \in 1 .. q /\ q \in 1 .. q /\ i + 1 - 1 = i
  BY <1>0, <1>4
<1>6. s[i] = "lt" /\ s[i + q - 1] = "name"
  BY <1>4, <1>5 DEF DanglingAt
<1>7. i + q - 1 < Len(s) => s[(i + q - 1) + 1] \notin {"x", "name"}
  <2> SUFFICES ASSUME i + q - 1 < Len(s) PROVE s[(i + q - 1) + 1] \notin {"x", "name"}
    OBVIOUS
  <2>1. i + q <= Len(s) /\ (i + q - 1) + 1 = i + q
    BY <1>0
  <2>2. q < Len(o) /\ (o[q + 1] = s[i + q] \/ s[i + q] = "lt")
    BY <1>4, <2>1
  <2>3. o[q + 1] \notin {"x", "name"}
    BY <2>2 DEF DanglingAt
  <2> QED
    BY <2>1, <2>2, <2>3
<1>8. ASSUME NEW k \in i + 1 .. (i + q - 1) - 1
      PROVE  k - i + 1 \in 1 + 1 .. q - 1 /\ s[k] = o[k - i + 1]
  <2>1. k - i + 1 \in 1 + 1 .. q - 1 /\ k - i + 1 \in 1 .. q /\ i + (k - i + 1) - 1 = k
    BY <1>0
  <2> QED
    BY <1>4, <2>1
<1>9. Between(s, i, i + q - 1)
  <2>1. CASE \A k \in 1 + 1 .. q - 1 : o[k] = "space"
    <3>1. \A k \in i + 1 .. (i + q - 1) - 1 : s[k] = "space"
      BY <1>8, <2>1
    <3> QED
      BY <3>1 DEF Between
  <2>2. CASE \E e \in 1 + 1 .. q - 1 :
                o[e] = "slash" /\ \A k \in 1 + 1 .. q - 1 : k # e => o[k] = "space"
    <3>1. PICK e \in 1 + 1 .. q - 1 :
                o[e] = "slash" /\ \A k \in 1 + 1 .. q - 1 : k # e => o[k] = "space"
      BY <2>2
    <3>2. i + e - 1 \in i + 1 .. (i + q - 1) - 1 /\ (i + e - 1) - i + 1 = e
      BY <1>0
    <3>3. s[i + e - 1] = "slash"
      BY <1>8, <3>1, <3>2
    <3>4. ASSUME NEW k \in i + 1 .. (i + q - 1) - 1, k # i + e - 1 PROVE s[k] = "space"
      <4>1. k \in Int /\ k - i + 1 # e
        BY <1>0, <3>4
      <4> QED
        BY <1>8, <3>1, <4>1
    <3> QED
      BY <3>2, <3>3, <3>4 DEF Between
  <2> QED
    BY <2>1, <2>2 DEF DanglingAt, Between
<1> QED
  BY <1>5, <1>6, <1>7, <1>9 DEF DanglingAt

LEMMA CleanPrepended ==
    ASSUME NEW c \in Alphabet, NEW t \in Seq(Alphabet), Clean(t),
           \A q \in 2 .. Len(t) + 1 : ~DanglingAt(<<c>> \o t, 1, q)
    PROVE  Clean(<<c>> \o t)
<1> DEFINE o == <<c>> \o t
<1>1. /\ o \in Seq(Alphabet) /\ Len(o) = Len(t) + 1
      /\ \A k \in 2 .. Len(t) + 1 : o[k] = t[k - 1]
  BY Prepended
<1>2. \A q \in 2 .. Len(t) + 1 : ~DanglingAt(o, 1, q)
  OBVIOUS
<1> HIDE DEF o
<1>3. Len(t) \in Nat
  OBVIOUS
<1>4. \A k \in 1 .. Len(t) : o[1 + k] = t[k]
  <2> TAKE k \in 1 .. Len(t)
  <2>1. 1 + k \in 2 .. Len(t) + 1 /\ (1 + k) - 1 = k
    BY <1>3
  <2> QED
    BY <1>1, <2>1
<1>5. ASSUME NEW p \in 1 .. Len(o), NEW q \in p + 1 .. Len(o) PROVE ~DanglingAt(o, p, q)
  <2>1. CASE p = 1
    <3>1. q \in 2 .. Len(t) + 1
      BY <1>1, <1>3, <2>1
    <3> QED
      BY <1>2, <2>1, <3>1
  <2>2. CASE p # 1
    <3>1. p - 1 \in 1 .. Len(t) /\ q - 1 \in (p - 1) + 1 .. Len(t)
          /\ 1 + (p - 1) = p /\ 1 + (q - 1) = q /\ 1 + Len(t) <= Len(o) /\ 1 \in Nat
      BY <1>1, <1>3, <2>2
    <3>2. ~DanglingAt(t, p - 1, q - 1)
      <4>1. p - 1 \in 1 .. Len(t) /\ q - 1 \in (p - 1) + 1 .. Len(t)
        BY <3>1
      <4> QED
        BY <4>1 DEF Clean
    <3>3. ASSUME DanglingAt(o, p, q) PROVE FALSE
      <4> DEFINE a == p - 1
                 b == q - 1
      <4>1. a \in 1 .. Len(t) /\ b \in a + 1 .. Len(t) /\ DanglingAt(o, 1 + a, 1 + b)
            /\ ~DanglingAt(t, a, b) /\ 1 + Len(t) <= Len(o) /\ 1 \in Nat
        BY <3>1, <3>2, <3>3
      <4> HIDE DEF a, b
      <4> QED
        BY <1>1, <1>4, <4>1, Window
    <3> QED
      BY <3>3
  <2> QED
    BY <2>1, <2>2
<1>6. Clean(o)
  BY <1>5 DEF Clean
<1> QED
  BY <1>6 DEF o

\* The last pass leaves no dangling tag.
LEMMA DanglingIsEscaped ==
    ASSUME NEW s \in Seq(Alphabet)
    PROVE  EscapedDangling(s) \in Seq(Alphabet) /\ Clean(EscapedDangling(s))
<1> DEFINE n == Len(s)
           ends == [i \in 1 .. n |-> DanglingTag(s, i)]
           kept == NothingKept(s)
<1>0. n \in Nat
  OBVIOUS
<1>1. \A i \in 1 .. n : ends[i] = DanglingTag(s, i) /\ kept[i] = << >>
  BY DEF NothingKept
<1>2. EscapedDangling(s) = Substituted(s, ends, kept)
  BY DEF EscapedDangling
<1> HIDE DEF ends, kept
<1>3. EndsFit(s, ends)
  <2> SUFFICES ASSUME NEW i \in 1 .. n PROVE ends[i] \in {0} \cup (i .. n)
    BY DEF EndsFit
  <2>1. ends[i] \in {0} \cup (i + 1 .. n)
    BY <1>1, DanglingIff
  <2> QED
    BY <1>0, <2>1
<1>4. PICK f : /\ Substituted(s, ends, kept) = f[1]
               /\ f[n + 1] = << >>
               /\ \A i \in 1 .. n :
                     f[i] = IF ends[i] # 0 THEN <<"placeholder">> \o kept[i] \o f[ends[i] + 1]
                            ELSE <<s[i]>> \o f[i + 1]
  BY <1>3, SubstitutedIs
<1> DEFINE Good(i) == f[i] \in Seq(Alphabet) /\ Mirror(s, i, f[i]) /\ Clean(f[i])
           T == {i \in 1 .. n : Good(i)}
<1>5. Good(n + 1)
  <2>1. f[n + 1] = << >> /\ Len(<< >>) = 0 /\ << >> \in Seq(Alphabet)
    BY <1>4
  <2>2. Mirror(s, n + 1, << >>)
    BY <1>0, <2>1 DEF Mirror
  <2>3. Clean(<< >>)
    BY <2>1 DEF Clean
  <2> QED
    BY <2>1, <2>2, <2>3
<1>6. ASSUME NEW i \in 1 .. n, \A j \in i + 1 .. n : j \in T PROVE i \in T
  <2>1. ASSUME NEW j \in i + 1 .. n + 1 PROVE Good(j)
    <3>1. CASE j = n + 1
      BY <1>5, <3>1
    <3>2. CASE j # n + 1
      <4>1. j \in i + 1 .. n
        BY <1>0, <3>2
      <4> QED
        BY <1>6, <4>1
    <3> QED
      BY <3>1, <3>2
  <2>2. s[i] \in Alphabet /\ "placeholder" \in Alphabet /\ Len(s) \in Nat
    BY DEF Alphabet
  <2>3. CASE ends[i] # 0
    <3>1. ends[i] + 1 \in i + 1 .. n + 1
      <4>1. ends[i] \in i .. n
        BY <2>3, <1>3 DEF EndsFit
      <4> QED
        BY <1>0, <4>1
    <3>2. PICK t \in Seq(Alphabet) : t = f[ends[i] + 1] /\ Clean(t)
      BY <2>1, <3>1
    <3>3. f[i] = <<"placeholder">> \o t
      <4>1. f[i] = <<"placeholder">> \o kept[i] \o t
        BY <1>4, <2>3, <3>2
      <4>2. <<"placeholder">> \o << >> = <<"placeholder">>
        OBVIOUS
      <4> QED
        BY <1>1, <4>1, <4>2
    <3>4. s[i] = "lt"
      BY <1>1, <2>3, DanglingIff DEF DanglingAt
    <3>5. f[i] \in Seq(Alphabet) /\ f[i][1] = "placeholder"
      BY <2>2, <3>3, Prepended
    <3>6. Mirror(s, i, f[i])
      BY <3>3, <3>4, MirrorReplaced
    <3>7. \A q \in 2 .. Len(t) + 1 : ~DanglingAt(f[i], 1, q)
      BY <3>5 DEF DanglingAt
    <3>8. Clean(f[i])
      BY <2>2, <3>2, <3>3, <3>7, CleanPrepended
    <3> QED
      BY <3>5, <3>6, <3>8
  <2>4. CASE ends[i] = 0
    <3>1. i + 1 \in i + 1 .. n + 1
      BY <1>0
    <3>2. PICK t \in Seq(Alphabet) : t = f[i + 1] /\ Clean(t) /\ Mirror(s, i + 1, t)
      BY <2>1, <3>1
    <3>3. f[i] = <<s[i]>> \o t
      BY <1>4, <2>4, <3>2
    <3>4. f[i] \in Seq(Alphabet) /\ Len(f[i]) = Len(t) + 1
      BY <2>2, <3>3, Prepended
    <3>5. Mirror(s, i, f[i])
      BY <3>2, <3>3, MirrorKept
    <3>6. ASSUME NEW q \in 2 .. Len(t) + 1, DanglingAt(f[i], 1, q) PROVE FALSE
      <4>1. q \in 2 .. Len(f[i])
        BY <3>4
      <4>2. i + q - 1 \in i + 1 .. Len(s) /\ DanglingAt(s, i, i + q - 1)
        BY <3>4, <3>5, <3>6, <4>1, MirroredTag
      <4>3. DanglingTag(s, i) # 0
        BY <4>2, DanglingIff
      <4> QED
        BY <1>1, <2>4, <4>3
    <3>7. \A q \in 2 .. Len(t) + 1 : ~DanglingAt(f[i], 1, q)
      BY <3>6
    <3>8. Clean(f[i])
      BY <2>2, <3>2, <3>3, <3>7, CleanPrepended
    <3> QED
      BY <3>4, <3>5, <3>8
  <2> QED
    BY <2>3, <2>4
<1>7. \A i \in 1 .. n : i \in T
  <2> HIDE DEF T
  <2> QED
    BY <1>0, <1>6, DownInduction
<1>8. Good(1)
  <2>1. 1 \in 1 .. n \/ n + 1 = 1
    BY <1>0
  <2> QED
    BY <1>5, <1>7, <2>1
<1> QED
  BY <1>2, <1>4, <1>8

\* A clean text has no tag of any kind: escaping returns it.
LEMMA CleanIsKept ==
    ASSUME NEW s \in Seq(Alphabet), Clean(s)
    PROVE  Escaped(s) = s
<1>1. ASSUME NEW i \in 1 .. Len(s) PROVE DanglingTag(s, i) = 0
  BY <1>1, DanglingIff DEF Clean
<1>2. \A i \in 1 .. Len(s) : ClosingTag(s, i) = 0 /\ OpeningTag(s, i) = 0
  BY <1>1, TagsDangle
<1>3. EscapedClosing(s) = s
  <2> DEFINE ends == [i \in 1 .. Len(s) |-> ClosingTag(s, i)]
  <2>1. \A i \in 1 .. Len(s) : ends[i] = 0
    BY <1>2
  <2> HIDE DEF ends
  <2>2. Substituted(s, ends, NothingKept(s)) = s
    BY <2>1, NothingToSubstitute
  <2> QED
    BY <2>2 DEF EscapedClosing, ends
<1>4. EscapedOpening(s) = s
  <2> DEFINE ends == [i \in 1 .. Len(s) |-> OpeningTag(s, i)]
             kept == [i \in 1 .. Len(s) |->
                        SubSeq(s, After(s, i + 1, {"space"}) + 1, OpeningTag(s, i) - 1)]
  <2>1. \A i \in 1 .. Len(s) : ends[i] = 0
    BY <1>2
  <2>2. EscapedOpening(s) = Substituted(s, ends, kept)
    BY DEF EscapedOpening
  <2> HIDE DEF ends, kept
  <2> QED
    BY <2>1, <2>2, NothingToSubstitute
<1>5. EscapedDangling(s) = s
  <2> DEFINE ends == [i \in 1 .. Len(s) |-> DanglingTag(s, i)]
  <2>1. \A i \in 1 .. Len(s) : ends[i] = 0
    BY <1>1
  <2> HIDE DEF ends
  <2>2. Substituted(s, ends, NothingKept(s)) = s
    BY <2>1, NothingToSubstitute
  <2> QED
    BY <2>2 DEF EscapedDangling, ends
<1> QED
  BY <1>3, <1>4, <1>5 DEF Escaped

\* Whatever the text, escaping it leaves it clean.
LEMMA EscapedIsClean ==
    ASSUME NEW s \in Seq(Alphabet)
    PROVE  Escaped(s) \in Seq(Alphabet) /\ Clean(Escaped(s))
<1>1. ASSUME NEW t \in Seq(Alphabet) PROVE EscapedClosing(t) \in Seq(Alphabet)
  <2> DEFINE ends == [i \in 1 .. Len(t) |-> ClosingTag(t, i)]
             kept == NothingKept(t)
  <2>1. \A i \in 1 .. Len(t) : ends[i] \in {0} \cup (i .. Len(t)) /\ kept[i] = << >>
    BY TagsDangle DEF NothingKept
  <2>2. << >> \in Seq(Alphabet)
    OBVIOUS
  <2>3. EscapedClosing(t) = Substituted(t, ends, kept)
    BY DEF EscapedClosing
  <2> HIDE DEF ends, kept
  <2> QED
    BY <2>1, <2>2, <2>3, SubstitutedType DEF EndsFit
<1>2. ASSUME NEW t \in Seq(Alphabet) PROVE EscapedOpening(t) \in Seq(Alphabet)
  <2> DEFINE ends == [i \in 1 .. Len(t) |-> OpeningTag(t, i)]
             kept == [i \in 1 .. Len(t) |->
                        SubSeq(t, After(t, i + 1, {"space"}) + 1, OpeningTag(t, i) - 1)]
  <2>1. \A i \in 1 .. Len(t) : ends[i] \in {0} \cup (i .. Len(t))
    BY TagsDangle
  <2>2. ASSUME NEW i \in 1 .. Len(t) PROVE kept[i] \in Seq(Alphabet)
    <3>1. After(t, i + 1, {"space"}) \in i + 1 .. Len(t) + 1
      <4>1. i + 1 \in 1 .. Len(t) + 1
        OBVIOUS
      <4> QED
        BY <4>1, AfterIs
    <3>2. PICK a \in 1 .. Len(t) + 2 : a = After(t, i + 1, {"space"}) + 1
      BY <3>1
    <3>3. PICK b \in Int : b = OpeningTag(t, i) - 1 /\ b <= Len(t)
      <4>1. OpeningTag(t, i) \in {0} \cup (i .. Len(t))
        BY TagsDangle
      <4>2. Len(t) \in Nat
        OBVIOUS
      <4>3. OpeningTag(t, i) - 1 \in Int /\ OpeningTag(t, i) - 1 <= Len(t)
        BY <4>1, <4>2
      <4> QED
        BY <4>3
    <3>4. SubSeq(t, a, b) \in Seq(Alphabet)
      <4>1. \A k \in a .. b : t[k] \in Alphabet
        <5> TAKE k \in a .. b
        <5>1. k \in 1 .. Len(t)
          BY <3>2, <3>3
        <5> QED
          BY <5>1
      <4> QED
        BY <3>2, <3>3, <4>1, SubSeqProperties
    <3> QED
      BY <3>2, <3>3, <3>4
  <2>3. EscapedOpening(t) = Substituted(t, ends, kept)
    BY DEF EscapedOpening
  <2> HIDE DEF ends, kept
  <2> QED
    BY <2>1, <2>2, <2>3, SubstitutedType DEF EndsFit
<1> QED
  BY <1>1, <1>2, DanglingIsEscaped DEF Escaped

-----------------------------------------------------------------------------
(* The prompt. *)

LEMMA Joined ==
    ASSUME NEW u \in Seq(Alphabet), NEW v \in Seq(Alphabet)
    PROVE  /\ u \o v \in Seq(Alphabet) /\ Len(u \o v) = Len(u) + Len(v)
           /\ \A k \in 1 .. Len(u) : (u \o v)[k] = u[k]
           /\ \A k \in 1 .. Len(v) : (u \o v)[Len(u) + k] = v[k]
<1> DEFINE w == u \o v
<1>1. /\ w \in Seq(Alphabet) /\ Len(w) = Len(u) + Len(v)
      /\ \A k \in 1 .. Len(u) + Len(v) : w[k] = IF k <= Len(u) THEN u[k] ELSE v[k - Len(u)]
  BY ConcatProperties
<1> HIDE DEF w
<1>2. ASSUME NEW k \in 1 .. Len(u) PROVE w[k] = u[k]
  <2>1. k \in 1 .. Len(u) + Len(v) /\ k <= Len(u)
    OBVIOUS
  <2> QED
    BY <1>1, <2>1
<1>3. ASSUME NEW k \in 1 .. Len(v) PROVE w[Len(u) + k] = v[k]
  <2>1. Len(u) + k \in 1 .. Len(u) + Len(v) /\ ~(Len(u) + k <= Len(u)) /\ (Len(u) + k) - Len(u) = k
    OBVIOUS
  <2> QED
    BY <1>1, <2>1
<1> QED
  BY <1>1, <1>2, <1>3 DEF w

LEMMA RegionIs ==
    ASSUME NEW b \in Seq(Alphabet)
    PROVE  /\ Region(b) \in Seq(Alphabet) /\ Len(Region(b)) = Len(b) + 7
           /\ Region(b)[1] = "lt" /\ Region(b)[2] = "name" /\ Region(b)[3] = "gt"
           /\ \A k \in 1 .. Len(b) : Region(b)[3 + k] = b[k]
           /\ Region(b)[Len(b) + 4] = "lt" /\ Region(b)[Len(b) + 5] = "slash"
           /\ Region(b)[Len(b) + 6] = "name" /\ Region(b)[Len(b) + 7] = "gt"
<1> DEFINE h == <<"lt", "name", "gt">>
           e == <<"lt", "slash", "name", "gt">>
<1>1. /\ h \in Seq(Alphabet) /\ Len(h) = 3 /\ h[1] = "lt" /\ h[2] = "name" /\ h[3] = "gt"
      /\ e \in Seq(Alphabet) /\ Len(e) = 4
      /\ e[1] = "lt" /\ e[2] = "slash" /\ e[3] = "name" /\ e[4] = "gt"
  <2>1. {"lt", "slash", "name", "gt"} \subseteq Alphabet
    BY DEF Alphabet, Symbols
  <2> QED
    BY <2>1
<1>2. Region(b) = h \o b \o e /\ Len(b) \in Nat
  BY DEF Region
<1> HIDE DEF h, e
<1> DEFINE hb == h \o b
<1>3. /\ hb \in Seq(Alphabet) /\ Len(hb) = 3 + Len(b)
      /\ \A k \in 1 .. 3 : hb[k] = h[k]
      /\ \A k \in 1 .. Len(b) : hb[3 + k] = b[k]
  <2>1. 3 \in Nat /\ Len(b) \in Nat /\ h \in Seq(Alphabet) /\ Len(h) = 3 /\ b \in Seq(Alphabet)
    BY <1>1, <1>2
  <2> HIDE DEF hb
  <2>2. /\ h \o b \in Seq(Alphabet) /\ Len(h \o b) = Len(h) + Len(b)
        /\ \A k \in 1 .. Len(h) : (h \o b)[k] = h[k]
        /\ \A k \in 1 .. Len(b) : (h \o b)[Len(h) + k] = b[k]
    BY <2>1, Joined
  <2> QED
    BY <2>1, <2>2 DEF hb
<1>4. Region(b) = hb \o e
  BY <1>2
<1> HIDE DEF hb
<1>5. PICK m \in Nat : m = Len(b) + 3 /\ m = 3 + Len(b)
  BY <1>2
<1>6. /\ Region(b) \in Seq(Alphabet) /\ Len(Region(b)) = m + 4
      /\ \A k \in 1 .. m : Region(b)[k] = hb[k]
      /\ \A k \in 1 .. 4 : Region(b)[m + k] = e[k]
  <2>1. 4 \in Nat /\ Len(hb) = m /\ hb \in Seq(Alphabet) /\ e \in Seq(Alphabet) /\ Len(e) = 4
    BY <1>1, <1>3, <1>5
  <2>2. /\ hb \o e \in Seq(Alphabet) /\ Len(hb \o e) = Len(hb) + Len(e)
        /\ \A k \in 1 .. Len(hb) : (hb \o e)[k] = hb[k]
        /\ \A k \in 1 .. Len(e) : (hb \o e)[Len(hb) + k] = e[k]
    BY <2>1, Joined
  <2> QED
    BY <2>1, <1>4, <2>2
<1>7. Region(b)[1] = "lt" /\ Region(b)[2] = "name" /\ Region(b)[3] = "gt"
  <2>1. \A k \in 1 .. 3 : k \in 1 .. m
    BY <1>2, <1>5
  <2>2. 1 \in 1 .. 3 /\ 2 \in 1 .. 3 /\ 3 \in 1 .. 3
    OBVIOUS
  <2> QED
    BY <1>1, <1>3, <1>6, <2>1, <2>2
<1>8. ASSUME NEW k \in 1 .. Len(b) PROVE Region(b)[3 + k] = b[k]
  <2>1. 3 + k \in 1 .. m
    BY <1>2, <1>5
  <2> QED
    BY <1>3, <1>6, <2>1
<1>9. /\ Region(b)[Len(b) + 4] = "lt" /\ Region(b)[Len(b) + 5] = "slash"
      /\ Region(b)[Len(b) + 6] = "name" /\ Region(b)[Len(b) + 7] = "gt"
  <2>1. m + 1 = Len(b) + 4 /\ m + 2 = Len(b) + 5 /\ m + 3 = Len(b) + 6 /\ m + 4 = Len(b) + 7
    BY <1>2, <1>5
  <2>2. 1 \in 1 .. 4 /\ 2 \in 1 .. 4 /\ 3 \in 1 .. 4 /\ 4 \in 1 .. 4
    OBVIOUS
  <2> QED
    BY <1>1, <1>6, <2>1, <2>2
<1>10. Len(Region(b)) = Len(b) + 7
  BY <1>2, <1>5, <1>6
<1> QED
  BY <1>6, <1>7, <1>8, <1>9, <1>10

\* What a prompt of two regions, with a and b in them, looks like.
LooksLike(P, a, b) ==
    LET la == Len(a)
        lb == Len(b)
    IN  /\ P \in Seq(Alphabet) /\ Len(P) = la + lb + 14
        /\ P[1] = "lt" /\ P[2] = "name" /\ P[3] = "gt"
        /\ \A k \in 1 .. la : P[3 + k] = a[k]
        /\ P[la + 4] = "lt" /\ P[la + 5] = "slash" /\ P[la + 6] = "name" /\ P[la + 7] = "gt"
        /\ P[la + 8] = "lt" /\ P[la + 9] = "name" /\ P[la + 10] = "gt"
        /\ \A k \in 1 .. lb : P[la + 10 + k] = b[k]
        /\ P[la + lb + 11] = "lt" /\ P[la + lb + 12] = "slash"
        /\ P[la + lb + 13] = "name" /\ P[la + lb + 14] = "gt"

LEMMA PromptIs ==
    ASSUME NEW a \in Seq(Alphabet), NEW b \in Seq(Alphabet)
    PROVE  LooksLike(Region(a) \o Region(b), a, b)
<1> DEFINE A == Region(a)
           B == Region(b)
           P == A \o B
           la == Len(a)
           lb == Len(b)
<1>1. /\ A \in Seq(Alphabet) /\ Len(A) = la + 7
      /\ A[1] = "lt" /\ A[2] = "name" /\ A[3] = "gt"
      /\ \A k \in 1 .. la : A[3 + k] = a[k]
      /\ A[la + 4] = "lt" /\ A[la + 5] = "slash" /\ A[la + 6] = "name" /\ A[la + 7] = "gt"
  BY RegionIs
<1>2. /\ B \in Seq(Alphabet) /\ Len(B) = lb + 7
      /\ B[1] = "lt" /\ B[2] = "name" /\ B[3] = "gt"
      /\ \A k \in 1 .. lb : B[3 + k] = b[k]
      /\ B[lb + 4] = "lt" /\ B[lb + 5] = "slash" /\ B[lb + 6] = "name" /\ B[lb + 7] = "gt"
  BY RegionIs
<1>3. la \in Nat /\ lb \in Nat
  OBVIOUS
<1> HIDE DEF A, B, la, lb
<1>4. PICK m \in Nat, n \in Nat : m = la + 7 /\ n = lb + 7
  BY <1>3
<1>5. /\ P \in Seq(Alphabet) /\ Len(P) = m + n
      /\ \A k \in 1 .. m : P[k] = A[k]
      /\ \A k \in 1 .. n : P[m + k] = B[k]
  <2>1. A \in Seq(Alphabet) /\ Len(A) = m /\ B \in Seq(Alphabet) /\ Len(B) = n
    BY <1>1, <1>2, <1>4
  <2> HIDE DEF P
  <2>2. /\ A \o B \in Seq(Alphabet) /\ Len(A \o B) = Len(A) + Len(B)
        /\ \A k \in 1 .. Len(A) : (A \o B)[k] = A[k]
        /\ \A k \in 1 .. Len(B) : (A \o B)[Len(A) + k] = B[k]
    BY <2>1, Joined
  <2> QED
    BY <2>1, <2>2 DEF P
<1> HIDE DEF P
<1>6. ASSUME NEW k \in 1 .. la + 7 PROVE P[k] = A[k]
  BY <1>4, <1>5
<1>13. ASSUME NEW k \in 1 .. lb + 7 PROVE P[la + 7 + k] = B[k]
  BY <1>4, <1>5
<1>14. P \in Seq(Alphabet) /\ Len(P) = la + lb + 14
  BY <1>3, <1>4, <1>5
<1>7. P[1] = "lt" /\ P[2] = "name" /\ P[3] = "gt"
  <2>1. 1 \in 1 .. la + 7 /\ 2 \in 1 .. la + 7 /\ 3 \in 1 .. la + 7
    BY <1>3
  <2> QED
    BY <1>1, <1>6, <2>1
<1>8. ASSUME NEW k \in 1 .. la PROVE P[3 + k] = a[k]
  <2>1. 3 + k \in 1 .. la + 7
    BY <1>3
  <2> QED
    BY <1>1, <1>6, <2>1
<1>9. P[la + 4] = "lt" /\ P[la + 5] = "slash" /\ P[la + 6] = "name" /\ P[la + 7] = "gt"
  <2>1. la + 4 \in 1 .. la + 7 /\ la + 5 \in 1 .. la + 7 /\ la + 6 \in 1 .. la + 7
        /\ la + 7 \in 1 .. la + 7
    BY <1>3
  <2> QED
    BY <1>1, <1>6, <2>1
<1>10. P[la + 8] = "lt" /\ P[la + 9] = "name" /\ P[la + 10] = "gt"
  <2>1. 1 \in 1 .. lb + 7 /\ 2 \in 1 .. lb + 7 /\ 3 \in 1 .. lb + 7
        /\ la + 7 + 1 = la + 8 /\ la + 7 + 2 = la + 9 /\ la + 7 + 3 = la + 10
    BY <1>3
  <2> QED
    BY <1>2, <1>13, <2>1
<1>11. ASSUME NEW k \in 1 .. lb PROVE P[la + 10 + k] = b[k]
  <2>1. 3 + k \in 1 .. lb + 7 /\ la + 7 + (3 + k) = la + 10 + k
    BY <1>3
  <2> QED
    BY <1>2, <1>13, <2>1
<1>12. /\ P[la + lb + 11] = "lt" /\ P[la + lb + 12] = "slash"
       /\ P[la + lb + 13] = "name" /\ P[la + lb + 14] = "gt"
  <2>1. lb + 4 \in 1 .. lb + 7 /\ lb + 5 \in 1 .. lb + 7 /\ lb + 6 \in 1 .. lb + 7
        /\ lb + 7 \in 1 .. lb + 7
        /\ la + 7 + (lb + 4) = la + lb + 11 /\ la + 7 + (lb + 5) = la + lb + 12
        /\ la + 7 + (lb + 6) = la + lb + 13 /\ la + 7 + (lb + 7) = la + lb + 14
    BY <1>3
  <2> QED
    BY <1>2, <1>13, <2>1
<1> QED
  BY <1>14, <1>7, <1>8, <1>9, <1>10, <1>11, <1>12 DEF LooksLike, A, B, P, la, lb

\* The tags of such a prompt are those of its regions.
LEMMA PromptTags ==
    ASSUME NEW a \in Seq(Alphabet), NEW b \in Seq(Alphabet),
           \A k \in 1 .. Len(a) : a[k] # "lt", Clean(b)
    PROVE  LET P == Region(a) \o Region(b)
           IN  {i \in 1 .. Len(P) : DanglingTag(P, i) > 0} =
                   {1, Len(a) + 4, Len(a) + 8, Len(P) - 3}
<1> DEFINE P == Region(a) \o Region(b)
           la == Len(a)
           lb == Len(b)
<1>1. /\ P \in Seq(Alphabet) /\ Len(P) = la + lb + 14
      /\ P[1] = "lt" /\ P[2] = "name" /\ P[3] = "gt"
      /\ \A k \in 1 .. la : P[3 + k] = a[k]
      /\ P[la + 4] = "lt" /\ P[la + 5] = "slash" /\ P[la + 6] = "name" /\ P[la + 7] = "gt"
      /\ P[la + 8] = "lt" /\ P[la + 9] = "name" /\ P[la + 10] = "gt"
      /\ \A k \in 1 .. lb : P[la + 10 + k] = b[k]
      /\ P[la + lb + 11] = "lt" /\ P[la + lb + 12] = "slash"
      /\ P[la + lb + 13] = "name" /\ P[la + lb + 14] = "gt"
  <2>1. LooksLike(P, a, b)
    BY PromptIs
  <2> HIDE DEF P
  <2> QED
    BY <2>1 DEF LooksLike
<1>2. la \in Nat /\ lb \in Nat
  OBVIOUS
<1> HIDE DEF P
<1>3. ASSUME NEW i \in 1 .. Len(P)
      PROVE  DanglingTag(P, i) > 0 <=> \E j \in i + 1 .. Len(P) : DanglingAt(P, i, j)
  <2>1. DanglingTag(P, i) \in {0} \cup (i + 1 .. Len(P))
    BY <1>1, DanglingIff
  <2>2. DanglingTag(P, i) > 0 <=> DanglingTag(P, i) # 0
    BY <1>1, <1>2, <2>1
  <2> QED
    BY <1>1, <2>2, DanglingIff
<1>4. ASSUME NEW i \in {1, la + 4, la + 8, la + lb + 11}
      PROVE  i \in 1 .. Len(P) /\ \E j \in i + 1 .. Len(P) : DanglingAt(P, i, j)
  <2>1. CASE i = 1
    <3>1. 1 \in 1 .. Len(P) /\ 2 \in 1 + 1 .. Len(P) /\ 2 + 1 = 3
      BY <1>1, <1>2
    <3>2. Between(P, 1, 2)
      BY DEF Between
    <3>3. DanglingAt(P, 1, 2)
      BY <1>1, <3>1, <3>2 DEF DanglingAt
    <3> QED
      BY <2>1, <3>1, <3>3
  <2>2. CASE i = la + 4
    <3>1. /\ la + 4 \in 1 .. Len(P) /\ la + 6 \in la + 4 + 1 .. Len(P)
          /\ (la + 6) + 1 = la + 7
          /\ la + 5 \in la + 4 + 1 .. (la + 6) - 1
          /\ \A k \in la + 4 + 1 .. (la + 6) - 1 : k = la + 5
      BY <1>1, <1>2
    <3>2. Between(P, la + 4, la + 6)
      BY <1>1, <3>1 DEF Between
    <3>3. DanglingAt(P, la + 4, la + 6)
      BY <1>1, <3>1, <3>2 DEF DanglingAt
    <3> QED
      BY <2>2, <3>1, <3>3
  <2>3. CASE i = la + 8
    <3>1. la + 8 \in 1 .. Len(P) /\ la + 9 \in la + 8 + 1 .. Len(P) /\ (la + 9) + 1 = la + 10
          /\ \A k \in la + 8 + 1 .. (la + 9) - 1 : FALSE
      BY <1>1, <1>2
    <3>2. Between(P, la + 8, la + 9)
      BY <3>1 DEF Between
    <3>3. DanglingAt(P, la + 8, la + 9)
      BY <1>1, <3>1, <3>2 DEF DanglingAt
    <3> QED
      BY <2>3, <3>1, <3>3
  <2>4. CASE i = la + lb + 11
    <3>1. /\ la + lb + 11 \in 1 .. Len(P) /\ la + lb + 13 \in la + lb + 11 + 1 .. Len(P)
          /\ (la + lb + 13) + 1 = la + lb + 14
          /\ la + lb + 12 \in la + lb + 11 + 1 .. (la + lb + 13) - 1
          /\ \A k \in la + lb + 11 + 1 .. (la + lb + 13) - 1 : k = la + lb + 12
      BY <1>1, <1>2
    <3>2. Between(P, la + lb + 11, la + lb + 13)
      BY <1>1, <3>1 DEF Between
    <3>3. DanglingAt(P, la + lb + 11, la + lb + 13)
      BY <1>1, <3>1, <3>2 DEF DanglingAt
    <3> QED
      BY <2>4, <3>1, <3>3
  <2> QED
    BY <2>1, <2>2, <2>3, <2>4
<1>5. ASSUME NEW i \in 1 .. Len(P), NEW j \in i + 1 .. Len(P), DanglingAt(P, i, j)
      PROVE  i \in {1, la + 4, la + 8, la + lb + 11}
  <2> SUFFICES ASSUME i \notin {1, la + 4, la + 8, la + lb + 11} PROVE FALSE
    OBVIOUS
  <2>1. P[i] = "lt" /\ P[j] = "name" /\ Between(P, i, j)
    BY <1>5 DEF DanglingAt
  <2>2. i \notin {2, 3, la + 5, la + 6, la + 7, la + 9, la + 10,
                  la + lb + 12, la + lb + 13, la + lb + 14}
    BY <1>1, <2>1
  <2>3. i \in 1 .. la + lb + 14 /\ j \in i + 1 .. la + lb + 14
    BY <1>1
  <2>4. CASE i - 3 \in 1 .. la
    <3>1. 3 + (i - 3) = i
      BY <2>3
    <3>2. P[i] = a[i - 3]
      BY <1>1, <2>4, <3>1
    <3> QED
      BY <2>1, <2>4, <3>2
  <2>5. CASE i - 3 \notin 1 .. la
    <3>1. i - (la + 10) \in 1 .. lb
      <4> HIDE DEF la, lb
      <4>1. i \in Int /\ 1 <= i /\ i <= la + lb + 14
        BY <1>2, <2>3
      <4>2. la + 4 <= i
        <5>1. ~(1 <= i - 3 /\ i - 3 <= la)
          BY <1>2, <2>5, <4>1
        <5>2. i # 1 /\ i # 2 /\ i # 3
          BY <2>2
        <5> QED
          BY <1>2, <4>1, <5>1, <5>2
      <4>3. la + 11 <= i
        <5>1. /\ i # la + 4 /\ i # la + 5 /\ i # la + 6 /\ i # la + 7
              /\ i # la + 8 /\ i # la + 9 /\ i # la + 10
          BY <2>2
        <5> QED
          BY <1>2, <4>1, <4>2, <5>1
      <4>4. i <= la + lb + 10
        <5>1. /\ i # la + lb + 11 /\ i # la + lb + 12
              /\ i # la + lb + 13 /\ i # la + lb + 14
          BY <2>2
        <5> QED
          BY <1>2, <4>1, <5>1
      <4> QED
        BY <1>2, <4>1, <4>3, <4>4
    <3>2. CASE j <= la + lb + 10
      <4> DEFINE d == la + 10
                 x == i - d
                 y == j - d
      <4>1. d \in Nat /\ d + lb <= Len(P) /\ x \in 1 .. lb /\ y \in x + 1 .. lb
            /\ d + x = i /\ d + y = j
        BY <1>1, <1>2, <2>3, <3>1, <3>2
      <4>2. \A k \in 1 .. Len(b) : P[d + k] = b[k]
        BY <1>1
      <4> HIDE DEF d, x, y
      <4>3. d + Len(b) <= Len(P) /\ x \in 1 .. Len(b) /\ y \in x + 1 .. Len(b)
            /\ DanglingAt(P, d + x, d + y)
        BY <1>5, <4>1
      <4>4. DanglingAt(b, x, y)
        BY <1>1, <4>1, <4>2, <4>3, Window
      <4> QED
        BY <4>3, <4>4 DEF Clean
    <3>3. CASE ~(j <= la + lb + 10)
      <4>1. j # la + lb + 11
        BY <1>1, <2>1
      <4>2. la + lb + 11 \in i + 1 .. j - 1
        BY <1>2, <2>3, <3>1, <3>3, <4>1
      <4>3. P[la + lb + 11] \in {"space", "slash"}
        BY <2>1, <4>2 DEF Between
      <4> QED
        BY <1>1, <4>3
    <3> QED
      BY <3>2, <3>3
  <2> QED
    BY <2>4, <2>5
<1>6. Len(P) - 3 = la + lb + 11
  BY <1>1, <1>2
<1>7. {i \in 1 .. Len(P) : DanglingTag(P, i) > 0} = {1, la + 4, la + 8, la + lb + 11}
  <2>1. ASSUME NEW i \in 1 .. Len(P), DanglingTag(P, i) > 0
        PROVE  i \in {1, la + 4, la + 8, la + lb + 11}
    BY <1>3, <1>5, <2>1
  <2>2. ASSUME NEW i \in {1, la + 4, la + 8, la + lb + 11}
        PROVE  i \in 1 .. Len(P) /\ DanglingTag(P, i) > 0
    BY <1>3, <1>4
  <2> HIDE DEF la, lb
  <2> QED
    BY <2>1, <2>2
<1> QED
  BY <1>6, <1>7 DEF P

\* What was shown is the escaped text, and the prompt is made of it as it is.
PromptInv ==
    /\ received \in Seq(Symbols) /\ value \in Seq(Symbols)
    /\ phase \in {"arrived", "escaped", "refused", "prompted"}
    /\ phase # "arrived" => shown = Escaped(received)
    /\ phase = "prompted" => prompt = Region(XmlText(value)) \o Region(shown)

LEMMA PromptStart == PromptInit => PromptInv
<1> SUFFICES ASSUME PromptInit PROVE PromptInv
  OBVIOUS
<1>1. received \in Seq(Symbols)
  <2>1. PICK n \in 0 .. MaxLength : received \in [1 .. n -> Symbols]
    BY DEF PromptInit, Texts
  <2>2. n \in Nat
    BY <2>1, PromptAssumption
  <2> QED
    BY <2>1, <2>2
<1>2. << >> \in Seq(Symbols)
  OBVIOUS
<1> QED
  BY <1>1, <1>2 DEF PromptInit, PromptInv

LEMMA Lettered == Seq(Symbols) \subseteq Seq(Alphabet)
BY DEF Alphabet

LEMMA PromptStep == PromptInv /\ [PromptNext]_promptVars => PromptInv'
<1> SUFFICES ASSUME PromptInv, [PromptNext]_promptVars PROVE PromptInv'
  OBVIOUS
<1>1. CASE Escape
  BY <1>1 DEF PromptInv, Escape
<1>2. CASE Refuse
  BY <1>2 DEF PromptInv, Refuse
<1>3. CASE Build
  <2>1. phase = "escaped" /\ ~TooLong /\ received' = received /\ value' = value /\ shown' = shown
    BY <1>3 DEF Build
  <2>2. shown = Escaped(received) /\ received \in Seq(Alphabet)
    BY <2>1, Lettered DEF PromptInv
  <2>3. Escaped(shown) = shown
    BY <2>2, EscapedIsClean, CleanIsKept
  <2>4. ~(Size(shown) > Limit \/ Size(Escaped(shown)) > Limit)
    BY <2>1, <2>3 DEF TooLong
  <2>5. phase' = "prompted" /\ prompt' = Region(XmlText(value)) \o Region(Escaped(shown))
    BY <1>3, <2>4 DEF Build
  <2> QED
    BY <2>1, <2>3, <2>5 DEF PromptInv
<1>4. CASE UNCHANGED promptVars
  BY <1>4 DEF PromptInv, promptVars
<1> QED
  BY <1>1, <1>2, <1>3, <1>4 DEF PromptNext

LEMMA PromptImplies == PromptInv => PromptIsSound
<1> SUFFICES ASSUME PromptInv PROVE OnlyOwnBoundaries /\ ShownIsWhatIsChecked
  BY DEF PromptIsSound
<1>1. phase # "raised"
  BY DEF PromptInv
<1>2. ASSUME phase = "prompted"
      PROVE  /\ {i \in 1 .. Len(prompt) : DanglingTag(prompt, i) > 0} =
                    {1, Len(XmlText(value)) + 4, Len(XmlText(value)) + 8, Len(prompt) - 3}
             /\ SubSeq(prompt, Len(prompt) - 3 - Len(shown), Len(prompt) - 4) = shown
  <2> DEFINE a == XmlText(value)
             b == shown
             la == Len(a)
             lb == Len(b)
  <2>1. /\ prompt = Region(a) \o Region(b)
        /\ b = Escaped(received) /\ received \in Seq(Alphabet) /\ value \in Seq(Symbols)
    BY <1>2, Lettered DEF PromptInv
  <2>2. b \in Seq(Alphabet) /\ Clean(b)
    BY <2>1, EscapedIsClean
  <2>3. a \in Seq(Alphabet) /\ \A k \in 1 .. Len(a) : a[k] # "lt"
    <3>1. Len(value) \in Nat /\ \A k \in 1 .. Len(value) : value[k] \in Symbols
      BY <2>1
    <3>2. \A k \in 1 .. Len(value) :
             /\ (IF value[k] \in {"lt", "gt"} THEN "entity" ELSE value[k]) \in Alphabet
             /\ (IF value[k] \in {"lt", "gt"} THEN "entity" ELSE value[k]) # "lt"
      BY <3>1 DEF Alphabet
    <3>3. a \in [1 .. Len(value) -> Alphabet] /\ \A k \in 1 .. Len(value) : a[k] # "lt"
      BY <3>2 DEF XmlText
    <3> HIDE DEF a
    <3>4. a \in Seq(Alphabet) /\ Len(a) = Len(value)
      BY <3>1, <3>3
    <3> QED
      BY <3>3, <3>4
  <2> HIDE DEF a, b
  <2>4. {i \in 1 .. Len(prompt) : DanglingTag(prompt, i) > 0} =
            {1, la + 4, la + 8, Len(prompt) - 3}
    BY <2>1, <2>2, <2>3, PromptTags
  <2>5. prompt \in Seq(Alphabet) /\ Len(prompt) = la + lb + 14
        /\ \A k \in 1 .. lb : prompt[la + 10 + k] = b[k]
    <3>1. LooksLike(prompt, a, b)
      BY <2>1, <2>2, <2>3, PromptIs
    <3> QED
      BY <3>1 DEF LooksLike
  <2>6. la \in Nat /\ lb \in Nat
    BY <2>2, <2>3
  <2>7. SubSeq(prompt, la + 11, la + lb + 10) = b
    <3> DEFINE w == SubSeq(prompt, la + 11, la + lb + 10)
    <3>1. \A k \in la + 11 .. la + lb + 10 : prompt[k] \in Alphabet
      BY <2>5, <2>6
    <3>2. la + 11 \in Int /\ la + lb + 10 \in Int
      BY <2>6
    <3>3. /\ w \in Seq(Alphabet)
          /\ Len(w) = IF la + 11 <= la + lb + 10 THEN (la + lb + 10) - (la + 11) + 1 ELSE 0
          /\ \A k \in 1 .. (la + lb + 10) - (la + 11) + 1 : w[k] = prompt[la + 11 + k - 1]
      <4> DEFINE m == la + 11
                 n == la + lb + 10
      <4>1. m \in Int /\ n \in Int /\ \A k \in m .. n : prompt[k] \in Alphabet
        BY <3>1, <3>2
      <4> HIDE DEF m, n
      <4>2. /\ SubSeq(prompt, m, n) \in Seq(Alphabet)
            /\ Len(SubSeq(prompt, m, n)) = IF m <= n THEN n - m + 1 ELSE 0
            /\ \A k \in 1 .. n - m + 1 : SubSeq(prompt, m, n)[k] = prompt[m + k - 1]
        BY <4>1, SubSeqProperties
      <4> QED
        BY <4>2 DEF m, n
    <3> HIDE DEF w
    <3>4. Len(w) = lb
      BY <2>6, <3>3
    <3>5. ASSUME NEW k \in 1 .. lb PROVE w[k] = b[k]
      <4>1. k \in 1 .. (la + lb + 10) - (la + 11) + 1 /\ la + 11 + k - 1 = la + 10 + k
        BY <2>6
      <4>2. w[k] = prompt[la + 10 + k]
        BY <3>3, <4>1
      <4> QED
        BY <2>5, <4>2
    <3>6. w = b
      BY <2>2, <3>3, <3>4, <3>5, SeqEqual
    <3> QED
      BY <3>6 DEF w
  <2>8. Len(prompt) - 3 - lb = la + 11 /\ Len(prompt) - 4 = la + lb + 10
    BY <2>5, <2>6
  <2> QED
    BY <2>4, <2>7, <2>8 DEF a, b
<1> QED
  BY <1>1, <1>2 DEF OnlyOwnBoundaries, ShownIsWhatIsChecked

\* The prompt of an audit has the gateway's own boundaries and no other,
\* whatever the agent's text and values hold; what lies between the last two is
\* the text the excerpts are checked against, and building it never raises
\* (escape_untrusted_trace, build_turn_audit_messages).
THEOREM PromptsAreSound == PromptSpec => []PromptIsSound
<1> QED
  BY PromptStart, PromptStep, PromptImplies, PTL DEF PromptSpec

-----------------------------------------------------------------------------
(* Scopes.  Paths that a volume takes for one another. *)

Volumes == {"exact", "simple", "full"}

LEMMA NamesAreAlike ==
    ASSUME NEW vol \in Volumes
    PROVE  /\ \A m : SameName(vol, m, m)
           /\ \A m, n : SameName(vol, m, n) => SameName(vol, n, m)
           /\ \A l, m, n : SameName(vol, l, m) /\ SameName(vol, m, n) => SameName(vol, l, n)
<1>1. CASE vol = "exact"
  <2>1. \A m, n : SameName(vol, m, n) <=> m = n
    BY <1>1 DEF SameName
  <2> QED
    BY <2>1
<1>2. CASE vol = "simple"
  <2>1. \A m, n : SameName(vol, m, n) <=> SimpleFold[m] = SimpleFold[n]
    BY <1>2 DEF SameName
  <2> QED
    BY <2>1
<1>3. CASE vol = "full"
  <2>1. \A m, n : SameName(vol, m, n) <=> FullFold[m] = FullFold[n]
    BY <1>3 DEF SameName
  <2> QED
    BY <2>1
<1> QED
  BY <1>1, <1>2, <1>3 DEF Volumes

LEMMA PathsAreAlike ==
    ASSUME NEW vol \in Volumes, NEW p \in Paths, NEW q \in Paths, SamePath(vol, p, q)
    PROVE  /\ SamePath(vol, q, p)
           /\ \A e \in Paths : SamePath(vol, e, p) <=> SamePath(vol, e, q)
<1>1. Len(p) = Len(q) /\ DOMAIN p = 1 .. Len(p) /\ DOMAIN q = 1 .. Len(p)
      /\ \A i \in 1 .. Len(p) : SameName(vol, p[i], q[i])
  BY DEF SamePath, Paths
<1>2. SamePath(vol, q, p)
  BY <1>1, NamesAreAlike DEF SamePath
<1>3. ASSUME NEW e \in Paths PROVE SamePath(vol, e, p) <=> SamePath(vol, e, q)
  <2>1. DOMAIN e = 1 .. Len(e)
    BY DEF Paths
  <2>2. ASSUME SamePath(vol, e, p) PROVE SamePath(vol, e, q)
    <3>1. Len(e) = Len(q) /\ \A i \in DOMAIN e : SameName(vol, e[i], p[i])
      BY <1>1, <2>2 DEF SamePath
    <3>2. \A i \in DOMAIN e : SameName(vol, e[i], q[i])
      BY <1>1, <2>1, <3>1, NamesAreAlike
    <3> QED
      BY <3>1, <3>2 DEF SamePath
  <2>3. ASSUME SamePath(vol, e, q) PROVE SamePath(vol, e, p)
    <3>1. Len(e) = Len(p) /\ \A i \in DOMAIN e : SameName(vol, e[i], q[i])
      BY <1>1, <2>3 DEF SamePath
    <3>2. \A i \in DOMAIN e : SameName(vol, e[i], p[i])
      BY <1>1, <2>1, <3>1, NamesAreAlike
    <3> QED
      BY <3>1, <3>2 DEF SamePath
  <2> QED
    BY <2>2, <2>3
<1> QED
  BY <1>2, <1>3

LEMMA OutsideIsNoPath ==
    /\ Outside \notin Paths /\ Loop \notin Paths /\ Outside # Loop
    /\ Outside # <<>> /\ Loop # <<>>
<1>1. \A p \in Paths : p # <<>> => p[1] \in Names
  <2> SUFFICES ASSUME NEW p \in Paths, p # <<>> PROVE p[1] \in Names
    OBVIOUS
  <2>1. Len(p) \in Nat /\ Len(p) # 0
    BY DEF Paths
  <2> QED
    BY <2>1 DEF Paths
<1>2. Outside[1] = ".." /\ Loop[1] = "loop" /\ Outside # <<>> /\ Loop # <<>>
  BY DEF Outside, Loop
<1> QED
  BY <1>1, <1>2, RulesAssumption

LEMMA Heads ==
    ASSUME NEW p \in Paths, NEW k \in 0 .. Len(p)
    PROVE  Take(p, k) \in Paths /\ Len(Take(p, k)) = k /\ \A i \in 1 .. k : Take(p, k)[i] = p[i]
<1>1. Len(p) \in Nat /\ k \in Int /\ 1 \in Int
  BY DEF Paths
<1>2. \A i \in 1 .. k : p[i] \in Names
  BY <1>1 DEF Paths
<1>3. /\ SubSeq(p, 1, k) \in Seq(Names)
      /\ Len(SubSeq(p, 1, k)) = IF 1 <= k THEN k - 1 + 1 ELSE 0
      /\ \A i \in 1 .. k - 1 + 1 : SubSeq(p, 1, k)[i] = p[1 + i - 1]
  BY <1>1, <1>2, SubSeqProperties
<1>4. k - 1 + 1 = k /\ (~(1 <= k) => k = 0) /\ \A i \in 1 .. k : 1 + i - 1 = i
  BY <1>1
<1> QED
  BY <1>3, <1>4 DEF Take, Paths

LEMMA Tails ==
    ASSUME NEW p \in Paths, NEW k \in 1 .. Len(p)
    PROVE  LET r == SubSeq(p, k + 1, Len(p))
           IN  r \in Paths /\ Len(r) = Len(p) - k /\ \A i \in 1 .. Len(p) - k : r[i] = p[k + i]
<1> DEFINE m == k + 1
           n == Len(p)
<1>1. n \in Nat /\ n \in Int /\ m \in Int /\ k \in Int /\ m = k + 1 /\ 1 <= k /\ k <= n
  BY DEF Paths
<1>2. \A i \in m .. n : p[i] \in Names
  BY DEF Paths
<1> HIDE DEF m, n
<1>3. /\ SubSeq(p, m, n) \in Seq(Names)
      /\ Len(SubSeq(p, m, n)) = IF m <= n THEN n - m + 1 ELSE 0
      /\ \A i \in 1 .. n - m + 1 : SubSeq(p, m, n)[i] = p[m + i - 1]
  BY <1>1, <1>2, SubSeqProperties
<1>4. n - m + 1 = n - k /\ (~(m <= n) => n - k = 0) /\ \A i \in 1 .. n - k : m + i - 1 = k + i
  BY <1>1
<1> QED
  BY <1>3, <1>4 DEF m, n, Paths

LEMMA SameHeads ==
    ASSUME NEW vol, NEW p \in Paths, NEW q \in Paths, SamePath(vol, p, q), NEW k \in 0 .. Len(p)
    PROVE  SamePath(vol, Take(p, k), Take(q, k))
<1>1. Len(p) = Len(q) /\ Len(p) \in Nat /\ \A i \in 1 .. Len(p) : SameName(vol, p[i], q[i])
  BY DEF SamePath, Paths
<1>2. k \in 0 .. Len(q)
  BY <1>1
<1>3. /\ Take(p, k) \in Paths /\ Len(Take(p, k)) = k /\ \A i \in 1 .. k : Take(p, k)[i] = p[i]
      /\ Take(q, k) \in Paths /\ Len(Take(q, k)) = k /\ \A i \in 1 .. k : Take(q, k)[i] = q[i]
  BY <1>2, Heads
<1>4. DOMAIN Take(p, k) = 1 .. k /\ \A i \in 1 .. k : i \in 1 .. Len(p)
  BY <1>1, <1>3 DEF Paths
<1> QED
  BY <1>1, <1>3, <1>4 DEF SamePath

\* A lookup finds the same under both names.
LEMMA SameEntries ==
    ASSUME NEW vol \in Volumes, NEW t, IsTree(t), NEW p \in Paths, NEW q \in Paths, SamePath(vol, p, q)
    PROVE  EntriesAt(vol, t, p) = EntriesAt(vol, t, q)
<1>1. Outside # p /\ Outside # q
  BY OutsideIsNoPath
<1>2. \A e \in DOMAIN t : SamePath(vol, e, p) <=> SamePath(vol, e, q)
  BY PathsAreAlike DEF IsTree
<1> QED
  BY <1>1, <1>2 DEF EntriesAt

LEMMA LinksAre ==
    ASSUME NEW vol, NEW t, NEW p \in Paths, LinksOn(vol, t, p) # {}
    PROVE  FirstOf(LinksOn(vol, t, p)) \in LinksOn(vol, t, p)
<1> DEFINE L == LinksOn(vol, t, p)
<1>1. L \subseteq Nat /\ L # {}
  BY DEF LinksOn, Paths
<1> HIDE DEF L
<1>2. \E k \in L : \A j \in L : k <= j
  BY <1>1, NatMinimum
<1>3. FirstOf(L) \in L
  BY <1>2 DEF FirstOf
<1> QED
  BY <1>3 DEF L

LEMMA SameLinks ==
    ASSUME NEW vol \in Volumes, NEW t, IsTree(t), NEW p \in Paths, NEW q \in Paths, SamePath(vol, p, q)
    PROVE  LinksOn(vol, t, p) = LinksOn(vol, t, q)
<1>1. Len(p) = Len(q) /\ Len(p) \in Nat
  BY DEF SamePath, Paths
<1>2. ASSUME NEW k \in 1 .. Len(p) PROVE EntriesAt(vol, t, Take(p, k)) = EntriesAt(vol, t, Take(q, k))
  <2>1. k \in 0 .. Len(p) /\ k \in 0 .. Len(q)
    BY <1>1
  <2> QED
    BY <2>1, SameHeads, Heads, SameEntries
<1> QED
  BY <1>1, <1>2 DEF LinksOn

\* The same, or paths that lead to the same.
Alike(vol, p, q) == p = q \/ (p \in Paths /\ q \in Paths /\ SamePath(vol, p, q))

LEMMA LinkedEntry ==
    ASSUME NEW vol, NEW t, IsTree(t), NEW p \in Paths, NEW k \in LinksOn(vol, t, p)
    PROVE  LET e == CHOOSE e \in EntriesAt(vol, t, Take(p, k)) : TRUE
           IN  k \in 1 .. Len(p) /\ t[e].to \in Paths \cup {Outside}
<1>1. k \in 1 .. Len(p) /\ EntriesAt(vol, t, Take(p, k)) # {}
  BY DEF LinksOn
<1> DEFINE e == CHOOSE e \in EntriesAt(vol, t, Take(p, k)) : TRUE
<1>2. e \in EntriesAt(vol, t, Take(p, k))
  BY <1>1
<1> HIDE DEF e
<1>3. e \in DOMAIN t
  BY <1>2 DEF EntriesAt
<1>4. t[e] \in Entries
  BY <1>3 DEF IsTree
<1>5. t[e].to \in Paths \cup {Outside}
  BY <1>4 DEF Entries
<1> QED
  BY <1>1, <1>5 DEF e

LEMMA SameTails ==
    ASSUME NEW vol \in Volumes, NEW w \in Paths, NEW x \in Paths, NEW y \in Paths, SamePath(vol, x, y)
    PROVE  w \o x \in Paths /\ w \o y \in Paths /\ SamePath(vol, w \o x, w \o y)
<1>1. /\ Len(w) \in Nat /\ Len(x) \in Nat /\ Len(x) = Len(y)
      /\ \A i \in 1 .. Len(x) : SameName(vol, x[i], y[i])
  BY DEF SamePath, Paths
<1> DEFINE l == w \o x
           r == w \o y
<1>2. /\ l \in Seq(Names) /\ Len(l) = Len(w) + Len(x)
      /\ \A i \in 1 .. Len(w) + Len(x) : l[i] = IF i <= Len(w) THEN w[i] ELSE x[i - Len(w)]
  BY ConcatProperties DEF Paths
<1>3. /\ r \in Seq(Names) /\ Len(r) = Len(w) + Len(y)
      /\ \A i \in 1 .. Len(w) + Len(y) : r[i] = IF i <= Len(w) THEN w[i] ELSE y[i - Len(w)]
  BY ConcatProperties DEF Paths
<1> HIDE DEF l, r
<1>4. ASSUME NEW i \in 1 .. Len(w) + Len(x) PROVE SameName(vol, l[i], r[i])
  <2>1. CASE i <= Len(w)
    <3>1. l[i] = w[i] /\ r[i] = w[i]
      BY <1>1, <1>2, <1>3, <2>1
    <3> QED
      BY <3>1, NamesAreAlike
  <2>2. CASE ~(i <= Len(w))
    <3>1. i - Len(w) \in 1 .. Len(x)
      BY <1>1, <2>2
    <3>2. l[i] = x[i - Len(w)] /\ r[i] = y[i - Len(w)]
      BY <1>1, <1>2, <1>3, <2>2
    <3> QED
      BY <1>1, <3>1, <3>2
  <2> QED
    BY <2>1, <2>2
<1>5. DOMAIN l = 1 .. Len(w) + Len(x) /\ Len(l) = Len(r)
  BY <1>1, <1>2, <1>3
<1>6. SamePath(vol, l, r)
  BY <1>4, <1>5 DEF SamePath
<1> QED
  BY <1>2, <1>3, <1>6 DEF l, r, Paths

\* One link is followed alike from both.
LEMMA FollowsAlike ==
    ASSUME NEW vol \in Volumes, NEW t, IsTree(t), NEW p \in Paths \cup {Outside},
           NEW q \in Paths \cup {Outside}, Alike(vol, p, q)
    PROVE  /\ FollowOne(vol, t, p) \in Paths \cup {Outside}
           /\ FollowOne(vol, t, q) \in Paths \cup {Outside}
           /\ Alike(vol, FollowOne(vol, t, p), FollowOne(vol, t, q))
           /\ LinksOn(vol, t, p) = LinksOn(vol, t, q)
<1>1. LinksOn(vol, t, Outside) = {}
  <2>1. Len(Outside) = 1 /\ \A k \in 1 .. 1 : k = 1
    BY DEF Outside
  <2>2. Take(Outside, 1) = Outside
    <3>1. Outside \in Seq({".."}) /\ Len(Outside) = 1
      BY DEF Outside
    <3> QED
      BY <3>1, SubSeqFull DEF Take
  <2>3. EntriesAt(vol, t, Outside) = {}
    BY DEF EntriesAt
  <2>4. ASSUME NEW k \in 1 .. Len(Outside) PROVE EntriesAt(vol, t, Take(Outside, k)) = {}
    <3>1. k = 1
      BY <2>1
    <3> QED
      BY <2>2, <2>3, <3>1
  <2> QED
    BY <2>4 DEF LinksOn
<1>2. FollowOne(vol, t, Outside) = Outside
  BY <1>1 DEF FollowOne
<1>3. ASSUME NEW x \in Paths PROVE FollowOne(vol, t, x) \in Paths \cup {Outside}
  <2>1. CASE LinksOn(vol, t, x) = {}
    BY <2>1 DEF FollowOne
  <2>2. CASE LinksOn(vol, t, x) # {}
    <3>1. PICK k \in LinksOn(vol, t, x) : k = FirstOf(LinksOn(vol, t, x))
      BY <2>2, LinksAre
    <3> DEFINE e == CHOOSE e \in EntriesAt(vol, t, Take(x, k)) : TRUE
    <3>2. k \in 1 .. Len(x) /\ t[e].to \in Paths \cup {Outside}
      BY LinkedEntry
    <3>3. FollowOne(vol, t, x) = Below(t[e].to, x, k)
      BY <2>2, <3>1 DEF FollowOne, Jump
    <3> HIDE DEF e
    <3>4. SubSeq(x, k + 1, Len(x)) \in Paths
      BY <3>2, Tails
    <3>5. t[e].to # Outside => t[e].to \o SubSeq(x, k + 1, Len(x)) \in Paths
      BY <3>2, <3>4 DEF Paths
    <3> QED
      BY <3>3, <3>5 DEF Below
  <2> QED
    BY <2>1, <2>2
<1>4. CASE p = q
  BY <1>2, <1>3, <1>4 DEF Alike
<1>5. CASE p # q
  <2>1. p \in Paths /\ q \in Paths /\ SamePath(vol, p, q)
    BY <1>5 DEF Alike
  <2>2. LinksOn(vol, t, p) = LinksOn(vol, t, q) /\ Len(p) = Len(q) /\ Len(p) \in Nat
    BY <2>1, SameLinks DEF SamePath, Paths
  <2>3. CASE LinksOn(vol, t, p) = {}
    BY <2>1, <2>2, <2>3 DEF FollowOne, Alike
  <2>4. CASE LinksOn(vol, t, p) # {}
    <3>1. PICK k \in LinksOn(vol, t, p) : k = FirstOf(LinksOn(vol, t, p))
      BY <2>1, <2>4, LinksAre
    <3> DEFINE e == CHOOSE e \in EntriesAt(vol, t, Take(p, k)) : TRUE
               x == SubSeq(p, k + 1, Len(p))
               y == SubSeq(q, k + 1, Len(q))
    <3>2. k \in 1 .. Len(p) /\ t[e].to \in Paths \cup {Outside}
      BY <2>1, LinkedEntry
    <3>3. EntriesAt(vol, t, Take(p, k)) = EntriesAt(vol, t, Take(q, k))
      <4>1. k \in 0 .. Len(p) /\ k \in 0 .. Len(q)
        BY <2>2, <3>2
      <4> QED
        BY <2>1, <4>1, SameHeads, Heads, SameEntries
    <3>4. FollowOne(vol, t, p) = Below(t[e].to, p, k) /\ FollowOne(vol, t, q) = Below(t[e].to, q, k)
      BY <2>2, <2>4, <3>1, <3>3 DEF FollowOne, Jump
    <3>5. PICK w \in Paths \cup {Outside} : w = t[e].to
      BY <3>2
    <3> HIDE DEF e
    <3>6. CASE w = Outside
      BY <1>3, <2>1, <2>2, <3>4, <3>5, <3>6 DEF Below, Alike
    <3>7. CASE w # Outside
      <4>1. FollowOne(vol, t, p) = w \o x /\ FollowOne(vol, t, q) = w \o y /\ w \in Paths
        BY <3>4, <3>5, <3>7 DEF Below
      <4>2. /\ x \in Paths /\ Len(x) = Len(p) - k /\ \A i \in 1 .. Len(p) - k : x[i] = p[k + i]
            /\ y \in Paths /\ Len(y) = Len(p) - k /\ \A i \in 1 .. Len(p) - k : y[i] = q[k + i]
        <5>1. k \in 1 .. Len(q)
          BY <2>2, <3>2
        <5> QED
          BY <2>1, <2>2, <3>2, <5>1, Tails
      <4> HIDE DEF x, y
      <4>3. Len(x) = Len(y) /\ Len(x) \in Nat /\ Len(x) = Len(p) - k
        BY <2>2, <3>2, <4>2
      <4>4. \A i \in 1 .. Len(x) : SameName(vol, x[i], y[i])
        <5> TAKE i \in 1 .. Len(x)
        <5>1. k + i \in 1 .. Len(p) /\ i \in 1 .. Len(p) - k
          BY <2>2, <3>2, <4>3
        <5>2. DOMAIN p = 1 .. Len(p)
          BY <2>1 DEF Paths
        <5> QED
          BY <2>1, <4>2, <5>1, <5>2 DEF SamePath
      <4>5. SamePath(vol, x, y)
        BY <4>2, <4>3, <4>4 DEF SamePath, Paths
      <4>6. w \o x \in Paths /\ w \o y \in Paths /\ SamePath(vol, w \o x, w \o y)
        BY <4>1, <4>2, <4>5, SameTails
      <4> QED
        BY <2>2, <4>1, <4>6 DEF Alike
    <3> QED
      BY <3>6, <3>7
  <2> QED
    BY <2>3, <2>4
<1> QED
  BY <1>4, <1>5

\* f follows the links of p, one after the other.
Follows(f, vol, t, p, n) ==
    f = [i \in 0 .. n |-> IF i = 0 THEN p ELSE FollowOne(vol, t, f[i - 1])]

LEMMA FollowerExists ==
    ASSUME NEW vol, NEW t, NEW p, NEW n \in Nat
    PROVE  \E f : Follows(f, vol, t, p, n)
<1> DEFINE T == {k \in Nat : \E f : Follows(f, vol, t, p, k)}
<1>1. 0 \in T
  <2> DEFINE g == [i \in 0 .. 0 |-> p]
  <2>1. Follows(g, vol, t, p, 0)
    BY DEF Follows
  <2> QED
    BY <2>1
<1>2. ASSUME NEW k \in Nat, k \in T PROVE k + 1 \in T
  <2>1. PICK f : Follows(f, vol, t, p, k)
    BY <1>2
  <2> DEFINE Body(h, i) == IF i = 0 THEN p ELSE FollowOne(vol, t, h[i - 1])
  <2> DEFINE g == [i \in 0 .. k + 1 |-> IF i = k + 1 THEN Body(f, k + 1) ELSE f[i]]
  <2>2. \A i \in 0 .. k : f[i] = Body(f, i)
    BY <2>1 DEF Follows
  <2>3. \A i \in 0 .. k : g[i] = f[i]
    OBVIOUS
  <2>4. g[k + 1] = Body(f, k + 1)
    OBVIOUS
  <2>5. g = [i \in 0 .. k + 1 |-> g[i]]
    OBVIOUS
  <2> HIDE DEF g
  <2>6. \A i \in 0 .. k + 1 : g[i] = Body(g, i)
    <3> SUFFICES ASSUME NEW i \in 0 .. k + 1 PROVE g[i] = Body(g, i)
      OBVIOUS
    <3>1. g[i] = Body(f, i)
      BY <2>2, <2>3, <2>4
    <3>2. i # 0 => i - 1 \in 0 .. k /\ g[i - 1] = f[i - 1]
      BY <2>3
    <3> QED
      BY <3>1, <3>2
  <2>7. Follows(g, vol, t, p, k + 1)
    BY <2>5, <2>6 DEF Follows
  <2> QED
    BY <2>7
<1> HIDE DEF T
<1>3. Nat \subseteq T
  BY <1>1, <1>2, NatSetInduction
<1> QED
  BY <1>3 DEF T

LEMMA ResolveIs ==
    ASSUME NEW vol, NEW t, NEW p
    PROVE  \E f : /\ f[0] = p
                  /\ \A i \in 1 .. MaxLinks : f[i] = FollowOne(vol, t, f[i - 1])
                  /\ ResolveOn(vol, t, p) = Settled(vol, t, f[MaxLinks])
<1>0. MaxLinks \in Nat
  BY RulesAssumption
<1> DEFINE g == CHOOSE f : Follows(f, vol, t, p, MaxLinks)
<1>1. Follows(g, vol, t, p, MaxLinks)
  BY <1>0, FollowerExists
<1>2. ResolveOn(vol, t, p) = Settled(vol, t, g[MaxLinks])
  BY DEF ResolveOn, Follows
<1> HIDE DEF g
<1>3. g[0] = p
  <2>1. 0 \in 0 .. MaxLinks
    BY <1>0
  <2> QED
    BY <1>1, <2>1 DEF Follows
<1>4. ASSUME NEW i \in 1 .. MaxLinks PROVE g[i] = FollowOne(vol, t, g[i - 1])
  <2>1. i \in 0 .. MaxLinks /\ i # 0
    BY <1>0
  <2> QED
    BY <1>1, <2>1 DEF Follows
<1> QED
  BY <1>2, <1>3, <1>4

\* Paths that a volume takes for one another lead to the same.
LEMMA ResolveAlike ==
    ASSUME NEW vol \in Volumes, NEW t, IsTree(t), NEW p \in Paths, NEW q \in Paths, SamePath(vol, p, q)
    PROVE  /\ ResolveOn(vol, t, p) \in Paths \cup {Outside, Loop}
           /\ Alike(vol, ResolveOn(vol, t, p), ResolveOn(vol, t, q))
<1>0. MaxLinks \in Nat
  BY RulesAssumption
<1>1. PICK f : /\ f[0] = p
               /\ \A i \in 1 .. MaxLinks : f[i] = FollowOne(vol, t, f[i - 1])
               /\ ResolveOn(vol, t, p) = Settled(vol, t, f[MaxLinks])
  BY ResolveIs
<1>2. PICK g : /\ g[0] = q
               /\ \A i \in 1 .. MaxLinks : g[i] = FollowOne(vol, t, g[i - 1])
               /\ ResolveOn(vol, t, q) = Settled(vol, t, g[MaxLinks])
  BY ResolveIs
<1> DEFINE Even(i) == f[i] \in Paths \cup {Outside} /\ g[i] \in Paths \cup {Outside}
                      /\ Alike(vol, f[i], g[i])
           T == {i \in Nat : i <= MaxLinks => Even(i)}
<1>3. 0 \in T
  BY <1>1, <1>2 DEF Alike
<1>4. ASSUME NEW n \in Nat, n \in T PROVE n + 1 \in T
  <2> SUFFICES ASSUME n + 1 <= MaxLinks PROVE Even(n + 1)
    OBVIOUS
  <2>1. n + 1 \in 1 .. MaxLinks /\ (n + 1) - 1 = n /\ n <= MaxLinks
    BY <1>0
  <2>2. f[n + 1] = FollowOne(vol, t, f[n]) /\ g[n + 1] = FollowOne(vol, t, g[n])
    BY <1>1, <1>2, <2>1
  <2>3. Even(n)
    BY <1>4, <2>1
  <2> QED
    BY <2>2, <2>3, FollowsAlike
<1>5. Even(MaxLinks)
  <2>1. Nat \subseteq T
    <3> HIDE DEF T
    <3> QED
      BY <1>3, <1>4, NatSetInduction
  <2> QED
    BY <1>0, <2>1
<1>6. LinksOn(vol, t, f[MaxLinks]) = LinksOn(vol, t, g[MaxLinks])
  BY <1>5, FollowsAlike
<1> QED
  BY <1>1, <1>2, <1>5, <1>6 DEF Settled, Alike

LEMMA ResolveType ==
    ASSUME volume \in Volumes, NEW t, IsTree(t), NEW p \in Paths
    PROVE  Resolve(t, p) \in Paths \cup {Outside, Loop}
<1>1. PICK vol \in Volumes : vol = volume
  OBVIOUS
<1>2. SamePath(vol, p, p)
  BY NamesAreAlike DEF SamePath
<1>3. ResolveOn(vol, t, p) \in Paths \cup {Outside, Loop}
  BY <1>2, ResolveAlike
<1> QED
  BY <1>1, <1>3 DEF Resolve

LEMMA NodesAlike ==
    ASSUME volume \in Volumes, NEW t, IsTree(t), NEW p \in Paths, NEW q \in Paths, SamePath(volume, p, q)
    PROVE  Node(t, p) = Node(t, q)
<1> DEFINE a == Resolve(t, p)
           b == Resolve(t, q)
<1>1. Alike(volume, a, b)
  <2>1. Alike(volume, ResolveOn(volume, t, p), ResolveOn(volume, t, q))
    BY ResolveAlike
  <2> QED
    BY <2>1 DEF Resolve
<1> HIDE DEF a, b
<1>2. NodeAt(t, a) = NodeAt(t, b)
  <2>1. CASE a = b
    BY <2>1
  <2>2. CASE a # b
    <3>1. a \in Paths /\ b \in Paths /\ SamePath(volume, a, b)
      BY <1>1, <2>2 DEF Alike
    <3>2. a # <<>> /\ b # <<>>
      <4>1. Len(a) = Len(b) /\ Len(a) \in Nat
        BY <3>1 DEF SamePath, Paths
      <4>2. a = <<>> => b = <<>>
        BY <3>1, <4>1 DEF Paths
      <4>3. b = <<>> => a = <<>>
        BY <3>1, <4>1 DEF Paths
      <4> QED
        BY <2>2, <4>2, <4>3
    <3>3. a \notin {Loop, Outside, <<>>} /\ b \notin {Loop, Outside, <<>>}
      BY <3>1, <3>2, OutsideIsNoPath
    <3> QED
      BY <3>1, <3>3, SameEntries DEF NodeAt
  <2> QED
    BY <2>1, <2>2
<1> QED
  BY <1>2 DEF Node, a, b

-----------------------------------------------------------------------------
(* Scope matching. *)

\* What the volume takes for a blocked name is found to lie under it, whatever
\* the probe answers.
LEMMA BlockedByName ==
    ASSUME volume \in Volumes, NEW t, IsTree(t), NEW p \in Paths, NEW b \in Paths,
           NEW v \in Verdicts, UnderName(p, b)
    PROVE  PathWithin(t, p, b, v, FALSE)
<1>1. Len(p) >= Len(b) /\ Len(b) \in Nat /\ Len(p) \in Nat /\ DOMAIN b = 1 .. Len(b)
  BY DEF UnderName, Paths
<1>2. SamePath(volume, Take(p, Len(b)), b) /\ Len(b) \in 0 .. Len(p)
  BY <1>1 DEF UnderName
<1>3. /\ Take(p, Len(b)) \in Paths /\ Len(Take(p, Len(b))) = Len(b)
      /\ \A i \in 1 .. Len(b) : Take(p, Len(b))[i] = p[i]
  BY <1>2, Heads
<1>4. ASSUME NEW i \in 1 .. Len(b) PROVE SameName(volume, p[i], b[i])
  <2>1. i \in DOMAIN Take(p, Len(b))
    BY <1>3 DEF Paths
  <2> QED
    BY <1>2, <1>3, <2>1 DEF SamePath
<1>5. ASSUME NEW i \in 1 .. Len(b) PROVE SamePath(volume, Take(p, i), Take(b, i))
  <2>1. i \in 0 .. Len(p) /\ i \in 0 .. Len(b)
    BY <1>1
  <2>2. /\ Take(p, i) \in Paths /\ Len(Take(p, i)) = i /\ \A j \in 1 .. i : Take(p, i)[j] = p[j]
        /\ Take(b, i) \in Paths /\ Len(Take(b, i)) = i /\ \A j \in 1 .. i : Take(b, i)[j] = b[j]
    BY <2>1, Heads
  <2>3. DOMAIN Take(p, i) = 1 .. i
    BY <2>2 DEF Paths
  <2>4. \A j \in 1 .. i : j \in 1 .. Len(b)
    BY <1>1
  <2> QED
    BY <1>4, <2>2, <2>3, <2>4 DEF SamePath
<1>6. ASSUME NEW i \in 1 .. Len(b) PROVE NamesAgree(t, p, b, i, v, FALSE)
  <2> DEFINE s == SameFile(t, Take(p, i), Take(b, i))
  <2>1. Node(t, Take(p, i)) = Node(t, Take(b, i))
    <3>1. i \in 0 .. Len(p) /\ i \in 0 .. Len(b)
      BY <1>1
    <3>2. Take(p, i) \in Paths /\ Take(b, i) \in Paths
      BY <3>1, Heads
    <3> QED
      BY <1>5, <3>2, NodesAlike
  <2>2. s \in {"unknown", "same"}
    <3>1. \A n : Identity(n, n) \in {"unknown", "same"}
      BY DEF Identity
    <3> QED
      BY <2>1, <3>1 DEF SameFile
  <2> HIDE DEF s
  <2>3. SameName(volume, p[i], b[i]) /\ p[i] \in Names /\ b[i] \in Names
    <3>1. i \in 1 .. Len(p)
      BY <1>1
    <3> QED
      BY <1>4, <3>1 DEF Paths
  <2>4. CASE volume = "exact"
    BY <2>3, <2>4 DEF SameName, NamesAgree
  <2>5. CASE volume # "exact"
    <3>1. v \in {"folds", "unknown"}
      BY <2>5 DEF Verdicts
    <3>2. FullFold[p[i]] = FullFold[b[i]]
      <4>1. CASE volume = "simple"
        BY <2>3, <4>1, RulesAssumption DEF SameName
      <4>2. CASE volume = "full"
        BY <2>3, <4>2 DEF SameName
      <4> QED
        BY <2>5, <4>1, <4>2 DEF Volumes
    <3>3. Folds(v, FALSE)
      BY <3>1 DEF Folds
    <3>4. NameAgrees(p[i], b[i], s, v, FALSE)
      BY <2>2, <3>2, <3>3 DEF NameAgrees
    <3> QED
      BY <3>4 DEF NamesAgree, s
  <2> QED
    BY <2>4, <2>5
<1> QED
  BY <1>1, <1>6 DEF PathWithin

\* What is found to lie under an allowed name is taken for it by the volume.
LEMMA AllowedByName ==
    ASSUME volume \in Volumes, NEW t, NEW p \in Paths, NEW a \in Paths,
           NEW v \in Verdicts, PathWithin(t, p, a, v, TRUE)
    PROVE  UnderName(p, a)
<1>1. Len(a) \in Nat /\ Len(p) \in Nat /\ DOMAIN a = 1 .. Len(a)
  BY DEF Paths
<1>2. Len(p) >= Len(a) /\ \A i \in 1 .. Len(a) : NamesAgree(t, p, a, i, v, TRUE)
  <2>1. CASE a = <<>>
    <3>1. Len(a) = 0
      BY <2>1
    <3> QED
      BY <1>1, <3>1
  <2>2. CASE a # <<>>
    BY <1>1, <2>2 DEF PathWithin
  <2> QED
    BY <2>1, <2>2
<1>3. ASSUME NEW i \in 1 .. Len(a) PROVE SameName(volume, p[i], a[i])
  <2>1. p[i] \in Names /\ a[i] \in Names
    <3>1. i \in 1 .. Len(p)
      BY <1>1, <1>2
    <3> QED
      BY <3>1 DEF Paths
  <2>2. CASE p[i] = a[i]
    BY <2>2, NamesAreAlike
  <2>3. CASE p[i] # a[i]
    <3>1. Folds(v, TRUE) /\ SimpleFold[p[i]] = SimpleFold[a[i]]
      BY <1>2, <2>3 DEF NamesAgree, NameAgrees
    <3>2. volume # "exact"
      BY <3>1 DEF Folds, Verdicts
    <3>3. CASE volume = "simple"
      BY <3>1, <3>3 DEF SameName
    <3>4. CASE volume = "full"
      BY <2>1, <3>1, <3>4, RulesAssumption DEF SameName
    <3> QED
      BY <3>2, <3>3, <3>4 DEF Volumes
  <2> QED
    BY <2>2, <2>3
<1>4. Len(a) \in 0 .. Len(p)
  BY <1>1, <1>2
<1>5. /\ Take(p, Len(a)) \in Paths /\ Len(Take(p, Len(a))) = Len(a)
      /\ \A i \in 1 .. Len(a) : Take(p, Len(a))[i] = p[i]
  BY <1>4, Heads
<1>6. DOMAIN Take(p, Len(a)) = 1 .. Len(a)
  BY <1>5 DEF Paths
<1> QED
  BY <1>2, <1>3, <1>5, <1>6 DEF UnderName, SamePath

\* What a check that denies nothing has established.
InScope(t, path, allowed, blocked) ==
    LET target == Resolve(t, path)
    IN  /\ target \notin {Loop, Outside}
        /\ \A b \in blocked : ~UnderName(target, b) /\ ~InsideOf(t, target, b)
        /\ \E a \in allowed : UnderName(target, a)

LEMMA NoDenial ==
    ASSUME volume \in Volumes, NEW t, IsTree(t), NEW path \in Paths,
           NEW allowed, allowed \subseteq Paths, NEW blocked, blocked \subseteq Paths,
           NEW v \in Verdicts, PathDenial(t, path, allowed, blocked, v) = "none"
    PROVE  InScope(t, path, allowed, blocked)
<1> DEFINE target == Resolve(t, path)
<1>1. target \in Paths \cup {Outside, Loop}
  BY ResolveType
<1>2. TargetDenial(t, path, target, allowed, blocked, v) = "none"
  BY DEF PathDenial
<1> HIDE DEF target
<1>3. target \notin {Loop, Outside}
  <2>1. target = Loop => TargetDenial(t, path, target, allowed, blocked, v) = "MALFORMED_REQUEST"
    BY OutsideIsNoPath DEF TargetDenial
  <2>2. target = Outside => TargetDenial(t, path, target, allowed, blocked, v) = "SYMLINK_ESCAPE"
    BY OutsideIsNoPath DEF TargetDenial
  <2> QED
    BY <1>2, <2>1, <2>2
<1>4. ScopeDenial(t, {path, target}, allowed, blocked, v) = "none"
  BY <1>2, <1>3 DEF TargetDenial
<1>5. target \in Paths
  BY <1>1, <1>3
<1>6. ~Blocked(t, target, blocked, v)
  BY <1>4 DEF ScopeDenial
<1>7. \E a \in allowed : PathWithin(t, target, a, v, TRUE)
  BY <1>4 DEF ScopeDenial
<1>8. ASSUME NEW b \in blocked PROVE ~UnderName(target, b) /\ ~InsideOf(t, target, b)
  <2>1. ~PathWithin(t, target, b, v, FALSE)
    BY <1>6 DEF Blocked
  <2>2. ~InsideOf(t, target, b)
    BY <2>1 DEF PathWithin, InsideOf
  <2> QED
    BY <1>5, <2>1, <2>2, BlockedByName
<1>9. \E a \in allowed : UnderName(target, a)
  BY <1>5, <1>7, AllowedByName
<1> QED
  BY <1>3, <1>8, <1>9 DEF InScope, target

-----------------------------------------------------------------------------
(* The options of a command. *)

IsBare(c) == c.option = "-o" /\ c.form = "bare"

\* f marks the first n tokens that the flag check looks at.
Looks(f, tokens, n) ==
    f = [i \in 1 .. n |->
            i = 1 \/ ~(/\ f[i - 1] /\ tokens[i - 1].option = "-o"
                       /\ tokens[i - 1].form = "bare")]

LEMMA LookerExists ==
    ASSUME NEW tokens, NEW n \in Nat
    PROVE  \E f : Looks(f, tokens, n)
<1> DEFINE T == {k \in Nat : \E f : Looks(f, tokens, k)}
<1>1. 0 \in T
  <2> DEFINE g == [i \in 1 .. 0 |-> TRUE]
  <2>1. Looks(g, tokens, 0)
    BY DEF Looks
  <2> QED
    BY <2>1
<1>2. ASSUME NEW k \in Nat, k \in T PROVE k + 1 \in T
  <2>1. PICK f : Looks(f, tokens, k)
    BY <1>2
  <2> DEFINE Body(h, i) == i = 1 \/ ~(/\ h[i - 1] /\ tokens[i - 1].option = "-o"
                                      /\ tokens[i - 1].form = "bare")
  <2> DEFINE g == [i \in 1 .. k + 1 |-> IF i = k + 1 THEN Body(f, k + 1) ELSE f[i]]
  <2>2. \A i \in 1 .. k : f[i] = Body(f, i)
    BY <2>1 DEF Looks
  <2>3. \A i \in 1 .. k : g[i] = f[i]
    OBVIOUS
  <2>4. g[k + 1] = Body(f, k + 1)
    OBVIOUS
  <2>5. g = [i \in 1 .. k + 1 |-> g[i]]
    OBVIOUS
  <2> HIDE DEF g
  <2>6. \A i \in 1 .. k + 1 : g[i] = Body(g, i)
    <3> SUFFICES ASSUME NEW i \in 1 .. k + 1 PROVE g[i] = Body(g, i)
      OBVIOUS
    <3>1. g[i] = Body(f, i)
      BY <2>2, <2>3, <2>4
    <3>2. i # 1 => i - 1 \in 1 .. k /\ g[i - 1] = f[i - 1]
      BY <2>3
    <3> QED
      BY <3>1, <3>2
  <2>7. Looks(g, tokens, k + 1)
    BY <2>5, <2>6 DEF Looks
  <2> QED
    BY <2>7
<1> HIDE DEF T
<1>3. Nat \subseteq T
  BY <1>1, <1>2, NatSetInduction
<1> QED
  BY <1>3 DEF T

\* Only the token after a bare "-o" is not looked at.
LEMMA LookedAtIs ==
    ASSUME NEW tokens \in Seq(Arguments), NEW i \in 1 .. Len(tokens),
           i > 1 => ~IsBare(tokens[i - 1])
    PROVE  i \in LookedAt(tokens)
<1>1. Len(tokens) \in Nat /\ DOMAIN tokens = 1 .. Len(tokens)
  OBVIOUS
<1> DEFINE g == CHOOSE f : Looks(f, tokens, Len(tokens))
<1>2. Looks(g, tokens, Len(tokens))
  BY <1>1, LookerExists
<1>3. LookedAt(tokens) = {j \in DOMAIN tokens : g[j]}
  BY <1>1 DEF LookedAt, Looks
<1> HIDE DEF g
<1>4. g[i] = (i = 1 \/ ~(/\ g[i - 1] /\ tokens[i - 1].option = "-o"
                          /\ tokens[i - 1].form = "bare"))
  BY <1>2 DEF Looks
<1>5. i = 1 \/ ~(tokens[i - 1].option = "-o" /\ tokens[i - 1].form = "bare")
  BY DEF IsBare
<1>6. g[i]
  BY <1>4, <1>5, Zenon
<1> QED
  BY <1>1, <1>3, <1>6

\* An override that pytest would heed is denied.
LEMMA OverrideIsDenied ==
    ASSUME NEW tokens \in Seq(Arguments), OverrideTakesEffect(tokens)
    PROVE  FlagsDenied(tokens)
<1>1. Len(tokens) \in Nat /\ DOMAIN tokens = 1 .. Len(tokens)
  OBVIOUS
<1>2. ASSUME NEW i \in 1 .. Len(tokens), IsBare(tokens[i])
      PROVE  i < Len(tokens) /\ tokens[i + 1].option = "none"
  BY <1>1, <1>2 DEF OverrideTakesEffect, IsBare
<1>3. ASSUME NEW i \in 1 .. Len(tokens), tokens[i].option = "-o"
      PROVE  i \in LookedAt(tokens)
  <2>1. ASSUME i > 1, IsBare(tokens[i - 1]) PROVE FALSE
    <3>1. i - 1 \in 1 .. Len(tokens) /\ (i - 1) + 1 = i
      BY <1>1, <2>1
    <3> QED
      BY <1>2, <1>3, <2>1, <3>1
  <2> QED
    BY <2>1, LookedAtIs
<1>4. CASE \E i \in DOMAIN tokens : tokens[i].option = "-o" /\ tokens[i].form = "addopts"
  <2>1. PICK i \in 1 .. Len(tokens) : tokens[i].option = "-o" /\ tokens[i].form = "addopts"
    BY <1>1, <1>4
  <2>2. i \in LookedAt(tokens) /\ OverrideAt(tokens, i)
    BY <1>3, <2>1 DEF OverrideAt
  <2> QED
    BY <2>1, <2>2 DEF FlagsDenied
<1>5. CASE \E i \in DOMAIN tokens : IsBare(tokens[i]) /\ tokens[i + 1].form = "addopts"
  <2>1. PICK i \in 1 .. Len(tokens) : IsBare(tokens[i]) /\ tokens[i + 1].form = "addopts"
    BY <1>1, <1>5
  <2>2. i \in LookedAt(tokens) /\ OverrideAt(tokens, i)
    BY <1>2, <1>3, <2>1 DEF OverrideAt, IsBare
  <2> QED
    BY <2>1, <2>2 DEF FlagsDenied, IsBare
<1> QED
  BY <1>4, <1>5 DEF OverrideTakesEffect, IsBare

\* A command that is not denied stays in scope, whatever it is given.
LEMMA CommandInScope ==
    ASSUME volume \in Volumes, NEW t, IsTree(t), NEW r, r.tokens \in Seq(Arguments),
           NEW blocked, blocked \subseteq Paths, NEW v \in Verdicts,
           ~CommandDenied(t, r, blocked, v)
    PROVE  /\ ~OverrideTakesEffect(r.tokens)
           /\ \A i \in DOMAIN r.tokens : InScope(t, r.tokens[i].path, {<<>>}, blocked)
<1> DEFINE tokens == r.tokens
<1>1. ~FlagsDenied(tokens) /\ TokenDenials(t, tokens, blocked, v) = {}
  BY DEF CommandDenied
<1> HIDE DEF tokens
<1>2. tokens \in Seq(Arguments)
  BY DEF tokens
<1>3. ASSUME NEW i \in DOMAIN tokens PROVE InScope(t, tokens[i].path, {<<>>}, blocked)
  <2> DEFINE d == TextDenial(t, tokens[i].form, tokens[i].path, {<<>>}, blocked, v)
  <2>1. d = "none"
    BY <1>1 DEF TokenDenials
  <2>2. PathDenial(t, tokens[i].path, {<<>>}, blocked, v) = "none"
    BY <2>1 DEF TextDenial
  <2>3. tokens[i].path \in Paths
    <3>1. tokens[i] \in Arguments
      BY <1>2
    <3> QED
      BY <3>1 DEF Arguments
  <2>4. {<<>>} \subseteq Paths
    BY DEF Paths
  <2> QED
    BY <2>2, <2>3, <2>4, NoDenial
<1> QED
  BY <1>1, <1>2, <1>3, OverrideIsDenied DEF tokens

-----------------------------------------------------------------------------
(* The decision, the staged copy and the dispatch. *)

NothingBlockedIn(t) == \A e \in DOMAIN t, b \in Scope.blocked : ~UnderName(e, b)

RulesTypeOK ==
    /\ volume \in Volumes /\ IsTree(tree) /\ IsTree(copy)
    /\ Scope.allowed \subseteq Paths /\ Scope.blocked \subseteq Paths
    /\ Request.path \in Paths /\ (Request.kind = "command" => Request.tokens \in Seq(Arguments))
    /\ case.backend \in {"local", "docker"}
    /\ stage \in {"asked", "denied", "let", "refused", "checked", "staged", "done"}

\* The inductive invariant: a staged copy has nothing blocked in it, and only an
\* admissible action comes past the decision.
RulesInv ==
    /\ RulesTypeOK
    /\ stage \in {"let", "checked", "staged", "done"} => Admissible
    /\ stage \in {"checked", "staged"} => case.backend = "docker"
    /\ stage = "staged" => NothingBlockedIn(copy)
    /\ EffectInScope

\* A copy that was staged has nothing blocked in it.
LEMMA NothingBlockedIsStaged ==
    ASSUME RulesTypeOK, NEW v \in Verdicts
    PROVE  /\ IsTree(Staged(v))
           /\ \A e \in DOMAIN Staged(v), b \in Scope.blocked : ~UnderName(e, b)
<1> DEFINE kept == {e \in DOMAIN tree :
                      \A k \in 1 .. Len(e) : Take(e, k) \in DOMAIN tree
                         => ~Dropped(Take(e, k), Resolve(tree, Take(e, k)), v)}
<1>1. Staged(v) = [e \in kept |-> tree[e]]
  BY DEF Staged
<1>2. DOMAIN Staged(v) = kept /\ \A e \in kept : Staged(v)[e] = tree[e]
  BY <1>1
<1>3. kept \subseteq DOMAIN tree /\ DOMAIN tree \subseteq Paths \ {<<>>}
      /\ \A e \in DOMAIN tree : tree[e] \in Entries
  BY DEF RulesTypeOK, IsTree
<1>4. ASSUME NEW e \in kept, NEW b \in Scope.blocked PROVE ~UnderName(e, b)
  <2>1. e \in Paths /\ Len(e) \in Nat /\ Len(e) # 0
    BY <1>3 DEF Paths
  <2>2. Take(e, Len(e)) = e
    BY <2>1, SubSeqFull DEF Take, Paths
  <2>3. Len(e) \in 1 .. Len(e) /\ e \in DOMAIN tree
    BY <1>3, <2>1
  <2>4. ~Dropped(e, Resolve(tree, e), v)
    BY <2>2, <2>3
  <2>5. ~Blocked(tree, e, Scope.blocked, v)
    BY <2>4 DEF Dropped
  <2>6. ~PathWithin(tree, e, b, v, FALSE)
    BY <2>5 DEF Blocked
  <2> QED
    BY <2>1, <2>6, BlockedByName DEF RulesTypeOK
<1> HIDE DEF kept
<1>5. IsTree(Staged(v))
  BY <1>1, <1>2, <1>3 DEF IsTree
<1> QED
  BY <1>2, <1>4, <1>5

\* What passes an executor's look has its effect in scope.
LEMMA RecheckedInScope ==
    ASSUME RulesTypeOK, NEW t, IsTree(t), NEW v \in Verdicts, Rechecked(t, v),
           Request.kind = "command" => NothingBlockedIn(t)
    PROVE  /\ \A path \in Reached :
                LET target == Resolve(t, path)
                IN /\ target \notin {Loop, Outside}
                   /\ \A b \in Scope.blocked :
                        ~UnderName(target, b) /\ ~InsideOf(t, target, b)
                   /\ Request.kind = "file" => \E a \in Scope.allowed : UnderName(target, a)
           /\ Request.kind = "command" =>
                /\ ~OverrideTakesEffect(Request.tokens)
                /\ \A e \in DOMAIN t, b \in Scope.blocked : ~UnderName(e, b)
<1>1. volume \in Volumes /\ Scope.allowed \subseteq Paths /\ Scope.blocked \subseteq Paths
      /\ Request.path \in Paths
  BY DEF RulesTypeOK
<1>2. CASE Request.kind = "command"
  <2>1. {<<>>} \subseteq Paths
    BY DEF Paths
  <2>2. InScope(t, Request.path, {<<>>}, Scope.blocked)
    BY <1>1, <1>2, <2>1, NoDenial DEF Rechecked
  <2>3. Request.tokens \in Seq(Arguments)
    BY <1>2 DEF RulesTypeOK
  <2>4. ~CommandDenied(t, Request, Scope.blocked, v)
    BY <1>2 DEF Rechecked
  <2>5. /\ ~OverrideTakesEffect(Request.tokens)
        /\ \A i \in DOMAIN Request.tokens :
              InScope(t, Request.tokens[i].path, {<<>>}, Scope.blocked)
    BY <1>1, <2>3, <2>4, CommandInScope
  <2>6. ASSUME NEW path \in Reached PROVE InScope(t, path, {<<>>}, Scope.blocked)
    BY <1>2, <2>2, <2>5 DEF Reached
  <2> QED
    BY <1>2, <2>5, <2>6 DEF InScope, NothingBlockedIn
<1>3. CASE Request.kind # "command"
  <2>1. InScope(t, Request.path, Scope.allowed, Scope.blocked)
    BY <1>1, <1>3, NoDenial DEF Rechecked
  <2>2. Reached = {Request.path}
    BY <1>3 DEF Reached
  <2> QED
    BY <1>3, <2>1, <2>2 DEF InScope
<1> QED
  BY <1>2, <1>3

LEMMA RulesStart == RulesInit => RulesInv
<1> SUFFICES ASSUME RulesInit PROVE RulesInv
  OBVIOUS
<1>1. PICK s \in Scopes, r \in Requests, k \in {"local", "docker"} :
         case = [scope |-> s, request |-> r, backend |-> k]
  BY DEF RulesInit
<1>2. Scope = s /\ Request = r /\ case.backend = k
  BY <1>1 DEF Scope, Request
<1>3. IsTree(tree)
  BY RulesAssumption DEF RulesInit
<1>4. IsTree(<<>>)
  BY DEF IsTree
<1>5. RulesTypeOK
  BY <1>2, <1>3, <1>4, RulesAssumption DEF RulesInit, RulesTypeOK, Volumes
<1> QED
  BY <1>5 DEF RulesInit, RulesInv, EffectInScope

LEMMA TreeIsReplaced ==
    ASSUME IsTree(tree), NEW e \in DOMAIN tree,
           NEW entry \in {Dir, LinkTo(Outside)} \cup {LinkTo(f) : f \in DOMAIN tree}
    PROVE  IsTree(Replaced(e, entry))
<1>1. entry \in Entries
  <2>1. \A x \in Paths \cup {Outside} : [link |-> TRUE, to |-> x] \in Entries
    BY DEF Entries
  <2>2. Dir \in Entries
    BY DEF Dir, Entries, Paths
  <2>3. DOMAIN tree \subseteq Paths
    BY DEF IsTree
  <2> QED
    BY <2>1, <2>2, <2>3 DEF LinkTo
<1>2. PICK D \in SUBSET DOMAIN tree :
         Replaced(e, entry) = [f \in D |-> IF f = e THEN entry ELSE tree[f]]
  BY DEF Replaced
<1>3. \A f \in D : (IF f = e THEN entry ELSE tree[f]) \in Entries
  BY <1>1 DEF IsTree
<1> QED
  BY <1>2, <1>3 DEF IsTree


\* The scope of an action does not move with it.
LEMMA NamesStay ==
    ASSUME volume' = volume, NEW p, NEW q
    PROVE  UnderName(p, q)' <=> UnderName(p, q)
BY DEF UnderName

LEMMA NodesStay ==
    ASSUME volume' = volume, NEW t, NEW p, NEW q
    PROVE  /\ Resolve(t, p)' = Resolve(t, p)
           /\ SameFile(t, p, q)' = SameFile(t, p, q)
           /\ InsideOf(t, p, q)' <=> InsideOf(t, p, q)
<1>1. Resolve(t, p)' = Resolve(t, p)
  BY DEF Resolve
<1>2. SameFile(t, p, q)' = SameFile(t, p, q)
  BY DEF SameFile, Node, NodeAt, Resolve
<1>3. InsideOf(t, p, q)' <=> InsideOf(t, p, q)
  BY DEF InsideOf, SameFile, Node, NodeAt, Resolve
<1> QED
  BY <1>1, <1>2, <1>3

\* What the executor's look has established holds of the executed action.
LEMMA EffectFollows ==
    ASSUME RulesTypeOK, NEW t, IsTree(t), NEW v \in Verdicts, Rechecked(t, v),
           Request.kind = "command" => NothingBlockedIn(t),
           volume' = volume, case' = case, copy' = t
    PROVE  EffectInScope'
<1>1. Scope' = Scope /\ Request' = Request /\ Reached' = Reached
  BY DEF Scope, Request, Reached
<1> DEFINE Safe(path) ==
        LET target == Resolve(t, path)
        IN /\ target \notin {Loop, Outside}
           /\ \A b \in Scope.blocked : ~UnderName(target, b) /\ ~InsideOf(t, target, b)
           /\ Request.kind = "file" => \E a \in Scope.allowed : UnderName(target, a)
<1>2. ASSUME NEW path \in Reached
      PROVE  (LET target == Resolve(copy, path)
              IN /\ target \notin {Loop, Outside}
                 /\ \A b \in Scope.blocked : ~UnderName(target, b) /\ ~InsideOf(copy, target, b)
                 /\ Request.kind = "file" => \E a \in Scope.allowed : UnderName(target, a))'
  <2>1. Safe(path)
    BY RecheckedInScope
  <2>2. (Resolve(copy, path) = Resolve(t, path))'
    BY NodesStay
  <2> QED
    BY <1>1, <2>1, <2>2, NamesStay, NodesStay
<1> QED
  BY <1>1, <1>2, RecheckedInScope, NamesStay DEF EffectInScope

\* A step that ends no action keeps the scope and what has been established.
LEMMA ScopeStays ==
    ASSUME RulesTypeOK, volume' = volume, case' = case, IsTree(tree'), IsTree(copy'),
           stage' \in {"denied", "let", "refused", "checked", "staged", "done"}
    PROVE  RulesTypeOK' /\ (Admissible' <=> Admissible)
<1>1. RulesTypeOK'
  BY DEF RulesTypeOK, Scope, Request, Volumes
<1>2. Admissible' <=> Admissible
  BY DEF Admissible, Request
<1> QED
  BY <1>1, <1>2

LEMMA RulesStep == RulesInv /\ [RulesNext]_rulesVars => RulesInv'
<1> SUFFICES ASSUME RulesInv, [RulesNext]_rulesVars PROVE RulesInv'
  OBVIOUS
<1>0. RulesTypeOK /\ IsTree(tree) /\ IsTree(copy)
  BY DEF RulesInv, RulesTypeOK
<1>1. CASE Decide
  <2>1. PICK v \in Verdicts : Moves(IF Outcome(v) = "DENY" THEN "denied" ELSE "let")
    BY <1>1 DEF Decide
  <2>2. /\ volume' = volume /\ tree' = tree /\ case' = case /\ copy' = copy
        /\ stage' \in {"denied", "let"} /\ (stage' = "let" => Outcome(v) # "DENY")
    BY <1>1, <2>1 DEF Decide, Moves
  <2>3. stage' = "let" => Admissible
    BY <2>2 DEF Outcome
  <2>4. RulesTypeOK' /\ (Admissible' <=> Admissible)
    BY <1>0, <2>2, ScopeStays
  <2> QED
    BY <2>2, <2>3, <2>4 DEF RulesInv, EffectInScope
<1>2. CASE ExecuteLocally
  <2>1. PICK v \in Verdicts : Moves(IF Rechecked(tree, v) THEN "done" ELSE "refused")
    BY <1>2 DEF ExecuteLocally
  <2>2. /\ volume' = volume /\ tree' = tree /\ case' = case /\ copy' = tree
        /\ stage = "let" /\ case.backend = "local"
        /\ stage' \in {"done", "refused"} /\ (stage' = "done" => Rechecked(tree, v))
    BY <1>2, <2>1 DEF ExecuteLocally, Moves
  <2>3. Admissible /\ Request.kind # "command"
    BY <2>2 DEF RulesInv, Admissible
  <2>4. RulesTypeOK' /\ (Admissible' <=> Admissible)
    BY <1>0, <2>2, ScopeStays
  <2>5. stage' = "done" => EffectInScope'
    <3>1. PICK t : t = tree
      OBVIOUS
    <3> QED
      BY <1>0, <2>2, <2>3, <3>1, EffectFollows
  <2>6. EffectInScope'
    BY <2>5 DEF EffectInScope
  <2> QED
    BY <2>2, <2>3, <2>4, <2>6 DEF RulesInv
<1>3. CASE CheckBeforeStaging
  <2>1. PICK v \in Verdicts : Moves(IF Rechecked(tree, v) THEN "checked" ELSE "refused")
    BY <1>3 DEF CheckBeforeStaging
  <2>2. /\ volume' = volume /\ tree' = tree /\ case' = case /\ copy' = copy
        /\ stage = "let" /\ case.backend = "docker" /\ stage' \in {"checked", "refused"}
    BY <1>3, <2>1 DEF CheckBeforeStaging, Moves
  <2>3. RulesTypeOK' /\ (Admissible' <=> Admissible)
    BY <1>0, <2>2, ScopeStays
  <2> QED
    BY <2>2, <2>3 DEF RulesInv, EffectInScope
<1>4. CASE Stage
  <2>0. PICK v \in Verdicts : \E s \in {Staged(v)} :
           IF <<>> \in Scope.blocked \/ DOMAIN s \cap Scope.blocked # {}
           THEN Moves("refused") /\ UNCHANGED copy
           ELSE Moves("staged") /\ copy' = s
    BY <1>4 DEF Stage
  <2>1. PICK s \in {Staged(v)} :
           IF <<>> \in Scope.blocked \/ DOMAIN s \cap Scope.blocked # {}
           THEN Moves("refused") /\ UNCHANGED copy
           ELSE Moves("staged") /\ copy' = s
    BY <2>0
  <2>2. s = Staged(v) /\ IsTree(s) /\ NothingBlockedIn(s)
    BY <1>0, NothingBlockedIsStaged DEF NothingBlockedIn
  <2>3. /\ volume' = volume /\ tree' = tree /\ case' = case /\ stage = "checked"
        /\ stage' \in {"staged", "refused"} /\ copy' \in {copy, s}
        /\ (stage' = "staged" => copy' = s)
    BY <1>4, <2>1 DEF Stage, Moves
  <2>4. RulesTypeOK' /\ (Admissible' <=> Admissible)
    BY <1>0, <2>2, <2>3, ScopeStays
  <2>5. stage' = "staged" => NothingBlockedIn(copy)'
    <3>1. Scope' = Scope
      BY <2>3 DEF Scope
    <3> QED
      BY <2>2, <2>3, <3>1, NamesStay DEF NothingBlockedIn
  <2>6. Admissible /\ case.backend = "docker"
    BY <2>3 DEF RulesInv
  <2> QED
    BY <2>3, <2>4, <2>5, <2>6 DEF RulesInv, EffectInScope
<1>5. CASE ExecuteStaged
  <2>1. PICK v \in Verdicts : Moves(IF Rechecked(copy, v) THEN "done" ELSE "refused")
    BY <1>5 DEF ExecuteStaged
  <2>2. /\ volume' = volume /\ tree' = tree /\ case' = case /\ copy' = copy /\ stage = "staged"
        /\ stage' \in {"done", "refused"} /\ (stage' = "done" => Rechecked(copy, v))
    BY <1>5, <2>1 DEF ExecuteStaged, Moves
  <2>3. Admissible /\ NothingBlockedIn(copy)
    BY <2>2 DEF RulesInv
  <2>4. RulesTypeOK' /\ (Admissible' <=> Admissible)
    BY <1>0, <2>2, ScopeStays
  <2>5. stage' = "done" => EffectInScope'
    <3>1. PICK t : t = copy
      OBVIOUS
    <3> QED
      BY <1>0, <2>2, <2>3, <3>1, EffectFollows
  <2>6. EffectInScope'
    BY <2>5 DEF EffectInScope
  <2> QED
    BY <2>2, <2>3, <2>4, <2>6 DEF RulesInv
<1>6. CASE Swap
  <2>1. PICK e \in DOMAIN tree,
             entry \in {Dir, LinkTo(Outside)} \cup {LinkTo(f) : f \in DOMAIN tree} :
           tree' = Replaced(e, entry)
    BY <1>6 DEF Swap
  <2>2. /\ volume' = volume /\ case' = case /\ copy' = copy /\ stage' = stage
        /\ stage \in {"let", "checked"}
    BY <1>6 DEF Swap
  <2>3. IsTree(tree')
    BY <1>0, <2>1, TreeIsReplaced
  <2>4. RulesTypeOK' /\ (Admissible' <=> Admissible)
    BY <1>0, <2>2, <2>3, ScopeStays
  <2> QED
    BY <2>2, <2>4 DEF RulesInv, EffectInScope
<1>7. CASE UNCHANGED rulesVars
  <2>1. /\ volume' = volume /\ tree' = tree /\ case' = case /\ copy' = copy /\ stage' = stage
    BY <1>7 DEF rulesVars
  <2>2. RulesTypeOK' /\ (Admissible' <=> Admissible)
    <3>1. RulesTypeOK'
      BY <1>0, <2>1 DEF RulesTypeOK, Scope, Request, Volumes
    <3>2. Admissible' <=> Admissible
      BY <2>1 DEF Admissible, Request
    <3> QED
      BY <3>1, <3>2
  <2>3. Scope' = Scope /\ Request' = Request /\ Reached' = Reached
    BY <2>1 DEF Scope, Request, Reached
  <2>4. NothingBlockedIn(copy)' <=> NothingBlockedIn(copy)
    BY <2>1, <2>3, NamesStay DEF NothingBlockedIn
  <2>5. EffectInScope'
    <3>1. EffectInScope
      BY DEF RulesInv
    <3>2. PICK t : t = copy
      OBVIOUS
    <3>3. ASSUME NEW path PROVE (Resolve(copy, path))' = Resolve(t, path)
      BY <2>1, <3>2 DEF Resolve
    <3>4. ASSUME NEW p, NEW q PROVE InsideOf(copy, p, q)' <=> InsideOf(copy, p, q)
      BY <2>1, <3>2 DEF InsideOf, SameFile, Node, NodeAt, Resolve
    <3> QED
      BY <2>1, <2>3, <3>1, <3>2, <3>3, <3>4, NamesStay DEF EffectInScope
  <2> QED
    BY <2>1, <2>2, <2>4, <2>5 DEF RulesInv
<1> QED
  BY <1>1, <1>2, <1>3, <1>4, <1>5, <1>6, <1>7 DEF RulesNext

\* An executed action has its effect in its scope, on the tree it is executed
\* on, for every workspace, scope, request and volume, whatever the probe
\* answered and however often the tree was changed since the decision.
THEOREM EffectsStayInScope == RulesSpec => []EffectInScope
<1>1. RulesInv => EffectInScope
  BY DEF RulesInv
<1> QED
  BY <1>1, RulesStart, RulesStep, PTL DEF RulesSpec

=============================================================================
