---------------------------- MODULE MCAlgorithms ----------------------------
(***************************************************************************)
(* Five machines that share no variable, checked by one run of TLC: the    *)
(* rules of the policy, the reasoning auditors, the prompt of an audit,    *)
(* the search for its excerpts and the labels of a trace.  Each is run on  *)
(* every input of a bounded set.  A behaviour is one of the machine that   *)
(* part names; the others rest.                                            *)
(***************************************************************************)
EXTENDS PolicyRules, ReasoningAuditor, AuditPrompt, ExcerptGrounding,
        ReasoningExtraction

VARIABLE part

algorithmsVars == <<part, rulesVars, auditorVars, promptVars, groundingVars,
                    extractionVars>>

RulesAtRest ==
    /\ volume = "exact" /\ tree = <<>> /\ copy = <<>>
    /\ case = "none" /\ stage = "none" /\ swaps = 0

AuditorAtRest ==
    /\ pc = "routing" /\ routing = "none" /\ tier = 0 /\ reserved = {}
    /\ answers = <<>> /\ found = NotAsked /\ results = <<>> /\ final = "none"

PromptAtRest ==
    phase = "none" /\ received = <<>> /\ value = <<>> /\ shown = <<>> /\ prompt = <<>>

GroundingAtRest == trace = <<>> /\ excerpt = <<>> /\ span = Unsought

ExtractionAtRest ==
    message = "none" /\ extraction = Nothing /\ label = "none" /\ verified = FALSE

AlgorithmsInit ==
    /\ part \in {"rules", "auditor", "prompt", "grounding", "extraction"}
    /\ IF part = "rules" THEN RulesInit ELSE RulesAtRest
    /\ IF part = "auditor" THEN AuditorInit ELSE AuditorAtRest
    /\ IF part = "prompt" THEN PromptInit ELSE PromptAtRest
    /\ IF part = "grounding" THEN GroundingInit ELSE GroundingAtRest
    /\ IF part = "extraction" THEN ExtractionInit ELSE ExtractionAtRest

RulesPart ==
    /\ part = "rules" /\ RulesNext
    /\ UNCHANGED <<part, auditorVars, promptVars, groundingVars, extractionVars>>
AuditorPart ==
    /\ part = "auditor" /\ AuditorNext
    /\ UNCHANGED <<part, rulesVars, promptVars, groundingVars, extractionVars>>
PromptPart ==
    /\ part = "prompt" /\ PromptNext
    /\ UNCHANGED <<part, rulesVars, auditorVars, groundingVars, extractionVars>>
GroundingPart ==
    /\ part = "grounding" /\ GroundingNext
    /\ UNCHANGED <<part, rulesVars, auditorVars, promptVars, extractionVars>>
ExtractionPart ==
    /\ part = "extraction" /\ ExtractionNext
    /\ UNCHANGED <<part, rulesVars, auditorVars, promptVars, groundingVars>>

AlgorithmsNext ==
    RulesPart \/ AuditorPart \/ PromptPart \/ GroundingPart \/ ExtractionPart

AlgorithmsSpec == AlgorithmsInit /\ [][AlgorithmsNext]_algorithmsVars

-----------------------------------------------------------------------------
(* The policy: names that differ in case, and by an expansion of one letter *)
(* to two (sz stands for a sharp s); trees with a link onto an allowed      *)
(* directory and one onto a blocked one.                                    *)

SomeNames  == {"in", "ss", "SS", "sz"}
CaseFold   == [n \in SomeNames |-> IF n = "SS" THEN "ss" ELSE n]
ExpandFold == [n \in SomeNames |-> IF n \in {"SS", "sz"} THEN "ss" ELSE n]

\* A tree without path, or with one of entries at it.
Maybe(path, entries) == {<<>>} \cup {path :> e : e \in entries}

SomeTrees ==
    {(<<"in">> :> Dir) @@ ss @@ upper @@ sz @@ inside :
       ss     \in Maybe(<<"ss">>, {Dir, LinkTo(<<"in">>)}),
       upper  \in Maybe(<<"SS">>, {Dir}),
       sz     \in Maybe(<<"sz">>, {Dir}),
       inside \in Maybe(<<"in", "ss">>, {LinkTo(<<"ss">>)})}

TaskScope(allowed, blocked, permission) ==
    [allowed |-> allowed, blocked |-> blocked, permission |-> permission]

SomeScopes ==
    {TaskScope({<<"in">>}, {<<"ss">>}, "allowed"),
     TaskScope({<<>>}, {<<"sz">>}, "approval"),
     TaskScope({<<"ss">>}, {<<"in", "ss">>}, "allowed")}

FileRequest(path) ==
    [kind |-> "file", standing |-> "ok", form |-> "plain", path |-> path]
CommandRequest(path, tokens) ==
    [kind |-> "command", standing |-> "ok", form |-> "plain", path |-> path,
     metacharacter |-> FALSE, prefixListed |-> TRUE, tokens |-> tokens]
Token(option, form, path) == [option |-> option, form |-> form, path |-> path]

BareOption == Token("-o", "bare", <<"in">>)
AfterBare  == {BareOption, Token("-o", "addopts", <<"in">>),
               Token("none", "addopts", <<"in">>), Token("none", "plain", <<"in">>)}

SomeRequests ==
    {FileRequest(p) : p \in {<<"in">>, <<"ss">>, <<"SS">>, <<"sz">>, <<"in", "ss">>,
                             <<"in", "SS">>, <<"SS", "in">>}}
    \cup {CommandRequest(<<>>, <<Token("none", "plain", p)>>) :
            p \in {<<"SS">>, <<"in", "sz">>, <<"sz">>}}
    \cup {CommandRequest(<<"in">>, <<BareOption, t>>) : t \in AfterBare}
    \cup {[FileRequest(<<"in">>) EXCEPT !.form = f] :
            f \in {"nul", "absolute", "dotdot", "overlong"}}
    \cup {[FileRequest(<<"in">>) EXCEPT !.standing = "tool not allowed"],
          [CommandRequest(<<>>, <<>>) EXCEPT !.metacharacter = TRUE],
          [CommandRequest(<<>>, <<>>) EXCEPT !.prefixListed = FALSE],
          CommandRequest(<<>>, <<Token("unlisted", "plain", <<"in">>)>>)}

\* A token, a longer one it can be a damaged copy of, and one of its own.
SomeTokens     == {"site", "site/collect", "then"}
SomeDamage     == {<<"site", "site/collect">>}
SomeLetters(t) == CASE t = "site" -> 2 [] t = "site/collect" -> 4 [] OTHER -> 1

=============================================================================
