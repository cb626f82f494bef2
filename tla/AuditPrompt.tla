------------------------------ MODULE AuditPrompt ------------------------------
(***************************************************************************)
(* The prompt of a reasoning audit (reasoning_audit.py): how the agent's   *)
(* trace is made unable to open or close the regions of the prompt, and    *)
(* when it is too long to be audited.                                      *)
(*                                                                         *)
(* A text is a sequence of symbols: what the boundary patterns look at,    *)
(* the placeholder they put in its place, and the entities of an escaped   *)
(* value.                                                                  *)
(***************************************************************************)
EXTENDS Integers, Sequences, SequencesExt, FiniteSets

CONSTANTS
    MaxLength,  \* bound: length of the agent's text
    Limit       \* max_trace_chars

ASSUME PromptAssumption == {MaxLength, Limit} \subseteq Nat

VARIABLES
    phase,     \* of audit_turn: arrived, escaped, prompted or refused
    received,  \* the agent's text
    value,     \* an agent-controlled value: the resource of an action
    shown,     \* what the excerpts are later compared with
    prompt

promptVars == <<phase, received, value, shown, prompt>>

\* "name" is a boundary tag's name, "x" any character that can extend a name.
Symbols == {"lt", "slash", "space", "name", "x", "gt"}
Width(c) == IF c = "placeholder" THEN 4 ELSE 1
Size(s)  == FoldLeft(LAMBDA n, c : n + Width(c), 0, s)

-----------------------------------------------------------------------------
(* The boundary patterns: each gives the end of a match that begins at i,  *)
(* or 0.                                                                   *)

\* The first position from i on that does not hold one of cs.
After(s, i, cs) ==
    LET stops == {j \in i .. Len(s) : s[j] \notin cs}
    IN  IF stops = {} THEN Len(s) + 1 ELSE CHOOSE j \in stops : \A k \in stops : j <= k

Has(s, i, c) == i <= Len(s) /\ s[i] = c

\* A name must not go on with a character of a name.
NameEnds(s, i) == Has(s, i, "name") /\ ~Has(s, i + 1, "x") /\ ~Has(s, i + 1, "name")

\* [^<>]*>
TagEnd(s, i) ==
    LET j == After(s, i, (Symbols \cup {"placeholder"}) \ {"lt", "gt"})
    IN  IF Has(s, j, "gt") THEN j ELSE 0

NameAt(s, i) ==
    LET j == After(s, i + 1, {"space"}) IN IF Has(s, i, "lt") THEN j ELSE 0
ClosingNameAt(s, i) ==
    LET j == NameAt(s, i)
    IN  IF j > 0 /\ Has(s, j, "slash") THEN After(s, j + 1, {"space"}) ELSE 0

ClosingTag(s, i) ==
    LET j == ClosingNameAt(s, i)
    IN  IF j > 0 /\ NameEnds(s, j) THEN TagEnd(s, j + 1) ELSE 0
OpeningTag(s, i) ==
    LET j == NameAt(s, i)
    IN  IF j > 0 /\ NameEnds(s, j) THEN TagEnd(s, j + 1) ELSE 0

DanglingTag(s, i) ==
    LET j == NameAt(s, i)
        k == ClosingNameAt(s, i)
    IN  IF j > 0 /\ NameEnds(s, j) THEN j
        ELSE IF k > 0 /\ NameEnds(s, k) THEN k ELSE 0

-----------------------------------------------------------------------------
(* escape_untrusted_trace: three passes over the text. *)

\* re.sub, from left to right: ends has the end of the match at each position,
\* 0 if there is none, and kept what is left of it.
Substituted(s, ends, kept) ==
    LET from[i \in 1 .. Len(s) + 1] ==
            IF i = Len(s) + 1 THEN << >>
            ELSE IF ends[i] > 0
                 THEN <<"placeholder">> \o kept[i] \o from[ends[i] + 1]
                 ELSE <<s[i]>> \o from[i + 1]
    IN  from[1]

NothingKept(s) == [i \in 1 .. Len(s) |-> << >>]

\* A closing tag loses its attributes; an opening one keeps them, but for
\* spaces and a slash at their end.
EscapedClosing(s) ==
    Substituted(s, [i \in 1 .. Len(s) |-> ClosingTag(s, i)], NothingKept(s))
EscapedOpening(s) ==
    Substituted(s, [i \in 1 .. Len(s) |-> OpeningTag(s, i)],
                [i \in 1 .. Len(s) |->
                    SubSeq(s, After(s, i + 1, {"space"}) + 1, OpeningTag(s, i) - 1)])
\* Mutant: a tag that is never closed is left as it is.
EscapedClosedOnly(s) == s

EscapedDangling(s) ==
    Substituted(s, [i \in 1 .. Len(s) |-> DanglingTag(s, i)], NothingKept(s))

Escaped(s) == EscapedDangling(EscapedOpening(EscapedClosing(s)))

\* _xml_text, _xml_attr: the angle brackets of a value become entities.
XmlText(s) == [i \in 1 .. Len(s) |-> IF s[i] \in {"lt", "gt"} THEN "entity" ELSE s[i]]

-----------------------------------------------------------------------------
(* audit_turn up to the prompt. *)

Texts == UNION {[1 .. n -> Symbols] : n \in 0 .. MaxLength}

PromptInit ==
    /\ phase = "arrived"
    /\ received \in Texts
    /\ value \in {received, << >>}
    /\ shown = << >> /\ prompt = << >>

Escape ==
    /\ phase = "arrived"
    /\ shown' = Escaped(received)
    /\ phase' = "escaped"
    /\ UNCHANGED <<received, value, prompt>>

\* Mutant: only the text as it was received is measured.
TooLongAsReceived == Size(received) > Limit

\* Escaping can lengthen a text, so both are measured.
TooLong == Size(received) > Limit \/ Size(shown) > Limit

Refuse ==
    /\ phase = "escaped" /\ TooLong
    /\ phase' = "refused"
    /\ UNCHANGED <<received, value, shown, prompt>>

Region(body) ==
    <<"lt", "name", "gt">> \o body \o <<"lt", "slash", "name", "gt">>

\* build_turn_audit_messages measures and escapes what it is given again; it
\* runs outside audit_turn's handler of exceptions.
Build ==
    /\ phase = "escaped" /\ ~TooLong
    /\ IF Size(shown) > Limit \/ Size(Escaped(shown)) > Limit
       THEN phase' = "raised" /\ UNCHANGED prompt
       ELSE phase' = "prompted" /\ prompt' = Region(XmlText(value)) \o Region(Escaped(shown))
    /\ UNCHANGED <<received, value, shown>>

PromptNext == Escape \/ Refuse \/ Build
PromptSpec == PromptInit /\ [][PromptNext]_promptVars

-----------------------------------------------------------------------------
(* Properties. *)

\* Whatever the agent's text and values hold, the prompt has the boundaries
\* the gateway put there and no other: two regions, opened and closed once.
OnlyOwnBoundaries ==
    phase = "prompted" =>
        {i \in 1 .. Len(prompt) : DanglingTag(prompt, i) > 0} =
            {1, Len(XmlText(value)) + 4, Len(XmlText(value)) + 8, Len(prompt) - 3}

\* Excerpts are compared with the very text the auditor was shown, although
\* the prompt escapes it once more, and building it never raises: a text that
\* escaping made too long was refused before.
ShownIsWhatIsChecked ==
    /\ phase = "prompted" =>
          SubSeq(prompt, Len(prompt) - 3 - Len(shown), Len(prompt) - 4) = shown
    /\ phase # "raised"

\* What the auditor is shown: the gateway's own boundaries around the very text
\* its excerpts are checked against.
PromptIsSound == OnlyOwnBoundaries /\ ShownIsWhatIsChecked

=============================================================================
