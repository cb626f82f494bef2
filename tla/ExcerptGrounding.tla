--------------------------- MODULE ExcerptGrounding ---------------------------
(***************************************************************************)
(* Grounding of the auditor's excerpts in the trace (reasoning_audit.py):  *)
(* a verbatim excerpt is kept, a damaged copy is replaced by the span of   *)
(* the trace it was copied from, and anything else is refused.             *)
(*                                                                         *)
(* Texts are sequences of tokens.                                          *)
(***************************************************************************)
EXTENDS Integers, Sequences, FiniteSetsExt

CONSTANTS
    Tokens,
    Damage,        \* pairs <<x, y>>: x is y with characters left out or folded
    Letters(_),    \* length of a token
    MaxTrace,      \* bound: tokens of the trace
    MaxExcerpt     \* bound: tokens of an excerpt

ASSUME GroundingAssumption ==
    /\ \A x \in Tokens : Letters(x) \in Nat
    /\ Damage \subseteq Tokens \X Tokens
    /\ {MaxTrace, MaxExcerpt} \subseteq Nat

MinRelaxed == 3
MaxSkips   == 4
Expansion  == 2

VARIABLES trace, excerpt, span  \* span: the tokens of the trace that are recorded

groundingVars == <<trace, excerpt, span>>

NoSpan   == <<0, 0>>
Unsought == <<-1, -1>>

-----------------------------------------------------------------------------
\* A token of the excerpt can stand for a token of the trace.
Matches(x, y) == x = y \/ <<x, y>> \in Damage

\* What the first n tokens of a text add up to, for every n; and all of them.
Totals(s) ==
    LET total[n \in 0 .. Len(s)] == IF n = 0 THEN 0 ELSE total[n - 1] + Letters(s[n])
    IN  total
Compact(s) == Totals(s)[Len(s)]

SkipBudget(e) == IF Len(e) - 1 < MaxSkips THEN Len(e) - 1 ELSE MaxSkips

\* The next token of the trace that matches x, 0 if there is none.
NextPlace(x, t, after) ==
    LET js == {j \in after + 1 .. Len(t) : Matches(x, t[j])}
    IN  IF after = 0 \/ js = {} THEN 0 ELSE Min(js)

\* Where the excerpt's tokens are found when its first one is at `start`.
Places(e, t, start) ==
    LET place[i \in 1 .. Len(e)] ==
            IF i = 1 THEN start ELSE NextPlace(e[i], t, place[i - 1])
    IN  place

\* Tokens of the trace between the first and the last that match nothing.
Skips(e, start, last) == last - start + 1 - Len(e)

\* Mutant: any number of tokens may lie between.
SpansUnbounded(e, t) ==
    {s \in (1 .. Len(t)) \X (1 .. Len(t)) :
        Matches(e[1], t[s[1]]) /\ Places(e, t, s[1])[Len(e)] = s[2]}

\* The alignments within the budget.
Spans(e, t) ==
    {s \in (1 .. Len(t)) \X (1 .. Len(t)) :
        /\ Matches(e[1], t[s[1]])
        /\ Places(e, t, s[1])[Len(e)] = s[2]
        /\ Skips(e, s[1], s[2]) <= SkipBudget(e)}

\* The first of those that skip least.
Best(e, t) ==
    CHOOSE s \in Spans(e, t) : \A u \in Spans(e, t) :
        \/ Skips(e, s[1], s[2]) < Skips(e, u[1], u[2])
        \/ Skips(e, s[1], s[2]) = Skips(e, u[1], u[2]) /\ s[1] <= u[1]

\* _repair_excerpt_from_trace.
Repaired(e, t) ==
    IF Len(e) < MinRelaxed \/ Spans(e, t) = {} THEN NoSpan
    ELSE LET s == Best(e, t)
         IN  IF Compact(SubSeq(t, s[1], s[2])) > Compact(e) * Expansion THEN NoSpan ELSE s

Verbatim(e, t) == {i \in 1 .. Len(t) : i + Len(e) - 1 <= Len(t)
                                       /\ SubSeq(t, i, i + Len(e) - 1) = e}

\* resolve_grounded_excerpts, for one excerpt: a blank one is refused.
Resolved(e, t) ==
    IF e = << >> THEN NoSpan
    ELSE IF Verbatim(e, t) # {}
         THEN <<Min(Verbatim(e, t)), Min(Verbatim(e, t)) + Len(e) - 1>>
         ELSE Repaired(e, t)

GroundingInit ==
    /\ trace \in UNION {[1 .. n -> Tokens] : n \in 0 .. MaxTrace}
    /\ excerpt \in UNION {[1 .. n -> Tokens] : n \in 0 .. MaxExcerpt}
    /\ span = Unsought

Ground ==
    /\ span = Unsought
    /\ span' = Resolved(excerpt, trace)
    /\ UNCHANGED <<trace, excerpt>>

GroundingNext == Ground
GroundingSpec == GroundingInit /\ [][GroundingNext]_groundingVars

-----------------------------------------------------------------------------
(* Properties. *)

\* Ways to read the excerpt off the trace between i and j, in order.
Readings(i, j) ==
    {f \in [1 .. Len(excerpt) -> i .. j] :
        /\ \A k \in 1 .. Len(excerpt) : Matches(excerpt[k], trace[f[k]])
        /\ \A k \in 1 .. Len(excerpt) - 1 : f[k] < f[k + 1]}

\* A recorded span really backs the excerpt: the excerpt can be read off it,
\* and it holds little else, neither in tokens nor in characters.  A short
\* excerpt must be verbatim.
RecordedSpanBacksExcerpt ==
    span \notin {NoSpan, Unsought} =>
        /\ Readings(span[1], span[2]) # {}
        /\ span[2] - span[1] + 1 - Len(excerpt) <= MaxSkips
        /\ span[2] - span[1] + 1 < 2 * Len(excerpt)
        /\ Compact(SubSeq(trace, span[1], span[2])) <= Expansion * Compact(excerpt)
        /\ Len(excerpt) < MinRelaxed => SubSeq(trace, span[1], span[2]) = excerpt

\* A copy with nothing but characters left out, never more than half, is
\* not refused, and no token that it does not stand for is shown with it.
DamagedCopyIsFound ==
    LET n == Len(excerpt)
        copied == {i \in 1 .. Len(trace) - n + 1 :
                     \A k \in 1 .. n : Matches(excerpt[k], trace[i + k - 1])}
    IN  /\ span # Unsought /\ n >= MinRelaxed /\ copied # {}
        /\ \A d \in Damage : Letters(d[2]) <= Expansion * Letters(d[1])
        => span # NoSpan /\ span[2] - span[1] + 1 = n

\* Nothing else is recorded as evidence, and an honest copy is not lost.
GroundingIsExact == RecordedSpanBacksExcerpt /\ DamagedCopyIsFound

=============================================================================
