------------------------ MODULE EvidenceHistory_proofs ------------------------
(***************************************************************************)
(* The one-pass verifier decides the rules of the evidence log, for chains *)
(* of any length, and the rules keep executions single and authorised.     *)
(***************************************************************************)
EXTENDS EvidenceHistory, EvidenceChain_proofs, FiniteSetTheorems

-----------------------------------------------------------------------------
(* What one more record adds to what a chain says. *)

LEMMA MentionsMore ==
    ASSUME NEW s \in Seq(ChainRecord), NEW rec \in ChainRecord
    PROVE  /\ s \o <<rec>> \in Seq(ChainRecord)
           /\ Len(s \o <<rec>>) = Len(s) + 1
           /\ (s \o <<rec>>)[Len(s) + 1] = rec
           /\ \A i \in 1 .. Len(s) : (s \o <<rec>>)[i] = s[i]
           /\ \A a, types : Mentions(s \o <<rec>>, a, types) <=>
                  Mentions(s, a, types) \/ (rec.action = a /\ rec.type \in types)
<1> DEFINE t == s \o <<rec>>
<1>1. /\ t \in Seq(ChainRecord) /\ Len(s) \in Nat /\ Len(t) = Len(s) + 1
      /\ t[Len(s) + 1] = rec
      /\ \A i \in 1 .. Len(s) : t[i] = s[i]
      /\ DOMAIN s = 1 .. Len(s)
      /\ DOMAIN t = 1 .. Len(s) + 1
  OBVIOUS
<1> HIDE DEF t
<1>2. \A i : i \in 1 .. Len(s) + 1 <=> i \in 1 .. Len(s) \/ i = Len(s) + 1
  BY <1>1
<1>3. ASSUME NEW a, NEW types
      PROVE  Mentions(t, a, types) <=>
               Mentions(s, a, types) \/ (rec.action = a /\ rec.type \in types)
  <2>1. Mentions(t, a, types) <=>
          \E i \in 1 .. Len(s) + 1 : t[i].action = a /\ t[i].type \in types
    BY <1>1 DEF Mentions
  <2>2. Mentions(s, a, types) <=>
          \E i \in 1 .. Len(s) : t[i].action = a /\ t[i].type \in types
    BY <1>1 DEF Mentions
  <2> QED BY <1>1, <1>2, <2>1, <2>2
<1> QED BY <1>1, <1>3 DEF t

\* A chain mentions one of several types when it mentions one of them.
LEMMA MentionsSome ==
    ASSUME NEW s, NEW a
    PROVE  /\ Mentions(s, a, DecisionEvents) <=>
                \E type \in DecisionEvents : Mentions(s, a, {type})
           /\ Mentions(s, a, {"APPROVAL_GRANTED"} \cup ApprovalClosedEvents) <=>
                Mentions(s, a, {"APPROVAL_GRANTED"}) \/ Mentions(s, a, ApprovalClosedEvents)
BY DEF Mentions

-----------------------------------------------------------------------------
(* What the verifier remembers is what the chain says. *)

\* Lifecycle s holds what the chain says of action a.
Tells(records, s, a) ==
    /\ s.decision \in DecisionEvents \cup {"NONE"}
    /\ \A type \in DecisionEvents : s.decision = type <=> Mentions(records, a, {type})
    /\ s.requested <=> Mentions(records, a, {"APPROVAL_REQUESTED"})
    /\ s.approval \in {"NONE", "GRANTED", "CLOSED"}
    /\ s.approval = "GRANTED" <=> Mentions(records, a, {"APPROVAL_GRANTED"})
    /\ s.approval = "NONE" <=>
         ~Mentions(records, a, {"APPROVAL_GRANTED"} \cup ApprovalClosedEvents)
    /\ s.started <=> Mentions(records, a, {"EXECUTION_STARTED"})
    /\ s.terminal <=> Mentions(records, a, TerminalExecutionEvents)

\* A record the lifecycle allows is remembered.
LEMMA TellsMore ==
    ASSUME NEW records \in Seq(ChainRecord), NEW rec \in ChainRecord, NEW s,
           NEW a, Tells(records, s, a)
    PROVE  /\ rec.action # a => Tells(records \o <<rec>>, s, a)
           /\ rec.action = a /\ LifecycleAllows(rec.type, s) =>
                Tells(records \o <<rec>>, LifecycleAfter(rec.type, s), a)
<1> DEFINE longer == records \o <<rec>>
<1>1. \A types : Mentions(longer, a, types) <=>
         Mentions(records, a, types) \/ (rec.action = a /\ rec.type \in types)
  BY MentionsMore
<1> HIDE DEF longer
<1>2. ASSUME rec.action # a
      PROVE  Tells(longer, s, a)
  <2>1. \A types : Mentions(longer, a, types) <=> Mentions(records, a, types)
    BY <1>1, <1>2
  <2> QED BY <2>1 DEF Tells
<1>3. ASSUME rec.action = a, LifecycleAllows(rec.type, s)
      PROVE  Tells(longer, LifecycleAfter(rec.type, s), a)
  <2> PICK type : type = rec.type OBVIOUS
  <2> DEFINE u == LifecycleAfter(type, s)
  <2>1. \A types : Mentions(longer, a, types) <=> Mentions(records, a, types) \/ type \in types
    BY <1>1, <1>3
  <2>2. type \in DecisionEvents => s.decision = "NONE"
    BY <1>3 DEF LifecycleAllows
  <2>3. type = "APPROVAL_GRANTED" => s.approval = "NONE"
    BY <1>3 DEF LifecycleAllows
  <2>4. type \in ApprovalClosedEvents => s.approval # "GRANTED"
    BY <1>3 DEF LifecycleAllows
  <2>5. /\ u.decision = IF type \in DecisionEvents THEN type ELSE s.decision
        /\ u.requested <=> s.requested \/ type = "APPROVAL_REQUESTED"
        /\ u.started <=> s.started \/ type = "EXECUTION_STARTED"
        /\ u.terminal <=> s.terminal \/ type \in TerminalExecutionEvents
    BY DEF LifecycleAfter
  <2>6. /\ type = "APPROVAL_GRANTED" => u.approval = "GRANTED"
        /\ type \in ApprovalClosedEvents /\ s.approval = "NONE" => u.approval = "CLOSED"
        /\ type # "APPROVAL_GRANTED" /\ ~ (type \in ApprovalClosedEvents /\ s.approval = "NONE")
             => u.approval = s.approval
    BY DEF LifecycleAfter, ApprovalClosedEvents
  <2> HIDE DEF u
  <2>7. /\ u.decision \in DecisionEvents \cup {"NONE"}
        /\ \A d \in DecisionEvents : u.decision = d <=> Mentions(longer, a, {d})
    BY <2>1, <2>2, <2>5 DEF Tells, DecisionEvents
  <2>8. u.requested <=> Mentions(longer, a, {"APPROVAL_REQUESTED"})
    BY <2>1, <2>5 DEF Tells
  <2>9. /\ u.started <=> Mentions(longer, a, {"EXECUTION_STARTED"})
        /\ u.terminal <=> Mentions(longer, a, TerminalExecutionEvents)
    BY <2>1, <2>5 DEF Tells
  <2>10. /\ u.approval \in {"NONE", "GRANTED", "CLOSED"}
         /\ u.approval = "GRANTED" <=> Mentions(longer, a, {"APPROVAL_GRANTED"})
         /\ u.approval = "NONE" <=>
              ~Mentions(longer, a, {"APPROVAL_GRANTED"} \cup ApprovalClosedEvents)
    BY <2>1, <2>3, <2>4, <2>6 DEF Tells, ApprovalClosedEvents
  <2>11. Tells(longer, u, a)
    BY <2>7, <2>8, <2>9, <2>10 DEF Tells
  <2> QED BY <2>11 DEF u
<1> QED BY <1>2, <1>3 DEF longer

-----------------------------------------------------------------------------
(* The rules, read of the record that comes next. *)

ClosedIn(records) == \E i \in DOMAIN records : records[i].type \in RunTerminalEvents

OpenIn(records, a) ==
    /\ a # NoAction
    /\ Mentions(records, a, {"POLICY_HELD"})
    /\ Mentions(records, a, {"APPROVAL_REQUESTED"})
    /\ ~Mentions(records, a, {"APPROVAL_GRANTED"} \cup ApprovalClosedEvents)

AuthorisedIn(records, a) ==
    \/ Mentions(records, a, {"POLICY_ALLOWED"})
    \/ Mentions(records, a, {"POLICY_HELD"}) /\ Mentions(records, a, {"APPROVAL_GRANTED"})

LegalNext(records, type, a) ==
    /\ type \in ExecutionEvents =>
         a # NoAction /\ AuthorisedIn(records, a) /\ ~Mentions(records, a, TerminalExecutionEvents)
    /\ type = "EXECUTION_STARTED" => ~Mentions(records, a, {type})
    /\ type = "APPROVAL_GRANTED" => OpenIn(records, a)
    /\ a # NoAction /\ type \in DecisionEvents => ~Mentions(records, a, DecisionEvents)
    /\ a # NoAction /\ type \in ApprovalClosedEvents => ~Mentions(records, a, {"APPROVAL_GRANTED"})
    /\ type \in RetentionEvents => a = NoAction /\ ClosedIn(records)
    /\ ClosedIn(records) =>
         \/ type \in RunTerminalEvents \cup RetentionEvents
         \/ type = "APPROVAL_EXPIRED" /\ OpenIn(records, a)

\* One more record changes nothing about the records before it, and is itself
\* judged by what they say.
LEMMA RulesOfMore ==
    ASSUME chain \in Seq(ChainRecord), NEW rec \in ChainRecord, chain' = chain \o <<rec>>
    PROVE  /\ \A n \in 1 .. Len(chain) : LegalAt(n)' <=> LegalAt(n)
           /\ \A n : n = Len(chain) + 1 =>
                (LegalAt(n)' <=> LegalNext(chain, rec.type, rec.action))
<1>1. /\ Len(chain) \in Nat /\ DOMAIN chain = 1 .. Len(chain)
      /\ chain'[Len(chain) + 1] = rec
      /\ \A i \in 1 .. Len(chain) : chain'[i] = chain[i]
  BY MentionsMore
<1>2. \A n \in 1 .. Len(chain) + 1 : \A i \in 1 .. n - 1 : i \in 1 .. Len(chain)
  BY <1>1
<1>3. \A n \in 1 .. Len(chain) + 1 : \A a, types : Before(n, a, types)' <=> Before(n, a, types)
  BY <1>1, <1>2 DEF Before
<1>4. \A n \in 1 .. Len(chain) + 1 : ClosedBefore(n)' <=> ClosedBefore(n)
  BY <1>1, <1>2 DEF ClosedBefore
<1>5. \A n \in 1 .. Len(chain) + 1 : \A a : /\ Authorised(n, a)' <=> Authorised(n, a)
                                            /\ Open(n, a)' <=> Open(n, a)
  BY <1>3 DEF Authorised, Open
<1>6. ASSUME NEW n \in 1 .. Len(chain)
      PROVE  LegalAt(n)' <=> LegalAt(n)
  <2>1. n \in 1 .. Len(chain) + 1 /\ chain'[n] = chain[n]
    BY <1>1
  <2> QED BY <1>3, <1>4, <1>5, <2>1 DEF LegalAt
<1> PICK n : n = Len(chain) + 1 OBVIOUS
<1>7. n \in 1 .. Len(chain) + 1 /\ n - 1 = Len(chain)
  BY <1>1
<1>8. /\ \A a, types : Before(n, a, types) <=> Mentions(chain, a, types)
      /\ ClosedBefore(n) <=> ClosedIn(chain)
  BY <1>1, <1>7 DEF Before, ClosedBefore, Mentions, ClosedIn
<1>9. \A a : (Authorised(n, a) <=> AuthorisedIn(chain, a)) /\ (Open(n, a) <=> OpenIn(chain, a))
  BY <1>8 DEF Authorised, AuthorisedIn, Open, OpenIn
<1>10. chain'[n] = rec BY <1>1
<1>11. /\ \A a, types : Before(n, a, types)' <=> Mentions(chain, a, types)
       /\ ClosedBefore(n)' <=> ClosedIn(chain)
       /\ \A a : (Authorised(n, a)' <=> AuthorisedIn(chain, a)) /\ (Open(n, a)' <=> OpenIn(chain, a))
  BY <1>3, <1>4, <1>5, <1>7, <1>8, <1>9
<1>12. LegalAt(n)' <=> LegalNext(chain, rec.type, rec.action)
  BY <1>10, <1>11 DEF LegalAt, LegalNext
<1> QED BY <1>6, <1>12

\* A close stays remembered.
LEMMA VerifierCloses ==
    ASSUME NEW st, NEW rec
    PROVE  VerifierStep(st, rec).closed <=> st.closed \/ rec.type \in RunTerminalEvents
BY DEF VerifierStep

\* A verifier that remembers what the chain says judges the next record by
\* the rules.
LEMMA VerifierJudges ==
    ASSUME NEW records \in Seq(ChainRecord), NEW rec \in ChainRecord, NEW st,
           st.closed <=> ClosedIn(records),
           \A a \in Actions : Tells(records, st.actions[a], a)
    PROVE  RunAllows(rec, st.closed, st.actions) /\ ActionAllows(rec, st.actions)
             <=> LegalNext(records, rec.type, rec.action)
<1> PICK type, a : type = rec.type /\ a = rec.action OBVIOUS
<1> DEFINE says(types) == Mentions(records, a, types)
           s == st.actions[a]
<1>1. type \in KnownEvents /\ a \in Actions \cup {NoAction}
  BY DEF ChainRecord
<1>2. CASE a = NoAction
  BY <1>2 DEF RunAllows, ActionAllows, PendingExpiry, LegalNext, OpenIn, DecisionEvents,
              ExecutionEvents, RetentionEvents, RunTerminalEvents
<1>3. CASE a # NoAction
  <2>1. a \in Actions /\ Tells(records, s, a)
    BY <1>1, <1>3
  <2>2. /\ s.decision = "NONE" <=> ~says(DecisionEvents)
        /\ s.decision = "POLICY_ALLOWED" <=> says({"POLICY_ALLOWED"})
        /\ s.decision = "POLICY_HELD" <=> says({"POLICY_HELD"})
    BY <2>1, MentionsSome DEF Tells, DecisionEvents
  <2>3. /\ s.requested <=> says({"APPROVAL_REQUESTED"})
        /\ s.approval = "GRANTED" <=> says({"APPROVAL_GRANTED"})
        /\ s.approval = "NONE" <=> ~says({"APPROVAL_GRANTED"} \cup ApprovalClosedEvents)
        /\ s.started <=> says({"EXECUTION_STARTED"})
        /\ s.terminal <=> says(TerminalExecutionEvents)
    BY <2>1 DEF Tells
  <2>4. /\ Authorises(s) <=> AuthorisedIn(records, a)
        /\ s.decision = "POLICY_HELD" /\ s.requested /\ s.approval = "NONE"
             <=> OpenIn(records, a)
    BY <1>3, <2>2, <2>3 DEF Authorises, AuthorisedIn, OpenIn
  <2>5. PendingExpiry(rec, st.actions) <=> type = "APPROVAL_EXPIRED" /\ OpenIn(records, a)
    BY <1>3, <2>4 DEF PendingExpiry
  <2>6. ActionAllows(rec, st.actions) <=> LifecycleAllows(type, s)
    BY <1>3 DEF ActionAllows
  <2> HIDE DEF s
  <2>7. LifecycleAllows(type, s) <=>
          /\ type \in DecisionEvents => ~says(DecisionEvents)
          /\ type = "APPROVAL_GRANTED" => OpenIn(records, a)
          /\ type \in ApprovalClosedEvents => ~says({"APPROVAL_GRANTED"})
          /\ type \in ExecutionEvents =>
               /\ AuthorisedIn(records, a) /\ ~says(TerminalExecutionEvents)
               /\ type = "EXECUTION_STARTED" => ~says({"EXECUTION_STARTED"})
    BY <2>2, <2>3, <2>4 DEF LifecycleAllows
  <2>8. RunAllows(rec, st.closed, st.actions) <=>
          /\ type \in RetentionEvents => ClosedIn(records) /\ a = NoAction
          /\ ClosedIn(records) => \/ type \in RunTerminalEvents
                                  \/ type = "APPROVAL_EXPIRED" /\ OpenIn(records, a)
                                  \/ type \in RetentionEvents
    BY <2>5 DEF RunAllows
  <2>9. "EXECUTION_STARTED" \in ExecutionEvents BY DEF ExecutionEvents
  <2> QED BY <1>3, <2>6, <2>7, <2>8, <2>9 DEF LegalNext
<1> QED BY <1>2, <1>3

-----------------------------------------------------------------------------
(* The verifier and the rules agree. *)

\* The strengthening that makes VerifierMatchesRules inductive: an accepting
\* verifier remembers what the chain says, of the run and of each action.
Faithful ==
    /\ chain \in Seq(ChainRecord)
    /\ VerifierMatchesRules
    /\ Verifies(chain) =>
         /\ Remembered(chain).closed <=> ClosedIn(chain)
         /\ \A a \in Actions : Tells(chain, Remembered(chain).actions[a], a)

LEMMA InitFaithful == Init => Faithful
<1> SUFFICES ASSUME chain = <<>> PROVE Faithful
  BY DEF Init
<1>1. chain \in Seq(ChainRecord) /\ DOMAIN chain = {}
  OBVIOUS
<1>2. \A a, types : ~Mentions(chain, a, types)
  BY <1>1 DEF Mentions
<1>3. /\ Remembered(chain).ok
      /\ ~Remembered(chain).closed
      /\ \A a \in Actions : Remembered(chain).actions[a] = NewLifecycle
  BY RememberedEmpty DEF VerifierStart
<1>4. \A a : Tells(chain, NewLifecycle, a)
  BY <1>2 DEF Tells, NewLifecycle, DecisionEvents
<1>5. ~ClosedIn(chain) BY <1>1 DEF ClosedIn
<1> QED BY <1>1, <1>3, <1>4, <1>5 DEF Faithful, VerifierMatchesRules, Verifies

LEMMA StepFaithful == Faithful /\ [Next]_chain => Faithful'
<1> SUFFICES ASSUME Faithful, [Next]_chain PROVE Faithful'
  OBVIOUS
<1>1. CASE UNCHANGED chain
  <2>1. \A n : LegalAt(n)' <=> LegalAt(n)
    BY <1>1 DEF LegalAt, Before, ClosedBefore, Authorised, Open
  <2> QED BY <1>1, <2>1 DEF Faithful, VerifierMatchesRules
<1>2. CASE Next
  <2>1. /\ chain \in Seq(ChainRecord) /\ Verifies(chain)
        /\ \A n \in DOMAIN chain : LegalAt(n)
        /\ Remembered(chain).closed <=> ClosedIn(chain)
        /\ \A a \in Actions : Tells(chain, Remembered(chain).actions[a], a)
    BY <1>2 DEF Next, Faithful, VerifierMatchesRules
  <2>2. PICK rec \in ChainRecord : chain' = chain \o <<rec>>
    <3>1. PICK type \in EventTypes, a \in Actions \cup {NoAction} :
            chain' = Append(chain, Event(type, a))
      BY <1>2 DEF Next
    <3>2. Event(type, a) \in ChainRecord
      BY HistoryAssumption DEF ChainRecord, Event
    <3>3. Append(chain, Event(type, a)) = chain \o <<Event(type, a)>>
      BY <2>1, <3>2, AppendIsConcat
    <3> QED BY <3>1, <3>2, <3>3
  <2> DEFINE st == Remembered(chain)
  <2>3. /\ chain' \in Seq(ChainRecord)
        /\ Len(chain') = Len(chain) + 1 /\ Len(chain) \in Nat
        /\ DOMAIN chain' = 1 .. Len(chain) + 1 /\ DOMAIN chain = 1 .. Len(chain)
        /\ chain'[Len(chain) + 1] = rec
        /\ \A i \in 1 .. Len(chain) : chain'[i] = chain[i]
    BY <2>1, <2>2, MentionsMore
  <2>4. Remembered(chain') = VerifierStep(st, rec)
    BY <2>1, <2>2, RememberedRecord
  <2>5. rec.type \in KnownEvents /\ st.ok
    BY <2>1 DEF ChainRecord, Verifies
  <2>6. RunAllows(rec, st.closed, st.actions) /\ ActionAllows(rec, st.actions)
          <=> LegalNext(chain, rec.type, rec.action)
    BY <2>1, VerifierJudges
  <2> HIDE DEF st
  <2>7. Verifies(chain') <=>
          RunAllows(rec, st.closed, st.actions) /\ ActionAllows(rec, st.actions)
    BY <2>4, <2>5 DEF Verifies, VerifierStep
  <2>8. VerifierMatchesRules'
    <3>1. (\A n \in DOMAIN chain' : LegalAt(n)') <=>
            LegalNext(chain, rec.type, rec.action)
      <4>1. /\ \A n \in 1 .. Len(chain) : LegalAt(n)' <=> LegalAt(n)
            /\ \A n : n = Len(chain) + 1 =>
                 (LegalAt(n)' <=> LegalNext(chain, rec.type, rec.action))
        BY <2>1, <2>2, RulesOfMore
      <4>2. \A n : n \in 1 .. Len(chain) + 1 <=> n \in 1 .. Len(chain) \/ n = Len(chain) + 1
        BY <2>3
      <4> QED BY <2>1, <2>3, <4>1, <4>2
    <3> QED BY <2>6, <2>7, <3>1 DEF VerifierMatchesRules
  <2>9. ASSUME Verifies(chain')
        PROVE  /\ Remembered(chain').closed <=> ClosedIn(chain')
               /\ \A a \in Actions : Tells(chain', Remembered(chain').actions[a], a)
    <3>1. Remembered(chain').closed <=> st.closed \/ rec.type \in RunTerminalEvents
      BY <2>4, VerifierCloses
    <3>2. ClosedIn(chain') <=> ClosedIn(chain) \/ rec.type \in RunTerminalEvents
      <4>1. \A n : n \in 1 .. Len(chain) + 1 <=> n \in 1 .. Len(chain) \/ n = Len(chain) + 1
        BY <2>3
      <4> QED BY <2>3, <4>1 DEF ClosedIn
    <3>3. ASSUME NEW a \in Actions
          PROVE  Tells(chain', Remembered(chain').actions[a], a)
      <4>1. Remembered(chain').actions[a] =
              IF a = rec.action THEN LifecycleAfter(rec.type, st.actions[a]) ELSE st.actions[a]
        BY <2>4 DEF VerifierStep
      <4>2. Tells(chain, st.actions[a], a)
        BY <2>1 DEF st
      <4>3. CASE rec.action # a
        <5>1. Tells(chain \o <<rec>>, st.actions[a], a)
          BY <2>1, <4>2, <4>3, TellsMore
        <5> QED BY <2>2, <4>1, <4>3, <5>1
      <4>4. CASE rec.action = a
        <5>1. LifecycleAllows(rec.type, st.actions[a])
          BY <2>7, <2>9, <4>4, HistoryAssumption DEF ActionAllows
        <5>2. Tells(chain \o <<rec>>, LifecycleAfter(rec.type, st.actions[a]), a)
          BY <2>1, <4>2, <4>4, <5>1, TellsMore
        <5> QED BY <2>2, <4>1, <4>4, <5>2
      <4> QED BY <4>3, <4>4
    <3> QED BY <2>1, <3>1, <3>2, <3>3 DEF st
  <2> QED BY <2>3, <2>8, <2>9 DEF Faithful
<1> QED BY <1>1, <1>2

THEOREM VerifierIsFaithful == Spec => []Faithful
<1>1. Init => Faithful BY InitFaithful
<1>2. Faithful /\ [Next]_chain => Faithful' BY StepFaithful
<1> QED BY <1>1, <1>2, PTL DEF Spec

\* The verifier accepts exactly the histories that keep every rule.
THEOREM VerifierDecidesRules == Spec => []VerifierMatchesRules
<1>1. Faithful => VerifierMatchesRules BY DEF Faithful
<1> QED BY <1>1, VerifierIsFaithful, PTL

-----------------------------------------------------------------------------
(* What the rules forbid. *)

\* Elements that are all equal are one at most.
LEMMA AtMostOne ==
    ASSUME NEW S, \A x, y \in S : x = y
    PROVE  Cardinality(S) <= 1
<1>1. CASE S = {}
  <2>1. Cardinality(S) = 0 BY <1>1, FS_EmptySet
  <2> QED BY <2>1
<1>2. CASE S # {}
  <2>1. PICK x : x \in S BY <1>2
  <2>2. S = {x} BY <2>1
  <2>3. Cardinality({x}) = 1 BY FS_Singleton
  <2> QED BY <2>2, <2>3
<1> QED BY <1>1, <1>2

\* A record that says the same as an earlier one would break the rule that
\* its type has to be the first.
LEMMA RulesAreSafe ==
    ASSUME chain \in Seq(ChainRecord), \A n \in DOMAIN chain : LegalAt(n),
           NEW a \in Actions
    PROVE  LET named(types) == {n \in DOMAIN chain :
                                  chain[n].action = a /\ chain[n].type \in types}
           IN  /\ \A types \in {{"EXECUTION_STARTED"}, {"APPROVAL_GRANTED"}, TerminalExecutionEvents} :
                    Cardinality(named(types)) <= 1
               /\ \A n \in named(ExecutionEvents) : ~ClosedBefore(n)
               /\ Mentions(chain, a, ExecutionEvents) => ~Mentions(chain, a, {"POLICY_DENIED"})
               /\ Mentions(chain, a, ExecutionEvents) /\ Mentions(chain, a, {"POLICY_HELD"}) =>
                    ~Mentions(chain, a, ApprovalClosedEvents)
<1> DEFINE named(types) == {n \in DOMAIN chain :
                              chain[n].action = a /\ chain[n].type \in types}
<1>1. DOMAIN chain \subseteq Nat /\ \A n \in DOMAIN chain : \A i \in DOMAIN chain :
        i < n => i \in 1 .. n - 1
  OBVIOUS
<1>2. a # NoAction
  BY HistoryAssumption
<1>3. ASSUME NEW n \in DOMAIN chain, NEW i \in DOMAIN chain, i < n, NEW types,
             chain[i].action = a, chain[i].type \in types
      PROVE  Before(n, a, types)
  BY <1>1, <1>3 DEF Before
<1>4. \A m, n \in DOMAIN chain : m < n \/ n < m \/ m = n
  BY <1>1
<1>5. ASSUME NEW types \in {{"EXECUTION_STARTED"}, {"APPROVAL_GRANTED"}, TerminalExecutionEvents,
                            DecisionEvents},
             NEW i \in named(types), NEW n \in named(types)
      PROVE  i = n
  <2>1. \A x, y \in named(types) : ~ (x < y)
    <3> SUFFICES ASSUME NEW x \in named(types), NEW y \in named(types), x < y
                 PROVE  FALSE
      OBVIOUS
    <3>1. LegalAt(y) /\ Before(y, a, types) BY <1>3
    <3>2. CASE types = {"EXECUTION_STARTED"}
      BY <3>1, <3>2 DEF LegalAt
    <3>3. CASE types = {"APPROVAL_GRANTED"}
      BY <3>1, <3>3 DEF LegalAt, Open, Before
    <3>4. CASE types = TerminalExecutionEvents
      BY <3>1, <3>4 DEF LegalAt, ExecutionEvents
    <3>5. CASE types = DecisionEvents
      BY <1>2, <3>1, <3>5 DEF LegalAt
    <3> QED BY <3>2, <3>3, <3>4, <3>5
  <2> QED BY <1>4, <2>1
<1>6. ASSUME NEW types \in {{"EXECUTION_STARTED"}, {"APPROVAL_GRANTED"}, TerminalExecutionEvents}
      PROVE  Cardinality(named(types)) <= 1
  <2>1. \A i, n \in named(types) : i = n BY <1>5
  <2> HIDE DEF named
  <2> QED BY <2>1, AtMostOne
<1>7. ASSUME NEW n \in named(ExecutionEvents)
      PROVE  ~ClosedBefore(n)
  <2>1. LegalAt(n) /\ chain[n].type \in ExecutionEvents OBVIOUS
  <2> QED
    BY <2>1 DEF LegalAt, ExecutionEvents, TerminalExecutionEvents, RunTerminalEvents,
                RetentionEvents
<1>8. ASSUME NEW n \in named(ExecutionEvents)
      PROVE  \/ named({"POLICY_ALLOWED"}) # {}
             \/ named({"POLICY_HELD"}) # {} /\ named({"APPROVAL_GRANTED"}) # {}
  <2>1. LegalAt(n) /\ chain[n].type \in ExecutionEvents /\ chain[n].action = a OBVIOUS
  <2>2. Authorised(n, a) BY <2>1 DEF LegalAt
  <2>3. n \in Nat /\ \A i \in 1 .. n - 1 : i \in DOMAIN chain
    OBVIOUS
  <2>4. \A types : Before(n, a, types) => named(types) # {}
    BY <2>3 DEF Before
  <2> HIDE DEF named
  <2> QED BY <2>2, <2>4 DEF Authorised
<1>9. \A types : Mentions(chain, a, types) <=> named(types) # {}
  BY DEF Mentions
<1>10. \A d, e \in DecisionEvents : named({d}) # {} /\ named({e}) # {} => d = e
  <2> SUFFICES ASSUME NEW d \in DecisionEvents, NEW e \in DecisionEvents,
                      NEW i \in named({d}), NEW n \in named({e})
               PROVE  d = e
    OBVIOUS
  <2>1. i \in named(DecisionEvents) /\ n \in named(DecisionEvents) OBVIOUS
  <2>2. i = n BY <1>5, <2>1
  <2> QED BY <2>2
<1>11. named({"APPROVAL_GRANTED"}) # {} => named(ApprovalClosedEvents) = {}
  <2> SUFFICES ASSUME NEW i \in named({"APPROVAL_GRANTED"}), NEW n \in named(ApprovalClosedEvents)
               PROVE  FALSE
    OBVIOUS
  <2>1. /\ chain[i].action = a /\ chain[i].type = "APPROVAL_GRANTED" /\ LegalAt(i)
        /\ chain[n].action = a /\ chain[n].type \in ApprovalClosedEvents /\ LegalAt(n)
    OBVIOUS
  <2>2. i # n BY <2>1 DEF ApprovalClosedEvents
  <2>3. CASE i < n
    <3>1. Before(n, a, {"APPROVAL_GRANTED"}) BY <1>3, <2>1, <2>3
    <3> QED BY <1>2, <2>1, <3>1 DEF LegalAt
  <2>4. CASE n < i
    <3>1. Before(i, a, {"APPROVAL_GRANTED"} \cup ApprovalClosedEvents) BY <1>3, <2>1, <2>4
    <3> QED BY <2>1, <3>1 DEF LegalAt, Open
  <2> QED BY <1>4, <2>2, <2>3, <2>4
<1> HIDE DEF named
<1>12. Mentions(chain, a, ExecutionEvents) => ~Mentions(chain, a, {"POLICY_DENIED"})
  BY <1>8, <1>9, <1>10 DEF DecisionEvents
<1>13. Mentions(chain, a, ExecutionEvents) /\ Mentions(chain, a, {"POLICY_HELD"}) =>
         ~Mentions(chain, a, ApprovalClosedEvents)
  BY <1>8, <1>9, <1>10, <1>11 DEF DecisionEvents
<1> QED BY <1>6, <1>7, <1>12, <1>13 DEF named

\* In an accepted history an action is granted, starts and finishes at most
\* once, and none executes that was denied, or held and then closed, or whose
\* run was closed.
THEOREM AcceptedIsSafe == Spec => []AcceptedHistoryIsSafe
<1>1. Faithful => AcceptedHistoryIsSafe
  <2> SUFFICES ASSUME chain \in Seq(ChainRecord), \A n \in DOMAIN chain : LegalAt(n)
               PROVE  AcceptedHistoryIsSafe
    BY DEF Faithful, VerifierMatchesRules, AcceptedHistoryIsSafe
  <2> QED BY RulesAreSafe DEF AcceptedHistoryIsSafe
<1> QED BY <1>1, VerifierIsFaithful, PTL

=============================================================================
