------------------------- MODULE EvidenceChain_proofs -------------------------
(***************************************************************************)
(* What the verifier of EvidenceChain computes, for chains of any length.  *)
(*                                                                         *)
(* Memory is a recursive function, so that even its defining equation has  *)
(* to be proved, by induction on the length.  The induction principle is   *)
(* stated for a set of numbers (NatSetInduction) and follows from the      *)
(* well-foundedness of < on Nat.                                           *)
(***************************************************************************)
EXTENDS EvidenceChain, Integers, TLAPS, WellFoundedInduction, SequenceTheorems

LessNat == {ss \in Nat \X Nat : ss[1] < ss[2]}

LEMMA LessNatWellFounded == IsWellFoundedOn(LessNat, Nat)
BY NatLessThanWellFounded DEF OpToRel, LessNat

\* Every set of numbers that is not empty has a least element.
LEMMA NatMinimum ==
    ASSUME NEW T, T \subseteq Nat, T # {}
    PROVE  \E x \in T : \A y \in T : x <= y
<1>1. PICK x \in T : \A y \in T : ~ (<<y, x>> \in LessNat)
  BY LessNatWellFounded, WFMin
<1>2. \A y \in Nat : y < x => <<y, x>> \in LessNat
  BY DEF LessNat
<1>3. \A y \in T : ~ (y < x)
  BY <1>1, <1>2
<1> QED BY <1>3

\* Induction on the natural numbers, for the set of those that have the
\* property.
LEMMA NatSetInduction ==
    ASSUME NEW T, 0 \in T, \A n \in Nat : n \in T => n + 1 \in T
    PROVE  Nat \subseteq T
<1> SUFFICES ASSUME ~ (Nat \subseteq T) PROVE FALSE OBVIOUS
<1>1. PICK x \in Nat \ T : \A y \in Nat \ T : x <= y
  BY NatMinimum
<1>2. x # 0 /\ x - 1 \in Nat OBVIOUS
<1>3. x - 1 \in T BY <1>1, <1>2
<1> QED BY <1>2, <1>3

-----------------------------------------------------------------------------
(* The recursion is well defined. *)

\* f is what the verifier remembers of the first n records.
Reads(f, records, n) ==
    f = [i \in 0 .. n |-> IF i = 0 THEN VerifierStart
                          ELSE VerifierStep(f[i - 1], records[i])]

\* Some function reads any number of records.
LEMMA ReadingExists ==
    ASSUME NEW records, NEW n \in Nat
    PROVE  \E f : Reads(f, records, n)
<1> DEFINE T == {k \in Nat : \E f : Reads(f, records, k)}
<1>1. 0 \in T
  <2> DEFINE g == [i \in 0 .. 0 |-> VerifierStart]
  <2>1. Reads(g, records, 0)
    BY DEF Reads
  <2> QED BY <2>1
<1>2. ASSUME NEW k \in Nat, k \in T
      PROVE  k + 1 \in T
  <2>1. PICK f : Reads(f, records, k) BY <1>2
  <2> DEFINE g == [i \in 0 .. k + 1 |->
                     IF i = k + 1 THEN VerifierStep(f[k], records[k + 1]) ELSE f[i]]
  <2>2. \A i \in 0 .. k : f[i] = IF i = 0 THEN VerifierStart
                                 ELSE VerifierStep(f[i - 1], records[i])
    BY <2>1 DEF Reads
  <2>3. \A i \in 0 .. k + 1 : g[i] = IF i = 0 THEN VerifierStart
                                     ELSE VerifierStep(g[i - 1], records[i])
    <3>1. g[k + 1] = VerifierStep(g[k], records[k + 1]) /\ k + 1 # 0
      OBVIOUS
    <3>2. \A i \in 0 .. k : g[i] = f[i]
      OBVIOUS
    <3>3. \A i \in 1 .. k : g[i - 1] = f[i - 1]
      OBVIOUS
    <3> HIDE DEF g
    <3> QED BY <2>2, <3>1, <3>2, <3>3
  <2>4. Reads(g, records, k + 1)
    <3>1. g = [i \in 0 .. k + 1 |-> g[i]] OBVIOUS
    <3> HIDE DEF g
    <3> QED BY <2>3, <3>1 DEF Reads
  <2> QED BY <2>4
<1> HIDE DEF T
<1>3. Nat \subseteq T BY <1>1, <1>2, NatSetInduction
<1> QED BY <1>3 DEF T

\* The verifier starts with nothing and takes one step for each record.
LEMMA MemoryDef ==
    ASSUME NEW S, NEW records \in Seq(S)
    PROVE  /\ Memory(records)[0] = VerifierStart
           /\ \A n \in 1 .. Len(records) :
                Memory(records)[n] = VerifierStep(Memory(records)[n - 1], records[n])
<1>1. Len(records) \in Nat OBVIOUS
<1>2. PICK f : Reads(f, records, Len(records))
  BY <1>1, ReadingExists
<1>3. Reads(Memory(records), records, Len(records))
  BY <1>2 DEF Memory, Reads
<1> QED BY <1>1, <1>3 DEF Reads

\* What follows does not change what the verifier remembers of the records
\* before it.
LEMMA MemoryOfPrefix ==
    ASSUME NEW S, NEW s \in Seq(S), NEW t \in Seq(S), NEW n \in 0 .. Len(s)
    PROVE  Memory(s \o t)[n] = Memory(s)[n]
<1> DEFINE T == {k \in Nat : k <= Len(s) => Memory(s \o t)[k] = Memory(s)[k]}
<1>1. /\ s \o t \in Seq(S)
      /\ Len(s \o t) = Len(s) + Len(t)
      /\ \A i \in 1 .. Len(s) : (s \o t)[i] = s[i]
  BY ConcatProperties
<1>2. Len(s) \in Nat /\ Len(t) \in Nat OBVIOUS
<1>3. 0 \in T
  BY <1>1, MemoryDef
<1>4. ASSUME NEW k \in Nat, k \in T
      PROVE  k + 1 \in T
  <2> SUFFICES ASSUME k + 1 <= Len(s)
               PROVE  Memory(s \o t)[k + 1] = Memory(s)[k + 1]
    OBVIOUS
  <2>1. Memory(s \o t)[k] = Memory(s)[k] BY <1>4, <1>2
  <2>2. k + 1 \in 1 .. Len(s) /\ k + 1 \in 1 .. Len(s \o t) /\ (k + 1) - 1 = k
    BY <1>1, <1>2
  <2>3. Memory(s)[k + 1] = VerifierStep(Memory(s)[k], s[k + 1])
    BY <2>2, MemoryDef
  <2>4. Memory(s \o t)[k + 1] = VerifierStep(Memory(s \o t)[k], (s \o t)[k + 1])
    BY <1>1, <2>2, MemoryDef
  <2> QED BY <1>1, <2>1, <2>2, <2>3, <2>4
<1> HIDE DEF T
<1>5. Nat \subseteq T BY <1>3, <1>4, NatSetInduction
<1> QED BY <1>2, <1>5 DEF T

\* The empty chain leaves nothing to remember.
LEMMA RememberedEmpty == Remembered(<<>>) = VerifierStart
<1>1. <<>> \in Seq({}) /\ Len(<<>>) = 0 BY EmptySeq
<1> QED BY <1>1, MemoryDef DEF Remembered

\* Reading goes on after s, one step for each record of t.
LEMMA MemoryBeyond ==
    ASSUME NEW S, NEW s \in Seq(S), NEW t \in Seq(S)
    PROVE  /\ Memory(s \o t)[Len(s)] = Remembered(s)
           /\ Memory(s \o t)[Len(s) + Len(t)] = Remembered(s \o t)
           /\ \A n \in 1 .. Len(t) :
                Memory(s \o t)[Len(s) + n] = VerifierStep(Memory(s \o t)[Len(s) + n - 1], t[n])
<1>1. /\ s \o t \in Seq(S)
      /\ Len(s \o t) = Len(s) + Len(t)
      /\ \A i \in 1 .. Len(s) + Len(t) :
           (s \o t)[i] = IF i <= Len(s) THEN s[i] ELSE t[i - Len(s)]
  BY ConcatProperties
<1>2. Len(s) \in Nat /\ Len(t) \in Nat OBVIOUS
<1>3. Memory(s \o t)[Len(s)] = Remembered(s)
  BY <1>2, MemoryOfPrefix DEF Remembered
<1>4. ASSUME NEW n \in 1 .. Len(t)
      PROVE  Memory(s \o t)[Len(s) + n] = VerifierStep(Memory(s \o t)[Len(s) + n - 1], t[n])
  <2>1. /\ Len(s) + n \in 1 .. Len(s \o t)
        /\ ~ (Len(s) + n <= Len(s))
        /\ (Len(s) + n) - Len(s) = n
    BY <1>1, <1>2
  <2>2. (s \o t)[Len(s) + n] = t[n] BY <1>1, <2>1
  <2>3. \A k \in 1 .. Len(s \o t) :
          Memory(s \o t)[k] = VerifierStep(Memory(s \o t)[k - 1], (s \o t)[k])
    BY <1>1, MemoryDef
  <2>4. Memory(s \o t)[Len(s) + n] = VerifierStep(Memory(s \o t)[(Len(s) + n) - 1], t[n])
    BY <2>1, <2>2, <2>3
  <2> QED BY <2>4
<1> QED BY <1>1, <1>3, <1>4 DEF Remembered

\* One more record is one more step of the verifier.
LEMMA RememberedRecord ==
    ASSUME NEW S, NEW s \in Seq(S), NEW rec \in S
    PROVE  /\ s \o <<rec>> \in Seq(S)
           /\ Remembered(s \o <<rec>>) = VerifierStep(Remembered(s), rec)
<1> DEFINE t == <<rec>>
<1>1. t \in Seq(S) /\ Len(t) = 1 /\ t[1] = rec OBVIOUS
<1>2. Len(s) \in Nat /\ (Len(s) + 1) - 1 = Len(s) /\ 1 \in 1 .. 1 OBVIOUS
<1> HIDE DEF t
<1>3. s \o t \in Seq(S) BY <1>1, ConcatProperties
<1>4. \A n \in 1 .. Len(t) :
        Memory(s \o t)[Len(s) + n] = VerifierStep(Memory(s \o t)[Len(s) + n - 1], t[n])
  BY <1>1, MemoryBeyond
<1>5. Memory(s \o t)[Len(s) + 1] = VerifierStep(Memory(s \o t)[(Len(s) + 1) - 1], rec)
  BY <1>1, <1>2, <1>4
<1>6. /\ Memory(s \o t)[Len(s)] = Remembered(s)
      /\ Memory(s \o t)[Len(s) + 1] = Remembered(s \o t)
  BY <1>1, MemoryBeyond
<1> QED BY <1>2, <1>3, <1>5, <1>6 DEF t

\* So are two records, in their order.
LEMMA RememberedTwo ==
    ASSUME NEW S, NEW s \in Seq(S), NEW e1 \in S, NEW e2 \in S
    PROVE  /\ s \o <<e1, e2>> \in Seq(S)
           /\ Remembered(s \o <<e1, e2>>) =
                VerifierStep(VerifierStep(Remembered(s), e1), e2)
<1> DEFINE t == <<e1, e2>>
<1>1. t \in Seq(S) /\ Len(t) = 2 /\ t[1] = e1 /\ t[2] = e2 OBVIOUS
<1>2. /\ Len(s) \in Nat /\ (Len(s) + 1) - 1 = Len(s) /\ (Len(s) + 2) - 1 = Len(s) + 1
      /\ 1 \in 1 .. 2 /\ 2 \in 1 .. 2
  OBVIOUS
<1> HIDE DEF t
<1>3. s \o t \in Seq(S) BY <1>1, ConcatProperties
<1>4. t \in Seq(S) BY <1>1
<1>5. \A n \in 1 .. Len(t) :
        Memory(s \o t)[Len(s) + n] = VerifierStep(Memory(s \o t)[Len(s) + n - 1], t[n])
  BY <1>4, MemoryBeyond
<1>6. Memory(s \o t)[Len(s) + 1] = VerifierStep(Memory(s \o t)[Len(s) + 1 - 1], e1)
  BY <1>1, <1>2, <1>5
<1>7. Memory(s \o t)[Len(s) + 2] = VerifierStep(Memory(s \o t)[Len(s) + 2 - 1], e2)
  BY <1>1, <1>2, <1>5
<1>8. /\ Memory(s \o t)[Len(s)] = Remembered(s)
      /\ Memory(s \o t)[Len(s) + 2] = Remembered(s \o t)
  BY <1>1, MemoryBeyond
<1> QED BY <1>2, <1>3, <1>6, <1>7, <1>8 DEF t

-----------------------------------------------------------------------------
(* One step of the verifier, once what it remembers is known. *)

\* An accepted chain of a run, closed or not, and the lifecycles in it.
Verified(closed, actions) == [ok |-> TRUE, closed |-> closed, actions |-> actions]

\* A record of an action that its lifecycle allows, while the run is open or
\* as the expiry of what is pending, changes that lifecycle and nothing else.
LEMMA StepOfAction ==
    ASSUME NEW closed \in BOOLEAN, NEW f, DOMAIN f = Actions, f = [a \in Actions |-> f[a]],
           NEW b \in Actions, b # NoAction,
           NEW type \in KnownEvents \ (RunTerminalEvents \cup RetentionEvents),
           LifecycleAllows(type, f[b]),
           ~closed \/ PendingExpiry(Event(type, b), f)
    PROVE  VerifierStep(Verified(closed, f), Event(type, b)) =
             Verified(closed, [f EXCEPT ![b] = LifecycleAfter(type, f[b])])
<1> DEFINE rec == Event(type, b)
<1>1. rec.type = type /\ rec.action = b BY DEF Event
<1> HIDE DEF rec
<1>2. RunAllows(rec, closed, f) BY <1>1 DEF RunAllows, rec
<1>3. ActionAllows(rec, f) BY <1>1 DEF ActionAllows
<1>4. [a \in Actions |-> IF a = rec.action THEN LifecycleAfter(rec.type, f[a]) ELSE f[a]] =
        [f EXCEPT ![b] = LifecycleAfter(type, f[b])]
  BY <1>1
<1>5. (closed \/ rec.type \in RunTerminalEvents) = closed
  BY <1>1
<1>6. (TRUE /\ rec.type \in KnownEvents /\ RunAllows(rec, closed, f) /\ ActionAllows(rec, f)) = TRUE
  BY <1>1, <1>2, <1>3
<1>7. VerifierStep(Verified(closed, f), rec) =
        [ok |-> (TRUE /\ rec.type \in KnownEvents /\ RunAllows(rec, closed, f) /\ ActionAllows(rec, f)),
         closed |-> (closed \/ rec.type \in RunTerminalEvents),
         actions |-> [a \in Actions |-> IF a = rec.action THEN LifecycleAfter(rec.type, f[a]) ELSE f[a]]]
  BY DEF VerifierStep, Verified
<1>8. VerifierStep(Verified(closed, f), rec) =
        [ok |-> TRUE, closed |-> closed, actions |-> [f EXCEPT ![b] = LifecycleAfter(type, f[b])]]
  BY <1>4, <1>5, <1>6, <1>7
<1> QED BY <1>8 DEF Verified, rec

\* A record of the run itself changes no lifecycle.
LEMMA StepOfRun ==
    ASSUME NEW closed \in BOOLEAN, NEW f, DOMAIN f = Actions, f = [a \in Actions |-> f[a]],
           NoAction \notin Actions,
           NEW type \in {"RUN_CREATED"} \cup RunTerminalEvents,
           closed => type \in RunTerminalEvents
    PROVE  VerifierStep(Verified(closed, f), Event(type, NoAction)) =
             Verified(closed \/ type \in RunTerminalEvents, f)
<1> DEFINE rec == Event(type, NoAction)
<1>1. rec.type = type /\ rec.action = NoAction BY DEF Event
<1> HIDE DEF rec
<1>2. RunAllows(rec, closed, f)
  BY <1>1 DEF RunAllows, RunTerminalEvents, RetentionEvents
<1>3. ActionAllows(rec, f)
  BY <1>1 DEF ActionAllows, RunTerminalEvents, ExecutionEvents, TerminalExecutionEvents
<1>4. [a \in Actions |-> IF a = rec.action THEN LifecycleAfter(rec.type, f[a]) ELSE f[a]] = f
  BY <1>1
<1>5. type \in KnownEvents BY DEF KnownEvents, RunTerminalEvents
<1>6. (TRUE /\ rec.type \in KnownEvents /\ RunAllows(rec, closed, f) /\ ActionAllows(rec, f)) = TRUE
  BY <1>1, <1>2, <1>3, <1>5
<1>7. VerifierStep(Verified(closed, f), rec) =
        [ok |-> (TRUE /\ rec.type \in KnownEvents /\ RunAllows(rec, closed, f) /\ ActionAllows(rec, f)),
         closed |-> (closed \/ rec.type \in RunTerminalEvents),
         actions |-> [a \in Actions |-> IF a = rec.action THEN LifecycleAfter(rec.type, f[a]) ELSE f[a]]]
  BY DEF VerifierStep, Verified
<1> QED BY <1>1, <1>4, <1>6, <1>7 DEF Verified, rec

=============================================================================
