------------------------ MODULE RunAdmission_proofs -------------------------
(***************************************************************************)
(* Proofs about RunAdmission, for every finite set of creations, every     *)
(* limit and every length of a minute and of a day: the places of the      *)
(* concurrency cap, the rate limit and the daily budgets.                  *)
(***************************************************************************)
EXTENDS RunAdmission, TLAPS, FiniteSetTheorems

Request == [pc : Progress, address : Addresses \cup {NoAddress},
            at : Nat \cup {Never}, got : Nat \cup {Never}, refunded : Nat \cup {Never},
            place : BOOLEAN, seen : SUBSET Creations]

-----------------------------------------------------------------------------
(* Typing. *)

\* Days are counted from zero.
LEMMA DayType == ASSUME NEW t \in Nat PROVE DayOf(t) \in Nat
BY AdmissionAssumption DEF DayOf

LEMMA NewRequestType == NewRequest \in Request /\ Turned \in Request
BY DEF NewRequest, Turned, Request, Progress

LEMMA AdmissionInitType == Init => TypeOK
<1> SUFFICES ASSUME Init PROVE TypeOK
  OBVIOUS
<1>1. mode \in {"off", "on", "invalid"}
  BY DEF Init, ModeOf
<1>2. window \in [Addresses -> Seq(Creations)]
  BY DEF Init
<1> QED
  BY <1>1, <1>2, NewRequestType DEF Init, TypeOK, Request

\* What the daily counters hold after a roll-over.
LEMMA RolledType ==
    ASSUME NEW counter \in Nat
    PROVE  Rolled(counter) \in Nat
BY DEF Rolled

\* Counting one more, or none, stays natural.
LEMMA CountingType == \A n \in Nat : n + 0 \in Nat /\ n + 1 \in Nat
OBVIOUS

LEMMA CountersType ==
    ASSUME TypeOK
    PROVE  /\ now \in Nat /\ guardDay \in Nat /\ pending \in Nat /\ Today \in Nat
           /\ runsToday \in Nat /\ actionsToday \in Nat
           /\ Rolled(runsToday) \in Nat /\ Rolled(actionsToday) \in Nat
<1>1. /\ now \in Nat /\ guardDay \in Nat /\ pending \in Nat
      /\ runsToday \in Nat /\ actionsToday \in Nat
  BY DEF TypeOK
<1> QED
  BY <1>1, DayType, RolledType DEF Today

\* A request's record, changed in some of its fields.
LEMMA RequestType ==
    ASSUME TypeOK, NEW c \in Creations
    PROVE  /\ create[c] \in Request /\ create \in [Creations -> Request]
           /\ \A f \in Request : [create EXCEPT ![c] = f] \in [Creations -> Request]
BY DEF TypeOK, Request

LEMMA ProgressType ==
    ASSUME TypeOK, NEW c \in Creations, NEW pc \in Progress,
           create' = [create EXCEPT ![c].pc = pc]
    PROVE  create' \in [Creations -> Request]
BY DEF TypeOK, Request

\* The guards deny a reservation, or grant it and remember it, after n entries
\* have left the window.
Denies(c, n) ==
    /\ runsToday' = Rolled(runsToday) + 0
    /\ create' = [create EXCEPT ![c] = Turned]
    /\ create[c].address # NoAddress =>
          window' = [window EXCEPT ![create[c].address] = Recent(create[c].address, n)]

Grants(c, n) ==
    /\ ~RateLimited(create[c].address, n) /\ ~BudgetSpent
    /\ runsToday' = Rolled(runsToday) + 1
    /\ create' = [create EXCEPT ![c].pc = "reserved", ![c].got = now]
    /\ create[c].address # NoAddress =>
          window' = [window EXCEPT ![create[c].address] =
                        Append(Recent(create[c].address, n), c)]

LEMMA Reserving ==
    ASSUME NEW c \in Creations, TryBeginRun(c)
    PROVE  /\ create[c].pc = "stamped"
           /\ guardDay' = Today /\ actionsToday' = Rolled(actionsToday)
           /\ UNCHANGED <<mode, now, run, turns, lock, pending, acted>>
           /\ create[c].address = NoAddress => window' = window
           /\ \E n \in 0 .. Len(Window(create[c].address)) :
                 /\ Outdated(create[c].address, n, create[c].at)
                 /\ Denies(c, n) \/ Grants(c, n)
<1>1. create[c].pc = "stamped" /\ UNCHANGED <<mode, now, run, turns, lock, pending, acted>>
  BY DEF TryBeginRun, serviceVars
<1> DEFINE a == create[c].address
           refused(n) == RateLimited(a, n) \/ BudgetSpent
           kept(n) == IF refused(n) THEN Recent(a, n) ELSE Append(Recent(a, n), c)
<1>2. PICK n \in 0 .. Len(Window(a)) :
         /\ Outdated(a, n, create[c].at)
         /\ guardDay' = Today
         /\ actionsToday' = Rolled(actionsToday)
         /\ runsToday' = Rolled(runsToday) + (IF refused(n) THEN 0 ELSE 1)
         /\ window' = IF a = NoAddress THEN window ELSE [window EXCEPT ![a] = kept(n)]
         /\ create' = IF refused(n)
                      THEN [create EXCEPT ![c] = Turned]
                      ELSE [create EXCEPT ![c].pc = "reserved", ![c].got = now]
  BY Zenon DEF TryBeginRun
<1>3. CASE refused(n)
  <2>1. Denies(c, n)
    BY <1>2, <1>3, Zenon DEF Denies
  <2> QED
    BY <1>1, <1>2, <2>1, Zenon
<1>4. CASE ~refused(n)
  <2>1. Grants(c, n)
    BY <1>2, <1>4, Zenon DEF Grants
  <2> QED
    BY <1>1, <1>2, <2>1, Zenon
<1> QED
  BY <1>3, <1>4

\* A sequence without its first n elements.
LEMMA Suffix ==
    ASSUME NEW S, NEW s \in Seq(S), NEW n \in 0 .. Len(s)
    PROVE  /\ SubSeq(s, n + 1, Len(s)) \in Seq(S)
           /\ Len(SubSeq(s, n + 1, Len(s))) = Len(s) - n
           /\ \A i \in n + 1 .. Len(s) : SubSeq(s, n + 1, Len(s))[i - n] = s[i]
OBVIOUS

LEMMA WindowType ==
    ASSUME TypeOK, NEW a \in Addresses \cup {NoAddress}
    PROVE  /\ Window(a) \in Seq(Creations)
           /\ \A n \in 0 .. Len(Window(a)) : Recent(a, n) \in Seq(Creations)
<1>1. window \in [Addresses -> Seq(Creations)]
  BY DEF TypeOK
<1>2. Window(a) \in Seq(Creations)
  BY <1>1 DEF Window
<1> QED
  BY <1>2, Suffix DEF Recent

\* A request as the clock and the guards' lock leave it.
Stamped(old, a, t) == [old EXCEPT !.pc = "stamped", !.address = a, !.at = t]
Reserved(old, t) == [old EXCEPT !.pc = "reserved", !.got = t]

LEMMA StampedType ==
    ASSUME NEW old \in Request, NEW a \in Addresses \cup {NoAddress}, NEW t \in Nat
    PROVE  Stamped(old, a, t) \in Request /\ Reserved(old, t) \in Request
<1>1. Stamped(old, a, t) \in Request
  BY DEF Request, Stamped, Progress
<1>2. Reserved(old, t) \in Request
  BY DEF Request, Reserved, Progress
<1> QED
  BY <1>1, <1>2

LEMMA TryBeginRunType ==
    ASSUME TypeOK, NEW c \in Creations, TryBeginRun(c)
    PROVE  TypeOK'
<1>0. /\ guardDay' = Today /\ actionsToday' = Rolled(actionsToday)
      /\ UNCHANGED <<mode, now, run, turns, lock, pending, acted>>
      /\ create[c].address = NoAddress => window' = window
  BY Reserving, Zenon
<1>1. PICK n \in 0 .. Len(Window(create[c].address)) : Denies(c, n) \/ Grants(c, n)
  BY Reserving, Zenon
<1>2. create[c] \in Request /\ now \in Nat
  BY RequestType, CountersType
<1>3. guardDay' \in Nat
  BY <1>0, CountersType
<1>4. runsToday' \in Nat /\ actionsToday' \in Nat
  <2>1. runsToday' = Rolled(runsToday) + 0 \/ runsToday' = Rolled(runsToday) + 1
    BY <1>1, Zenon DEF Denies, Grants
  <2> QED
    BY <1>0, <2>1, CountersType, CountingType, Zenon
<1>5. window' \in [Addresses -> Seq(Creations)]
  <2> DEFINE a == create[c].address
  <2>1. window \in [Addresses -> Seq(Creations)] /\ a \in Addresses \cup {NoAddress}
    BY <1>2 DEF TypeOK, Request
  <2>2. CASE a = NoAddress
    BY <1>0, <2>1, <2>2
  <2>3. CASE a # NoAddress
    <3>1. Recent(a, n) \in Seq(Creations)
      BY <2>1, WindowType
    <3>2. Append(Recent(a, n), c) \in Seq(Creations)
      BY <3>1
    <3>3. \/ window' = [window EXCEPT ![a] = Recent(a, n)]
          \/ window' = [window EXCEPT ![a] = Append(Recent(a, n), c)]
      BY <1>1, <2>3, Zenon DEF Denies, Grants
    <3> QED
      BY <2>1, <3>1, <3>2, <3>3
  <2> QED
    BY <2>2, <2>3
<1>6. create' \in [Creations -> Request]
  <2>1. CASE create' = [create EXCEPT ![c] = Turned]
    BY <2>1, NewRequestType, RequestType
  <2>2. CASE create' = [create EXCEPT ![c].pc = "reserved", ![c].got = now]
    <3>1. create' = [create EXCEPT ![c] = Reserved(create[c], now)]
      BY <2>2 DEF Reserved, TypeOK
    <3>2. Reserved(create[c], now) \in Request
      <4>1. NoAddress \in Addresses \cup {NoAddress}
        OBVIOUS
      <4> QED
        BY <1>2, <4>1, StampedType
    <3> QED
      BY <3>1, <3>2, RequestType
  <2> QED
    BY <1>1, <2>1, <2>2, Zenon DEF Denies, Grants
<1> QED
  BY <1>0, <1>3, <1>4, <1>5, <1>6 DEF TypeOK, Request

LEMMA BeginType ==
    ASSUME TypeOK, NEW c \in Creations, NEW a \in Addresses \cup {NoAddress}, Begin(c, a)
    PROVE  TypeOK'
<1>1. UNCHANGED <<mode, now, run, lock, pending, acted, guardVars>>
  BY DEF Begin, serviceVars
<1>2. create' \in [Creations -> Request]
  <2>1. CASE create' = [create EXCEPT ![c] = Turned]
    BY <2>1, NewRequestType, RequestType
  <2>2. CASE create' = [create EXCEPT ![c].pc = "admitted"]
    BY <2>2, ProgressType DEF Progress
  <2>3. CASE create' = [create EXCEPT ![c].pc = "stamped", ![c].address = a, ![c].at = now]
    <3>1. create' = [create EXCEPT ![c] = Stamped(create[c], a, now)]
      BY <2>3 DEF Stamped, TypeOK
    <3>2. Stamped(create[c], a, now) \in Request
      BY StampedType, RequestType, CountersType
    <3> QED
      BY <3>1, <3>2, RequestType
  <2> QED
    BY <2>1, <2>2, <2>3 DEF Begin
<1> QED
  BY <1>1, <1>2 DEF TypeOK, guardVars, Request

\* A request that has counted the busy runs.
LEMMA CountedType ==
    ASSUME NEW old \in Request, NEW S \in SUBSET Creations
    PROVE  [old EXCEPT !.pc = "counted", !.seen = S] \in Request
BY DEF Request, Progress

\* The steps of a creation that is under way.
LEMMA ProceedType ==
    ASSUME TypeOK, NEW c \in Creations, Proceed(c)
    PROVE  TypeOK'
<1>9. CASE TryBeginRun(c)
  BY <1>9, TryBeginRunType
<1> USE DEF Request, Progress
<1>0. create[c] \in Request /\ create \in [Creations -> Request]
  BY RequestType
<1>1. CASE CountBusy(c)
  <2>1. create' = [create EXCEPT ![c] = [create[c] EXCEPT !.pc = "counted", !.seen = Busy]]
    BY <1>0, <1>1 DEF CountBusy
  <2>2. [create[c] EXCEPT !.pc = "counted", !.seen = Busy] \in Request
    <3>1. Busy \in SUBSET Creations
      BY DEF Busy
    <3> QED
      BY <1>0, <3>1, CountedType, Zenon
  <2>3. create' \in [Creations -> Request]
    BY <2>1, <2>2, RequestType
  <2> QED
    BY <1>1, <2>3 DEF CountBusy, TypeOK, guardVars
<1>2. CASE TakePlace(c)
  <2>1. create' = [create EXCEPT ![c] =
           [create[c] EXCEPT !.pc = "admitted", !.place = TRUE, !.seen = {}]]
    BY <1>0, <1>2 DEF TakePlace
  <2>2. [create[c] EXCEPT !.pc = "admitted", !.place = TRUE, !.seen = {}] \in Request
    BY <1>0
  <2>3. create' \in [Creations -> Request]
    BY <2>1, <2>2, RequestType
  <2> QED
    BY <1>2, <2>3 DEF TakePlace, TypeOK, guardVars
<1>3. CASE RefusePlace(c)
  <2>1. create' = [create EXCEPT ![c] = [create[c] EXCEPT !.pc = "refused", !.seen = {}]]
    BY <1>0, <1>3 DEF RefusePlace
  <2>2. [create[c] EXCEPT !.pc = "refused", !.seen = {}] \in Request
    BY <1>0
  <2>3. create' \in [Creations -> Request]
    BY <2>1, <2>2, RequestType
  <2> QED
    BY <1>3, <2>3 DEF RefusePlace, TypeOK, guardVars
<1>4. CASE Commit(c)
  <2>1. create' \in [Creations -> Request]
    BY <1>4, ProgressType DEF Commit
  <2> QED
    BY <1>4, <2>1 DEF Commit, TypeOK, guardVars, serviceVars
<1>5. CASE FailCreation(c)
  <2>1. create' \in [Creations -> Request]
    BY <1>5, ProgressType DEF FailCreation
  <2> QED
    BY <1>5, <2>1 DEF FailCreation, TypeOK, guardVars, serviceVars
<1>6. CASE Refund(c)
  <2>1. create' = [create EXCEPT ![c] = [create[c] EXCEPT !.pc = "unwinding",
           !.refunded = IF create[c].got = Never THEN Never ELSE guardDay]]
    BY <1>0, <1>6 DEF Refund
  <2>2. [create[c] EXCEPT !.pc = "unwinding",
           !.refunded = IF create[c].got = Never THEN Never ELSE guardDay] \in Request
    BY <1>0 DEF TypeOK
  <2>3. create' \in [Creations -> Request]
    BY <2>1, <2>2, RequestType
  <2> QED
    BY <1>6, <2>3 DEF Refund, Refunded, TypeOK, serviceVars
<1>7. CASE Finish(c)
  <2>1. create' = [create EXCEPT ![c] = [create[c] EXCEPT !.pc = "done", !.place = FALSE]]
    BY <1>0, <1>7 DEF Finish
  <2>2. [create[c] EXCEPT !.pc = "done", !.place = FALSE] \in Request
    BY <1>0
  <2>3. create' \in [Creations -> Request]
    BY <2>1, <2>2, RequestType
  <2> QED
    BY <1>7, <2>3 DEF Finish, TypeOK, guardVars
<1> QED
  BY <1>1, <1>2, <1>3, <1>4, <1>5, <1>6, <1>7, <1>9 DEF Proceed

\* An action is refused, or counted on its day.
LEMMA Acting ==
    ASSUME NEW c \in Creations, TryAction(c)
    PROVE  /\ guardDay' = Today /\ runsToday' = Rolled(runsToday)
           /\ UNCHANGED <<mode, now, run, window, lock, pending, create>>
           /\ \/ /\ actionsToday' = Rolled(actionsToday)
                 /\ UNCHANGED <<turns, acted>>
              \/ /\ ~(Rolled(actionsToday) >= ActionsPerDay)
                 /\ actionsToday' = Rolled(actionsToday) + 1
                 /\ turns' = [turns EXCEPT ![c] = @ + 1]
                 /\ acted' = [acted EXCEPT ![Today] = @ + 1]
<1>1. CASE ActionRefused(c)
  BY <1>1, Zenon DEF TryAction, serviceVars
<1>2. CASE ~ActionRefused(c)
  BY <1>2, Zenon DEF TryAction, ActionRefused, serviceVars
<1> QED
  BY <1>1, <1>2

LEMMA RestType ==
    ASSUME TypeOK, \/ \E c \in Creations : CloseRun(c) \/ TryAction(c)
                   \/ Tick \/ Restart
    PROVE  TypeOK'
<1>1. ASSUME NEW c \in Creations, CloseRun(c)
      PROVE  TypeOK'
  BY <1>1 DEF CloseRun, TypeOK, guardVars, serviceVars
<1>2. ASSUME NEW c \in Creations, TryAction(c)
      PROVE  TypeOK'
  <2>0. /\ guardDay' = Today /\ runsToday' = Rolled(runsToday)
        /\ UNCHANGED <<mode, now, run, window, lock, pending, create>>
        /\ \/ actionsToday' = Rolled(actionsToday) /\ UNCHANGED <<turns, acted>>
           \/ /\ actionsToday' = Rolled(actionsToday) + 1
              /\ turns' = [turns EXCEPT ![c] = @ + 1]
              /\ acted' = [acted EXCEPT ![Today] = @ + 1]
    BY <1>2, Acting, Zenon
  <2>1. guardDay' \in Nat /\ runsToday' \in Nat /\ actionsToday' \in Nat
    BY <2>0, CountersType, CountingType, Zenon
  <2>2. turns' \in [Creations -> Nat] /\ acted' \in [Days -> Nat]
    <3>1. turns \in [Creations -> Nat] /\ acted \in [Days -> Nat]
      BY DEF TypeOK
    <3>2. \/ UNCHANGED <<turns, acted>>
          \/ /\ turns' = [turns EXCEPT ![c] = turns[c] + 1]
             /\ acted' = [acted EXCEPT ![Today] = acted[Today] + 1]
      BY <2>0, Zenon
    <3>3. Today \in Days => acted[Today] + 1 \in Nat
      BY <3>1
    <3> QED
      BY <3>1, <3>2, <3>3
  <2> QED
    BY <2>0, <2>1, <2>2 DEF TypeOK
<1>3. CASE Tick
  BY <1>3 DEF Tick, TypeOK, guardVars, serviceVars
<1>4. CASE Restart
  <2>1. create' \in [Creations -> Request]
    BY <1>4, NewRequestType DEF Restart
  <2>2. guardDay' \in Nat
    BY <1>4, CountersType DEF Restart
  <2>3. window' \in [Addresses -> Seq(Creations)]
    BY <1>4 DEF Restart
  <2> QED
    BY <1>4, <2>1, <2>2, <2>3 DEF Restart, TypeOK, Request
<1> QED
  BY <1>1, <1>2, <1>3, <1>4

LEMMA AdmissionStepType ==
    ASSUME TypeOK, [Next]_vars
    PROVE  TypeOK'
<1>1. CASE UNCHANGED vars
  BY <1>1 DEF vars, guardVars, serviceVars, TypeOK
<1> QED
  BY <1>1, BeginType, ProceedType, RestType DEF Next

\* The guards, the counters and every request keep their types.
THEOREM AdmissionTypeCorrect == Spec => []TypeOK
BY AdmissionInitType, AdmissionStepType, PTL DEF Spec

-----------------------------------------------------------------------------
(* The cap on concurrent runs. *)

\* Whoever occupies a place of the cap: a busy run, or a creation admitted.
Occupied == Busy \cup Admitted

\* The clock is read and the creation lock entered with the guards on, and a
\* run is stored by the last step of its creation.
OnlyOn  == \A c \in Creations : create[c].pc \in {"stamped", "reserved"} => mode = "on"
NewRuns == \A c \in Creations : run[c] = "BUSY" => create[c].pc \in {"committed", "done"}

\* The inductive invariant: Admission is inductive once these two are known.
AdmissionInv == TypeOK /\ OnlyOn /\ NewRuns /\ Admission

LEMMA FiniteSubsets ==
    ASSUME NEW S \in SUBSET Creations
    PROVE  IsFiniteSet(S) /\ Cardinality(S) \in Nat
<1>1. IsFiniteSet(S)
  BY FS_Subset, AdmissionAssumption
<1> QED
  BY <1>1, FS_CardinalityType

LEMMA CardinalityMonotone ==
    ASSUME NEW S \in SUBSET Creations, NEW T \in SUBSET S
    PROVE  Cardinality(T) <= Cardinality(S)
BY FiniteSubsets, FS_Subset

LEMMA PlacesType == /\ Placed \subseteq Creations /\ Occupied \subseteq Creations
                    /\ Placed' \subseteq Creations /\ Occupied' \subseteq Creations
BY DEF Placed, Occupied, Busy, Admitted

\* A step that takes no place and lets nobody into the lock.
LEMMA Quiet ==
    ASSUME TypeOK, Admission,
           mode' = mode, pending' = pending, Placed' = Placed,
           \A d \in Placed : create'[d].pc \in {"admitted", "committed", "refused", "unwinding"},
           mode = "on" => Admitted' \subseteq Placed,
           mode = "on" => Occupied' \subseteq Occupied,
           \A d \in Creations : create'[d].pc = "counted" =>
              create[d].pc = "counted" /\ create'[d].seen = create[d].seen /\ lock' = d
    PROVE  Admission'
<1>1. PendingAccounts'
  BY DEF Admission, PendingAccounts
<1>2. CountCovers'
  BY Zenon DEF Admission, CountCovers, Occupied
<1>3. PlacesBounded'
  <2>1. SUFFICES ASSUME mode = "on"
                 PROVE  Cardinality(Occupied') <= MaxConcurrentRuns
    BY DEF PlacesBounded, Occupied
  <2>2. Cardinality(Occupied') <= Cardinality(Occupied)
    BY <2>1, PlacesType, CardinalityMonotone
  <2>3. Cardinality(Occupied) <= MaxConcurrentRuns
    BY <2>1 DEF Admission, PlacesBounded, Occupied
  <2>4. /\ Cardinality(Occupied) \in Nat /\ Cardinality(Occupied') \in Nat
        /\ MaxConcurrentRuns \in Nat
    BY PlacesType, FiniteSubsets, AdmissionAssumption
  <2> QED
    BY <2>2, <2>3, <2>4
<1> QED
  BY <1>1, <1>2, <1>3 DEF Admission

\* What a step of one creation leaves of the others.
LEMMA OthersKept ==
    ASSUME TypeOK, NEW c \in Creations, NEW f, create' = [create EXCEPT ![c] = f]
    PROVE  /\ create'[c] = f
           /\ \A d \in Creations : d # c => create'[d] = create[d]
BY DEF TypeOK

LEMMA CountBusyAdmission ==
    ASSUME AdmissionInv, NEW c \in Creations, CountBusy(c)
    PROVE  Admission'
<1>1. /\ create'[c] = [create[c] EXCEPT !.pc = "counted", !.seen = Busy]
      /\ \A d \in Creations : d # c => create'[d] = create[d]
      /\ create[c] \in Request
  BY OthersKept, RequestType DEF CountBusy, AdmissionInv, TypeOK
<1>2. create[c].pc = "reserved" /\ create'[c].pc = "counted"
      /\ create'[c].seen = Busy /\ create'[c].place = create[c].place
  <2>1. create[c].pc = "reserved"
    BY DEF CountBusy
  <2> QED
    BY <2>1, <1>1 DEF Request
<1>3. Placed' = Placed /\ Admitted' = Admitted /\ Busy' = Busy
  BY <1>1, <1>2 DEF CountBusy, Placed, Admitted, Busy
<1>4. PendingAccounts'
  BY <1>1, <1>2, <1>3 DEF AdmissionInv, Admission, PendingAccounts, CountBusy, Placed
<1>5. CountCovers'
  <2>1. mode = "on" /\ Admitted \subseteq Placed
    BY <1>2 DEF AdmissionInv, OnlyOn, Admission, PendingAccounts
  <2>2. \A d \in Creations : create[d].pc # "counted"
    BY AdmissionAssumption DEF CountBusy, AdmissionInv, Admission, CountCovers
  <2> QED
    BY <1>1, <1>2, <1>3, <2>1, <2>2 DEF CountCovers, CountBusy
<1>6. PlacesBounded'
  BY <1>3, Zenon DEF AdmissionInv, Admission, PlacesBounded, CountBusy
<1> QED
  BY <1>4, <1>5, <1>6 DEF Admission

\* Whoever may take a place finds one: everybody who occupies one is among
\* the busy runs it counted or still in the pending counter.
LEMMA RoomLeft ==
    ASSUME AdmissionInv, NEW c \in Creations, TakePlace(c)
    PROVE  /\ Occupied \in SUBSET Creations /\ c \notin Placed /\ c \notin Occupied
           /\ Cardinality(Occupied) < MaxConcurrentRuns
<1>1. create[c].pc = "counted" /\ create[c] \in Request
  BY RequestType DEF TakePlace, AdmissionInv
<1>2. c \notin Placed /\ c \notin Occupied
  BY <1>1 DEF AdmissionInv, Admission, PendingAccounts, NewRuns, Occupied, Busy, Admitted
<1> DEFINE S == create[c].seen
           P == Placed
           O == Occupied
<1>3. S \in SUBSET Creations /\ P \in SUBSET Creations /\ O \in SUBSET (S \cup P)
  BY <1>1, PlacesType DEF Request, AdmissionInv, Admission, CountCovers, Occupied
<1>4. Cardinality(S) + Cardinality(P) < MaxConcurrentRuns
  <2>1. Cardinality(S) \in Nat /\ Cardinality(P) \in Nat /\ MaxConcurrentRuns \in Nat
    BY <1>3, FiniteSubsets, AdmissionAssumption
  <2>2. ~(Cardinality(S) + Cardinality(P) >= MaxConcurrentRuns)
    BY DEF TakePlace, AtCapacity, AdmissionInv, Admission, PendingAccounts
  <2> QED
    BY <2>1, <2>2
<1> HIDE DEF S, P, O
<1>5. Cardinality(S \cup P) <= Cardinality(S) + Cardinality(P)
  <2>1. IsFiniteSet(S) /\ IsFiniteSet(P) /\ S \cap P \in SUBSET Creations
        /\ Cardinality(S) \in Nat /\ Cardinality(P) \in Nat
    BY <1>3, FiniteSubsets
  <2>2. Cardinality(S \cap P) \in Nat
    BY <2>1, FiniteSubsets
  <2>3. Cardinality(S \cup P) = Cardinality(S) + Cardinality(P) - Cardinality(S \cap P)
    BY <2>1, FS_Union
  <2> QED
    BY <2>1, <2>2, <2>3
<1>6. Cardinality(O) <= Cardinality(S \cup P)
  BY <1>3, CardinalityMonotone
<1>7. /\ Cardinality(O) \in Nat /\ Cardinality(S \cup P) \in Nat
      /\ Cardinality(S) \in Nat /\ Cardinality(P) \in Nat /\ MaxConcurrentRuns \in Nat
  BY <1>3, FiniteSubsets, AdmissionAssumption
<1>8. Cardinality(O) < MaxConcurrentRuns
  BY <1>4, <1>5, <1>6, <1>7
<1> QED
  BY <1>2, <1>8, PlacesType DEF O

LEMMA TakePlaceSets ==
    ASSUME AdmissionInv, NEW c \in Creations, TakePlace(c)
    PROVE  /\ Placed' = Placed \cup {c} /\ Admitted' = Admitted \cup {c} /\ Busy' = Busy
           /\ Occupied' = Occupied \cup {c}
           /\ create'[c].pc = "admitted"
           /\ \A d \in Creations : d # c => create'[d] = create[d]
<1>1. /\ create'[c] = [create[c] EXCEPT !.pc = "admitted", !.place = TRUE, !.seen = {}]
      /\ \A d \in Creations : d # c => create'[d] = create[d]
      /\ create[c] \in Request
  BY OthersKept, RequestType DEF TakePlace, AdmissionInv, TypeOK
<1>2. create'[c].pc = "admitted" /\ create'[c].place
  BY <1>1 DEF Request
<1>3. Placed' = Placed \cup {c} /\ Admitted' = Admitted \cup {c} /\ Busy' = Busy
  BY <1>1, <1>2 DEF TakePlace, Placed, Admitted, Busy
<1> QED
  BY <1>1, <1>2, <1>3 DEF Occupied

LEMMA TakePlaceAdmission ==
    ASSUME AdmissionInv, NEW c \in Creations, TakePlace(c)
    PROVE  Admission'
<1>1. PendingAccounts'
  <2>1. IsFiniteSet(Placed) /\ Cardinality(Placed) = pending
    BY PlacesType, FiniteSubsets DEF AdmissionInv, Admission, PendingAccounts
  <2>2. Cardinality(Placed \cup {c}) = pending + 1
    BY <2>1, RoomLeft, FS_AddElement
  <2>3. /\ Placed' = Placed \cup {c} /\ Admitted' = Admitted \cup {c}
        /\ create'[c].pc = "admitted"
        /\ \A d \in Creations : d # c => create'[d] = create[d]
    BY TakePlaceSets
  <2>4. pending' = pending + 1 /\ mode' = mode
    BY DEF TakePlace
  <2>5. pending' = Cardinality(Placed')
    BY <2>2, <2>3, <2>4
  <2>6. \A d \in Placed' : create'[d].pc \in {"admitted", "committed", "refused", "unwinding"}
    BY <2>3, PlacesType DEF AdmissionInv, Admission, PendingAccounts
  <2>7. mode' = "on" => Admitted' \subseteq Placed'
    BY <2>3, <2>4 DEF AdmissionInv, Admission, PendingAccounts
  <2> QED
    BY <2>5, <2>6, <2>7 DEF PendingAccounts
<1>2. CountCovers'
  <2>1. \A d \in Creations : create'[d].pc # "counted"
    <3>1. lock = c /\ \A d \in Creations : create[d].pc = "counted" => lock = d
      BY Zenon DEF TakePlace, AdmissionInv, Admission, CountCovers
    <3>2. /\ create'[c].pc = "admitted"
          /\ \A d \in Creations : d # c => create'[d] = create[d]
      BY TakePlaceSets
    <3> QED
      BY <3>1, <3>2
  <2> QED
    BY <2>1 DEF CountCovers
<1>3. PlacesBounded'
  <2>1. /\ IsFiniteSet(Occupied) /\ Cardinality(Occupied) \in Nat
        /\ c \notin Occupied /\ Cardinality(Occupied) < MaxConcurrentRuns
        /\ MaxConcurrentRuns \in Nat
    BY RoomLeft, FiniteSubsets, AdmissionAssumption
  <2>2. Cardinality(Occupied \cup {c}) = Cardinality(Occupied) + 1
    BY <2>1, FS_AddElement
  <2>3. Cardinality(Occupied \cup {c}) <= MaxConcurrentRuns
    BY <2>1, <2>2
  <2>4. Occupied' = Occupied \cup {c}
    BY TakePlaceSets
  <2>5. Cardinality(Occupied') <= MaxConcurrentRuns
    BY <2>3, <2>4
  <2> QED
    BY <2>5 DEF PlacesBounded, Occupied
<1> QED
  BY <1>1, <1>2, <1>3 DEF Admission

LEMMA RefusePlaceAdmission ==
    ASSUME AdmissionInv, NEW c \in Creations, RefusePlace(c)
    PROVE  Admission'
<1>1. /\ create'[c] = [create[c] EXCEPT !.pc = "refused", !.seen = {}]
      /\ \A d \in Creations : d # c => create'[d] = create[d]
      /\ create[c] \in Request
  BY OthersKept, RequestType DEF RefusePlace, AdmissionInv, TypeOK
<1>2. /\ create[c].pc = "counted" /\ create'[c].pc = "refused"
      /\ create'[c].place = create[c].place
  <2>1. create[c].pc = "counted"
    BY DEF RefusePlace
  <2> QED
    BY <1>1, <2>1 DEF Request
<1>3. Placed' = Placed /\ Admitted' = Admitted /\ Busy' = Busy
  BY <1>1, <1>2 DEF RefusePlace, Placed, Admitted, Busy
<1>4. \A d \in Creations : create'[d].pc # "counted"
  BY <1>1, <1>2 DEF AdmissionInv, Admission, CountCovers
<1>5. c \notin Placed
  BY <1>2 DEF AdmissionInv, Admission, PendingAccounts
<1>6. \A d \in Placed : create'[d].pc \in {"admitted", "committed", "refused", "unwinding"}
  BY <1>1, <1>5, PlacesType DEF AdmissionInv, Admission, PendingAccounts
<1>7. mode = "on" => Admitted' \subseteq Placed
  BY <1>3 DEF AdmissionInv, Admission, PendingAccounts
<1>8. mode' = mode /\ pending' = pending /\ Occupied' \subseteq Occupied
  BY <1>3 DEF RefusePlace, Occupied
<1> QED
  BY <1>3, <1>4, <1>6, <1>7, <1>8, Quiet, Zenon DEF AdmissionInv

\* A step that changes nothing of a creation but its progress and its history.
LEMMA QuietProgress ==
    ASSUME AdmissionInv, NEW c \in Creations,
           mode' = mode, pending' = pending, lock' = lock,
           \A d \in Creations : d # c => create'[d] = create[d] /\ run'[d] = run[d],
           create'[c].place = create[c].place, create'[c].pc # "counted",
           c \in Placed => create'[c].pc \in {"admitted", "committed", "refused", "unwinding"},
           mode = "on" /\ create'[c].pc = "admitted" => c \in Placed,
           mode = "on" /\ (create'[c].pc = "admitted" \/ run'[c] = "BUSY") => c \in Occupied
    PROVE  Admission'
<1>1. Placed' = Placed
  BY DEF Placed
<1>2. \A d \in Placed : create'[d].pc \in {"admitted", "committed", "refused", "unwinding"}
  BY PlacesType DEF AdmissionInv, Admission, PendingAccounts
<1>3. mode = "on" => Admitted' \subseteq Placed
  BY DEF AdmissionInv, Admission, PendingAccounts, Admitted
<1>4. mode = "on" => Occupied' \subseteq Occupied
  BY DEF Occupied, Busy, Admitted
<1>5. \A d \in Creations : create'[d].pc = "counted" =>
         create[d].pc = "counted" /\ create'[d].seen = create[d].seen /\ lock' = d
  BY DEF AdmissionInv, Admission, CountCovers
<1> QED
  BY <1>1, <1>2, <1>3, <1>4, <1>5, Quiet DEF AdmissionInv

\* What becomes of a request when it reads the clock and when the guards decide.
LEMMA TurnedFields ==
    /\ Turned.pc = "done" /\ Turned.place = FALSE
    /\ Turned.at = Never /\ Turned.got = Never /\ Turned.refunded = Never
BY DEF Turned, NewRequest

LEMMA StampedFields ==
    ASSUME NEW old \in Request, NEW a, NEW t
    PROVE  /\ Stamped(old, a, t).pc = "stamped" /\ Stamped(old, a, t).address = a
           /\ Stamped(old, a, t).at = t /\ Stamped(old, a, t).got = old.got
           /\ Stamped(old, a, t).refunded = old.refunded
           /\ Stamped(old, a, t).place = old.place
<1>1. Stamped(old, a, t).pc = "stamped" /\ Stamped(old, a, t).address = a
  BY DEF Request, Stamped
<1>2. Stamped(old, a, t).at = t /\ Stamped(old, a, t).got = old.got
  BY DEF Request, Stamped
<1>3. Stamped(old, a, t).refunded = old.refunded /\ Stamped(old, a, t).place = old.place
  BY DEF Request, Stamped
<1> QED
  BY <1>1, <1>2, <1>3

LEMMA ReservedFields ==
    ASSUME NEW old \in Request, NEW t
    PROVE  /\ Reserved(old, t).pc = "reserved" /\ Reserved(old, t).address = old.address
           /\ Reserved(old, t).at = old.at /\ Reserved(old, t).got = t
           /\ Reserved(old, t).refunded = old.refunded
           /\ Reserved(old, t).place = old.place
<1>1. Reserved(old, t).pc = "reserved" /\ Reserved(old, t).address = old.address
  BY DEF Request, Reserved
<1>2. Reserved(old, t).at = old.at /\ Reserved(old, t).got = t
  BY DEF Request, Reserved
<1>3. Reserved(old, t).refunded = old.refunded /\ Reserved(old, t).place = old.place
  BY DEF Request, Reserved
<1> QED
  BY <1>1, <1>2, <1>3

LEMMA BeginShape ==
    ASSUME TypeOK, NEW c \in Creations, NEW a \in Addresses \cup {NoAddress}, Begin(c, a)
    PROVE  /\ create[c].pc = "new" /\ create[c] \in Request
           /\ UNCHANGED <<mode, now, run, lock, pending, acted, guardVars>>
           /\ \A d \in Creations : d # c => create'[d] = create[d]
           /\ \/ create'[c] = Turned
              \/ mode = "off" /\ create'[c] = [create[c] EXCEPT !.pc = "admitted"]
              \/ mode = "on" /\ create'[c] = Stamped(create[c], a, now)
<1>0. /\ create[c] \in Request /\ create \in [Creations -> Request] /\ create[c].pc = "new"
      /\ UNCHANGED <<mode, now, run, lock, pending, acted, guardVars>>
  BY RequestType DEF Begin, serviceVars
<1>1. CASE create' = [create EXCEPT ![c] = Turned]
  BY <1>0, <1>1
<1>2. CASE mode = "off" /\ create' = [create EXCEPT ![c].pc = "admitted"]
  BY <1>0, <1>2
<1>3. CASE /\ mode = "on"
           /\ create' = [create EXCEPT ![c].pc = "stamped", ![c].address = a, ![c].at = now]
  BY <1>0, <1>3 DEF Stamped
<1> QED
  BY <1>1, <1>2, <1>3 DEF Begin

LEMMA TryBeginRunShape ==
    ASSUME TypeOK, NEW c \in Creations, TryBeginRun(c)
    PROVE  /\ create[c].pc = "stamped" /\ create[c] \in Request
           /\ UNCHANGED <<mode, run, lock, pending>>
           /\ \A d \in Creations : d # c => create'[d] = create[d]
           /\ create'[c] = Turned \/ create'[c] = Reserved(create[c], now)
<1>0. /\ create[c] \in Request /\ create \in [Creations -> Request]
      /\ create[c].pc = "stamped" /\ UNCHANGED <<mode, run, lock, pending>>
  BY RequestType, Reserving, Zenon
<1>1. PICK n \in 0 .. Len(Window(create[c].address)) : Denies(c, n) \/ Grants(c, n)
  BY Reserving, Zenon
<1>2. CASE create' = [create EXCEPT ![c] = Turned]
  BY <1>0, <1>2
<1>3. CASE create' = [create EXCEPT ![c].pc = "reserved", ![c].got = now]
  BY <1>0, <1>3 DEF Reserved
<1> QED
  BY <1>1, <1>2, <1>3, Zenon DEF Denies, Grants

\* Neither step takes a place.
LEMMA BeginAdmission ==
    ASSUME AdmissionInv, NEW c \in Creations,
           \/ \E a \in Addresses \cup {NoAddress} : Begin(c, a)
           \/ TryBeginRun(c)
    PROVE  /\ Admission' /\ UNCHANGED <<mode, run>>
           /\ create[c].pc \in {"new", "stamped"}
           /\ \A d \in Creations : d # c => create'[d] = create[d]
           /\ create'[c].pc \in {"stamped", "reserved"} => mode = "on"
           /\ mode = "on" => create'[c].pc # "admitted"
<1>1. /\ create[c].pc \in {"new", "stamped"} /\ create[c] \in Request
      /\ UNCHANGED <<mode, run, lock, pending>>
      /\ \A d \in Creations : d # c => create'[d] = create[d]
      /\ \/ create'[c] = Turned
         \/ mode = "off" /\ create'[c] = [create[c] EXCEPT !.pc = "admitted"]
         \/ mode = "on" /\ \E a : create'[c] = Stamped(create[c], a, now)
         \/ mode = "on" /\ create'[c] = Reserved(create[c], now)
  <2>1. ASSUME NEW a \in Addresses \cup {NoAddress}, Begin(c, a)
        PROVE  <1>1!:
    BY <2>1, BeginShape DEF AdmissionInv
  <2>2. CASE TryBeginRun(c)
    <3>1. /\ create[c].pc = "stamped" /\ create[c] \in Request
          /\ UNCHANGED <<mode, run, lock, pending>>
          /\ \A d \in Creations : d # c => create'[d] = create[d]
          /\ create'[c] = Turned \/ create'[c] = Reserved(create[c], now)
      BY <2>2, TryBeginRunShape DEF AdmissionInv
    <3>2. mode = "on"
      BY <3>1 DEF AdmissionInv, OnlyOn
    <3> QED
      BY <3>1, <3>2
  <2> QED
    BY <2>1, <2>2
<1>2. c \notin Placed /\ run[c] # "BUSY"
  BY <1>1 DEF AdmissionInv, Admission, PendingAccounts, NewRuns
<1>3. create[c].place = FALSE
  BY <1>1, <1>2 DEF Placed, Request
<1>4. /\ create'[c].place = FALSE
      /\ \/ create'[c].pc = "done"
         \/ mode = "off" /\ create'[c].pc = "admitted"
         \/ mode = "on" /\ create'[c].pc \in {"stamped", "reserved"}
  <2>1. CASE create'[c] = Turned
    BY <2>1, TurnedFields
  <2>2. CASE mode = "off" /\ create'[c] = [create[c] EXCEPT !.pc = "admitted"]
    BY <1>1, <1>3, <2>2 DEF Request
  <2>3. CASE mode = "on" /\ \E a : create'[c] = Stamped(create[c], a, now)
    BY <1>1, <1>3, <2>3, StampedFields
  <2>4. CASE mode = "on" /\ create'[c] = Reserved(create[c], now)
    BY <1>1, <1>3, <2>4, ReservedFields
  <2> QED
    BY <1>1, <2>1, <2>2, <2>3, <2>4
<1>5. Admission'
  BY <1>1, <1>2, <1>3, <1>4, QuietProgress
<1> QED
  BY <1>1, <1>4, <1>5

LEMMA CommitAdmission ==
    ASSUME AdmissionInv, NEW c \in Creations, Commit(c) \/ FailCreation(c) \/ Refund(c)
    PROVE  Admission'
<1>1. create[c] \in Request /\ create \in [Creations -> Request]
      /\ run \in [Creations -> {"ABSENT", "BUSY", "CLOSED"}]
  BY RequestType DEF AdmissionInv, TypeOK, Request
<1>2. CASE Commit(c)
  <2>1. /\ create[c].pc = "admitted" /\ mode' = mode /\ pending' = pending /\ lock' = lock
        /\ \A d \in Creations : d # c => create'[d] = create[d] /\ run'[d] = run[d]
        /\ create'[c].place = create[c].place /\ create'[c].pc = "committed"
    BY <1>1, <1>2 DEF Commit, Request, serviceVars
  <2>2. c \in Occupied
    BY <2>1 DEF Occupied, Admitted
  <2> QED
    BY <2>1, <2>2, QuietProgress
<1>3. CASE FailCreation(c)
  <2>1. /\ create[c].pc = "admitted" /\ mode' = mode /\ pending' = pending /\ lock' = lock
        /\ \A d \in Creations : d # c => create'[d] = create[d] /\ run'[d] = run[d]
        /\ create'[c].place = create[c].place /\ create'[c].pc = "refused"
    BY <1>1, <1>3 DEF FailCreation, Request, serviceVars
  <2>2. c \in Occupied
    BY <2>1 DEF Occupied, Admitted
  <2> QED
    BY <2>1, <2>2, QuietProgress
<1>4. CASE Refund(c)
  <2>1. /\ create[c].pc = "refused" /\ mode' = mode /\ pending' = pending /\ lock' = lock
        /\ \A d \in Creations : d # c => create'[d] = create[d] /\ run'[d] = run[d]
        /\ create'[c].place = create[c].place /\ create'[c].pc = "unwinding"
        /\ run'[c] = run[c]
    BY <1>1, <1>4 DEF Refund, Request, serviceVars
  <2>2. run'[c] = "BUSY" => c \in Occupied
    BY <2>1 DEF Occupied, Busy
  <2> QED
    BY <2>1, <2>2, QuietProgress
<1> QED
  BY <1>2, <1>3, <1>4

LEMMA FinishAdmission ==
    ASSUME AdmissionInv, NEW c \in Creations, Finish(c)
    PROVE  Admission'
<1>1. /\ create'[c] = [create[c] EXCEPT !.pc = "done", !.place = FALSE]
      /\ \A d \in Creations : d # c => create'[d] = create[d]
      /\ create[c] \in Request
  BY OthersKept, RequestType DEF Finish, AdmissionInv, TypeOK
<1>2. /\ create[c].pc \in {"committed", "unwinding"} /\ create'[c].pc = "done"
      /\ create'[c].place = FALSE
      /\ mode' = mode /\ run' = run /\ lock' = lock
  BY <1>1 DEF Request, Finish
<1>3. CASE c \notin Placed
  <2>1. create[c].place = FALSE
    BY <1>1, <1>3 DEF Placed, Request
  <2>2. pending' = pending
    BY <2>1 DEF Finish
  <2>3. run'[c] = "BUSY" => c \in Occupied
    BY <1>2 DEF Occupied, Busy
  <2> QED
    BY <1>1, <1>2, <1>3, <2>1, <2>2, <2>3, QuietProgress
<1>4. CASE c \in Placed
  <2>1. lock = NoCreation /\ create[c].place
    BY <1>4 DEF Finish, Placed
  <2>2. Placed' = Placed \ {c} /\ Admitted' = Admitted /\ Busy' = Busy /\ c \notin Admitted
    BY <1>1, <1>2 DEF Placed, Admitted, Busy
  <2>3. PendingAccounts'
    <3>1. IsFiniteSet(Placed) /\ Cardinality(Placed) = pending /\ pending \in Nat
      BY PlacesType, FiniteSubsets DEF AdmissionInv, Admission, PendingAccounts, TypeOK
    <3>2. Cardinality(Placed \ {c}) = pending - 1
      BY <3>1, <1>4, FS_RemoveElement
    <3>3. pending > 0
      BY <3>1, <1>4, FS_EmptySet
    <3>4. pending' = pending - 1
      BY <2>1, <3>3 DEF Finish
    <3>5. pending' = Cardinality(Placed')
      BY <2>2, <3>2, <3>4
    <3>6. \A d \in Placed' : create'[d].pc \in {"admitted", "committed", "refused", "unwinding"}
      BY <1>1, <2>2, PlacesType DEF AdmissionInv, Admission, PendingAccounts
    <3>7. mode' = "on" => Admitted' \subseteq Placed'
      BY <1>2, <2>2 DEF AdmissionInv, Admission, PendingAccounts
    <3> QED
      BY <3>5, <3>6, <3>7 DEF PendingAccounts
  <2>4. CountCovers'
    <3>1. \A d \in Creations : create[d].pc # "counted"
      BY <2>1, AdmissionAssumption DEF AdmissionInv, Admission, CountCovers
    <3>2. \A d \in Creations : create'[d].pc # "counted"
      BY <3>1, <1>1, <1>2
    <3> QED
      BY <3>2 DEF CountCovers
  <2>5. PlacesBounded'
    BY <1>2, <2>2, Zenon DEF AdmissionInv, Admission, PlacesBounded
  <2> QED
    BY <2>3, <2>4, <2>5 DEF Admission
<1> QED
  BY <1>3, <1>4

LEMMA RestAdmission ==
    ASSUME AdmissionInv, \/ \E c \in Creations : CloseRun(c) \/ TryAction(c)
                         \/ Tick \/ Restart \/ UNCHANGED vars
    PROVE  Admission'
<1>1. ASSUME NEW c \in Creations, CloseRun(c)
      PROVE  Admission'
  <2>1. /\ UNCHANGED <<mode, lock, pending, create>>
        /\ Busy' \subseteq Busy
    BY <1>1 DEF CloseRun, serviceVars, AdmissionInv, TypeOK, Busy
  <2>2. Placed' = Placed /\ Admitted' = Admitted /\ Occupied' \subseteq Occupied
    BY <2>1 DEF Placed, Admitted, Occupied
  <2>3. \A d \in Placed : create'[d].pc \in {"admitted", "committed", "refused", "unwinding"}
    BY <2>1 DEF AdmissionInv, Admission, PendingAccounts
  <2>4. mode = "on" => Admitted' \subseteq Placed
    BY <2>2 DEF AdmissionInv, Admission, PendingAccounts
  <2>5. \A d \in Creations : create'[d].pc = "counted" =>
           create[d].pc = "counted" /\ create'[d].seen = create[d].seen /\ lock' = d
    BY <2>1 DEF AdmissionInv, Admission, CountCovers
  <2> QED
    BY <2>1, <2>2, <2>3, <2>4, <2>5, Quiet DEF AdmissionInv
<1>2. CASE UNCHANGED <<mode, run, lock, pending, create>>
  BY <1>2 DEF AdmissionInv, Admission, PendingAccounts, CountCovers, PlacesBounded,
              Placed, Admitted, Busy
<1>3. ASSUME NEW c \in Creations, TryAction(c)
      PROVE  UNCHANGED <<mode, run, lock, pending, create>>
  BY <1>3 DEF TryAction, serviceVars
<1>4. Tick \/ UNCHANGED vars => UNCHANGED <<mode, run, lock, pending, create>>
  BY DEF Tick, vars, serviceVars
<1>5. CASE Restart
  <2>1. \A d \in Creations : create'[d].pc \in {"new", "done"} /\ create'[d].place = FALSE
    BY <1>5, TurnedFields DEF Restart, NewRequest
  <2>2. /\ Placed' = {} /\ Admitted' = {} /\ Busy' = Busy
        /\ mode' = mode /\ pending' = 0
    BY <1>5, <2>1 DEF Restart, Placed, Admitted, Busy
  <2>3. PendingAccounts'
    BY <2>2, FS_EmptySet DEF PendingAccounts
  <2>4. CountCovers'
    BY <2>1 DEF CountCovers
  <2>5. PlacesBounded'
    <3>1. SUFFICES ASSUME mode = "on"
                   PROVE  Cardinality(Busy) <= MaxConcurrentRuns
      BY <2>2 DEF PlacesBounded
    <3>2. Cardinality(Busy) <= Cardinality(Occupied)
      BY PlacesType, CardinalityMonotone DEF Occupied
    <3>3. Cardinality(Occupied) <= MaxConcurrentRuns
      BY <3>1 DEF AdmissionInv, Admission, PlacesBounded, Occupied
    <3>4. /\ Cardinality(Occupied) \in Nat /\ Cardinality(Busy) \in Nat
          /\ MaxConcurrentRuns \in Nat
      BY PlacesType, FiniteSubsets, AdmissionAssumption DEF Occupied
    <3> QED
      BY <3>2, <3>3, <3>4
  <2> QED
    BY <2>3, <2>4, <2>5 DEF Admission
<1> QED
  BY <1>1, <1>2, <1>3, <1>4, <1>5

LEMMA AdmissionInvInit == Init => AdmissionInv
<1> SUFFICES ASSUME Init PROVE AdmissionInv
  OBVIOUS
<1>1. \A c \in Creations : create[c].pc = "new" /\ create[c].place = FALSE /\ run[c] = "ABSENT"
  BY DEF Init, NewRequest
<1>2. Placed = {} /\ Admitted = {} /\ Busy = {} /\ pending = 0
  BY <1>1 DEF Placed, Admitted, Busy, Init
<1>3. Admission
  BY <1>1, <1>2, FS_EmptySet, AdmissionAssumption
     DEF Admission, PendingAccounts, CountCovers, PlacesBounded
<1> QED
  BY <1>1, <1>3, AdmissionInitType DEF AdmissionInv, OnlyOn, NewRuns

\* Where OnlyOn and NewRuns come from.
LEMMA ProgressKept ==
    ASSUME AdmissionInv, [Next]_vars
    PROVE  OnlyOn' /\ NewRuns'
<1>1. ASSUME NEW c \in Creations,
             \/ \E a \in Addresses \cup {NoAddress} : Begin(c, a)
             \/ TryBeginRun(c)
      PROVE  OnlyOn' /\ NewRuns'
  <2>1. /\ create[c].pc \in {"new", "stamped"}
        /\ UNCHANGED <<mode, run>>
        /\ \A d \in Creations : d # c => create'[d] = create[d]
        /\ create'[c].pc \in {"stamped", "reserved"} => mode = "on"
    BY <1>1, BeginAdmission
  <2> QED
    BY <2>1 DEF AdmissionInv, OnlyOn, NewRuns
<1>2. ASSUME NEW c \in Creations, Proceed(c), ~TryBeginRun(c)
      PROVE  OnlyOn' /\ NewRuns'
  <2>0. create \in [Creations -> Request] /\ run \in [Creations -> {"ABSENT", "BUSY", "CLOSED"}]
    BY DEF AdmissionInv, TypeOK, Request
  <2>1. /\ mode' = mode
        /\ \A d \in Creations : d # c => create'[d] = create[d] /\ run'[d] = run[d]
        /\ create'[c].pc \notin {"stamped", "reserved"}
        /\ \/ run'[c] = run[c] /\ create[c].pc \notin {"committed", "done"}
           \/ create'[c].pc \in {"committed", "done"}
    BY <1>2, <2>0 DEF Proceed, CountBusy, TakePlace, RefusePlace, Commit, FailCreation,
                      Refund, Finish, Request
  <2> QED
    BY <2>1 DEF AdmissionInv, OnlyOn, NewRuns
<1>3. ASSUME NEW c \in Creations, CloseRun(c)
      PROVE  OnlyOn' /\ NewRuns'
  BY <1>3 DEF CloseRun, AdmissionInv, OnlyOn, NewRuns, TypeOK
<1>4. CASE UNCHANGED <<mode, run, create>>
  BY <1>4 DEF AdmissionInv, OnlyOn, NewRuns
<1>5. ASSUME NEW c \in Creations, TryAction(c)
      PROVE  UNCHANGED <<mode, run, create>>
  BY <1>5 DEF TryAction
<1>6. Tick \/ UNCHANGED vars => UNCHANGED <<mode, run, create>>
  BY DEF Tick, vars
<1>7. CASE Restart
  BY <1>7, TurnedFields DEF Restart, NewRequest, AdmissionInv, OnlyOn, NewRuns
<1> QED
  BY <1>1, <1>2, <1>3, <1>4, <1>5, <1>6, <1>7 DEF Next

LEMMA AdmissionInvStep ==
    ASSUME AdmissionInv, [Next]_vars
    PROVE  AdmissionInv'
<1>1. TypeOK'
  BY AdmissionStepType DEF AdmissionInv
<1>2. Admission'
  BY BeginAdmission, CountBusyAdmission, TakePlaceAdmission, RefusePlaceAdmission,
     CommitAdmission, FinishAdmission, RestAdmission
     DEF Next, Proceed
<1> QED
  BY <1>1, <1>2, ProgressKept DEF AdmissionInv

LEMMA AdmissionInvariant == Spec => []AdmissionInv
BY AdmissionInvInit, AdmissionInvStep, PTL DEF Spec

\* With the guards on, the busy runs never exceed the configured cap,
\* whatever creations overlap in create_run, fail, or are cut short.
THEOREM CapIsKept == Spec => []CapHolds
<1>1. AdmissionInv => CapHolds
  <2> SUFFICES ASSUME AdmissionInv, mode = "on"
               PROVE  Cardinality(Busy) <= MaxConcurrentRuns
    BY DEF CapHolds
  <2>1. Cardinality(Busy) <= Cardinality(Occupied)
    BY PlacesType, CardinalityMonotone DEF Occupied
  <2>2. Cardinality(Occupied) <= MaxConcurrentRuns
    BY DEF AdmissionInv, Admission, PlacesBounded, Occupied
  <2>3. /\ Cardinality(Occupied) \in Nat /\ Cardinality(Busy) \in Nat
        /\ MaxConcurrentRuns \in Nat
    BY PlacesType, FiniteSubsets, AdmissionAssumption DEF Occupied
  <2> QED
    BY <2>1, <2>2, <2>3
<1> QED
  BY <1>1, AdmissionInvariant, PTL

-----------------------------------------------------------------------------
(* Admission implements the pool of places. *)

\* The places of the pool.
Held == IF mode = "on" THEN Occupied ELSE {}

\* Whether the guards are on is settled when the process starts.
LEMMA ModeFixed == ASSUME [Next]_vars PROVE mode' = mode
BY DEF Next, Begin, Proceed, TryBeginRun, CountBusy, TakePlace, RefusePlace, Commit, FailCreation, Refund,
       Finish, CloseRun, TryAction, Tick, Restart, vars

\* Who occupies a place after a step: one more after a place was taken,
\* nobody more otherwise.
LEMMA OccupiedStep ==
    ASSUME AdmissionInv, [Next]_vars, mode = "on"
    PROVE  /\ mode' = mode
           /\ \/ Occupied' \subseteq Occupied
              \/ \E c \in Creations : TakePlace(c)
<1>1. ASSUME NEW c \in Creations,
             \/ \E a \in Addresses \cup {NoAddress} : Begin(c, a)
             \/ TryBeginRun(c)
      PROVE  mode' = mode /\ Occupied' \subseteq Occupied
  <2>1. /\ UNCHANGED <<mode, run>>
        /\ \A d \in Creations : d # c => create'[d] = create[d]
        /\ create'[c].pc # "admitted"
    BY <1>1, BeginAdmission
  <2> QED
    BY <2>1 DEF Occupied, Busy, Admitted
<1>2. ASSUME NEW c \in Creations, Proceed(c), ~TakePlace(c), ~TryBeginRun(c)
      PROVE  mode' = mode /\ Occupied' \subseteq Occupied
  <2>0. create \in [Creations -> Request] /\ run \in [Creations -> {"ABSENT", "BUSY", "CLOSED"}]
    BY DEF AdmissionInv, TypeOK, Request
  <2>1. /\ mode' = mode
        /\ \A d \in Creations : d # c => create'[d] = create[d] /\ run'[d] = run[d]
        /\ create'[c].pc # "admitted"
        /\ run'[c] = run[c] \/ create[c].pc = "admitted"
    BY <1>2, <2>0 DEF Proceed, CountBusy, RefusePlace, Commit, FailCreation,
                      Refund, Finish, Request
  <2> QED
    BY <2>1 DEF Occupied, Busy, Admitted
<1>3. ASSUME NEW c \in Creations, CloseRun(c)
      PROVE  mode' = mode /\ Occupied' \subseteq Occupied
  BY <1>3 DEF CloseRun, AdmissionInv, TypeOK, Occupied, Busy, Admitted
<1>4. ASSUME NEW c \in Creations, TryAction(c)
      PROVE  mode' = mode /\ Occupied' \subseteq Occupied
  <2>1. UNCHANGED <<mode, run, create>>
    BY <1>4 DEF TryAction
  <2> QED
    BY <2>1 DEF Occupied, Busy, Admitted
<1>5. CASE Tick \/ UNCHANGED vars
  BY <1>5 DEF Tick, vars, Occupied, Busy, Admitted
<1>6. CASE Restart
  BY <1>6, TurnedFields DEF Restart, NewRequest, Occupied, Busy, Admitted
<1> QED
  BY <1>1, <1>2, <1>3, <1>4, <1>5, <1>6, ModeFixed DEF Next

\* The pool counts with the same cardinality.
LEMMA SameCardinality == \A S : Pool!Cardinality(S) = Cardinality(S)
BY DEF Pool!Cardinality, Cardinality, Pool!IsFiniteSet, IsFiniteSet

\* The specification of admission implements the pool: a place is acquired
\* in TakePlace, only while there is one, and otherwise only given back.
THEOREM AdmissionIsAPool == Spec => ImplementsPool
<1>1. Init => Held = {}
  BY DEF Init, NewRequest, Held, Occupied, Busy, Admitted
<1>2. ASSUME AdmissionInv, [Next]_vars
      PROVE  \/ \E h \in Creations : /\ h \notin Held
                                     /\ Cardinality(Held) < MaxConcurrentRuns
                                     /\ Held' = Held \cup {h}
             \/ \E hs \in SUBSET Held : hs \subseteq Held /\ Held' = Held \ hs
  <2>1. mode' = mode
    BY <1>2, ModeFixed
  <2>2. CASE mode # "on"
    BY <2>1, <2>2 DEF Held
  <2>3. CASE mode = "on"
    <3>1. Held = Occupied /\ Held' = Occupied'
      BY <2>1, <2>3 DEF Held
    <3>2. CASE Occupied' \subseteq Occupied
      <4>1. Occupied' = Occupied \ (Occupied \ Occupied')
        BY <3>2
      <4> QED
        BY <3>1, <4>1
    <3>3. ASSUME NEW c \in Creations, TakePlace(c)
          PROVE  /\ c \notin Held /\ Cardinality(Held) < MaxConcurrentRuns
                 /\ Held' = Held \cup {c}
      BY <1>2, <3>1, <3>3, RoomLeft, TakePlaceSets
    <3> QED
      BY <1>2, <2>3, <3>2, <3>3, OccupiedStep
  <2> QED
    BY <2>2, <2>3
<1>3. Init => Pool!Init
  BY <1>1 DEF Pool!Init, Held, Occupied
<1>4. AdmissionInv /\ [Next]_vars => [Pool!Next]_(IF mode = "on" THEN Busy \cup Admitted ELSE {})
  BY <1>2, SameCardinality DEF Pool!Next, Pool!Acquire, Pool!Release, Held, Occupied
<1> QED
  BY <1>3, <1>4, AdmissionInvariant, PTL DEF Spec, ImplementsPool, Pool!Spec

-----------------------------------------------------------------------------
(* Days. *)

LEMMA Quotient ==
    ASSUME NEW d \in Nat \ {0}, NEW t \in Nat
    PROVE  /\ t \div d \in Nat /\ t % d \in 0 .. (d - 1)
           /\ t = d * (t \div d) + (t % d)
OBVIOUS

LEMMA NextMultiple ==
    ASSUME NEW d \in Nat \ {0}, NEW p \in Nat, NEW q \in Nat, q >= p + 1
    PROVE  d * q >= d * p + d
OBVIOUS

\* A later time is of no earlier day.
LEMMA DayMonotone ==
    ASSUME NEW t \in Nat, NEW u \in Nat, t <= u
    PROVE  DayOf(t) <= DayOf(u)
<1> DEFINE p == u \div Day
           q == t \div Day
           dp == Day * p
           dq == Day * q
           up == u % Day
           tq == t % Day
<1>0. Day \in Nat \ {0}
  BY AdmissionAssumption
<1>1. p \in Nat /\ u = dp + up /\ up \in 0 .. (Day - 1)
  BY <1>0, Quotient
<1>2. q \in Nat /\ t = dq + tq /\ tq \in 0 .. (Day - 1)
  BY <1>0, Quotient
<1>3. dp \in Int /\ dq \in Int
  BY <1>0, <1>1, <1>2
<1>4. q >= p + 1 => dq >= dp + Day
  BY <1>0, <1>1, <1>2, NextMultiple
<1> HIDE DEF p, q, dp, dq, up, tq
<1>5. q <= p
  BY <1>0, <1>1, <1>2, <1>3, <1>4
<1> QED
  BY <1>5 DEF DayOf, p, q

-----------------------------------------------------------------------------
(* The sets the limits are about, as functions of the requests. *)

RatedIn(requests, a, t) ==
    {c \in Creations : /\ requests[c].address = a
                       /\ requests[c].got # Never
                       /\ t - Minute < requests[c].at
                       /\ requests[c].got <= t}

ReservedIn(requests, d) ==
    {c \in Creations : /\ requests[c].got # Never /\ DayOf(requests[c].got) = d
                       /\ requests[c].refunded = Never}

LateIn(requests, d) ==
    {c \in Creations : requests[c].refunded = d /\ DayOf(requests[c].got) # d}

Rates(requests) ==
    \A a \in Addresses, t \in 0 .. MaxTime :
        Cardinality(RatedIn(requests, a, t)) <= RunsPerMinute

Budget(requests, day, runs, actions, done) ==
    /\ runs <= Cardinality(ReservedIn(requests, day))
    /\ Cardinality(ReservedIn(requests, day)) <= runs + Cardinality(LateIn(requests, day))
    /\ runs <= RunsPerDay
    /\ actions = done[day]
    /\ \A d \in Days : done[d] <= ActionsPerDay

LEMMA LimitsUnfold ==
    /\ GuardsHold <=> Rates(create) /\ Budget(create, guardDay, runsToday, actionsToday, acted)
    /\ GuardsHold' <=> /\ Rates(create')
                       /\ Budget(create', guardDay', runsToday', actionsToday', acted')
BY DEF GuardsHold, RateHolds, BudgetAccounts, ReservedOn, LateRefunds, Rates, Budget, RatedIn,
       ReservedIn, LateIn

LEMMA LimitSets ==
    ASSUME NEW requests, NEW a, NEW t
    PROVE  /\ RatedIn(requests, a, t) \in SUBSET Creations
           /\ ReservedIn(requests, t) \in SUBSET Creations
           /\ LateIn(requests, t) \in SUBSET Creations
           /\ Cardinality(RatedIn(requests, a, t)) \in Nat
           /\ Cardinality(ReservedIn(requests, t)) \in Nat
           /\ Cardinality(LateIn(requests, t)) \in Nat
<1>1. /\ RatedIn(requests, a, t) \in SUBSET Creations
      /\ ReservedIn(requests, t) \in SUBSET Creations
      /\ LateIn(requests, t) \in SUBSET Creations
  BY DEF RatedIn, ReservedIn, LateIn
<1> QED
  BY <1>1, FiniteSubsets

\* What a limit is about does not depend on the progress of a request, nor on
\* what a request has read of the clock before it reserved.
LEMMA SameRates ==
    ASSUME NEW old, NEW new, Rates(old),
           \A c \in Creations :
              /\ new[c].got = old[c].got
              /\ old[c].got # Never => new[c].address = old[c].address /\ new[c].at = old[c].at
    PROVE  Rates(new)
<1>1. ASSUME NEW a, NEW t
      PROVE  RatedIn(new, a, t) = RatedIn(old, a, t)
  <2>1. \A c \in Creations : c \in RatedIn(new, a, t) <=> c \in RatedIn(old, a, t)
    BY DEF RatedIn
  <2> QED
    BY <2>1 DEF RatedIn
<1> QED
  BY <1>1, Zenon DEF Rates

LEMMA SameReserved ==
    ASSUME NEW old, NEW new,
           \A c \in Creations : new[c].got = old[c].got /\ new[c].refunded = old[c].refunded
    PROVE  \A d : ReservedIn(new, d) = ReservedIn(old, d) /\ LateIn(new, d) = LateIn(old, d)
BY DEF ReservedIn, LateIn

-----------------------------------------------------------------------------
(* What the window remembers. *)

Remembers(entries, c) == \E i \in 1 .. Len(entries) : entries[i] = c

\* A window has no more creations than entries.
LEMMA EntriesBounded ==
    ASSUME NEW s \in Seq(Creations)
    PROVE  Cardinality({c \in Creations : Remembers(s, c)}) <= Len(s)
<1> DEFINE E == {c \in Creations : Remembers(s, c)}
<1>1. s \in [1 .. Len(s) -> E] /\ \A c \in E : \E i \in 1 .. Len(s) : s[i] = c
  BY DEF Remembers
<1>2. ExistsSurjection(1 .. Len(s), E)
  BY <1>1 DEF ExistsSurjection, Surjection
<1>3. Len(s) \in Nat
  OBVIOUS
<1> QED
  BY <1>2, <1>3, FS_SurjCardinalityBound

LEMMA AppendRemembers ==
    ASSUME NEW s \in Seq(Creations), NEW c \in Creations
    PROVE  /\ Remembers(Append(s, c), c)
           /\ \A d : Remembers(s, d) => Remembers(Append(s, c), d)
<1>1. /\ Len(Append(s, c)) = Len(s) + 1 /\ Len(s) \in Nat
      /\ Append(s, c)[Len(s) + 1] = c
      /\ \A i \in 1 .. Len(s) : Append(s, c)[i] = s[i]
  OBVIOUS
<1>2. Len(s) + 1 \in 1 .. Len(Append(s, c)) /\ 1 .. Len(s) \subseteq 1 .. Len(Append(s, c))
  BY <1>1
<1> QED
  BY <1>1, <1>2 DEF Remembers

-----------------------------------------------------------------------------
(* The inductive invariant. *)

\* A request has reserved and refunded on a day the guards have reached, and
\* refunds once, at its end; no stamp is ahead of the clock.
RequestHistory ==
    \A c \in Creations :
        /\ create[c].pc \in {"new", "stamped"} => create[c].got = Never
        /\ create[c].pc \notin {"unwinding", "done"} \/ create[c].got = Never =>
              create[c].refunded = Never
        /\ create[c].refunded <= guardDay
        /\ create[c].at <= now
        /\ create[c].got # Never => create[c].got <= now /\ DayOf(create[c].got) <= guardDay

\* An address's window has all of its reservations stamped in the last minute.
\* What an overtaken stamp keeps in the window may be older than that.
WindowCovers ==
    \A c \in Creations :
        /\ create[c].got # Never /\ create[c].address \in Addresses
        /\ create[c].at > now - Minute
        => Remembers(window[create[c].address], c)

\* The guards' day is not ahead of the clock, and nothing was done after it.
DayReached ==
    /\ now <= MaxTime /\ guardDay <= Today
    /\ \A d \in Days : d > guardDay => acted[d] = 0

GuardInv == TypeOK /\ RequestHistory /\ WindowCovers /\ DayReached /\ GuardsHold

LEMMA GuardTypes ==
    ASSUME GuardInv
    PROVE  /\ now \in Nat /\ guardDay \in Nat /\ runsToday \in Nat /\ actionsToday \in Nat
           /\ Today \in Nat /\ guardDay <= Today /\ Today \in Days
           /\ RunsPerDay \in Nat /\ RunsPerMinute \in Nat /\ ActionsPerDay \in Nat
           /\ Minute \in Nat /\ MaxTime \in Nat
           /\ acted \in [Days -> Nat] /\ window \in [Addresses -> Seq(Creations)]
           /\ create \in [Creations -> Request]
           /\ \A c \in Creations :
                /\ create[c] \in Request /\ create[c].address \in Addresses \cup {NoAddress}
                /\ create[c].at \in Int /\ create[c].got \in Int /\ create[c].refunded \in Int
                /\ create[c].got # Never => create[c].got \in Nat /\ DayOf(create[c].got) \in Nat
<1>1. /\ now \in Nat /\ guardDay \in Nat /\ runsToday \in Nat /\ actionsToday \in Nat
      /\ Today \in Nat
  BY CountersType DEF GuardInv
<1>2. now <= MaxTime /\ guardDay <= Today /\ MaxTime \in Nat
  BY AdmissionAssumption DEF GuardInv, DayReached
<1>3. DayOf(now) <= DayOf(MaxTime) /\ DayOf(MaxTime) \in Nat
  BY <1>1, <1>2, DayMonotone, DayType
<1>4. Today \in Days
  BY <1>1, <1>3 DEF Days, Today
<1>5. \A c \in Creations :
                /\ create[c] \in Request /\ create[c].address \in Addresses \cup {NoAddress}
                /\ create[c].at \in Int /\ create[c].got \in Int /\ create[c].refunded \in Int
                /\ create[c].got # Never => create[c].got \in Nat
  BY RequestType DEF GuardInv, Request, Never
<1>6. acted \in [Days -> Nat] /\ window \in [Addresses -> Seq(Creations)]
      /\ create \in [Creations -> Request]
  BY DEF GuardInv, TypeOK, Request
<1> QED
  BY <1>1, <1>2, <1>4, <1>5, <1>6, DayType, AdmissionAssumption

\* Whatever was stamped in the last minute stays when the window is pruned by a
\* stamp that is not ahead of the clock.
LEMMA RecentRemembers ==
    ASSUME GuardInv, NEW a \in Addresses, NEW n \in 0 .. Len(Window(a)), NEW stamp \in Int,
           stamp <= now, Outdated(a, n, stamp),
           NEW d \in Creations, Remembers(window[a], d), create[d].at > now - Minute
    PROVE  Remembers(Recent(a, n), d)
<1>1. Window(a) = window[a] /\ window[a] \in Seq(Creations)
  BY GuardTypes, AdmissionAssumption DEF Window
<1>2. PICK i \in 1 .. Len(window[a]) : window[a][i] = d
  BY DEF Remembers
<1>3. /\ n \in Nat /\ Len(window[a]) \in Nat /\ i \in Nat /\ Minute \in Nat /\ now \in Nat
      /\ create[d].at \in Int
  BY <1>1, GuardTypes
<1>4. i > n
  <2>1. i <= n => create[d].at <= stamp - Minute
    BY <1>1, <1>2, <1>3 DEF Outdated
  <2> QED
    BY <1>3, <2>1
<1>5. /\ Len(Recent(a, n)) = Len(window[a]) - n
      /\ Recent(a, n)[i - n] = d
  <2>1. i \in n + 1 .. Len(window[a])
    BY <1>3, <1>4
  <2> QED
    BY <1>1, <1>2, <2>1, Suffix DEF Recent
<1>6. i - n \in 1 .. Len(Recent(a, n))
  BY <1>3, <1>4, <1>5
<1> QED
  BY <1>5, <1>6 DEF Remembers

\* Rolling over to a day nobody has reached yet starts from empty sets.
LEMMA RolledBudget ==
    ASSUME GuardInv
    PROVE  Budget(create, Today, Rolled(runsToday), Rolled(actionsToday), acted)
<1>0. Budget(create, guardDay, runsToday, actionsToday, acted)
  BY LimitsUnfold DEF GuardInv
<1>1. CASE Today = guardDay
  BY <1>0, <1>1 DEF Rolled
<1>2. CASE Today # guardDay
  <2>1. Today > guardDay /\ Today \in Nat /\ Today \in Days /\ RunsPerDay \in Nat
    BY <1>2, GuardTypes
  <2>2. ReservedIn(create, Today) = {} /\ LateIn(create, Today) = {}
    BY <2>1, GuardTypes DEF GuardInv, RequestHistory, ReservedIn, LateIn
  <2>3. acted[Today] = 0
    BY <2>1 DEF GuardInv, DayReached
  <2>4. Rolled(runsToday) = 0 /\ Rolled(actionsToday) = 0
    BY <1>2 DEF Rolled
  <2>5. Cardinality(ReservedIn(create, Today)) = 0 /\ Cardinality(LateIn(create, Today)) = 0
    BY <2>2, FS_EmptySet
  <2>6. \A d \in Days : acted[d] <= ActionsPerDay
    BY <1>0 DEF Budget
  <2>7. 0 <= 0 /\ 0 <= 0 + 0 /\ 0 <= RunsPerDay
    BY <2>1
  <2> QED
    BY <2>3, <2>4, <2>5, <2>6, <2>7, Zenon DEF Budget
<1> QED
  BY <1>1, <1>2

\* What a request keeps in a step that neither reserves nor refunds.
Kept(old, new) ==
    /\ new.got = old.got /\ new.refunded = old.refunded
    /\ old.got # Never => new.address = old.address /\ new.at = old.at
    /\ new.at <= now
    /\ new.pc \in {"new", "stamped"} => old.pc \in {"new", "stamped"}
    /\ old.pc \in {"unwinding", "done"} => new.pc \in {"unwinding", "done"}

LEMMA HistoryKept ==
    ASSUME GuardInv, TypeOK', now' \in Nat, now' >= now, guardDay' \in Nat, guardDay' >= guardDay,
           \A c \in Creations : Kept(create[c], create'[c])
    PROVE  RequestHistory'
<1> SUFFICES ASSUME NEW c \in Creations
             PROVE  /\ create'[c].pc \in {"new", "stamped"} => create'[c].got = Never
                    /\ create'[c].pc \notin {"unwinding", "done"} \/ create'[c].got = Never =>
                          create'[c].refunded = Never
                    /\ create'[c].refunded <= guardDay'
                    /\ create'[c].at <= now'
                    /\ create'[c].got # Never =>
                         create'[c].got <= now' /\ DayOf(create'[c].got) <= guardDay'
  BY DEF RequestHistory
<1>1. /\ create[c].got \in Int /\ create[c].refunded \in Int
      /\ create[c].got # Never => DayOf(create[c].got) \in Nat
      /\ now \in Nat /\ guardDay \in Nat
  BY GuardTypes
<1>2. create'[c].at \in Int
  BY DEF TypeOK, Never
<1>3. Kept(create[c], create'[c])
  OBVIOUS
<1>4. /\ create[c].pc \in {"new", "stamped"} => create[c].got = Never
      /\ create[c].pc \notin {"unwinding", "done"} \/ create[c].got = Never =>
            create[c].refunded = Never
      /\ create[c].refunded <= guardDay
      /\ create[c].got # Never => create[c].got <= now /\ DayOf(create[c].got) <= guardDay
  BY DEF GuardInv, RequestHistory
<1> QED
  BY <1>1, <1>2, <1>3, <1>4 DEF Kept

LEMMA WindowKept ==
    ASSUME GuardInv, now' \in Nat, now' >= now, \A c \in Creations : Kept(create[c], create'[c]),
           \A a \in Addresses : \A c \in Creations :
              Remembers(window[a], c) /\ create[c].at > now - Minute => Remembers(window'[a], c)
    PROVE  WindowCovers'
<1> SUFFICES ASSUME NEW c \in Creations, create'[c].got # Never,
                    create'[c].address \in Addresses, create'[c].at > now' - Minute
             PROVE  Remembers(window'[create'[c].address], c)
  BY DEF WindowCovers, Remembers
<1>1. create[c].at \in Int /\ now \in Nat /\ Minute \in Nat
  BY GuardTypes
<1>2. /\ create[c].got # Never
      /\ create'[c].at = create[c].at /\ create'[c].address = create[c].address
  BY DEF Kept
<1>3. create[c].at > now - Minute
  BY <1>1, <1>2
<1>4. Remembers(window[create[c].address], c)
  BY <1>2, <1>3 DEF GuardInv, WindowCovers
<1> QED
  BY <1>2, <1>3, <1>4

\* A step that neither reserves nor refunds.
LEMMA KeepingStep ==
    ASSUME GuardInv, TypeOK', now' = now, \A c \in Creations : Kept(create[c], create'[c]),
           guardDay' \in {guardDay, Today},
           \A a \in Addresses : \A c \in Creations :
              Remembers(window[a], c) /\ create[c].at > now - Minute => Remembers(window'[a], c),
           Budget(create, guardDay', runsToday', actionsToday', acted'),
           \A d \in Days : d > guardDay' => acted'[d] = 0
    PROVE  GuardInv'
<1>1. /\ now \in Nat /\ guardDay \in Nat /\ Today \in Nat /\ guardDay <= Today
      /\ guardDay' \in Nat /\ guardDay' >= guardDay /\ now' \in Nat /\ now' >= now
  BY GuardTypes
<1>2. RequestHistory' /\ WindowCovers'
  <2>1. RequestHistory'
    BY <1>1, HistoryKept
  <2>2. WindowCovers'
    BY <1>1, WindowKept
  <2> QED
    BY <2>1, <2>2
<1>3. DayReached'
  BY <1>1 DEF GuardInv, DayReached, Today
<1>4. Rates(create')
  <2>1. Rates(create)
    BY LimitsUnfold DEF GuardInv
  <2>2. \A c \in Creations :
           /\ create'[c].got = create[c].got
           /\ create[c].got # Never => /\ create'[c].address = create[c].address
                                       /\ create'[c].at = create[c].at
    BY DEF Kept
  <2> QED
    BY <2>1, <2>2, SameRates
<1>5. Budget(create', guardDay', runsToday', actionsToday', acted')
  <2>1. \A d : ReservedIn(create', d) = ReservedIn(create, d)
               /\ LateIn(create', d) = LateIn(create, d)
    BY SameReserved DEF Kept
  <2> QED
    BY <2>1 DEF Budget
<1> QED
  BY <1>2, <1>3, <1>4, <1>5, LimitsUnfold DEF GuardInv

-----------------------------------------------------------------------------
(* Steps that neither reserve nor refund. *)

LEMMA Unchanging == ASSUME GuardInv PROVE \A d \in Creations : Kept(create[d], create[d])
BY DEF GuardInv, RequestHistory, Kept

LEMMA RecordKept ==
    ASSUME GuardInv, NEW c \in Creations, NEW new, create'[c] = new, Kept(create[c], new),
           \A d \in Creations : d # c => create'[d] = create[d]
    PROVE  \A d \in Creations : Kept(create[d], create'[d])
BY Unchanging

LEMMA ProceedKeeps ==
    ASSUME GuardInv, NEW c \in Creations,
           \/ CountBusy(c) \/ TakePlace(c) \/ RefusePlace(c)
           \/ Commit(c) \/ FailCreation(c) \/ Finish(c)
    PROVE  (\A d \in Creations : Kept(create[d], create'[d])) /\ UNCHANGED <<now, guardVars, acted>>
<1>0. create[c] \in Request /\ create[c].at <= now /\ TypeOK
  BY GuardTypes DEF GuardInv, RequestHistory
<1>1. UNCHANGED <<now, guardVars, acted>>
  BY DEF CountBusy, TakePlace, RefusePlace, Commit, FailCreation, Finish
<1> DEFINE old == create[c]
<1>2. CASE CountBusy(c)
  <2> DEFINE new == [old EXCEPT !.pc = "counted", !.seen = Busy]
  <2>1. create'[c] = new /\ \A d \in Creations : d # c => create'[d] = create[d]
    BY <1>2, <1>0, OthersKept DEF CountBusy, TypeOK
  <2>2. old.pc = "reserved"
    BY <1>2 DEF CountBusy
  <2>3. Kept(old, new)
    BY <1>0, <2>2 DEF Request, Kept
  <2> HIDE DEF new
  <2> QED
    BY <1>0, <1>1, <2>1, <2>3, RecordKept
<1>3. CASE TakePlace(c)
  <2> DEFINE new == [old EXCEPT !.pc = "admitted", !.place = TRUE, !.seen = {}]
  <2>1. create'[c] = new /\ \A d \in Creations : d # c => create'[d] = create[d]
    BY <1>3, <1>0, OthersKept DEF TakePlace, TypeOK
  <2>2. old.pc = "counted"
    BY <1>3 DEF TakePlace
  <2>3. Kept(old, new)
    BY <1>0, <2>2 DEF Request, Kept
  <2> HIDE DEF new
  <2> QED
    BY <1>0, <1>1, <2>1, <2>3, RecordKept
<1>4. CASE RefusePlace(c)
  <2> DEFINE new == [old EXCEPT !.pc = "refused", !.seen = {}]
  <2>1. create'[c] = new /\ \A d \in Creations : d # c => create'[d] = create[d]
    BY <1>4, <1>0, OthersKept DEF RefusePlace, TypeOK
  <2>2. old.pc = "counted"
    BY <1>4 DEF RefusePlace
  <2>3. Kept(old, new)
    BY <1>0, <2>2 DEF Request, Kept
  <2> HIDE DEF new
  <2> QED
    BY <1>0, <1>1, <2>1, <2>3, RecordKept
<1>5. CASE Commit(c)
  <2> DEFINE new == [old EXCEPT !.pc = "committed"]
  <2>1. create'[c] = new /\ \A d \in Creations : d # c => create'[d] = create[d]
    BY <1>5, <1>0, OthersKept DEF Commit, TypeOK
  <2>2. old.pc = "admitted"
    BY <1>5 DEF Commit
  <2>3. Kept(old, new)
    BY <1>0, <2>2 DEF Request, Kept
  <2> HIDE DEF new
  <2> QED
    BY <1>0, <1>1, <2>1, <2>3, RecordKept
<1>6. CASE FailCreation(c)
  <2> DEFINE new == [old EXCEPT !.pc = "refused"]
  <2>1. create'[c] = new /\ \A d \in Creations : d # c => create'[d] = create[d]
    BY <1>6, <1>0, OthersKept DEF FailCreation, TypeOK
  <2>2. old.pc = "admitted"
    BY <1>6 DEF FailCreation
  <2>3. Kept(old, new)
    BY <1>0, <2>2 DEF Request, Kept
  <2> HIDE DEF new
  <2> QED
    BY <1>0, <1>1, <2>1, <2>3, RecordKept
<1>7. CASE Finish(c)
  <2> DEFINE new == [old EXCEPT !.pc = "done", !.place = FALSE]
  <2>1. create'[c] = new /\ \A d \in Creations : d # c => create'[d] = create[d]
    BY <1>7, <1>0, OthersKept DEF Finish, TypeOK
  <2>3. Kept(old, new)
    BY <1>0 DEF Request, Kept
  <2> HIDE DEF new
  <2> QED
    BY <1>0, <1>1, <2>1, <2>3, RecordKept
<1> QED
  BY <1>2, <1>3, <1>4, <1>5, <1>6, <1>7

\* The guards' memory is left alone.
LEMMA UntouchedGuards ==
    ASSUME GuardInv, TypeOK', \A d \in Creations : Kept(create[d], create'[d]),
           UNCHANGED <<now, guardVars, acted>>
    PROVE  GuardInv'
<1>1. /\ now' = now /\ guardDay' = guardDay /\ window' = window /\ runsToday' = runsToday
      /\ actionsToday' = actionsToday /\ acted' = acted
  BY DEF guardVars
<1>2. Budget(create, guardDay', runsToday', actionsToday', acted')
  BY <1>1, LimitsUnfold DEF GuardInv
<1>3. \A d \in Days : d > guardDay' => acted'[d] = 0
  BY <1>1 DEF GuardInv, DayReached
<1> QED
  BY <1>1, <1>2, <1>3, KeepingStep

LEMMA ActionGuards ==
    ASSUME GuardInv, TypeOK', NEW c \in Creations, TryAction(c)
    PROVE  GuardInv'
<1>1. /\ guardDay' = Today /\ runsToday' = Rolled(runsToday)
      /\ now' = now /\ window' = window /\ create' = create
      /\ \/ actionsToday' = Rolled(actionsToday) /\ acted' = acted
         \/ /\ ~(Rolled(actionsToday) >= ActionsPerDay)
            /\ actionsToday' = Rolled(actionsToday) + 1
            /\ acted' = [acted EXCEPT ![Today] = @ + 1]
  BY Acting, Zenon
<1>2. \A d \in Creations : Kept(create[d], create'[d])
  BY <1>1, Unchanging
<1>3. Budget(create, Today, Rolled(runsToday), Rolled(actionsToday), acted)
  BY RolledBudget
<1>4. /\ Today \in Days /\ Today \in Nat /\ acted \in [Days -> Nat]
      /\ guardDay <= Today /\ guardDay \in Nat /\ ActionsPerDay \in Nat
  BY GuardTypes
<1>5. Days \subseteq Nat
  BY DEF Days
<1>6. \A d \in Days : d > Today => acted[d] = 0
  BY <1>4, <1>5 DEF GuardInv, DayReached
<1>7. CASE actionsToday' = Rolled(actionsToday) /\ acted' = acted
  BY <1>1, <1>2, <1>3, <1>6, <1>7, KeepingStep
<1>8. CASE /\ ~(Rolled(actionsToday) >= ActionsPerDay)
           /\ actionsToday' = Rolled(actionsToday) + 1
           /\ acted' = [acted EXCEPT ![Today] = @ + 1]
  <2>1. acted'[Today] = acted[Today] + 1 /\ \A d \in Days : d # Today => acted'[d] = acted[d]
    BY <1>4, <1>8
  <2>2. /\ Rolled(actionsToday) = acted[Today]
        /\ \A d \in Days : acted[d] <= ActionsPerDay
    BY <1>3 DEF Budget
  <2>3. /\ actionsToday' = acted'[Today]
        /\ \A d \in Days : acted'[d] <= ActionsPerDay
    <3>1. acted'[Today] <= ActionsPerDay /\ actionsToday' = acted'[Today]
      <4>1. acted[Today] \in Nat /\ ~(acted[Today] >= ActionsPerDay)
        BY <1>4, <1>8, <2>2
      <4>2. acted[Today] + 1 <= ActionsPerDay
        BY <1>4, <4>1
      <4> QED
        BY <1>8, <2>1, <2>2, <4>2
    <3> QED
      BY <2>1, <2>2, <3>1
  <2>4. Budget(create, Today, Rolled(runsToday), actionsToday', acted')
    BY <1>3, <2>3, Zenon DEF Budget
  <2>5. \A d \in Days : d > Today => acted'[d] = 0
    BY <1>4, <1>5, <1>6, <2>1
  <2> QED
    BY <1>1, <1>2, <2>4, <2>5, KeepingStep
<1> QED
  BY <1>1, <1>7, <1>8

LEMMA TickGuards ==
    ASSUME GuardInv, TypeOK', Tick
    PROVE  GuardInv'
<1>1. /\ now < MaxTime /\ now' = now + 1 /\ create' = create /\ guardDay' = guardDay
      /\ window' = window /\ runsToday' = runsToday /\ actionsToday' = actionsToday
      /\ acted' = acted
  BY DEF Tick, guardVars
<1>2. now \in Nat /\ MaxTime \in Nat /\ guardDay \in Nat /\ Today \in Nat /\ guardDay <= Today
  BY GuardTypes
<1>3. now' \in Nat /\ now' >= now /\ now' <= MaxTime
  BY <1>1, <1>2
<1>4. \A d \in Creations : Kept(create[d], create'[d])
  BY <1>1, Unchanging
<1>5. RequestHistory' /\ WindowCovers'
  BY <1>1, <1>2, <1>3, <1>4, HistoryKept, WindowKept
<1>6. DayReached'
  <2>1. DayOf(now) <= DayOf(now') /\ DayOf(now') \in Nat
    BY <1>2, <1>3, DayMonotone, DayType
  <2>2. guardDay' <= Today'
    BY <1>1, <1>2, <2>1 DEF Today
  <2> QED
    BY <1>1, <1>3, <2>2 DEF GuardInv, DayReached
<1>7. GuardsHold'
  BY <1>1, LimitsUnfold DEF GuardInv
<1> QED
  BY <1>5, <1>6, <1>7 DEF GuardInv

-----------------------------------------------------------------------------
(* A creation reserves. *)

\* Counting, one up.
LEMMA OneUp ==
    /\ \A n \in Nat : n <= n + 1 /\ n + 0 = n
    /\ \A n, m \in Nat : ~(n >= m) => n + 1 <= m
    /\ \A n, r, l \in Nat : n <= r /\ r <= n + l => n + 1 <= r + 1 /\ r + 1 <= (n + 1) + l
OBVIOUS

\* A request that begins reads the clock, and reserves nothing yet.
LEMMA BeginGuards ==
    ASSUME GuardInv, TypeOK', NEW c \in Creations, NEW a \in Addresses \cup {NoAddress},
           Begin(c, a)
    PROVE  GuardInv'
<1>1. /\ create[c].pc = "new" /\ create[c] \in Request
      /\ UNCHANGED <<now, acted, guardVars>>
      /\ \A d \in Creations : d # c => create'[d] = create[d]
      /\ \/ create'[c] = Turned
         \/ create'[c] = [create[c] EXCEPT !.pc = "admitted"]
         \/ create'[c] = Stamped(create[c], a, now)
  BY BeginShape DEF GuardInv
<1>2. create[c].got = Never /\ create[c].refunded = Never /\ create[c].at <= now
  BY <1>1 DEF GuardInv, RequestHistory
<1>3. Never <= now /\ now <= now
  BY GuardTypes DEF Never
<1>4. Kept(create[c], create'[c])
  <2>1. CASE create'[c] = Turned
    BY <1>1, <1>2, <1>3, <2>1, TurnedFields DEF Kept
  <2>2. CASE create'[c] = [create[c] EXCEPT !.pc = "admitted"]
    BY <1>1, <1>2, <2>2 DEF Kept, Request
  <2>3. CASE create'[c] = Stamped(create[c], a, now)
    BY <1>1, <1>2, <1>3, <2>3, StampedFields DEF Kept
  <2> QED
    BY <1>1, <2>1, <2>2, <2>3
<1>5. \A d \in Creations : Kept(create[d], create'[d])
  BY <1>1, <1>4, RecordKept
<1> QED
  BY <1>1, <1>5, UntouchedGuards

\* The guards deny a reservation: the request ends, the day is rolled over and
\* the window pruned.
LEMMA DeniedGuards ==
    ASSUME GuardInv, TypeOK', NEW c \in Creations, create[c].pc = "stamped",
           now' = now, acted' = acted,
           guardDay' = Today, actionsToday' = Rolled(actionsToday),
           create[c].address = NoAddress => window' = window,
           NEW n \in 0 .. Len(Window(create[c].address)),
           Outdated(create[c].address, n, create[c].at), Denies(c, n)
    PROVE  GuardInv'
<1> DEFINE a == create[c].address
<1>1. /\ create[c] \in Request /\ create \in [Creations -> Request]
      /\ a \in Addresses \cup {NoAddress} /\ create[c].at \in Int
      /\ window \in [Addresses -> Seq(Creations)]
  BY GuardTypes
<1>2. /\ create[c].got = Never /\ create[c].refunded = Never /\ create[c].at <= now
  BY DEF GuardInv, RequestHistory
<1>3. create'[c] = Turned /\ \A d \in Creations : d # c => create'[d] = create[d]
  BY <1>1 DEF Denies
<1>4. Never <= now
  BY GuardTypes DEF Never
<1>5. Kept(create[c], Turned)
  BY <1>2, <1>4, TurnedFields DEF Kept
<1>6. \A d \in Creations : Kept(create[d], create'[d])
  BY <1>3, <1>5, RecordKept
<1>7. runsToday' = Rolled(runsToday)
  BY CountersType, OneUp, Zenon DEF Denies, GuardInv
<1>8. Budget(create, guardDay', runsToday', actionsToday', acted')
  BY <1>7, RolledBudget
<1>9. \A d \in Days : d > guardDay' => acted'[d] = 0
  <2>1. Today \in Nat /\ guardDay \in Nat /\ guardDay <= Today /\ Days \subseteq Nat
    BY GuardTypes DEF Days
  <2>2. \A d \in Days : d > Today => acted[d] = 0
    BY <2>1 DEF GuardInv, DayReached
  <2> QED
    BY <2>2
<1>10. \A b \in Addresses : \A d \in Creations :
          Remembers(window[b], d) /\ create[d].at > now - Minute => Remembers(window'[b], d)
  <2> SUFFICES ASSUME NEW b \in Addresses, NEW d \in Creations,
                      Remembers(window[b], d), create[d].at > now - Minute
               PROVE  Remembers(window'[b], d)
    BY Zenon
  <2>1. CASE a = NoAddress
    BY <2>1
  <2>2. CASE a # NoAddress
    <3>1. window' = [window EXCEPT ![a] = Recent(a, n)]
      BY <2>2 DEF Denies
    <3>2. CASE b = a
      <4>1. Remembers(Recent(a, n), d)
        BY <1>1, <1>2, <3>2, RecentRemembers
      <4> QED
        BY <1>1, <3>1, <3>2, <4>1
    <3>3. CASE b # a
      BY <1>1, <3>1, <3>3
    <3> QED
      BY <3>2, <3>3
  <2> QED
    BY <2>1, <2>2
<1> QED
  BY <1>6, <1>8, <1>9, <1>10, KeepingStep

\* What a reservation does to its request.
Reserves(old, new) ==
    /\ old.got = Never /\ old.refunded = Never
    /\ new.address = old.address /\ new.at = old.at
    /\ new.got = now /\ new.refunded = Never /\ new.pc = "reserved"

\* Whoever reserved within a minute that is not over, and was stamped in it, is
\* still in the window when the next one reserves.
LEMMA ReservingRates ==
    ASSUME GuardInv, NEW c \in Creations, NEW a \in Addresses \cup {NoAddress},
           a = create[c].address,
           NEW n \in 0 .. Len(Window(a)), Outdated(a, n, create[c].at),
           ~RateLimited(a, n), Reserves(create[c], create'[c]),
           \A d \in Creations : d # c => create'[d] = create[d]
    PROVE  Rates(create')
<1> SUFFICES ASSUME NEW b \in Addresses, NEW t \in 0 .. MaxTime
             PROVE  Cardinality(RatedIn(create', b, t)) <= RunsPerMinute
  BY DEF Rates
<1>0. /\ now \in Nat /\ Minute \in Nat /\ RunsPerMinute \in Nat
      /\ \A d \in Creations : create[d].at \in Int /\ create[d].got \in Int
  BY GuardTypes
<1>1. Cardinality(RatedIn(create, b, t)) <= RunsPerMinute
  BY LimitsUnfold DEF GuardInv, Rates
<1>2. CASE b = a /\ now <= t
  <2> DEFINE s == Recent(a, n)
             E == {d \in Creations : Remembers(s, d)}
  <2>1. s \in Seq(Creations) /\ Len(s) \in Nat
    <3>1. s \in Seq(Creations)
      BY WindowType DEF GuardInv
    <3> QED
      BY <3>1
  <2>2. Cardinality(E) <= Len(s) /\ E \in SUBSET Creations
    BY <2>1, EntriesBounded
  <2>3. IsFiniteSet(E) /\ Cardinality(E) \in Nat
    BY <2>2, FiniteSubsets
  <2>4. Len(s) < RunsPerMinute
    <3>1. a # NoAddress
      BY <1>2, AdmissionAssumption
    <3> QED
      BY <1>0, <2>1, <3>1 DEF RateLimited
  <2>5. RatedIn(create', b, t) \in SUBSET (E \cup {c})
    <3> SUFFICES ASSUME NEW d \in RatedIn(create', b, t), d # c
                 PROVE  d \in E
      OBVIOUS
    <3>1. /\ d \in Creations /\ create[d].address = a /\ create[d].got # Never
          /\ t - Minute < create[d].at
      BY <1>2 DEF RatedIn
    <3>2. create[d].at > now - Minute
      BY <1>0, <1>2, <3>1
    <3>3. Remembers(window[a], d)
      BY <1>2, <3>1, <3>2 DEF GuardInv, WindowCovers
    <3>4. create[c].at <= now /\ create[c].at \in Int
      BY <1>0 DEF GuardInv, RequestHistory
    <3>5. Remembers(s, d)
      <4>1. a \in Addresses
        BY <1>2
      <4> QED
        BY <3>1, <3>2, <3>3, <3>4, <4>1, RecentRemembers
    <3> QED
      BY <3>1, <3>5
  <2> HIDE DEF s, E
  <2>6. Cardinality(E \cup {c}) <= Cardinality(E) + 1
    <3>1. CASE c \in E
      <4>1. E \cup {c} = E
        BY <3>1
      <4> QED
        BY <2>3, <4>1, OneUp, Zenon
    <3>2. CASE c \notin E
      <4>1. Cardinality(E \cup {c}) = Cardinality(E) + 1
        BY <2>3, <3>2, FS_AddElement
      <4> QED
        BY <2>3, <4>1
    <3> QED
      BY <3>1, <3>2
  <2>7. E \cup {c} \in SUBSET Creations
    BY <2>2
  <2>8. Cardinality(RatedIn(create', b, t)) <= Cardinality(E \cup {c})
    BY <2>5, <2>7, CardinalityMonotone
  <2>9. /\ Cardinality(RatedIn(create', b, t)) \in Nat
        /\ Cardinality(E \cup {c}) \in Nat
    BY <2>7, FiniteSubsets, LimitSets
  <2> QED
    BY <1>0, <2>1, <2>2, <2>3, <2>4, <2>6, <2>8, <2>9
<1>3. CASE ~(b = a /\ now <= t)
  <2>1. RatedIn(create', b, t) = RatedIn(create, b, t)
    <3>1. c \notin RatedIn(create, b, t)
      BY DEF RatedIn, Reserves
    <3>2. c \notin RatedIn(create', b, t)
      BY <1>0, <1>3 DEF RatedIn, Reserves
    <3>3. \A d \in Creations : d # c =>
             (d \in RatedIn(create', b, t) <=> d \in RatedIn(create, b, t))
      BY DEF RatedIn
    <3> QED
      BY <3>1, <3>2, <3>3 DEF RatedIn
  <2> QED
    BY <1>1, <2>1
<1> QED
  BY <1>2, <1>3

LEMMA ReservingBudget ==
    ASSUME GuardInv, NEW c \in Creations, ~BudgetSpent,
           Reserves(create[c], create'[c]),
           \A d \in Creations : d # c => create'[d] = create[d]
    PROVE  Budget(create', Today, Rolled(runsToday) + 1, Rolled(actionsToday), acted)
<1> DEFINE runs == Rolled(runsToday)
           R == ReservedIn(create, Today)
           L == LateIn(create, Today)
<1>1. /\ runs <= Cardinality(R) /\ Cardinality(R) <= runs + Cardinality(L) /\ runs <= RunsPerDay
      /\ Rolled(actionsToday) = acted[Today] /\ \A d \in Days : acted[d] <= ActionsPerDay
  BY RolledBudget DEF Budget
<1>2. Today \in Nat /\ RunsPerDay \in Nat /\ runs \in Nat
  BY GuardTypes, CountersType DEF GuardInv
<1>3. LateIn(create', Today) = L
  <2>1. Today # Never
    BY <1>2 DEF Never
  <2> QED
    BY <2>1 DEF LateIn, Reserves
<1>4. c \notin R /\ ReservedIn(create', Today) = R \cup {c}
  BY DEF ReservedIn, Reserves, Today, Never, GuardInv, TypeOK
<1>5. /\ R \in SUBSET Creations /\ Cardinality(R) \in Nat /\ Cardinality(L) \in Nat
  BY LimitSets
<1>6. Cardinality(R \cup {c}) = Cardinality(R) + 1
  BY <1>4, <1>5, FiniteSubsets, FS_AddElement
<1>7. runs + 1 <= RunsPerDay
  BY <1>2, OneUp, Zenon DEF BudgetSpent
<1>8. /\ runs + 1 <= Cardinality(R) + 1
      /\ Cardinality(R) + 1 <= (runs + 1) + Cardinality(L)
  BY <1>1, <1>2, <1>5, OneUp, Zenon
<1> HIDE DEF runs, R, L
<1>9. Budget(create', Today, runs + 1, Rolled(actionsToday), acted)
  BY <1>1, <1>3, <1>4, <1>6, <1>7, <1>8, Zenon DEF Budget
<1> QED
  BY <1>9 DEF runs

LEMMA GrantedGuards ==
    ASSUME GuardInv, TypeOK', NEW c \in Creations, create[c].pc = "stamped",
           now' = now, acted' = acted,
           guardDay' = Today, actionsToday' = Rolled(actionsToday),
           create[c].address = NoAddress => window' = window,
           NEW n \in 0 .. Len(Window(create[c].address)),
           Outdated(create[c].address, n, create[c].at), Grants(c, n)
    PROVE  GuardInv'
<1> DEFINE a == create[c].address
<1>0. /\ create[c] \in Request /\ create \in [Creations -> Request]
      /\ a \in Addresses \cup {NoAddress}
      /\ now \in Nat /\ Today \in Nat /\ guardDay \in Nat
      /\ guardDay <= Today /\ window \in [Addresses -> Seq(Creations)]
      /\ \A d \in Creations : create[d].at \in Int /\ create[d].got \in Int
                               /\ create[d].refunded \in Int
      /\ \A d \in Creations : create[d].got # Never => DayOf(create[d].got) \in Nat
  BY GuardTypes
<1>1. /\ Reserves(create[c], create'[c])
      /\ \A d \in Creations : d # c => create'[d] = create[d]
  <2>1. create' = [create EXCEPT ![c] = Reserved(create[c], now)]
    BY <1>0 DEF Grants, Reserved
  <2>2. /\ create'[c] = Reserved(create[c], now)
        /\ \A d \in Creations : d # c => create'[d] = create[d]
    BY <1>0, <2>1
  <2>3. create[c].got = Never /\ create[c].refunded = Never
    BY DEF GuardInv, RequestHistory
  <2>4. /\ Reserved(create[c], now).pc = "reserved"
        /\ Reserved(create[c], now).address = create[c].address
        /\ Reserved(create[c], now).at = create[c].at /\ Reserved(create[c], now).got = now
        /\ Reserved(create[c], now).refunded = create[c].refunded
    BY <1>0, ReservedFields
  <2> QED
    BY <2>2, <2>3, <2>4, Zenon DEF Reserves
<1>2. Rates(create') /\ Budget(create', guardDay', runsToday', actionsToday', acted')
  <2>1. Rates(create')
    BY <1>0, <1>1, ReservingRates DEF Grants
  <2>2. Budget(create', Today, Rolled(runsToday) + 1, Rolled(actionsToday), acted)
    BY <1>1, ReservingBudget DEF Grants
  <2> QED
    BY <2>1, <2>2 DEF Grants
<1>3. RequestHistory'
  <2> SUFFICES ASSUME NEW d \in Creations
               PROVE  /\ create'[d].pc \in {"new", "stamped"} => create'[d].got = Never
                      /\ create'[d].pc \notin {"unwinding", "done"} \/ create'[d].got = Never =>
                            create'[d].refunded = Never
                      /\ create'[d].refunded <= guardDay'
                      /\ create'[d].at <= now'
                      /\ create'[d].got # Never =>
                           create'[d].got <= now' /\ DayOf(create'[d].got) <= guardDay'
    BY DEF RequestHistory
  <2>1. /\ create[d].pc \in {"new", "stamped"} => create[d].got = Never
        /\ create[d].pc \notin {"unwinding", "done"} \/ create[d].got = Never =>
              create[d].refunded = Never
        /\ create[d].refunded <= guardDay
        /\ create[d].at <= now
        /\ create[d].got # Never => create[d].got <= now /\ DayOf(create[d].got) <= guardDay
    BY DEF GuardInv, RequestHistory
  <2>2. CASE d = c
    <3>1. create'[d].pc = "reserved" /\ create'[d].refunded = Never
          /\ create'[d].got = now /\ create'[d].at <= now
      BY <1>1, <2>1, <2>2 DEF Reserves
    <3>2. DayOf(now) <= Today /\ now <= now /\ Never <= Today
      BY <1>0 DEF Today, Never
    <3> QED
      BY <3>1, <3>2
  <2>3. CASE d # c
    <3>1. create'[d] = create[d]
      BY <1>1, <2>3
    <3>2. create[d].refunded <= Today
      BY <1>0, <2>1
    <3>3. create[d].got # Never => DayOf(create[d].got) <= Today
      BY <1>0, <2>1
    <3> QED
      BY <2>1, <3>1, <3>2, <3>3
  <2> QED
    BY <2>2, <2>3
<1>4. WindowCovers'
  <2> SUFFICES ASSUME NEW d \in Creations, create'[d].got # Never,
                      create'[d].address \in Addresses, create'[d].at > now - Minute
               PROVE  Remembers(window'[create'[d].address], d)
    BY DEF WindowCovers, Remembers
  <2> DEFINE b == create'[d].address
  <2>1. CASE b # a
    <3>1. create'[d] = create[d] /\ Remembers(window[b], d)
      BY <1>1, <2>1 DEF Reserves, GuardInv, WindowCovers
    <3>2. window'[b] = window[b]
      BY <1>0, <2>1 DEF Grants
    <3> QED
      BY <3>1, <3>2
  <2>2. CASE b = a
    <3>1. a # NoAddress
      BY <2>2, AdmissionAssumption
    <3>2. window'[a] = Append(Recent(a, n), c)
      BY <1>0, <3>1 DEF Grants
    <3>3. Recent(a, n) \in Seq(Creations)
      BY <1>0, WindowType DEF GuardInv
    <3>4. CASE d = c
      BY <2>2, <3>2, <3>3, <3>4, AppendRemembers
    <3>5. CASE d # c
      <4>1. create'[d] = create[d] /\ Remembers(window[a], d)
        BY <1>1, <2>2, <3>5 DEF GuardInv, WindowCovers
      <4>2. create[c].at <= now /\ create[c].at \in Int
        BY <1>0 DEF GuardInv, RequestHistory
      <4>3. Remembers(Recent(a, n), d)
        BY <1>0, <2>2, <3>1, <4>1, <4>2, RecentRemembers
      <4> QED
        BY <2>2, <3>2, <3>3, <4>3, AppendRemembers
    <3> QED
      BY <3>4, <3>5
  <2> QED
    BY <2>1, <2>2
<1>5. DayReached'
  BY <1>0 DEF GuardInv, DayReached, Today, Days
<1> QED
  BY <1>2, <1>3, <1>4, <1>5, LimitsUnfold DEF GuardInv

LEMMA TryBeginRunGuards ==
    ASSUME GuardInv, TypeOK', NEW c \in Creations, TryBeginRun(c)
    PROVE  GuardInv'
<1>1. /\ create[c].pc = "stamped" /\ now' = now /\ acted' = acted
      /\ guardDay' = Today /\ actionsToday' = Rolled(actionsToday)
      /\ create[c].address = NoAddress => window' = window
  BY Reserving, Zenon
<1>2. PICK n \in 0 .. Len(Window(create[c].address)) :
         /\ Outdated(create[c].address, n, create[c].at)
         /\ Denies(c, n) \/ Grants(c, n)
  BY Reserving, Zenon
<1> QED
  BY <1>1, <1>2, DeniedGuards, GrantedGuards, Zenon

-----------------------------------------------------------------------------
(* A refund, and a restart. *)

\* One reservation less on its own day.
LEMMA OneDown ==
    /\ \A n, r, l \in Nat : n <= r + 1 /\ r + 1 <= n + l =>
          Refunded(n) <= r /\ r <= Refunded(n) + l
    /\ \A n, r, l \in Nat : n <= r /\ r <= n + l =>
          Refunded(n) <= r /\ r <= Refunded(n) + (l + 1)
    /\ \A n, m \in Nat : n <= m => Refunded(n) <= m
BY DEF Refunded

\* The release takes from the counter of the guards' day, whichever day the
\* reservation was made on.
LEMMA RefundBudget ==
    ASSUME GuardInv, NEW c \in Creations, create[c].got # Never, create[c].refunded = Never,
           create'[c].got = create[c].got, create'[c].refunded = guardDay,
           \A d \in Creations : d # c => create'[d] = create[d]
    PROVE  Budget(create', guardDay, Refunded(runsToday), actionsToday, acted)
<1> DEFINE runs == runsToday
           R == ReservedIn(create, guardDay)
           L == LateIn(create, guardDay)
           R2 == ReservedIn(create', guardDay)
           L2 == LateIn(create', guardDay)
<1>1. /\ runs <= Cardinality(R) /\ Cardinality(R) <= runs + Cardinality(L) /\ runs <= RunsPerDay
      /\ actionsToday = acted[guardDay] /\ \A d \in Days : acted[d] <= ActionsPerDay
  BY LimitsUnfold DEF GuardInv, Budget
<1>2. guardDay \in Nat /\ runs \in Nat /\ RunsPerDay \in Nat /\ guardDay # Never
  BY GuardTypes DEF Never
<1>3. /\ R \in SUBSET Creations /\ L \in SUBSET Creations
      /\ Cardinality(R) \in Nat /\ Cardinality(L) \in Nat
      /\ R2 \in SUBSET Creations /\ L2 \in SUBSET Creations
      /\ Cardinality(R2) \in Nat /\ Cardinality(L2) \in Nat
  BY LimitSets
<1>4. Refunded(runs) <= RunsPerDay
  BY <1>1, <1>2, OneDown, Zenon
<1>5. CASE DayOf(create[c].got) = guardDay
  <2>1. L2 = L /\ c \in R /\ c \notin R2 /\ R = R2 \cup {c}
    BY <1>2, <1>5 DEF LateIn, ReservedIn
  <2>2. Cardinality(R) = Cardinality(R2) + 1
    BY <1>3, <2>1, FiniteSubsets, FS_AddElement
  <2>3. runs <= Cardinality(R2) + 1 /\ Cardinality(R2) + 1 <= runs + Cardinality(L2)
    BY <1>1, <2>1, <2>2, Zenon
  <2>4. Refunded(runs) <= Cardinality(R2) /\ Cardinality(R2) <= Refunded(runs) + Cardinality(L2)
    BY <1>2, <1>3, <2>3, OneDown, Zenon
  <2> QED
    BY <1>1, <1>4, <2>4, Zenon DEF Budget
<1>6. CASE DayOf(create[c].got) # guardDay
  <2>1. R2 = R /\ c \notin L /\ L2 = L \cup {c}
    BY <1>2, <1>6 DEF LateIn, ReservedIn
  <2>2. Cardinality(L2) = Cardinality(L) + 1
    BY <1>3, <2>1, FiniteSubsets, FS_AddElement
  <2>3. Refunded(runs) <= Cardinality(R2) /\ Cardinality(R2) <= Refunded(runs) + Cardinality(L2)
    BY <1>1, <1>2, <1>3, <2>1, <2>2, OneDown, Zenon
  <2> QED
    BY <1>1, <1>4, <2>3, Zenon DEF Budget
<1> QED
  BY <1>5, <1>6

\* A request as its refund leaves it.
Unwound(old, day) == [old EXCEPT !.pc = "unwinding", !.refunded = day]

LEMMA UnwoundFields ==
    ASSUME NEW old \in Request, NEW day
    PROVE  /\ Unwound(old, day).pc = "unwinding" /\ Unwound(old, day).refunded = day
           /\ Unwound(old, day).at = old.at /\ Unwound(old, day).address = old.address
           /\ Unwound(old, day).got = old.got
<1>1. Unwound(old, day).pc = "unwinding"
  BY DEF Request, Unwound
<1>2. Unwound(old, day).refunded = day
  BY DEF Request, Unwound
<1>3. Unwound(old, day).at = old.at
  BY DEF Request, Unwound
<1>4. Unwound(old, day).address = old.address
  BY DEF Request, Unwound
<1>5. Unwound(old, day).got = old.got
  BY DEF Request, Unwound
<1> QED
  BY <1>1, <1>2, <1>3, <1>4, <1>5

LEMMA RefundShape ==
    ASSUME GuardInv, NEW c \in Creations, Refund(c)
    PROVE  /\ create[c].pc = "refused" /\ create[c].refunded = Never
           /\ create'[c].pc = "unwinding" /\ create'[c].address = create[c].address
           /\ create'[c].at = create[c].at /\ create'[c].got = create[c].got
           /\ create[c].got = Never => create'[c].refunded = Never /\ runsToday' = runsToday
           /\ create[c].got # Never =>
                create'[c].refunded = guardDay /\ runsToday' = Refunded(runsToday)
           /\ \A d \in Creations : d # c => create'[d] = create[d]
           /\ UNCHANGED <<now, guardDay, actionsToday, window, acted>>
<1> DEFINE day == IF create[c].got = Never THEN Never ELSE guardDay
<1>1. create[c] \in Request
  BY GuardTypes
<1>2. create' = [create EXCEPT ![c] = Unwound(create[c], day)]
  BY DEF Refund, GuardInv, TypeOK, Unwound
<1>3. /\ create'[c] = Unwound(create[c], day)
      /\ \A d \in Creations : d # c => create'[d] = create[d]
  BY <1>2, OthersKept, Zenon DEF GuardInv
<1>4. /\ Unwound(create[c], day).pc = "unwinding" /\ Unwound(create[c], day).refunded = day
      /\ Unwound(create[c], day).at = create[c].at /\ Unwound(create[c], day).got = create[c].got
      /\ Unwound(create[c], day).address = create[c].address
  BY <1>1, UnwoundFields, SMTT(20)
<1>5. create[c].pc = "refused" /\ create[c].refunded = Never
  BY DEF Refund, GuardInv, RequestHistory
<1>6. /\ runsToday' = IF create[c].got = Never THEN runsToday ELSE Refunded(runsToday)
      /\ UNCHANGED <<now, guardDay, actionsToday, window, acted>>
  BY DEF Refund
<1>7. CASE create[c].got = Never
  BY <1>3, <1>4, <1>5, <1>6, <1>7, Zenon
<1>8. CASE create[c].got # Never
  BY <1>3, <1>4, <1>5, <1>6, <1>8, Zenon
<1> QED
  BY <1>7, <1>8

LEMMA RefundGuards ==
    ASSUME GuardInv, TypeOK', NEW c \in Creations, Refund(c)
    PROVE  GuardInv'
<1>1. /\ create[c].pc = "refused" /\ create[c].refunded = Never
      /\ create'[c].pc = "unwinding" /\ create'[c].address = create[c].address
      /\ create'[c].at = create[c].at /\ create'[c].got = create[c].got
      /\ create[c].got = Never => create'[c].refunded = Never /\ runsToday' = runsToday
      /\ create[c].got # Never =>
           create'[c].refunded = guardDay /\ runsToday' = Refunded(runsToday)
      /\ \A d \in Creations : d # c => create'[d] = create[d]
      /\ UNCHANGED <<now, guardDay, actionsToday, window, acted>>
  BY RefundShape
<1>2. /\ guardDay \in Nat /\ now \in Nat /\ Minute \in Nat
      /\ \A d \in Creations : create[d].at \in Int
  BY GuardTypes
<1>3. \A d \in Creations : /\ create'[d].address = create[d].address
                            /\ create'[d].at = create[d].at /\ create'[d].got = create[d].got
  BY <1>1
<1>4. Rates(create')
  BY <1>3, SameRates, LimitsUnfold DEF GuardInv
<1>5. Budget(create', guardDay', runsToday', actionsToday', acted')
  <2>1. CASE create[c].got = Never
    <3>1. \A d \in Creations : create'[d].got = create[d].got
                               /\ create'[d].refunded = create[d].refunded
      BY <1>1, <2>1
    <3>2. ReservedIn(create', guardDay) = ReservedIn(create, guardDay)
          /\ LateIn(create', guardDay) = LateIn(create, guardDay)
      BY <3>1, SameReserved
    <3> QED
      BY <1>1, <2>1, <3>2, LimitsUnfold DEF GuardInv, Budget
  <2>2. CASE create[c].got # Never
    BY <1>1, <2>2, RefundBudget
  <2> QED
    BY <2>1, <2>2
<1>6. RequestHistory'
  <2> SUFFICES ASSUME NEW d \in Creations
               PROVE  /\ create'[d].pc \in {"new", "stamped"} => create'[d].got = Never
                      /\ create'[d].pc \notin {"unwinding", "done"} \/ create'[d].got = Never =>
                            create'[d].refunded = Never
                      /\ create'[d].refunded <= guardDay'
                      /\ create'[d].at <= now'
                      /\ create'[d].got # Never =>
                           create'[d].got <= now' /\ DayOf(create'[d].got) <= guardDay'
    BY DEF RequestHistory
  <2>1. /\ create[d].pc \in {"new", "stamped"} => create[d].got = Never
        /\ create[d].pc \notin {"unwinding", "done"} \/ create[d].got = Never =>
              create[d].refunded = Never
        /\ create[d].refunded <= guardDay
        /\ create[d].at <= now
        /\ create[d].got # Never => create[d].got <= now /\ DayOf(create[d].got) <= guardDay
    BY DEF GuardInv, RequestHistory
  <2>2. guardDay <= guardDay
    BY <1>2
  <2>3. CASE d = c
    BY <1>1, <2>1, <2>2, <2>3
  <2>4. CASE d # c
    BY <1>1, <2>1, <2>4
  <2> QED
    BY <2>3, <2>4
<1>7. WindowCovers'
  BY <1>1, <1>3 DEF GuardInv, WindowCovers, Remembers
<1>8. DayReached'
  BY <1>1 DEF GuardInv, DayReached, Today
<1> QED
  BY <1>4, <1>5, <1>6, <1>7, <1>8, LimitsUnfold DEF GuardInv

\* Fresh memory, in which nothing is reserved.
Fresh ==
    /\ TypeOK /\ now <= MaxTime /\ guardDay <= Today /\ runsToday = 0 /\ actionsToday = 0
    /\ guardDay \in Days
    /\ \A d \in Days : acted[d] = 0
    /\ \A c \in Creations : /\ create[c].at = Never /\ create[c].got = Never
                            /\ create[c].refunded = Never

LEMMA FreshGuards == Fresh => GuardInv
<1> SUFFICES ASSUME Fresh PROVE GuardInv
  OBVIOUS
<1> USE DEF Fresh
<1>0. /\ guardDay \in Nat /\ Minute \in Nat /\ now \in Nat
      /\ RunsPerDay \in Nat /\ RunsPerMinute \in Nat /\ ActionsPerDay \in Nat
  BY CountersType, AdmissionAssumption
<1>1. RequestHistory
  BY <1>0 DEF RequestHistory, Never
<1>2. WindowCovers
  BY DEF WindowCovers
<1>3. DayReached
  BY DEF DayReached
<1>4. Rates(create)
  <2> SUFFICES ASSUME NEW a \in Addresses, NEW t \in 0 .. MaxTime
               PROVE  Cardinality(RatedIn(create, a, t)) <= RunsPerMinute
    BY DEF Rates
  <2>1. RatedIn(create, a, t) = {}
    BY DEF RatedIn
  <2> QED
    BY <1>0, <2>1, FS_EmptySet
<1>5. Budget(create, guardDay, runsToday, actionsToday, acted)
  <2>1. ReservedIn(create, guardDay) = {} /\ LateIn(create, guardDay) = {}
    BY <1>0 DEF ReservedIn, LateIn, Never
  <2>2. Cardinality(ReservedIn(create, guardDay)) = 0 /\ Cardinality(LateIn(create, guardDay)) = 0
    BY <2>1, FS_EmptySet
  <2>3. 0 <= 0 /\ 0 <= 0 + 0 /\ 0 <= RunsPerDay /\ 0 <= ActionsPerDay
    BY <1>0
  <2> QED
    BY <2>2, <2>3, Zenon DEF Budget
<1> QED
  BY <1>1, <1>2, <1>3, <1>4, <1>5, LimitsUnfold DEF GuardInv

LEMMA RestartGuards ==
    ASSUME GuardInv, TypeOK', Restart
    PROVE  GuardInv'
<1>1. /\ Today \in Nat /\ Today \in Days /\ now <= MaxTime
  BY GuardTypes DEF GuardInv, DayReached
<1>2. /\ now' = now /\ guardDay' = Today /\ runsToday' = 0 /\ actionsToday' = 0
      /\ \A d \in Days : acted'[d] = 0
  BY DEF Restart
<1>3. \A c \in Creations : /\ create'[c].at = Never /\ create'[c].got = Never
                            /\ create'[c].refunded = Never
  <2>1. NewRequest.at = Never /\ NewRequest.got = Never /\ NewRequest.refunded = Never
    BY DEF NewRequest
  <2> QED
    BY <2>1, TurnedFields DEF Restart
<1>4. Today' = Today /\ Today <= Today
  BY <1>1, <1>2 DEF Today
<1>5. Fresh'
  BY <1>1, <1>2, <1>3, <1>4 DEF Fresh, Days, DayOf
<1> QED
  BY <1>5, FreshGuards, PTL

-----------------------------------------------------------------------------
(* Every step. *)

LEMMA GuardInit == Init => GuardInv
<1> SUFFICES ASSUME Init PROVE GuardInv
  OBVIOUS
<1>1. TypeOK
  BY AdmissionInitType
<1>2. 0 \in Nat /\ 0 <= MaxTime /\ MaxTime \in Nat /\ 0 <= 0
  BY AdmissionAssumption
<1>3. DayOf(0) \in Nat /\ DayOf(MaxTime) \in Nat /\ 0 <= DayOf(0) /\ 0 \in Days
  BY <1>2, DayType DEF Days
<1>4. NewRequest.at = Never /\ NewRequest.got = Never /\ NewRequest.refunded = Never
  BY DEF NewRequest
<1>5. /\ now = 0 /\ guardDay = 0 /\ runsToday = 0 /\ actionsToday = 0
      /\ \A d \in Days : acted[d] = 0
      /\ \A c \in Creations : /\ create[c].at = Never /\ create[c].got = Never
                              /\ create[c].refunded = Never
  BY <1>4 DEF Init
<1> QED
  BY <1>1, <1>2, <1>3, <1>5, FreshGuards DEF Fresh, Today

LEMMA GuardStep ==
    ASSUME GuardInv, [Next]_vars
    PROVE  GuardInv'
<1>0. TypeOK /\ TypeOK'
  BY AdmissionStepType DEF GuardInv
<1>1. ASSUME NEW c \in Creations, NEW a \in Addresses \cup {NoAddress}, Begin(c, a)
      PROVE  GuardInv'
  BY <1>0, <1>1, BeginGuards
<1>2. ASSUME NEW c \in Creations, Proceed(c)
      PROVE  GuardInv'
  <2>1. CASE Refund(c)
    BY <1>0, <2>1, RefundGuards
  <2>3. CASE TryBeginRun(c)
    BY <1>0, <2>3, TryBeginRunGuards
  <2>2. CASE ~Refund(c) /\ ~TryBeginRun(c)
    <3>1. \/ CountBusy(c) \/ TakePlace(c) \/ RefusePlace(c)
          \/ Commit(c) \/ FailCreation(c) \/ Finish(c)
      BY <1>2, <2>2 DEF Proceed
    <3>2. (\A d \in Creations : Kept(create[d], create'[d])) /\ UNCHANGED <<now, guardVars, acted>>
      BY <1>0, <3>1, ProceedKeeps, Zenon
    <3> QED
      BY <1>0, <3>2, UntouchedGuards
  <2> QED
    BY <2>1, <2>2, <2>3
<1>3. ASSUME NEW c \in Creations, CloseRun(c)
      PROVE  GuardInv'
  <2>1. create' = create /\ UNCHANGED <<now, guardVars, acted>>
    BY <1>3 DEF CloseRun
  <2>2. \A d \in Creations : Kept(create[d], create'[d])
    BY <2>1, Unchanging
  <2> QED
    BY <1>0, <2>1, <2>2, UntouchedGuards
<1>4. ASSUME NEW c \in Creations, TryAction(c)
      PROVE  GuardInv'
  BY <1>0, <1>4, ActionGuards
<1>5. CASE Tick
  BY <1>0, <1>5, TickGuards
<1>6. CASE Restart
  BY <1>0, <1>6, RestartGuards
<1>7. CASE UNCHANGED vars
  <2>1. create' = create /\ UNCHANGED <<now, guardVars, acted>>
    BY <1>7 DEF vars
  <2>2. \A d \in Creations : Kept(create[d], create'[d])
    BY <2>1, Unchanging
  <2> QED
    BY <1>0, <2>1, <2>2, UntouchedGuards
<1> QED
  BY <1>1, <1>2, <1>3, <1>4, <1>5, <1>6, <1>7 DEF Next

\* In any minute, no address reserves more runs than the rate limit among those
\* that also read the clock in it, however long others wait between the two and
\* are overtaken; and no day has more runs or actions reserved on it than its
\* budget, but for the refunds of reservations made on an earlier day.
THEOREM GuardsAreKept == Spec => []GuardsHold
<1>1. GuardInv => GuardsHold
  BY DEF GuardInv
<1> QED
  BY <1>1, GuardInit, GuardStep, PTL DEF Spec

=============================================================================
