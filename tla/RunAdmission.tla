----------------------------- MODULE RunAdmission -----------------------------
(***************************************************************************)
(* Admission of new runs and actions: create_run (service.py) with the     *)
(* demo guards (demo_guards.py).                                           *)
(*                                                                         *)
(* A creation passes three limits that are kept in three places: a sliding *)
(* rate window and a daily budget in the guards' memory, and a cap on busy *)
(* runs that compares the database plus a counter of creations under way.  *)
(* create_run is a plain handler and runs in a worker thread, so every two *)
(* creations interleave.  Each creation makes one run, named after it.     *)
(*                                                                         *)
(* try_begin_run reads the clock before it takes the guards' lock, and the *)
(* roll-over of the day reads it again inside: the two are steps of their  *)
(* own here, and other creations, time and midnight come between them.     *)
(***************************************************************************)
EXTENDS Integers, FiniteSets, Sequences

CONSTANTS
    Creations,          \* create_run requests, and the runs they make
    Addresses,          \* client addresses
    NoAddress,          \* a caller that is not HTTP: the demo's reseed
    NoCreation,         \* nobody holds the creation lock
    MaxConcurrentRuns,
    RunsPerMinute,      \* rate limit per address
    RunsPerDay,
    ActionsPerDay,
    TurnsPerRun,
    Minute,             \* length of the rate window, in clock ticks
    Day,                \* length of a day, in clock ticks
    MaxTime,            \* bound: the clock
    MayRestart          \* the process can restart

ASSUME AdmissionAssumption ==
    /\ IsFiniteSet(Creations)
    /\ NoCreation \notin Creations
    /\ NoAddress \notin Addresses
    /\ {MaxConcurrentRuns, RunsPerMinute, RunsPerDay, ActionsPerDay,
        TurnsPerRun, MaxTime} \subseteq Nat
    /\ Minute \in Nat \ {0} /\ Day \in Nat \ {0}
    /\ MayRestart \in BOOLEAN

VARIABLES
    mode,        \* of the guards: off, on, or invalid configuration
    now,         \* the clock
    \* the database
    run,         \* [Creations -> status of the run it made]
    \* the guards' memory
    guardDay,    \* _day: the day the counters are for
    runsToday,
    actionsToday,
    window,      \* [Addresses -> the deque: creations in the order they reserved]
    turns,       \* [Creations -> _turns_by_run]
    \* the service's memory
    lock,        \* holder of _creation_lock
    pending,     \* _pending_creations
    create,      \* [Creations -> the request]
    \* history: what was admitted since the process started
    acted        \* [days -> action submissions admitted that day]

guardVars   == <<guardDay, runsToday, actionsToday, window, turns>>
serviceVars == <<lock, pending>>
vars == <<mode, now, run, guardVars, serviceVars, create, acted>>

-----------------------------------------------------------------------------
Never == -1
DayOf(t) == t \div Day
Today == DayOf(now)
Days  == 0 .. DayOf(MaxTime)

\* A request that has read the clock and waits for the guards' lock, holds a
\* reservation of the daily budget but no place yet, is inside the creation
\* lock, holds a place, has its run, gives up.
Progress == {"new", "stamped", "reserved", "counted", "admitted", "committed",
             "refused", "unwinding", "done"}

\* at: the clock as it read it, its stamp; got: when the guards' lock let it
\* reserve; refunded: the guards' day when it gave that back; place: it was
\* added to the pending creations; seen: busy runs it counted.
NewRequest == [pc |-> "new", address |-> NoAddress, at |-> Never, got |-> Never,
               refunded |-> Never, place |-> FALSE, seen |-> {}]

\* A request that ended with nothing reserved, or was cut off by a restart.
Turned == [NewRequest EXCEPT !.pc = "done"]

\* from_env: what an integer setting, or its older alias when it is blank,
\* holds.  Without a demo token nothing is read.
Settings == {"blank", "malformed", "negative", "natural"}

ModeOf(hasToken, setting, alias) ==
    LET raw == IF setting = "blank" THEN alias ELSE setting
    IN  IF ~hasToken THEN "off"
        ELSE IF raw \in {"malformed", "negative"} THEN "invalid" ELSE "on"

Init ==
    /\ \E hasToken \in BOOLEAN, setting, alias \in Settings :
         mode = ModeOf(hasToken, setting, alias)
    /\ now = 0
    /\ run = [c \in Creations |-> "ABSENT"]
    /\ guardDay = 0 /\ runsToday = 0 /\ actionsToday = 0
    /\ window = [a \in Addresses |-> <<>>]
    /\ turns  = [c \in Creations |-> 0]
    /\ lock = NoCreation /\ pending = 0
    /\ create = [c \in Creations |-> NewRequest]
    /\ acted = [d \in Days |-> 0]

-----------------------------------------------------------------------------
(* The guards. *)

\* _rollover: the first call of a new UTC day starts both counters afresh.
Rolled(counter) == IF Today = guardDay THEN counter ELSE 0

\* What an address's window holds.  A caller without an address has none.
Window(a) == IF a = NoAddress THEN <<>> ELSE window[a]

\* Mutant: a creation leaves the window a tick before its minute is over.
OutdatedEarly(a, n, stamp) ==
    /\ \A i \in 1 .. n : create[Window(a)[i]].at <= stamp - Minute + 1
    /\ n < Len(Window(a)) => create[Window(a)[n + 1]].at > stamp - Minute + 1

\* The loop over the deque drops its first n: it stops at the first entry of
\* the minute before the stamp it was given, whatever comes after that entry.
Outdated(a, n, stamp) ==
    /\ \A i \in 1 .. n : create[Window(a)[i]].at <= stamp - Minute
    /\ n < Len(Window(a)) => create[Window(a)[n + 1]].at > stamp - Minute

Recent(a, n) == SubSeq(Window(a), n + 1, Len(Window(a)))

RateLimited(a, n) == a # NoAddress /\ Len(Recent(a, n)) >= RunsPerMinute
BudgetSpent       == Rolled(runsToday) >= RunsPerDay

\* try_begin_run inside the guards' lock: rate limit and daily budget are
\* checked and reserved in one critical section, the window by the stamp the
\* request came with, the day by the clock now.  A refusal still rolls over
\* the day and drops what has left the window.
TryBeginRun(c) ==
    /\ create[c].pc = "stamped"
    /\ \E n \in 0 .. Len(Window(create[c].address)) :
         LET a       == create[c].address
             refused == RateLimited(a, n) \/ BudgetSpent
             kept    == IF refused THEN Recent(a, n) ELSE Append(Recent(a, n), c)
         IN  /\ Outdated(a, n, create[c].at)
             /\ guardDay'     = Today
             /\ actionsToday' = Rolled(actionsToday)
             /\ runsToday'    = Rolled(runsToday) + (IF refused THEN 0 ELSE 1)
             /\ window'       = IF a = NoAddress THEN window ELSE [window EXCEPT ![a] = kept]
             /\ create'       = IF refused
                                THEN [create EXCEPT ![c] = Turned]
                                ELSE [create EXCEPT ![c].pc = "reserved", ![c].got = now]
    /\ UNCHANGED <<mode, now, run, turns, serviceVars, acted>>

\* release_run: the counter of whatever day it is for, never below zero.
Refunded(counter) == IF counter > 0 THEN counter - 1 ELSE 0

-----------------------------------------------------------------------------
(* create_run. *)

\* The agent's token budget, or guards that are misconfigured, may refuse
\* before anything is reserved.  Guards that are on read the clock.
Begin(c, a) ==
    /\ create[c].pc = "new"
    /\ \/ create' = [create EXCEPT ![c] = Turned]
       \/ /\ mode = "off"
          /\ create' = [create EXCEPT ![c].pc = "admitted"]
       \/ /\ mode = "on"
          /\ create' = [create EXCEPT ![c].pc = "stamped", ![c].address = a, ![c].at = now]
    /\ UNCHANGED <<mode, now, run, guardVars, serviceVars, acted>>

Busy == {c \in Creations : run[c] = "BUSY"}

\* Inside _creation_lock the runs are listed ...
CountBusy(c) ==
    /\ create[c].pc = "reserved"
    /\ lock = NoCreation
    /\ lock' = c
    /\ create' = [create EXCEPT ![c].pc = "counted", ![c].seen = Busy]
    /\ UNCHANGED <<mode, now, run, guardVars, pending, acted>>

\* Mutant: a creation under way is not counted.
AtCapacityInDatabase(c) == Cardinality(create[c].seen) >= MaxConcurrentRuns

\* Mutant: the cap is exceeded by one.
AtCapacityAbove(c) == Cardinality(create[c].seen) + pending > MaxConcurrentRuns

AtCapacity(c) == Cardinality(create[c].seen) + pending >= MaxConcurrentRuns

\* ... and compared, together with the pending creations, to the cap.
TakePlace(c) ==
    /\ create[c].pc = "counted"
    /\ ~AtCapacity(c)
    /\ pending' = pending + 1
    /\ lock' = NoCreation
    /\ create' = [create EXCEPT ![c].pc = "admitted", ![c].place = TRUE, ![c].seen = {}]
    /\ UNCHANGED <<mode, now, run, guardVars, acted>>

\* Mutant: a refused creation leaves with the lock.
RefusePlaceKeepingLock(c) ==
    /\ create[c].pc = "counted"
    /\ create' = [create EXCEPT ![c].pc = "refused", ![c].seen = {}]
    /\ UNCHANGED <<mode, now, run, guardVars, serviceVars, acted>>

\* No place, or the runs cannot be read (503): nothing was added.
RefusePlace(c) ==
    /\ create[c].pc = "counted"
    /\ lock' = NoCreation
    /\ create' = [create EXCEPT ![c].pc = "refused", ![c].seen = {}]
    /\ UNCHANGED <<mode, now, run, guardVars, pending, acted>>

\* The run is stored; its place is still held.
Commit(c) ==
    /\ create[c].pc = "admitted"
    /\ run' = [run EXCEPT ![c] = "BUSY"]
    /\ create' = [create EXCEPT ![c].pc = "committed"]
    /\ UNCHANGED <<mode, now, guardVars, serviceVars, acted>>

\* The workspace cannot be initialised, or the transaction fails.
FailCreation(c) ==
    /\ create[c].pc = "admitted"
    /\ create' = [create EXCEPT ![c].pc = "refused"]
    /\ UNCHANGED <<mode, now, run, guardVars, serviceVars, acted>>

\* except BaseException: the daily reservation, if there is one, goes back.
Refund(c) ==
    /\ create[c].pc = "refused"
    /\ runsToday' = IF create[c].got = Never THEN runsToday ELSE Refunded(runsToday)
    /\ create' = [create EXCEPT ![c].pc = "unwinding",
                     ![c].refunded = IF create[c].got = Never THEN Never ELSE guardDay]
    /\ UNCHANGED <<mode, now, run, guardDay, actionsToday, window, turns,
                   serviceVars, acted>>

\* finally: the place is given back, after the commit or after the refund.
Finish(c) ==
    /\ create[c].pc \in {"committed", "unwinding"}
    /\ create[c].place => lock = NoCreation
    /\ pending' = IF create[c].place /\ pending > 0 THEN pending - 1 ELSE pending
    /\ create' = [create EXCEPT ![c].pc = "done", ![c].place = FALSE]
    /\ UNCHANGED <<mode, now, run, guardVars, lock, acted>>

-----------------------------------------------------------------------------
(* The rest of the gateway, as far as admission sees it. *)

\* complete_run, fail_run, or the demo's reset.
CloseRun(c) ==
    /\ run[c] = "BUSY"
    /\ run' = [run EXCEPT ![c] = "CLOSED"]
    /\ UNCHANGED <<mode, now, guardVars, serviceVars, create, acted>>

ActionRefused(c) ==
    \/ Rolled(actionsToday) >= ActionsPerDay
    \/ turns[c] >= TurnsPerRun

\* try_action at the head of submit_action: nothing is ever refunded.
TryAction(c) ==
    /\ mode = "on"
    /\ run[c] = "BUSY"
    /\ guardDay'  = Today
    /\ runsToday' = Rolled(runsToday)
    /\ IF ActionRefused(c)
       THEN /\ actionsToday' = Rolled(actionsToday)
            /\ UNCHANGED <<turns, acted>>
       ELSE /\ actionsToday' = Rolled(actionsToday) + 1
            /\ turns' = [turns EXCEPT ![c] = @ + 1]
            /\ acted' = [acted EXCEPT ![Today] = @ + 1]
    /\ UNCHANGED <<mode, now, run, window, serviceVars, create>>

Tick ==
    /\ now < MaxTime
    /\ now' = now + 1
    /\ UNCHANGED <<mode, run, guardVars, serviceVars, create, acted>>

\* The guards and the service start afresh; only the runs are stored.  What
\* was admitted before no longer counts against any limit but the cap.
Restart ==
    /\ MayRestart
    /\ guardDay' = Today /\ runsToday' = 0 /\ actionsToday' = 0
    /\ window' = [a \in Addresses |-> <<>>]
    /\ turns'  = [c \in Creations |-> 0]
    /\ lock' = NoCreation /\ pending' = 0
    /\ create' = [c \in Creations |->
          IF create[c].pc = "new" THEN NewRequest ELSE Turned]
    /\ acted' = [d \in Days |-> 0]
    /\ UNCHANGED <<mode, now, run>>

Proceed(c) ==
    \/ TryBeginRun(c)
    \/ CountBusy(c) \/ TakePlace(c) \/ RefusePlace(c)
    \/ Commit(c) \/ FailCreation(c) \/ Refund(c) \/ Finish(c)

Next ==
    \/ \E c \in Creations :
          \/ \E a \in Addresses \cup {NoAddress} : Begin(c, a)
          \/ Proceed(c) \/ CloseRun(c) \/ TryAction(c)
    \/ Tick
    \/ Restart

Spec == Init /\ [][Next]_vars

-----------------------------------------------------------------------------
(* Properties. *)

\* The shape of the state.
TypeOK ==
    /\ mode \in {"off", "on", "invalid"}
    /\ now \in Nat
    /\ run \in [Creations -> {"ABSENT", "BUSY", "CLOSED"}]
    /\ {guardDay, runsToday, actionsToday, pending} \subseteq Nat
    /\ window \in [Addresses -> Seq(Creations)]
    /\ turns \in [Creations -> Nat]
    /\ lock \in Creations \cup {NoCreation}
    /\ create \in [Creations ->
          [pc : Progress, address : Addresses \cup {NoAddress}, at : Nat \cup {Never},
           got : Nat \cup {Never}, refunded : Nat \cup {Never}, place : BOOLEAN,
           seen : SUBSET Creations]]
    /\ acted \in [Days -> Nat]

Admitted == {c \in Creations : create[c].pc = "admitted"}
Placed   == {c \in Creations : create[c].place}

\* With the guards on there are never more busy runs than the cap allows,
\* whatever creations overlap, fail or are cut short by a restart: the
\* comparison in create_run counts stored runs and pending creations, which
\* change independently of each other.
CapHolds == mode = "on" => Cardinality(Busy) <= MaxConcurrentRuns

\* What the cap rests on.  Every place taken is in the pending counter
\* until after its run is stored, and is always given back ...
PendingAccounts ==
    /\ pending = Cardinality(Placed)
    /\ \A c \in Placed : create[c].pc \in {"admitted", "committed", "refused", "unwinding"}
    /\ mode = "on" => Admitted \subseteq Placed

\* ... and whoever compares with the cap holds the lock, and has counted or
\* finds pending whatever occupies a place by then.
CountCovers ==
    \A c \in Creations : create[c].pc = "counted" =>
        /\ lock = c
        /\ mode = "on"
        /\ Busy \cup Admitted \subseteq create[c].seen \cup Placed

\* A place is taken before its run exists.
PlacesBounded == mode = "on" => Cardinality(Busy \cup Admitted) <= MaxConcurrentRuns

Admission == PendingAccounts /\ CountCovers /\ PlacesBounded

\* The rate limit of an address, for every stretch of a minute and not only
\* for those the deque happens to be pruned at: of the creations that both
\* read the clock and reserved within the minute, there are no more than the
\* limit.  A creation that was overtaken while it waited for the guards' lock
\* is not among those of the minute its stamp is in: whoever overtook it has
\* already dropped, by a later stamp, entries of that minute.
RateHolds ==
    \A a \in Addresses, t \in 0 .. MaxTime :
        Cardinality({c \in Creations : /\ create[c].address = a
                                       /\ create[c].got # Never
                                       /\ t - Minute < create[c].at
                                       /\ create[c].got <= t})
            <= RunsPerMinute

\* The day a creation is counted on is the one it reserved on, which need not
\* be the one it was stamped on.
ReservedOn(d) ==
    {c \in Creations : /\ create[c].got # Never /\ DayOf(create[c].got) = d
                       /\ create[c].refunded = Never}
LateRefunds(d) ==
    {c \in Creations : create[c].refunded = d /\ DayOf(create[c].got) # d}

\* The daily counters agree with what was admitted on their day: they never
\* claim more, and claim less only by the refunds of an earlier day's runs.
BudgetAccounts ==
    /\ runsToday <= Cardinality(ReservedOn(guardDay))
    /\ Cardinality(ReservedOn(guardDay)) <= runsToday + Cardinality(LateRefunds(guardDay))
    /\ runsToday <= RunsPerDay
    /\ actionsToday = acted[guardDay]
    /\ \A d \in Days : acted[d] <= ActionsPerDay

\* The limits of the guards' memory, across threads and midnight.
GuardsHold == RateHolds /\ BudgetAccounts

\* A creation that got past the guards' first check ends, and leaves no place
\* behind, however it fails.
CreationEnds ==
    \A c \in Creations :
        create[c].pc # "new" ~> (create[c].pc = "done" /\ ~create[c].place)

\* Admission is a pool of places: one is held from the moment a creation is
\* admitted until its run is closed or the creation fails.
Pool == INSTANCE CapacityPool
            WITH Holders <- Creations, Capacity <- MaxConcurrentRuns,
                 held <- IF mode = "on" THEN Busy \cup Admitted ELSE {}
ImplementsPool == Pool!Spec

=============================================================================
