------------------------------- MODULE Crank --------------------------------
(***************************************************************************)
(* The sweep runner (crank.ts): one process that runs over and over,       *)
(* builds and sends the sweeps that are due, one after the other, and      *)
(* records in the table sweep_attempts every attempt and each day's final  *)
(* word on a payment token of a user, here a key.                          *)
(*                                                                         *)
(* The program's account of a key is reduced to the day of its last sweep  *)
(* and whether its user's account lets a sweep pull anything now.  What    *)
(* balances, approvals, prices, routes, venues, simulations and the        *)
(* network answer is any answer they can give.  The process may crash and  *)
(* a sent transaction may land after the process stopped waiting for it.   *)
(* One clock stands for the cluster's and the host's.  A step that reads   *)
(* and then writes only the table is one step: nothing else writes the     *)
(* table, so a crash between the two is a crash before both.               *)
(***************************************************************************)
EXTENDS Integers, Sequences

CONSTANTS
    Keys,                           \* payment tokens of enrolled users
    DAY_SECONDS,                    \* instants per UTC day
    SWEEP_BOUNDARY_MARGIN_SECONDS,  \* no sweep is built closer to a boundary
    MAX_BUILDS,                     \* builds of one sweep in a run
    MAX_FAILED_ATTEMPTS_PER_DAY,    \* failed attempts before a day is given up
    RETRY_AFTER,                    \* how long a key waits after each setback
    LANDING,                        \* how long a sent transaction may still land
    MaxTime,                        \* the clock stops here
    MaxCrashes                      \* crashes of the process

Setbacks == {"alert", "nothing", "price", "slippage", "unknown"}

ASSUME CrankAssumption ==
    /\ Keys # {}
    /\ DAY_SECONDS \in Nat \ {0}
    /\ SWEEP_BOUNDARY_MARGIN_SECONDS \in Nat
    /\ MAX_BUILDS \in Nat \ {0}
    /\ MAX_FAILED_ATTEMPTS_PER_DAY \in Nat \ {0}
    /\ RETRY_AFTER \in [Setbacks -> Nat]
    /\ LANDING \in Nat
    /\ MaxTime \in Nat
    /\ MaxTime >= DAY_SECONDS
    /\ MaxCrashes \in Nat

VARIABLES
    now,            \* the clock
    lastSweepDay,   \* the program's day of each key's last sweep
    pullable,       \* whether the user's account lets a sweep pull anything
    paused,         \* the kill switch
    stray,          \* until when a transaction nobody waits for may land, 0 if none
    attempts,       \* sweep_attempts: of each key and day, failures and final words
    run,            \* the run in progress: where it is and what it read
    sweep,          \* the sweep in progress
    memory,         \* what the process keeps between runs
    crashes,        \* how often the process crashed
    bought          \* history: the days the crank's transactions swept each key

cluster == <<lastSweepDay, pullable, paused, stray, bought>>
process == <<run, sweep, memory, crashes>>
vars == <<now, cluster, attempts, process>>

DayOf(t) == t \div DAY_SECONDS
Days == 0..DayOf(MaxTime)
Words == {"landed", "skipped", "pull_failed", "already_swept"}
Stages == {"none", "build", "built", "sent", "landed", "failed"}
Actions ==
    {"swept", "pull", "recompute", "rebuild", "refetch", "slippage", "venue",
     "price", "alert", "unknown"}

NoRows == [failed |-> 0, words |-> <<>>]
NoDeferral == [at |-> 0, clock |-> "host", on |-> 0]
NoSweep ==
    [stage |-> "none", key |-> CHOOSE k \in Keys : TRUE, build |-> 0, day |-> 0,
     rebuilt |-> FALSE, refetched |-> FALSE, fresh |-> FALSE,
     action |-> "unknown", until |-> 0]
IdleRun ==
    [at |-> "idle", now |-> 0, paused |-> FALSE, due |-> {},
     failures |-> [k \in Keys |-> 0]]
NewProcess ==
    [closedBefore |-> 0, deferred |-> [k \in Keys |-> NoDeferral]]

-----------------------------------------------------------------------------
(***************************************************************************)
(* The table.                                                              *)
(***************************************************************************)
Failed(k, day) == [attempts EXCEPT ![k][day].failed = @ + 1]
Worded(k, day, word) == [attempts EXCEPT ![k][day].words = Append(@, word)]

\* Faulty: failed attempts are not counted.
DecidedByWord(k, day) == attempts[k][day].words # <<>>

\* Faulty: a final word does not decide the day.
DecidedByFailures(k, day) == attempts[k][day].failed >= MAX_FAILED_ATTEMPTS_PER_DAY

Decided(k, day) ==
    \/ attempts[k][day].words # <<>>
    \/ attempts[k][day].failed >= MAX_FAILED_ATTEMPTS_PER_DAY

(***************************************************************************)
(* Deferrals: doubled with each failed attempt of the day, at most a day,  *)
(* or until a boundary on the cluster's clock.  "on" is history: the day   *)
(* of the setback.                                                         *)
(***************************************************************************)
Wait(setback, failures) ==
    LET wait == RETRY_AFTER[setback] * 2 ^ (IF failures > 1 THEN failures - 1 ELSE 0)
    IN  IF wait <= DAY_SECONDS THEN wait ELSE DAY_SECONDS

Defer(k, setback, failures) ==
    memory' = [memory EXCEPT !.deferred[k] =
                   [at |-> now + Wait(setback, failures), clock |-> "host",
                    on |-> DayOf(now)]]

Ready(k) ==
    LET d == memory.deferred[k]
    IN  IF d.clock = "host" THEN d.at <= now ELSE d.at <= run.now

-----------------------------------------------------------------------------
(***************************************************************************)
(* A run: reads the clock and the kill switch, closes the earlier days on  *)
(* the first run of a day, and takes the candidates of its day.            *)
(***************************************************************************)
BeginRun ==
    /\ run.at = "idle"
    /\ run' = [run EXCEPT
                  !.at = IF DayOf(now) > memory.closedBefore THEN "closing" ELSE "reading",
                  !.now = now, !.paused = paused]
    /\ UNCHANGED <<now, cluster, attempts, sweep, memory, crashes>>

\* Faulty: the first run of a day closes nothing of the day before.
ClosedLate(day) ==
    [k \in Keys |-> [d \in Days |->
        IF d < day - 1 /\ attempts[k][d].failed > 0 /\ attempts[k][d].words = <<>>
        THEN [attempts[k][d] EXCEPT !.words = <<"skipped">>]
        ELSE attempts[k][d]]]

\* The days before this one whose attempts all failed are closed as skipped.
Closed(day) ==
    [k \in Keys |-> [d \in Days |->
        IF d < day /\ attempts[k][d].failed > 0 /\ attempts[k][d].words = <<>>
        THEN [attempts[k][d] EXCEPT !.words = <<"skipped">>]
        ELSE attempts[k][d]]]

CloseDays ==
    /\ run.at = "closing"
    /\ attempts' = Closed(DayOf(run.now))
    /\ memory' = [memory EXCEPT !.closedBefore = DayOf(run.now)]
    /\ run' = [run EXCEPT !.at = "reading"]
    /\ UNCHANGED <<now, cluster, sweep, crashes>>

Hold ==
    /\ run.at = "reading"
    /\ run.paused
    /\ run' = IdleRun
    /\ UNCHANGED <<now, cluster, attempts, sweep, memory, crashes>>

Candidates(day) ==
    {k \in Keys : pullable[k] /\ lastSweepDay[k] < day /\ ~Decided(k, day) /\ Ready(k)}

ReadCandidates ==
    /\ run.at = "reading"
    /\ ~run.paused
    /\ run' = [run EXCEPT
                  !.at = "sweeping",
                  !.due = Candidates(DayOf(run.now)),
                  !.failures = [k \in Keys |-> attempts[k][DayOf(run.now)].failed]]
    /\ UNCHANGED <<now, cluster, attempts, sweep, memory, crashes>>

NextCandidate ==
    /\ run.at = "sweeping"
    /\ sweep.stage = "none"
    /\ \E k \in run.due :
        /\ sweep' = [NoSweep EXCEPT !.key = k, !.stage = "build", !.build = 1]
        /\ run' = [run EXCEPT !.due = @ \ {k}]
    /\ UNCHANGED <<now, cluster, attempts, memory, crashes>>

EndRun ==
    /\ run.at = "sweeping"
    /\ sweep.stage = "none"
    /\ run.due = {}
    /\ run' = IdleRun
    /\ UNCHANGED <<now, cluster, attempts, sweep, memory, crashes>>

\* A read or the insert of a run throws: the loop logs it and runs again.
RunFails ==
    /\ run.at \in {"closing", "reading"}
    /\ run' = IdleRun
    /\ UNCHANGED <<now, cluster, attempts, sweep, memory, crashes>>

-----------------------------------------------------------------------------
(***************************************************************************)
(* How an attempt ends.  Each takes the attempt's day; the sweep ends, or  *)
(* is built again while builds are left.                                   *)
(***************************************************************************)
Key == sweep.key
Failures == run.failures[Key] + 1

\* A failed attempt after which the key waits.
FailAndDefer(day, setback) ==
    /\ attempts' = Failed(Key, day)
    /\ Defer(Key, setback, Failures)
    /\ sweep' = NoSweep

\* A final word for the day.
Conclude(day, word) ==
    /\ attempts' = Worded(Key, day, word)
    /\ sweep' = NoSweep
    /\ memory' = IF word = "landed" THEN [memory EXCEPT !.deferred[Key] = NoDeferral]
                                    ELSE memory

\* Faulty: one build more than there are.
BuildOnceMore(s) ==
    IF s.build <= MAX_BUILDS
    THEN /\ sweep' = [s EXCEPT !.build = @ + 1, !.stage = "build"]
         /\ UNCHANGED memory
    ELSE /\ Defer(Key, "unknown", Failures)
         /\ sweep' = NoSweep

\* Another build of the next state s of the sweep, or the last one was used.
BuildAgain(s) ==
    IF s.build < MAX_BUILDS
    THEN /\ sweep' = [s EXCEPT !.build = @ + 1, !.stage = "build"]
         /\ UNCHANGED memory
    ELSE /\ Defer(Key, "unknown", Failures)
         /\ sweep' = NoSweep

FailAndBuildAgain(day, s) ==
    /\ attempts' = Failed(Key, day)
    /\ BuildAgain(s)

-----------------------------------------------------------------------------
(***************************************************************************)
(* One build, from the cluster's state: what the state says ends or defers *)
(* the sweep, then the price and the route may.                            *)
(***************************************************************************)
Sweepable(k) == ~paused /\ DayOf(now) > lastSweepDay[k] /\ pullable[k]

ToBoundary == DAY_SECONDS - (now % DAY_SECONDS)

\* The asset is paused by its issuer.
AssetPaused == FailAndDefer(DayOf(now), "nothing")

\* The user's asset changed since they were read.
AssetChanged == BuildAgain(sweep) /\ UNCHANGED attempts

AlreadySwept ==
    /\ ~paused
    /\ DayOf(now) <= lastSweepDay[Key]
    /\ Conclude(DayOf(now), "already_swept")

NothingToSweep ==
    /\ ~paused
    /\ DayOf(now) > lastSweepDay[Key]
    /\ Defer(Key, "nothing", 0)
    /\ sweep' = NoSweep
    /\ UNCHANGED attempts

RestoreRequired == Sweepable(Key) /\ Conclude(DayOf(now), "skipped")

\* A boundary that changes the pull is near: the day's end, or another one.
WaitForBoundary ==
    /\ Sweepable(Key)
    /\ \E left \in 1..ToBoundary :
        /\ left < SWEEP_BOUNDARY_MARGIN_SECONDS
        /\ memory' = [memory EXCEPT !.deferred[Key] =
                          [at |-> now + left, clock |-> "cluster", on |-> DayOf(now)]]
    /\ sweep' = NoSweep
    /\ UNCHANGED attempts

Priceable == Sweepable(Key) /\ ToBoundary >= SWEEP_BOUNDARY_MARGIN_SECONDS

PriceRefused ==
    /\ Priceable
    /\ \E setback \in {"price", "alert"} : FailAndDefer(DayOf(now), setback)

NoRoute == Priceable /\ FailAndDefer(DayOf(now), "slippage")

PoorQuote ==
    /\ Priceable
    /\ IF sweep.fresh THEN FailAndDefer(DayOf(now), "slippage")
                      ELSE FailAndBuildAgain(DayOf(now), [sweep EXCEPT !.fresh = TRUE])

Built ==
    /\ Priceable
    /\ sweep' = [sweep EXCEPT !.stage = "built", !.day = DayOf(now)]
    /\ UNCHANGED <<attempts, memory>>

Build ==
    /\ sweep.stage = "build"
    /\ \/ AssetPaused \/ AssetChanged \/ AlreadySwept \/ NothingToSweep
       \/ RestoreRequired \/ WaitForBoundary \/ PriceRefused \/ NoRoute
       \/ PoorQuote \/ Built
    /\ UNCHANGED <<now, cluster, run, crashes>>

-----------------------------------------------------------------------------
(***************************************************************************)
(* Sending: the simulation refuses, or the transaction is on its way until *)
(* it lands, fails on the cluster or its blockhash expires.                *)
(***************************************************************************)

\* What an execution now can fail with, as the crank reads it.
FailuresNow(k) ==
    IF paused THEN {"refetch"}
    ELSE IF DayOf(now) <= lastSweepDay[k] THEN {"swept"}
    ELSE IF ~pullable[k] THEN {"recompute"}
    ELSE Actions \ {"swept"}

ComputeLimit == FailAndBuildAgain(sweep.day, sweep)

TooLarge == Conclude(sweep.day, "skipped")

SimulationFails ==
    /\ \E action \in FailuresNow(Key) :
        sweep' = [sweep EXCEPT !.stage = "failed", !.action = action]
    /\ UNCHANGED <<attempts, memory>>

Sent ==
    /\ Sweepable(Key)
    /\ sweep' = [sweep EXCEPT !.stage = "sent", !.until = now + LANDING]
    /\ UNCHANGED <<attempts, memory>>

Send ==
    /\ sweep.stage = "built"
    /\ ComputeLimit \/ TooLarge \/ SimulationFails \/ Sent
    /\ UNCHANGED <<now, cluster, run, crashes>>

\* The program runs the crank's sweep of k.
Executes(k) ==
    /\ Sweepable(k)
    /\ lastSweepDay' = [lastSweepDay EXCEPT ![k] = DayOf(now)]
    /\ bought' = [bought EXCEPT ![k] = @ \union {DayOf(now)}]

Land ==
    /\ sweep.stage = "sent"
    /\ now <= sweep.until
    /\ Executes(Key)
    /\ sweep' = [sweep EXCEPT !.stage = "landed"]
    /\ UNCHANGED <<now, pullable, paused, stray, attempts, run, memory, crashes>>

FailOnCluster ==
    /\ sweep.stage = "sent"
    /\ now <= sweep.until
    /\ \E action \in FailuresNow(Key) :
        sweep' = [sweep EXCEPT !.stage = "failed", !.action = action]
    /\ UNCHANGED <<now, cluster, attempts, run, memory, crashes>>

LandStray(k) ==
    /\ now <= stray[k]
    /\ Executes(k)
    /\ stray' = [stray EXCEPT ![k] = 0]
    /\ UNCHANGED <<now, pullable, paused, attempts, process>>

-----------------------------------------------------------------------------
(***************************************************************************)
(* What the crank does with the answer.                                    *)
(***************************************************************************)
RecordLanded ==
    /\ sweep.stage = "landed"
    /\ Conclude(sweep.day, "landed")
    /\ UNCHANGED <<now, cluster, run, crashes>>

\* A sweep that is given up while its transaction is on its way.
LeaveStray ==
    stray' = IF sweep.stage = "sent" /\ sweep.until > stray[Key]
             THEN [stray EXCEPT ![Key] = sweep.until]
             ELSE stray

\* An error that is no verdict: a request that failed, a transaction not
\* confirmed in time or not read back, or a landing whose insert failed.
Unclear ==
    /\ sweep.stage \in {"built", "sent", "landed"}
    /\ FailAndDefer(sweep.day, "unknown")
    /\ LeaveStray
    /\ UNCHANGED <<now, lastSweepDay, pullable, paused, bought, run, crashes>>

HandleFailure ==
    LET day == sweep.day
        action == sweep.action
    IN  CASE action = "swept" -> Conclude(day, "already_swept")
          [] action = "pull" -> Conclude(day, "pull_failed")
          [] action \in {"recompute", "venue"} -> FailAndBuildAgain(day, sweep)
          [] action = "rebuild" ->
                \* Given up the second time if the pull is still the same.
                \/ FailAndBuildAgain(day, [sweep EXCEPT !.rebuilt = TRUE])
                \/ sweep.rebuilt /\ FailAndDefer(day, "slippage")
          [] action = "refetch" ->
                IF sweep.refetched THEN FailAndDefer(day, "unknown")
                ELSE IF paused
                THEN /\ attempts' = Failed(Key, day)
                     /\ sweep' = NoSweep
                     /\ UNCHANGED memory
                ELSE FailAndBuildAgain(day, [sweep EXCEPT !.refetched = TRUE])
          [] action = "slippage" ->
                IF sweep.fresh THEN FailAndDefer(day, "slippage")
                ELSE FailAndBuildAgain(day, [sweep EXCEPT !.fresh = TRUE])
          [] OTHER -> FailAndDefer(day, action)

Handle ==
    /\ sweep.stage = "failed"
    /\ HandleFailure
    /\ UNCHANGED <<now, cluster, run, crashes>>

\* Any read, request or insert of a sweep may throw: the run goes on.
Throw ==
    /\ sweep.stage # "none"
    /\ Defer(Key, "unknown", run.failures[Key])
    /\ sweep' = NoSweep
    /\ LeaveStray
    /\ UNCHANGED <<now, lastSweepDay, pullable, paused, bought, attempts, run, crashes>>

\* The process dies and starts again, with nothing but the table.
Crash ==
    /\ crashes < MaxCrashes
    /\ crashes' = crashes + 1
    /\ run' = IdleRun
    /\ sweep' = NoSweep
    /\ memory' = NewProcess
    /\ LeaveStray
    /\ UNCHANGED <<now, lastSweepDay, pullable, paused, bought, attempts>>

-----------------------------------------------------------------------------
(***************************************************************************)
(* The world: time, the kill switch, what is due, and anyone's sweeps.     *)
(***************************************************************************)
Tick ==
    /\ now < MaxTime
    /\ now' = now + 1
    /\ stray' = [k \in Keys |-> IF stray[k] > now THEN stray[k] ELSE 0]
    /\ UNCHANGED <<lastSweepDay, pullable, paused, bought, attempts, process>>

SetPaused ==
    /\ paused' = ~paused
    /\ UNCHANGED <<now, lastSweepDay, pullable, stray, bought, attempts, process>>

AccountChanges(k) ==
    /\ pullable' = [pullable EXCEPT ![k] = ~@]
    /\ UNCHANGED <<now, lastSweepDay, paused, stray, bought, attempts, process>>

SweptByOther(k) ==
    /\ Sweepable(k)
    /\ lastSweepDay' = [lastSweepDay EXCEPT ![k] = DayOf(now)]
    /\ UNCHANGED <<now, pullable, paused, stray, bought, attempts, process>>

-----------------------------------------------------------------------------
Init ==
    /\ now = DAY_SECONDS
    /\ lastSweepDay = [k \in Keys |-> 0]
    /\ pullable \in [Keys -> BOOLEAN]
    /\ paused = FALSE
    /\ stray = [k \in Keys |-> 0]
    /\ attempts = [k \in Keys |-> [d \in Days |-> NoRows]]
    /\ run = IdleRun
    /\ sweep = NoSweep
    /\ memory = NewProcess
    /\ crashes = 0
    /\ bought = [k \in Keys |-> {}]

Progress ==
    \/ BeginRun \/ CloseDays \/ Hold \/ ReadCandidates \/ NextCandidate \/ EndRun
    \/ Build \/ Send \/ RecordLanded \/ Unclear \/ Handle \/ Throw

World ==
    \/ Tick \/ SetPaused
    \/ \E k \in Keys : LandStray(k) \/ AccountChanges(k) \/ SweptByOther(k)

Next == Progress \/ RunFails \/ Land \/ FailOnCluster \/ Crash \/ World

Spec == Init /\ [][Next]_vars
=============================================================================
