----------------------------- MODULE CrankProofs -----------------------------
(***************************************************************************)
(* The sweep runner's safety, proved for any number of keys, builds,       *)
(* failures and crashes, and any lengths of days, margins and waits: a     *)
(* day's word is final and its failed attempts are bounded.                *)
(***************************************************************************)
EXTENDS CrankProperties, FiniteSetTheorems, TLAPS

Tables == [Keys -> [Days -> [failed : Nat, words : Seq(Words)]]]

\* What the arguments need of the types.
Typed ==
    /\ now \in Nat
    /\ now <= MaxTime
    /\ paused \in BOOLEAN
    /\ attempts \in Tables
    /\ run \in Runs
    /\ sweep \in Sweeps

\* Day d of k has no word and at most n failed attempts.
Open(k, d, n) == attempts[k][d].words = <<>> /\ attempts[k][d].failed <= n

\* The failed attempts with which a run may take a key.
Spare == MAX_FAILED_ATTEMPTS_PER_DAY - 1

(***************************************************************************)
(* Nothing is recorded for days to come.  A run still knows, of the keys   *)
(* it has yet to sweep and of the one it is sweeping, that every day it    *)
(* could record is open: one failed attempt per build of the sweep.        *)
(***************************************************************************)
NoRowsAhead == \A k \in Keys, d \in Days : d > DayOf(now) => attempts[k][d] = NoRows

RunKnows ==
    /\ run.at # "idle" => run.now <= now
    /\ run.at \in {"closing", "reading"} =>
        \A k \in Keys, d \in Days : d > DayOf(run.now) => attempts[k][d] = NoRows
    /\ run.at = "sweeping" =>
        \A k \in run.due, d \in Days : d >= DayOf(run.now) => Open(k, d, Spare)

SweepKnows ==
    sweep.stage # "none" =>
        /\ run.at = "sweeping"
        /\ sweep.key \notin run.due
        /\ sweep.build >= 1
        /\ sweep.stage # "build" =>
            sweep.day >= DayOf(run.now) /\ sweep.day <= DayOf(now)
        /\ \A d \in Days :
            d >= DayOf(run.now) => Open(sweep.key, d, Spare + sweep.build - 1)

RunInv == NoRowsAhead /\ RunKnows /\ SweepKnows /\ FailuresBounded

-----------------------------------------------------------------------------
(* A later instant is in no earlier day (today).                           *)
LEMMA DayMonotone ==
    ASSUME NEW a \in Nat, NEW b \in Nat, a <= b
    PROVE  DayOf(a) \in Nat /\ DayOf(a) <= DayOf(b)
  <1>1. ASSUME NEW w \in Nat \ {0} PROVE a \div w \in Nat /\ a \div w <= b \div w
    OBVIOUS
  <1> QED BY <1>1, CrankAssumption DEF DayOf

(* The days of the table are those the clock can reach (today).            *)
LEMMA TodayInDays ==
    ASSUME NEW t \in Nat, t <= MaxTime
    PROVE  DayOf(t) \in Days
  BY DayMonotone, CrankAssumption DEF Days

(* A process that starts sweeps nothing (the constructor of Crank).        *)
LEMMA Initially ==
    /\ NoSweep \in Sweeps
    /\ NoSweep.stage = "none"
    /\ IdleRun \in Runs
    /\ IdleRun.at = "idle"
  <1>1. 0 \in Days BY TodayInDays, DayMonotone, CrankAssumption DEF Days
  <1>2. (CHOOSE k \in Keys : TRUE) \in Keys BY CrankAssumption
  <1>3. 0 \in 0..MAX_BUILDS BY CrankAssumption
  <1> QED BY <1>1, <1>2, <1>3 DEF NoSweep, Sweeps, Stages, Actions, IdleRun, Runs

(* A failed attempt adds one failure to its day and nothing else (record). *)
LEMMA FailedRows ==
    ASSUME attempts \in Tables, NEW k \in Keys, NEW day \in Days
    PROVE  /\ Failed(k, day) \in Tables
           /\ \A j \in Keys, d \in Days :
                Failed(k, day)[j][d] =
                    IF j = k /\ d = day
                    THEN [failed |-> attempts[j][d].failed + 1, words |-> attempts[j][d].words]
                    ELSE attempts[j][d]
  BY DEF Failed, Tables

(* A word is appended to the words of its day and changes nothing else     *)
(* (record).                                                               *)
LEMMA WordedRows ==
    ASSUME attempts \in Tables, NEW k \in Keys, NEW day \in Days, NEW word \in Words
    PROVE  /\ Worded(k, day, word) \in Tables
           /\ \A j \in Keys, d \in Days :
                Worded(k, day, word)[j][d] =
                    IF j = k /\ d = day
                    THEN [failed |-> attempts[j][d].failed,
                          words |-> Append(attempts[j][d].words, word)]
                    ELSE attempts[j][d]
  <1> DEFINE Rows == [failed : Nat, words : Seq(Words)]
             rows == [attempts[k][day] EXCEPT !.words = Append(@, word)]
  <1>1. ASSUME NEW r \in Rows
        PROVE  /\ [r EXCEPT !.words = Append(r.words, word)] \in Rows
               /\ [r EXCEPT !.words = Append(r.words, word)]
                    = [failed |-> r.failed, words |-> Append(r.words, word)]
    <2>1. r.words \in Seq(Words) /\ r.failed \in Nat OBVIOUS
    <2>2. Append(r.words, word) \in Seq(Words) BY <2>1
    <2> DEFINE more == Append(r.words, word)
    <2> HIDE DEF more
    <2>3. [r EXCEPT !.words = more] = [failed |-> r.failed, words |-> more] OBVIOUS
    <2>4. [failed |-> r.failed, words |-> more] \in Rows BY <2>1, <2>2 DEF more
    <2> QED BY <2>3, <2>4, Zenon DEF more
  <1>2. /\ rows \in Rows
        /\ rows = [failed |-> attempts[k][day].failed,
                   words |-> Append(attempts[k][day].words, word)]
    <2>1. attempts[k][day] \in Rows BY DEF Tables
    <2> QED BY <2>1, <1>1
  <1>3. Worded(k, day, word) = [attempts EXCEPT ![k] = [@ EXCEPT ![day] = rows]]
    BY DEF Worded
  <1> HIDE DEF rows
  <1>4. Worded(k, day, word) \in Tables BY <1>2, <1>3 DEF Tables
  <1>5. \A j \in Keys, d \in Days :
            Worded(k, day, word)[j][d] = IF j = k /\ d = day THEN rows ELSE attempts[j][d]
    BY <1>3 DEF Tables
  <1> QED BY <1>2, <1>4, <1>5

-----------------------------------------------------------------------------
(***************************************************************************)
(* What a step of the sweep in progress can do: end it with at most one    *)
(* row, build it again after at most one failed attempt, or go on without  *)
(* a row.  Rows are written for a day between the run's and today's.       *)
(***************************************************************************)
Ends(d) ==
    /\ sweep' = NoSweep
    /\ \/ attempts' = attempts
       \/ attempts' = Failed(sweep.key, d)
       \/ \E w \in Words : attempts' = Worded(sweep.key, d, w)

BuildsAgain(d) ==
    /\ sweep' \in Sweeps
    /\ sweep'.key = sweep.key
    /\ sweep'.stage = "build"
    /\ sweep'.build = sweep.build + 1
    /\ attempts' = attempts \/ attempts' = Failed(sweep.key, d)

GoesOn ==
    /\ sweep' \in Sweeps
    /\ sweep'.key = sweep.key
    /\ sweep'.build = sweep.build
    /\ sweep'.stage \notin {"none", "build"}
    /\ sweep'.day >= DayOf(run.now) /\ sweep'.day <= DayOf(now)
    /\ attempts' = attempts

SweepStep ==
    /\ sweep.stage # "none"
    /\ UNCHANGED <<now, paused, run>>
    /\ \E d \in Days :
        /\ d >= DayOf(run.now) /\ d <= DayOf(now)
        /\ Ends(d) \/ BuildsAgain(d) \/ GoesOn

(* A further build changes the sweep as it says, or ends it (the loop over *)
(* builds).                                                                *)
LEMMA BuildAgainCases ==
    ASSUME Typed, NEW s \in Sweeps, BuildAgain(s),
           s.key = sweep.key, s.build = sweep.build
    PROVE  \/ sweep' = NoSweep
           \/ /\ sweep' \in Sweeps
              /\ sweep'.key = sweep.key
              /\ sweep'.stage = "build"
              /\ sweep'.build = sweep.build + 1
  <1>1. CASE s.build < MAX_BUILDS
    <2>1. sweep' = [s EXCEPT !.build = @ + 1, !.stage = "build"]
      BY <1>1 DEF BuildAgain
    <2>2. s.build + 1 \in 0..MAX_BUILDS BY <1>1, CrankAssumption DEF Sweeps
    <2> QED BY <2>1, <2>2 DEF Sweeps, Stages
  <1>2. CASE ~(s.build < MAX_BUILDS)
    BY <1>2 DEF BuildAgain
  <1> QED BY <1>1, <1>2

(* A day that a step of the sweep may write (stateDay).                    *)
LEMMA WriteDays ==
    ASSUME Typed, RunInv, sweep.stage # "none"
    PROVE  /\ DayOf(now) \in Days /\ DayOf(now) >= DayOf(run.now)
           /\ DayOf(now) <= DayOf(now)
           /\ sweep.stage # "build" =>
                /\ sweep.day \in Days
                /\ sweep.day >= DayOf(run.now) /\ sweep.day <= DayOf(now)
  <1>1. run.now \in Nat /\ run.now <= now
    BY DEF Typed, RunInv, RunKnows, SweepKnows, Runs
  <1>2. DayOf(run.now) \in Nat /\ DayOf(run.now) <= DayOf(now) /\ DayOf(now) \in Nat
    BY <1>1, DayMonotone DEF Typed
  <1>3. DayOf(now) \in Days BY TodayInDays DEF Typed
  <1>4. sweep.day \in Days BY DEF Typed, Sweeps
  <1> QED BY <1>2, <1>3, <1>4 DEF RunInv, SweepKnows


(* An attempt that fails and is deferred ends the sweep with one failure.  *)
LEMMA FailAndDeferStep ==
    ASSUME NEW d \in Days, NEW setback, FailAndDefer(d, setback)
    PROVE  Ends(d)
  BY DEF FailAndDefer, Ends, Key

(* A concluding word ends the sweep.                                       *)
LEMMA ConcludeStep ==
    ASSUME NEW d \in Days, NEW word \in Words, Conclude(d, word)
    PROVE  Ends(d)
  BY DEF Conclude, Ends, Key

(* A failed attempt followed by another build, or by none if none is left. *)
LEMMA FailAndBuildAgainStep ==
    ASSUME Typed, NEW d \in Days, NEW s \in Sweeps, FailAndBuildAgain(d, s),
           s.key = sweep.key, s.build = sweep.build
    PROVE  Ends(d) \/ BuildsAgain(d)
  <1>1. BuildAgain(s) /\ attempts' = Failed(sweep.key, d)
    BY DEF FailAndBuildAgain, Key
  <1> QED BY <1>1, BuildAgainCases DEF Ends, BuildsAgain

(* Flags that a sweep sets before it is built again (freshRoute, refetched, *)
(* rebuiltAfter).                                                           *)
LEMMA Flagged ==
    ASSUME Typed
    PROVE  \A s \in {sweep, [sweep EXCEPT !.fresh = TRUE], [sweep EXCEPT !.rebuilt = TRUE],
                     [sweep EXCEPT !.refetched = TRUE]} :
              s \in Sweeps /\ s.key = sweep.key /\ s.build = sweep.build
  BY DEF Typed, Sweeps

(* A build (sweep, from the state's read to the route).                    *)
LEMMA BuildStep ==
    ASSUME Typed, RunInv, Build
    PROVE  SweepStep
  <1> DEFINE d == DayOf(now)
  <1>1. /\ sweep.stage = "build" /\ sweep.stage # "none"
        /\ UNCHANGED <<now, paused, run>>
    BY DEF Build, cluster
  <1>2. d \in Days /\ d >= DayOf(run.now) /\ d <= DayOf(now) BY <1>1, WriteDays
  <1> HIDE DEF d
  <1>3. ASSUME AssetPaused \/ PriceRefused \/ NoRoute PROVE Ends(d)
    BY <1>2, <1>3, FailAndDeferStep DEF AssetPaused, PriceRefused, NoRoute, d
  <1>4. ASSUME AssetChanged PROVE Ends(d) \/ BuildsAgain(d)
    <2>1. BuildAgain(sweep) /\ attempts' = attempts BY <1>4 DEF AssetChanged
    <2> QED BY <2>1, BuildAgainCases DEF Typed, Ends, BuildsAgain
  <1>5. ASSUME AlreadySwept \/ RestoreRequired PROVE Ends(d)
    <2>1. \E w \in Words : Conclude(d, w)
      BY <1>5 DEF AlreadySwept, RestoreRequired, Words, d
    <2> QED BY <2>1, <1>2, ConcludeStep
  <1>6. ASSUME NothingToSweep \/ WaitForBoundary PROVE Ends(d)
    BY <1>6 DEF NothingToSweep, WaitForBoundary, Ends
  <1>7. ASSUME PoorQuote PROVE Ends(d) \/ BuildsAgain(d)
    <2>1. CASE sweep.fresh
      BY <2>1, <1>2, <1>7, FailAndDeferStep DEF PoorQuote, d
    <2>2. CASE ~sweep.fresh
      <3>1. FailAndBuildAgain(d, [sweep EXCEPT !.fresh = TRUE])
        BY <2>2, <1>7 DEF PoorQuote, d
      <3> QED BY <3>1, <1>2, Flagged, FailAndBuildAgainStep
    <2> QED BY <2>1, <2>2
  <1>8. ASSUME Built PROVE GoesOn
    <2>1. sweep' = [sweep EXCEPT !.stage = "built", !.day = d] /\ attempts' = attempts
      BY <1>8 DEF Built, d
    <2> QED BY <2>1, <1>2 DEF GoesOn, Typed, Sweeps, Stages
  <1>9. Ends(d) \/ BuildsAgain(d) \/ GoesOn
    BY <1>3, <1>4, <1>5, <1>6, <1>7, <1>8 DEF Build
  <1> QED BY <1>1, <1>2, <1>9 DEF SweepStep

(* A step of a sweep that is built, sent or answered.                      *)
LEMMA AnswerStep ==
    ASSUME Typed, RunInv,
           Send \/ Land \/ FailOnCluster \/ RecordLanded \/ Unclear \/ Handle
    PROVE  SweepStep
  <1> DEFINE d == sweep.day
  <1>1. /\ sweep.stage \notin {"none", "build"}
        /\ UNCHANGED <<now, paused, run>>
    BY DEF Send, Land, FailOnCluster, RecordLanded, Unclear, Handle, cluster
  <1>2. d \in Days /\ d >= DayOf(run.now) /\ d <= DayOf(now) BY <1>1, WriteDays
  <1>3. ASSUME Send PROVE Ends(d) \/ BuildsAgain(d) \/ GoesOn
    <2>1. ASSUME ComputeLimit PROVE Ends(d) \/ BuildsAgain(d)
      BY <2>1, <1>2, Flagged, FailAndBuildAgainStep DEF ComputeLimit
    <2>2. ASSUME TooLarge PROVE Ends(d)
      BY <2>2, <1>2, ConcludeStep DEF TooLarge, Words
    <2>3. ASSUME SimulationFails PROVE GoesOn
      <3>1. PICK a \in Actions :
                sweep' = [sweep EXCEPT !.stage = "failed", !.action = a]
        BY <2>3 DEF SimulationFails, FailuresNow, Actions
      <3> QED BY <3>1, <2>3, <1>2 DEF SimulationFails, GoesOn, Typed, Sweeps, Stages
    <2>4. ASSUME Sent PROVE GoesOn
      <3>1. now + LANDING \in Nat BY CrankAssumption DEF Typed
      <3> QED BY <3>1, <2>4, <1>2 DEF Sent, GoesOn, Typed, Sweeps, Stages
    <2> QED BY <1>3, <2>1, <2>2, <2>3, <2>4 DEF Send
  <1>4. ASSUME Land PROVE GoesOn
    BY <1>4, <1>2 DEF Land, GoesOn, Typed, Sweeps, Stages
  <1>5. ASSUME FailOnCluster PROVE GoesOn
    <2>1. PICK a \in Actions :
              sweep' = [sweep EXCEPT !.stage = "failed", !.action = a]
      BY <1>5 DEF FailOnCluster, FailuresNow, Actions
    <2> QED BY <2>1, <1>5, <1>2 DEF FailOnCluster, GoesOn, Typed, Sweeps, Stages
  <1>6. ASSUME RecordLanded PROVE Ends(d)
    BY <1>6, <1>2, ConcludeStep DEF RecordLanded, Words
  <1>7. ASSUME Unclear PROVE Ends(d)
    BY <1>7, <1>2, FailAndDeferStep DEF Unclear
  <1>8. ASSUME Handle PROVE Ends(d) \/ BuildsAgain(d)
    <2>1. ASSUME NEW w \in Words, Conclude(d, w) PROVE Ends(d)
      BY <2>1, <1>2, ConcludeStep
    <2>2. ASSUME NEW b, FailAndDefer(d, b) PROVE Ends(d)
      BY <2>2, <1>2, FailAndDeferStep
    <2>3. ASSUME NEW s \in {sweep, [sweep EXCEPT !.fresh = TRUE],
                            [sweep EXCEPT !.rebuilt = TRUE],
                            [sweep EXCEPT !.refetched = TRUE]},
                 FailAndBuildAgain(d, s)
          PROVE  Ends(d) \/ BuildsAgain(d)
      BY <2>3, <1>2, Flagged, FailAndBuildAgainStep
    <2>4. ASSUME attempts' = Failed(Key, d), sweep' = NoSweep PROVE Ends(d)
      BY <2>4 DEF Ends, Key
    <2>5. HandleFailure BY <1>8 DEF Handle
    <2>6. CASE sweep.action \in {"swept", "pull"}
      BY <2>6, <2>5, <2>1 DEF HandleFailure, Words
    <2>7. CASE sweep.action \in {"recompute", "venue"}
      BY <2>7, <2>5, <2>3 DEF HandleFailure
    <2>8. CASE sweep.action = "rebuild"
      BY <2>8, <2>5, <2>2, <2>3 DEF HandleFailure
    <2>9. CASE sweep.action = "refetch"
      BY <2>9, <2>5, <2>2, <2>3, <2>4 DEF HandleFailure
    <2>10. CASE sweep.action = "slippage"
      BY <2>10, <2>5, <2>2, <2>3 DEF HandleFailure
    <2>11. CASE sweep.action \in {"price", "alert", "unknown"}
      BY <2>11, <2>5, <2>2 DEF HandleFailure
    <2> QED BY <2>6, <2>7, <2>8, <2>9, <2>10, <2>11 DEF Typed, Sweeps, Actions
  <1> HIDE DEF d
  <1>9. Ends(d) \/ BuildsAgain(d) \/ GoesOn
    BY <1>3, <1>4, <1>5, <1>6, <1>7, <1>8
  <1> QED BY <1>1, <1>2, <1>9 DEF SweepStep

(* An exception ends the sweep (the catch of tick).                        *)
LEMMA ThrowStep ==
    ASSUME Typed, RunInv, Throw
    PROVE  SweepStep
  <1>1. Ends(DayOf(now)) BY DEF Throw, Ends
  <1>2. sweep.stage # "none" /\ UNCHANGED <<now, paused, run>> BY DEF Throw
  <1> QED BY <1>1, <1>2, WriteDays DEF SweepStep

-----------------------------------------------------------------------------
\* A step replaces nothing of a day that has a word.
Final ==
    \A k \in Keys, d \in Days :
        attempts[k][d].words # <<>> => attempts'[k][d] = attempts[k][d]

(* A step of the sweep leaves all rows but those of its key and day, to    *)
(* which it adds at most one failure, or a word if it ends (record).       *)
LEMMA SweepWrites ==
    ASSUME Typed, NEW day \in Days, Ends(day) \/ BuildsAgain(day) \/ GoesOn
    PROVE  /\ sweep.key \in Keys
           /\ attempts' \in Tables
           /\ \A j \in Keys, d \in Days :
                ~(j = sweep.key /\ d = day) => attempts'[j][d] = attempts[j][d]
           /\ attempts'[sweep.key][day].failed <= attempts[sweep.key][day].failed + 1
           /\ \/ sweep'.stage = "none"
              \/ attempts'[sweep.key][day].words = attempts[sweep.key][day].words
  <1> DEFINE k == sweep.key
  <1>1. k \in Keys /\ attempts \in Tables BY DEF Typed, Sweeps
  <1> HIDE DEF k
  <1>2. attempts[k][day].failed \in Nat BY <1>1 DEF Tables
  <1>3. CASE attempts' = attempts
    BY <1>3, <1>1, <1>2 DEF k
  <1>4. CASE attempts' = Failed(k, day)
    <2>1. /\ attempts' \in Tables
          /\ \A j \in Keys, d \in Days :
                attempts'[j][d] =
                    IF j = k /\ d = day
                    THEN [failed |-> attempts[j][d].failed + 1, words |-> attempts[j][d].words]
                    ELSE attempts[j][d]
      BY <1>4, <1>1, FailedRows
    <2>2. attempts'[k][day] = [failed |-> attempts[k][day].failed + 1,
                               words |-> attempts[k][day].words]
      BY <2>1, <1>1
    <2>3. /\ attempts'[k][day].failed <= attempts[k][day].failed + 1
          /\ attempts'[k][day].words = attempts[k][day].words
      BY <2>2, <1>2
    <2> QED BY <2>1, <2>3, <1>1 DEF k
  <1>5. ASSUME NEW w \in Words, attempts' = Worded(k, day, w), sweep' = NoSweep
        PROVE  /\ attempts' \in Tables
               /\ \A j \in Keys, d \in Days :
                    ~(j = k /\ d = day) => attempts'[j][d] = attempts[j][d]
               /\ attempts'[k][day].failed <= attempts[k][day].failed + 1
               /\ sweep'.stage = "none"
    <2>1. /\ attempts' \in Tables
          /\ \A j \in Keys, d \in Days :
                attempts'[j][d] =
                    IF j = k /\ d = day
                    THEN [failed |-> attempts[j][d].failed,
                          words |-> Append(attempts[j][d].words, w)]
                    ELSE attempts[j][d]
      BY <1>5, <1>1, WordedRows
    <2>2. attempts'[k][day] = [failed |-> attempts[k][day].failed,
                               words |-> Append(attempts[k][day].words, w)]
      BY <2>1, <1>1
    <2>3. attempts'[k][day].failed <= attempts[k][day].failed + 1
      BY <2>2, <1>2
    <2> QED BY <2>1, <2>3, <1>5, Initially
  <1>6. \/ attempts' = attempts \/ attempts' = Failed(k, day)
        \/ sweep' = NoSweep /\ \E w \in Words : attempts' = Worded(k, day, w)
    BY DEF Ends, BuildsAgain, GoesOn, k
  <1> QED BY <1>1, <1>3, <1>4, <1>5, <1>6 DEF k

(* A step of the sweep writes only open days of its key: none of its words *)
(* is replaced, and each build has room for one failure (sweep).           *)
LEMMA SweepKeeps ==
    ASSUME Typed, RunInv, SweepStep
    PROVE  Typed' /\ RunInv' /\ Final
  <1>1. PICK day \in Days :
            /\ day >= DayOf(run.now) /\ day <= DayOf(now)
            /\ Ends(day) \/ BuildsAgain(day) \/ GoesOn
    BY DEF SweepStep
  <1>2. UNCHANGED <<now, paused, run>> /\ sweep.stage # "none" BY DEF SweepStep
  <1> DEFINE k == sweep.key
             n == Spare + sweep.build - 1
  <1>3. /\ k \in Keys /\ k \notin run.due
        /\ sweep.build \in 1..MAX_BUILDS
        /\ run.at = "sweeping" /\ run.now <= now
        /\ \A d \in Days : d >= DayOf(run.now) => Open(k, d, n)
    BY <1>2, CrankAssumption DEF RunInv, SweepKnows, RunKnows, Typed, Sweeps
  <1>4. DayOf(now) \in Nat /\ DayOf(run.now) \in Nat /\ Days \subseteq Nat
    BY <1>3, DayMonotone DEF Typed, Runs, Days
  <1>5. /\ attempts' \in Tables
        /\ \A j \in Keys, d \in Days :
                ~(j = k /\ d = day) => attempts'[j][d] = attempts[j][d]
        /\ attempts'[k][day].failed <= attempts[k][day].failed + 1
        /\ sweep'.stage = "none" \/ attempts'[k][day].words = attempts[k][day].words
    BY <1>1, SweepWrites
  <1>6. Open(k, day, n) BY <1>1, <1>3
  <1>7. \A j \in Keys, d \in Days :
            attempts[j][d].failed \in Nat /\ attempts'[j][d].failed \in Nat
    BY <1>5 DEF Typed, Tables
  <1>8. n \in Int /\ Spare \in Nat /\ n + 1 <= MAX_FAILED_ATTEMPTS_PER_DAY - 1 + MAX_BUILDS
    BY <1>3, CrankAssumption DEF Spare
  <1> HIDE DEF n
  <1>9. sweep' \in Sweeps BY <1>1, Initially DEF Ends, BuildsAgain, GoesOn
  <1>10. Typed' BY <1>2, <1>5, <1>9 DEF Typed
  <1>11. NoRowsAhead'
    BY <1>1, <1>2, <1>4, <1>5 DEF RunInv, NoRowsAhead, DayOf
  <1>12. RunKnows'
    <2>1. \A j \in run.due, d \in Days : d >= DayOf(run.now) => Open(j, d, Spare)'
      BY <1>3, <1>5 DEF RunInv, RunKnows, Open, Typed, Runs, Spare
    <2> QED BY <2>1, <1>2, <1>3 DEF RunKnows, DayOf
  <1>13. SweepKnows'
    <2>1. CASE sweep'.stage = "none" BY <2>1 DEF SweepKnows
    <2>2. CASE sweep'.stage # "none"
      <3>1. /\ sweep'.key = k
            /\ \/ sweep'.build = sweep.build + 1 /\ sweep'.stage = "build"
               \/ /\ sweep'.build = sweep.build /\ attempts' = attempts
                  /\ sweep'.day >= DayOf(run.now) /\ sweep'.day <= DayOf(now)
        BY <1>1, <2>2, Initially DEF Ends, BuildsAgain, GoesOn
      <3>2. \A d \in Days : d >= DayOf(run.now) =>
                /\ attempts'[k][d].words = <<>>
                /\ attempts'[k][d].failed <= Spare + sweep'.build - 1
        <4>1. CASE sweep'.build = sweep.build + 1
          <5>1. ASSUME NEW d \in Days, d >= DayOf(run.now)
                PROVE  /\ attempts'[k][d].words = <<>>
                       /\ attempts'[k][d].failed <= n + 1
            <6>1. attempts[k][d].words = <<>> /\ attempts[k][d].failed <= n
              BY <5>1, <1>3 DEF Open
            <6>2. CASE d = day
              <7>1. attempts'[k][d].words = <<>>
                BY <6>1, <6>2, <1>5, <2>2
              <7> QED BY <6>1, <6>2, <7>1, <1>3, <1>5, <1>7, <1>8
            <6>3. CASE d # day
              <7>1. attempts'[k][d] = attempts[k][d] BY <6>3, <1>3, <1>5
              <7> QED BY <6>1, <7>1, <1>3, <1>7, <1>8
            <6> QED BY <6>2, <6>3
          <5>2. Spare + sweep'.build - 1 = n + 1 BY <4>1, <1>3, <1>8 DEF n
          <5> QED BY <5>1, <5>2
        <4>2. CASE sweep'.build = sweep.build /\ attempts' = attempts
          BY <4>2, <1>3 DEF Open, n
        <4> QED BY <3>1, <4>1, <4>2
      <3> QED BY <3>1, <3>2, <1>2, <1>3 DEF SweepKnows, DayOf, Open, Spare
    <2> QED BY <2>1, <2>2
  <1>14. FailuresBounded'
    <2> SUFFICES ASSUME NEW j \in Keys, NEW d \in Days
                 PROVE  attempts'[j][d].failed <= MAX_FAILED_ATTEMPTS_PER_DAY - 1 + MAX_BUILDS
      BY DEF FailuresBounded
    <2>1. CASE j = k /\ d = day
      <3>1. /\ attempts'[k][day].failed <= attempts[k][day].failed + 1
            /\ attempts[k][day].failed <= n
        BY <1>5, <1>6 DEF Open
      <3> QED BY <3>1, <2>1, <1>3, <1>7, <1>8, CrankAssumption
    <2>2. CASE ~(j = k /\ d = day) BY <2>2, <1>5 DEF RunInv, FailuresBounded
    <2> QED BY <2>1, <2>2
  <1>15. Final BY <1>3, <1>5, <1>6 DEF Final, Open
  <1> QED BY <1>10, <1>11, <1>12, <1>13, <1>14, <1>15 DEF RunInv

-----------------------------------------------------------------------------
(* The first run of a day gives a word to earlier days without one, and    *)
(* the table of the run's own day and of later ones is as it was           *)
(* (closeDays).                                                            *)
LEMMA CloseDaysKeeps ==
    ASSUME Typed, RunInv, CloseDays
    PROVE  Typed' /\ RunInv' /\ Final
  <1> DEFINE day == DayOf(run.now)
  <1>1. run.at = "closing" /\ run.now <= now /\ UNCHANGED <<now, paused, sweep>>
    BY DEF CloseDays, cluster, RunInv, RunKnows
  <1>2. /\ run' \in Runs /\ run'.at = "reading" /\ run'.now = run.now
    BY DEF CloseDays, Typed, Runs
  <1>3. day \in Nat /\ DayOf(now) \in Nat /\ day <= DayOf(now) /\ Days \subseteq Nat
    BY <1>1, DayMonotone DEF Typed, Runs, Days
  <1> HIDE DEF day
  <1>4. attempts' = Closed(day) BY DEF CloseDays, day
  <1>5. ASSUME NEW j \in Keys, NEW d \in Days
        PROVE  /\ attempts'[j][d] \in [failed : Nat, words : Seq(Words)]
               /\ attempts'[j][d].failed = attempts[j][d].failed
               /\ d >= day \/ attempts[j][d].words # <<>> \/ attempts[j][d] = NoRows
                    => attempts'[j][d] = attempts[j][d]
    <2>1. attempts[j][d] \in [failed : Nat, words : Seq(Words)] BY DEF Typed, Tables
    <2>2. attempts'[j][d] =
            IF d < day /\ attempts[j][d].failed > 0 /\ attempts[j][d].words = <<>>
            THEN [attempts[j][d] EXCEPT !.words = <<"skipped">>] ELSE attempts[j][d]
      BY <1>4 DEF Closed
    <2>3. <<"skipped">> \in Seq(Words) BY DEF Words
    <2>4. attempts[j][d] = NoRows => attempts[j][d].failed = 0 BY DEF NoRows
    <2>5. CASE d < day /\ attempts[j][d].failed > 0 /\ attempts[j][d].words = <<>>
      <3>1. attempts'[j][d] = [attempts[j][d] EXCEPT !.words = <<"skipped">>]
        BY <2>2, <2>5
      <3>2. ASSUME NEW r \in [failed : Nat, words : Seq(Words)]
            PROVE  /\ [r EXCEPT !.words = <<"skipped">>] \in [failed : Nat, words : Seq(Words)]
                   /\ [r EXCEPT !.words = <<"skipped">>].failed = r.failed
        BY <2>3
      <3>3. ~(d >= day \/ attempts[j][d].words # <<>> \/ attempts[j][d] = NoRows)
        BY <2>4, <2>5, <1>3
      <3> QED BY <3>1, <3>2, <3>3, <2>1
    <2>6. CASE ~(d < day /\ attempts[j][d].failed > 0 /\ attempts[j][d].words = <<>>)
      BY <2>1, <2>2, <2>6
    <2> QED BY <2>5, <2>6
  <1>6. attempts' \in Tables
    <2>1. attempts' = [j \in Keys |-> [d \in Days |-> attempts'[j][d]]]
      BY <1>4 DEF Closed
    <2>2. \A j \in Keys : [d \in Days |-> attempts'[j][d]]
                            \in [Days -> [failed : Nat, words : Seq(Words)]]
      BY <1>5
    <2> QED BY <2>1, <2>2 DEF Tables
  <1>7. Typed' BY <1>1, <1>2, <1>6 DEF Typed
  <1>8. NoRowsAhead' BY <1>1, <1>3, <1>5 DEF RunInv, NoRowsAhead, DayOf
  <1>9. RunKnows'
    <2>1. \A j \in Keys, d \in Days : d > day => attempts'[j][d] = NoRows
      BY <1>1, <1>3, <1>5 DEF RunInv, RunKnows, day
    <2> QED BY <2>1, <1>1, <1>2 DEF RunKnows, DayOf, day
  <1>10. SweepKnows' BY <1>1 DEF RunInv, SweepKnows
  <1>11. FailuresBounded' BY <1>5 DEF RunInv, FailuresBounded
  <1>12. Final BY <1>5 DEF Final
  <1> QED BY <1>7, <1>8, <1>9, <1>10, <1>11, <1>12 DEF RunInv

(* A run takes keys whose day is open, and no later day has rows yet       *)
(* (decidedToday).                                                         *)
LEMMA CandidatesAreOpen ==
    ASSUME Typed, RunInv, run.at = "reading"
    PROVE  \A k \in Candidates(DayOf(run.now)), d \in Days :
                d >= DayOf(run.now) => Open(k, d, Spare)
  <1> DEFINE day == DayOf(run.now)
  <1>1. day \in Nat /\ day \in Days /\ Days \subseteq Nat
    <2>1. run.now \in Nat /\ run.now <= MaxTime
      BY CrankAssumption DEF Typed, Runs, RunInv, RunKnows
    <2> QED BY <2>1, DayMonotone, TodayInDays DEF Days
  <1> SUFFICES ASSUME NEW k \in Candidates(day), NEW d \in Days, d >= day
               PROVE  Open(k, d, Spare)
    OBVIOUS
  <1>2. k \in Keys /\ ~Decided(k, day) BY DEF Candidates
  <1>3. attempts[k][d].failed \in Nat BY <1>2 DEF Typed, Tables
  <1>4. CASE d = day
    BY <1>2, <1>3, <1>4, CrankAssumption DEF Decided, Open, Spare
  <1>5. CASE d > day
    <2>1. attempts[k][d] = NoRows BY <1>2, <1>5 DEF RunInv, RunKnows
    <2> QED BY <2>1, CrankAssumption DEF NoRows, Open, Spare
  <1> QED BY <1>1, <1>4, <1>5

(* The steps of a run around its sweeps (runOnce).                         *)
LEMMA RunKeeps ==
    ASSUME Typed, RunInv,
           \/ BeginRun \/ Hold \/ ReadCandidates \/ NextCandidate \/ EndRun \/ RunFails
    PROVE  Typed' /\ RunInv' /\ Final
  <1>1. UNCHANGED <<now, paused, attempts>>
    BY DEF BeginRun, Hold, ReadCandidates, NextCandidate, EndRun, RunFails, cluster
  <1>2. NoRowsAhead' /\ FailuresBounded' /\ Final
    BY <1>1 DEF RunInv, NoRowsAhead, FailuresBounded, Final, DayOf
  <1>3. run' \in Runs /\ sweep' \in Sweeps => Typed' BY <1>1 DEF Typed
  <1>4. CASE BeginRun
    <2>1. /\ run' \in Runs /\ run'.at \in {"closing", "reading"} /\ run'.now = now
          /\ run.at = "idle" /\ sweep' = sweep
      <3> DEFINE at == IF DayOf(now) > memory.closedBefore THEN "closing" ELSE "reading"
      <3>1. at \in {"closing", "reading"} OBVIOUS
      <3> HIDE DEF at
      <3>2. /\ run' = [run EXCEPT !.at = at, !.now = now, !.paused = paused]
            /\ run.at = "idle" /\ sweep' = sweep
        BY <1>4 DEF BeginRun, at
      <3> QED BY <3>1, <3>2 DEF Typed, Runs
    <2>2. sweep'.stage = "none" BY <2>1 DEF RunInv, SweepKnows
    <2>3. RunKnows'
      BY <2>1, <1>1 DEF RunInv, NoRowsAhead, RunKnows, DayOf, Typed
    <2> QED BY <1>2, <1>3, <2>1, <2>2, <2>3 DEF RunInv, SweepKnows, Typed
  <1>5. CASE Hold \/ EndRun \/ RunFails
    <2>1. run' = IdleRun /\ sweep' = sweep /\ (run.at # "sweeping" \/ sweep.stage = "none")
      BY <1>5 DEF Hold, EndRun, RunFails
    <2>2. sweep'.stage = "none" BY <2>1 DEF RunInv, SweepKnows
    <2> QED BY <1>2, <1>3, <2>1, <2>2, Initially DEF RunInv, RunKnows, SweepKnows, Typed
  <1>6. CASE ReadCandidates
    <2>1. /\ run.at = "reading" /\ sweep' = sweep /\ run'.at = "sweeping"
          /\ run'.now = run.now /\ run'.due = Candidates(DayOf(run.now))
          /\ run.now <= now
      BY <1>6 DEF ReadCandidates, Typed, Runs, RunInv, RunKnows
    <2>2. run' \in Runs
      <3>1. Candidates(DayOf(run.now)) \subseteq Keys BY DEF Candidates
      <3>2. DayOf(run.now) \in Days
        <4>1. run.now \in Nat /\ run.now <= MaxTime
          BY <2>1, CrankAssumption DEF Typed, Runs
        <4> QED BY <4>1, TodayInDays
      <3>3. [k \in Keys |-> attempts[k][DayOf(run.now)].failed] \in [Keys -> Nat]
        BY <3>2 DEF Typed, Tables
      <3> QED BY <1>6, <3>1, <3>3 DEF ReadCandidates, Typed, Runs
    <2>3. sweep'.stage = "none" BY <2>1 DEF RunInv, SweepKnows
    <2>4. RunKnows'
      BY <2>1, <1>1, CandidatesAreOpen DEF RunKnows, Open, Spare, DayOf
    <2> QED BY <1>2, <1>3, <2>1, <2>2, <2>3, <2>4 DEF RunInv, SweepKnows, Typed
  <1>7. CASE NextCandidate
    <2>1. PICK k \in run.due :
            /\ sweep' = [NoSweep EXCEPT !.key = k, !.stage = "build", !.build = 1]
            /\ run' = [run EXCEPT !.due = @ \ {k}]
      BY <1>7 DEF NextCandidate
    <2>2. k \in Keys /\ run.at = "sweeping" /\ run' \in Runs /\ run'.at = "sweeping"
          /\ run'.now = run.now /\ run'.due = run.due \ {k}
      BY <2>1, <1>7 DEF NextCandidate, Typed, Runs
    <2>3. /\ sweep' \in Sweeps /\ sweep'.key = k /\ sweep'.stage = "build"
          /\ sweep'.build = 1
      <3>1. 1 \in 0..MAX_BUILDS BY CrankAssumption
      <3> QED BY <2>1, <2>2, <3>1, Initially DEF Sweeps, Stages
    <2>4. RunKnows'
      BY <2>2, <1>1 DEF RunInv, RunKnows, Open, Spare, DayOf
    <2>5. \A d \in Days : d >= DayOf(run.now) => Open(k, d, Spare)
      BY <2>2 DEF RunInv, RunKnows
    <2>6. SweepKnows'
      BY <2>2, <2>3, <2>5, <1>1, CrankAssumption DEF SweepKnows, Open, Spare, DayOf
    <2> QED BY <1>2, <1>3, <2>2, <2>3, <2>4, <2>6 DEF RunInv
  <1> QED BY <1>4, <1>5, <1>6, <1>7

(* A crash forgets the run and the sweep, and the clock opens no day that  *)
(* has rows (run).                                                         *)
LEMMA WorldKeeps ==
    ASSUME Typed, RunInv, Crash \/ World \/ UNCHANGED vars
    PROVE  Typed' /\ RunInv' /\ Final
  <1>1. CASE Crash
    <2>1. run' = IdleRun /\ sweep' = NoSweep /\ UNCHANGED <<now, paused, attempts>>
      BY <1>1 DEF Crash
    <2> QED BY <2>1, Initially
            DEF Typed, RunInv, NoRowsAhead, RunKnows, SweepKnows, FailuresBounded, Final, DayOf
  <1>2. CASE Tick
    <2>1. now' = now + 1 /\ now < MaxTime /\ UNCHANGED <<paused, attempts, run, sweep>>
      BY <1>2 DEF Tick, process
    <2>2. Typed' BY <2>1, CrankAssumption DEF Typed
    <2>3. /\ DayOf(now) \in Nat /\ DayOf(now)' \in Nat /\ DayOf(now) <= DayOf(now)'
          /\ Days \subseteq Nat /\ DayOf(run.now)' = DayOf(run.now)
      <3>1. now' \in Nat /\ now <= now' BY <2>1 DEF Typed
      <3>2. DayOf(now') \in Nat /\ DayOf(now) <= DayOf(now') /\ DayOf(now) \in Nat
        BY <3>1, DayMonotone DEF Typed
      <3> QED BY <3>2, <2>1 DEF DayOf, Days
    <2>4. NoRowsAhead' BY <2>1, <2>3 DEF RunInv, NoRowsAhead
    <2>5. RunKnows'
      BY <2>1, <2>3 DEF RunInv, RunKnows, Open, Spare, Typed, Runs
    <2>6. SweepKnows'
      <3>1. sweep.day \in Nat /\ DayOf(run.now) \in Nat
        <4>1. run.now \in Nat /\ sweep.day \in Days BY DEF Typed, Sweeps, Runs
        <4>2. DayOf(run.now) \in Nat BY <4>1, DayMonotone
        <4> QED BY <4>1, <4>2, <2>3
      <3> QED BY <3>1, <2>1, <2>3 DEF RunInv, SweepKnows, Open, Spare
    <2> QED BY <2>1, <2>2, <2>4, <2>5, <2>6 DEF RunInv, FailuresBounded, Final
  <1>3. CASE paused' \in BOOLEAN /\ UNCHANGED <<now, attempts, run, sweep>>
    BY <1>3 DEF Typed, RunInv, NoRowsAhead, RunKnows, SweepKnows, FailuresBounded, Final,
                Open, Spare, DayOf
  <1>4. \/ Crash \/ Tick
        \/ paused' \in BOOLEAN /\ UNCHANGED <<now, attempts, run, sweep>>
    BY DEF Typed, World, SetPaused, LandStray, AccountChanges, SweptByOther, vars, cluster, process
  <1> QED BY <1>1, <1>2, <1>3, <1>4

(* Every step keeps what the runs know and replaces no word.               *)
LEMMA StepKeeps ==
    ASSUME Typed, RunInv, [Next]_vars
    PROVE  Typed' /\ RunInv' /\ Final
  <1>1. CASE Build \/ Throw BY <1>1, BuildStep, ThrowStep, SweepKeeps
  <1>2. CASE Send \/ Land \/ FailOnCluster \/ RecordLanded \/ Unclear \/ Handle
    BY <1>2, AnswerStep, SweepKeeps
  <1>3. CASE CloseDays BY <1>3, CloseDaysKeeps
  <1>4. CASE \/ BeginRun \/ Hold \/ ReadCandidates \/ NextCandidate \/ EndRun \/ RunFails
    BY <1>4, RunKeeps
  <1>5. CASE Crash \/ World \/ UNCHANGED vars BY <1>5, WorldKeeps
  <1> QED BY <1>1, <1>2, <1>3, <1>4, <1>5 DEF Next, Progress

(* A new table has no rows and a new process sweeps nothing.               *)
LEMMA InitKnows ==
    ASSUME Init
    PROVE  Typed /\ RunInv
  <1>1. now = DAY_SECONDS /\ paused = FALSE /\ run = IdleRun /\ sweep = NoSweep BY DEF Init
  <1>2. NoRows \in [failed : Nat, words : Seq(Words)] /\ NoRows.failed = 0
    BY DEF NoRows
  <1>3. attempts \in Tables /\ \A k \in Keys, d \in Days : attempts[k][d] = NoRows
    BY <1>2 DEF Init, Tables
  <1>4. Typed BY <1>1, <1>3, Initially, CrankAssumption DEF Typed
  <1>5. NoRowsAhead BY <1>3 DEF NoRowsAhead
  <1>6. RunKnows /\ SweepKnows BY <1>1, Initially DEF RunKnows, SweepKnows
  <1>7. FailuresBounded BY <1>2, <1>3, CrankAssumption DEF FailuresBounded
  <1> QED BY <1>4, <1>5, <1>6, <1>7 DEF RunInv

-----------------------------------------------------------------------------
(* In every reachable state the failed attempts of a key in a day are at   *)
(* most those with which a run may start and one per build of that run     *)
(* (MAX_FAILED_ATTEMPTS_PER_DAY, MAX_BUILDS).                              *)
THEOREM FailuresAlwaysBounded == Spec => []FailuresBounded
  <1>1. Init => Typed /\ RunInv BY InitKnows
  <1>2. (Typed /\ RunInv) /\ [Next]_vars => (Typed /\ RunInv)' BY StepKeeps
  <1>3. Typed /\ RunInv => FailuresBounded BY DEF RunInv
  <1> QED BY <1>1, <1>2, <1>3, PTL DEF Spec

(* No step of any execution replaces or follows a day's word: neither a    *)
(* run across midnight, nor the closing of the days, nor a process that    *)
(* starts after a crash (record, closeDays).                               *)
THEOREM WordsAreFinal == Spec => WordIsFinal
  <1>1. Init => Typed /\ RunInv BY InitKnows
  <1>2. (Typed /\ RunInv) /\ [Next]_vars => (Typed /\ RunInv)' BY StepKeeps
  <1>3. (Typed /\ RunInv) /\ [Next]_vars => [Final]_vars BY StepKeeps
  <1>4. WordIsFinal <=> [][Final]_vars BY DEF WordIsFinal, Final
  <1> QED BY <1>1, <1>2, <1>3, <1>4, PTL DEF Spec

-----------------------------------------------------------------------------
(***************************************************************************)
(* The types of what the cluster holds and of what the process remembers.  *)
(***************************************************************************)

Memories == [closedBefore : Nat, deferred : [Keys -> Deferrals]]

ClusterTypes ==
    /\ lastSweepDay \in [Keys -> Nat]
    /\ pullable \in [Keys -> BOOLEAN]
    /\ stray \in [Keys -> Nat]
    /\ bought \in [Keys -> SUBSET Nat]
    /\ crashes \in 0..MaxCrashes

(* The number of subsets of n elements is what a wait is multiplied by     *)
(* after n failures: a number (wait).                                      *)
LEMMA PowerOfTwo ==
    ASSUME NEW n \in Nat
    PROVE  2 ^ n \in Nat
  <1>1. IsFiniteSet(1..n) /\ Cardinality(1..n) = n
    <2>1. IsFiniteSet(1..n) /\ Cardinality(1..n) = IF 1 > n THEN 0 ELSE n - 1 + 1
      BY FS_Interval
    <2> QED BY <2>1
  <1>2. IsFiniteSet(SUBSET (1..n)) /\ Cardinality(SUBSET (1..n)) = 2 ^ n
    BY <1>1, FS_SUBSET, Zenon
  <1> QED BY <1>2, FS_CardinalityType

(* A wait is a number of instants, at most a day (wait).                   *)
LEMMA WaitType ==
    ASSUME NEW setback \in Setbacks, NEW n \in Nat
    PROVE  Wait(setback, n) \in 0..DAY_SECONDS
  <1> DEFINE doublings == IF n > 1 THEN n - 1 ELSE 0
  <1>1. doublings \in Nat OBVIOUS
  <1> HIDE DEF doublings
  <1>2. 2 ^ doublings \in Nat BY <1>1, PowerOfTwo
  <1>3. RETRY_AFTER[setback] \in Nat /\ DAY_SECONDS \in Nat BY CrankAssumption
  <1>4. \A i, j \in Nat : i * j \in Nat OBVIOUS
  <1>5. RETRY_AFTER[setback] * 2 ^ doublings \in Nat BY <1>2, <1>3, <1>4
  <1>6. ASSUME NEW wait \in Nat
        PROVE  (IF wait <= DAY_SECONDS THEN wait ELSE DAY_SECONDS) \in 0..DAY_SECONDS
    BY <1>3
  <1>7. Wait(setback, n) = LET wait == RETRY_AFTER[setback] * 2 ^ doublings
                           IN  IF wait <= DAY_SECONDS THEN wait ELSE DAY_SECONDS
    BY DEF Wait, doublings
  <1> QED BY <1>5, <1>6, <1>7

(* A key that is deferred waits until an instant, by a clock (defer).      *)
LEMMA DeferType ==
    ASSUME memory \in Memories, now \in Nat, NEW k \in Keys, NEW setback \in Setbacks,
           NEW n \in Nat, Defer(k, setback, n)
    PROVE  memory' \in Memories
  <1> DEFINE d == [at |-> now + Wait(setback, n), clock |-> "host", on |-> DayOf(now)]
  <1>1. d \in Deferrals
    <2>1. now + Wait(setback, n) \in Nat
      <3>1. Wait(setback, n) \in 0..DAY_SECONDS BY WaitType
      <3> QED BY <3>1, CrankAssumption
    <2>2. DayOf(now) \in Nat BY DayMonotone
    <2> QED BY <2>1, <2>2 DEF Deferrals
  <1>2. memory' = [memory EXCEPT !.deferred[k] = d] BY DEF Defer
  <1> HIDE DEF d
  <1> QED BY <1>1, <1>2 DEF Memories

(* However an attempt ends, the process remembers waits (record).          *)
LEMMA OutcomeTypes ==
    ASSUME Typed, memory \in Memories
    PROVE  /\ \A d, s : s \in Setbacks /\ FailAndDefer(d, s) => memory' \in Memories
           /\ \A d, w : Conclude(d, w) => memory' \in Memories
           /\ \A s : BuildAgain(s) => memory' \in Memories
           /\ \A d, s : FailAndBuildAgain(d, s) => memory' \in Memories
  <1>1. Key \in Keys /\ now \in Nat /\ Failures \in Nat
    BY DEF Typed, Sweeps, Runs, Key, Failures
  <1>2. ASSUME NEW s \in Setbacks, Defer(Key, s, Failures) PROVE memory' \in Memories
    BY <1>1, <1>2, DeferType
  <1>3. ASSUME NEW d, NEW w, Conclude(d, w) PROVE memory' \in Memories
    <2>1. NoDeferral \in Deferrals BY DEF NoDeferral, Deferrals
    <2>2. memory' = memory \/ memory' = [memory EXCEPT !.deferred[Key] = NoDeferral]
      BY <1>3 DEF Conclude
    <2> HIDE DEF NoDeferral
    <2> QED BY <1>1, <2>1, <2>2 DEF Memories
  <1>4. ASSUME NEW s, BuildAgain(s) PROVE memory' \in Memories
    BY <1>2, <1>4 DEF BuildAgain, Setbacks
  <1> QED BY <1>2, <1>3, <1>4 DEF FailAndDefer, FailAndBuildAgain

(* Every step leaves the process's memory typed (crank.ts).                *)
LEMMA MemoryStep ==
    ASSUME Typed, memory \in Memories, [Next]_vars
    PROVE  memory' \in Memories
  <1>1. now \in Nat /\ Key \in Keys /\ run.failures[Key] \in Nat /\ run.now \in Nat
        /\ sweep.action \in Actions
    BY DEF Typed, Sweeps, Runs, Key
  <1>2. CASE Build
    <2>1. ASSUME NothingToSweep PROVE memory' \in Memories
      BY <1>1, <2>1, DeferType DEF NothingToSweep, Setbacks
    <2>2. ASSUME WaitForBoundary PROVE memory' \in Memories
      <3>1. PICK left \in 1..ToBoundary :
              memory' = [memory EXCEPT !.deferred[Key] =
                            [at |-> now + left, clock |-> "cluster", on |-> DayOf(now)]]
        BY <2>2 DEF WaitForBoundary
      <3> DEFINE d == [at |-> now + left, clock |-> "cluster", on |-> DayOf(now)]
      <3>2. d \in Deferrals
        <4>1. now + left \in Nat /\ DayOf(now) \in Nat BY <1>1, DayMonotone
        <4> QED BY <4>1 DEF Deferrals
      <3> HIDE DEF d
      <3>3. memory' = [memory EXCEPT !.deferred[Key] = d] BY <3>1 DEF d
      <3> QED BY <1>1, <3>2, <3>3 DEF Memories
    <2>3. ASSUME AssetPaused \/ AssetChanged \/ AlreadySwept \/ RestoreRequired \/ PriceRefused
                 \/ NoRoute \/ PoorQuote \/ Built
          PROVE  memory' \in Memories
      BY <2>3, OutcomeTypes DEF AssetPaused, AssetChanged, AlreadySwept, RestoreRequired,
         PriceRefused, NoRoute, PoorQuote, Built, Setbacks
    <2> QED BY <1>2, <2>1, <2>2, <2>3 DEF Build
  <1>3. CASE Send \/ RecordLanded \/ Unclear
    BY <1>3, OutcomeTypes DEF Send, ComputeLimit, TooLarge, SimulationFails, Sent, RecordLanded,
       Unclear, Setbacks
  <1>4. CASE Handle
    BY <1>1, <1>4, OutcomeTypes DEF Handle, HandleFailure, Setbacks, Actions
  <1>5. CASE Throw
    BY <1>1, <1>5, DeferType DEF Throw, Setbacks
  <1>6. CASE Crash
    <2>1. NoDeferral \in Deferrals BY DEF NoDeferral, Deferrals
    <2> QED BY <1>6, <2>1 DEF Crash, NewProcess, Memories
  <1>7. CASE CloseDays
    <2>1. DayOf(run.now) \in Nat BY <1>1, DayMonotone
    <2> QED BY <1>7, <2>1 DEF CloseDays, Memories
  <1>8. CASE \/ BeginRun \/ Hold \/ ReadCandidates \/ NextCandidate \/ EndRun \/ RunFails
             \/ Land \/ FailOnCluster \/ World \/ UNCHANGED vars
    BY <1>8 DEF BeginRun, Hold, ReadCandidates, NextCandidate, EndRun, RunFails, Land,
       FailOnCluster, World, Tick, SetPaused, LandStray, AccountChanges, SweptByOther, vars, process
  <1> QED BY <1>2, <1>3, <1>4, <1>5, <1>6, <1>7, <1>8 DEF Next, Progress

(* Every step leaves the cluster's accounts typed (crank.ts).              *)
LEMMA ClusterStep ==
    ASSUME Typed, ClusterTypes, [Next]_vars
    PROVE  ClusterTypes'
  <1>1. /\ now \in Nat /\ DayOf(now) \in Nat /\ Key \in Keys /\ sweep.until \in Nat
        /\ MaxCrashes \in Nat
    BY DayMonotone, CrankAssumption DEF Typed, Sweeps, Key
  <1>2. LeaveStray => stray' \in [Keys -> Nat]
    BY <1>1 DEF LeaveStray, ClusterTypes
  <1>3. ASSUME NEW k \in Keys, Executes(k)
        PROVE  lastSweepDay' \in [Keys -> Nat] /\ bought' \in [Keys -> SUBSET Nat]
    <2>1. lastSweepDay' \in [Keys -> Nat] BY <1>1, <1>3 DEF Executes, ClusterTypes
    <2>2. bought[k] \union {DayOf(now)} \in SUBSET Nat BY <1>1 DEF ClusterTypes
    <2>3. bought' \in [Keys -> SUBSET Nat] BY <2>2, <1>3 DEF Executes, ClusterTypes
    <2> QED BY <2>1, <2>3
  <1>4. CASE Unclear \/ Throw
    BY <1>2, <1>4 DEF Unclear, Throw, ClusterTypes
  <1>5. CASE Crash
    BY <1>1, <1>2, <1>5 DEF Crash, ClusterTypes
  <1>6. CASE Land
    BY <1>1, <1>3, <1>6 DEF Land, ClusterTypes
  <1>7. ASSUME NEW k \in Keys, LandStray(k) PROVE ClusterTypes'
    BY <1>3, <1>7 DEF LandStray, process, ClusterTypes
  <1>8. CASE Tick
    BY <1>1, <1>8 DEF Tick, process, ClusterTypes
  <1>9. ASSUME NEW k \in Keys, AccountChanges(k) \/ SweptByOther(k) PROVE ClusterTypes'
    BY <1>1, <1>9 DEF AccountChanges, SweptByOther, process, ClusterTypes
  <1>10. CASE \/ BeginRun \/ CloseDays \/ Hold \/ ReadCandidates \/ NextCandidate \/ EndRun
              \/ RunFails \/ Build \/ Send \/ RecordLanded \/ Handle \/ FailOnCluster
              \/ SetPaused \/ UNCHANGED vars
    BY <1>10 DEF BeginRun, CloseDays, Hold, ReadCandidates, NextCandidate, EndRun, RunFails, Build,
       Send, RecordLanded, Handle, FailOnCluster, SetPaused, vars, cluster, process, ClusterTypes
  <1> QED
    BY <1>4, <1>5, <1>6, <1>7, <1>8, <1>9, <1>10 DEF Next, Progress, World

(* The clock, the cluster's accounts, the table, the run, the sweep in     *)
(* progress and what the process remembers keep their types, for any waits *)
(* and numbers of failures (crank.ts).                                     *)
THEOREM CrankTypes == Spec => []TypeOK
  <1> DEFINE Inv == Typed /\ RunInv /\ ClusterTypes /\ memory \in Memories
  <1>1. Init => Inv
    <2> SUFFICES ASSUME Init PROVE Inv OBVIOUS
    <2>1. NoDeferral \in Deferrals BY DEF NoDeferral, Deferrals
    <2>2. memory \in Memories BY <2>1 DEF Init, NewProcess, Memories
    <2>3. ClusterTypes BY CrankAssumption DEF Init, ClusterTypes
    <2> QED BY <2>2, <2>3, InitKnows
  <1>2. Inv /\ [Next]_vars => Inv' BY StepKeeps, MemoryStep, ClusterStep
  <1>3. Inv => TypeOK
    BY DEF Typed, Tables, ClusterTypes, Memories, TypeOK
  <1> QED BY <1>1, <1>2, <1>3, PTL DEF Spec
=============================================================================
