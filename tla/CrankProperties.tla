-------------------------- MODULE CrankProperties ---------------------------
(***************************************************************************)
(* What the sweep runner promises about its table, and the fairness its    *)
(* loop gives it.                                                          *)
(***************************************************************************)
EXTENDS Crank

Deferrals == [at : Nat, clock : {"host", "cluster"}, on : Nat]

Sweeps ==
    [stage : Stages, key : Keys, build : 0..MAX_BUILDS, day : Days,
     rebuilt : BOOLEAN, refetched : BOOLEAN, fresh : BOOLEAN,
     action : Actions, until : Nat]

Runs ==
    [at : {"idle", "closing", "reading", "sweeping"}, now : Nat, paused : BOOLEAN,
     due : SUBSET Keys, failures : [Keys -> Nat]]

(* Every variable holds a value of its type: the cluster's accounts, the   *)
(* table, the run and the sweep in progress, and what the process keeps.   *)
TypeOK ==
    /\ now \in Nat
    /\ lastSweepDay \in [Keys -> Nat]
    /\ pullable \in [Keys -> BOOLEAN]
    /\ paused \in BOOLEAN
    /\ stray \in [Keys -> Nat]
    /\ attempts \in [Keys -> [Days -> [failed : Nat, words : Seq(Words)]]]
    /\ run \in Runs
    /\ sweep \in Sweeps
    /\ memory \in [closedBefore : Nat, deferred : [Keys -> Deferrals]]
    /\ crashes \in 0..MaxCrashes
    /\ bought \in [Keys -> SUBSET Nat]

-----------------------------------------------------------------------------
(* The final word is final: once a day of a token has one - landed,        *)
(* skipped, a pull failure, swept by someone else - no further attempt of  *)
(* that day is made and no second word is recorded, whatever runs across   *)
(* midnight, crashes and transactions that land late (decidedToday,        *)
(* closeDays).                                                             *)
WordIsFinal ==
    [][\A k \in Keys, d \in Days :
        attempts[k][d].words # <<>> => attempts'[k][d] = attempts[k][d]]_vars

(* The failed attempts of a token in a day are bounded: the bound is read  *)
(* once per run, so the run that reaches it may still use all its builds,  *)
(* and no restart forgets the count (MAX_FAILED_ATTEMPTS_PER_DAY).         *)
FailuresBounded ==
    \A k \in Keys, d \in Days :
        attempts[k][d].failed <= MAX_FAILED_ATTEMPTS_PER_DAY - 1 + MAX_BUILDS

(* A day whose attempts all failed is closed with a word once it is over,  *)
(* also across restarts and while the kill switch is on (closeDays).       *)
DayGetsItsWord ==
    \A k \in Keys, d \in Days :
        (d < DayOf(MaxTime) /\ attempts[k][d].failed > 0)
            ~> (attempts[k][d].words # <<>>)

-----------------------------------------------------------------------------
(* What schema.ts says of the table: a day's word "when the token is not   *)
(* bought that day (skipped, a pull failure, or swept by someone else)".   *)
(* So no such word stands for a day on which a sweep of the crank itself   *)
(* bought the token.                                                       *)
NotBoughtWordsAreTrue ==
    \A k \in Keys, d \in Days :
        attempts[k][d].words \in {<<"skipped">>, <<"pull_failed">>, <<"already_swept">>}
            => d \notin bought[k]

(* What crank.ts says of MAX_FAILED_ATTEMPTS_PER_DAY: a token that reached *)
(* it is skipped "until the next" day.  So no wait for the failures of an  *)
(* earlier day holds such a token back.                                    *)
SkippedUntilNextDay ==
    \A k \in Keys :
        LET d == memory.deferred[k]
        IN  /\ d.clock = "host"
            /\ d.on < DayOf(now)
            /\ attempts[k][d.on].failed >= MAX_FAILED_ATTEMPTS_PER_DAY
            => d.at <= now

-----------------------------------------------------------------------------
(***************************************************************************)
(* The process's loop runs a tick every 30 seconds and starts again after  *)
(* a crash, every request of a tick ends, time passes, and the database    *)
(* does not refuse the closing of a day every time it is tried (loop.ts).  *)
(***************************************************************************)
FairSpec == Spec /\ WF_vars(Progress) /\ SF_vars(CloseDays) /\ WF_vars(Tick)
=============================================================================
