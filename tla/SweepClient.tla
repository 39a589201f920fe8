---------------------------- MODULE SweepClient ----------------------------
(***************************************************************************)
(* What the client computes before it builds a sweep (sweep.ts, with its   *)
(* own amount engine in amount.ts): how much the program will pull, and    *)
(* until when that stands.  It computes it from the accounts as they are   *)
(* read and the cluster's clock; the sweep lands later.  The definitions   *)
(* have the names they have in the client.                                 *)
(***************************************************************************)
EXTENDS LateriteProperties, FiniteSetsExt

(***************************************************************************)
(* The amount engine again.                                                *)
(***************************************************************************)
saturatingSub(a, b) == IF a > b THEN a - b ELSE 0

weekAt(uc, t) == saturatingSub(t, uc.enrolled_at) \div WEEK_SECONDS

weeklyCap(uc, betaCap, t) ==
    Min({betaCap, IF t < uc.enrolled_at + WEEK_SECONDS THEN TRIAL_CAP ELSE TIERS[uc.rules.tier]})

spentAt(uc, t) == IF weekAt(uc, t) = uc.week THEN uc.week_spent ELSE 0

marketSession(day, calendar) == {t \in calendar : DayOf(t) = day}

\* A day's session is an interval of the day: from open until just before close.
ASSUME CalendarAssumption ==
    \A calendar \in Calendars :
        /\ calendar \subseteq Nat
        /\ \A day \in {DayOf(t) : t \in calendar} :
             \E open, last \in calendar : marketSession(day, calendar) = open..last

usMarketOpen(t, calendar) == t \in marketSession(DayOf(t), calendar)

engineDue(uc, calendar, t) ==
    LET ran == uc.engine_ran_at >= uc.enrolled_at
    IN  IF uc.rules.engine = "Daily"
        THEN ~ran \/ DayOf(t) > DayOf(uc.engine_ran_at)
        ELSE (~ran \/ weekAt(uc, t) > weekAt(uc, uc.engine_ran_at)) /\ usMarketOpen(t, calendar)

enginePull(uc, k, balance, betaCap, calendar, t) ==
    LET room == Min({saturatingSub(weeklyCap(uc, betaCap, t), spentAt(uc, t)),
                     saturatingSub(balance, uc.rules.cushions[k])})
        engine == IF engineDue(uc, calendar, t) THEN Min({uc.rules.engine_amount, room}) ELSE 0
    IN  IF uc.status # "Active" THEN NoPull
        ELSE [engine |-> engine, pending |-> Min({uc.pending, room - engine})]

nativeRemaining(s, amount, t) ==
    IF ~s.open \/ (s.expires # 0 /\ t >= s.expires) THEN 0
    ELSE IF t - s.start >= PLAN_PERIOD THEN amount
    ELSE saturatingSub(amount, s.pulled)

cappedPull(pull, limit) ==
    LET engine == Min({pull.engine, limit})
    IN  [engine |-> engine, pending |-> Min({pull.pending, limit - engine})]

(***************************************************************************)
(* The sweep: what it will pull, NoPull where the client throws instead.   *)
(***************************************************************************)
isRunning(s, t) == s.open /\ (s.expires = 0 \/ t < s.expires)

planOf(u, k) == subscription[u][k][user[u].rules.tier]

getSweepPull(u, k, balance) ==
    IF /\ Enrolled(u) /\ ~config.paused
       /\ DayOf(now) > user[u].last_sweep_day[k]
       /\ user[u].rules.engine = "Weekly" => usMarketOpen(now, config.market_calendar)
       /\ k \in user[u].rules.payment_tokens
       /\ isRunning(planOf(u, k), now)
    THEN cappedPull(enginePull(user[u], k, balance, config.user_weekly_cap,
                               config.market_calendar, now),
                    nativeRemaining(planOf(u, k), TIERS[user[u].rules.tier], now))
    ELSE NoPull

(***************************************************************************)
(* The next instant that can change the pull.                              *)
(***************************************************************************)
nextMarketSession(t, calendar) ==
    LET days == {d \in {DayOf(i) : i \in calendar} :
                    d >= DayOf(t) /\ \E i \in marketSession(d, calendar) : t <= i}
    IN  IF days = {} THEN {} ELSE marketSession(Min(days), calendar)

sessionBoundary(u) ==
    LET session == nextMarketSession(now, config.market_calendar)
    IN  IF user[u].rules.engine = "Daily" \/ session = {} THEN {}
        ELSE {IF now < Min(session) THEN Min(session) ELSE Max(session) + 1}

weekBoundary(u) ==
    IF now < user[u].enrolled_at THEN user[u].enrolled_at
    ELSE user[u].enrolled_at + (weekAt(user[u], now) + 1) * WEEK_SECONDS

\* Faulty: a period that runs out on its own is forgotten.
planBoundariesOfExpiry(u, k) ==
    IF planOf(u, k).expires > now THEN {planOf(u, k).expires} ELSE {}

planBoundaries(u, k) ==
    LET s == planOf(u, k)
        period == PLAN_PERIOD
    IN  IF ~s.open THEN {}
        ELSE (IF s.expires > now THEN {s.expires} ELSE {})
             \cup (IF now >= s.start THEN {s.start + ((now - s.start) \div period + 1) * period}
                   ELSE {})

nextSweepBoundary(u, k) ==
    Min({(DayOf(now) + 1) * DAY_SECONDS, weekBoundary(u)}
          \cup sessionBoundary(u) \cup planBoundaries(u, k))

-----------------------------------------------------------------------------
\* What the program pulls, nothing where it refuses the sweep.
Swept(u, k, balance) == IF MaySweep(u, k) THEN SweptPull(u, k, balance) ELSE NoPull

(* As long as nobody touches the accounts, what the client computed stands *)
(* until the boundary it computed with it: a sweep that lands before that  *)
(* boundary pulls exactly what its route was built for, and one that would *)
(* have been refused still is (getSweepPull, secondsToNextSweepBoundary).  *)
PullStands ==
    [][now' # now /\ UNCHANGED <<config, user, subscription>> =>
        \A u \in Users, k \in Tokens : now' < nextSweepBoundary(u, k) =>
            \A balance \in Balances :
                /\ Swept(u, k, balance)' = getSweepPull(u, k, balance)
                /\ getSweepPull(u, k, balance)' = getSweepPull(u, k, balance)]_vars
=============================================================================
