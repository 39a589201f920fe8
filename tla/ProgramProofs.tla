--------------------------- MODULE ProgramProofs ---------------------------
(***************************************************************************)
(* Proofs of how the program is seen from outside: as the allowance it     *)
(* promises every wallet, which it implements; by its client, whose        *)
(* forecast of a sweep stands until the boundary it computes; by the swap  *)
(* it asks a minimum of; and by New York's calendar and clock.             *)
(***************************************************************************)
EXTENDS MCProgram, LateritePromises, Sequences, WellFoundedInduction

(* A behaviour of the program beside its sessions and its prices is a      *)
(* behaviour of the program.                                               *)
LEMMA ProgramAlone == ProgramSpec => Spec
  <1>1. ProgramInit => Init
    BY DEF ProgramInit
  <1>2. [ProgramNext]_<<part, vars, sessions, prices>> => [Next]_vars
    BY DEF ProgramNext
  <1> QED
    BY <1>1, <1>2, PTL DEF ProgramSpec, Spec

-----------------------------------------------------------------------------
(***************************************************************************)
(* The program implements the allowance.                                   *)
(***************************************************************************)

(* What the refinement needs beyond the week's and the day's invariants:   *)
(* the clock starts after the epoch's first day, so that the 0 of an       *)
(* account that was never swept, or never existed, is no day and no time   *)
(* of the program's; and no day of a sweep is in the future.               *)
BudgetInv ==
    /\ now >= DAY_SECONDS
    /\ \A u \in Users :
         /\ ~Enrolled(u) => user[u].week_spent = 0 /\ user[u].last_sweep_day = [k \in Tokens |-> 0]
         /\ Enrolled(u) => user[u].enrolled_at > 0
         /\ \A k \in Tokens : user[u].last_sweep_day[k] <= DayOf(now)

(* What a sweep does to the days of its user (record, last_sweep_day).     *)
LEMMA SweepDays ==
    ASSUME TypeInv, NEW u \in Users, NEW k \in Tokens, NEW balance \in Balances,
           Sweep(u, k, balance)
    PROVE  /\ UNCHANGED now
           /\ user'[u].last_sweep_day = [user[u].last_sweep_day EXCEPT ![k] = DayOf(now)]
           /\ DayOf(now) > user[u].last_sweep_day[k]
           /\ \A v \in Users \ {u} : user'[v] = user[v]
  <1> DEFINE recorded == Recorded(user[u], SweptPull(u, k, balance), now)
  <1>1. /\ MaySweep(u, k)
        /\ user' = [user EXCEPT ![u] = [recorded EXCEPT !.last_sweep_day[k] = DayOf(now)]]
        /\ UNCHANGED now
    BY Zenon DEF Sweep
  <1>2. user \in [Users -> UserConfigs] /\ user[u] \in UserConfigs /\ now \in Nat
    BY DEF TypeInv, TypeOK, AccountsTypeOK
  <1>3. recorded \in UserConfigs /\ recorded.last_sweep_day = user[u].last_sweep_day
    <2>1. recorded \in UserConfigs
      BY <1>2, LateriteAssumption, SweptPullType, RecordedType
    <2> QED
      BY <1>2, <2>1 DEF Recorded, UserConfigs
  <1> HIDE DEF recorded
  <1> QED
    BY <1>1, <1>2, <1>3 DEF MaySweep, UserConfigs

(* No step takes the clock back or an account out of the past (enroll,     *)
(* record, last_sweep_day).                                                *)
LEMMA BudgetStep == TypeInv /\ WeekInv /\ BudgetInv /\ [Next]_vars => BudgetInv'
  <1> SUFFICES ASSUME TypeInv, WeekInv, BudgetInv, [Next]_vars PROVE BudgetInv'
    OBVIOUS
  <1>1. /\ now \in Nat /\ DayOf(now) \in Nat /\ DAY_SECONDS \in Nat \ {0}
        /\ user \in [Users -> UserConfigs]
        /\ \A u \in Users : user[u].last_sweep_day \in [Tokens -> Nat]
    BY DivNat, AmountAssumption DEF TypeInv, TypeOK, AccountsTypeOK, UserConfigs, Days, DayOf
  <1>2. CASE Tick
    <2>1. now' = now + 1 /\ UNCHANGED user
      BY <1>2 DEF Tick
    <2>2. DayOf(now + 1) \in Nat /\ DayOf(now) <= DayOf(now + 1)
      <3>1. now + 1 \in Nat /\ now <= now + 1
        BY <1>1
      <3> QED
        BY <1>1, <3>1, DivNat, DivMonotone DEF DayOf
    <2>3. \A u \in Users, k \in Tokens : user[u].last_sweep_day[k] <= DayOf(now + 1)
      BY <1>1, <2>2 DEF BudgetInv
    <2> QED
      BY <1>1, <2>1, <2>3 DEF BudgetInv, Enrolled
  <1>3. ASSUME NEW u \in Users, NEW k \in Tokens, NEW balance \in Balances,
               Sweep(u, k, balance)
        PROVE  BudgetInv'
    <2>1. /\ UNCHANGED now
          /\ user'[u].last_sweep_day = [user[u].last_sweep_day EXCEPT ![k] = DayOf(now)]
          /\ \A v \in Users \ {u} : user'[v] = user[v]
      BY <1>3, SweepDays
    <2>2. /\ Enrolled(u) /\ user'[u].status = user[u].status
          /\ user'[u].enrolled_at = user[u].enrolled_at
      BY <1>3, SweepCounts
    <2>3. \A q \in Tokens : user'[u].last_sweep_day[q] <= DayOf(now)
      BY <1>1, <2>1 DEF BudgetInv
    <2> QED
      BY <2>1, <2>2, <2>3 DEF BudgetInv, Enrolled
  <1>4. ASSUME NEW u \in Users, NEW p \in Params, Enroll(u, p)
        PROVE  BudgetInv'
    <2>1. /\ UNCHANGED now
          /\ \A v \in Users \ {u} : user'[v] = user[v]
          /\ user'[u].status = "Active" /\ user'[u].enrolled_at = now
          /\ user'[u].last_sweep_day = [k \in Tokens |-> 0]
      BY <1>1, <1>4 DEF Enroll
    <2> QED
      BY <1>1, <2>1 DEF BudgetInv, Enrolled
  <1>5. CASE Harmless
    BY <1>5 DEF Harmless, KeepsCounters, BudgetInv
  <1> QED
    BY <1>2, <1>3, <1>4, <1>5, StepCases

(* The program starts a day after the epoch, and nobody has spent.         *)
LEMMA BudgetInit == Init => BudgetInv
  <1> SUFFICES ASSUME Init PROVE BudgetInv
    OBVIOUS
  <1>1. now = DAY_SECONDS /\ now \in Nat \ {0} /\ user = [u \in Users |-> NoUserConfig]
    BY AmountAssumption DEF Init
  <1>2. DayOf(now) \in Nat
    BY <1>1, DivNat, AmountAssumption DEF DayOf
  <1> QED
    BY <1>1, <1>2, AmountAssumption DEF BudgetInv, NoUserConfig, Enrolled

\* What the proofs know of every reachable state.
ProgramInv == TypeInv /\ WeekInv /\ WeekWithinCap /\ BudgetInv

(* What the proofs know of the program holds when it is initialized and is *)
(* kept by every step of it.                                               *)
LEMMA ProgramAlways == Spec => []ProgramInv
  <1>1. Init => ProgramInv
    BY WeekInit, BudgetInit DEF ProgramInv
  <1>2. ProgramInv /\ [Next]_vars => ProgramInv'
    BY TypeStep, WeekStep, BudgetStep DEF ProgramInv
  <1> QED
    BY <1>1, <1>2, PTL DEF Spec

\* The allowance's variables, by the names they have there.
Since(u) == IF Enrolled(u) THEN user[u].enrolled_at ELSE 0
Bought(u) == {k \in Tokens : user[u].last_sweep_day[k] = DayOf(now)}

(* The allowance starts with nothing spent (UserConfig).                   *)
LEMMA AllowanceInit == Init => Allowance!Init
  <1> SUFFICES ASSUME Init PROVE Allowance!Init
    OBVIOUS
  <1>1. now = DAY_SECONDS /\ now \in Nat \ {0} /\ user = [u \in Users |-> NoUserConfig]
    BY AmountAssumption DEF Init
  <1>2. \A u \in Users : ~Enrolled(u) /\ SpentAt(user[u], now) = 0
    BY <1>1 DEF NoUserConfig, Enrolled, SpentAt
  <1>3. DayOf(now) # 0
    BY <1>1, DivFirst, AmountAssumption DEF DayOf
  <1>4. \A u \in Users : {k \in Tokens : user[u].last_sweep_day[k] = DayOf(now)} = {}
    BY <1>1, <1>3 DEF NoUserConfig
  <1> QED
    BY <1>1, <1>2, <1>4 DEF Allowance!Init

(* A tick is the allowance's: a week or a day that ends gives back what it *)
(* had spent, although no account is written (spent_at, DayOf).            *)
LEMMA AllowanceTick ==
    ASSUME ProgramInv, Tick, ProgramInv'
    PROVE  Allowance!Tick
  <1>1. /\ now' = now + 1 /\ UNCHANGED <<user, joined>>
        /\ weekPulled' = [u \in Users |-> IF NewWeek(u) THEN 0 ELSE weekPulled[u]]
    BY DEF Tick
  <1>2. /\ now \in Nat /\ DayOf(now) \in Nat /\ DayOf(now + 1) \in Nat
        /\ DAY_SECONDS \in Nat \ {0}
        /\ \A u \in Users : user[u].last_sweep_day \in [Tokens -> Nat]
    <2>1. /\ now \in Nat /\ now + 1 \in Nat /\ DAY_SECONDS \in Nat \ {0}
          /\ \A u \in Users : user[u].last_sweep_day \in [Tokens -> Nat]
      BY AmountAssumption DEF ProgramInv, TypeInv, TypeOK, AccountsTypeOK, UserConfigs, Days
    <2> QED
      BY <2>1, DivNat DEF DayOf
  <1>3. ASSUME NEW u \in Users
        PROVE  SpentAt(user[u], now + 1) =
                   IF Since(u) # 0 /\ (now + 1 - Since(u)) % WEEK_SECONDS = 0
                   THEN 0 ELSE SpentAt(user[u], now)
    <2>1. CASE ~Enrolled(u)
      BY <2>1 DEF ProgramInv, BudgetInv, SpentAt, Since
    <2>2. CASE Enrolled(u)
      <3>1. /\ user[u].enrolled_at = joined[u] /\ Since(u) = joined[u] /\ Since(u) # 0
            /\ weekPulled[u] = SpentAt(user[u], now)
            /\ weekPulled'[u] = SpentAt(user[u], now + 1)
        BY <1>1, <2>2 DEF ProgramInv, WeekInv, BudgetInv, Enrolled, Since
      <3> QED
        BY <1>1, <3>1 DEF NewWeek
    <2> QED
      BY <2>1, <2>2
  <1>4. ASSUME NEW u \in Users
        PROVE  {k \in Tokens : user[u].last_sweep_day[k] = DayOf(now + 1)}
                   = IF (now + 1) % DAY_SECONDS = 0 THEN {} ELSE Bought(u)
    <2>1. CASE (now + 1) % DAY_SECONDS = 0
      <3>1. DayOf(now) # DayOf(now + 1)
        BY <1>2, <2>1, DivNext DEF DayOf
      <3>2. DayOf(now) <= DayOf(now + 1)
        BY <1>2, DivMonotone DEF DayOf
      <3>3. \A k \in Tokens : user[u].last_sweep_day[k] <= DayOf(now)
        BY DEF ProgramInv, BudgetInv
      <3> QED
        BY <1>2, <2>1, <3>1, <3>2, <3>3
    <2>2. CASE (now + 1) % DAY_SECONDS # 0
      <3>1. DayOf(now + 1) = DayOf(now)
        BY <1>2, <2>2, SameDay DEF NewDay
      <3> QED
        BY <2>2, <3>1 DEF Bought
    <2> QED
      BY <2>1, <2>2
  <1>5. [u \in Users |-> Since(u)]' = [u \in Users |-> Since(u)]
    BY <1>1 DEF Since, Enrolled
  <1>6. [u \in Users |-> SpentAt(user[u], now)]'
            = [u \in Users |-> IF Since(u) # 0 /\ (now + 1 - Since(u)) % WEEK_SECONDS = 0
                               THEN 0 ELSE SpentAt(user[u], now)]
    BY <1>1, <1>3
  <1>7. [u \in Users |-> {k \in Tokens : user[u].last_sweep_day[k] = DayOf(now)}]'
            = [u \in Users |-> IF (now + 1) % DAY_SECONDS = 0 THEN {} ELSE Bought(u)]
    BY <1>1, <1>4
  <1> QED
    BY <1>1, <1>5, <1>6, <1>7
    DEF Allowance!Tick, Allowance!NewWeek, Allowance!NewDay, Since, Bought

(* An enrollment joins, at a time that is not 0, and spends nothing        *)
(* (enroll).                                                               *)
LEMMA AllowanceJoin ==
    ASSUME ProgramInv, NEW u \in Users, NEW p \in Params, Enroll(u, p)
    PROVE  Allowance!Join(u)
  <1>1. /\ now \in Nat /\ DayOf(now) \in Nat
        /\ user \in [Users -> UserConfigs]
    BY DivNat, AmountAssumption DEF ProgramInv, TypeInv, TypeOK, AccountsTypeOK, DayOf
  <1>2. /\ ~Enrolled(u)
        /\ UNCHANGED now
        /\ \A v \in Users \ {u} : user'[v] = user[v]
        /\ user'[u].status = "Active" /\ user'[u].enrolled_at = now
        /\ user'[u].week_spent = 0
        /\ user'[u].last_sweep_day = [k \in Tokens |-> 0]
    BY <1>1 DEF Enroll, Enrolled
  <1>3. /\ user[u].week_spent = 0
        /\ user[u].last_sweep_day = [k \in Tokens |-> 0]
    BY <1>2 DEF ProgramInv, BudgetInv
  <1>4. [v \in Users |-> Since(v)]' = [[v \in Users |-> Since(v)] EXCEPT ![u] = now]
    BY <1>2 DEF Since, Enrolled
  <1>5. UNCHANGED [v \in Users |-> SpentAt(user[v], now)]
    BY <1>2, <1>3 DEF SpentAt
  <1>6. UNCHANGED [v \in Users |-> {k \in Tokens : user[v].last_sweep_day[k] = DayOf(now)}]
    BY <1>2, <1>3 DEF DayOf
  <1>7. Since(u) = 0
    BY <1>2 DEF Since
  <1> QED
    BY <1>2, <1>4, <1>5, <1>6, <1>7 DEF Allowance!Join, Since

(* A sweep is a buy within the week's allowance, of a token that was not   *)
(* bought from today (sweep, record).                                      *)
LEMMA AllowanceBuy ==
    ASSUME ProgramInv, NEW u \in Users, NEW k \in Tokens, NEW balance \in Balances,
           Sweep(u, k, balance)
    PROVE  Allowance!Buy(u, k)
  <1> DEFINE cap == WeeklyCap(user[u], config.user_weekly_cap, now)
             spent == SpentAt(user[u], now)
             total == SpentAt(user'[u], now)
  <1>1. /\ now \in Nat /\ DayOf(now) \in Nat
        /\ user \in [Users -> UserConfigs]
        /\ user[u].last_sweep_day \in [Tokens -> Nat]
        /\ weekPulled \in [Users -> Nat]
    BY DivNat, AmountAssumption
    DEF ProgramInv, TypeInv, TypeOK, AccountsTypeOK, HistoryTypeOK, UserConfigs, Days, DayOf
  <1>2. /\ UNCHANGED now
        /\ user'[u].last_sweep_day = [user[u].last_sweep_day EXCEPT ![k] = DayOf(now)]
        /\ DayOf(now) > user[u].last_sweep_day[k]
        /\ \A v \in Users \ {u} : user'[v] = user[v]
    BY SweepDays DEF ProgramInv
  <1>3. /\ Enrolled(u) /\ user'[u].status = user[u].status
        /\ user'[u].enrolled_at = user[u].enrolled_at
        /\ user'[u].week = WeekAt(user[u], now)
        /\ user'[u].week_spent = weekPulled'[u]
        /\ weekPulled'[u] \in Nat /\ weekPulled'[u] <= cap
    BY SweepCounts DEF ProgramInv
  <1>4. total = weekPulled'[u]
    BY <1>3 DEF SpentAt, WeekAt
  <1>5. spent = weekPulled[u] /\ weekPulled'[u] > weekPulled[u]
    <2>1. spent = weekPulled[u]
      BY <1>3 DEF ProgramInv, WeekInv
    <2>2. /\ Total(SweptPull(u, k, balance)) > 0
          /\ weekPulled' = [weekPulled EXCEPT ![u] = @ + Total(SweptPull(u, k, balance))]
      BY Zenon DEF Sweep
    <2>3. Total(SweptPull(u, k, balance)) \in Nat
      BY SweptPullType, LateriteAssumption DEF ProgramInv, Pulls, Total
    <2> HIDE DEF spent
    <2> QED
      BY <1>1, <2>1, <2>2, <2>3
  <1>6. IF now < Since(u) + WEEK_SECONDS THEN total <= TRIAL_CAP
                                         ELSE \E a \in {TIERS[tier] : tier \in Tiers} : total <= a
    <2>1. Since(u) = user[u].enrolled_at
      BY <1>3 DEF Since
    <2>2. cap \in Nat
      BY AmountAssumption DEF WeeklyCap, Lesser, ProgramInv, TypeInv, TypeOK, AccountsTypeOK,
                              UserConfigs, Rules, Configs
    <2>3. /\ TRIAL_CAP \in Nat
          /\ \A tier \in Tiers : TIERS[tier] \in Nat
      BY AmountAssumption
    <2>4. IF now < user[u].enrolled_at + WEEK_SECONDS THEN cap <= TRIAL_CAP
                                                      ELSE \E tier \in Tiers : cap <= TIERS[tier]
      BY CapBounds DEF ProgramInv
    <2> HIDE DEF cap, total
    <2> QED
      BY <1>3, <1>4, <2>1, <2>2, <2>3, <2>4
  <1>7. \A v \in Users \ {u} : SpentAt(user'[v], now) = SpentAt(user[v], now)
    BY <1>2
  <1>8. [v \in Users |-> {q \in Tokens : user[v].last_sweep_day[q] = DayOf(now)}]'
            = [[v \in Users |-> Bought(v)] EXCEPT ![u] = @ \cup {k}]
    <2>1. {q \in Tokens : user'[u].last_sweep_day[q] = DayOf(now)} = Bought(u) \cup {k}
      BY <1>1, <1>2 DEF Bought
    <2>2. \A v \in Users \ {u} :
              {q \in Tokens : user'[v].last_sweep_day[q] = DayOf(now)} = Bought(v)
      BY <1>2 DEF Bought
    <2>3. DayOf(now)' = DayOf(now)
      BY <1>2 DEF DayOf
    <2>4. \A v \in Users :
              {q \in Tokens : user'[v].last_sweep_day[q] = DayOf(now)}
                = IF v = u THEN Bought(u) \cup {k} ELSE Bought(v)
      BY <2>1, <2>2
    <2> QED
      BY <2>3, <2>4
  <1>9. k \notin Bought(u)
    BY <1>1, <1>2 DEF Bought
  <1>10. Since(u) # 0
    BY <1>3 DEF Since, ProgramInv, BudgetInv
  <1>11. UNCHANGED [v \in Users |-> Since(v)]
    BY <1>2, <1>3 DEF Since, Enrolled
  <1>12. /\ now' = now /\ total = weekPulled'[u] /\ total > spent
    BY <1>2, <1>4, <1>5
  <1> HIDE DEF cap
  <1> QED
    BY <1>6, <1>7, <1>8, <1>9, <1>10, <1>11, <1>12
    DEF Allowance!Buy, Allowance!Within, Since, Bought

(* Nothing else moves the allowance: not an exit or a return, a pause, a   *)
(* change of plan, tier, tokens or caps (set_settings, exit, reactivate).  *)
LEMMA AllowanceKept ==
    ASSUME Harmless
    PROVE  UNCHANGED Allowance!vars
  <1>1. UNCHANGED now /\ \A u \in Users : KeepsCounters(u)
    BY DEF Harmless
  <1>2. \A u \in Users :
            /\ Enrolled(u)' = Enrolled(u)
            /\ user'[u].enrolled_at = user[u].enrolled_at
            /\ SpentAt(user'[u], now) = SpentAt(user[u], now)
            /\ user'[u].last_sweep_day = user[u].last_sweep_day
    BY <1>1 DEF KeepsCounters, SpentAt, WeekAt
  <1> QED
    BY <1>1, <1>2 DEF Allowance!vars, Enrolled, DayOf

(* The program implements the allowance, for every number of users, tokens *)
(* and tiers: the counters it brings up to date only when a sweep reads or *)
(* writes them, in accounts that survive exits, behave as if every week    *)
(* and every day started over by itself.                                   *)
THEOREM BudgetKept == ProgramSpec => KeepsToBudget
  <1>1. Init => Allowance!Init
    BY AllowanceInit
  <1>2. ProgramInv /\ ProgramInv' /\ [Next]_vars => [Allowance!Next]_(Allowance!vars)
    <2> SUFFICES ASSUME ProgramInv, ProgramInv', [Next]_vars
                 PROVE  [Allowance!Next]_(Allowance!vars)
      OBVIOUS
    <2>1. CASE Tick
      BY <2>1, AllowanceTick DEF Allowance!Next
    <2>2. CASE \E u \in Users, k \in Tokens, balance \in Balances : Sweep(u, k, balance)
      BY <2>2, AllowanceBuy DEF Allowance!Next
    <2>3. CASE \E u \in Users, p \in Params : Enroll(u, p)
      BY <2>3, AllowanceJoin DEF Allowance!Next
    <2>4. CASE Harmless
      BY <2>4, AllowanceKept
    <2> QED
      BY <2>1, <2>2, <2>3, <2>4, StepCases DEF ProgramInv
  <1> QED
    BY <1>1, <1>2, ProgramAlone, ProgramAlways, PTL DEF Spec, KeepsToBudget, Allowance!Spec

-----------------------------------------------------------------------------
(***************************************************************************)
(* The client computes what the program will pull.                         *)
(***************************************************************************)

(* A set of natural numbers has a smallest one: no boundary comes before   *)
(* the first (secondsToNextSweepBoundary).                                 *)
LEMMA MinNat ==
    ASSUME NEW S \in SUBSET Nat, S # {}
    PROVE  Min(S) \in S /\ \A n \in S : Min(S) <= n
  <1>1. PICK m \in S : \A n \in S : <<n, m>> \notin OpToRel(<, Nat)
    BY WFMin, NatLessThanWellFounded, Zenon
  <1>2. \A n \in S : ~(n < m)
    BY <1>1 DEF OpToRel
  <1>3. m \in S /\ \A n \in S : m =< n
    BY <1>2
  <1> QED
    BY <1>3, Zenon DEF Min

(* The smaller of two amounts, as the client takes it (amount.ts min).     *)
LEMMA MinOfTwo ==
    ASSUME NEW a \in Nat, NEW b \in Nat
    PROVE  Min({a, b}) = Lesser(a, b)
  <1>1. Min({a, b}) \in {a, b} /\ \A n \in {a, b} : Min({a, b}) <= n
    BY MinNat
  <1> QED
    BY <1>1 DEF Lesser

(* An interval's first and last instants are what the client takes as the  *)
(* session's open and close (nextMarketSession).                           *)
LEMMA IntervalEnds ==
    ASSUME NEW a \in Nat, NEW b \in Nat, a <= b
    PROVE  Min(a..b) = a /\ Max(a..b) = b
  <1>1. Min(a..b) = a
    <2>1. Min(a..b) \in a..b /\ \A n \in a..b : Min(a..b) <= n
      BY MinNat
    <2> QED
      BY <2>1
  <1>2. Max(a..b) \in a..b /\ \A n \in a..b : Max(a..b) >= n
    <2>1. b \in a..b /\ \A n \in a..b : b >= n
      OBVIOUS
    <2> QED
      BY <2>1, Zenon DEF Max
  <1> QED
    BY <1>1, <1>2

(* Subtraction stops at 0 in both (saturatingSub).                         *)
LEMMA SameSub ==
    ASSUME NEW a \in Nat, NEW b \in Nat
    PROVE  saturatingSub(a, b) = SaturatingSub(a, b) /\ SaturatingSub(a, b) \in Nat
  BY DEF saturatingSub, SaturatingSub

(* The client's weeks, caps and engine are the program's (weekAt, spentAt, *)
(* weeklyCap, engineDue).                                                  *)
LEMMA SameWeek ==
    ASSUME NEW c \in UserConfigs, NEW betaCap \in Nat, NEW trading, NEW t \in Nat
    PROVE  /\ weekAt(c, t) = WeekAt(c, t)
           /\ weekAt(c, c.engine_ran_at) = WeekAt(c, c.engine_ran_at)
           /\ spentAt(c, t) = SpentAt(c, t) /\ SpentAt(c, t) \in Nat
           /\ weeklyCap(c, betaCap, t) = WeeklyCap(c, betaCap, t)
           /\ WeeklyCap(c, betaCap, t) \in Nat
           /\ engineDue(c, trading, t) <=> EngineDue(c, trading, t)
  <1>1. /\ c.enrolled_at \in Nat /\ c.engine_ran_at \in Nat /\ c.week_spent \in Nat
        /\ c.rules.tier \in Tiers
    BY DEF UserConfigs, Rules
  <1>2. /\ weekAt(c, t) = WeekAt(c, t)
        /\ weekAt(c, c.engine_ran_at) = WeekAt(c, c.engine_ran_at)
    BY <1>1, SameSub DEF weekAt, WeekAt, WeekFrom
  <1>3. spentAt(c, t) = SpentAt(c, t) /\ SpentAt(c, t) \in Nat
    BY <1>1, <1>2 DEF spentAt, SpentAt
  <1>4. /\ weeklyCap(c, betaCap, t) = WeeklyCap(c, betaCap, t)
        /\ WeeklyCap(c, betaCap, t) \in Nat
    <2> DEFINE cap == IF t < c.enrolled_at + WEEK_SECONDS THEN TRIAL_CAP ELSE TIERS[c.rules.tier]
    <2>1. cap \in Nat
      BY <1>1, AmountAssumption
    <2>2. /\ weeklyCap(c, betaCap, t) = Min({betaCap, cap})
          /\ WeeklyCap(c, betaCap, t) = Lesser(cap, betaCap)
      BY DEF weeklyCap, WeeklyCap
    <2> HIDE DEF cap
    <2> QED
      BY <2>1, <2>2, MinOfTwo DEF Lesser
  <1>5. usMarketOpen(t, trading) <=> t \in trading
    BY DEF usMarketOpen, marketSession
  <1>6. engineDue(c, trading, t) <=> EngineDue(c, trading, t)
    BY <1>2, <1>5, Zenon DEF engineDue, EngineDue
  <1> QED
    BY <1>2, <1>3, <1>4, <1>6

(* The client's pull is the program's (enginePull, pull).                  *)
LEMMA SamePull ==
    ASSUME NEW c \in UserConfigs, NEW k \in Tokens, NEW balance \in Nat,
           NEW betaCap \in Nat, NEW trading, NEW t \in Nat
    PROVE  enginePull(c, k, balance, betaCap, trading, t)
               = Pull(c, k, balance, betaCap, trading, t)
  <1> DEFINE left == SaturatingSub(WeeklyCap(c, betaCap, t), SpentAt(c, t))
             above == SaturatingSub(balance, c.rules.cushions[k])
             room == Room(c, k, balance, betaCap, t)
             engine == IF EngineDue(c, trading, t)
                       THEN Lesser(c.rules.engine_amount, room) ELSE 0
  <1>1. /\ c.rules.cushions[k] \in Nat /\ c.rules.engine_amount \in Nat
        /\ c.pending \in Nat
    BY DEF UserConfigs, Rules
  <1>2. left \in Nat /\ above \in Nat
    BY <1>1, SameWeek, SameSub
  <1>3. room \in Nat
    BY RoomNat
  <1>4. Min({saturatingSub(weeklyCap(c, betaCap, t), spentAt(c, t)),
             saturatingSub(balance, c.rules.cushions[k])}) = room
    <2>1. Min({left, above}) = Lesser(left, above)
      BY <1>2, MinOfTwo
    <2>2. /\ saturatingSub(weeklyCap(c, betaCap, t), spentAt(c, t)) = left
          /\ saturatingSub(balance, c.rules.cushions[k]) = above
      BY <1>1, SameWeek, SameSub
    <2> HIDE DEF left, above
    <2> QED
      BY <2>1, <2>2 DEF Room, left, above
  <1> HIDE DEF room
  <1>5. Min({c.rules.engine_amount, room}) = Lesser(c.rules.engine_amount, room)
    BY <1>1, <1>3, MinOfTwo
  <1>6. engine \in Nat /\ engine <= room /\ room - engine \in Nat
    BY <1>1, <1>3 DEF Lesser
  <1>7. Min({c.pending, room - engine}) = Lesser(c.pending, room - engine)
    BY <1>1, <1>6, MinOfTwo
  <1>8. engineDue(c, trading, t) <=> EngineDue(c, trading, t)
    BY SameWeek
  <1>9. enginePull(c, k, balance, betaCap, trading, t) =
            IF c.status # "Active" THEN NoPull
            ELSE [engine |-> engine, pending |-> Min({c.pending, room - engine})]
    BY <1>4, <1>5, <1>8, Zenon DEF enginePull
  <1>10. Pull(c, k, balance, betaCap, trading, t) =
            IF c.status = "Active"
            THEN [engine |-> engine, pending |-> Lesser(c.pending, room - engine)]
            ELSE NoPull
    BY Zenon DEF Pull, room
  <1> HIDE DEF engine
  <1> QED
    BY <1>7, <1>9, <1>10

(* A pull capped by the client is the program's (cappedPull, capped), and  *)
(* nothing of it is left by a limit of 0.                                  *)
LEMMA SameCapped ==
    ASSUME NEW p \in Pulls, NEW limit \in Nat
    PROVE  /\ cappedPull(p, limit) = Capped(p, limit)
           /\ Capped(p, 0) = NoPull
  <1>1. p.engine \in Nat /\ p.pending \in Nat
    BY DEF Pulls
  <1>2. Min({p.engine, limit}) = Lesser(p.engine, limit)
    BY <1>1, MinOfTwo
  <1>3. limit - Lesser(p.engine, limit) \in Nat
    BY <1>1 DEF Lesser
  <1>4. Min({p.pending, limit - Lesser(p.engine, limit)})
            = Lesser(p.pending, limit - Lesser(p.engine, limit))
    BY <1>1, <1>3, MinOfTwo
  <1>5. cappedPull(p, limit) = Capped(p, limit)
    BY <1>2, <1>4 DEF cappedPull, Capped
  <1>6. Lesser(p.engine, 0) = 0 /\ Lesser(p.pending, 0 - 0) = 0
    BY <1>1 DEF Lesser
  <1>7. Capped(p, 0) = NoPull
    BY <1>6 DEF Capped, NoPull
  <1> QED
    BY <1>5, <1>7

(* What a plan still allows is the same to both (nativeRemaining,          *)
(* isRunning, remaining), and nothing once it does not run.                *)
LEMMA SameRemaining ==
    ASSUME NEW s \in Subscriptions, NEW amount \in Nat, NEW t \in Nat
    PROVE  /\ nativeRemaining(s, amount, t) = Remaining(s, amount, t)
           /\ ~isRunning(s, t) => Remaining(s, amount, t) = 0
  BY DEF nativeRemaining, saturatingSub, Remaining, Expired, isRunning, Subscriptions

(* In every state the client's pull is what the program would pull, and    *)
(* nothing where it would refuse (getSweepPull, sweep).                    *)
LEMMA ClientMirrors ==
    TypeInv => \A u \in Users, k \in Tokens, balance \in Balances :
                   getSweepPull(u, k, balance) = Swept(u, k, balance)
  <1> SUFFICES ASSUME TypeInv, NEW u \in Users, NEW k \in Tokens, NEW balance \in Balances
               PROVE  getSweepPull(u, k, balance) = Swept(u, k, balance)
    OBVIOUS
  <1> DEFINE tier == user[u].rules.tier
             asked == Pull(user[u], k, balance, config.user_weekly_cap,
                           config.market_calendar, now)
             allowed == Remaining(planOf(u, k), TIERS[tier], now)
  <1>1. /\ user[u] \in UserConfigs /\ now \in Nat /\ balance \in Nat
        /\ config.user_weekly_cap \in Nat
        /\ tier \in Tiers /\ TIERS[tier] \in Nat
        /\ planOf(u, k) \in Subscriptions
    BY LateriteAssumption, AmountAssumption
    DEF TypeInv, TypeOK, AccountsTypeOK, UserConfigs, Rules, Configs, planOf
  <1>2. asked \in Pulls /\ allowed \in Nat
    BY <1>1, PullType, SubscriptionType
  <1>3. /\ enginePull(user[u], k, balance, config.user_weekly_cap, config.market_calendar, now)
               = asked
        /\ nativeRemaining(planOf(u, k), TIERS[tier], now) = allowed
    <2>1. enginePull(user[u], k, balance, config.user_weekly_cap, config.market_calendar, now)
              = asked
      <3>1. \A trading : enginePull(user[u], k, balance, config.user_weekly_cap, trading, now)
                             = Pull(user[u], k, balance, config.user_weekly_cap, trading, now)
        BY <1>1, SamePull
      <3> QED
        BY <3>1
    <2>2. nativeRemaining(planOf(u, k), TIERS[tier], now) = allowed
      BY <1>1, SameRemaining, Zenon
    <2> QED
      BY <2>1, <2>2
  <1>4. ~isRunning(planOf(u, k), now) => allowed = 0
    BY <1>1, SameRemaining
  <1>5. SweptPull(u, k, balance) = Capped(asked, allowed)
    BY DEF SweptPull, planOf
  <1>6. usMarketOpen(now, config.market_calendar) <=> now \in config.market_calendar
    BY DEF usMarketOpen, marketSession
  <1>7. getSweepPull(u, k, balance) =
            IF MaySweep(u, k) /\ isRunning(planOf(u, k), now) THEN cappedPull(asked, allowed)
            ELSE NoPull
    BY <1>3, <1>6, Zenon DEF getSweepPull, MaySweep
  <1> HIDE DEF asked, allowed
  <1>8. cappedPull(asked, allowed) = Capped(asked, allowed) /\ Capped(asked, 0) = NoPull
    BY <1>2, SameCapped
  <1> QED
    BY <1>4, <1>5, <1>7, <1>8, Zenon DEF Swept

-----------------------------------------------------------------------------
(***************************************************************************)
(* What the client computed stands until its boundary.                     *)
(***************************************************************************)

(* The quotient of a division is the number of whole periods that have     *)
(* passed (weekAt, planBoundaries).                                        *)
LEMMA DivUnique ==
    ASSUME NEW a \in Nat, NEW n \in Nat, NEW w \in Nat \ {0}, n * w <= a, a < (n + 1) * w
    PROVE  a \div w = n
  OBVIOUS

(* Before a period's end the next instant is in the same period            *)
(* (secondsToNextSweepBoundary).                                           *)
LEMMA SamePeriod ==
    ASSUME NEW start \in Nat, NEW t \in Nat, start <= t, NEW w \in Nat \ {0},
           t + 1 < start + ((t - start) \div w + 1) * w
    PROVE  (t + 1 - start) \div w = (t - start) \div w
  <1> DEFINE n == (t - start) \div w
  <1>1. t - start \in Nat /\ t + 1 - start \in Nat /\ n \in Nat
    BY DivNat
  <1>2. n * w <= t - start
    BY <1>1
  <1>3. n * w \in Nat /\ (n + 1) * w \in Nat
    BY <1>1
  <1>4. t + 1 < start + (n + 1) * w
    OBVIOUS
  <1> HIDE DEF n
  <1>5. n * w <= t + 1 - start /\ t + 1 - start < (n + 1) * w
    BY <1>1, <1>2, <1>3, <1>4
  <1>6. (t + 1 - start) \div w = n
    BY <1>1, <1>5, DivUnique
  <1> QED
    BY <1>6 DEF n

(* The session the client waits for is an interval (nextMarketSession).    *)
LEMMA SessionInterval ==
    ASSUME NEW trading \in Calendars \union {{}}, NEW t \in Nat,
           nextMarketSession(t, trading) # {}
    PROVE  \E a, b \in Nat : a <= b /\ nextMarketSession(t, trading) = a..b
  <1> DEFINE days == {d \in {DayOf(i) : i \in trading} :
                         d >= DayOf(t) /\ \E i \in marketSession(d, trading) : t <= i}
  <1>1. days # {} /\ nextMarketSession(t, trading) = marketSession(Min(days), trading)
    BY DEF nextMarketSession
  <1>2. trading \in Calendars
    BY <1>1
  <1>3. trading \subseteq Nat
    BY <1>2, CalendarAssumption
  <1>4. {DayOf(i) : i \in trading} \subseteq Nat
    BY <1>3, DivNat, AmountAssumption DEF DayOf
  <1>5. days \in SUBSET Nat
    BY <1>4
  <1>6. Min(days) \in {DayOf(i) : i \in trading}
    BY <1>1, <1>5, MinNat
  <1> HIDE DEF days
  <1>7. PICK a, b \in trading : marketSession(Min(days), trading) = a..b
    BY <1>2, <1>6, CalendarAssumption
  <1>8. a \in Nat /\ b \in Nat /\ a..b # {}
    BY <1>1, <1>3, <1>7
  <1>9. a <= b
    BY <1>8
  <1> QED
    BY <1>1, <1>7, <1>8, <1>9

(* Before the session's boundary, and within a day, the market is open at  *)
(* the next instant if it is now (sessionBoundary).                        *)
LEMMA SessionStands ==
    ASSUME ProgramInv, NEW u \in Users, user[u].rules.engine # "Daily",
           DayOf(now + 1) = DayOf(now),
           \A b \in sessionBoundary(u) : now + 1 < b
    PROVE  now + 1 \in config.market_calendar <=> now \in config.market_calendar
  <1> DEFINE trading == config.market_calendar
             days == {d \in {DayOf(i) : i \in trading} :
                         d >= DayOf(now) /\ \E i \in marketSession(d, trading) : now <= i}
  <1>1. now \in Nat /\ trading \in Calendars \union {{}}
    BY DEF ProgramInv, TypeInv, TypeOK, AccountsTypeOK, Configs
  <1>2. SUFFICES ASSUME NEW i \in {now, now + 1} \cap trading
                 PROVE  now \in trading /\ now + 1 \in trading
    OBVIOUS
  <1>3. trading \in Calendars /\ trading \subseteq Nat
    BY <1>1, <1>2, CalendarAssumption
  <1>4. DayOf(i) = DayOf(now) /\ DayOf(now) \in {DayOf(t) : t \in trading}
    BY <1>2
  <1>5. {DayOf(t) : t \in trading} \subseteq Nat
    BY <1>3, DivNat, AmountAssumption DEF DayOf
  <1>6. DayOf(now) \in days
    <2>1. i \in marketSession(DayOf(now), trading) /\ now <= i
      BY <1>1, <1>2, <1>4 DEF marketSession
    <2>2. DayOf(now) >= DayOf(now)
      BY <1>4, <1>5
    <2> QED
      BY <1>4, <2>1, <2>2
  <1>7. Min(days) = DayOf(now)
    <2>1. days \in SUBSET Nat
      BY <1>5
    <2>2. Min(days) \in days /\ \A d \in days : Min(days) <= d
      BY <1>6, <2>1, MinNat
    <2>3. Min(days) >= DayOf(now) /\ Min(days) <= DayOf(now)
      BY <1>6, <2>2
    <2>4. Min(days) \in Nat /\ DayOf(now) \in Nat
      BY <1>4, <1>5, <2>1, <2>2
    <2> HIDE DEF days
    <2> QED
      BY <2>3, <2>4
  <1>8. nextMarketSession(now, trading) = marketSession(DayOf(now), trading)
    BY <1>6, <1>7 DEF nextMarketSession
  <1>9. PICK a, b \in trading : marketSession(DayOf(now), trading) = a..b
    BY <1>3, <1>4, CalendarAssumption
  <1>10. i \in a..b /\ a \in Nat /\ b \in Nat
    BY <1>2, <1>3, <1>4, <1>9 DEF marketSession
  <1>11. a <= b /\ Min(a..b) = a /\ Max(a..b) = b
    BY <1>10, IntervalEnds
  <1>12. (IF now < a THEN a ELSE b + 1) \in sessionBoundary(u)
    BY <1>8, <1>9, <1>10, <1>11 DEF sessionBoundary
  <1>13. ~(now < a)
    <2>1. now < a => now + 1 < a
      BY <1>12
    <2> QED
      BY <1>1, <1>2, <1>10, <2>1
  <1>14. now + 1 < b + 1
    BY <1>12, <1>13
  <1>15. now \in a..b /\ now + 1 \in a..b
    BY <1>1, <1>10, <1>13, <1>14
  <1> QED
    BY <1>9, <1>15 DEF marketSession

(* The clock has not reached any boundary of a sweep before it reaches the *)
(* first of them (secondsToNextSweepBoundary).                             *)
LEMMA BoundariesAhead ==
    ASSUME ProgramInv, NEW u \in Users, NEW k \in Tokens, Enrolled(u),
           now + 1 < nextSweepBoundary(u, k)
    PROVE  /\ now + 1 < (DayOf(now) + 1) * DAY_SECONDS
           /\ now + 1 < user[u].enrolled_at + (WeekAt(user[u], now) + 1) * WEEK_SECONDS
           /\ \A b \in sessionBoundary(u) : now + 1 < b
           /\ \A b \in planBoundaries(u, k) : now + 1 < b
  <1> DEFINE day == (DayOf(now) + 1) * DAY_SECONDS
             boundaries == {day, weekBoundary(u)}
                               \cup sessionBoundary(u) \cup planBoundaries(u, k)
             s == planOf(u, k)
             week == user[u].enrolled_at + (WeekAt(user[u], now) + 1) * WEEK_SECONDS
  <1>1. /\ now \in Nat /\ user[u] \in UserConfigs /\ user[u].enrolled_at \in Nat
        /\ user[u].rules.tier \in Tiers
        /\ subscription[u][k][user[u].rules.tier] \in Subscriptions
        /\ config.market_calendar \in Calendars \union {{}}
        /\ user[u].enrolled_at <= now
    <2>1. /\ now \in Nat /\ user[u] \in UserConfigs
          /\ subscription \in [Users -> [Tokens -> [Tiers -> Subscriptions]]]
          /\ config.market_calendar \in Calendars \union {{}}
      BY DEF ProgramInv, TypeInv, TypeOK, AccountsTypeOK, Configs
    <2>2. user[u].enrolled_at \in Nat /\ user[u].rules.tier \in Tiers
      BY <2>1 DEF UserConfigs, Rules
    <2>3. user[u].enrolled_at <= now
      BY DEF ProgramInv, WeekInv
    <2> QED
      BY <2>1, <2>2, <2>3
  <1>2. s.start \in Nat /\ s.expires \in Nat
    BY <1>1 DEF Subscriptions, planOf
  <1>3. day \in Nat
    <2>1. DayOf(now) \in Nat
      BY <1>1, DivNat, AmountAssumption DEF DayOf
    <2> QED
      BY <2>1, AmountAssumption
  <1>4. weekBoundary(u) = week /\ week \in Nat
    <2>1. WeekAt(user[u], now) \in Nat /\ WeekAt(user[u], now) = weekAt(user[u], now)
      <3>1. WeekAt(user[u], now) \in Nat
        BY <1>1, NextWeek DEF WeekAt
      <3>2. \A trading : weekAt(user[u], now) = WeekAt(user[u], now)
        BY <1>1, SameWeek
      <3> QED
        BY <3>1, <3>2
    <2>2. ~(now < user[u].enrolled_at)
      BY <1>1
    <2> HIDE DEF week
    <2>3. weekBoundary(u) = week
      BY <2>1, <2>2 DEF weekBoundary, week
    <2>4. week \in Nat
      BY <1>1, <2>1, AmountAssumption DEF week
    <2> QED
      BY <2>3, <2>4
  <1>5. sessionBoundary(u) \subseteq Nat
    <2> DEFINE session == nextMarketSession(now, config.market_calendar)
    <2>1. CASE session = {}
      BY <2>1 DEF sessionBoundary
    <2>2. CASE session # {}
      <3>1. PICK a, b \in Nat : a <= b /\ session = a..b
        BY <1>1, <2>2, SessionInterval
      <3>2. Min(session) = a /\ Max(session) = b
        BY <3>1, IntervalEnds
      <3> HIDE DEF session
      <3>3. (IF now < Min(session) THEN Min(session) ELSE Max(session) + 1) \in Nat
        BY <3>2
      <3> QED
        BY <3>3 DEF sessionBoundary, session
    <2> QED
      BY <2>1, <2>2
  <1>6. planBoundaries(u, k) \subseteq Nat
    <2>1. now >= s.start => s.start + ((now - s.start) \div PLAN_PERIOD + 1) * PLAN_PERIOD \in Nat
      <3> SUFFICES ASSUME now >= s.start
                   PROVE  s.start + ((now - s.start) \div PLAN_PERIOD + 1) * PLAN_PERIOD \in Nat
        OBVIOUS
      <3>1. now - s.start \in Nat
        BY <1>1, <1>2
      <3>2. (now - s.start) \div PLAN_PERIOD \in Nat
        BY <3>1, DivNat, PeriodAssumption
      <3> QED
        BY <1>2, <3>2, PeriodAssumption
    <2> HIDE DEF s
    <2> QED
      BY <1>2, <2>1 DEF planBoundaries, s
  <1>7. boundaries \in SUBSET Nat /\ boundaries # {}
    BY <1>3, <1>4, <1>5, <1>6
  <1> HIDE DEF day
  <1>8. nextSweepBoundary(u, k) = Min(boundaries)
    BY DEF nextSweepBoundary, day
  <1>9. Min(boundaries) \in Nat /\ \A b \in boundaries : Min(boundaries) <= b
    BY <1>7, MinNat
  <1>10. \A b \in boundaries : now + 1 < b
    <2> HIDE DEF boundaries
    <2> QED
      BY <1>1, <1>7, <1>8, <1>9
  <1> QED
    BY <1>4, <1>10 DEF day

\* Whether a token may be swept, and what the sweep pulls, at another time in the
\* accounts of now.
MaySweepAt(u, k, t) ==
    /\ Enrolled(u) /\ ~config.paused
    /\ DayOf(t) > user[u].last_sweep_day[k]
    /\ user[u].rules.engine = "Weekly" => t \in config.market_calendar
    /\ k \in user[u].rules.payment_tokens

PullAt(u, k, balance, t) ==
    Pull(user[u], k, balance, config.user_weekly_cap, config.market_calendar, t)

RemainingAt(u, k, t) == Remaining(planOf(u, k), TIERS[user[u].rules.tier], t)

SweptAt(u, k, balance, t) ==
    IF MaySweepAt(u, k, t) THEN Capped(PullAt(u, k, balance, t), RemainingAt(u, k, t))
    ELSE NoPull

(* What a plan still allows stands until its next boundary                 *)
(* (planBoundaries, remaining).                                            *)
LEMMA RemainingStands ==
    ASSUME ProgramInv, NEW u \in Users, NEW k \in Tokens,
           \A b \in planBoundaries(u, k) : now + 1 < b
    PROVE  RemainingAt(u, k, now + 1) = RemainingAt(u, k, now)
  <1> DEFINE s == planOf(u, k)
  <1>1. /\ now \in Nat /\ user[u].rules.tier \in Tiers
        /\ s \in Subscriptions /\ s.start <= now
    <2>1. /\ now \in Nat /\ user[u] \in UserConfigs
          /\ subscription \in [Users -> [Tokens -> [Tiers -> Subscriptions]]]
      BY DEF ProgramInv, TypeInv, TypeOK, AccountsTypeOK
    <2>2. user[u].rules.tier \in Tiers
      BY <2>1 DEF UserConfigs, Rules
    <2>3. s.start <= now
      BY <2>2 DEF ProgramInv, TypeInv, PeriodsStarted, planOf
    <2> QED
      BY <2>1, <2>2, <2>3 DEF planOf
  <1>2. s.start \in Nat /\ s.expires \in Nat
    BY <1>1 DEF Subscriptions
  <1> HIDE DEF s
  <1>3. CASE ~s.open
    BY <1>3 DEF RemainingAt, Remaining, s
  <1>4. CASE s.open
    <2> DEFINE next == now + 1
    <2>1. Expired(s, next) <=> Expired(s, now)
      <3>1. s.expires > now => now + 1 < s.expires
        BY <1>4 DEF planBoundaries, s
      <3> QED
        BY <1>1, <1>2, <3>1 DEF Expired
    <2>2. next - s.start >= PLAN_PERIOD <=> now - s.start >= PLAN_PERIOD
      <3>1. now + 1 < s.start + ((now - s.start) \div PLAN_PERIOD + 1) * PLAN_PERIOD
        <4>1. now >= s.start
          BY <1>1, <1>2
        <4> QED
          BY <1>4, <4>1 DEF planBoundaries, s
      <3>2. (now + 1 - s.start) \div PLAN_PERIOD = (now - s.start) \div PLAN_PERIOD
        BY <1>1, <1>2, <3>1, SamePeriod, PeriodAssumption
      <3> DEFINE a == now - s.start
                 b == next - s.start
      <3>3. a \in Nat /\ b \in Nat
        BY <1>1, <1>2
      <3>4. a \div PLAN_PERIOD = b \div PLAN_PERIOD
        BY <1>1, <1>2, <3>2, PeriodAssumption
      <3> HIDE DEF a, b
      <3>5. /\ a < PLAN_PERIOD <=> a \div PLAN_PERIOD = 0
            /\ b < PLAN_PERIOD <=> b \div PLAN_PERIOD = 0
        BY <3>3, DivFirst, PeriodAssumption
      <3>6. a < PLAN_PERIOD <=> b < PLAN_PERIOD
        BY <3>4, <3>5
      <3>7. a >= PLAN_PERIOD <=> b >= PLAN_PERIOD
        BY <3>3, <3>6, PeriodAssumption
      <3> QED
        BY <1>1, <1>2, <3>7 DEF a, b
    <2> DEFINE amount == TIERS[user[u].rules.tier]
    <2> HIDE DEF amount, next
    <2>3. Remaining(s, amount, next) = Remaining(s, amount, now)
      BY <2>1, <2>2 DEF Remaining
    <2> QED
      BY <2>3, Zenon DEF RemainingAt, s, amount, next
  <1> QED
    BY <1>3, <1>4

(* Until the first boundary, and while nobody touches the accounts, the    *)
(* next instant's sweep is this one's (secondsToNextSweepBoundary).        *)
LEMMA SweptStands ==
    ASSUME ProgramInv, NEW u \in Users, NEW k \in Tokens, NEW balance \in Balances,
           Enrolled(u), now + 1 < nextSweepBoundary(u, k)
    PROVE  SweptAt(u, k, balance, now + 1) = Swept(u, k, balance)
  <1> DEFINE c == user[u]
             market == config.market_calendar
             cap == config.user_weekly_cap
  <1>1. /\ now \in Nat /\ c \in UserConfigs /\ c.enrolled_at \in Nat
        /\ c.enrolled_at <= now /\ c.rules.engine \in Engines
    <2>1. now \in Nat /\ c \in UserConfigs
      BY DEF ProgramInv, TypeInv, TypeOK, AccountsTypeOK
    <2>2. c.enrolled_at \in Nat /\ c.rules.engine \in Engines
      BY <2>1 DEF UserConfigs, Rules
    <2>3. c.enrolled_at <= now
      BY DEF ProgramInv, WeekInv
    <2> QED
      BY <2>1, <2>2, <2>3
  <1>2. /\ now + 1 < (DayOf(now) + 1) * DAY_SECONDS
        /\ now + 1 < c.enrolled_at + (WeekAt(c, now) + 1) * WEEK_SECONDS
        /\ \A b \in sessionBoundary(u) : now + 1 < b
        /\ \A b \in planBoundaries(u, k) : now + 1 < b
    BY BoundariesAhead
  <1>3. DayOf(now + 1) = DayOf(now)
    <2>1. now - 0 = now /\ now + 1 - 0 = now + 1 /\ 0 <= now
      BY <1>1
    <2>2. now + 1 < 0 + ((now - 0) \div DAY_SECONDS + 1) * DAY_SECONDS
      <3>1. DayOf(now) \in Nat
        BY <1>1, DivNat, AmountAssumption DEF DayOf
      <3>2. (DayOf(now) + 1) * DAY_SECONDS \in Nat
        BY <3>1, AmountAssumption
      <3>3. now + 1 < 0 + (DayOf(now) + 1) * DAY_SECONDS
        BY <1>2, <3>2
      <3> QED
        BY <2>1, <3>3 DEF DayOf
    <2>3. (now + 1 - 0) \div DAY_SECONDS = (now - 0) \div DAY_SECONDS
      BY <1>1, <2>1, <2>2, SamePeriod, AmountAssumption
    <2> QED
      BY <2>1, <2>3 DEF DayOf
  <1>4. WeekAt(c, now + 1) = WeekAt(c, now)
    <2>1. /\ WeekAt(c, now) = (now - c.enrolled_at) \div WEEK_SECONDS
          /\ WeekAt(c, now + 1) = (now + 1 - c.enrolled_at) \div WEEK_SECONDS
      BY <1>1 DEF WeekAt, WeekFrom, SaturatingSub
    <2> HIDE DEF c
    <2> QED
      BY <1>1, <1>2, <2>1, SamePeriod, AmountAssumption
  <1>5. now + 1 < c.enrolled_at + WEEK_SECONDS <=> now < c.enrolled_at + WEEK_SECONDS
    BY <1>1, <1>4, NextWeek DEF WeekAt
  <1>6. c.rules.engine # "Daily" => (now + 1 \in market <=> now \in market)
    BY <1>2, <1>3, SessionStands
  <1>7. RemainingAt(u, k, now + 1) = RemainingAt(u, k, now)
    BY <1>2, RemainingStands
  <1>8. MaySweepAt(u, k, now + 1) <=> MaySweep(u, k)
    BY <1>3, <1>6 DEF MaySweepAt, MaySweep
  <1>9. PullAt(u, k, balance, now + 1) = PullAt(u, k, balance, now)
    <2>1. EngineDue(c, market, now + 1) <=> EngineDue(c, market, now)
      BY <1>3, <1>4, <1>6 DEF EngineDue
    <2>2. WeeklyCap(c, cap, now + 1) = WeeklyCap(c, cap, now)
      BY <1>5 DEF WeeklyCap
    <2>3. SpentAt(c, now + 1) = SpentAt(c, now)
      BY <1>4 DEF SpentAt
    <2>4. Room(c, k, balance, cap, now + 1) = Room(c, k, balance, cap, now)
      BY <2>2, <2>3 DEF Room
    <2> HIDE DEF c, market, cap
    <2>5. Pull(c, k, balance, cap, market, now + 1) = Pull(c, k, balance, cap, market, now)
      BY <2>1, <2>4 DEF Pull
    <2> QED
      BY <2>5 DEF PullAt, c, market, cap
  <1> QED
    BY <1>7, <1>8, <1>9 DEF SweptAt, Swept, SweptPull, PullAt, RemainingAt, planOf

(* The clock moves only with a tick, by one (Clock).                       *)
LEMMA OnlyTicks ==
    ASSUME TypeInv, [Next]_vars, now' # now
    PROVE  now' = now + 1
  <1>1. CASE \E u \in Users, k \in Tokens, balance \in Balances : Sweep(u, k, balance)
    BY <1>1 DEF Sweep
  <1>2. CASE \E u \in Users, p \in Params : Enroll(u, p)
    BY <1>2 DEF Enroll
  <1>3. CASE Harmless
    BY <1>3 DEF Harmless, KeepsCounters
  <1>4. CASE Tick
    BY <1>4 DEF Tick
  <1> QED
    BY <1>1, <1>2, <1>3, <1>4, StepCases

(* A sweep that lands before the boundary its client computed, with no     *)
(* account touched in between, pulls what the client computed, and a       *)
(* client asked again would say the same (getSweepPull,                    *)
(* secondsToNextSweepBoundary).                                            *)
THEOREM ForecastStands == ProgramSpec => PullStands
  <1> DEFINE Kept ==
        now' # now /\ UNCHANGED <<config, user, subscription>> =>
            \A u \in Users, k \in Tokens : now' < nextSweepBoundary(u, k) =>
                \A balance \in Balances :
                    /\ Swept(u, k, balance)' = getSweepPull(u, k, balance)
                    /\ getSweepPull(u, k, balance)' = getSweepPull(u, k, balance)
  <1>1. ProgramInv' => (\A u \in Users, k \in Tokens, balance \in Balances :
                          getSweepPull(u, k, balance) = Swept(u, k, balance))'
    BY ClientMirrors, PTL DEF ProgramInv
  <1>2. ProgramInv /\ ProgramInv' /\ [Next]_vars => Kept
    <2> SUFFICES ASSUME ProgramInv, ProgramInv', [Next]_vars, now' # now,
                        UNCHANGED <<config, user, subscription>>,
                        NEW u \in Users, NEW k \in Tokens, now' < nextSweepBoundary(u, k),
                        NEW balance \in Balances
                 PROVE  /\ Swept(u, k, balance)' = getSweepPull(u, k, balance)
                        /\ getSweepPull(u, k, balance)' = getSweepPull(u, k, balance)
      BY Zenon
    <2>1. now' = now + 1
      BY OnlyTicks DEF ProgramInv
    <2>2. getSweepPull(u, k, balance) = Swept(u, k, balance)
      BY ClientMirrors DEF ProgramInv
    <2>3. getSweepPull(u, k, balance)' = Swept(u, k, balance)'
      BY <1>1
    <2>4. Swept(u, k, balance)' = SweptAt(u, k, balance, now + 1)
      BY <2>1 DEF SweptAt, Swept, MaySweepAt, MaySweep, SweptPull, PullAt, RemainingAt,
                  planOf, Enrolled
    <2>5. SweptAt(u, k, balance, now + 1) = Swept(u, k, balance)
      <3>1. CASE Enrolled(u)
        BY <2>1, <3>1, SweptStands
      <3>2. CASE ~Enrolled(u)
        BY <3>2 DEF SweptAt, Swept, MaySweepAt, MaySweep
      <3> QED
        BY <3>1, <3>2
    <2> QED
      BY <2>2, <2>3, <2>4, <2>5
  <1>3. Spec => [][Kept]_vars
    BY <1>2, ProgramAlways, PTL DEF Spec
  <1> QED
    BY <1>3, ProgramAlone DEF PullStands

-----------------------------------------------------------------------------
(***************************************************************************)
(* The minimum output of a swap is fair.                                   *)
(***************************************************************************)

\* f is the function of n's powers of ten up to the n-th.
Tens(n) == [0..n -> Nat \ {0}]
TensOK(f, n) == f[0] = 1 /\ \A i \in 1..n : f[i] = 10 * f[i - 1]

(* The powers of ten up to any are there (checked_pow).                    *)
LEMMA TensExist == \A n \in Nat : \E f \in Tens(n) : TensOK(f, n)
  <1> DEFINE S == {n \in Nat : ~\E f \in Tens(n) : TensOK(f, n)}
  <1> SUFFICES ASSUME S # {} PROVE FALSE
    OBVIOUS
  <1>1. PICK m \in S : \A n \in S : m <= n
    <2>1. S \in SUBSET Nat
      OBVIOUS
    <2> HIDE DEF S
    <2> QED
      BY <2>1, MinNat
  <1>2. m # 0
    <2> SUFFICES ASSUME m = 0 PROVE FALSE
      OBVIOUS
    <2>1. [i \in 0..0 |-> 1] \in Tens(0) /\ TensOK([i \in 0..0 |-> 1], 0)
      BY DEF Tens, TensOK
    <2> QED
      BY <2>1
  <1>3. m \in Nat /\ m - 1 \in Nat /\ m - 1 \notin S
    BY <1>1, <1>2
  <1>4. PICK f \in Tens(m - 1) : TensOK(f, m - 1)
    BY <1>3
  <1> DEFINE g == [i \in 0..m |-> IF i = m THEN 10 * f[m - 1] ELSE f[i]]
  <1>5. \A i \in 0..(m - 1) : f[i] \in Nat \ {0}
    BY <1>4 DEF Tens
  <1>6. g \in Tens(m)
    BY <1>3, <1>5 DEF Tens
  <1>7. TensOK(g, m)
    <2>1. g[0] = 1
      BY <1>2, <1>3, <1>4 DEF TensOK
    <2>2. ASSUME NEW i \in 1..m PROVE g[i] = 10 * g[i - 1]
      BY <1>3, <1>4 DEF TensOK
    <2> QED
      BY <2>1, <2>2 DEF TensOK
  <1> QED
    BY <1>1, <1>6, <1>7

(* They agree as far as two go.                                            *)
LEMMA TensAgree ==
    ASSUME NEW n \in Nat, NEW m \in Nat, NEW f \in Tens(n), TensOK(f, n),
           NEW g \in Tens(m), TensOK(g, m), NEW i \in 0..n, i <= m
    PROVE  f[i] = g[i]
  <1> DEFINE S == {j \in Nat : j <= n /\ j <= m /\ f[j] # g[j]}
  <1> SUFFICES ASSUME S # {} PROVE FALSE
    OBVIOUS
  <1>1. PICK j \in S : \A l \in S : j <= l
    <2>1. S \in SUBSET Nat
      OBVIOUS
    <2> HIDE DEF S
    <2> QED
      BY <2>1, MinNat
  <1>2. j # 0
    BY <1>1 DEF TensOK
  <1>3. j \in 1..n /\ j \in 1..m /\ j - 1 \in Nat /\ j - 1 \notin S
    BY <1>1, <1>2
  <1>4. f[j - 1] = g[j - 1]
    BY <1>3
  <1>5. f[j] = 10 * f[j - 1] /\ g[j] = 10 * g[j - 1]
    BY <1>3 DEF TensOK
  <1> QED
    BY <1>1, <1>4, <1>5

(* So a power of ten is a positive number, and the one of 0 is 1           *)
(* (checked_pow).                                                          *)
LEMMA PowersOf10 ==
    /\ Pyth!PowerOf10[0] = 1
    /\ \A n \in Nat : Pyth!PowerOf10[n] \in Nat \ {0}
  <1> DEFINE upTo(n) == CHOOSE f \in Tens(n) : TensOK(f, n)
             F == [n \in Nat |-> upTo(n)[n]]
             Def(f) == [n \in Nat |-> IF n = 0 THEN 1 ELSE 10 * f[n - 1]]
             P == Pyth!PowerOf10
  <1>1. \A n \in Nat : upTo(n) \in Tens(n) /\ TensOK(upTo(n), n)
    BY TensExist
  <1> HIDE DEF upTo
  <1>2. F = Def(F)
    <2> SUFFICES ASSUME NEW n \in Nat
                 PROVE  F[n] = IF n = 0 THEN 1 ELSE 10 * F[n - 1]
      OBVIOUS
    <2>1. CASE n = 0
      BY <1>1, <2>1 DEF TensOK
    <2>2. CASE n # 0
      <3>1. n - 1 \in Nat /\ n \in 1..n /\ n - 1 \in 0..n /\ n - 1 <= n - 1
        BY <2>2
      <3>2. upTo(n)[n] = 10 * upTo(n)[n - 1]
        BY <1>1, <3>1 DEF TensOK
      <3>3. upTo(n)[n - 1] = upTo(n - 1)[n - 1]
        BY <1>1, <3>1, TensAgree
      <3> QED
        BY <2>2, <3>1, <3>2, <3>3
    <2> QED
      BY <2>1, <2>2
  <1>3. P = Def(P)
    <2> HIDE DEF F
    <2>1. \E f : f = Def(f)
      BY <1>2, Zenon
    <2>2. P = CHOOSE f : f = Def(f)
      BY Zenon DEF Pyth!PowerOf10
    <2> QED
      BY <2>1, <2>2, Zenon
  <1> HIDE DEF P
  <1>4. P[0] = 1 /\ \A n \in Nat : n # 0 => P[n] = 10 * P[n - 1]
    BY <1>3
  <1> DEFINE S == {n \in Nat : P[n] \notin Nat \ {0}}
  <1>5. S = {}
    <2> SUFFICES ASSUME S # {} PROVE FALSE
      OBVIOUS
    <2>1. PICK m \in S : \A n \in S : m <= n
      <3>1. S \in SUBSET Nat
        OBVIOUS
      <3> HIDE DEF S
      <3> QED
        BY <3>1, MinNat
    <2>2. m \in Nat /\ m # 0 /\ m - 1 \in Nat /\ m - 1 \notin S
      BY <1>4, <2>1
    <2> QED
      BY <1>4, <2>1, <2>2
  <1> QED
    BY <1>4, <1>5 DEF P

(* Multiplying keeps order (checked_mul).                                  *)
LEMMA TimesKeeps ==
    ASSUME NEW a \in Nat, NEW b \in Nat, NEW c \in Nat, a <= b
    PROVE  a * c \in Nat /\ b * c \in Nat /\ a * c <= b * c
  <1>1. PICK d \in Nat : b = a + d
    <2>1. b - a \in Nat /\ b = a + (b - a)
      OBVIOUS
    <2> QED
      BY <2>1
  <1>2. a * c \in Nat /\ d * c \in Nat /\ b * c = a * c + d * c
    BY <1>1
  <1> QED
    BY <1>2

LEMMA TimesStrict ==
    ASSUME NEW a \in Nat, NEW b \in Nat, NEW c \in Nat \ {0}, a < b
    PROVE  a * c < b * c
  <1>1. a + 1 <= b
    OBVIOUS
  <1>2. (a + 1) * c \in Nat /\ b * c \in Nat /\ (a + 1) * c <= b * c
    BY <1>1, TimesKeeps
  <1>3. (a + 1) * c = a * c + c /\ a * c \in Nat
    OBVIOUS
  <1> QED
    BY <1>2, <1>3

(* A quotient is the largest number of times the divisor fits (min_out).   *)
LEMMA Quotient ==
    ASSUME NEW a \in Nat, NEW b \in Nat \ {0}
    PROVE  /\ a \div b \in Nat
           /\ (a \div b) * b <= a /\ a < (a \div b) * b + b
           /\ (a \div b) * b \in Nat
  <1>1. a \div b \in Nat
    BY DivNat
  <1>2. (a \div b) * b <= a
    OBVIOUS
  <1>3. a < (a \div b) * b + b
    OBVIOUS
  <1> QED
    BY <1>1, <1>2, <1>3

LEMMA QuotientKeeps ==
    ASSUME NEW a \in Nat, NEW b \in Nat \ {0}, NEW c \in Nat, a <= c * b
    PROVE  a \div b <= c
  <1> SUFFICES ASSUME ~(a \div b <= c) PROVE FALSE
    OBVIOUS
  <1>1. a \div b \in Nat /\ (a \div b) * b <= a /\ (a \div b) * b \in Nat
    BY Quotient
  <1>2. c < a \div b
    BY <1>1
  <1>3. c * b < (a \div b) * b
    BY <1>1, <1>2, TimesStrict
  <1>4. c * b \in Nat
    OBVIOUS
  <1> QED
    BY <1>1, <1>3, <1>4

Keep == BPS - SLIPPAGE_BPS
Half == ((PRICE_MAX \div 2) * Keep) \div BPS

(* The constants are numbers, and the half that fits is well below what a  *)
(* product can hold.                                                       *)
LEMMA PriceConstants ==
    /\ PRICE_MAX \in Nat \ {0} /\ PRODUCT_MAX \in Nat /\ BPS \in Nat \ {0}
    /\ Keep \in Nat \ {0} /\ Keep <= BPS
    /\ PRICE_MAX * PRICE_MAX \in Nat /\ PRICE_MAX * PRICE_MAX + PRICE_MAX <= PRODUCT_MAX
    /\ Half \in Nat /\ Half <= PRICE_MAX /\ Half * BPS <= (PRICE_MAX \div 2) * Keep
    /\ PRICE_MAX \div 2 \in Nat /\ (PRICE_MAX \div 2) * 2 <= PRICE_MAX
    /\ Half * BPS <= PRODUCT_MAX
  <1>1. /\ PRICE_MAX \in Nat \ {0} /\ PRODUCT_MAX \in Nat /\ BPS \in Nat \ {0}
        /\ BPS <= PRICE_MAX /\ SLIPPAGE_BPS \in Nat /\ SLIPPAGE_BPS < BPS
    BY PricesAssumption
  <1>2. Keep \in Nat \ {0} /\ Keep <= BPS
    BY <1>1 DEF Keep
  <1>3. PRICE_MAX * PRICE_MAX \in Nat /\ PRICE_MAX * PRICE_MAX + PRICE_MAX <= PRODUCT_MAX
    <2>1. PRODUCT_MAX + 1 = (PRICE_MAX + 1) * (PRICE_MAX + 1)
      BY PricesAssumption
    <2>2. (PRICE_MAX + 1) * (PRICE_MAX + 1) = PRICE_MAX * PRICE_MAX + 2 * PRICE_MAX + 1
      BY <1>1
    <2>3. PRICE_MAX * PRICE_MAX \in Nat
      BY <1>1
    <2> QED
      BY <1>1, <2>1, <2>2, <2>3
  <1>4. PRICE_MAX \div 2 \in Nat /\ (PRICE_MAX \div 2) * 2 <= PRICE_MAX
    BY <1>1, Quotient
  <1> DEFINE h == PRICE_MAX \div 2
  <1>5. h * Keep \in Nat /\ Half \in Nat /\ Half * BPS <= h * Keep
    <2>1. h * Keep \in Nat
      BY <1>2, <1>4
    <2> HIDE DEF h
    <2> QED
      BY <1>1, <2>1, Quotient DEF Half, h
  <1>6. Half <= PRICE_MAX
    <2>1. Keep * h <= BPS * h /\ BPS * h \in Nat
      BY <1>1, <1>2, <1>4, TimesKeeps
    <2>2. h * Keep = Keep * h /\ h * BPS = BPS * h
      BY <1>1, <1>2, <1>4
    <2>3. h * Keep <= h * BPS
      BY <2>1, <2>2
    <2>4. (h * Keep) \div BPS <= h
      BY <1>1, <1>4, <1>5, <2>3, QuotientKeeps
    <2>5. h <= PRICE_MAX
      BY <1>1, <1>4
    <2> QED
      BY <1>1, <1>4, <1>5, <2>4, <2>5 DEF Half
  <1>7. Half * BPS <= PRODUCT_MAX
    <2>1. BPS * Half <= PRICE_MAX * Half /\ PRICE_MAX * Half \in Nat
      BY <1>1, <1>5, TimesKeeps
    <2>2. Half * PRICE_MAX <= PRICE_MAX * PRICE_MAX
      BY <1>1, <1>5, <1>6, TimesKeeps
    <2>3. Half * BPS = BPS * Half /\ Half * PRICE_MAX = PRICE_MAX * Half
      BY <1>1, <1>5
    <2> QED
      BY <1>1, <1>3, <1>5, <2>1, <2>2, <2>3
  <1> QED
    BY <1>1, <1>2, <1>3, <1>4, <1>5, <1>6, <1>7

(* Dividing by the price and taking the slippage off, both rounded down,   *)
(* loses less than two units, and overflows only above the half that fits  *)
(* (min_out).                                                              *)
LEMMA RoundedTwice ==
    ASSUME NEW X \in Nat, NEW Y \in Nat \ {0},
           NEW filled, filled = X \div Y, NEW taken, taken = filled * Keep,
           NEW least, least = taken \div BPS
    PROVE  /\ filled \in Nat /\ taken \in Nat /\ least \in Nat
           /\ X * Keep >= least * Y * BPS
           /\ X * Keep < (least + 2) * Y * BPS
           /\ taken > PRODUCT_MAX \/ least > PRICE_MAX => X * Keep > Half * Y * BPS
  <1>1. Keep \in Nat \ {0} /\ BPS \in Nat \ {0} /\ Keep <= BPS
    BY PriceConstants
  <1>2. filled \in Nat /\ filled * Y <= X /\ X < filled * Y + Y /\ filled * Y \in Nat
    BY Quotient
  <1>3. taken \in Nat
    BY <1>1, <1>2
  <1>4. least \in Nat /\ least * BPS <= taken /\ taken < least * BPS + BPS /\ least * BPS \in Nat
    BY <1>1, <1>3, Quotient
  <1>5. taken * Y <= X * Keep /\ taken * Y \in Nat /\ X * Keep \in Nat
    <2>1. (filled * Y) * Keep <= X * Keep /\ X * Keep \in Nat
      BY <1>1, <1>2, TimesKeeps
    <2>2. (filled * Y) * Keep = (filled * Keep) * Y
      BY <1>1, <1>2
    <2>3. taken * Y \in Nat
      BY <1>3
    <2> QED
      BY <2>1, <2>2, <2>3
  <1>6. ASSUME NEW n \in Nat PROVE n * Y * BPS = (n * BPS) * Y /\ (n * BPS) * Y \in Nat
    BY <1>1
  <1>7. X * Keep >= least * Y * BPS
    <2>1. (least * BPS) * Y <= taken * Y
      BY <1>3, <1>4, TimesKeeps
    <2> QED
      BY <1>4, <1>5, <1>6, <2>1
  <1>8. X * Keep < (least + 2) * Y * BPS
    <2>1. X * Keep < (filled * Y + Y) * Keep
      BY <1>1, <1>2, TimesStrict
    <2>2. (filled * Y + Y) * Keep = (taken + Keep) * Y
      BY <1>1, <1>2
    <2>3. (least + 2) * BPS = least * BPS + BPS + BPS
      BY <1>1, <1>4
    <2>4. taken + Keep <= (least + 2) * BPS /\ (least + 2) * BPS \in Nat
      BY <1>1, <1>3, <1>4, <2>3
    <2>5. (taken + Keep) * Y <= ((least + 2) * BPS) * Y
      BY <1>1, <1>3, <2>4, TimesKeeps
    <2>6. (least + 2) * Y * BPS = ((least + 2) * BPS) * Y /\ ((least + 2) * BPS) * Y \in Nat
      BY <1>4, <1>6
    <2>7. (taken + Keep) * Y \in Nat
      BY <1>1, <1>3
    <2> QED
      BY <1>5, <2>1, <2>2, <2>5, <2>6, <2>7
  <1>9. ASSUME taken > PRODUCT_MAX \/ least > PRICE_MAX PROVE X * Keep > Half * Y * BPS
    <2>1. Half \in Nat /\ Half * BPS \in Nat
      BY <1>1, PriceConstants
    <2>2. Half * BPS < taken
      <3>1. CASE taken > PRODUCT_MAX
        BY <1>3, <2>1, <3>1, PriceConstants
      <3>2. CASE least > PRICE_MAX
        <4>1. Half < least
          BY <1>4, <2>1, <3>2, PriceConstants
        <4>2. Half * BPS < least * BPS
          BY <1>1, <1>4, <2>1, <4>1, TimesStrict
        <4> QED
          BY <1>3, <1>4, <2>1, <4>2
      <3> QED
        BY <1>9, <3>1, <3>2
    <2>3. (Half * BPS) * Y < taken * Y
      BY <1>3, <2>1, <2>2, TimesStrict
    <2>4. Half * Y * BPS = (Half * BPS) * Y /\ (Half * BPS) * Y \in Nat
      BY <1>6, <2>1
    <2> QED
      BY <1>5, <2>3, <2>4
  <1> QED
    BY <1>2, <1>3, <1>4, <1>7, <1>8, <1>9

(* A product that does not fit is worth more than the half that fits, at   *)
(* any price (min_out).                                                    *)
LEMMA OverflowIsLarge ==
    ASSUME NEW X \in Nat, X > PRODUCT_MAX, NEW Y \in Nat \ {0}, Y <= 2 * PRICE_MAX
    PROVE  X * Keep > Half * Y * BPS
  <1> DEFINE h == PRICE_MAX \div 2
  <1>1. /\ h \in Nat /\ h * 2 <= PRICE_MAX /\ Half \in Nat /\ Half * BPS <= h * Keep
        /\ Keep \in Nat \ {0} /\ BPS \in Nat \ {0} /\ PRICE_MAX \in Nat
        /\ PRICE_MAX * PRICE_MAX \in Nat /\ PRICE_MAX * PRICE_MAX <= PRODUCT_MAX
        /\ PRODUCT_MAX \in Nat
    BY PriceConstants
  <1> HIDE DEF h
  <1>2. h * Y <= PRICE_MAX * PRICE_MAX /\ h * Y \in Nat
    <2>1. Y * h <= (2 * PRICE_MAX) * h /\ Y * h \in Nat
      BY <1>1, TimesKeeps
    <2>2. (h * 2) * PRICE_MAX <= PRICE_MAX * PRICE_MAX /\ (h * 2) * PRICE_MAX \in Nat
      BY <1>1, TimesKeeps
    <2>3. Y * h = h * Y /\ (2 * PRICE_MAX) * h = (h * 2) * PRICE_MAX
      BY <1>1
    <2> QED
      BY <1>1, <2>1, <2>2, <2>3
  <1>3. (h * Y) * Keep < X * Keep /\ (h * Y) * Keep \in Nat /\ X * Keep \in Nat
    <2>1. h * Y < X
      BY <1>1, <1>2
    <2> QED
      BY <1>1, <1>2, <2>1, TimesStrict
  <1>4. (Half * BPS) * Y <= (h * Keep) * Y /\ (Half * BPS) * Y \in Nat /\ (h * Keep) * Y \in Nat
    <2>1. Half * BPS \in Nat /\ h * Keep \in Nat
      BY <1>1
    <2> QED
      BY <1>1, <2>1, TimesKeeps
  <1>5. Half * Y * BPS = (Half * BPS) * Y /\ (h * Keep) * Y = (h * Y) * Keep
    BY <1>1
  <1> QED
    BY <1>3, <1>4, <1>5

(* An amount is worth less than a unit of what is divided by more than fits*)
(* (min_out).                                                              *)
LEMMA OverflowIsSmall ==
    ASSUME NEW X \in Nat, X <= PRICE_MAX * PRICE_MAX, NEW Y \in Nat, Y > PRODUCT_MAX
    PROVE  X * Keep < 2 * Y * BPS
  <1>1. /\ Keep \in Nat \ {0} /\ BPS \in Nat \ {0} /\ Keep <= BPS
        /\ PRICE_MAX * PRICE_MAX \in Nat /\ PRICE_MAX * PRICE_MAX <= PRODUCT_MAX
        /\ PRODUCT_MAX \in Nat
    BY PriceConstants
  <1>2. X < Y
    BY <1>1
  <1>3. X * BPS < Y * BPS /\ X * BPS \in Nat /\ Y * BPS \in Nat
    BY <1>1, <1>2, TimesStrict
  <1>4. Keep * X <= BPS * X /\ Keep * X \in Nat
    BY <1>1, TimesKeeps
  <1>5. X * Keep = Keep * X /\ X * BPS = BPS * X /\ 2 * Y * BPS = Y * BPS + Y * BPS
    BY <1>1
  <1> QED
    BY <1>3, <1>4, <1>5

\* The quotes a sweep may be made with: no less sure than they are high.
Quotes ==
    {q \in [price : 1..PRICE_MAX, confidence : 0..PRICE_MAX, exponent : Int] :
        q.confidence <= q.price}

\* What is fair to be told, as MinimumIsFair has it.
Fair(amount, p, d, a, e, least) ==
    IF least = Pyth!Refused
    THEN \/ ~Pyth!WorthAtLeast(amount, p, d, a, e, 2)
         \/ Pyth!WorthMore(amount, p, d, a, e, Half)
    ELSE /\ Pyth!WorthAtLeast(amount, p, d, a, e, least)
         /\ ~Pyth!WorthAtLeast(amount, p, d, a, e, least + 2)
         /\ amount > 0 => least > 0

(* Of any two quotes and any decimals, the minimum output is below the     *)
(* amount's worth by less than two units, and refused only where it must   *)
(* be (min_out).                                                           *)
LEMMA FairQuotes ==
    ASSUME NEW p \in Quotes, NEW a \in Quotes, NEW amount \in 0..PRICE_MAX,
           NEW d \in Nat, NEW e \in Nat
    PROVE  Fair(amount, p, d, a, e, Pyth!MinOut(amount, p, d, a, e))
  <1> DEFINE least == Pyth!MinOut(amount, p, d, a, e)
             low == p.price - p.confidence
             high == a.price + a.confidence
             scale == Pyth!Scale(p, d, a, e)
             factor == Pyth!PowerOf10[Pyth!Magnitude(scale)]
             value == amount * low
             X == IF scale >= 0 THEN value * factor ELSE value
             Y == IF scale >= 0 THEN high ELSE high * factor
             filled == X \div Y
             taken == filled * Keep
             out == taken \div BPS
             Overflows == factor > PRODUCT_MAX \/ X > PRODUCT_MAX \/ Y > PRODUCT_MAX
  <1>1. /\ PRICE_MAX \in Nat \ {0} /\ PRODUCT_MAX \in Nat /\ BPS \in Nat \ {0}
        /\ Keep \in Nat \ {0} /\ PRICE_MAX * PRICE_MAX \in Nat
        /\ PRICE_MAX * PRICE_MAX + PRICE_MAX <= PRODUCT_MAX /\ Half \in Nat
    BY PriceConstants
  <1>2. /\ low \in Nat /\ low <= PRICE_MAX /\ high \in Nat \ {0} /\ high <= 2 * PRICE_MAX
        /\ Pyth!Low(p) = low /\ Pyth!High(a) = high /\ amount \in Nat /\ amount <= PRICE_MAX
    BY <1>1 DEF Quotes, Pyth!Low, Pyth!High
  <1>3. scale \in Int /\ scale = p.exponent + e - a.exponent - d
    BY DEF Quotes, Pyth!Scale
  <1>4. /\ factor \in Nat \ {0}
        /\ Pyth!Magnitude(scale) = IF scale >= 0 THEN scale ELSE -scale
    <2>1. Pyth!Magnitude(scale) \in Nat
      BY <1>3 DEF Pyth!Magnitude
    <2> QED
      BY <2>1, PowersOf10 DEF Pyth!Magnitude
  <1>5. /\ scale >= 0 => Pyth!Power10(scale) = factor /\ Pyth!Power10(-scale) = 1
        /\ ~(scale >= 0) => Pyth!Power10(scale) = 1 /\ Pyth!Power10(-scale) = factor
    BY <1>3, <1>4, PowersOf10 DEF Pyth!Power10
  <1>6. value \in Nat /\ value <= PRICE_MAX * PRICE_MAX
    <2>1. amount * low <= PRICE_MAX * low /\ amount * low \in Nat /\ PRICE_MAX * low \in Nat
      BY <1>1, <1>2, TimesKeeps
    <2>2. low * PRICE_MAX <= PRICE_MAX * PRICE_MAX
      BY <1>1, <1>2, TimesKeeps
    <2>3. low * PRICE_MAX = PRICE_MAX * low
      BY <1>1, <1>2
    <2> QED
      BY <1>1, <2>1, <2>2, <2>3
  <1> HIDE DEF least, low, high, scale, factor, value
  <1>7. X \in Nat /\ Y \in Nat \ {0}
    BY <1>2, <1>4, <1>6
  <1>8. ASSUME NEW n \in Nat
        PROVE  /\ Pyth!WorthAtLeast(amount, p, d, a, e, n) <=> X * Keep >= n * Y * BPS
               /\ Pyth!WorthMore(amount, p, d, a, e, n) <=> X * Keep > n * Y * BPS
    <2>1. /\ Pyth!WorthAtLeast(amount, p, d, a, e, n) <=>
               value * Pyth!Power10(scale) * Keep >= n * high * Pyth!Power10(-scale) * BPS
          /\ Pyth!WorthMore(amount, p, d, a, e, n) <=>
               value * Pyth!Power10(scale) * Keep > n * high * Pyth!Power10(-scale) * BPS
      BY <1>3, Zenon DEF Pyth!WorthAtLeast, Pyth!WorthMore, value, low, high, Keep
    <2>2. CASE scale >= 0
      <3>1. value * Pyth!Power10(scale) = X
        BY <1>5, <2>2
      <3>2. n * high * Pyth!Power10(-scale) = n * Y
        BY <1>2, <1>5, <2>2
      <3> QED
        BY <2>1, <3>1, <3>2, Zenon
    <2>3. CASE ~(scale >= 0)
      <3>1. value * Pyth!Power10(scale) = X
        BY <1>5, <1>6, <2>3
      <3>2. n * high * Pyth!Power10(-scale) = n * Y
        BY <1>2, <1>4, <1>5, <2>3
      <3> QED
        BY <2>1, <3>1, <3>2, Zenon
    <2> QED
      BY <2>2, <2>3
  <1>9. /\ Overflows => least = Pyth!Refused
        /\ ~Overflows => least = IF taken > PRODUCT_MAX \/ out > PRICE_MAX \/ (out = 0 /\ amount > 0)
                                 THEN Pyth!Refused ELSE out
    <2> DEFINE f == Pyth!CheckedPow10(Pyth!Magnitude(scale))
               q == IF f = Pyth!Refused THEN Pyth!Refused
                    ELSE IF scale >= 0 THEN Pyth!CheckedDiv(Pyth!CheckedMul(value, f), high)
                    ELSE Pyth!CheckedDiv(value, Pyth!CheckedMul(high, f))
               last == Pyth!CheckedDiv(Pyth!CheckedMul(q, Keep), BPS)
    <2>1. f = IF factor > PRODUCT_MAX THEN Pyth!Refused ELSE factor
      BY Zenon DEF Pyth!CheckedPow10, factor
    <2>2. least = IF last > PRICE_MAX \/ (last = 0 /\ amount > 0) THEN Pyth!Refused ELSE last
      BY <1>2, Zenon DEF least, Pyth!MinOut, scale, value, Keep
    <2>3. filled \in Nat /\ taken \in Nat /\ out \in Nat
      BY <1>7, RoundedTwice
    <2> HIDE DEF f
    <2>4. q = IF Overflows THEN Pyth!Refused ELSE filled
      <3>1. CASE factor > PRODUCT_MAX
        BY <2>1, <3>1
      <3>2. CASE ~(factor > PRODUCT_MAX)
        <4>1. f = factor /\ f # Pyth!Refused
          BY <1>4, <2>1, <3>2 DEF Pyth!Refused
        <4>2. CASE scale >= 0
          <5>1. Pyth!CheckedMul(value, f) = IF X > PRODUCT_MAX THEN Pyth!Refused ELSE X
            BY <1>4, <1>6, <4>1, <4>2 DEF Pyth!CheckedMul, Pyth!Refused
          <5>2. ~(Y > PRODUCT_MAX) /\ Y = high
            BY <1>1, <1>2, <4>2
          <5>3. X > PRODUCT_MAX <=> Overflows
            BY <3>2, <5>2
          <5>4. q = Pyth!CheckedDiv(IF X > PRODUCT_MAX THEN Pyth!Refused ELSE X, Y)
            BY <4>1, <4>2, <5>1, <5>2
          <5> HIDE DEF q, X, Y, Overflows
          <5> QED
            BY <1>7, <5>3, <5>4 DEF Pyth!CheckedDiv, Pyth!Refused
        <4>3. CASE ~(scale >= 0)
          <5>1. Pyth!CheckedMul(high, f) = IF Y > PRODUCT_MAX THEN Pyth!Refused ELSE Y
            BY <1>2, <1>4, <4>1, <4>3 DEF Pyth!CheckedMul, Pyth!Refused
          <5>2. ~(X > PRODUCT_MAX) /\ X = value
            BY <1>1, <1>6, <4>3
          <5>3. Y > PRODUCT_MAX <=> Overflows
            BY <3>2, <5>2
          <5>4. q = Pyth!CheckedDiv(X, IF Y > PRODUCT_MAX THEN Pyth!Refused ELSE Y)
            BY <4>1, <4>3, <5>1, <5>2
          <5> HIDE DEF q, X, Y, Overflows
          <5> QED
            BY <1>7, <5>3, <5>4 DEF Pyth!CheckedDiv, Pyth!Refused
        <4> QED
          BY <4>2, <4>3
      <3> QED
        BY <3>1, <3>2
    <2> HIDE DEF q, filled, Overflows
    <2>5. Pyth!CheckedMul(q, Keep) = IF Overflows \/ taken > PRODUCT_MAX THEN Pyth!Refused
                                     ELSE taken
      BY <1>1, <2>3, <2>4 DEF Pyth!CheckedMul, Pyth!Refused
    <2> HIDE DEF taken
    <2>6. last = IF Overflows \/ taken > PRODUCT_MAX THEN Pyth!Refused ELSE out
      BY <1>1, <2>3, <2>5 DEF Pyth!CheckedDiv, Pyth!Refused
    <2> HIDE DEF last, out
    <2> QED
      BY <1>1, <2>2, <2>3, <2>6 DEF Pyth!Refused
  <1>10. CASE Overflows
    <2>1. least = Pyth!Refused
      BY <1>9, <1>10
    <2>2. ~Pyth!WorthAtLeast(amount, p, d, a, e, 2) \/ Pyth!WorthMore(amount, p, d, a, e, Half)
      <3>1. CASE ~(scale >= 0)
        <4>1. Y > PRODUCT_MAX /\ X = value
          <5>1. CASE factor > PRODUCT_MAX
            <6>1. 1 * factor <= high * factor /\ high * factor \in Nat
              BY <1>2, <1>4, TimesKeeps
            <6> QED
              BY <1>1, <1>4, <3>1, <5>1, <6>1
          <5>2. CASE ~(factor > PRODUCT_MAX)
            BY <1>1, <1>6, <1>10, <3>1, <5>2
          <5> QED
            BY <5>1, <5>2
        <4>2. X * Keep < 2 * Y * BPS
          BY <1>6, <1>7, <4>1, OverflowIsSmall
        <4>3. ~(X * Keep >= 2 * Y * BPS)
          <5>1. X * Keep \in Nat /\ 2 * Y * BPS \in Nat
            BY <1>1, <1>7
          <5> QED
            BY <4>2, <5>1
        <4> HIDE DEF X, Y
        <4> QED
          BY <1>8, <4>3
      <3>2. CASE scale >= 0 /\ value = 0
        <4>1. X = 0 /\ Y = high
          BY <1>4, <3>2
        <4>2. ~(X * Keep >= 2 * Y * BPS)
          <5>1. 2 * Y * BPS \in Nat \ {0} /\ 0 * Keep = 0
            BY <1>1, <1>7
          <5> QED
            BY <4>1, <5>1
        <4> HIDE DEF X, Y
        <4> QED
          BY <1>8, <4>2
      <3>3. CASE scale >= 0 /\ value # 0
        <4>1. X > PRODUCT_MAX /\ Y = high
          <5>1. CASE factor > PRODUCT_MAX
            <6>1. 1 * factor <= value * factor /\ value * factor \in Nat
              BY <1>4, <1>6, <3>3, TimesKeeps
            <6> QED
              BY <1>1, <1>4, <3>3, <5>1, <6>1
          <5>2. CASE ~(factor > PRODUCT_MAX)
            BY <1>1, <1>2, <1>10, <3>3, <5>2
          <5> QED
            BY <3>3, <5>1, <5>2
        <4>2. X * Keep > Half * Y * BPS
          BY <1>2, <1>7, <4>1, OverflowIsLarge
        <4> HIDE DEF X, Y
        <4> QED
          BY <1>1, <1>8, <4>2
      <3> QED
        BY <3>1, <3>2, <3>3
    <2> QED
      BY <2>1, <2>2 DEF Fair, least
  <1>11. CASE ~Overflows
    <2>1. /\ filled \in Nat /\ taken \in Nat /\ out \in Nat
          /\ X * Keep >= out * Y * BPS
          /\ X * Keep < (out + 2) * Y * BPS
          /\ taken > PRODUCT_MAX \/ out > PRICE_MAX => X * Keep > Half * Y * BPS
      BY <1>7, RoundedTwice
    <2>2. least = IF taken > PRODUCT_MAX \/ out > PRICE_MAX \/ (out = 0 /\ amount > 0)
                  THEN Pyth!Refused ELSE out
      BY <1>9, <1>11
    <2> HIDE DEF X, Y, out, taken, filled
    <2>3. X * Keep \in Nat /\ (out + 2) * Y * BPS \in Nat /\ out * Y * BPS \in Nat
      BY <1>1, <1>7, <2>1
    <2>4. ~(X * Keep >= (out + 2) * Y * BPS)
      BY <2>1, <2>3
    <2>5. /\ Pyth!WorthAtLeast(amount, p, d, a, e, out)
          /\ ~Pyth!WorthAtLeast(amount, p, d, a, e, out + 2)
      BY <1>8, <2>1, <2>4
    <2>6. taken > PRODUCT_MAX \/ out > PRICE_MAX => Pyth!WorthMore(amount, p, d, a, e, Half)
      BY <1>1, <1>8, <2>1
    <2>7. out = 0 => ~Pyth!WorthAtLeast(amount, p, d, a, e, 2)
      BY <2>5
    <2>8. out # Pyth!Refused
      BY <2>1 DEF Pyth!Refused
    <2>9. CASE least = Pyth!Refused
      BY <2>2, <2>6, <2>7, <2>8, <2>9 DEF Fair, least
    <2>10. CASE least # Pyth!Refused
      <3>1. least = out /\ ~(out = 0 /\ amount > 0)
        BY <2>2, <2>10
      <3> QED
        BY <1>2, <2>1, <2>5, <2>10, <3>1 DEF Fair, least
    <2> QED
      BY <2>9, <2>10
  <1> HIDE DEF Overflows
  <1> QED
    BY <1>10, <1>11

\* What the feeds say is what feeds can say.
FeedOK(f) == f.price \in Prices /\ f.confidence \in Confidences /\ f.exponent \in Exponents
FeedsInv == FeedOK(payment) /\ FeedOK(asset)

LEMMA FeedsAlways == ProgramSpec => []FeedsInv
  <1>1. \A f \in Pyth!Feeds : FeedOK(f)
    BY DEF Pyth!Feeds, FeedOK
  <1>2. ProgramInit => FeedsInv
    BY <1>1 DEF ProgramInit, Pyth!Init, FeedsInv
  <1>3. FeedsInv /\ [ProgramNext]_<<part, vars, sessions, prices>> => FeedsInv'
    <2> SUFFICES ASSUME FeedsInv, [ProgramNext]_<<part, vars, sessions, prices>>
                 PROVE  FeedOK(payment') /\ FeedOK(asset')
      BY DEF FeedsInv, FeedOK
    <2>1. CASE UNCHANGED prices
      BY <2>1 DEF FeedsInv, prices
    <2>2. CASE Pyth!Next
      <3>1. CASE \E f \in Pyth!Feeds : Pyth!PublishPayment(f)
        BY <1>1, <3>1 DEF Pyth!PublishPayment, FeedsInv
      <3>2. CASE \E f \in Pyth!Feeds : Pyth!PublishAsset(f)
        BY <1>1, <3>2 DEF Pyth!PublishAsset, FeedsInv
      <3>3. CASE Pyth!Tick
        BY <3>3 DEF Pyth!Tick, FeedsInv
      <3> QED
        BY <2>2, <3>1, <3>2, <3>3 DEF Pyth!Next
    <2> QED
      BY <2>1, <2>2 DEF ProgramNext
  <1> QED
    BY <1>2, <1>3, PTL DEF ProgramSpec

(* A quote that is accepted is no less sure than it is high, and so is the *)
(* dollar (quote).                                                         *)
LEMMA QuotesAccepted ==
    /\ Pyth!DOLLAR \in Quotes
    /\ \A f : FeedOK(f) /\ Pyth!Quotable(f, time) => Pyth!QuoteOf(f) \in Quotes
  <1>1. Pyth!DOLLAR \in Quotes
    BY PriceConstants DEF Pyth!DOLLAR, Quotes
  <1>2. ASSUME NEW f, FeedOK(f), Pyth!Quotable(f, time) PROVE Pyth!QuoteOf(f) \in Quotes
    <2>1. /\ f.price \in 0..PRICE_MAX /\ f.confidence \in 0..PRICE_MAX /\ f.exponent \in Int
          /\ f.price > 0 /\ f.confidence * BPS <= f.price * MAX_CONFIDENCE_BPS
      BY <1>2, PricesAssumption DEF FeedOK, Pyth!Quotable
    <2> DEFINE price == f.price
               confidence == f.confidence
    <2>2. /\ price \in Nat /\ confidence \in Nat /\ BPS \in Nat \ {0}
          /\ MAX_CONFIDENCE_BPS \in Nat /\ MAX_CONFIDENCE_BPS <= BPS
          /\ confidence * BPS <= price * MAX_CONFIDENCE_BPS
      BY <2>1, PriceConstants, PricesAssumption
    <2> HIDE DEF price, confidence
    <2>3. MAX_CONFIDENCE_BPS * price <= BPS * price
      BY <2>2, TimesKeeps
    <2>4. /\ price * MAX_CONFIDENCE_BPS = MAX_CONFIDENCE_BPS * price /\ price * BPS = BPS * price
          /\ price * BPS \in Nat /\ confidence * BPS \in Nat /\ price * MAX_CONFIDENCE_BPS \in Nat
      BY <2>2
    <2>5. confidence <= price
      <3> SUFFICES ASSUME price < confidence PROVE FALSE
        BY <2>2
      <3>1. price * BPS < confidence * BPS
        BY <2>2, TimesStrict
      <3> QED
        BY <2>2, <2>3, <2>4, <3>1
    <2> QED
      BY <2>1, <2>5 DEF Pyth!QuoteOf, Quotes, price, confidence
  <1> QED
    BY <1>1, <1>2

(* The minimum a sweep asks of its swap is fair, whatever the feeds say,   *)
(* for any width of prices and of their products, any confidence and       *)
(* slippage, any exponents and decimals: rounded down twice and no more,   *)
(* and refused only where it would be below two units or above half of     *)
(* what an amount can hold (min_out, quote).                               *)
THEOREM MinimumFair == ProgramSpec => []MinimumIsFair
  <1>1. FeedsInv => MinimumIsFair
    <2> SUFFICES ASSUME FeedsInv PROVE Pyth!MinimumIsFair
      BY DEF MinimumIsFair
    <2>1. Pyth!Payments \subseteq Quotes /\ Pyth!Assets \subseteq Quotes
      BY QuotesAccepted DEF FeedsInv, Pyth!Payments, Pyth!Assets
    <2>2. Amounts \subseteq 0..PRICE_MAX /\ Decimals \subseteq Nat
      BY PricesAssumption
    <2>3. \A p \in Pyth!Payments, a \in Pyth!Assets, amount \in Amounts, d, e \in Decimals :
              Fair(amount, p, d, a, e, Pyth!MinOut(amount, p, d, a, e))
      BY <2>1, <2>2, FairQuotes
    <2> QED
      BY <2>3 DEF Pyth!MinimumIsFair, Fair, Half, Keep
  <1> QED
    BY <1>1, FeedsAlways, PTL

-----------------------------------------------------------------------------
(***************************************************************************)
(* The program's sessions are the NYSE's.                                  *)
(***************************************************************************)

(* The days at which years and their months start, without the centuries:  *)
(* between 1970 and 2099 every fourth year is a leap year.                 *)
LEMMA YearStart ==
    ASSUME NEW y \in Nat, 1970 <= y, y <= 2100
    PROVE  Nyse!DayNumber(y, 1, 1) = 365 * (y - 1970) + ((y - 1) \div 4) - 492
  BY DEF Nyse!DayNumber, Nyse!DaysBefore

LEMMA MonthStart ==
    ASSUME NEW y \in Nat, 1969 <= y, y <= 2099
    PROVE  /\ Nyse!DayNumber(y, 3, 1) = 365 * (y - 1970) + (y \div 4) - 433
           /\ Nyse!DayNumber(y, 11, 1) = Nyse!DayNumber(y, 3, 1) + 245
  <1>1. Nyse!LeapYear(y) <=> y % 4 = 0
    BY DEF Nyse!LeapYear
  <1>2. Nyse!DaysBefore[3] = 59 /\ Nyse!DaysBefore[11] = 304
    BY DEF Nyse!DaysBefore
  <1>3. ((y - 1) \div 4) - ((y - 1) \div 100) + ((y - 1) \div 400) - 477 = ((y - 1) \div 4) - 492
    OBVIOUS
  <1>4. (y \div 4) = ((y - 1) \div 4) + (IF y % 4 = 0 THEN 1 ELSE 0)
    OBVIOUS
  <1> QED
    BY <1>1, <1>2, <1>3, <1>4 DEF Nyse!DayNumber

LEMMA DayOfMonth ==
    ASSUME NEW y \in Nat, NEW m \in {3, 11}
    PROVE  /\ Nyse!DayNumber(y, m, 1) \in Int
           /\ \A d \in Int : Nyse!DayNumber(y, m, d) = Nyse!DayNumber(y, m, 1) + d - 1
  <1>1. Nyse!DaysBefore[m] \in Int
    BY DEF Nyse!DaysBefore
  <1> QED
    BY <1>1 DEF Nyse!DayNumber

\* A day of the year y.
DayOfYear(days, y) ==
    /\ y \in Nat /\ 1970 <= y /\ y <= 2099
    /\ Nyse!DayNumber(y, 1, 1) <= days /\ days < Nyse!DayNumber(y + 1, 1, 1)

LEMMA YearBounds ==
    ASSUME NEW days \in Int, NEW y \in Nat, 1970 <= y, y <= 2099
    PROVE  DayOfYear(days, y) <=>
              /\ 365 * (y - 1970) + ((y - 1) \div 4) - 492 <= days
              /\ days < 365 * (y - 1969) + (y \div 4) - 492
  <1>1. Nyse!DayNumber(y, 1, 1) = 365 * (y - 1970) + ((y - 1) \div 4) - 492
    BY YearStart
  <1>2. Nyse!DayNumber(y + 1, 1, 1) = 365 * (y + 1 - 1970) + ((y + 1 - 1) \div 4) - 492
    BY YearStart
  <1>3. y + 1 - 1970 = y - 1969 /\ y + 1 - 1 = y
    OBVIOUS
  <1> QED
    BY <1>1, <1>2, <1>3 DEF DayOfYear

(* Every day until the end of 2099 is in one of the years.                 *)
LEMMA YearFound ==
    ASSUME NEW days \in Nat, days < Nyse!DayNumber(2100, 1, 1)
    PROVE  \E y \in Nat : DayOfYear(days, y)
  <1> DEFINE n == (4 * days + 2) \div 1461
  <1>1. n \in Nat /\ 365 * n + ((n + 1) \div 4) <= days /\ days < 365 * (n + 1) + ((n + 2) \div 4)
    OBVIOUS
  <1>2. days < 47482
    BY YearStart
  <1>3. n + 1970 <= 2099
    BY <1>1, <1>2
  <1> HIDE DEF n
  <1>4. PICK y \in Nat : y = n + 1970
    BY <1>1
  <1>5. DayOfYear(days, y)
    BY <1>1, <1>3, <1>4, YearBounds
  <1> QED
    BY <1>5

(* The year of an instant is the one its UTC day is in.                    *)
LEMMA YearOfInstant ==
    ASSUME NEW t \in Nat, NEW y, DayOfYear(t \div Nyse!DAY, y)
    PROVE  Nyse!YearOf(t) = y
  <1> DEFINE In(z) ==
          t \in (Nyse!DayNumber(z, 1, 1) * Nyse!DAY)..((Nyse!DayNumber(z + 1, 1, 1) * Nyse!DAY) - 1)
  <1>1. t \div Nyse!DAY \in Int
    BY DEF Nyse!DAY, Nyse!HOUR
  <1>2. ASSUME NEW z \in Nat, 1970 <= z, z <= 2099 PROVE In(z) <=> DayOfYear(t \div Nyse!DAY, z)
    <2> DEFINE a == Nyse!DayNumber(z, 1, 1)
               b == Nyse!DayNumber(z + 1, 1, 1)
    <2>1. a \in Int /\ b \in Int
      BY <1>2, YearStart
    <2> HIDE DEF a, b
    <2>2. t \in (a * 86400)..((b * 86400) - 1) <=> a <= t \div 86400 /\ t \div 86400 < b
      BY <2>1
    <2> QED
      BY <1>2, <2>2 DEF DayOfYear, a, b, Nyse!DAY, Nyse!HOUR
  <1>3. \A z \in 1970..2099 : In(z) <=> DayOfYear(t \div Nyse!DAY, z)
    BY <1>2
  <1> HIDE DEF In
  <1>4. ASSUME NEW z \in Nat, DayOfYear(t \div Nyse!DAY, z) PROVE z = y
    <2>1. y \in Nat /\ 1970 <= y /\ y <= 2099 /\ 1970 <= z /\ z <= 2099
      BY <1>4 DEF DayOfYear
    <2> QED
      BY <1>1, <1>4, <2>1, YearBounds
  <1>5. y \in 1970..2099 /\ In(y)
    BY <1>3 DEF DayOfYear
  <1>6. \A z \in 1970..2099 : In(z) => z = y
    BY <1>3, <1>4
  <1>7. Nyse!YearOf(t) = CHOOSE z \in 1970..2099 : In(z)
    BY DEF Nyse!YearOf, In
  <1> QED
    BY <1>5, <1>6, <1>7

\* The date of a day of the year that starts in March, counted from 0.
DateAt(doy) ==
    [day |-> doy - ((153 * ((5 * doy + 2) \div 153) + 2) \div 5) + 1,
     month |-> IF (5 * doy + 2) \div 153 < 10
               THEN ((5 * doy + 2) \div 153) + 3 ELSE ((5 * doy + 2) \div 153) - 9]

(* The date of a day from its place in a year that starts in March, in     *)
(* both of the cycles of 400 years a day may be in (civil_from_days).      *)
LEMMA DateOf ==
    ASSUME NEW days \in Nat, days < 47482, NEW y \in Nat, 1969 <= y, y <= 2099,
           NEW doy \in Nat, doy <= 365, doy = 365 => y % 4 = 3,
           days = 365 * (y - 1970) + (y \div 4) - 433 + doy
    PROVE  Nyse!MonthDay(days) = DateAt(doy)
  <1> DEFINE doe == (days + 719468) % 146097
             yoe == (doe - (doe \div 1460) + (doe \div 36524) - (doe \div 146096)) \div 365
             n == doe - (365 * yoe + (yoe \div 4) - (yoe \div 100))
  <1>1. n = doy
    <2>1. CASE y <= 1999
      <3>1. PICK c \in Nat : y = c + 1600
        <4>1. y - 1600 \in Nat /\ y = (y - 1600) + 1600
          BY <2>1
        <4> QED
          BY <4>1
      <3>2. PICK d \in Nat : d = 365 * c + (c \div 4) - 3 + doy
        BY <3>1
      <3>3. /\ 369 <= c /\ c <= 399 /\ (y \div 4) = (c \div 4) + 400 /\ (doy = 365 => c % 4 = 3)
        BY <2>1, <3>1
      <3>4. d < 146097 /\ days + 719468 = 4 * 146097 + d
        BY <3>1, <3>2, <3>3
      <3>5. doe = d
        BY <3>4
      <3>6. ((d - (d \div 1460) + (d \div 36524) - (d \div 146096)) \div 365) = c
        BY <3>2, <3>3
      <3>7. d - (365 * c + (c \div 4) - (c \div 100)) = doy
        BY <3>2, <3>3
      <3> QED
        BY <3>5, <3>6, <3>7
    <2>2. CASE y >= 2000
      <3>1. PICK c \in Nat : y = c + 2000
        <4>1. y - 2000 \in Nat /\ y = (y - 2000) + 2000
          BY <2>2
        <4> QED
          BY <4>1
      <3>2. PICK d \in Nat : d = 365 * c + (c \div 4) + doy
        BY <3>1
      <3>3. /\ c <= 99 /\ (y \div 4) = (c \div 4) + 500 /\ (doy = 365 => c % 4 = 3)
        BY <2>2, <3>1
      <3>4. d < 36524 /\ days + 719468 = 5 * 146097 + d
        BY <3>1, <3>2, <3>3
      <3>5. doe = d
        BY <3>4
      <3>6. ((d - (d \div 1460) + (d \div 36524) - (d \div 146096)) \div 365) = c
        <4>1. (d \div 36524) = 0 /\ (d \div 146096) = 0
          BY <3>4
        <4>2. ((d - (d \div 1460)) \div 365) = c
          BY <3>2, <3>3
        <4>3. d - (d \div 1460) + 0 - 0 = d - (d \div 1460)
          OBVIOUS
        <4> QED
          BY <4>1, <4>2, <4>3
      <3>7. d - (365 * c + (c \div 4) - (c \div 100)) = doy
        BY <3>2, <3>3
      <3> QED
        BY <3>5, <3>6, <3>7
    <2> QED
      BY <2>1, <2>2
  <1>2. Nyse!MonthDay(days) = DateAt(n)
    BY SMT DEF Nyse!MonthDay, DateAt
  <1> HIDE DEF n
  <1> QED
    BY <1>1, <1>2

(* Which days of that year are in March, which between April and October,  *)
(* which in November; the first 306 are of the civil year it starts in.    *)
LEMMA MonthsOfYear ==
    ASSUME NEW doy \in Nat, doy <= 365, NEW date, date = DateAt(doy)
    PROVE  /\ date.month = 3 <=> doy <= 30
           /\ date.month \in 4..10 <=> 31 <= doy /\ doy <= 244
           /\ date.month = 11 <=> 245 <= doy /\ doy <= 274
           /\ date.month = 3 => date.day = doy + 1
           /\ date.month = 11 => date.day = doy - 244
  <1> DEFINE mp == (5 * doy + 2) \div 153
  <1>1. /\ mp \in Nat /\ mp <= 11
        /\ mp = 0 <=> doy <= 30
        /\ 1 <= mp /\ mp <= 7 <=> 31 <= doy /\ doy <= 244
        /\ mp = 8 <=> 245 <= doy /\ doy <= 274
    OBVIOUS
  <1>2. /\ date.month = IF mp < 10 THEN mp + 3 ELSE mp - 9
        /\ date.day = doy - ((153 * mp + 2) \div 5) + 1
    BY DEF DateAt
  <1> HIDE DEF mp
  <1>3. mp = 0 => date.day = doy + 1
    BY <1>2
  <1>4. mp = 8 => date.day = doy - 244
    BY <1>2
  <1>5. /\ date.month = 3 <=> mp = 0
        /\ date.month \in 4..10 <=> 1 <= mp /\ mp <= 7
        /\ date.month = 11 <=> mp = 8
    BY <1>1, <1>2
  <1> QED
    BY <1>1, <1>3, <1>4, <1>5

LEMMA DayNames ==
    ASSUME NEW days \in Int
    PROVE  /\ Nyse!IsSunday(days) <=> Nyse!Weekday(days) = 0
           /\ Nyse!IsSaturday(days) <=> Nyse!Weekday(days) = 6
           /\ Nyse!IsSaturday(days) <=> Nyse!IsSunday(days + 1)
  <1>1. Nyse!DayNumber(2023, 1, 1) = 19358
    BY YearStart
  <1>2. \A d \in Int : Nyse!IsSunday(d) <=> (d - 19358) % 7 = 0
    BY <1>1 DEF Nyse!IsSunday
  <1>3. /\ Nyse!IsSunday(days) <=> (days - 19358) % 7 = 0
        /\ Nyse!IsSunday(days + 1) <=> (days + 1 - 19358) % 7 = 0
    BY <1>2
  <1>4. /\ (days - 19358) % 7 = 0 <=> (days + 4) % 7 = 0
        /\ (days + 1 - 19358) % 7 = 0 <=> (days + 4) % 7 = 6
    OBVIOUS
  <1> QED
    BY <1>3, <1>4 DEF Nyse!IsSaturday, Nyse!Weekday

\* The day of the month of the first Sunday of a month, from the month's first.
SundayFrom(first) == 1 + ((7 - ((first + 4) % 7)) % 7)

(* The first Sunday of a month is the only one in its first week.          *)
LEMMA FirstSundays ==
    ASSUME NEW y \in Nat, NEW m \in {3, 11}, NEW first, first = Nyse!DayNumber(y, m, 1)
    PROVE  /\ first \in Int /\ SundayFrom(first) \in 1..7
           /\ Nyse!FirstSunday(y, m) = SundayFrom(first)
           /\ Nyse!IsSunday(first + SundayFrom(first) - 1)
  <1>1. first \in Int
    BY DayOfMonth
  <1> DEFINE s == SundayFrom(first)
  <1>2. s \in 1..7 /\ (first + s - 1 + 4) % 7 = 0
    BY <1>1 DEF SundayFrom
  <1>3. \A d \in 1..7 : (first + d - 1 + 4) % 7 = 0 => d = s
    BY <1>1 DEF SundayFrom
  <1> HIDE DEF s
  <1>4. \A d \in Int : Nyse!IsSunday(Nyse!DayNumber(y, m, d)) <=> (first + d - 1 + 4) % 7 = 0
    <2> SUFFICES ASSUME NEW d \in Int
                 PROVE  Nyse!IsSunday(Nyse!DayNumber(y, m, d)) <=> (first + d - 1 + 4) % 7 = 0
      OBVIOUS
    <2>1. Nyse!DayNumber(y, m, d) = first + d - 1
      BY DayOfMonth
    <2> QED
      BY <1>1, <2>1, DayNames DEF Nyse!Weekday
  <1>5. Nyse!MonthLength(y, m) \in {30, 31}
    BY DEF Nyse!MonthLength
  <1>6. s \in Nyse!Sundays(y, m)
    BY <1>2, <1>4, <1>5 DEF Nyse!Sundays
  <1>7. \A d \in Nyse!Sundays(y, m) : s <= d
    BY <1>2, <1>3, <1>4, <1>5 DEF Nyse!Sundays
  <1>8. \A d \in Nyse!Sundays(y, m) : (\A e \in Nyse!Sundays(y, m) : d <= e) => d = s
    <2>1. \A d \in Nyse!Sundays(y, m) : d \in Int
      BY <1>5 DEF Nyse!Sundays
    <2> QED
      BY <1>2, <1>6, <1>7, <2>1
  <1>9. Nyse!FirstSunday(y, m) = s
    BY <1>6, <1>7, <1>8 DEF Nyse!FirstSunday
  <1> QED
    BY <1>1, <1>2, <1>9, DayNames DEF s, Nyse!Weekday

\* The days New York's clocks change on in the year whose March starts on first.
Spring(first) == first + SundayFrom(first) + 6
Fall(first) == first + 245 + SundayFrom(first + 245) - 1

(* The program takes daylight time for the days from the second Sunday of  *)
(* March to the day before the first of November (us_daylight_time).       *)
LEMMA DaylightDays ==
    ASSUME NEW days \in Nat, NEW y, DayOfYear(days, y), NEW first, first = Nyse!DayNumber(y, 3, 1)
    PROVE  Nyse!UsDaylightTime(days) <=> Spring(first) <= days /\ days < Fall(first)
  <1>1. /\ y \in Nat /\ 1970 <= y /\ y <= 2099
        /\ 365 * (y - 1970) + ((y - 1) \div 4) - 492 <= days
        /\ days < 365 * (y - 1969) + (y \div 4) - 492
    BY YearBounds DEF DayOfYear
  <1>2. first = 365 * (y - 1970) + (y \div 4) - 433
    BY <1>1, MonthStart
  <1>3. days < 47482 /\ first \in Int
    BY <1>1, <1>2
  <1>4. \A f \in Int : SundayFrom(f) \in Int /\ 1 <= SundayFrom(f) /\ SundayFrom(f) <= 7
    BY DEF SundayFrom
  <1>5. \A f \in Int : ((Nyse!Weekday(days)) - (days - f)) % 7 = (f + 4) % 7
    BY DEF Nyse!Weekday
  <1>6. CASE first <= days
    <2>1. PICK doy \in Nat : days = first + doy
      <3>1. days - first \in Nat /\ days = first + (days - first)
        BY <1>3, <1>6
      <3> QED
        BY <3>1
    <2>2. doy <= 305
      BY <1>1, <1>2, <2>1
    <2> DEFINE date == Nyse!MonthDay(days)
    <2>3. date = DateAt(doy)
      <3>1. days = 365 * (y - 1970) + (y \div 4) - 433 + doy /\ 1969 <= y /\ doy <= 365 /\ doy # 365
        BY <1>1, <1>2, <2>1, <2>2
      <3> QED
        BY <1>1, <1>3, <3>1, DateOf
    <2> HIDE DEF date
    <2>4. /\ date.month = 3 <=> doy <= 30
          /\ date.month \in 4..10 <=> 31 <= doy /\ doy <= 244
          /\ date.month = 11 <=> 245 <= doy /\ doy <= 274
          /\ date.month = 3 => date.day = doy + 1
          /\ date.month = 11 => date.day = doy - 244
      BY <2>2, <2>3, MonthsOfYear
    <2> DEFINE sunday == 1 + ((7 - ((Nyse!Weekday(days) - (date.day - 1)) % 7)) % 7)
    <2>5. Nyse!UsDaylightTime(days) <=>
             \/ date.month \in 4..10
             \/ date.month = 3 /\ date.day >= sunday + 7
             \/ date.month = 11 /\ date.day < sunday
      BY DEF Nyse!UsDaylightTime, date
    <2>6. date.month = 3 => sunday = SundayFrom(first)
      <3> SUFFICES ASSUME date.month = 3 PROVE sunday = SundayFrom(first)
        OBVIOUS
      <3>1. date.day - 1 = days - first
        BY <1>3, <2>1, <2>4
      <3>2. (Nyse!Weekday(days) - (date.day - 1)) % 7 = (first + 4) % 7
        BY <1>3, <1>5, <3>1
      <3> QED
        BY <3>2 DEF SundayFrom
    <2>7. date.month = 11 => sunday = SundayFrom(first + 245)
      <3> SUFFICES ASSUME date.month = 11 PROVE sunday = SundayFrom(first + 245)
        OBVIOUS
      <3>1. PICK f \in Int : f = first + 245
        BY <1>3
      <3>2. date.day - 1 = days - f
        BY <1>3, <2>1, <2>4, <3>1
      <3>3. (Nyse!Weekday(days) - (date.day - 1)) % 7 = (f + 4) % 7
        BY <1>5, <3>2
      <3>4. sunday = SundayFrom(f)
        BY <3>3 DEF SundayFrom
      <3> QED
        BY <3>1, <3>4
    <2> HIDE DEF sunday
    <2>8. /\ SundayFrom(first) \in Int /\ 1 <= SundayFrom(first) /\ SundayFrom(first) <= 7
          /\ SundayFrom(first + 245) \in Int
          /\ 1 <= SundayFrom(first + 245) /\ SundayFrom(first + 245) <= 7
      BY <1>3, <1>4
    <2> DEFINE s == SundayFrom(first)
               n == SundayFrom(first + 245)
    <2>9. Spring(first) = first + s + 6 /\ Fall(first) = first + 245 + n - 1
      BY DEF Spring, Fall
    <2> HIDE DEF s, n
    <2>10. CASE doy <= 30
      BY <1>3, <2>1, <2>4, <2>5, <2>6, <2>8, <2>9, <2>10 DEF s, n
    <2>11. CASE 31 <= doy /\ doy <= 244
      BY <1>3, <2>1, <2>4, <2>5, <2>8, <2>9, <2>11 DEF s, n
    <2>12. CASE 245 <= doy /\ doy <= 274
      BY <1>3, <2>1, <2>4, <2>5, <2>7, <2>8, <2>9, <2>12 DEF s, n
    <2>13. CASE 275 <= doy
      BY <1>3, <2>1, <2>4, <2>5, <2>8, <2>9, <2>13 DEF s, n
    <2> QED
      BY <2>10, <2>11, <2>12, <2>13
  <1>7. CASE days < first
    <2>1. PICK z \in Nat : y = z + 1
      <3>1. y - 1 \in Nat /\ y = (y - 1) + 1
        BY <1>1
      <3> QED
        BY <3>1
    <2>2. PICK doy \in Nat : days = 365 * (z - 1970) + (z \div 4) - 433 + doy
      <3>1. days - (365 * (z - 1970) + (z \div 4) - 433) \in Nat
        BY <1>1, <2>1
      <3> QED
        BY <3>1
    <2>3. 306 <= doy /\ doy <= 365 /\ (doy = 365 => z % 4 = 3)
      BY <1>1, <1>2, <1>7, <2>1, <2>2
    <2> DEFINE date == Nyse!MonthDay(days)
    <2>4. date = DateAt(doy)
      BY <1>1, <1>3, <2>1, <2>2, <2>3, DateOf
    <2> HIDE DEF date
    <2>5. date.month # 3 /\ date.month \notin 4..10 /\ date.month # 11
      BY <2>3, <2>4, MonthsOfYear
    <2>6. ~Nyse!UsDaylightTime(days)
      BY <2>5 DEF Nyse!UsDaylightTime, date
    <2>7. days < Spring(first)
      BY <1>3, <1>4, <1>7 DEF Spring
    <2> QED
      BY <1>3, <1>4, <2>6, <2>7 DEF Spring
  <1> QED
    BY <1>3, <1>6, <1>7

(* The closures are the days of the lists, from the calendar's first on.   *)
LEMMA ClosuresKept ==
    ASSUME NEW list \in Seq(Int), NEW first \in Int, NEW days \in Int, days >= first
    PROVE  days - first \in Nyse!Bits(list, first) <=> days \in Nyse!Range(list)
  <1>1. \A d \in Nyse!Range(list) : d \in Int
    BY DEF Nyse!Range
  <1>2. \A d \in Int : d - first = days - first => d = days
    OBVIOUS
  <1> QED
    BY <1>1, <1>2 DEF Nyse!Bits

(* The days New York's clocks change on are Sundays, and its time at an    *)
(* instant is four hours behind from the second hour of the one, in        *)
(* standard time, to that of the other, in daylight time.                  *)
LEMMA ClockChanges ==
    ASSUME NEW t \in Nat, NEW y, DayOfYear(t \div Nyse!DAY, y),
           NEW first, first = Nyse!DayNumber(y, 3, 1)
    PROVE  /\ first \in Int /\ Spring(first) \in Int /\ Fall(first) \in Int
           /\ Nyse!IsSunday(Spring(first)) /\ Nyse!IsSunday(Fall(first))
           /\ Nyse!NewYork(t) = t -
                (IF 86400 * Spring(first) + 25200 <= t /\ t < 86400 * Fall(first) + 21600
                 THEN 14400 ELSE 18000)
  <1>1. y \in Nat /\ 1970 <= y /\ y <= 2099
    BY DEF DayOfYear
  <1>2. /\ first \in Int /\ SundayFrom(first) \in Int
        /\ Nyse!FirstSunday(y, 3) = SundayFrom(first)
        /\ Nyse!IsSunday(first + SundayFrom(first) - 1)
    BY <1>1, FirstSundays
  <1>3. PICK f : f = Nyse!DayNumber(y, 11, 1)
    OBVIOUS
  <1>4. /\ f \in Int /\ SundayFrom(f) \in Int
        /\ Nyse!FirstSunday(y, 11) = SundayFrom(f)
        /\ Nyse!IsSunday(f + SundayFrom(f) - 1)
    BY <1>1, <1>3, FirstSundays
  <1>5. f = first + 245
    BY <1>1, <1>3, MonthStart
  <1>6. Fall(first) = f + SundayFrom(f) - 1
    BY <1>5 DEF Fall
  <1>7. Nyse!IsSunday(Spring(first))
    <2>1. first + SundayFrom(first) - 1 \in Int /\ Spring(first) \in Int
      BY <1>2 DEF Spring
    <2>2. (first + SundayFrom(first) - 1 + 4) % 7 = 0 => (Spring(first) + 4) % 7 = 0
      BY <1>2 DEF Spring
    <2> QED
      BY <1>2, <2>1, <2>2, DayNames DEF Nyse!Weekday
  <1>8. Nyse!DayNumber(y, 3, Nyse!SecondSunday(y, 3)) = Spring(first)
    <2>1. Nyse!SecondSunday(y, 3) \in Int
      BY <1>2 DEF Nyse!SecondSunday
    <2>2. Nyse!DayNumber(y, 3, Nyse!SecondSunday(y, 3)) = first + Nyse!SecondSunday(y, 3) - 1
      BY <1>1, <2>1, DayOfMonth
    <2> QED
      BY <1>2, <2>2 DEF Nyse!SecondSunday, Spring
  <1>9. Nyse!DayNumber(y, 11, Nyse!FirstSunday(y, 11)) = Fall(first)
    <2>1. Nyse!DayNumber(y, 11, Nyse!FirstSunday(y, 11)) = f + Nyse!FirstSunday(y, 11) - 1
      BY <1>1, <1>3, <1>4, DayOfMonth
    <2> QED
      BY <1>4, <1>6, <2>1
  <1>10. Nyse!YearOf(t) = y
    BY YearOfInstant
  <1> DEFINE a == Spring(first)
             b == Fall(first)
  <1>11. a \in Int /\ b \in Int
    BY <1>2, <1>4, <1>6 DEF Spring
  <1>12. Nyse!NewYork(t) =
           t - (IF t \in (a * Nyse!DAY + (2 + 5) * Nyse!HOUR)
                           ..((b * Nyse!DAY + (2 + 4) * Nyse!HOUR) - 1)
                THEN 4 ELSE 5) * Nyse!HOUR
    BY <1>8, <1>9, <1>10, Zenon DEF Nyse!NewYork
  <1> HIDE DEF a, b
  <1>13. Nyse!NewYork(t) = t -
           (IF 86400 * a + 25200 <= t /\ t < 86400 * b + 21600 THEN 14400 ELSE 18000)
    BY <1>11, <1>12 DEF Nyse!DAY, Nyse!HOUR
  <1> QED
    BY <1>2, <1>4, <1>6, <1>7, <1>11, <1>13 DEF a, b

(* The local day and the seconds of it, o behind the UTC day.              *)
LEMMA LocalTime ==
    ASSUME NEW days \in Nat, NEW second \in Nat, second < 86400, NEW o \in {14400, 18000}
    PROVE  LET local == 86400 * days + second - o
           IN  /\ second >= o => local \div 86400 = days /\ local % 86400 = second - o
               /\ second < o => /\ local \div 86400 = days - 1
                                /\ local % 86400 = second + 86400 - o
  OBVIOUS

(* At every instant until the end of 2099, and whatever the lists an admin *)
(* gives it, the program is in a session exactly when the NYSE is.  The    *)
(* offset it takes for a UTC day is New York's but on the two Sundays the  *)
(* clocks change, when New York is in a Saturday or a Sunday; and where    *)
(* New York is still in the day before, its sessions of that day are over  *)
(* and those of the next have not begun (us_market_open).                  *)
THEOREM SessionsAgree ==
    ASSUME NEW t \in Nat, t \div Nyse!DAY < Nyse!DayNumber(2100, 1, 1),
           NEW holidays \in Seq(Int), NEW earlyCloses \in Seq(Int),
           NEW first \in Int, NEW last \in Int
    PROVE  Nyse!UsMarketOpen(t, Nyse!Loaded(holidays, earlyCloses, last, first))
              <=> Nyse!InSession(t, [holidays |-> holidays, earlyCloses |-> earlyCloses,
                                     first |-> first, last |-> last])
  <1> DEFINE days == t \div 86400
             second == t % 86400
             local == Nyse!NewYork(t)
  <1>1. /\ days \in Nat /\ second \in Nat /\ second < 86400
        /\ t = 86400 * days + second
    OBVIOUS
  <1>2. Nyse!DAY = 86400 /\ Nyse!HOUR = 3600 /\ Nyse!OPEN = 34200 /\ Nyse!CLOSE = 57600
        /\ Nyse!EARLY_CLOSE = 46800
    BY DEF Nyse!DAY, Nyse!HOUR, Nyse!OPEN, Nyse!CLOSE, Nyse!EARLY_CLOSE
  <1>3. PICK y \in Nat : DayOfYear(days, y)
    BY <1>1, <1>2, YearFound
  <1>4. PICK march : march = Nyse!DayNumber(y, 3, 1)
    OBVIOUS
  <1>5. Nyse!UsDaylightTime(days) <=> Spring(march) <= days /\ days < Fall(march)
    BY <1>1, <1>3, <1>4, DaylightDays
  <1>6. /\ Spring(march) \in Int /\ Fall(march) \in Int
        /\ Nyse!IsSunday(Spring(march)) /\ Nyse!IsSunday(Fall(march))
        /\ local = t - (IF 86400 * Spring(march) + 25200 <= t /\ t < 86400 * Fall(march) + 21600
                        THEN 14400 ELSE 18000)
    <2>1. DayOfYear(t \div Nyse!DAY, y)
      BY <1>2, <1>3
    <2> QED
      BY <1>4, <2>1, ClockChanges
  <1> HIDE DEF local
  <1> DEFINE o == IF Nyse!UsDaylightTime(days) THEN 14400 ELSE 18000
             real == t - local
             index == days - first
             close == IF index \in Nyse!Bits(earlyCloses, first) THEN 46800 ELSE 57600
             day == local \div 86400
             ends == IF day \in Nyse!Range(earlyCloses) THEN 46800 ELSE 57600
  <1>7. Nyse!UsMarketOpen(t, Nyse!Loaded(holidays, earlyCloses, last, first)) <=>
           /\ days \in first..last
           /\ Nyse!Weekday(days) \notin {0, 6}
           /\ index \notin Nyse!Bits(holidays, first)
           /\ 34200 + o <= second /\ second < close + o
    <2>1. o = (IF Nyse!UsDaylightTime(days) THEN 4 * 3600 ELSE 5 * 3600) /\ o \in Int /\ close \in Int
      OBVIOUS
    <2> HIDE DEF o, close
    <2>2. second \in (34200 + o)..(close + o - 1) <=> 34200 + o <= second /\ second < close + o
      BY <1>1, <2>1
    <2> HIDE DEF days, second
    <2> QED
      BY <1>2, <2>1, <2>2 DEF Nyse!UsMarketOpen, Nyse!Loaded, close, days, second
  <1>8. Nyse!InSession(t, [holidays |-> holidays, earlyCloses |-> earlyCloses,
                           first |-> first, last |-> last]) <=>
           /\ day \in first..last
           /\ ~Nyse!IsSunday(day) /\ ~Nyse!IsSaturday(day)
           /\ day \notin Nyse!Range(holidays)
           /\ 34200 <= local % 86400 /\ local % 86400 < ends
    <2>1. local \in Int /\ local % 86400 \in Int
      BY <1>1, <1>6
    <2>2. ends \in Int
      OBVIOUS
    <2> HIDE DEF ends
    <2>3. local % 86400 \in 34200..(ends - 1) <=> 34200 <= local % 86400 /\ local % 86400 < ends
      BY <2>1, <2>2
    <2> QED
      BY <1>2, <2>3 DEF Nyse!InSession, local, ends
  <1>9. local = 86400 * days + second - real /\ real \in {14400, 18000}
    BY <1>1, <1>6
  <1>10. days # Spring(march) /\ days # Fall(march) => real = o
    <2> SUFFICES ASSUME days # Spring(march), days # Fall(march) PROVE real = o
      OBVIOUS
    <2> DEFINE a == Spring(march)
               b == Fall(march)
    <2>1. a \in Int /\ b \in Int /\ days # a /\ days # b
      BY <1>6
    <2>2. real = IF 86400 * a + 25200 <= t /\ t < 86400 * b + 21600 THEN 14400 ELSE 18000
      BY <1>1, <1>6
    <2>3. o = IF a <= days /\ days < b THEN 14400 ELSE 18000
      BY <1>5
    <2> HIDE DEF a, b, days, second, real, o
    <2>4. 86400 * a + 25200 <= t <=> a <= days
      BY <1>1, <2>1
    <2>5. t < 86400 * b + 21600 <=> days < b
      BY <1>1, <2>1
    <2> QED
      BY <2>2, <2>3, <2>4, <2>5
  <1>11. o \in {14400, 18000} /\ close \in {46800, 57600} /\ ends \in {46800, 57600}
    OBVIOUS
  <1> HIDE DEF days, second, o, real, close, day, ends
  <1>12. /\ days \in Int
         /\ Nyse!IsSunday(days) <=> Nyse!Weekday(days) = 0
         /\ Nyse!IsSaturday(days) <=> Nyse!Weekday(days) = 6
    <2>1. days \in Int
      BY <1>1
    <2>2. Nyse!IsSunday(days) <=> Nyse!Weekday(days) = 0
      BY <2>1, DayNames
    <2>3. Nyse!IsSaturday(days) <=> Nyse!Weekday(days) = 6
      BY <2>1, DayNames
    <2> QED
      BY <2>1, <2>2, <2>3
  <1>13. /\ second >= real => day = days /\ local % 86400 = second - real
         /\ second < real => day = days - 1 /\ local % 86400 = second + 86400 - real
    BY <1>1, <1>9, LocalTime DEF day
  <1>14. CASE second < real
    <2>1. local % 86400 >= ends
      BY <1>1, <1>9, <1>11, <1>13, <1>14
    <2>2. days # Spring(march) /\ days # Fall(march) => second < 34200 + o
      BY <1>1, <1>9, <1>10, <1>11, <1>14
    <2>3. days = Spring(march) \/ days = Fall(march) => Nyse!Weekday(days) = 0
      BY <1>6, <1>12
    <2>4. local % 86400 \in Int
      BY <1>1, <1>9, <1>13, <1>14
    <2> QED
      BY <1>1, <1>7, <1>8, <1>11, <2>1, <2>2, <2>3, <2>4
  <1>15. CASE second >= real
    <2>1. day = days /\ local % 86400 = second - real
      BY <1>13, <1>15
    <2>2. CASE days = Spring(march) \/ days = Fall(march)
      <3>1. Nyse!IsSunday(days) /\ Nyse!IsSunday(day)
        BY <1>6, <2>1, <2>2
      <3>2. Nyse!Weekday(days) = 0
        BY <1>12, <3>1
      <3> QED
        BY <1>7, <1>8, <3>1, <3>2
    <2>3. CASE days # Spring(march) /\ days # Fall(march) /\ days \in first..last
      <3>1. days >= first /\ days \in Int
        BY <1>1, <2>3
      <3>2. /\ index \in Nyse!Bits(holidays, first) <=> days \in Nyse!Range(holidays)
            /\ index \in Nyse!Bits(earlyCloses, first) <=> days \in Nyse!Range(earlyCloses)
        <4>1. days - first \in Nyse!Bits(holidays, first) <=> days \in Nyse!Range(holidays)
          BY <3>1, ClosuresKept
        <4>2. days - first \in Nyse!Bits(earlyCloses, first) <=> days \in Nyse!Range(earlyCloses)
          BY <3>1, ClosuresKept
        <4> QED
          BY <4>1, <4>2
      <3>3. close = ends
        BY <2>1, <3>2 DEF close, ends
      <3>4. real = o
        BY <1>10, <2>3
      <3>5. /\ 34200 <= second - real <=> 34200 + o <= second
            /\ second - real < ends <=> second < close + o
        BY <1>1, <1>9, <1>11, <3>3, <3>4
      <3> HIDE DEF index
      <3> QED
        BY <1>7, <1>8, <1>12, <2>1, <3>2, <3>5
    <2>4. CASE days \notin first..last
      BY <1>7, <1>8, <2>1, <2>4
    <2> QED
      BY <2>2, <2>3, <2>4
  <1> QED
    BY <1>1, <1>9, <1>14, <1>15

\* The calendar is the one the admin gave, and the clock is before 2100.
SessionsInv ==
    /\ clock \in Nat /\ clock \div Nyse!DAY < Nyse!DayNumber(2100, 1, 1)
    /\ given \in [holidays : Seq(Int), earlyCloses : Seq(Int), first : Int, last : Int]
    /\ calendar = Nyse!Loaded(given.holidays, given.earlyCloses, given.last, given.first)

LEMMA SessionsInit == Nyse!Init => SessionsInv
  <1> SUFFICES ASSUME Nyse!Init PROVE SessionsInv
    OBVIOUS
  <1>1. PICK day \in StartDays : clock = day * Nyse!DAY
    BY DEF Nyse!Init
  <1>2. day \in Nat /\ MaxDays \in Nat /\ day + MaxDays < Nyse!DayNumber(2100, 1, 1)
    BY SessionsAssumption
  <1>3. Nyse!DayNumber(2100, 1, 1) \in Int
    BY YearStart
  <1>4. clock \in Nat /\ clock \div Nyse!DAY = day
    BY <1>1, <1>2 DEF Nyse!DAY, Nyse!HOUR
  <1>5. Nyse!Bits(<<>>, 0) = {}
    BY DEF Nyse!Bits, Nyse!Range
  <1>6. calendar = Nyse!Loaded(<<>>, <<>>, 0, 0)
    BY <1>5 DEF Nyse!Init, Nyse!Loaded
  <1>7. <<>> \in Seq(Int)
    OBVIOUS
  <1>8. given = [holidays |-> <<>>, earlyCloses |-> <<>>, first |-> 0, last |-> 0]
    BY DEF Nyse!Init, Nyse!NothingGiven
  <1> QED
    BY <1>2, <1>3, <1>4, <1>6, <1>7, <1>8 DEF SessionsInv

LEMMA SessionsStep == SessionsInv /\ Nyse!Next => SessionsInv'
  <1> SUFFICES ASSUME SessionsInv, Nyse!Next PROVE SessionsInv'
    OBVIOUS
  <1> DEFINE today == clock \div 86400
  <1>1. /\ Nyse!Today = today /\ Nyse!DAY = 86400
        /\ clock \in Nat /\ today \in Nat /\ today < Nyse!DayNumber(2100, 1, 1)
    BY DEF SessionsInv, Nyse!Today, Nyse!DAY, Nyse!HOUR
  <1> HIDE DEF today
  <1>2. CASE Nyse!Running /\ Nyse!Tick
    <2>1. PICK day \in StartDays : clock - day * 86400 \in 0..(MaxDays * 86400 - 1)
      BY <1>1, <1>2 DEF Nyse!Running
    <2>2. day \in Nat /\ MaxDays \in Nat /\ day + MaxDays < Nyse!DayNumber(2100, 1, 1)
      BY SessionsAssumption
    <2>3. Nyse!DayNumber(2100, 1, 1) \in Int
      BY YearStart
    <2>4. today + 1 < Nyse!DayNumber(2100, 1, 1)
      BY <1>1, <2>1, <2>2, <2>3 DEF today
    <2>5. PICK s \in Nyse!Seconds :
              clock' = IF s = 0 THEN (today + 1) * 86400 ELSE today * 86400 + s
      BY <1>1, <1>2 DEF Nyse!Tick
    <2>6. s \in Nat /\ s < 86400
      BY <2>5 DEF Nyse!Seconds, Nyse!DAY, Nyse!HOUR, Nyse!OPEN, Nyse!CLOSE, Nyse!EARLY_CLOSE
    <2>7. clock' \in Nat /\ clock' \div 86400 <= today + 1
      BY <1>1, <2>5, <2>6
    <2>8. clock' \div Nyse!DAY < Nyse!DayNumber(2100, 1, 1)
      <3>1. clock' \div Nyse!DAY = clock' \div 86400
        BY <1>1
      <3>2. clock' \div 86400 \in Int
        BY <2>7
      <3> DEFINE here == clock' \div 86400
                 bound == Nyse!DayNumber(2100, 1, 1)
      <3>3. here \in Int /\ bound \in Int /\ here <= today + 1 /\ today + 1 < bound
        BY <2>3, <2>4, <2>7, <3>2
      <3> HIDE DEF here, bound
      <3>4. here < bound
        BY <1>1, <3>3
      <3> QED
        BY <3>1, <3>4 DEF here, bound
    <2> QED
      BY <1>2, <2>7, <2>8 DEF SessionsInv, Nyse!Tick
  <1>3. ASSUME NEW holidays \in Nyse!Lists, NEW earlyCloses \in Nyse!Lists,
               NEW last \in Int, Nyse!SetMarketCalendar(holidays, earlyCloses, last)
        PROVE  SessionsInv'
    <2>1. \A list \in Nyse!Lists : list \in Seq(Int)
      <3>1. CALENDAR_DAYS \in Int /\ CALENDAR_MAX_AGE_DAYS \in Int
        BY SessionsAssumption
      <3>2. \A d \in Int : <<d>> \in Seq(Int) /\ <<d, d + 1>> \in Seq(Int)
        OBVIOUS
      <3>3. <<>> \in Seq(Int) /\ <<today + 1, today>> \in Seq(Int)
        BY <1>1
      <3> DEFINE around == (today - CALENDAR_MAX_AGE_DAYS - 1)..(today + CALENDAR_DAYS)
      <3>4. around \subseteq Int
        BY <1>1, <3>1
      <3>5. ASSUME NEW list \in Nyse!Lists
            PROVE  \/ list = <<>> \/ list = <<today + 1, today>>
                   \/ \E d \in around : list = <<d>> \/ list = <<d, d + 1>>
        <4>1. \/ list = <<>> \/ list \in {<<Nyse!Today + 1, Nyse!Today>>}
              \/ \E d \in (Nyse!Today - CALENDAR_MAX_AGE_DAYS - 1)..(Nyse!Today + CALENDAR_DAYS) :
                    list = <<d>> \/ list = <<d, d + 1>>
          BY <3>5, Zenon DEF Nyse!Lists
        <4> QED
          BY <1>1, <4>1
      <3> HIDE DEF around
      <3>6. ASSUME NEW list \in Nyse!Lists PROVE list \in Seq(Int)
        <4>1. CASE list = <<>> \/ list = <<today + 1, today>>
          BY <3>3, <4>1
        <4>2. CASE \E d \in around : list = <<d>> \/ list = <<d, d + 1>>
          <5>1. PICK d \in around : list = <<d>> \/ list = <<d, d + 1>>
            BY <4>2
          <5>2. d \in Int
            BY <3>4
          <5>3. <<d>> \in Seq(Int) /\ <<d, d + 1>> \in Seq(Int)
            BY <3>2, <5>2
          <5> QED
            BY <5>1, <5>3
        <4> QED
          BY <3>5, <4>1, <4>2
      <3> QED
        BY <3>6
    <2>2. /\ calendar' = Nyse!Loaded(holidays, earlyCloses, last, today)
          /\ given' = [holidays |-> holidays, earlyCloses |-> earlyCloses,
                       first |-> today, last |-> last]
          /\ clock' = clock
      BY <1>1, <1>3 DEF Nyse!SetMarketCalendar
    <2>3. given' \in [holidays : Seq(Int), earlyCloses : Seq(Int), first : Int, last : Int]
      BY <1>1, <2>1, <2>2
    <2>4. calendar' = Nyse!Loaded(given'.holidays, given'.earlyCloses, given'.last, given'.first)
      BY <2>2
    <2> QED
      BY <2>2, <2>3, <2>4 DEF SessionsInv
  <1>4. \A last \in {Nyse!Today - 1, Nyse!Today, Nyse!Today + CALENDAR_DAYS - 1,
                     Nyse!Today + CALENDAR_DAYS} : last \in Int
    BY <1>1, SessionsAssumption
  <1> QED
    BY <1>2, <1>3, <1>4 DEF Nyse!Next

(* The program is in a session exactly when the NYSE is, at every instant  *)
(* of a behaviour, whichever of the module's lists the admin loads on the  *)
(* way: the bits it keeps are the closures it was last given, counted from *)
(* the day it was given them (set_market_calendar).                        *)
THEOREM SessionsKept == ProgramSpec => []SessionsAreNyse
  <1>1. ProgramInit => SessionsInv
    BY SessionsInit DEF ProgramInit
  <1>2. SessionsInv /\ [ProgramNext]_<<part, vars, sessions, prices>> => SessionsInv'
    <2> SUFFICES ASSUME SessionsInv, [ProgramNext]_<<part, vars, sessions, prices>>
                 PROVE  SessionsInv'
      OBVIOUS
    <2>1. CASE UNCHANGED sessions
      BY <2>1 DEF SessionsInv, sessions
    <2>2. CASE Nyse!Next
      BY <2>2, SessionsStep
    <2> QED
      BY <2>1, <2>2 DEF ProgramNext
  <1>3. SessionsInv => SessionsAreNyse
    <2> SUFFICES ASSUME SessionsInv PROVE Nyse!SessionsAreNyse
      BY DEF SessionsAreNyse
    <2>1. /\ given.holidays \in Seq(Int) /\ given.earlyCloses \in Seq(Int)
          /\ given.first \in Int /\ given.last \in Int
          /\ given = [holidays |-> given.holidays, earlyCloses |-> given.earlyCloses,
                      first |-> given.first, last |-> given.last]
      BY DEF SessionsInv
    <2>2. Nyse!UsMarketOpen(clock, calendar) <=> Nyse!InSession(clock, given)
      BY <2>1, SessionsAgree DEF SessionsInv
    <2> QED
      BY <2>2 DEF Nyse!SessionsAreNyse
  <1> QED
    BY <1>1, <1>2, <1>3, PTL DEF ProgramSpec
=============================================================================
