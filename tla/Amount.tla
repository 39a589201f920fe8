------------------------------- MODULE Amount -------------------------------
(***************************************************************************)
(* The amount engine of the Laterite program (amount.rs): how much a sweep *)
(* may pull from a user, derived from the user's signed rules, what was    *)
(* attested for them, the clock, the market calendar and the balance.      *)
(*                                                                         *)
(* Everything here is a function of its arguments; the module Laterite     *)
(* holds the state.  Amounts are natural numbers of payment-token units    *)
(* and times are instants of the chain's clock.  A user is a record with   *)
(* the fields of UserConfig, the signed choices (EnrollParams) grouped in  *)
(* the field "rules".  A market calendar is the set of instants at which   *)
(* it says the NYSE is in a regular session.                               *)
(***************************************************************************)
EXTENDS Integers

CONSTANTS
    Tokens,             \* the payment tokens (USDC and USDT in the code)
    TIERS,              \* weekly cap of each tier, a function of the tier's index
    TRIAL_CAP,          \* weekly cap of a user's first week
    DAY_SECONDS,        \* instants per UTC day
    WEEK_SECONDS,       \* instants per user week, and of the trial
    INCOME_SHARE_BPS,   \* share of an income that is invested, in basis points
    INCOME_MIN,         \* smaller incomes are ignored
    CHANGE_STEP,        \* payments are rounded up to the next multiple of it
    CHANGE_MIN,         \* what a payment invests at least, before the multiplier
    U64_MAX             \* where saturating additions stop

Tiers == DOMAIN TIERS

ASSUME AmountAssumption ==
    /\ U64_MAX \in Nat
    /\ TIERS \in [Tiers -> 0..U64_MAX]
    /\ TRIAL_CAP \in 0..U64_MAX
    /\ DAY_SECONDS \in Nat \ {0}
    /\ WEEK_SECONDS \in Nat \ {0}
    /\ INCOME_SHARE_BPS \in Nat
    /\ INCOME_MIN \in Nat
    /\ CHANGE_STEP \in Nat \ {0}
    /\ CHANGE_MIN \in Nat

Engines == {"Daily", "Weekly"}
Statuses == {"Absent", "Active", "Paused", "Exited"}

Lesser(a, b) == IF a <= b THEN a ELSE b
Greater(a, b) == IF a >= b THEN a ELSE b
SaturatingSub(a, b) == IF a >= b THEN a - b ELSE 0
SaturatingAdd(a, b) == Lesser(a + b, U64_MAX)

DayOf(t) == t \div DAY_SECONDS

(***************************************************************************)
(* A pull by source, its total, and the same pull within a limit, the      *)
(* engine kept first.                                                      *)
(***************************************************************************)
NoPull == [engine |-> 0, pending |-> 0]

Total(pull) == pull.engine + pull.pending

Capped(pull, limit) ==
    LET engine == Lesser(pull.engine, limit)
    IN  [engine |-> engine, pending |-> Lesser(pull.pending, limit - engine)]

(***************************************************************************)
(* What a transfer adds to the pending amount under the user's rules.      *)
(***************************************************************************)
IncomeShare(rules, income) ==
    IF rules.income_rule /\ income >= INCOME_MIN
    THEN (income * INCOME_SHARE_BPS) \div 10000
    ELSE 0

Change(rules, payment) ==
    LET roundUp == (CHANGE_STEP - (payment % CHANGE_STEP)) % CHANGE_STEP
    IN  Greater(roundUp, CHANGE_MIN) * rules.change_multiplier

Invested(rules, kind, amount) ==
    IF kind = "Income" THEN IncomeShare(rules, amount) ELSE Change(rules, amount)

(***************************************************************************)
(* The week, its cap and what it has already spent.                        *)
(***************************************************************************)
WeekFrom(start, t) == SaturatingSub(t, start) \div WEEK_SECONDS

\* Faulty: weeks that turn over an instant early.
WeekAtEarly(user, t) == WeekFrom(user.enrolled_at, t + 1)

WeekAt(user, t) == WeekFrom(user.enrolled_at, t)

\* Faulty: the beta's cap does not bind users of a tier above it.
WeeklyCapOfTier(user, betaCap, t) ==
    IF t < user.enrolled_at + WEEK_SECONDS THEN TRIAL_CAP ELSE TIERS[user.rules.tier]

WeeklyCap(user, betaCap, t) ==
    LET cap == IF t < user.enrolled_at + WEEK_SECONDS
               THEN TRIAL_CAP
               ELSE TIERS[user.rules.tier]
    IN  Lesser(cap, betaCap)

SpentAt(user, t) == IF WeekAt(user, t) = user.week THEN user.week_spent ELSE 0

\* Faulty: a daily engine relies on each token being swept once a day.
EngineDuePerToken(user, calendar, t) ==
    \/ user.rules.engine = "Daily"
    \/ WeekAt(user, t) > WeekAt(user, user.engine_ran_at) /\ t \in calendar

EngineDue(user, calendar, t) ==
    LET ran == user.engine_ran_at >= user.enrolled_at
    IN  IF user.rules.engine = "Daily"
        THEN ran => DayOf(t) > DayOf(user.engine_ran_at)
        ELSE /\ ran => WeekAt(user, t) > WeekAt(user, user.engine_ran_at)
             /\ t \in calendar

(***************************************************************************)
(* What a sweep of a token may pull: the engine if it is due, then the     *)
(* pending amount, within the week's room and above the token's cushion.   *)
(***************************************************************************)
Room(user, token, balance, betaCap, t) ==
    Lesser(SaturatingSub(WeeklyCap(user, betaCap, t), SpentAt(user, t)),
           SaturatingSub(balance, user.rules.cushions[token]))

Pull(user, token, balance, betaCap, calendar, t) ==
    LET room == Room(user, token, balance, betaCap, t)
        engine == IF EngineDue(user, calendar, t)
                  THEN Lesser(user.rules.engine_amount, room)
                  ELSE 0
    IN  IF user.status = "Active"
        THEN [engine |-> engine, pending |-> Lesser(user.pending, room - engine)]
        ELSE NoPull

\* Faulty: a pull consumes all it took, or only what the engine took.
PendingLessTotal(user, pull) == user.pending - Total(pull)
PendingLessEngine(user, pull) == SaturatingSub(user.pending, pull.engine)

\* What still waits after a pull took its part.
PendingLeft(user, pull) == SaturatingSub(user.pending, pull.pending)

(***************************************************************************)
(* The user after a completed pull: the week rolls over if it changed, the *)
(* pull counts against it, the pending part is consumed and the engine is  *)
(* marked as run if it bought.                                             *)
(***************************************************************************)
Recorded(user, pull, t) ==
    [user EXCEPT
        !.week = WeekAt(user, t),
        !.week_spent = SaturatingAdd(SpentAt(user, t), Total(pull)),
        !.pending = PendingLeft(user, pull),
        !.engine_ran_at = IF pull.engine > 0 THEN t ELSE @]
=============================================================================
