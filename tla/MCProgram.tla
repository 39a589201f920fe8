----------------------------- MODULE MCProgram -----------------------------
(***************************************************************************)
(* Values for model checking the program beside its client, and its        *)
(* sessions and its prices.  The three share nothing, so a behaviour is    *)
(* one of them: of the accounts, of the sessions, or of the prices.        *)
(***************************************************************************)
EXTENDS MCLaterite, SweepClient

CONSTANTS
    PRICE_MAX, PRODUCT_MAX,     \* what a price and a product of two can hold
    BPS, MAX_CONFIDENCE_BPS, SLIPPAGE_BPS, MAX_PRICE_AGE_SECONDS,
    Prices, Confidences, Exponents, Decimals, Amounts, MaxClock,
    CALENDAR_DAYS, CALENDAR_MAX_AGE_DAYS, StartDays, MaxDays

\* A product is twice as wide as a price, and a whole of basis points fits a price;
\* what is unsure of a price, or slips, is a part of it.
ASSUME PricesAssumption ==
    /\ {PRICE_MAX, PRODUCT_MAX, MAX_CONFIDENCE_BPS, SLIPPAGE_BPS} \subseteq Nat
    /\ PRODUCT_MAX + 1 = (PRICE_MAX + 1) * (PRICE_MAX + 1)
    /\ BPS \in 1..PRICE_MAX /\ MAX_CONFIDENCE_BPS <= BPS /\ SLIPPAGE_BPS < BPS
    /\ Prices \cup Confidences \cup Amounts \subseteq 0..PRICE_MAX
    /\ Exponents \subseteq Int /\ Decimals \subseteq Nat

VARIABLES part, clock, calendar, given, time, payment, asset

Nyse == INSTANCE Market

Pyth == INSTANCE Price WITH
    U64_MAX <- PRICE_MAX, U128_MAX <- PRODUCT_MAX, MaxTime <- MaxClock

\* Feeds say tenths, units and tens.
TenthToTen == -1..1

\* The civil calendar of the sessions covers the years from 1970 to 2099.
ASSUME SessionsAssumption ==
    /\ {CALENDAR_DAYS, CALENDAR_MAX_AGE_DAYS, MaxDays} \subseteq Nat /\ StartDays \subseteq Nat
    /\ \A day \in StartDays : day + MaxDays < Nyse!DayNumber(2100, 1, 1)

sessions == <<clock, calendar, given>>
prices == <<time, payment, asset>>

\* A part that is not the behaviour's stays where one of its behaviours starts.
ProgramInit ==
    /\ Init /\ Nyse!Init /\ Pyth!Init
    /\ part \in {"accounts", "sessions", "prices"}
    /\ part # "accounts" =>
         config.user_weekly_cap = CHOOSE cap \in UserWeeklyCaps \ {0} : TRUE
    /\ part # "sessions" => clock = Nyse!DAY * (CHOOSE day \in StartDays : TRUE)
    /\ part # "prices" => /\ payment = CHOOSE feed \in Pyth!Feeds : TRUE
                          /\ asset = payment

ProgramNext ==
    \/ part = "accounts" /\ Next /\ UNCHANGED <<part, sessions, prices>>
    \/ part = "sessions" /\ Nyse!Next /\ UNCHANGED <<part, vars, prices>>
    \/ part = "prices" /\ Pyth!Next /\ UNCHANGED <<part, vars, sessions>>

ProgramSpec == ProgramInit /\ [][ProgramNext]_<<part, vars, sessions, prices>>

\* The user enrolls at the first instant, and pauses play no part.
EarlyUser ==
    /\ user[u1].status # "Paused"
    /\ now > DAY_SECONDS => Enrolled(u1)

(* Market's property of the sessions.                                      *)
SessionsAreNyse == part = "sessions" => Nyse!SessionsAreNyse

(* Price's property of the minimum output.                                 *)
MinimumIsFair == part = "prices" => Pyth!MinimumIsFair

(***************************************************************************)
(* The allowance, as the program keeps it: the week's is what week_spent   *)
(* says for the week of now, and a token was bought from today if its last *)
(* sweep day is today.                                                     *)
(***************************************************************************)
Allowance == INSTANCE Budget WITH
    Allowances <- {TIERS[tier] : tier \in Tiers},
    since <- [u \in Users |-> IF Enrolled(u) THEN user[u].enrolled_at ELSE 0],
    spent <- [u \in Users |-> SpentAt(user[u], now)],
    bought <- [u \in Users |-> {k \in Tokens : user[u].last_sweep_day[k] = DayOf(now)}]

(* The program implements the allowance: counters that it brings up to     *)
(* date only when a sweep reads or writes them, and accounts that survive  *)
(* exits, behave as if every week and every day started over by itself     *)
(* (spent_at, record, last_sweep_day).                                     *)
KeepsToBudget == Allowance!Spec
=============================================================================
