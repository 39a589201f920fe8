----------------------------- MODULE MCLaterite -----------------------------
(***************************************************************************)
(* Values for model checking.  Each configuration gives days and weeks     *)
(* their lengths in instants: weeks that start in the middle of days where *)
(* the engine's periods matter, days of one instant where weeks and plans  *)
(* do.  The tiers stand for $10 and $25, the trial cap for $5.             *)
(***************************************************************************)
EXTENDS LateriteProperties, TLC

CONSTANTS u1, u2, u3, usdc, usdt, t1

MCTiers == 0 :> 3 @@ 1 :> 4
OneTier == 0 :> 3

Choice(tier, tokens, engine, amount, income, multiplier) ==
    [tier |-> tier, payment_tokens |-> tokens, engine |-> engine,
     engine_amount |-> amount, income_rule |-> income,
     change_multiplier |-> multiplier, cushions |-> [k \in Tokens |-> 0]]

\* One token: a daily engine below the trial cap on the lower tier, one above
\* it on the higher tier, and a weekly engine.
PlanParams ==
    {Choice(0, {usdc}, "Daily", 1, FALSE, 0),
     Choice(1, {usdc}, "Daily", 3, FALSE, 0),
     Choice(1, {usdc}, "Weekly", 4, FALSE, 0)}

\* Two tokens on one tier: daily or weekly.
TokenParams ==
    {Choice(0, {usdc, usdt}, "Daily", 2, FALSE, 0),
     Choice(0, {usdc, usdt}, "Weekly", 2, FALSE, 0)}

\* A transfer at the first instant: an income worth 2, or a payment worth 1
\* times the multiplier.
MCTransfers ==
    {[user |-> u1, kind |-> "Income", token |-> usdc, amount |-> 20, time |-> 2],
     [user |-> u1, kind |-> "Payment", token |-> usdc, amount |-> 1, time |-> 2]}

\* Rules that differ in what a transfer counts for.
CreditParams ==
    {Choice(0, {usdc}, "Daily", 0, TRUE, 1),
     Choice(0, {usdc}, "Daily", 0, FALSE, 2)}

\* Three users, one more than the seats there ever are, are followed for an instant
\* while nothing is attested and one token is in use; with time, transfers and two
\* tokens, one user and no change of the seats.
Unsubscribed(u, k) == \A tier \in Tiers : subscription[u][k][tier] = Closed
OneUser ==
    /\ config.max_users = 1 /\ ~config.paused
    /\ \A u \in Users \ {u1} : ~Enrolled(u) /\ \A k \in Tokens : Unsubscribed(u, k)
SeatsOnly ==
    /\ now = DAY_SECONDS
    /\ \A i \in TransferIds : credits[i] = 0 /\ transfer[i].kind = "Income"
    /\ \A u \in Users : Unsubscribed(u, usdt)
CreditsOrSeats == OneUser \/ SeatsOnly

Pairs == {usdc, usdt}
TokenSymmetry == Permutations(Pairs)
=============================================================================
