------------------------- MODULE LateriteProperties -------------------------
(***************************************************************************)
(* What the Laterite program promises, stated over the state of the module *)
(* Laterite and the history it keeps.                                      *)
(***************************************************************************)
EXTENDS Laterite

Days == Nat

UserConfigs ==
    [status : Statuses, rules : Rules, enrolled_at : Nat, week : Nat,
     week_spent : Nat, engine_ran_at : Nat, pending : Nat, attestable_from : Nat,
     last_sweep_day : [Tokens -> Days]]

Configs ==
    [paused : BOOLEAN, user_weekly_cap : Nat, max_users : Nat, user_count : Nat,
     market_calendar : Calendars \union {{}}]

AccountsTypeOK ==
    /\ now \in Nat
    /\ config \in Configs
    /\ user \in [Users -> UserConfigs]
    /\ subscription \in [Users -> [Tokens -> [Tiers -> Subscriptions]]]
    /\ record \in [TransferIds -> Nat]
    /\ transfer \in [TransferIds -> Transfers]

HistoryTypeOK ==
    /\ joined \in [Users -> Nat]
    /\ weekPulled \in [Users -> Nat]
    /\ daySweeps \in [Users -> [Tokens -> Nat]]
    /\ dayEngine \in [Users -> Nat]
    /\ weekEngine \in [Users -> Nat]
    /\ credits \in [TransferIds -> Nat]
    /\ worth \in [TransferIds -> Nat]
    /\ owed \in [Users -> Int]

(* Every variable holds a value of its type: the accounts as state.rs lays *)
(* them out, and the history.                                              *)
TypeOK == AccountsTypeOK /\ HistoryTypeOK

-----------------------------------------------------------------------------
(* The combined weekly cap: whatever a user does - pausing, leaving and    *)
(* coming back, moving between tiers and tokens, renewing subscriptions -  *)
(* what leaves their wallet in one of their weeks, over all tokens, stays  *)
(* within the trial cap in their first week ever and within the largest    *)
(* tier afterwards.  Counted by what was pulled, not by week_spent, and    *)
(* from the first enrollment, so that no return grants a second trial or a *)
(* second cap (amount.rs weekly_cap, spent_at, record).                    *)
InTrial(u) == now < joined[u] + WEEK_SECONDS

WeekWithinCap ==
    \A u \in Users :
        IF InTrial(u) THEN weekPulled[u] <= TRIAL_CAP
                      ELSE \E tier \in Tiers : weekPulled[u] <= TIERS[tier]

(* The same at the moment of a pull, exactly: a pull never brings the      *)
(* week's total above the cap of the user's tier at that moment, nor above *)
(* the beta cap, even when the tier or the beta cap was lowered in the     *)
(* middle of the week (Sweep, with UpdateConfig and ChangeTier).           *)
CapOf(u) ==
    Lesser(config.user_weekly_cap,
           IF InTrial(u) THEN TRIAL_CAP ELSE TIERS[user[u].rules.tier])

PullsWithinCap ==
    [][\A u \in Users :
        weekPulled'[u] > weekPulled[u] => weekPulled'[u] <= CapOf(u)]_vars

(* Each payment token of a user is swept at most once per UTC day, across  *)
(* exits, returns and token changes (sweep.rs last_sweep_day).             *)
SweptOncePerDay == \A u \in Users, k \in Tokens : daySweeps[u][k] <= 1

(* The engine buys once per period over all tokens together, whatever      *)
(* switching between the daily and the weekly engine: a daily engine only  *)
(* when nothing was bought on that UTC day, a weekly one only when nothing *)
(* was bought in that week of the user (amount.rs engine_due).             *)
EngineOncePerPeriod ==
    [][\A u \in Users :
        weekEngine'[u] > weekEngine[u] =>
            IF user[u].rules.engine = "Daily" THEN dayEngine[u] = 0
                                              ELSE weekEngine[u] = 0]_vars

(* A sweep never asks Subscriptions for more than the subscription's own   *)
(* period allows, which Subscriptions would refuse: the two programs count *)
(* periods on their own (subscription.rs remaining).                       *)
PlansWithinPeriod ==
    \A u \in Users, k \in Tokens, tier \in Tiers :
        subscription[u][k][tier].pulled <= TIERS[tier]

-----------------------------------------------------------------------------
(* The beta's seats, counted by the users who have not exited: a seat is   *)
(* only ever taken within max_users as it is then, also after the admin    *)
(* lowered it below the users there are and some of them left, returned or *)
(* were followed by others.  And none is lost: the program's count is that *)
(* number, whatever the order of enrollments, exits and returns            *)
(* (Config.user_count, Enroll, Exit, Reactivate).                          *)
SeatsTaken == Cardinality({u \in Users : Seated(u)})
SeatsCounted == config.user_count = SeatsTaken

SeatsWithinBeta ==
    [][/\ SeatsTaken' > SeatsTaken => SeatsTaken' <= config.max_users
       /\ SeatsCounted']_vars

(* A plan a user leaves - by a tier change, a dropped token or an exit -   *)
(* cannot be pulled any more from that very instant (Cancellation.cancel). *)
Pullable(s, t) == s.open /\ ~Expired(s, t)

PlansOf(u) == {<<k, user[u].rules.tier>> : k \in user[u].rules.payment_tokens}

LeftPlansEnd ==
    [][\A u \in Users : \A p \in PlansOf(u) :
        p \notin PlansOf(u)' => ~Pullable(subscription'[u][p[1]][p[2]], now')]_vars

(* A user can always leave, whatever state their subscriptions are in and  *)
(* whatever the admin has set (Exit).                                      *)
ExitNeverBlocked == \A u \in Users : Seated(u) => ENABLED Exit(u)

-----------------------------------------------------------------------------
(* A transfer is credited at most once, ever: its record outlives the      *)
(* window in which it can be attested (Attest, CloseAttestation).          *)
CreditedAtMostOnce == \A i \in TransferIds : credits[i] <= 1

(* No backfill: a transfer of an earlier instant adds no more than it was  *)
(* worth under the user's settings at every instant since it happened; so  *)
(* nothing if at any of them the user was not active, its token was off or *)
(* its rule was off (attestable_from).                                     *)
NoBackfill ==
    [][\A i \in TransferIds :
        credits'[i] > credits[i] /\ transfer[i].time < now =>
            LET u == transfer[i].user
            IN  user'[u].pending - user[u].pending <= worth[i]]_vars

(* What waits to be invested is never worth more than what the user's      *)
(* credited transfers added and no sweep has pulled yet: nothing attested  *)
(* is pulled twice, in either token, whatever the caps leave for later and *)
(* whatever the user lowers or drops in between (Recorded, LowerPending,   *)
(* Exit).                                                                  *)
PendingOwed == \A u \in Users : user[u].pending <= owed[u]
=============================================================================
