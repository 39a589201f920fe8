------------------------------ MODULE Laterite ------------------------------
(***************************************************************************)
(* The Laterite program on Solana: one action per instruction, plus what   *)
(* the world around it does: the clock advances, and users act on their    *)
(* subscriptions through the Subscriptions program directly.               *)
(*                                                                         *)
(* An instruction is atomic: a transaction that fails leaves no trace, so  *)
(* every error path of the code is an action that is not enabled.  Every   *)
(* caller is any caller: signatures are guards on who may take a step, and *)
(* here each user acts for themselves, the admin for the configuration.    *)
(* The attestor is honest: it signs each transfer with its real block time *)
(* and may sign it, and have it submitted, any number of times.            *)
(***************************************************************************)
EXTENDS Amount, Subscription, FiniteSets

CONSTANTS
    Users,              \* wallets
    TransferIds,        \* the transfers of this behaviour
    TransferChoices,    \* what a transfer can be
    Params,             \* the EnrollParams users choose from
    UserWeeklyCaps,     \* the beta caps per user the admin chooses from
    MaxUsers,           \* the beta caps on users the admin chooses from
    Calendars,          \* the market calendars the admin chooses from
    KillSwitch,         \* the positions the admin sets the kill switch to
    Balances,           \* the balances a sweep can find
    MaxTime             \* the clock stops here

Kinds == {"Income", "Payment"}

Rules ==
    [tier : Tiers, payment_tokens : SUBSET Tokens, engine : Engines,
     engine_amount : Nat, income_rule : BOOLEAN, change_multiplier : Nat,
     cushions : [Tokens -> Nat]]

Transfers ==
    [user : Users, kind : Kinds, token : Tokens, amount : Nat, time : Nat]

ASSUME LateriteAssumption ==
    /\ IsFiniteSet(Users)
    /\ 0 \in Tiers
    /\ TransferChoices \subseteq Transfers
    /\ Params \subseteq Rules
    /\ UserWeeklyCaps \subseteq Nat
    /\ MaxUsers \subseteq Nat
    /\ KillSwitch \subseteq BOOLEAN
    /\ Balances \subseteq Nat
    /\ MaxTime \in Nat

VARIABLES
    now,            \* the chain's clock
    config,         \* the Config account
    user,           \* each wallet's UserConfig; status "Absent" before it exists
    subscription,   \* each user's subscription per payment token and tier
    record,         \* each transfer's AttestationRecord: its expires_at, 0 if none
    transfer        \* the transfers that happen, each at its time; never changes

(***************************************************************************)
(* What has happened, kept for the properties only.                        *)
(***************************************************************************)
VARIABLES
    joined,         \* when each user first enrolled
    weekPulled,     \* what left each user's wallet in their current week
    daySweeps,      \* sweeps of each user and token this UTC day
    dayEngine,      \* engine buys of each user this UTC day
    weekEngine,     \* engine buys of each user this week
    credits,        \* how many times each transfer was credited
    worth,          \* the least a past transfer was worth at any instant since
    owed            \* what each user's credits added, less the pending pulled

history ==
    <<joined, weekPulled, daySweeps, dayEngine, weekEngine, credits, worth, owed>>
pulls == <<weekPulled, daySweeps, dayEngine, weekEngine>>
accounts == <<config, user, subscription, record>>
vars == <<now, config, user, subscription, record, transfer, history>>

-----------------------------------------------------------------------------
(***************************************************************************)
(* Settings.                                                               *)
(***************************************************************************)

\* EnrollParams::default, the cleared settings of a user who exited.
DefaultRules ==
    [tier |-> 0, payment_tokens |-> {}, engine |-> "Daily", engine_amount |-> 0,
     income_rule |-> FALSE, change_multiplier |-> 0,
     cushions |-> [k \in Tokens |-> 0]]

\* A wallet that never enrolled.
NoUserConfig ==
    [status |-> "Absent", rules |-> DefaultRules, enrolled_at |-> 0, week |-> 0,
     week_spent |-> 0, engine_ran_at |-> 0, pending |-> 0, attestable_from |-> 0,
     last_sweep_day |-> [k \in Tokens |-> 0]]

ValidRules(p) ==
    /\ p.payment_tokens # {}
    /\ p.engine_amount > 0 \/ p.income_rule \/ p.change_multiplier > 0
    /\ p.change_multiplier <= 3
    /\ p.engine_amount <= TIERS[p.tier]

ValidParams(p) ==
    /\ TIERS[p.tier] <= config.user_weekly_cap
    /\ ValidRules(p)

\* A live subscription to the tier's plan for each of the tokens.
RequireLive(u, tokens, tier) ==
    \A k \in tokens : IsLive(subscription[u][k][tier])

\* The user's subscriptions after the program ended those of these tokens.
EndedPlans(u, tokens, tier) ==
    [subscription EXCEPT ![u] = [k \in Tokens |-> [t \in Tiers |->
        IF k \in tokens /\ t = tier THEN Cancelled(subscription[u][k][t], now)
        ELSE subscription[u][k][t]]]]

CancelsAccepted(u, tokens, tier) ==
    \A k \in tokens : CancelAccepted(subscription[u][k][tier], now)

RaisedFrom(u) == Greater(user[u].attestable_from, now)

Enrolled(u) == user[u].status # "Absent"
Seated(u) == user[u].status \in {"Active", "Paused"}

\* Faulty: the beta is only full at exactly its number of users.
MayTakeSeatUnequal(u, p) ==
    /\ ~config.paused
    /\ config.max_users # config.user_count
    /\ ValidParams(p)
    /\ RequireLive(u, p.payment_tokens, p.tier)

\* Enrollment's and reactivation's common checks.
MayTakeSeat(u, p) ==
    /\ ~config.paused
    /\ config.max_users > config.user_count
    /\ ValidParams(p)
    /\ RequireLive(u, p.payment_tokens, p.tier)

-----------------------------------------------------------------------------
(***************************************************************************)
(* Enrollment, exit and return.                                            *)
(***************************************************************************)

Enroll(u, p) ==
    /\ user[u].status = "Absent"
    /\ MayTakeSeat(u, p)
    /\ user' = [user EXCEPT ![u] =
                    [status |-> "Active", rules |-> p, enrolled_at |-> now,
                     week |-> 0, week_spent |-> 0, engine_ran_at |-> 0,
                     pending |-> 0, attestable_from |-> now,
                     last_sweep_day |-> [k \in Tokens |-> 0]]]
    /\ config' = [config EXCEPT !.user_count = @ + 1]
    /\ joined' = [joined EXCEPT ![u] = now]
    /\ UNCHANGED <<now, subscription, record, transfer, pulls, credits, worth, owed>>

\* Faulty: a return is taken for a first enrollment.
ReactivateAnew(u, p) ==
    /\ user[u].status = "Exited"
    /\ MayTakeSeat(u, p)
    /\ user' = [user EXCEPT ![u] = [@ EXCEPT
                    !.status = "Active", !.rules = p, !.attestable_from = RaisedFrom(u),
                    !.enrolled_at = now, !.week = 0, !.week_spent = 0]]
    /\ config' = [config EXCEPT !.user_count = @ + 1]
    /\ UNCHANGED <<now, subscription, record, transfer, history>>

Reactivate(u, p) ==
    /\ user[u].status = "Exited"
    /\ MayTakeSeat(u, p)
    /\ user' = [user EXCEPT ![u] = [@ EXCEPT
                    !.status = "Active", !.rules = p, !.attestable_from = RaisedFrom(u)]]
    /\ config' = [config EXCEPT !.user_count = @ + 1]
    /\ UNCHANGED <<now, subscription, record, transfer, history>>

Exit(u) ==
    /\ Seated(u)
    /\ CancelsAccepted(u, user[u].rules.payment_tokens, user[u].rules.tier)
    /\ subscription' = EndedPlans(u, user[u].rules.payment_tokens, user[u].rules.tier)
    /\ config' = [config EXCEPT !.user_count = SaturatingSub(@, 1)]
    /\ user' = [user EXCEPT ![u] = [@ EXCEPT
                    !.status = "Exited", !.rules = DefaultRules, !.pending = 0]]
    /\ UNCHANGED <<now, record, transfer, history>>

-----------------------------------------------------------------------------
(***************************************************************************)
(* The user's controls.                                                    *)
(***************************************************************************)

\* Faulty: only a rule turned on counts more, not a higher multiplier.
CountsMoreByRule(old, new) == new.income_rule /\ ~old.income_rule

\* A change that makes an attestation count more applies from now on only.
CountsMore(old, new) ==
    \/ new.income_rule /\ ~old.income_rule
    \/ new.change_multiplier > old.change_multiplier

UpdateSettings(u, p) ==
    /\ Seated(u)
    /\ p.tier = user[u].rules.tier
    /\ p.payment_tokens = user[u].rules.payment_tokens
    /\ ValidRules(p)
    /\ user' = [user EXCEPT ![u] = [@ EXCEPT
                    !.rules = p,
                    !.attestable_from =
                        IF CountsMore(user[u].rules, p) THEN RaisedFrom(u)
                        ELSE user[u].attestable_from]]
    /\ UNCHANGED <<now, config, subscription, record, transfer, history>>

PauseUser(u) ==
    /\ user[u].status = "Active"
    /\ user' = [user EXCEPT ![u].status = "Paused"]
    /\ UNCHANGED <<now, config, subscription, record, transfer, history>>

ResumeUser(u) ==
    /\ user[u].status = "Paused"
    /\ user' = [user EXCEPT ![u] = [@ EXCEPT
                    !.status = "Active", !.attestable_from = RaisedFrom(u)]]
    /\ UNCHANGED <<now, config, subscription, record, transfer, history>>

LowerPending(u, pending) ==
    /\ Seated(u)
    /\ pending <= user[u].pending
    /\ user' = [user EXCEPT ![u].pending = pending]
    /\ UNCHANGED <<now, config, subscription, record, transfer, history>>

ChangeTier(u, tier) ==
    LET old == user[u].rules.tier
        tokens == user[u].rules.payment_tokens
    IN  /\ Seated(u)
        /\ tier # old
        /\ TIERS[tier] <= config.user_weekly_cap
        /\ user[u].rules.engine_amount <= TIERS[tier]
        /\ CancelsAccepted(u, tokens, old)
        /\ RequireLive(u, tokens, tier)
        /\ subscription' = EndedPlans(u, tokens, old)
        /\ user' = [user EXCEPT ![u].rules.tier = tier]
        /\ UNCHANGED <<now, config, record, transfer, history>>

ChangePaymentTokens(u, tokens) ==
    LET enabled == user[u].rules.payment_tokens
        tier == user[u].rules.tier
    IN  /\ Seated(u)
        /\ tokens # {}
        /\ CancelsAccepted(u, enabled \ tokens, tier)
        /\ RequireLive(u, tokens \ enabled, tier)
        /\ subscription' = EndedPlans(u, enabled \ tokens, tier)
        /\ user' = [user EXCEPT ![u] = [@ EXCEPT
                        !.rules.payment_tokens = tokens,
                        !.attestable_from =
                            IF tokens \ enabled # {} THEN RaisedFrom(u)
                            ELSE user[u].attestable_from]]
        /\ UNCHANGED <<now, config, record, transfer, history>>

-----------------------------------------------------------------------------
(***************************************************************************)
(* Attestations: a transfer counts once while its record exists, and its   *)
(* record exists until the transfer is too old to be attested.             *)
(***************************************************************************)

ATTESTATION_TTL == WEEK_SECONDS

Attest(i) ==
    LET t == transfer[i]
        u == t.user
        invested == Invested(user[u].rules, t.kind, t.amount)
    IN  /\ record[i] = 0
        /\ user[u].status = "Active"
        /\ t.amount > 0
        /\ user[u].attestable_from <= t.time
        /\ t.time <= now
        /\ t.time + ATTESTATION_TTL >= now
        /\ t.token \in user[u].rules.payment_tokens
        /\ invested > 0
        /\ user' = [user EXCEPT ![u].pending = SaturatingAdd(@, invested)]
        /\ record' = [record EXCEPT ![i] = t.time + ATTESTATION_TTL]
        /\ credits' = [credits EXCEPT ![i] = @ + 1]
        /\ owed' = [owed EXCEPT ![u] = @ + invested]
        /\ UNCHANGED <<now, config, subscription, transfer, joined, pulls, worth>>

\* Faulty: the record is closed at the last instant its transfer counts.
CloseAttestationEarly(i) ==
    /\ record[i] # 0
    /\ now >= record[i]
    /\ record' = [record EXCEPT ![i] = 0]
    /\ UNCHANGED <<now, config, user, subscription, transfer, history>>

CloseAttestation(i) ==
    /\ record[i] # 0
    /\ now > record[i]
    /\ record' = [record EXCEPT ![i] = 0]
    /\ UNCHANGED <<now, config, user, subscription, transfer, history>>

-----------------------------------------------------------------------------
(***************************************************************************)
(* The sweep: pulls what the amount engine gives within the subscription's *)
(* period, swaps it and records it.  A failed price check, transfer or     *)
(* swap fails the whole instruction.                                       *)
(***************************************************************************)

SweptPull(u, k, balance) ==
    Capped(Pull(user[u], k, balance, config.user_weekly_cap, config.market_calendar, now),
           Remaining(subscription[u][k][user[u].rules.tier], TIERS[user[u].rules.tier], now))

\* Faulty: a token swept today may be swept again.
MaySweepAgain(u, k) ==
    /\ Enrolled(u)
    /\ ~config.paused
    /\ DayOf(now) >= user[u].last_sweep_day[k]
    /\ user[u].rules.engine = "Weekly" => now \in config.market_calendar
    /\ k \in user[u].rules.payment_tokens

MaySweep(u, k) ==
    /\ Enrolled(u)
    /\ ~config.paused
    /\ DayOf(now) > user[u].last_sweep_day[k]
    /\ user[u].rules.engine = "Weekly" => now \in config.market_calendar
    /\ k \in user[u].rules.payment_tokens

Sweep(u, k, balance) ==
    LET pull == SweptPull(u, k, balance)
        bought == IF pull.engine > 0 THEN 1 ELSE 0
    IN  /\ MaySweep(u, k)
        /\ Total(pull) > 0
        /\ user' = [user EXCEPT ![u] =
                        [Recorded(user[u], pull, now) EXCEPT
                            !.last_sweep_day[k] = DayOf(now)]]
        /\ subscription' = [subscription EXCEPT
                                ![u][k][user[u].rules.tier] = Pulled(@, Total(pull), now)]
        /\ weekPulled' = [weekPulled EXCEPT ![u] = @ + Total(pull)]
        /\ daySweeps' = [daySweeps EXCEPT ![u][k] = @ + 1]
        /\ dayEngine' = [dayEngine EXCEPT ![u] = @ + bought]
        /\ weekEngine' = [weekEngine EXCEPT ![u] = @ + bought]
        /\ owed' = [owed EXCEPT ![u] = @ - pull.pending]
        /\ UNCHANGED <<now, config, record, transfer, joined, credits, worth>>

-----------------------------------------------------------------------------
(***************************************************************************)
(* The admin.                                                              *)
(***************************************************************************)

UpdateConfig(cap, seats) ==
    /\ cap > 0 /\ seats > 0
    /\ config' = [config EXCEPT !.user_weekly_cap = cap, !.max_users = seats]
    /\ UNCHANGED <<now, user, subscription, record, transfer, history>>

SetPaused(paused) ==
    /\ config' = [config EXCEPT !.paused = paused]
    /\ UNCHANGED <<now, user, subscription, record, transfer, history>>

SetMarketCalendar(calendar) ==
    /\ config' = [config EXCEPT !.market_calendar = calendar]
    /\ UNCHANGED <<now, user, subscription, record, transfer, history>>

-----------------------------------------------------------------------------
(***************************************************************************)
(* Users acting through Subscriptions directly.                            *)
(***************************************************************************)

SetSubscription(u, k, tier, s) ==
    /\ subscription' = [subscription EXCEPT ![u][k][tier] = s]
    /\ UNCHANGED <<now, config, user, record, transfer, history>>

Subscribe(u, k, tier) ==
    /\ ~subscription[u][k][tier].open
    /\ SetSubscription(u, k, tier, Subscribed(now))

CancelSubscription(u, k, tier) ==
    /\ IsLive(subscription[u][k][tier])
    /\ SetSubscription(u, k, tier, CancelledAtPeriodEnd(subscription[u][k][tier], now))

ResumeSubscription(u, k, tier) ==
    /\ CanResume(subscription[u][k][tier], now)
    /\ SetSubscription(u, k, tier, Resumed(subscription[u][k][tier]))

CloseSubscription(u, k, tier) ==
    /\ CanClose(subscription[u][k][tier])
    /\ SetSubscription(u, k, tier, Closed)

-----------------------------------------------------------------------------
(***************************************************************************)
(* The clock.  What a past transfer is worth under its user's settings at  *)
(* the end of an instant lowers its worth; the counts of the UTC day and   *)
(* of the user's week start over with them.                                *)
(***************************************************************************)

WorthNow(i) ==
    LET t == transfer[i]
        r == user[t.user].rules
    IN  IF user[t.user].status = "Active" /\ t.token \in r.payment_tokens
        THEN Invested(r, t.kind, t.amount)
        ELSE 0

NewWeek(u) == (now + 1 - joined[u]) % WEEK_SECONDS = 0
NewDay == (now + 1) % DAY_SECONDS = 0

Tick ==
    /\ now < MaxTime
    /\ now' = now + 1
    /\ worth' = [i \in TransferIds |->
                    IF transfer[i].time = now THEN WorthNow(i)
                    ELSE IF transfer[i].time < now THEN Lesser(worth[i], WorthNow(i))
                    ELSE worth[i]]
    /\ weekPulled' = [u \in Users |-> IF NewWeek(u) THEN 0 ELSE weekPulled[u]]
    /\ weekEngine' = [u \in Users |-> IF NewWeek(u) THEN 0 ELSE weekEngine[u]]
    /\ dayEngine' = [u \in Users |-> IF NewDay THEN 0 ELSE dayEngine[u]]
    /\ daySweeps' = [u \in Users |-> [k \in Tokens |-> IF NewDay THEN 0 ELSE daySweeps[u][k]]]
    /\ UNCHANGED <<config, user, subscription, record, transfer, joined, credits, owed>>

-----------------------------------------------------------------------------
\* The first instant is a full day after the epoch, and the calendar is empty.
Init ==
    /\ now = DAY_SECONDS
    /\ config \in [paused : {FALSE}, user_weekly_cap : UserWeeklyCaps \ {0},
                   max_users : MaxUsers \ {0}, user_count : {0}, market_calendar : {{}}]
    /\ user = [u \in Users |-> NoUserConfig]
    /\ subscription = [u \in Users |-> [k \in Tokens |-> [tier \in Tiers |-> Closed]]]
    /\ record = [i \in TransferIds |-> 0]
    /\ transfer \in [TransferIds -> TransferChoices]
    /\ joined = [u \in Users |-> 0]
    /\ weekPulled = [u \in Users |-> 0]
    /\ daySweeps = [u \in Users |-> [k \in Tokens |-> 0]]
    /\ dayEngine = [u \in Users |-> 0]
    /\ weekEngine = [u \in Users |-> 0]
    /\ credits = [i \in TransferIds |-> 0]
    /\ worth = [i \in TransferIds |-> 0]
    /\ owed = [u \in Users |-> 0]

Controls(u) ==
    \/ \E p \in Params : Enroll(u, p) \/ Reactivate(u, p) \/ UpdateSettings(u, p)
    \/ Exit(u)
    \/ PauseUser(u)
    \/ ResumeUser(u)
    \/ \E pending \in 0..user[u].pending : LowerPending(u, pending)
    \/ \E tier \in Tiers : ChangeTier(u, tier)
    \/ \E tokens \in SUBSET Tokens : ChangePaymentTokens(u, tokens)

Cranks ==
    \/ \E u \in Users, k \in Tokens, balance \in Balances : Sweep(u, k, balance)
    \/ \E i \in TransferIds : Attest(i) \/ CloseAttestation(i)

Admin ==
    \/ \E cap \in UserWeeklyCaps, seats \in MaxUsers : UpdateConfig(cap, seats)
    \/ \E paused \in KillSwitch : SetPaused(paused)
    \/ \E calendar \in Calendars : SetMarketCalendar(calendar)

Elsewhere(u) ==
    \E k \in Tokens, tier \in Tiers :
        \/ Subscribe(u, k, tier)
        \/ CancelSubscription(u, k, tier)
        \/ ResumeSubscription(u, k, tier)
        \/ CloseSubscription(u, k, tier)

Next ==
    \/ Tick
    \/ Cranks
    \/ Admin
    \/ \E u \in Users : Controls(u) \/ Elsewhere(u)

Spec == Init /\ [][Next]_vars
=============================================================================
