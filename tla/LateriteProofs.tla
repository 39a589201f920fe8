--------------------------- MODULE LateriteProofs ---------------------------
(***************************************************************************)
(* Proofs about the Laterite program for every number of users, tokens,    *)
(* tiers and transfers, every length of days, weeks and periods, and every *)
(* run of the clock.                                                       *)
(***************************************************************************)
EXTENDS LateriteProperties, FiniteSetTheorems, TLAPS

Pulls == [engine : Nat, pending : Nat]

-----------------------------------------------------------------------------
(***************************************************************************)
(* What the amount engine returns.                                         *)
(***************************************************************************)

(* A division of natural numbers rounds down (week_at, spent_at, DayOf).   *)
LEMMA DivNat ==
    ASSUME NEW a \in Nat, NEW b \in Nat \ {0}
    PROVE  a \div b \in Nat
  OBVIOUS

(* What a transfer adds is a natural number (income_share, change).        *)
LEMMA InvestedNat ==
    ASSUME NEW r \in Rules, NEW kind \in Kinds, NEW a \in Nat
    PROVE  Invested(r, kind, a) \in Nat
  <1>1. IncomeShare(r, a) \in Nat
    <2>1. a * INCOME_SHARE_BPS \in Nat
      BY AmountAssumption
    <2>2. (a * INCOME_SHARE_BPS) \div 10000 \in Nat
      BY <2>1, DivNat
    <2> QED
      BY <2>2 DEF IncomeShare
  <1>2. Change(r, a) \in Nat
    <2> DEFINE up == (CHANGE_STEP - (a % CHANGE_STEP)) % CHANGE_STEP
    <2>1. a % CHANGE_STEP \in 0..(CHANGE_STEP - 1)
      BY AmountAssumption
    <2>2. up \in Nat
      BY <2>1, AmountAssumption
    <2>3. Greater(up, CHANGE_MIN) \in Nat
      BY <2>2, AmountAssumption DEF Greater
    <2>4. r.change_multiplier \in Nat
      BY DEF Rules
    <2>5. Greater(up, CHANGE_MIN) * r.change_multiplier \in Nat
      <3> HIDE DEF up
      <3> DEFINE g == Greater(up, CHANGE_MIN)
                 m == r.change_multiplier
      <3>1. g \in Nat /\ m \in Nat
        BY <2>3, <2>4
      <3> HIDE DEF g, m
      <3>2. g * m \in Nat
        BY <3>1
      <3> QED
        BY <3>2 DEF g, m
    <2> QED
      BY <2>5 DEF Change
  <1> QED
    BY <1>1, <1>2 DEF Invested

(* A pull is two natural numbers, and their total is one (pull).           *)
LEMMA RoomNat ==
    ASSUME NEW c \in UserConfigs, NEW k \in Tokens, NEW balance \in Nat,
           NEW betaCap \in Nat, NEW t \in Nat
    PROVE  Room(c, k, balance, betaCap, t) \in Nat
  <1>1. WeeklyCap(c, betaCap, t) \in Nat
    BY AmountAssumption DEF WeeklyCap, Lesser, UserConfigs, Rules
  <1>2. SpentAt(c, t) \in Nat
    BY DEF SpentAt, UserConfigs
  <1>3. c.rules.cushions[k] \in Nat
    BY DEF UserConfigs, Rules
  <1> QED
    BY <1>1, <1>2, <1>3 DEF Room, Lesser, SaturatingSub

(* A pull is two amounts, whatever the user, the balance and the caps      *)
(* (pull).                                                                 *)
LEMMA PullType ==
    ASSUME NEW c \in UserConfigs, NEW k \in Tokens, NEW balance \in Nat,
           NEW betaCap \in Nat, NEW calendar, NEW t \in Nat
    PROVE  Pull(c, k, balance, betaCap, calendar, t) \in Pulls
  <1> DEFINE room == Room(c, k, balance, betaCap, t)
             engine == IF EngineDue(c, calendar, t)
                       THEN Lesser(c.rules.engine_amount, room) ELSE 0
  <1>1. room \in Nat
    BY RoomNat
  <1>2. c.rules.engine_amount \in Nat /\ c.pending \in Nat
    BY DEF UserConfigs, Rules
  <1> HIDE DEF room
  <1>3. engine \in Nat /\ engine <= room
    BY <1>1, <1>2 DEF Lesser
  <1> HIDE DEF engine
  <1>4. Lesser(c.pending, room - engine) \in Nat
    BY <1>1, <1>2, <1>3 DEF Lesser
  <1>5. [engine |-> engine, pending |-> Lesser(c.pending, room - engine)] \in Pulls
    BY <1>3, <1>4 DEF Pulls
  <1> QED
    BY <1>5 DEF Pull, NoPull, Pulls, room, engine

(* A pull kept within a limit is two amounts again (Pull::capped).         *)
LEMMA CappedType ==
    ASSUME NEW p \in Pulls, NEW limit \in Nat
    PROVE  Capped(p, limit) \in Pulls
  BY DEF Capped, Pulls, Lesser

(* Recording a pull leaves a well-typed account (record).                  *)
LEMMA RecordedType ==
    ASSUME NEW c \in UserConfigs, NEW p \in Pulls, NEW t \in Nat
    PROVE  Recorded(c, p, t) \in UserConfigs
  <1>1. WeekAt(c, t) \in Nat
    <2>1. SaturatingSub(t, c.enrolled_at) \in Nat
      BY DEF SaturatingSub, UserConfigs
    <2> QED
      BY <2>1, DivNat, AmountAssumption DEF WeekAt, WeekFrom
  <1>2. SaturatingAdd(SpentAt(c, t), Total(p)) \in Nat
    BY AmountAssumption DEF SaturatingAdd, SpentAt, Total, Lesser, UserConfigs, Pulls
  <1>3. PendingLeft(c, p) \in Nat
    BY DEF PendingLeft, SaturatingSub, UserConfigs, Pulls
  <1>4. (IF p.engine > 0 THEN t ELSE c.engine_ran_at) \in Nat
    BY DEF UserConfigs
  <1> QED
    BY <1>1, <1>2, <1>3, <1>4 DEF Recorded, UserConfigs

-----------------------------------------------------------------------------
(***************************************************************************)
(* Type correctness: every instruction leaves well-typed accounts.         *)
(***************************************************************************)

(* What the two programs make of a subscription is a subscription, and     *)
(* what it still allows is an amount (remaining, cancel).                  *)
LEMMA SubscriptionType ==
    ASSUME NEW s \in Subscriptions, NEW t \in Nat, NEW amount \in Nat
    PROVE  /\ Closed \in Subscriptions
           /\ Subscribed(t) \in Subscriptions
           /\ Resumed(s) \in Subscriptions
           /\ Cancelled(s, t) \in Subscriptions
           /\ Remaining(s, amount, t) \in Nat
  BY DEF Closed, Subscribed, Resumed, Cancelled, NeedsCancel, CancelledNow,
         Remaining, Expired, Subscriptions

(* A period's start is an instant, as long as periods are not ahead of the *)
(* clock.                                                                  *)
LEMMA PeriodStartNat ==
    ASSUME NEW s \in Subscriptions, NEW t \in Nat, s.start <= t
    PROVE  PeriodStart(s, t) \in Nat /\ PeriodStart(s, t) <= t
  <1> DEFINE n == (t - s.start) \div PLAN_PERIOD
  <1>1. s.start \in Nat /\ t - s.start \in Nat
    BY DEF Subscriptions
  <1>2. n \in Nat /\ n * PLAN_PERIOD <= t - s.start
    BY <1>1, PeriodAssumption
  <1>3. n * PLAN_PERIOD \in Nat
    BY <1>2, PeriodAssumption
  <1> QED
    BY <1>1, <1>2, <1>3 DEF PeriodStart

(* Periods never start in the future: the strengthening that type          *)
(* correctness needs, for a period is rolled over by counting from its     *)
(* start.                                                                  *)
PeriodsStarted ==
    \A u \in Users, k \in Tokens, tier \in Tiers :
        subscription[u][k][tier].start <= now

TypeInv == TypeOK /\ PeriodsStarted

(* The accounts are well typed when the program is initialized (Config,    *)
(* UserConfig).                                                            *)
LEMMA TypeInit == Init => TypeInv
  <1> SUFFICES ASSUME Init PROVE TypeInv
    OBVIOUS
  <1> USE AmountAssumption, LateriteAssumption DEF Init
  <1>1. DefaultRules \in Rules
    BY DEF DefaultRules, Rules, Engines
  <1>2. NoUserConfig \in UserConfigs
    BY <1>1 DEF NoUserConfig, UserConfigs, Statuses, Days
  <1>3. config \in Configs
    <2>1. /\ UserWeeklyCaps \ {0} \subseteq Nat
          /\ MaxUsers \ {0} \subseteq Nat
          /\ {0} \subseteq Nat
          /\ {{}} \subseteq Calendars \union {{}}
          /\ {FALSE} \subseteq BOOLEAN
      OBVIOUS
    <2> QED
      BY <2>1, Zenon DEF Configs
  <1>4. subscription \in [Users -> [Tokens -> [Tiers -> Subscriptions]]]
    BY DEF Closed, Subscriptions
  <1>5. transfer \in [TransferIds -> Transfers]
    OBVIOUS
  <1>6. TypeOK
    BY <1>2, <1>3, <1>4, <1>5 DEF TypeOK, AccountsTypeOK, HistoryTypeOK
  <1>7. PeriodsStarted
    BY DEF PeriodsStarted, Closed
  <1> QED
    BY <1>6, <1>7 DEF TypeInv

(* The types of what the instructions compute from the accounts of one     *)
(* user (raise_attestable_from, user_count).                               *)
LEMMA UserTypes ==
    ASSUME TypeInv, NEW u \in Users
    PROVE  /\ user[u] \in UserConfigs
           /\ RaisedFrom(u) \in Nat
           /\ config.user_count + 1 \in Nat
           /\ SaturatingSub(config.user_count, 1) \in Nat
           /\ user \in [Users -> UserConfigs]
           /\ config \in Configs
           /\ 0 \in Nat
           /\ [k \in Tokens |-> 0] \in [Tokens -> Days]
  <1> USE DEF TypeInv, TypeOK, AccountsTypeOK
  <1>1. user[u].attestable_from \in Nat
    BY DEF UserConfigs
  <1>2. config.user_count \in Nat
    BY DEF Configs
  <1> QED
    BY <1>1, <1>2 DEF RaisedFrom, Greater, SaturatingSub, Days

(* Taking a seat and changing settings leave well-typed accounts (enroll,  *)
(* reactivate, update_settings).                                           *)
LEMMA TypeEnroll ==
    ASSUME TypeInv, NEW u \in Users, NEW p \in Params,
           Enroll(u, p) \/ Reactivate(u, p) \/ UpdateSettings(u, p)
    PROVE  TypeInv'
  <1> DEFINE counts == [k \in Tokens |-> 0]
             entered == [status |-> "Active", rules |-> p, enrolled_at |-> now,
                         week |-> 0, week_spent |-> 0, engine_ran_at |-> 0,
                         pending |-> 0, attestable_from |-> now,
                         last_sweep_day |-> counts]
             returned == [user[u] EXCEPT !.status = "Active", !.rules = p,
                                         !.attestable_from = RaisedFrom(u)]
             from == IF CountsMore(user[u].rules, p) THEN RaisedFrom(u)
                     ELSE user[u].attestable_from
             updated == [user[u] EXCEPT !.rules = p, !.attestable_from = from]
  <1>1. p \in Rules /\ now \in Nat
    BY LateriteAssumption DEF TypeInv, TypeOK, AccountsTypeOK
  <1>2. entered \in UserConfigs
    <2>1. counts \in [Tokens -> Days]
      BY UserTypes
    <2> HIDE DEF counts
    <2> QED
      BY <1>1, <2>1 DEF UserConfigs, Statuses
  <1>3. returned \in UserConfigs
    BY <1>1, UserTypes, Zenon DEF UserConfigs, Statuses
  <1>4. updated \in UserConfigs
    <2>1. from \in Nat
      BY UserTypes, Zenon DEF UserConfigs
    <2> HIDE DEF from
    <2> QED
      BY <1>1, <2>1, UserTypes, Zenon DEF UserConfigs
  <1> HIDE DEF counts, entered, returned, from, updated
  <1>5. CASE Enroll(u, p)
    <2>1. user' = [user EXCEPT ![u] = entered]
      BY <1>5, Zenon DEF Enroll, entered, counts
    <2>2. config' = [config EXCEPT !.user_count = @ + 1]
      BY <1>5 DEF Enroll
    <2>3. user' \in [Users -> UserConfigs] /\ config' \in Configs
      BY <1>2, <2>1, <2>2, UserTypes, Zenon DEF Configs
    <2>4. joined' \in [Users -> Nat]
      BY <1>1, <1>5 DEF Enroll, TypeInv, TypeOK, HistoryTypeOK
    <2> QED
      BY <1>5, <2>3, <2>4 DEF Enroll, pulls, PeriodsStarted, TypeInv, TypeOK,
                              AccountsTypeOK, HistoryTypeOK
  <1>6. CASE Reactivate(u, p)
    <2>1. user' = [user EXCEPT ![u] = returned]
      BY <1>6, Zenon DEF Reactivate, returned
    <2>2. config' = [config EXCEPT !.user_count = @ + 1]
      BY <1>6 DEF Reactivate
    <2>3. user' \in [Users -> UserConfigs] /\ config' \in Configs
      BY <1>3, <2>1, <2>2, UserTypes, Zenon DEF Configs
    <2> QED
      BY <1>6, <2>3 DEF Reactivate, history, PeriodsStarted, TypeInv, TypeOK,
                        AccountsTypeOK, HistoryTypeOK
  <1>7. CASE UpdateSettings(u, p)
    <2>1. user' = [user EXCEPT ![u] = updated]
      BY <1>7, Zenon DEF UpdateSettings, updated, from
    <2>2. user' \in [Users -> UserConfigs]
      BY <1>4, <2>1, UserTypes
    <2> QED
      BY <1>7, <2>2 DEF UpdateSettings, history, PeriodsStarted, TypeInv, TypeOK,
                        AccountsTypeOK, HistoryTypeOK
  <1> QED
    BY <1>5, <1>6, <1>7

(* Ending plans changes expiry only.                                       *)
LEMMA EndedPlansType ==
    ASSUME TypeInv, NEW u \in Users, NEW tokens, NEW tier,
           subscription' = EndedPlans(u, tokens, tier), now' = now
    PROVE  /\ subscription' \in [Users -> [Tokens -> [Tiers -> Subscriptions]]]
           /\ PeriodsStarted'
  <1> USE DEF TypeInv, TypeOK, AccountsTypeOK
  <1>1. \A v \in Users, k \in Tokens, t \in Tiers :
            /\ subscription[v][k][t] \in Subscriptions
            /\ subscription[v][k][t].start <= now
    BY DEF PeriodsStarted
  <1>2. \A k \in Tokens, t \in Tiers :
            /\ Cancelled(subscription[u][k][t], now) \in Subscriptions
            /\ Cancelled(subscription[u][k][t], now).start = subscription[u][k][t].start
    <2> SUFFICES ASSUME NEW s \in Subscriptions
                 PROVE  /\ Cancelled(s, now) \in Subscriptions
                        /\ Cancelled(s, now).start = s.start
      BY <1>1
    <2>1. now \in Nat
      OBVIOUS
    <2> QED
      BY <2>1 DEF Cancelled, CancelledNow, Subscriptions
  <1> DEFINE plans == [k \in Tokens |-> [t \in Tiers |->
                          IF k \in tokens /\ t = tier THEN Cancelled(subscription[u][k][t], now)
                          ELSE subscription[u][k][t]]]
  <1>3. /\ plans \in [Tokens -> [Tiers -> Subscriptions]]
        /\ \A k \in Tokens, t \in Tiers : plans[k][t].start <= now
    BY <1>1, <1>2
  <1>4. subscription' = [subscription EXCEPT ![u] = plans]
    BY DEF EndedPlans
  <1> HIDE DEF plans
  <1> QED
    BY <1>1, <1>3, <1>4 DEF PeriodsStarted

(* The user's other controls leave well-typed accounts (exit,              *)
(* set_user_paused, lower_pending, change_tier, change_payment_tokens).    *)
LEMMA TypeControls ==
    ASSUME TypeInv, NEW u \in Users,
           \/ Exit(u) \/ PauseUser(u) \/ ResumeUser(u)
           \/ \E pending \in 0..user[u].pending : LowerPending(u, pending)
           \/ \E tier \in Tiers : ChangeTier(u, tier)
           \/ \E tokens \in SUBSET Tokens : ChangePaymentTokens(u, tokens)
    PROVE  TypeInv'
  <1>1. user' \in [Users -> UserConfigs]
    <2>1. CASE Exit(u)
      <3>1. DefaultRules \in Rules
        BY LateriteAssumption DEF DefaultRules, Rules, Engines
      <3>2. [user[u] EXCEPT !.status = "Exited", !.rules = DefaultRules, !.pending = 0]
                \in UserConfigs
        BY <3>1, UserTypes, Zenon DEF UserConfigs, Statuses
      <3> QED
        BY <2>1, <3>2, UserTypes, Zenon DEF Exit
    <2>2. CASE PauseUser(u)
      <3>1. [user[u] EXCEPT !.status = "Paused"] \in UserConfigs
        BY UserTypes, Zenon DEF UserConfigs, Statuses
      <3> QED
        BY <2>2, <3>1, UserTypes, Zenon DEF PauseUser
    <2>3. CASE ResumeUser(u)
      <3>1. [user[u] EXCEPT !.status = "Active", !.attestable_from = RaisedFrom(u)]
                \in UserConfigs
        BY UserTypes, Zenon DEF UserConfigs, Statuses
      <3> QED
        BY <2>3, <3>1, UserTypes, Zenon DEF ResumeUser
    <2>4. CASE \E pending \in 0..user[u].pending : LowerPending(u, pending)
      <3>1. PICK pending \in 0..user[u].pending : LowerPending(u, pending)
        BY <2>4
      <3>2. pending \in Nat
        BY <3>1, UserTypes DEF UserConfigs
      <3>3. [user[u] EXCEPT !.pending = pending] \in UserConfigs
        BY <3>2, UserTypes, Zenon DEF UserConfigs
      <3> QED
        BY <3>1, <3>3, UserTypes, Zenon DEF LowerPending
    <2>5. CASE \E tier \in Tiers : ChangeTier(u, tier)
      <3>1. PICK tier \in Tiers : ChangeTier(u, tier)
        BY <2>5
      <3>2. user' = [user EXCEPT ![u].rules.tier = tier]
        BY <3>1 DEF ChangeTier
      <3>3. [user[u].rules EXCEPT !.tier = tier] \in Rules
        BY UserTypes, Zenon DEF UserConfigs, Rules
      <3>4. [user[u] EXCEPT !.rules = [user[u].rules EXCEPT !.tier = tier]] \in UserConfigs
        BY <3>3, UserTypes, Zenon DEF UserConfigs
      <3> QED
        BY <3>2, <3>4, UserTypes, Zenon
    <2>6. CASE \E tokens \in SUBSET Tokens : ChangePaymentTokens(u, tokens)
      <3>1. PICK tokens \in SUBSET Tokens : ChangePaymentTokens(u, tokens)
        BY <2>6
      <3> DEFINE rules == [user[u].rules EXCEPT !.payment_tokens = tokens]
                 from == IF tokens \ user[u].rules.payment_tokens # {} THEN RaisedFrom(u)
                         ELSE user[u].attestable_from
                 changed == [user[u] EXCEPT !.rules = rules, !.attestable_from = from]
      <3>2. rules \in Rules
        <4>1. user[u].rules \in Rules
          BY UserTypes DEF UserConfigs
        <4> QED
          BY <4>1 DEF Rules
      <3>3. from \in Nat
        BY UserTypes, Zenon DEF UserConfigs
      <3>4. user' = [user EXCEPT ![u] = changed]
        BY <3>1, Zenon DEF ChangePaymentTokens
      <3> HIDE DEF rules, from
      <3>5. changed \in UserConfigs
        BY <3>2, <3>3, UserTypes, Zenon DEF UserConfigs
      <3> QED
        BY <3>4, <3>5, UserTypes, Zenon
    <2> QED
      BY <2>1, <2>2, <2>3, <2>4, <2>5, <2>6
  <1>2. config' \in Configs
    <2>1. \/ config' = config
          \/ config' = [config EXCEPT !.user_count = SaturatingSub(@, 1)]
      BY DEF Exit, PauseUser, ResumeUser, LowerPending, ChangeTier, ChangePaymentTokens
    <2> QED
      BY <2>1, UserTypes, Zenon DEF Configs
  <1>3. /\ subscription' \in [Users -> [Tokens -> [Tiers -> Subscriptions]]]
        /\ PeriodsStarted'
    <2>1. CASE UNCHANGED <<now, subscription>>
      BY <2>1 DEF TypeInv, TypeOK, AccountsTypeOK, PeriodsStarted
    <2>2. CASE now' = now /\ \E tokens, tier : subscription' = EndedPlans(u, tokens, tier)
      BY <2>2, EndedPlansType
    <2> QED
      BY <2>1, <2>2 DEF Exit, PauseUser, ResumeUser, LowerPending, ChangeTier,
                        ChangePaymentTokens
  <1>4. UNCHANGED <<now, record, transfer, history>>
    BY DEF Exit, PauseUser, ResumeUser, LowerPending, ChangeTier, ChangePaymentTokens
  <1> QED
    BY <1>1, <1>2, <1>3, <1>4 DEF history, TypeInv, TypeOK, AccountsTypeOK, HistoryTypeOK

(* Attesting and closing a record leave well-typed accounts (attest,       *)
(* close_attestation).                                                     *)
LEMMA TypeAttest ==
    ASSUME TypeInv, NEW i \in TransferIds, Attest(i) \/ CloseAttestation(i)
    PROVE  TypeInv'
  <1> USE DEF TypeInv, TypeOK, AccountsTypeOK, HistoryTypeOK
  <1>1. CASE Attest(i)
    <2> DEFINE t == transfer[i]
               u == t.user
               invested == Invested(user[u].rules, t.kind, t.amount)
    <2>1. t \in Transfers /\ u \in Users /\ user[u] \in UserConfigs
      BY DEF Transfers
    <2>2. /\ t.kind \in Kinds /\ t.amount \in Nat /\ t.time + ATTESTATION_TTL \in Nat
          /\ user[u].rules \in Rules /\ user[u].pending \in Nat
      BY <2>1, AmountAssumption DEF Transfers, UserConfigs, ATTESTATION_TTL
    <2>3. invested \in Nat
      BY <2>2, InvestedNat
    <2>4. /\ user' = [user EXCEPT ![u].pending = SaturatingAdd(@, invested)]
          /\ record' = [record EXCEPT ![i] = t.time + ATTESTATION_TTL]
          /\ credits' = [credits EXCEPT ![i] = @ + 1]
          /\ owed' = [owed EXCEPT ![u] = @ + invested]
          /\ UNCHANGED <<now, config, subscription, transfer, joined, pulls, worth>>
      BY <1>1, Zenon DEF Attest
    <2> HIDE DEF t, u, invested
    <2>5. SaturatingAdd(user[u].pending, invested) \in Nat
      BY <2>2, <2>3, AmountAssumption DEF SaturatingAdd, Lesser
    <2>6. [user[u] EXCEPT !.pending = SaturatingAdd(user[u].pending, invested)] \in UserConfigs
      BY <2>1, <2>5, Zenon DEF UserConfigs
    <2>7. user' \in [Users -> UserConfigs]
      BY <2>1, <2>4, <2>6, Zenon
    <2>8. record' \in [TransferIds -> Nat] /\ credits' \in [TransferIds -> Nat]
      BY <2>2, <2>4
    <2>9. owed' \in [Users -> Int]
      BY <2>1, <2>3, <2>4
    <2> QED
      BY <2>4, <2>7, <2>8, <2>9 DEF pulls, PeriodsStarted
  <1>2. CASE CloseAttestation(i)
    BY <1>2 DEF CloseAttestation, history, PeriodsStarted
  <1> QED
    BY <1>1, <1>2

(* The admin leaves a well-typed configuration (update_config, set_paused, *)
(* set_market_calendar).                                                   *)
LEMMA TypeAdmin ==
    ASSUME TypeInv,
           \/ \E cap \in UserWeeklyCaps, seats \in MaxUsers : UpdateConfig(cap, seats)
           \/ \E paused \in KillSwitch : SetPaused(paused)
           \/ \E calendar \in Calendars : SetMarketCalendar(calendar)
    PROVE  TypeInv'
  <1>1. config' \in Configs
    <2>1. CASE \E cap \in UserWeeklyCaps, seats \in MaxUsers : UpdateConfig(cap, seats)
      <3>1. PICK cap \in UserWeeklyCaps, seats \in MaxUsers : UpdateConfig(cap, seats)
        BY <2>1
      <3>2. cap \in Nat /\ seats \in Nat
        BY LateriteAssumption
      <3> QED
        BY <3>1, <3>2, UserTypes, Zenon DEF UpdateConfig, Configs, TypeInv, TypeOK, AccountsTypeOK
    <2>2. CASE \E paused \in KillSwitch : SetPaused(paused)
      <3>1. PICK paused \in KillSwitch : SetPaused(paused)
        BY <2>2
      <3>2. paused \in BOOLEAN
        BY LateriteAssumption
      <3> QED
        BY <3>1, <3>2, Zenon DEF SetPaused, Configs, TypeInv, TypeOK, AccountsTypeOK
    <2>3. CASE \E calendar \in Calendars : SetMarketCalendar(calendar)
      BY <2>3, Zenon DEF SetMarketCalendar, Configs, TypeInv, TypeOK, AccountsTypeOK
    <2> QED
      BY <2>1, <2>2, <2>3
  <1>2. UNCHANGED <<now, user, subscription, record, transfer, history>>
    BY DEF UpdateConfig, SetPaused, SetMarketCalendar
  <1> QED
    BY <1>1, <1>2 DEF history, PeriodsStarted, TypeInv, TypeOK, AccountsTypeOK, HistoryTypeOK

(* What users do with their subscriptions directly leaves well-typed       *)
(* accounts.                                                               *)
LEMMA TypeElsewhere ==
    ASSUME TypeInv, NEW u \in Users, Elsewhere(u)
    PROVE  TypeInv'
  <1> USE DEF TypeInv, TypeOK, AccountsTypeOK
  <1>1. PICK k \in Tokens, tier \in Tiers :
            \/ Subscribe(u, k, tier)
            \/ CancelSubscription(u, k, tier)
            \/ ResumeSubscription(u, k, tier)
            \/ CloseSubscription(u, k, tier)
    BY DEF Elsewhere
  <1> DEFINE s == subscription[u][k][tier]
  <1>2. s \in Subscriptions /\ s.start <= now /\ now \in Nat
    BY DEF PeriodsStarted
  <1>3. PICK new : /\ new \in Subscriptions
                   /\ new.start <= now
                   /\ SetSubscription(u, k, tier, new)
    <2>1. CASE Subscribe(u, k, tier)
      <3>1. Subscribed(now) \in Subscriptions /\ Subscribed(now).start <= now
        BY <1>2 DEF Subscribed, Subscriptions
      <3> QED
        BY <2>1, <3>1 DEF Subscribe
    <2>2. CASE CancelSubscription(u, k, tier)
      <3>1. PeriodStart(s, now) + PLAN_PERIOD \in Nat
        BY <1>2, PeriodStartNat, PeriodAssumption
      <3>2. CancelledAtPeriodEnd(s, now) \in Subscriptions
        BY <1>2, <3>1 DEF CancelledAtPeriodEnd, Subscriptions
      <3>3. CancelledAtPeriodEnd(s, now).start = s.start
        BY <1>2 DEF CancelledAtPeriodEnd, Subscriptions
      <3> QED
        BY <1>2, <2>2, <3>2, <3>3 DEF CancelSubscription
    <2>3. CASE ResumeSubscription(u, k, tier)
      BY <1>2, <2>3 DEF ResumeSubscription, Resumed, Subscriptions
    <2>4. CASE CloseSubscription(u, k, tier)
      <3>1. Closed \in Subscriptions /\ Closed.start <= now
        BY <1>2 DEF Closed, Subscriptions
      <3> QED
        BY <2>4, <3>1 DEF CloseSubscription
    <2> QED
      BY <1>1, <2>1, <2>2, <2>3, <2>4
  <1> HIDE DEF s
  <1>4. subscription' \in [Users -> [Tokens -> [Tiers -> Subscriptions]]]
    BY <1>3 DEF SetSubscription
  <1>5. PeriodsStarted'
    BY <1>3 DEF SetSubscription, PeriodsStarted
  <1> QED
    BY <1>3, <1>4, <1>5 DEF SetSubscription, history, HistoryTypeOK

(* What a sweep pulls is two amounts (sweep: pull, remaining, capped).     *)
LEMMA SweptPullType ==
    ASSUME TypeInv, NEW u \in Users, NEW k \in Tokens, NEW balance \in Nat
    PROVE  SweptPull(u, k, balance) \in Pulls
  <1> USE DEF TypeInv, TypeOK, AccountsTypeOK
  <1> DEFINE c == user[u]
             s == subscription[u][k][c.rules.tier]
  <1>1. c \in UserConfigs /\ now \in Nat
    OBVIOUS
  <1>2. config.user_weekly_cap \in Nat
    BY DEF Configs
  <1>3. c.rules.tier \in Tiers
    BY DEF UserConfigs, Rules
  <1>4. s \in Subscriptions /\ TIERS[c.rules.tier] \in Nat
    BY <1>3, AmountAssumption
  <1>5. Remaining(s, TIERS[c.rules.tier], now) \in Nat
    BY <1>1, <1>4, SubscriptionType
  <1>6. Pull(c, k, balance, config.user_weekly_cap, config.market_calendar, now) \in Pulls
    BY <1>1, <1>2, PullType
  <1> QED
    BY <1>5, <1>6, CappedType DEF SweptPull

(* A sweep leaves well-typed accounts and counts (sweep).                  *)
LEMMA TypeSweep ==
    ASSUME TypeInv, NEW u \in Users, NEW k \in Tokens, NEW balance \in Balances,
           Sweep(u, k, balance)
    PROVE  TypeInv'
  <1> USE DEF TypeInv, TypeOK, AccountsTypeOK
  <1> DEFINE pull == SweptPull(u, k, balance)
             tier == user[u].rules.tier
             s == subscription[u][k][tier]
             bought == IF pull.engine > 0 THEN 1 ELSE 0
             recorded == Recorded(user[u], pull, now)
  <1>1. /\ user' = [user EXCEPT ![u] = [recorded EXCEPT !.last_sweep_day[k] = DayOf(now)]]
        /\ subscription' = [subscription EXCEPT ![u][k][tier] = Pulled(@, Total(pull), now)]
        /\ weekPulled' = [weekPulled EXCEPT ![u] = @ + Total(pull)]
        /\ daySweeps' = [daySweeps EXCEPT ![u][k] = @ + 1]
        /\ dayEngine' = [dayEngine EXCEPT ![u] = @ + bought]
        /\ weekEngine' = [weekEngine EXCEPT ![u] = @ + bought]
        /\ owed' = [owed EXCEPT ![u] = @ - pull.pending]
        /\ UNCHANGED <<now, config, record, transfer, joined, credits, worth>>
    BY Zenon DEF Sweep
  <1>2. user[u] \in UserConfigs /\ tier \in Tiers /\ s \in Subscriptions /\ s.start <= now
    BY DEF UserConfigs, Rules, PeriodsStarted
  <1>3. pull \in Pulls
    BY LateriteAssumption, SweptPullType
  <1>4. recorded \in UserConfigs
    BY <1>2, <1>3, RecordedType
  <1>5. Total(pull) \in Nat /\ pull.pending \in Nat /\ bought \in Nat
    BY <1>3 DEF Total, Pulls
  <1>6. DayOf(now) \in Days
    BY DivNat, AmountAssumption DEF DayOf, Days
  <1> HIDE DEF pull, tier, bought, recorded
  <1>7. user' \in [Users -> UserConfigs]
    <2>1. [recorded.last_sweep_day EXCEPT ![k] = DayOf(now)] \in [Tokens -> Days]
      BY <1>4, <1>6 DEF UserConfigs
    <2>2. [recorded EXCEPT !.last_sweep_day =
              [recorded.last_sweep_day EXCEPT ![k] = DayOf(now)]] \in UserConfigs
      BY <1>4, <2>1, Zenon DEF UserConfigs
    <2> QED
      BY <1>1, <2>2, Zenon
  <1>8. /\ Pulled(s, Total(pull), now) \in Subscriptions
        /\ Pulled(s, Total(pull), now).start <= now
    <2>1. now \in Nat /\ PeriodStart(s, now) \in Nat /\ PeriodStart(s, now) <= now
      BY <1>2, PeriodStartNat
    <2> HIDE DEF s
    <2>2. (IF PeriodStart(s, now) = s.start THEN s.pulled + Total(pull) ELSE Total(pull)) \in Nat
      BY <1>2, <1>5 DEF Subscriptions
    <2> QED
      BY <1>2, <2>1, <2>2, Zenon DEF Pulled, Subscriptions
  <1>9. subscription' \in [Users -> [Tokens -> [Tiers -> Subscriptions]]] /\ PeriodsStarted'
    BY <1>1, <1>2, <1>8 DEF PeriodsStarted
  <1>10. HistoryTypeOK'
    BY <1>1, <1>5 DEF HistoryTypeOK
  <1> QED
    BY <1>1, <1>7, <1>9, <1>10

(* What a transfer is worth at an instant is an amount (attest: invested). *)
LEMMA WorthNat ==
    ASSUME TypeInv, NEW i \in TransferIds
    PROVE  WorthNow(i) \in Nat
  <1> USE DEF TypeInv, TypeOK, AccountsTypeOK
  <1>1. transfer[i] \in Transfers /\ user[transfer[i].user] \in UserConfigs
    BY DEF Transfers
  <1>2. /\ transfer[i].kind \in Kinds /\ transfer[i].amount \in Nat
        /\ user[transfer[i].user].rules \in Rules
    BY <1>1 DEF Transfers, UserConfigs
  <1>3. Invested(user[transfer[i].user].rules, transfer[i].kind, transfer[i].amount) \in Nat
    BY <1>2, InvestedNat
  <1> QED
    BY <1>3 DEF WorthNow

(* The clock leaves well-typed accounts and counts (Clock, read by every   *)
(* instruction).                                                           *)
LEMMA TypeTick == TypeInv /\ Tick => TypeInv'
  <1> SUFFICES ASSUME TypeInv, Tick PROVE TypeInv'
    OBVIOUS
  <1> USE DEF TypeInv, TypeOK
  <1>1. AccountsTypeOK' /\ PeriodsStarted'
    BY DEF Tick, AccountsTypeOK, PeriodsStarted, Subscriptions
  <1>2. worth' \in [TransferIds -> Nat]
    BY WorthNat DEF Tick, HistoryTypeOK, Lesser
  <1>3. /\ weekPulled' \in [Users -> Nat]
        /\ weekEngine' \in [Users -> Nat]
        /\ dayEngine' \in [Users -> Nat]
        /\ daySweeps' \in [Users -> [Tokens -> Nat]]
    BY DEF Tick, HistoryTypeOK
  <1> QED
    BY <1>1, <1>2, <1>3 DEF Tick, HistoryTypeOK

(* Every step leaves well-typed accounts: the instructions, the clock and  *)
(* what users do elsewhere.                                                *)
LEMMA TypeStep == TypeInv /\ [Next]_vars => TypeInv'
  <1> SUFFICES ASSUME TypeInv, [Next]_vars PROVE TypeInv'
    OBVIOUS
  <1>1. CASE Tick
    BY <1>1, TypeTick
  <1>2. CASE Cranks
    BY <1>2, TypeSweep, TypeAttest DEF Cranks
  <1>3. CASE Admin
    BY <1>3, TypeAdmin DEF Admin
  <1>4. CASE \E u \in Users : Controls(u) \/ Elsewhere(u)
    BY <1>4, TypeEnroll, TypeControls, TypeElsewhere DEF Controls
  <1>5. CASE UNCHANGED vars
    BY <1>5 DEF vars, history, TypeInv, TypeOK, AccountsTypeOK, HistoryTypeOK, PeriodsStarted
  <1> QED
    BY <1>1, <1>2, <1>3, <1>4, <1>5 DEF Next

(* Type correctness: in every reachable state the accounts hold what       *)
(* state.rs says they hold, for every program of any size.                 *)
THEOREM TypeCorrect == Spec => []TypeOK
  <1>1. Init => TypeInv
    BY TypeInit
  <1>2. TypeInv /\ [Next]_vars => TypeInv'
    BY TypeStep
  <1>3. TypeInv => TypeOK
    BY DEF TypeInv
  <1> QED
    BY <1>1, <1>2, <1>3, PTL DEF Spec
=============================================================================
