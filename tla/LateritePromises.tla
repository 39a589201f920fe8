-------------------------- MODULE LateritePromises --------------------------
(***************************************************************************)
(* Proofs of what the program promises each user about their plans and     *)
(* their transfers: a sweep never asks a plan for more than its period     *)
(* allows, a plan left behind is dead, what waits to be invested was       *)
(* attested and not pulled yet, no attestation counts the past at today's  *)
(* settings, and a sweep withholds nothing that is due.                    *)
(***************************************************************************)
EXTENDS LateriteSafety

-----------------------------------------------------------------------------
(***************************************************************************)
(* A plan's period.                                                        *)
(***************************************************************************)

(* A capped pull is within its limit (Pull::capped).                       *)
LEMMA CappedWithin ==
    ASSUME NEW p \in Pulls, NEW limit \in Nat
    PROVE  Total(Capped(p, limit)) <= limit
  BY DEF Capped, Total, Pulls, Lesser

(* A subscription's period turns over exactly when the program, counting   *)
(* on its own, takes the whole amount to be available again (remaining).   *)
LEMMA PeriodTurns ==
    ASSUME NEW s \in Subscriptions, NEW t \in Nat, s.start <= t
    PROVE  PeriodStart(s, t) = s.start <=> ~(t - s.start >= PLAN_PERIOD)
  <1> DEFINE n == (t - s.start) \div PLAN_PERIOD
  <1>1. s.start \in Nat /\ t - s.start \in Nat /\ PLAN_PERIOD \in Nat \ {0}
    BY PeriodAssumption DEF Subscriptions
  <1>2. n \in Nat /\ (t - s.start < PLAN_PERIOD <=> n = 0)
    BY <1>1, DivNat, DivFirst
  <1> HIDE DEF n
  <1>3. n # 0 => n * PLAN_PERIOD > 0
    BY <1>1, <1>2
  <1>4. n * PLAN_PERIOD \in Nat /\ (n = 0 => n * PLAN_PERIOD = 0)
    BY <1>1, <1>2
  <1>5. PeriodStart(s, t) = s.start + n * PLAN_PERIOD
    BY DEF PeriodStart, n
  <1> QED
    BY <1>1, <1>2, <1>3, <1>4, <1>5

(* Pulling no more than what remains leaves a period within its amount,    *)
(* whether or not the pull opens a new period (remaining, sweep).          *)
LEMMA PulledWithin ==
    ASSUME NEW s \in Subscriptions, NEW t \in Nat, s.start <= t,
           NEW limit \in Nat, s.pulled <= limit,
           NEW amount \in Nat, amount <= Remaining(s, limit, t)
    PROVE  Pulled(s, amount, t).pulled <= limit
  <1>1. s.pulled \in Nat /\ s.start \in Nat
    BY DEF Subscriptions
  <1>2. Pulled(s, amount, t).pulled
            = IF PeriodStart(s, t) = s.start THEN s.pulled + amount ELSE amount
    BY DEF Pulled, Subscriptions
  <1>3. amount <= limit
    BY <1>1 DEF Remaining
  <1>4. ~(t - s.start >= PLAN_PERIOD) => s.pulled + amount <= limit
    BY <1>1 DEF Remaining
  <1> QED
    BY <1>2, <1>3, <1>4, PeriodTurns

(* A plan is pulled by sweeps alone; everything else keeps or resets what  *)
(* its period has pulled (sweep; Cancellation.cancel; subscribe, cancel,   *)
(* resume and close elsewhere).                                            *)
LEMMA PlanSteps ==
    ASSUME TypeInv, [Next]_vars
    PROVE  \/ \E u \in Users, k \in Tokens, balance \in Balances : Sweep(u, k, balance)
           \/ \A v \in Users, q \in Tokens, tier \in Tiers :
                  subscription'[v][q][tier].pulled \in {0, subscription[v][q][tier].pulled}
  <1> DEFINE Kept == \A v \in Users, q \in Tokens, tier \in Tiers :
                  subscription'[v][q][tier].pulled \in {0, subscription[v][q][tier].pulled}
  <1>1. /\ subscription \in [Users -> [Tokens -> [Tiers -> Subscriptions]]]
        /\ \A v \in Users, q \in Tokens, tier \in Tiers :
               subscription[v][q][tier] \in Subscriptions
    BY DEF TypeInv, TypeOK, AccountsTypeOK
  <1>2. CASE UNCHANGED subscription
    BY <1>2
  <1>3. ASSUME NEW u \in Users, NEW tokens, NEW plan,
               subscription' = EndedPlans(u, tokens, plan)
        PROVE  Kept
    <2>1. \A q \in Tokens, tier \in Tiers :
              Cancelled(subscription[u][q][tier], now).pulled = subscription[u][q][tier].pulled
      BY <1>1 DEF Cancelled, CancelledNow, Subscriptions
    <2> QED
      BY <1>1, <1>3, <2>1 DEF EndedPlans
  <1>4. ASSUME NEW u \in Users, Elsewhere(u)
        PROVE  Kept
    <2>1. PICK k \in Tokens, tier \in Tiers :
              \/ Subscribe(u, k, tier)
              \/ CancelSubscription(u, k, tier)
              \/ ResumeSubscription(u, k, tier)
              \/ CloseSubscription(u, k, tier)
      BY <1>4 DEF Elsewhere
    <2>2. PICK new : /\ subscription' = [subscription EXCEPT ![u][k][tier] = new]
                     /\ new.pulled \in {0, subscription[u][k][tier].pulled}
      <3> DEFINE s == subscription[u][k][tier]
      <3>1. s \in Subscriptions
        BY <1>1
      <3>2. /\ Subscribed(now).pulled = 0 /\ Closed.pulled = 0
            /\ CancelledAtPeriodEnd(s, now).pulled = s.pulled
            /\ Resumed(s).pulled = s.pulled
        BY <3>1 DEF Subscribed, Closed, CancelledAtPeriodEnd, Resumed, Subscriptions
      <3> QED
        BY <2>1, <3>2, Zenon DEF Subscribe, CancelSubscription, ResumeSubscription,
                                 CloseSubscription, SetSubscription
    <2> QED
      BY <1>1, <2>2
  <1>5. ASSUME NEW u \in Users, Controls(u)
        PROVE  Kept
    <2>1. \/ UNCHANGED subscription
          \/ \E tokens, plan : subscription' = EndedPlans(u, tokens, plan)
      BY <1>5, Zenon DEF Controls, Enroll, Reactivate, UpdateSettings, Exit, PauseUser, ResumeUser,
           LowerPending, ChangeTier, ChangePaymentTokens
    <2> QED
      BY <1>2, <1>3, <2>1
  <1>6. CASE Tick \/ Admin \/ UNCHANGED vars
    BY <1>2, <1>6 DEF Tick, Admin, UpdateConfig, SetPaused, SetMarketCalendar, vars
  <1>7. CASE \E i \in TransferIds : Attest(i) \/ CloseAttestation(i)
    BY <1>2, <1>7, Zenon DEF Attest, CloseAttestation
  <1> QED
    BY <1>4, <1>5, <1>6, <1>7 DEF Next, Cranks

(* What a sweep asks of Subscriptions is within the plan's period in every *)
(* reachable state, so that the two programs' own counts never disagree.   *)
THEOREM PlansKept == Spec => []PlansWithinPeriod
  <1>1. Init => TypeInv /\ PlansWithinPeriod
    <2> SUFFICES ASSUME Init PROVE PlansWithinPeriod
      BY TypeInit
    <2>1. \A tier \in Tiers : 0 <= TIERS[tier]
      BY AmountAssumption
    <2> QED
      BY <2>1 DEF Init, PlansWithinPeriod, Closed
  <1>2. TypeInv /\ PlansWithinPeriod /\ [Next]_vars => TypeInv' /\ PlansWithinPeriod'
    <2> SUFFICES ASSUME TypeInv, PlansWithinPeriod, [Next]_vars
                 PROVE  PlansWithinPeriod'
      BY TypeStep
    <2>1. /\ subscription \in [Users -> [Tokens -> [Tiers -> Subscriptions]]]
          /\ now \in Nat
          /\ \A tier \in Tiers : TIERS[tier] \in Nat
      BY AmountAssumption DEF TypeInv, TypeOK, AccountsTypeOK
    <2>2. ASSUME NEW u \in Users, NEW k \in Tokens, NEW balance \in Balances,
                 Sweep(u, k, balance)
          PROVE  PlansWithinPeriod'
      <3> DEFINE pull == SweptPull(u, k, balance)
                 tier == user[u].rules.tier
                 s == subscription[u][k][tier]
                 asked == Pull(user[u], k, balance, config.user_weekly_cap,
                               config.market_calendar, now)
                 allowed == Remaining(s, TIERS[tier], now)
      <3>1. /\ user[u] \in UserConfigs /\ tier \in Tiers /\ s \in Subscriptions
            /\ s.start <= now /\ s.pulled <= TIERS[tier] /\ TIERS[tier] \in Nat
            /\ config.user_weekly_cap \in Nat /\ balance \in Nat
        BY <2>1, LateriteAssumption
        DEF TypeInv, TypeOK, AccountsTypeOK, UserConfigs, Rules, Configs, PeriodsStarted,
            PlansWithinPeriod
      <3>2. asked \in Pulls /\ allowed \in Nat /\ pull = Capped(asked, allowed)
        BY <2>1, <3>1, PullType, SubscriptionType DEF SweptPull
      <3>3. subscription' = [subscription EXCEPT ![u][k][tier] = Pulled(s, Total(pull), now)]
        BY <2>2, Zenon DEF Sweep
      <3> HIDE DEF asked, allowed, pull, tier, s
      <3>4. Total(pull) \in Nat /\ Total(pull) <= allowed
        <4>1. pull \in Pulls
          BY <3>2, CappedType
        <4> QED
          BY <3>2, <4>1, CappedWithin DEF Total, Pulls
      <3>5. Pulled(s, Total(pull), now).pulled <= TIERS[tier]
        BY <2>1, <3>1, <3>4, PulledWithin DEF allowed
      <3> QED
        BY <2>1, <3>1, <3>3, <3>5 DEF PlansWithinPeriod
    <2>3. CASE \A v \in Users, q \in Tokens, tier \in Tiers :
                   subscription'[v][q][tier].pulled \in {0, subscription[v][q][tier].pulled}
      BY <2>1, <2>3 DEF PlansWithinPeriod
    <2> QED
      BY <2>2, <2>3, PlanSteps
  <1> QED
    BY <1>1, <1>2, PTL DEF Spec

-----------------------------------------------------------------------------
(***************************************************************************)
(* What waits to be invested.                                              *)
(***************************************************************************)

(* A capped pull takes no more of the pending amount than there is (pull,  *)
(* Pull::capped).                                                          *)
LEMMA PullTakesPending ==
    ASSUME TypeInv, NEW u \in Users, NEW k \in Tokens, NEW balance \in Nat
    PROVE  SweptPull(u, k, balance).pending <= user[u].pending
  <1> DEFINE c == user[u]
             room == Room(c, k, balance, config.user_weekly_cap, now)
             engine == IF EngineDue(c, config.market_calendar, now)
                       THEN Lesser(c.rules.engine_amount, room) ELSE 0
             asked == Pull(c, k, balance, config.user_weekly_cap, config.market_calendar, now)
             allowed == Remaining(subscription[u][k][c.rules.tier], TIERS[c.rules.tier], now)
  <1>1. /\ c \in UserConfigs /\ now \in Nat /\ config.user_weekly_cap \in Nat
        /\ c.pending \in Nat
        /\ TIERS[c.rules.tier] \in Nat
        /\ subscription[u][k][c.rules.tier] \in Subscriptions
    BY AmountAssumption DEF TypeInv, TypeOK, AccountsTypeOK, UserConfigs, Rules, Configs
  <1>2. asked \in Pulls /\ allowed \in Nat
    BY <1>1, PullType, SubscriptionType
  <1>3. \/ asked.pending = Lesser(c.pending, room - engine)
        \/ asked.pending = 0
    BY DEF Pull, NoPull
  <1>4. SweptPull(u, k, balance).pending <= asked.pending
    <2>1. SweptPull(u, k, balance) = Capped(asked, allowed)
      BY DEF SweptPull
    <2> HIDE DEF asked, allowed
    <2> QED
      BY <1>2, <2>1 DEF Capped, Pulls, Lesser
  <1>5. asked.pending \in Nat
    BY <1>2 DEF Pulls
  <1>6. SweptPull(u, k, balance).pending \in Nat
    BY SweptPullType DEF Pulls
  <1>7. asked.pending <= c.pending
    <2>1. room \in Nat
      BY <1>1, RoomNat
    <2>2. c.rules.engine_amount \in Nat
      BY <1>1 DEF UserConfigs, Rules
    <2> HIDE DEF room, asked
    <2>3. engine \in Nat
      BY <2>1, <2>2 DEF Lesser
    <2> QED
      BY <1>1, <1>3, <2>1, <2>3 DEF Lesser
  <1> HIDE DEF asked
  <1> QED
    BY <1>1, <1>4, <1>5, <1>6, <1>7

(* What a sweep takes of the pending amount leaves it by as much: what is  *)
(* kept for later by the caps keeps waiting (record).                      *)
LEMMA SweepPending ==
    ASSUME TypeInv, NEW u \in Users, NEW k \in Tokens, NEW balance \in Balances,
           Sweep(u, k, balance)
    PROVE  \E taken \in Nat :
               /\ taken <= user[u].pending
               /\ user'[u].pending = user[u].pending - taken
               /\ owed' = [owed EXCEPT ![u] = @ - taken]
               /\ \A v \in Users \ {u} : user'[v] = user[v]
  <1> DEFINE pull == SweptPull(u, k, balance)
             recorded == Recorded(user[u], pull, now)
  <1>1. /\ user' = [user EXCEPT ![u] = [recorded EXCEPT !.last_sweep_day[k] = DayOf(now)]]
        /\ owed' = [owed EXCEPT ![u] = @ - pull.pending]
    BY Zenon DEF Sweep
  <1>2. /\ now \in Nat /\ user \in [Users -> UserConfigs] /\ user[u] \in UserConfigs
        /\ balance \in Nat
    BY LateriteAssumption DEF TypeInv, TypeOK, AccountsTypeOK
  <1>3. /\ pull \in Pulls /\ recorded \in UserConfigs
        /\ pull.pending \in Nat /\ pull.pending <= user[u].pending
    BY <1>2, SweptPullType, RecordedType, PullTakesPending DEF Pulls
  <1>4. recorded.pending = user[u].pending - pull.pending
    <2>1. user[u].pending \in Nat
      BY <1>2 DEF UserConfigs
    <2>2. recorded.pending = PendingLeft(user[u], pull)
      BY <1>2 DEF Recorded, UserConfigs
    <2> HIDE DEF pull, recorded
    <2> QED
      BY <1>3, <2>1, <2>2 DEF PendingLeft, SaturatingSub
  <1> HIDE DEF pull, recorded
  <1>5. /\ user'[u].pending = user[u].pending - pull.pending
        /\ \A v \in Users \ {u} : user'[v] = user[v]
    BY <1>1, <1>2, <1>3, <1>4 DEF UserConfigs
  <1> QED
    BY <1>1, <1>3, <1>5

(* What an attestation adds to the pending amount is at most the transfer  *)
(* is worth; nothing is added beyond what the account can hold (attest).   *)
LEMMA AttestPending ==
    ASSUME TypeInv, NEW i \in TransferIds, Attest(i)
    PROVE  LET u == transfer[i].user
               invested == Invested(user[u].rules, transfer[i].kind, transfer[i].amount)
           IN  /\ u \in Users /\ invested \in Nat
               /\ user'[u].pending <= user[u].pending + invested
               /\ owed' = [owed EXCEPT ![u] = @ + invested]
               /\ \A v \in Users \ {u} : user'[v] = user[v]
  <1> DEFINE t == transfer[i]
             u == t.user
             invested == Invested(user[u].rules, t.kind, t.amount)
  <1>1. t \in Transfers /\ u \in Users /\ user[u] \in UserConfigs
    BY DEF Transfers, TypeInv, TypeOK, AccountsTypeOK
  <1>2. /\ t.kind \in Kinds /\ t.amount \in Nat
        /\ user[u].rules \in Rules /\ user[u].pending \in Nat
    BY <1>1 DEF Transfers, UserConfigs
  <1>3. invested \in Nat
    BY <1>2, InvestedNat
  <1>4. /\ user' = [user EXCEPT ![u].pending = SaturatingAdd(@, invested)]
        /\ owed' = [owed EXCEPT ![u] = @ + invested]
    BY Zenon DEF Attest
  <1> HIDE DEF t, u, invested
  <1>5. SaturatingAdd(user[u].pending, invested) <= user[u].pending + invested
    BY <1>2, <1>3, AmountAssumption DEF SaturatingAdd, Lesser
  <1>6. /\ user'[u].pending = SaturatingAdd(user[u].pending, invested)
        /\ \A v \in Users \ {u} : user'[v] = user[v]
    BY <1>1, <1>4 DEF UserConfigs, TypeInv, TypeOK, AccountsTypeOK
  <1> QED
    BY <1>1, <1>3, <1>4, <1>5, <1>6 DEF t, u, invested

(* Everything but an attestation and a sweep keeps, lowers or clears what  *)
(* waits, and credits nothing (exit, lower_pending, user.rs).              *)
LEMMA PendingSteps ==
    ASSUME TypeInv, [Next]_vars
    PROVE  \/ \E u \in Users, k \in Tokens, balance \in Balances : Sweep(u, k, balance)
           \/ \E i \in TransferIds : Attest(i)
           \/ /\ UNCHANGED owed
              /\ \A v \in Users : user'[v].pending <= user[v].pending
  <1> DEFINE Lowered == UNCHANGED owed /\ \A v \in Users : user'[v].pending <= user[v].pending
  <1>1. /\ user \in [Users -> UserConfigs]
        /\ \A v \in Users : user[v] \in UserConfigs /\ user[v].pending \in Nat
    BY DEF TypeInv, TypeOK, AccountsTypeOK, UserConfigs
  <1>2. CASE UNCHANGED <<user, owed>>
    BY <1>1, <1>2
  <1>3. ASSUME NEW u \in Users, NEW c, UNCHANGED owed, user' = [user EXCEPT ![u] = c],
               c.pending <= user[u].pending
        PROVE  Lowered
    BY <1>1, <1>3
  <1>4. ASSUME NEW u \in Users, Controls(u)
        PROVE  Lowered
    <2>1. ASSUME NEW p \in Params, Enroll(u, p) \/ Reactivate(u, p) \/ UpdateSettings(u, p)
          PROVE  Lowered
      <3> DEFINE from == IF CountsMore(user[u].rules, p) THEN RaisedFrom(u)
                         ELSE user[u].attestable_from
                 entered == [status |-> "Active", rules |-> p, enrolled_at |-> now,
                             week |-> 0, week_spent |-> 0, engine_ran_at |-> 0,
                             pending |-> 0, attestable_from |-> now,
                             last_sweep_day |-> [k \in Tokens |-> 0]]
                 returned == [user[u] EXCEPT !.status = "Active", !.rules = p,
                                             !.attestable_from = RaisedFrom(u)]
                 updated == [user[u] EXCEPT !.rules = p, !.attestable_from = from]
      <3>1. /\ UNCHANGED owed
            /\ \/ user' = [user EXCEPT ![u] = entered]
               \/ user' = [user EXCEPT ![u] = returned]
               \/ user' = [user EXCEPT ![u] = updated]
        BY <2>1, Zenon DEF Enroll, Reactivate, UpdateSettings, history
      <3>2. entered.pending = 0
        OBVIOUS
      <3>3. returned.pending = user[u].pending
        BY <1>1 DEF UserConfigs
      <3> HIDE DEF from
      <3>4. updated.pending = user[u].pending
        BY <1>1 DEF UserConfigs
      <3> HIDE DEF entered, returned, updated
      <3> QED
        BY <1>1, <1>3, <3>1, <3>2, <3>3, <3>4
    <2>2. CASE Exit(u)
      <3>1. [user[u] EXCEPT !.status = "Exited", !.rules = DefaultRules, !.pending = 0].pending = 0
        BY <1>1 DEF UserConfigs
      <3>2. /\ UNCHANGED owed
            /\ user' = [user EXCEPT ![u] = [user[u] EXCEPT
                           !.status = "Exited", !.rules = DefaultRules, !.pending = 0]]
        BY <2>2, Zenon DEF Exit, history
      <3> QED
        BY <1>1, <1>3, <3>1, <3>2
    <2>3. CASE PauseUser(u)
      BY <1>1, <2>3 DEF PauseUser, history, UserConfigs
    <2>4. CASE ResumeUser(u)
      BY <1>1, <2>4 DEF ResumeUser, history, UserConfigs
    <2>5. CASE \E pending \in 0..user[u].pending : LowerPending(u, pending)
      BY <1>1, <2>5 DEF LowerPending, history, UserConfigs
    <2>6. CASE \E tier \in Tiers : ChangeTier(u, tier)
      BY <1>1, <2>6 DEF ChangeTier, history, UserConfigs
    <2>7. ASSUME NEW tokens \in SUBSET Tokens, ChangePaymentTokens(u, tokens)
          PROVE  Lowered
      <3> DEFINE from == IF tokens \ user[u].rules.payment_tokens # {} THEN RaisedFrom(u)
                         ELSE user[u].attestable_from
      <3>1. /\ UNCHANGED owed
            /\ user' = [user EXCEPT ![u] = [user[u] EXCEPT
                           !.rules.payment_tokens = tokens, !.attestable_from = from]]
        BY <2>7, Zenon DEF ChangePaymentTokens, history
      <3> HIDE DEF from
      <3> QED
        BY <1>1, <3>1 DEF UserConfigs
    <2> QED
      BY <1>4, <2>1, <2>2, <2>3, <2>4, <2>5, <2>6, <2>7 DEF Controls
  <1>5. CASE Tick \/ Admin \/ UNCHANGED vars
    BY <1>2, <1>5 DEF Tick, Admin, UpdateConfig, SetPaused, SetMarketCalendar, vars, history
  <1>6. CASE \E i \in TransferIds : CloseAttestation(i)
    BY <1>2, <1>6 DEF CloseAttestation, history
  <1>7. CASE \E u \in Users : Elsewhere(u)
    BY <1>2, <1>7 DEF Elsewhere, Subscribe, CancelSubscription, ResumeSubscription,
                      CloseSubscription, SetSubscription, history
  <1> QED
    BY <1>4, <1>5, <1>6, <1>7 DEF Next, Cranks

(* Nothing attested is pulled twice: what waits is never worth more than   *)
(* what was credited and not pulled yet, in all tokens together.           *)
THEOREM PendingIsOwed == Spec => []PendingOwed
  <1>1. Init => TypeInv /\ PendingOwed
    <2>1. Init => PendingOwed
      BY DEF Init, PendingOwed, NoUserConfig
    <2> QED
      BY <2>1, TypeInit
  <1>2. TypeInv /\ PendingOwed /\ [Next]_vars => TypeInv' /\ PendingOwed'
    <2> SUFFICES ASSUME TypeInv, PendingOwed, [Next]_vars PROVE PendingOwed'
      BY TypeStep
    <2>1. /\ owed \in [Users -> Int]
          /\ \A v \in Users : user[v].pending \in Nat /\ user'[v].pending \in Nat
      BY TypeStep DEF TypeInv, TypeOK, AccountsTypeOK, HistoryTypeOK, UserConfigs
    <2>2. ASSUME NEW u \in Users, NEW k \in Tokens, NEW balance \in Balances,
                 Sweep(u, k, balance)
          PROVE  PendingOwed'
      BY <2>1, <2>2, SweepPending DEF PendingOwed
    <2>3. ASSUME NEW i \in TransferIds, Attest(i)
          PROVE  PendingOwed'
      <3> DEFINE u == transfer[i].user
                 invested == Invested(user[u].rules, transfer[i].kind, transfer[i].amount)
      <3>1. /\ u \in Users /\ invested \in Nat
            /\ user'[u].pending <= user[u].pending + invested
            /\ owed' = [owed EXCEPT ![u] = @ + invested]
            /\ \A v \in Users \ {u} : user'[v] = user[v]
        BY <2>3, AttestPending
      <3> HIDE DEF u, invested
      <3> QED
        BY <2>1, <3>1 DEF PendingOwed
    <2>4. CASE /\ UNCHANGED owed
               /\ \A v \in Users : user'[v].pending <= user[v].pending
      BY <2>1, <2>4 DEF PendingOwed
    <2> QED
      BY <2>2, <2>3, <2>4, PendingSteps
  <1> QED
    BY <1>1, <1>2, PTL DEF Spec

-----------------------------------------------------------------------------
(***************************************************************************)
(* Who changes a user's settings.                                          *)
(***************************************************************************)

KeepsSettings(u) ==
    /\ user'[u].status = user[u].status
    /\ user'[u].rules = user[u].rules
    /\ user'[u].attestable_from = user[u].attestable_from

\* The controls that may change what a user's transfers count for.
ChangesSettings(u) ==
    \/ \E p \in Params : Enroll(u, p) \/ Reactivate(u, p) \/ UpdateSettings(u, p)
    \/ Exit(u)
    \/ PauseUser(u)
    \/ ResumeUser(u)
    \/ \E tier \in Tiers : ChangeTier(u, tier)
    \/ \E tokens \in SUBSET Tokens : ChangePaymentTokens(u, tokens)

(* A user's control leaves the other users alone.                          *)
LEMMA ControlsOwnAccount ==
    ASSUME TypeInv, NEW u \in Users, Controls(u), NEW v \in Users \ {u}
    PROVE  user'[v] = user[v]
  <1>1. PICK c : user' = [user EXCEPT ![u] = c]
    <2>1. CASE \E p \in Params : Enroll(u, p) \/ Reactivate(u, p) \/ UpdateSettings(u, p)
      BY <2>1, Zenon DEF Enroll, Reactivate, UpdateSettings
    <2>2. CASE Exit(u) \/ PauseUser(u) \/ ResumeUser(u)
      BY <2>2, Zenon DEF Exit, PauseUser, ResumeUser
    <2>3. CASE \E pending \in 0..user[u].pending : LowerPending(u, pending)
      BY <2>3, Zenon DEF LowerPending
    <2>4. CASE \E tier \in Tiers : ChangeTier(u, tier)
      BY <2>4, Zenon DEF ChangeTier
    <2>5. CASE \E tokens \in SUBSET Tokens : ChangePaymentTokens(u, tokens)
      BY <2>5, Zenon DEF ChangePaymentTokens
    <2> QED
      BY <2>1, <2>2, <2>3, <2>4, <2>5 DEF Controls
  <1> QED
    BY <1>1 DEF TypeInv, TypeOK, AccountsTypeOK

(* Only a user's own controls change their settings: no sweep, attestation *)
(* or admin does (record, attest).                                         *)
LEMMA SettingsSteps ==
    ASSUME TypeInv, [Next]_vars, NEW u \in Users
    PROVE  ChangesSettings(u) \/ KeepsSettings(u)
  <1>1. user \in [Users -> UserConfigs] /\ user[u] \in UserConfigs
    BY DEF TypeInv, TypeOK, AccountsTypeOK
  <1>2. CASE user'[u] = user[u]
    BY <1>2 DEF KeepsSettings
  <1>3. ASSUME NEW v \in Users, NEW k \in Tokens, NEW balance \in Balances,
               Sweep(v, k, balance)
        PROVE  KeepsSettings(u)
    <2> DEFINE recorded == Recorded(user[v], SweptPull(v, k, balance), now)
    <2>1. user' = [user EXCEPT ![v] = [recorded EXCEPT !.last_sweep_day[k] = DayOf(now)]]
      BY <1>3, Zenon DEF Sweep
    <2>2. user[v] \in UserConfigs /\ recorded \in UserConfigs
      BY <1>1, LateriteAssumption, SweptPullType, RecordedType DEF TypeInv, TypeOK, AccountsTypeOK
    <2>3. /\ recorded.status = user[v].status
          /\ recorded.rules = user[v].rules
          /\ recorded.attestable_from = user[v].attestable_from
      BY <2>2 DEF Recorded, UserConfigs
    <2> HIDE DEF recorded
    <2> QED
      BY <1>1, <2>1, <2>2, <2>3 DEF KeepsSettings, UserConfigs
  <1>4. ASSUME NEW i \in TransferIds, Attest(i)
        PROVE  KeepsSettings(u)
    <2>1. PICK pending : user' = [user EXCEPT ![transfer[i].user].pending = pending]
      BY <1>4, Zenon DEF Attest
    <2>2. transfer[i].user \in Users
      BY DEF TypeInv, TypeOK, AccountsTypeOK, Transfers
    <2> QED
      BY <1>1, <2>1, <2>2 DEF KeepsSettings, UserConfigs
  <1>5. ASSUME NEW v \in Users, Controls(v)
        PROVE  ChangesSettings(u) \/ KeepsSettings(u)
    <2>1. CASE v # u
      BY <1>2, <1>5, <2>1, ControlsOwnAccount
    <2>2. CASE \E pending \in 0..user[u].pending : LowerPending(u, pending)
      BY <1>1, <2>2 DEF LowerPending, KeepsSettings, UserConfigs
    <2> QED
      BY <1>5, <2>1, <2>2 DEF Controls, ChangesSettings
  <1>6. CASE Tick \/ Admin \/ UNCHANGED vars
    BY <1>2, <1>6 DEF Tick, Admin, UpdateConfig, SetPaused, SetMarketCalendar, vars
  <1>7. CASE \E i \in TransferIds : CloseAttestation(i)
    BY <1>2, <1>7 DEF CloseAttestation
  <1>8. CASE \E v \in Users : Elsewhere(v)
    BY <1>2, <1>8 DEF Elsewhere, Subscribe, CancelSubscription, ResumeSubscription,
                      CloseSubscription, SetSubscription
  <1> QED
    BY <1>3, <1>4, <1>5, <1>6, <1>7, <1>8 DEF Next, Cranks

(* What each control makes of the settings of its user (enroll,            *)
(* reactivate, set_settings, exit, change_tier, change_payment_tokens).    *)
LEMMA NewSettings ==
    ASSUME TypeInv, NEW u \in Users
    PROVE  /\ \A p \in Params : Enroll(u, p) =>
                  /\ user[u].status = "Absent"
                  /\ user'[u].status = "Active"
                  /\ user'[u].rules = p
                  /\ user'[u].attestable_from = now
           /\ \A p \in Params : Reactivate(u, p) =>
                  /\ user[u].status = "Exited"
                  /\ user'[u].status = "Active"
                  /\ user'[u].rules = p
                  /\ user'[u].attestable_from = RaisedFrom(u)
           /\ \A p \in Params : UpdateSettings(u, p) =>
                  /\ Seated(u)
                  /\ p.tier = user[u].rules.tier
                  /\ p.payment_tokens = user[u].rules.payment_tokens
                  /\ user'[u].status = user[u].status
                  /\ user'[u].rules = p
                  /\ IF CountsMore(user[u].rules, p)
                     THEN user'[u].attestable_from = RaisedFrom(u)
                     ELSE user'[u].attestable_from = user[u].attestable_from
           /\ Exit(u) =>
                  /\ user'[u].status = "Exited"
                  /\ user'[u].rules = DefaultRules
           /\ PauseUser(u) =>
                  /\ Seated(u)
                  /\ user'[u].status = "Paused"
                  /\ user'[u].rules = user[u].rules
           /\ ResumeUser(u) =>
                  /\ Seated(u)
                  /\ user'[u].status = "Active"
                  /\ user'[u].rules = user[u].rules
                  /\ user'[u].attestable_from = RaisedFrom(u)
           /\ \A tier \in Tiers : ChangeTier(u, tier) =>
                  /\ Seated(u)
                  /\ user'[u].status = user[u].status
                  /\ user'[u].rules = [user[u].rules EXCEPT !.tier = tier]
                  /\ user'[u].attestable_from = user[u].attestable_from
           /\ \A tokens \in SUBSET Tokens : ChangePaymentTokens(u, tokens) =>
                  /\ Seated(u)
                  /\ user'[u].status = user[u].status
                  /\ user'[u].rules = [user[u].rules EXCEPT !.payment_tokens = tokens]
                  /\ IF tokens \ user[u].rules.payment_tokens # {}
                     THEN user'[u].attestable_from = RaisedFrom(u)
                     ELSE user'[u].attestable_from = user[u].attestable_from
  <1>1. user \in [Users -> UserConfigs] /\ user[u] \in UserConfigs /\ user[u].rules \in Rules
    BY DEF TypeInv, TypeOK, AccountsTypeOK, UserConfigs
  <1>2. ASSUME NEW p \in Params, Enroll(u, p)
        PROVE  /\ user[u].status = "Absent"
               /\ user'[u].status = "Active"
               /\ user'[u].rules = p
               /\ user'[u].attestable_from = now
    BY <1>1, <1>2 DEF Enroll
  <1>3. ASSUME NEW p \in Params, Reactivate(u, p)
        PROVE  /\ user[u].status = "Exited"
               /\ user'[u].status = "Active"
               /\ user'[u].rules = p
               /\ user'[u].attestable_from = RaisedFrom(u)
    BY <1>1, <1>3 DEF Reactivate, UserConfigs
  <1>4. ASSUME NEW p \in Params, UpdateSettings(u, p)
        PROVE  /\ Seated(u)
               /\ p.tier = user[u].rules.tier
               /\ p.payment_tokens = user[u].rules.payment_tokens
               /\ user'[u].status = user[u].status
               /\ user'[u].rules = p
               /\ user'[u].attestable_from = IF CountsMore(user[u].rules, p) THEN RaisedFrom(u)
                                             ELSE user[u].attestable_from
    <2> DEFINE from == IF CountsMore(user[u].rules, p) THEN RaisedFrom(u)
                       ELSE user[u].attestable_from
    <2>1. user' = [user EXCEPT ![u] = [user[u] EXCEPT !.rules = p, !.attestable_from = from]]
      BY <1>4, Zenon DEF UpdateSettings
    <2>2. /\ Seated(u)
          /\ p.tier = user[u].rules.tier
          /\ p.payment_tokens = user[u].rules.payment_tokens
      BY <1>4 DEF UpdateSettings
    <2> HIDE DEF from
    <2>3. /\ user'[u].status = user[u].status
          /\ user'[u].rules = p
          /\ user'[u].attestable_from = from
      BY <1>1, <2>1 DEF UserConfigs
    <2> QED
      BY <2>2, <2>3 DEF from
  <1>5. ASSUME Exit(u)
        PROVE  user'[u].status = "Exited" /\ user'[u].rules = DefaultRules
    BY <1>1, <1>5 DEF Exit, UserConfigs
  <1>6. ASSUME PauseUser(u)
        PROVE  /\ Seated(u)
               /\ user'[u].status = "Paused"
               /\ user'[u].rules = user[u].rules
    BY <1>1, <1>6 DEF PauseUser, Seated, UserConfigs
  <1>7. ASSUME ResumeUser(u)
        PROVE  /\ Seated(u)
               /\ user'[u].status = "Active"
               /\ user'[u].rules = user[u].rules
               /\ user'[u].attestable_from = RaisedFrom(u)
    BY <1>1, <1>7 DEF ResumeUser, Seated, UserConfigs
  <1>8. ASSUME NEW tier \in Tiers, ChangeTier(u, tier)
        PROVE  /\ Seated(u)
               /\ user'[u].status = user[u].status
               /\ user'[u].rules = [user[u].rules EXCEPT !.tier = tier]
               /\ user'[u].attestable_from = user[u].attestable_from
    BY <1>1, <1>8 DEF ChangeTier, UserConfigs
  <1>9. ASSUME NEW tokens \in SUBSET Tokens, ChangePaymentTokens(u, tokens)
        PROVE  /\ Seated(u)
               /\ user'[u].status = user[u].status
               /\ user'[u].rules = [user[u].rules EXCEPT !.payment_tokens = tokens]
               /\ user'[u].attestable_from =
                      IF tokens \ user[u].rules.payment_tokens # {} THEN RaisedFrom(u)
                      ELSE user[u].attestable_from
    <2> DEFINE from == IF tokens \ user[u].rules.payment_tokens # {} THEN RaisedFrom(u)
                       ELSE user[u].attestable_from
    <2>1. user' = [user EXCEPT ![u] = [user[u] EXCEPT
                      !.rules.payment_tokens = tokens, !.attestable_from = from]]
      BY <1>9, Zenon DEF ChangePaymentTokens
    <2>2. Seated(u)
      BY <1>9 DEF ChangePaymentTokens
    <2> HIDE DEF from
    <2>3. /\ user'[u].status = user[u].status
          /\ user'[u].rules = [user[u].rules EXCEPT !.payment_tokens = tokens]
          /\ user'[u].attestable_from = from
      BY <1>1, <2>1 DEF UserConfigs
    <2> QED
      BY <2>2, <2>3 DEF from
  <1> QED
    BY <1>2, <1>3, <1>4, <1>5, <1>6, <1>7, <1>8, <1>9

-----------------------------------------------------------------------------
(***************************************************************************)
(* A plan left behind is dead.                                             *)
(***************************************************************************)

(* Who has no seat has no plan, so that a return leaves none behind; and   *)
(* the clock has started, for an instant of 0 would mean "not cancelled"   *)
(* in a subscription (exit; state.rs expires_at_ts).                       *)
PlansInv ==
    /\ now > 0
    /\ \A u \in Users : ~Seated(u) => user[u].rules.payment_tokens = {}

(* An ended plan cannot be pulled any more, whatever state it was in       *)
(* (Cancellation.cancel).                                                  *)
LEMMA CancelledIsOver ==
    ASSUME NEW s \in Subscriptions, NEW t \in Nat \ {0}
    PROVE  ~Pullable(Cancelled(s, t), t)
  BY DEF Pullable, Cancelled, NeedsCancel, CancelledNow, Expired, Subscriptions

(* Exit leaves no plan, and every other control keeps the seat of its user *)
(* or gives one.                                                           *)
LEMMA PlansStep == TypeInv /\ PlansInv /\ [Next]_vars => PlansInv'
  <1> SUFFICES ASSUME TypeInv, PlansInv, [Next]_vars PROVE PlansInv'
    OBVIOUS
  <1>1. now' > 0
    <2>1. now' \in {now, now + 1}
      <3>1. Tick \/ UNCHANGED <<now, record, transfer, credits>>
                 \/ \E i \in TransferIds : Attest(i) \/ CloseAttestation(i)
        BY TransferCases
      <3> QED
        BY <3>1, Zenon DEF Tick, Attest, CloseAttestation
    <2> QED
      BY <2>1 DEF PlansInv, TypeInv, TypeOK, AccountsTypeOK
  <1>2. ASSUME NEW u \in Users, ~Seated(u)'
        PROVE  user'[u].rules.payment_tokens = {}
    <2>1. CASE KeepsSettings(u)
      BY <1>2, <2>1 DEF KeepsSettings, PlansInv, Seated
    <2>2. CASE Exit(u)
      BY <2>2, NewSettings DEF DefaultRules
    <2>3. CASE ChangesSettings(u) /\ ~Exit(u)
      BY <1>2, <2>3, NewSettings DEF ChangesSettings, Seated
    <2> QED
      BY <2>1, <2>2, <2>3, SettingsSteps
  <1> QED
    BY <1>1, <1>2 DEF PlansInv

(* Whatever leaves a plan - a change of tier, a dropped token, an exit -   *)
(* ends it in the same step.                                               *)
LEMMA PlansLeft ==
    ASSUME TypeInv, PlansInv, [Next]_vars, NEW u \in Users,
           NEW p \in PlansOf(u), p \notin PlansOf(u)'
    PROVE  ~Pullable(subscription'[u][p[1]][p[2]], now')
  <1>1. /\ user[u] \in UserConfigs /\ user[u].rules \in Rules
        /\ now \in Nat \ {0}
        /\ subscription \in [Users -> [Tokens -> [Tiers -> Subscriptions]]]
    BY DEF TypeInv, TypeOK, AccountsTypeOK, UserConfigs, PlansInv
  <1>2. PICK k \in user[u].rules.payment_tokens : p = <<k, user[u].rules.tier>>
    BY DEF PlansOf
  <1> DEFINE tier == user[u].rules.tier
  <1>3. k \in Tokens /\ tier \in Tiers /\ subscription[u][k][tier] \in Subscriptions
    BY <1>1, <1>2 DEF Rules
  <1>4. Seated(u)
    BY <1>2 DEF PlansInv
  <1>5. user'[u].rules.tier # tier \/ k \notin user'[u].rules.payment_tokens
    BY <1>2 DEF PlansOf
  <1>6. ASSUME NEW tokens, k \in tokens,
               subscription' = EndedPlans(u, tokens, tier), now' = now
        PROVE  ~Pullable(subscription'[u][p[1]][p[2]], now')
    <2>1. subscription'[u][k][tier] = Cancelled(subscription[u][k][tier], now)
      BY <1>1, <1>3, <1>6 DEF EndedPlans
    <2> QED
      BY <1>1, <1>2, <1>3, <1>6, <2>1, CancelledIsOver
  <1>7. CASE KeepsSettings(u)
    BY <1>2, <1>5, <1>7 DEF KeepsSettings
  <1>8. CASE Exit(u)
    BY <1>2, <1>6, <1>8 DEF Exit
  <1>9. CASE \E new \in Tiers : ChangeTier(u, new)
    BY <1>2, <1>6, <1>9 DEF ChangeTier
  <1>10. ASSUME NEW tokens \in SUBSET Tokens, ChangePaymentTokens(u, tokens)
         PROVE  ~Pullable(subscription'[u][p[1]][p[2]], now')
    <2>1. user'[u].rules = [user[u].rules EXCEPT !.payment_tokens = tokens]
      BY <1>10, NewSettings
    <2>2. k \notin tokens
      BY <1>1, <1>5, <2>1 DEF Rules
    <2>3. /\ subscription' = EndedPlans(u, user[u].rules.payment_tokens \ tokens, tier)
          /\ now' = now
      BY <1>10, Zenon DEF ChangePaymentTokens
    <2> QED
      BY <1>2, <1>6, <2>2, <2>3
  <1>11. CASE \E q \in Params : Enroll(u, q) \/ Reactivate(u, q) \/ UpdateSettings(u, q)
    BY <1>2, <1>4, <1>5, <1>11, NewSettings DEF Seated
  <1>12. CASE PauseUser(u) \/ ResumeUser(u)
    BY <1>2, <1>5, <1>12, NewSettings
  <1> QED
    BY <1>7, <1>8, <1>9, <1>10, <1>11, <1>12, SettingsSteps DEF ChangesSettings

(* From the very instant a user leaves a plan it cannot be pulled, for any *)
(* subscription they may have had to it: live, cancelled to end later, or  *)
(* over already.                                                           *)
THEOREM PlansLeftEnd == Spec => LeftPlansEnd
  <1> DEFINE Ended == \A u \in Users : \A p \in PlansOf(u) :
                         p \notin PlansOf(u)' => ~Pullable(subscription'[u][p[1]][p[2]], now')
  <1>1. Init => TypeInv /\ PlansInv
    <2>1. Init => PlansInv
      BY AmountAssumption DEF Init, PlansInv, NoUserConfig, DefaultRules
    <2> QED
      BY <2>1, TypeInit
  <1>2. TypeInv /\ PlansInv /\ [Next]_vars => TypeInv' /\ PlansInv'
    BY TypeStep, PlansStep
  <1>3. TypeInv /\ PlansInv /\ [Next]_vars => [Ended]_vars
    BY PlansLeft
  <1> QED
    BY <1>1, <1>2, <1>3, PTL DEF Spec, LeftPlansEnd

-----------------------------------------------------------------------------
(***************************************************************************)
(* No attestation counts the past at today's settings.                     *)
(***************************************************************************)

(* What a past transfer would add now, if it may still be attested, is no  *)
(* more than it was worth at any instant since it happened                 *)
(* (attestable_from).                                                      *)
BackfillInv ==
    \A i \in TransferIds :
        LET t == transfer[i]
            c == user[t.user]
        IN  /\ t.time < now
            /\ c.status = "Active"
            /\ c.attestable_from <= t.time
            /\ t.token \in c.rules.payment_tokens
            => Invested(c.rules, t.kind, t.amount) <= worth[i]

(* Settings that do not count more make no transfer worth more             *)
(* (set_settings, invested).                                               *)
LEMMA InvestedLowers ==
    ASSUME NEW old \in Rules, NEW new \in Rules, ~CountsMore(old, new),
           NEW kind \in Kinds, NEW amount \in Nat
    PROVE  Invested(new, kind, amount) <= Invested(old, kind, amount)
  <1>1. /\ new.income_rule => old.income_rule
        /\ new.change_multiplier \in Nat /\ old.change_multiplier \in Nat
        /\ new.change_multiplier <= old.change_multiplier
    BY DEF CountsMore, Rules
  <1>2. Invested(old, kind, amount) \in Nat /\ Invested(new, kind, amount) \in Nat
    BY InvestedNat
  <1>3. CASE kind = "Income"
    <2>1. Invested(new, kind, amount) \in {0, Invested(old, kind, amount)}
      BY <1>1, <1>3 DEF Invested, IncomeShare
    <2> QED
      BY <1>2, <2>1
  <1>4. CASE kind # "Income"
    <2> DEFINE step == Greater((CHANGE_STEP - (amount % CHANGE_STEP)) % CHANGE_STEP, CHANGE_MIN)
    <2>1. amount % CHANGE_STEP \in 0..(CHANGE_STEP - 1)
      BY AmountAssumption
    <2>2. (CHANGE_STEP - (amount % CHANGE_STEP)) % CHANGE_STEP \in 0..(CHANGE_STEP - 1)
      BY <2>1, AmountAssumption
    <2>3. step \in Nat
      BY <2>2, AmountAssumption DEF Greater
    <2>4. /\ Invested(new, kind, amount) = step * new.change_multiplier
          /\ Invested(old, kind, amount) = step * old.change_multiplier
      BY <1>4 DEF Invested, Change
    <2> HIDE DEF step
    <2>5. \A a, b, c \in Nat : b <= c => a * b <= a * c
      OBVIOUS
    <2> QED
      BY <1>1, <2>3, <2>4, <2>5
  <1> QED
    BY <1>3, <1>4

(* A change of settings lets a past transfer be attested only if it counts *)
(* no more than before.                                                    *)
LEMMA AttestableSteps ==
    ASSUME TypeInv, [Next]_vars, NEW u \in Users, NEW t \in Nat, NEW token \in Tokens,
           t < now, user'[u].status = "Active", user'[u].attestable_from <= t,
           token \in user'[u].rules.payment_tokens
    PROVE  /\ user[u].status = "Active"
           /\ user[u].attestable_from <= t
           /\ token \in user[u].rules.payment_tokens
           /\ ~CountsMore(user[u].rules, user'[u].rules)
  <1>1. /\ user[u] \in UserConfigs /\ user[u].rules \in Rules /\ now \in Nat
        /\ user[u].rules.change_multiplier \in Nat
        /\ RaisedFrom(u) >= now
    <2>1. user[u].attestable_from \in Nat /\ now \in Nat
      BY DEF TypeInv, TypeOK, AccountsTypeOK, UserConfigs
    <2> QED
      BY <2>1 DEF RaisedFrom, Greater, TypeInv, TypeOK, AccountsTypeOK, UserConfigs, Rules
  <1>2. user'[u].attestable_from # RaisedFrom(u) /\ user'[u].attestable_from # now
    <2>1. user'[u].attestable_from \in Nat /\ RaisedFrom(u) \in Nat
      BY TypeStep, UserTypes DEF TypeInv, TypeOK, AccountsTypeOK, UserConfigs
    <2> QED
      BY <1>1, <2>1
  <1>3. ~CountsMore(user[u].rules, user[u].rules)
    BY <1>1 DEF CountsMore
  <1>4. CASE KeepsSettings(u)
    BY <1>3, <1>4 DEF KeepsSettings
  <1>5. CASE \E p \in Params : UpdateSettings(u, p)
    BY <1>2, <1>5, NewSettings
  <1>6. CASE \E tier \in Tiers : ChangeTier(u, tier)
    <2>1. PICK tier \in Tiers : user'[u].rules = [user[u].rules EXCEPT !.tier = tier]
      BY <1>6, NewSettings
    <2>2. /\ user'[u].rules.payment_tokens = user[u].rules.payment_tokens
          /\ user'[u].rules.income_rule = user[u].rules.income_rule
          /\ user'[u].rules.change_multiplier = user[u].rules.change_multiplier
      BY <1>1, <2>1 DEF Rules
    <2> QED
      BY <1>3, <1>6, <2>2, NewSettings DEF CountsMore
  <1>7. CASE \E tokens \in SUBSET Tokens : ChangePaymentTokens(u, tokens)
    <2>1. PICK tokens \in SUBSET Tokens : ChangePaymentTokens(u, tokens)
      BY <1>7
    <2>2. /\ user'[u].status = user[u].status
          /\ user'[u].rules = [user[u].rules EXCEPT !.payment_tokens = tokens]
          /\ tokens \ user[u].rules.payment_tokens = {}
          /\ user'[u].attestable_from = user[u].attestable_from
      BY <1>2, <2>1, NewSettings
    <2>3. /\ user'[u].rules.payment_tokens = tokens
          /\ user'[u].rules.income_rule = user[u].rules.income_rule
          /\ user'[u].rules.change_multiplier = user[u].rules.change_multiplier
      BY <1>1, <2>2 DEF Rules
    <2> QED
      BY <1>3, <2>2, <2>3 DEF CountsMore
  <1>8. CASE \/ \E p \in Params : Enroll(u, p) \/ Reactivate(u, p)
             \/ Exit(u) \/ PauseUser(u) \/ ResumeUser(u)
    BY <1>2, <1>8, NewSettings
  <1> QED
    BY <1>4, <1>5, <1>6, <1>7, <1>8, SettingsSteps DEF ChangesSettings

(* The strengthening behind NoBackfill is kept by every step.              *)
LEMMA BackfillStep == TypeInv /\ BackfillInv /\ [Next]_vars => BackfillInv'
  <1> SUFFICES ASSUME TypeInv, BackfillInv, [Next]_vars, NEW i \in TransferIds,
                      (transfer[i].time < now)',
                      (user[transfer[i].user].status = "Active")',
                      (user[transfer[i].user].attestable_from <= transfer[i].time)',
                      (transfer[i].token \in user[transfer[i].user].rules.payment_tokens)'
               PROVE  Invested(user[transfer[i].user].rules, transfer[i].kind,
                               transfer[i].amount)' <= worth'[i]
    BY DEF BackfillInv
  <1> DEFINE t == transfer[i]
             u == t.user
             old == Invested(user[u].rules, t.kind, t.amount)
             new == Invested(user'[u].rules, t.kind, t.amount)
  <1>1. /\ t.kind \in Kinds /\ t.amount \in Nat /\ t.time \in Nat /\ t.token \in Tokens
        /\ u \in Users /\ now \in Nat
        /\ user[u].rules \in Rules /\ user'[u].rules \in Rules
    BY TypeStep DEF TypeInv, TypeOK, AccountsTypeOK, Transfers, UserConfigs
  <1>2. /\ worth[i] \in Nat
        /\ old \in Nat
    BY <1>1, InvestedNat DEF TypeInv, TypeOK, HistoryTypeOK
  <1>3. UNCHANGED transfer
    BY TransferCases DEF Tick, Attest, CloseAttestation
  <1>4. CASE Tick
    <2>1. /\ now' = now + 1 /\ UNCHANGED user
          /\ worth' = [j \in TransferIds |->
                           IF transfer[j].time = now THEN WorthNow(j)
                           ELSE IF transfer[j].time < now THEN Lesser(worth[j], WorthNow(j))
                           ELSE worth[j]]
      BY <1>4 DEF Tick
    <2>2. WorthNow(i) = old
      BY <1>3, <2>1 DEF WorthNow
    <2>3. t.time = now \/ t.time < now
      BY <1>1, <1>3, <2>1
    <2>4. t.time < now => old <= worth[i]
      BY <1>3, <2>1 DEF BackfillInv
    <2>5. Invested(user[transfer[i].user].rules, transfer[i].kind, transfer[i].amount)' = old
      BY <1>3, <2>1
    <2>6. worth'[i] = IF t.time = now THEN old ELSE Lesser(worth[i], old)
      BY <2>1, <2>2, <2>3
    <2> HIDE DEF t, old
    <2> QED
      BY <1>2, <2>3, <2>4, <2>5, <2>6 DEF Lesser
  <1>5. CASE UNCHANGED <<now, worth>>
    <2>1. /\ t.time < now
          /\ user'[u].status = "Active"
          /\ user'[u].attestable_from <= t.time
          /\ t.token \in user'[u].rules.payment_tokens
      BY <1>3, <1>5
    <2>2. /\ user[u].status = "Active"
          /\ user[u].attestable_from <= t.time
          /\ t.token \in user[u].rules.payment_tokens
          /\ ~CountsMore(user[u].rules, user'[u].rules)
      BY <1>1, <2>1, AttestableSteps
    <2>3. old <= worth[i]
      BY <2>1, <2>2 DEF BackfillInv
    <2>4. new \in Nat /\ new <= old
      BY <1>1, <2>2, InvestedLowers, InvestedNat
    <2>5. Invested(user[transfer[i].user].rules, transfer[i].kind, transfer[i].amount)' = new
      BY <1>3
    <2> HIDE DEF old, new
    <2> QED
      BY <1>2, <1>5, <2>3, <2>4, <2>5
  <1>6. Tick \/ UNCHANGED <<now, worth>>
    <2>1. ASSUME NEW v \in Users, Controls(v)
          PROVE  UNCHANGED <<now, worth>>
      <3>1. CASE \E p \in Params : Enroll(v, p) \/ Reactivate(v, p) \/ UpdateSettings(v, p)
        BY <3>1, Zenon DEF Enroll, Reactivate, UpdateSettings, history
      <3>2. CASE Exit(v) \/ PauseUser(v) \/ ResumeUser(v)
        BY <3>2, Zenon DEF Exit, PauseUser, ResumeUser, history
      <3>3. CASE \E pending \in 0..user[v].pending : LowerPending(v, pending)
        BY <3>3, Zenon DEF LowerPending, history
      <3>4. CASE \E tier \in Tiers : ChangeTier(v, tier)
        BY <3>4, Zenon DEF ChangeTier, history
      <3>5. CASE \E tokens \in SUBSET Tokens : ChangePaymentTokens(v, tokens)
        BY <3>5, Zenon DEF ChangePaymentTokens, history
      <3> QED
        BY <2>1, <3>1, <3>2, <3>3, <3>4, <3>5 DEF Controls
    <2>2. CASE Cranks
      <3>1. ASSUME NEW v \in Users, NEW k \in Tokens, NEW balance \in Balances, Sweep(v, k, balance)
            PROVE  UNCHANGED <<now, worth>>
        BY <3>1, SweepAside, Zenon
      <3>2. ASSUME NEW j \in TransferIds, Attest(j)
            PROVE  UNCHANGED <<now, worth>>
        BY <3>2, Zenon DEF Attest
      <3>3. ASSUME NEW j \in TransferIds, CloseAttestation(j)
            PROVE  UNCHANGED <<now, worth>>
        BY <3>3, Zenon DEF CloseAttestation, history
      <3> QED
        BY <2>2, <3>1, <3>2, <3>3, Zenon DEF Cranks
    <2>3. CASE Admin
      BY <2>3, AdminAside, Zenon DEF history
    <2>4. CASE UNCHANGED vars
      BY <2>4, Zenon DEF vars, history
    <2>5. CASE \E v \in Users : Elsewhere(v)
      BY <2>5 DEF Elsewhere, Subscribe, CancelSubscription, ResumeSubscription,
                  CloseSubscription, SetSubscription, history
    <2> QED
      BY <2>1, <2>2, <2>3, <2>4, <2>5 DEF Next
  <1> QED
    BY <1>4, <1>5, <1>6

(* An earlier transfer adds no more than it was worth under the user's     *)
(* settings at every instant since it happened: raising a rule, turning    *)
(* one on, resuming or returning never reaches into the past.              *)
THEOREM NothingBackfilled == Spec => NoBackfill
  <1> DEFINE Bounded == \A i \in TransferIds :
                            credits'[i] > credits[i] /\ transfer[i].time < now =>
                                LET u == transfer[i].user
                                IN  user'[u].pending - user[u].pending <= worth[i]
  <1>1. Init => TypeInv /\ BackfillInv
    <2>1. Init => BackfillInv
      <3> SUFFICES ASSUME Init, NEW i \in TransferIds
                   PROVE  user[transfer[i].user].status # "Active"
        BY DEF BackfillInv
      <3>1. transfer[i].user \in Users
        BY LateriteAssumption DEF Init, Transfers
      <3> QED
        BY <3>1 DEF Init, NoUserConfig
    <2> QED
      BY <2>1, TypeInit
  <1>2. TypeInv /\ BackfillInv /\ [Next]_vars => TypeInv' /\ BackfillInv'
    BY TypeStep, BackfillStep
  <1>3. TypeInv /\ BackfillInv /\ [Next]_vars => [Bounded]_vars
    <2> SUFFICES ASSUME TypeInv, BackfillInv, [Next]_vars, NEW i \in TransferIds,
                        credits'[i] > credits[i], transfer[i].time < now
                 PROVE  user'[transfer[i].user].pending - user[transfer[i].user].pending
                            <= worth[i]
      OBVIOUS
    <2> DEFINE u == transfer[i].user
               invested == Invested(user[u].rules, transfer[i].kind, transfer[i].amount)
    <2>1. Attest(i)
      <3>1. credits \in [TransferIds -> Nat]
        BY DEF TypeInv, TypeOK, HistoryTypeOK
      <3>2. ASSUME NEW j \in TransferIds, Attest(j)
            PROVE  Attest(i)
        <4>1. credits' = [credits EXCEPT ![j] = @ + 1]
          BY <3>2, Zenon DEF Attest
        <4> QED
          BY <3>1, <3>2, <4>1
      <3>3. CASE UNCHANGED credits
        BY <3>1, <3>3
      <3> QED
        BY <3>2, <3>3, TransferCases DEF Tick, CloseAttestation, history
    <2>2. /\ u \in Users /\ invested \in Nat
          /\ user'[u].pending <= user[u].pending + invested
      BY <2>1, AttestPending
    <2>3. invested <= worth[i]
      <3>1. /\ user[u].status = "Active"
            /\ user[u].attestable_from <= transfer[i].time
            /\ transfer[i].token \in user[u].rules.payment_tokens
        BY <2>1, Zenon DEF Attest
      <3> QED
        BY <3>1 DEF BackfillInv
    <2>4. /\ user[u].pending \in Nat /\ user'[u].pending \in Nat /\ worth[i] \in Nat
      BY <2>2, TypeStep DEF TypeInv, TypeOK, AccountsTypeOK, HistoryTypeOK, UserConfigs
    <2> HIDE DEF invested, u
    <2>5. user'[u].pending - user[u].pending <= worth[i]
      BY <2>2, <2>3, <2>4
    <2> QED
      BY <2>5 DEF u
  <1> QED
    BY <1>1, <1>2, <1>3, PTL DEF Spec, NoBackfill

-----------------------------------------------------------------------------
(***************************************************************************)
(* What a sweep takes, and what a control needs of Subscriptions.          *)
(***************************************************************************)

\* What a user's rules and transfers ask to be invested now.
Due(u) ==
    IF user[u].status = "Active"
    THEN (IF EngineDue(user[u], config.market_calendar, now)
          THEN user[u].rules.engine_amount ELSE 0) + user[u].pending
    ELSE 0

\* A sweep leaves the cushion, and takes all that is due unless it used up one of
\* the limits: the week's cap, what is above the cushion, or the plan's period.
TakesItsDue(u, k, balance) ==
    LET pulled == weekPulled'[u] - weekPulled[u]
        cushion == user[u].rules.cushions[k]
        tier == user[u].rules.tier
    IN  /\ pulled + cushion <= balance
        /\ \/ pulled = Due(u)
           \/ weekPulled'[u] = CapOf(u)
           \/ pulled + cushion = balance
           \/ subscription'[u][k][tier].pulled = TIERS[tier]

(* A capped pull is the whole of it, or the limit (Pull::capped).          *)
LEMMA CappedTotal ==
    ASSUME NEW p \in Pulls, NEW limit \in Nat
    PROVE  /\ Total(p) \in Nat
           /\ Total(Capped(p, limit)) = Lesser(Total(p), limit)
  <1>1. p.engine \in Nat /\ p.pending \in Nat
    BY DEF Pulls
  <1> QED
    BY <1>1 DEF Capped, Total, Lesser

(* A pull is what is due, or all the room there is (pull).                 *)
LEMMA PullIsDue ==
    ASSUME TypeInv, NEW u \in Users, NEW k \in Tokens, NEW balance \in Nat,
           NEW asked, NEW room,
           asked = Pull(user[u], k, balance, config.user_weekly_cap, config.market_calendar, now),
           room = Room(user[u], k, balance, config.user_weekly_cap, now),
           Total(asked) > 0
    PROVE  Total(asked) <= room /\ (Total(asked) = Due(u) \/ Total(asked) = room)
  <1> DEFINE due == IF EngineDue(user[u], config.market_calendar, now)
                    THEN user[u].rules.engine_amount ELSE 0
             pending == user[u].pending
             engine == IF EngineDue(user[u], config.market_calendar, now)
                       THEN Lesser(user[u].rules.engine_amount, room) ELSE 0
  <1>1. room \in Nat /\ due \in Nat /\ pending \in Nat
    BY RoomNat DEF TypeInv, TypeOK, AccountsTypeOK, UserConfigs, Rules, Configs
  <1>2. engine = Lesser(due, room)
    BY <1>1 DEF Lesser
  <1>3. /\ user[u].status = "Active"
        /\ asked = [engine |-> engine, pending |-> Lesser(pending, room - engine)]
    BY DEF Pull, Total, NoPull
  <1>4. Due(u) = due + pending
    BY <1>3 DEF Due
  <1> HIDE DEF due, pending, engine
  <1>5. Total(asked) = Lesser(due, room) + Lesser(pending, room - Lesser(due, room))
    BY <1>2, <1>3 DEF Total
  <1> QED
    BY <1>1, <1>4, <1>5 DEF Lesser

(* A pull of all that remains of a plan's period uses it up, also when it  *)
(* opens a new one (remaining, sweep).                                     *)
LEMMA RemainingUsed ==
    ASSUME NEW s \in Subscriptions, NEW t \in Nat, s.start <= t,
           NEW limit \in Nat, s.pulled <= limit, Remaining(s, limit, t) > 0
    PROVE  Pulled(s, Remaining(s, limit, t), t).pulled = limit
  <1>1. s.pulled \in Nat /\ s.start \in Nat
    BY DEF Subscriptions
  <1>2. \A amount : Pulled(s, amount, t).pulled
            = IF PeriodStart(s, t) = s.start THEN s.pulled + amount ELSE amount
    BY DEF Pulled, Subscriptions
  <1>3. Remaining(s, limit, t)
            = IF t - s.start >= PLAN_PERIOD THEN limit ELSE limit - s.pulled
    BY <1>1 DEF Remaining
  <1> QED
    BY <1>1, <1>2, <1>3, PeriodTurns

LEMMA SweepTakesItsDue ==
    ASSUME TypeInv, WeekInv, PlansWithinPeriod,
           NEW u \in Users, NEW k \in Tokens, NEW balance \in Balances, Sweep(u, k, balance)
    PROVE  TakesItsDue(u, k, balance)
  <1> DEFINE pull == SweptPull(u, k, balance)
             tier == user[u].rules.tier
             cushion == user[u].rules.cushions[k]
             s == subscription[u][k][tier]
             betaCap == config.user_weekly_cap
             asked == Pull(user[u], k, balance, betaCap, config.market_calendar, now)
             allowed == Remaining(s, TIERS[tier], now)
             room == Room(user[u], k, balance, betaCap, now)
             cap == WeeklyCap(user[u], betaCap, now)
             spent == SpentAt(user[u], now)
             pulled == Total(pull)
  <1>1. /\ user[u] \in UserConfigs /\ tier \in Tiers /\ s \in Subscriptions
        /\ s.start <= now /\ s.pulled <= TIERS[tier] /\ TIERS[tier] \in Nat
        /\ betaCap \in Nat /\ balance \in Nat /\ cushion \in Nat /\ now \in Nat
        /\ weekPulled \in [Users -> Nat]
        /\ subscription \in [Users -> [Tokens -> [Tiers -> Subscriptions]]]
    BY LateriteAssumption, AmountAssumption
    DEF TypeInv, TypeOK, AccountsTypeOK, HistoryTypeOK, UserConfigs, Rules, Configs,
        PeriodsStarted, PlansWithinPeriod
  <1>2. /\ MaySweep(u, k) /\ pulled > 0
        /\ weekPulled' = [weekPulled EXCEPT ![u] = @ + pulled]
        /\ subscription' = [subscription EXCEPT ![u][k][tier] = Pulled(@, pulled, now)]
    BY Zenon DEF Sweep
  <1>3. pulled \in Nat /\ spent \in Nat /\ cap \in Nat
    BY <1>1, <1>2, SweepWithinCap, SweptPullType DEF Pulls, Total
  <1>4. room \in Nat /\ allowed \in Nat /\ asked \in Pulls /\ pull = Capped(asked, allowed)
    BY <1>1, RoomNat, SubscriptionType, PullType DEF SweptPull
  <1>5. /\ weekPulled'[u] = spent + pulled /\ weekPulled'[u] - weekPulled[u] = pulled
        /\ cap = CapOf(u)
    <2>1. Enrolled(u)
      BY <1>2 DEF MaySweep
    <2>2. weekPulled[u] = spent
      BY <2>1 DEF WeekInv
    <2>3. cap = CapOf(u)
      <3>1. user[u].enrolled_at = joined[u]
        BY <2>1 DEF WeekInv
      <3>2. betaCap \in Nat /\ TRIAL_CAP \in Nat /\ TIERS[tier] \in Nat
        BY <1>1, AmountAssumption
      <3> QED
        BY <3>1, <3>2 DEF WeeklyCap, CapOf, InTrial, Lesser
    <2> HIDE DEF pulled, spent, cap
    <2> QED
      BY <1>1, <1>2, <1>3, <2>2, <2>3
  <1>6. subscription'[u][k][tier] = Pulled(s, pulled, now)
    BY <1>1, <1>2
  <1>7. room = Lesser(SaturatingSub(cap, spent), SaturatingSub(balance, cushion))
    BY DEF Room
  <1>8. pulled = Lesser(Total(asked), allowed) /\ Total(asked) \in Nat
    BY <1>4, CappedTotal
  <1>9. Total(asked) <= room /\ (Total(asked) = Due(u) \/ Total(asked) = room)
    <2>1. Total(asked) > 0
      <3> HIDE DEF pulled, asked, allowed
      <3> QED
        BY <1>2, <1>4, <1>8 DEF Lesser
    <2> QED
      BY <1>1, <2>1, PullIsDue
  <1>10. pulled = allowed => subscription'[u][k][tier].pulled = TIERS[tier]
    <2>1. allowed > 0 => Pulled(s, allowed, now).pulled = TIERS[tier]
      BY <1>1, RemainingUsed
    <2> HIDE DEF pulled, allowed, s
    <2> QED
      BY <1>2, <1>6, <2>1
  <1> HIDE DEF pull, pulled, asked, allowed, room, cap, spent, s, betaCap
  <1>11. pulled + cushion <= balance
    BY <1>1, <1>2, <1>3, <1>4, <1>7, <1>8, <1>9 DEF Lesser, SaturatingSub
  <1>12. pulled = allowed \/ pulled = Due(u) \/ spent + pulled = cap \/ pulled + cushion = balance
    BY <1>1, <1>2, <1>3, <1>4, <1>7, <1>8, <1>9 DEF Lesser, SaturatingSub
  <1> QED
    BY <1>5, <1>10, <1>11, <1>12 DEF TakesItsDue

(* No sweep touches a cushion, and none withholds what is due: it is taken *)
(* whole, or the sweep leaves the week at its cap, the wallet at its       *)
(* cushion or the plan's period used up, as Subscriptions counts it (pull, *)
(* capped, remaining, sweep).                                              *)
THEOREM NothingWithheld ==
    Spec => [][\A u \in Users, k \in Tokens, balance \in Balances :
                  Sweep(u, k, balance) => TakesItsDue(u, k, balance)]_vars
  <1>1. TypeInv /\ WeekInv /\ WeekWithinCap /\ [Next]_vars
            => TypeInv' /\ WeekInv' /\ WeekWithinCap'
    BY TypeStep, WeekStep
  <1>2. TypeInv /\ WeekInv /\ PlansWithinPeriod /\ [Next]_vars
            => [\A u \in Users, k \in Tokens, balance \in Balances :
                  Sweep(u, k, balance) => TakesItsDue(u, k, balance)]_vars
    BY SweepTakesItsDue
  <1> QED
    BY <1>1, <1>2, WeekInit, PlansKept, PTL DEF Spec

(* Whatever state the subscriptions are in, Subscriptions accepts every    *)
(* cancellation a control makes: the other conjuncts of Exit only ask for  *)
(* the seat (Cancellation.cancel).                                         *)
LEMMA CancelsAlwaysAccepted ==
    TypeInv => \A u \in Users, tokens \in SUBSET Tokens, tier \in Tiers :
                   CancelsAccepted(u, tokens, tier)
  <1>1. \A s \in Subscriptions, t \in Nat : CancelAccepted(s, t)
    BY DEF CancelAccepted, NeedsCancel, CanCancel, Expired, Subscriptions
  <1> QED
    BY <1>1 DEF CancelsAccepted, TypeInv, TypeOK, AccountsTypeOK
=============================================================================
