--------------------------- MODULE LateriteSafety ---------------------------
(***************************************************************************)
(* Proofs of the program's safety properties: what one week, one day and   *)
(* one transfer can add up to, and the count of the beta's seats.          *)
(*                                                                         *)
(* Each property needs a strengthening that says what the accounts still   *)
(* remember of the past: a user's counters survive everything but a sweep, *)
(* and a record survives the window in which its transfer counts.          *)
(***************************************************************************)
EXTENDS LateriteProofs

-----------------------------------------------------------------------------
(***************************************************************************)
(* The inductive invariants behind the safety properties.                  *)
(***************************************************************************)

(* A credited transfer is held by its record, or too old to be attested.   *)
CreditInv ==
    \A i \in TransferIds :
        LET expiry == transfer[i].time + ATTESTATION_TTL
        IN  /\ credits[i] <= 1
            /\ record[i] # 0 => record[i] = expiry
            /\ credits[i] = 1 => record[i] = expiry \/ now > expiry

(* A token swept today is marked with today in the user's account.         *)
DayInv ==
    \A u \in Users, k \in Tokens :
        /\ daySweeps[u][k] <= 1
        /\ daySweeps[u][k] = 1 =>
                Enrolled(u) /\ user[u].last_sweep_day[k] = DayOf(now)

(* What the account says was spent this week is what was pulled, the week  *)
(* it counts is not in the future, and weeks are counted from the first    *)
(* enrollment.                                                             *)
WeekInv ==
    \A u \in Users :
        /\ ~Enrolled(u) => weekPulled[u] = 0
        /\ Enrolled(u) =>
                /\ user[u].enrolled_at = joined[u]
                /\ joined[u] <= now
                /\ user[u].week <= WeekAt(user[u], now)
                /\ weekPulled[u] = SpentAt(user[u], now)

(* An engine that bought in this day, or in this week, ran in it.          *)
EngineInv ==
    \A u \in Users :
        LET ran == user[u].engine_ran_at
        IN  /\ dayEngine[u] > 0 =>
                  /\ Enrolled(u) /\ ran >= user[u].enrolled_at
                  /\ DayOf(ran) = DayOf(now)
            /\ weekEngine[u] > 0 =>
                  /\ Enrolled(u) /\ ran >= user[u].enrolled_at
                  /\ WeekAt(user[u], ran) = WeekAt(user[u], now)

-----------------------------------------------------------------------------
(***************************************************************************)
(* Days and weeks as the clock advances.                                   *)
(***************************************************************************)

(* A later instant is in no earlier period (week_at, engine_due).          *)
LEMMA DivMonotone ==
    ASSUME NEW a \in Nat, NEW b \in Nat, NEW w \in Nat \ {0}, a <= b
    PROVE  a \div w <= b \div w
  OBVIOUS

(* The first period is number 0 (weekly_cap, week_at).                     *)
LEMMA DivFirst ==
    ASSUME NEW a \in Nat, NEW w \in Nat \ {0}
    PROVE  a < w <=> a \div w = 0
  OBVIOUS

(* A period begins at the multiples of its length (week_at, engine_due).   *)
LEMMA DivNext ==
    ASSUME NEW a \in Nat, NEW w \in Nat \ {0}
    PROVE  (a + 1) % w = 0 <=> (a + 1) \div w # a \div w
  OBVIOUS

(* A day begins when the clock reaches a multiple of its length.           *)
LEMMA SameDay ==
    ASSUME now \in Nat
    PROVE  ~NewDay => DayOf(now + 1) = DayOf(now)
  BY DivNext, AmountAssumption DEF NewDay, DayOf

-----------------------------------------------------------------------------
(***************************************************************************)
(* Every step is one of a few that touch a user's counters, or leaves all  *)
(* of them and the history alone.                                          *)
(***************************************************************************)

\* What set_settings, exit, reactivate and the controls leave as it was.
KeepsCounters(u) ==
    /\ Enrolled(u)' = Enrolled(u)
    /\ user'[u].enrolled_at = user[u].enrolled_at
    /\ user'[u].week = user[u].week
    /\ user'[u].week_spent = user[u].week_spent
    /\ user'[u].engine_ran_at = user[u].engine_ran_at
    /\ user'[u].last_sweep_day = user[u].last_sweep_day

\* Steps that pull nothing and count nothing.
Harmless ==
    /\ UNCHANGED <<now, joined, pulls>>
    /\ \A u \in Users : KeepsCounters(u)

(* A control changes the settings and the status of one user, and leaves   *)
(* the counters of all of them (set_settings, exit, reactivate, user.rs).  *)
LEMMA ControlsKeepCounters ==
    ASSUME TypeInv, NEW u \in Users, Controls(u)
    PROVE  \/ \E p \in Params : Enroll(u, p)
           \/ Harmless
  <1> USE DEF TypeInv, TypeOK, AccountsTypeOK
  <1> SUFFICES ASSUME ~ \E p \in Params : Enroll(u, p)
               PROVE  Harmless
    OBVIOUS
  <1>1. CASE \E p \in Params : Reactivate(u, p) \/ UpdateSettings(u, p)
    <2>1. PICK p \in Params : Reactivate(u, p) \/ UpdateSettings(u, p)
      BY <1>1
    <2>2. CASE Reactivate(u, p)
      BY <2>2 DEF Reactivate, history, pulls, Harmless, KeepsCounters, Enrolled, UserConfigs
    <2>3. CASE UpdateSettings(u, p)
      <3> DEFINE from == IF CountsMore(user[u].rules, p) THEN RaisedFrom(u)
                         ELSE user[u].attestable_from
      <3>1. user' = [user EXCEPT ![u] = [user[u] EXCEPT !.rules = p, !.attestable_from = from]]
        BY <2>3, Zenon DEF UpdateSettings
      <3> HIDE DEF from
      <3> QED
        BY <2>3, <3>1 DEF UpdateSettings, history, pulls, Harmless, KeepsCounters, Enrolled, UserConfigs
    <2> QED
      BY <2>1, <2>2, <2>3
  <1>2. CASE Exit(u) \/ PauseUser(u) \/ ResumeUser(u)
    <2>1. CASE Exit(u)
      BY <2>1 DEF Exit, history, pulls, Harmless, KeepsCounters, Enrolled, Seated, UserConfigs
    <2>2. CASE PauseUser(u)
      BY <2>2 DEF PauseUser, history, pulls, Harmless, KeepsCounters, Enrolled, UserConfigs
    <2>3. CASE ResumeUser(u)
      BY <2>3 DEF ResumeUser, history, pulls, Harmless, KeepsCounters, Enrolled, UserConfigs
    <2> QED
      BY <1>2, <2>1, <2>2, <2>3
  <1>3. CASE \E pending \in 0..user[u].pending : LowerPending(u, pending)
    BY <1>3 DEF LowerPending, history, pulls, Harmless, KeepsCounters, Enrolled, UserConfigs
  <1>4. CASE \E tier \in Tiers : ChangeTier(u, tier)
    BY <1>4 DEF ChangeTier, history, pulls, Harmless, KeepsCounters, Enrolled, UserConfigs
  <1>5. CASE \E tokens \in SUBSET Tokens : ChangePaymentTokens(u, tokens)
    BY <1>5 DEF ChangePaymentTokens, history, pulls, Harmless, KeepsCounters, Enrolled, UserConfigs
  <1> QED
    BY <1>1, <1>2, <1>3, <1>4, <1>5 DEF Controls

(* An attestation adds to the pending amount only (attest).                *)
LEMMA AttestKeepsCounters ==
    ASSUME TypeInv, NEW i \in TransferIds, Attest(i)
    PROVE  Harmless
  <1> USE DEF TypeInv, TypeOK, AccountsTypeOK
  <1>1. transfer[i].user \in Users
    BY DEF Transfers
  <1>2. PICK pending : user' = [user EXCEPT ![transfer[i].user].pending = pending]
    BY Zenon DEF Attest
  <1>3. \A u \in Users : KeepsCounters(u)
    BY <1>1, <1>2 DEF KeepsCounters, Enrolled, UserConfigs
  <1> QED
    BY <1>3, Zenon DEF Attest, Harmless

(* Only a tick, a sweep and an enrollment count.                           *)
LEMMA StepCases ==
    ASSUME TypeInv, [Next]_vars
    PROVE  \/ Tick
           \/ \E u \in Users, k \in Tokens, balance \in Balances : Sweep(u, k, balance)
           \/ \E u \in Users, p \in Params : Enroll(u, p)
           \/ Harmless
  <1>1. CASE \E i \in TransferIds : Attest(i) \/ CloseAttestation(i)
    BY <1>1, AttestKeepsCounters DEF CloseAttestation, history, pulls, Harmless, KeepsCounters, Enrolled
  <1>2. CASE Admin
    BY <1>2 DEF Admin, UpdateConfig, SetPaused, SetMarketCalendar, history, pulls, Harmless,
                KeepsCounters, Enrolled
  <1>3. CASE \E u \in Users : Elsewhere(u)
    BY <1>3 DEF Elsewhere, Subscribe, CancelSubscription, ResumeSubscription, CloseSubscription,
                SetSubscription, history, pulls, Harmless, KeepsCounters, Enrolled
  <1>4. CASE \E u \in Users : Controls(u)
    BY <1>4, ControlsKeepCounters
  <1>5. CASE UNCHANGED vars
    BY <1>5 DEF vars, history, pulls, Harmless, KeepsCounters, Enrolled
  <1> QED
    BY <1>1, <1>2, <1>3, <1>4, <1>5 DEF Next, Cranks

(* The administration writes to Config only (update_config, set_paused,    *)
(* set_market_calendar).                                                   *)
LEMMA AdminAside ==
    ASSUME Admin
    PROVE  UNCHANGED <<now, user, subscription, record, transfer, history>>
  <1>1. ASSUME NEW cap \in UserWeeklyCaps, NEW seats \in MaxUsers, UpdateConfig(cap, seats)
        PROVE  UNCHANGED <<now, user, subscription, record, transfer, history>>
    BY <1>1, Zenon DEF UpdateConfig
  <1>2. ASSUME NEW paused \in KillSwitch, SetPaused(paused)
        PROVE  UNCHANGED <<now, user, subscription, record, transfer, history>>
    BY <1>2, Zenon DEF SetPaused
  <1>3. ASSUME NEW calendar \in Calendars, SetMarketCalendar(calendar)
        PROVE  UNCHANGED <<now, user, subscription, record, transfer, history>>
    BY <1>3, Zenon DEF SetMarketCalendar
  <1> QED
    BY <1>1, <1>2, <1>3, Zenon DEF Admin

(* A sweep concerns no transfer (sweep).                                   *)
LEMMA SweepAside ==
    ASSUME NEW u, NEW k, NEW balance, Sweep(u, k, balance)
    PROVE  UNCHANGED <<now, config, record, transfer, joined, credits, worth>>
  BY Zenon DEF Sweep

(* Only a tick, an attestation and a record's closing concern transfers.   *)
LEMMA TransferCases ==
    ASSUME [Next]_vars
    PROVE  \/ Tick
           \/ \E i \in TransferIds : Attest(i)
           \/ \E i \in TransferIds : CloseAttestation(i)
           \/ UNCHANGED <<now, record, transfer, credits>>
  <1>1. CASE \E u \in Users, k \in Tokens, balance \in Balances : Sweep(u, k, balance)
    <2>1. PICK u \in Users, k \in Tokens, balance \in Balances : Sweep(u, k, balance)
      BY <1>1, Zenon
    <2> QED
      BY <2>1, SweepAside, Zenon
  <1>2. CASE Admin
    BY <1>2, AdminAside, Zenon DEF history
  <1>3. CASE \E u \in Users : Elsewhere(u)
    BY <1>3 DEF Elsewhere, Subscribe, CancelSubscription, ResumeSubscription, CloseSubscription,
                SetSubscription, history
  <1>4. CASE \E u \in Users : Controls(u)
    <2>1. PICK u \in Users : Controls(u)
      BY <1>4
    <2>2. CASE \E p \in Params : Enroll(u, p) \/ Reactivate(u, p) \/ UpdateSettings(u, p)
      BY <2>2 DEF Enroll, Reactivate, UpdateSettings, history
    <2>3. CASE Exit(u) \/ PauseUser(u) \/ ResumeUser(u)
      BY <2>3 DEF Exit, PauseUser, ResumeUser, history
    <2>4. CASE \E pending \in 0..user[u].pending : LowerPending(u, pending)
      BY <2>4 DEF LowerPending, history
    <2>5. CASE \E tier \in Tiers : ChangeTier(u, tier)
      BY <2>5 DEF ChangeTier, history
    <2>6. CASE \E tokens \in SUBSET Tokens : ChangePaymentTokens(u, tokens)
      BY <2>6 DEF ChangePaymentTokens, history
    <2> QED
      BY <2>1, <2>2, <2>3, <2>4, <2>5, <2>6 DEF Controls
  <1>5. CASE UNCHANGED vars
    BY <1>5 DEF vars, history
  <1> QED
    BY <1>1, <1>2, <1>3, <1>4, <1>5 DEF Next, Cranks

-----------------------------------------------------------------------------
(***************************************************************************)
(* A transfer is credited at most once.                                    *)
(***************************************************************************)

(* A record keeps its transfer from being credited again until it is too   *)
(* old (attest, close_attestation).                                        *)
LEMMA CreditStep == TypeInv /\ CreditInv /\ [Next]_vars => CreditInv'
  <1> SUFFICES ASSUME TypeInv, CreditInv, [Next]_vars PROVE CreditInv'
    OBVIOUS
  <1>1. /\ now \in Nat
        /\ record \in [TransferIds -> Nat]
        /\ credits \in [TransferIds -> Nat]
        /\ \A i \in TransferIds :
              /\ transfer[i].time \in Nat
              /\ transfer[i].time + ATTESTATION_TTL \in Nat \ {0}
    BY AmountAssumption
    DEF Transfers, ATTESTATION_TTL, TypeInv, TypeOK, AccountsTypeOK, HistoryTypeOK
  <1>2. CASE Tick
    BY <1>1, <1>2 DEF Tick, CreditInv
  <1>3. ASSUME NEW i \in TransferIds, Attest(i)
        PROVE  CreditInv'
    <2>1. /\ record[i] = 0
          /\ transfer[i].time + ATTESTATION_TTL >= now
          /\ record' = [record EXCEPT ![i] = transfer[i].time + ATTESTATION_TTL]
          /\ credits' = [credits EXCEPT ![i] = @ + 1]
          /\ UNCHANGED <<now, transfer>>
      BY <1>3, Zenon DEF Attest
    <2>2. credits[i] = 0
      BY <1>1, <2>1 DEF CreditInv
    <2> QED
      BY <1>1, <2>1, <2>2 DEF CreditInv
  <1>4. ASSUME NEW i \in TransferIds, CloseAttestation(i)
        PROVE  CreditInv'
    <2>1. /\ record[i] # 0 /\ now > record[i]
          /\ record' = [record EXCEPT ![i] = 0]
          /\ UNCHANGED <<now, transfer, credits>>
      BY <1>4 DEF CloseAttestation, history
    <2> QED
      BY <1>1, <2>1 DEF CreditInv
  <1>5. CASE UNCHANGED <<now, record, transfer, credits>>
    BY <1>5 DEF CreditInv
  <1> QED
    BY <1>2, <1>3, <1>4, <1>5, TransferCases

(* A transfer is credited at most once in the program's life, although its *)
(* record is closed and the same transfer may be submitted again.          *)
THEOREM CreditedOnce == Spec => []CreditedAtMostOnce
  <1>1. Init => TypeInv /\ CreditInv
    <2>1. Init => CreditInv
      BY DEF Init, CreditInv
    <2> QED
      BY <2>1, TypeInit
  <1>2. TypeInv /\ CreditInv /\ [Next]_vars => TypeInv' /\ CreditInv'
    BY TypeStep, CreditStep
  <1>3. CreditInv => CreditedAtMostOnce
    BY DEF CreditInv, CreditedAtMostOnce
  <1> QED
    BY <1>1, <1>2, <1>3, PTL DEF Spec

-----------------------------------------------------------------------------
(***************************************************************************)
(* A token is swept at most once per UTC day.                              *)
(***************************************************************************)

(* The mark of the day outlives every step until the day ends              *)
(* (last_sweep_day).                                                       *)
LEMMA DayStep == TypeInv /\ DayInv /\ [Next]_vars => DayInv'
  <1> SUFFICES ASSUME TypeInv, DayInv, [Next]_vars PROVE DayInv'
    OBVIOUS
  <1>1. /\ now \in Nat
        /\ user \in [Users -> UserConfigs]
        /\ daySweeps \in [Users -> [Tokens -> Nat]]
        /\ DayOf(now) \in Nat
        /\ \A u \in Users : user[u].last_sweep_day \in [Tokens -> Nat]
    BY DivNat, AmountAssumption
    DEF TypeInv, TypeOK, AccountsTypeOK, HistoryTypeOK, DayOf, UserConfigs, Days
  <1>2. CASE Tick
    <2>1. /\ now' = now + 1 /\ UNCHANGED user
          /\ daySweeps' = [u \in Users |-> [k \in Tokens |->
                               IF NewDay THEN 0 ELSE daySweeps[u][k]]]
      BY <1>2 DEF Tick
    <2>2. ~NewDay => DayOf(now') = DayOf(now)
      BY <1>1, <2>1, SameDay
    <2> QED
      BY <1>1, <2>1, <2>2 DEF DayInv, Enrolled
  <1>3. ASSUME NEW u \in Users, NEW k \in Tokens, NEW balance \in Balances,
               Sweep(u, k, balance)
        PROVE  DayInv'
    <2> DEFINE recorded == Recorded(user[u], SweptPull(u, k, balance), now)
    <2>1. /\ MaySweep(u, k)
          /\ user' = [user EXCEPT ![u] = [recorded EXCEPT !.last_sweep_day[k] = DayOf(now)]]
          /\ daySweeps' = [daySweeps EXCEPT ![u][k] = @ + 1]
          /\ UNCHANGED now
      BY <1>3, Zenon DEF Sweep
    <2>2. daySweeps[u][k] = 0 /\ Enrolled(u)
      <3>1. daySweeps[u][k] \in Nat /\ user[u].last_sweep_day[k] \in Nat
        BY <1>1
      <3>2. DayOf(now) # user[u].last_sweep_day[k] /\ Enrolled(u)
        BY <1>1, <2>1, <3>1 DEF MaySweep
      <3>3. daySweeps[u][k] <= 1 /\ daySweeps[u][k] # 1
        BY <3>2 DEF DayInv
      <3> QED
        BY <3>1, <3>2, <3>3
    <2>3. /\ recorded \in UserConfigs
          /\ recorded.status = user[u].status
          /\ recorded.last_sweep_day = user[u].last_sweep_day
      <3>1. recorded \in UserConfigs
        BY <1>1, LateriteAssumption, SweptPullType, RecordedType
      <3> QED
        BY <1>1, <3>1 DEF Recorded, UserConfigs
    <2> HIDE DEF recorded
    <2>4. /\ user'[u].status = user[u].status
          /\ user'[u].last_sweep_day = [user[u].last_sweep_day EXCEPT ![k] = DayOf(now)]
          /\ \A v \in Users \ {u} : user'[v] = user[v]
      BY <1>1, <2>1, <2>3 DEF UserConfigs
    <2> QED
      BY <1>1, <2>1, <2>2, <2>4 DEF DayInv, Enrolled
  <1>4. ASSUME NEW u \in Users, NEW p \in Params, Enroll(u, p)
        PROVE  DayInv'
    <2>1. /\ ~Enrolled(u)
          /\ UNCHANGED <<now, daySweeps>>
          /\ \A v \in Users \ {u} : user'[v] = user[v]
      BY <1>1, <1>4 DEF Enroll, Enrolled, pulls
    <2>2. \A t \in Tokens : daySweeps[u][t] = 0
      <3>1. \A t \in Tokens : daySweeps[u][t] \in Nat
        BY <1>1
      <3>2. \A t \in Tokens : daySweeps[u][t] <= 1 /\ daySweeps[u][t] # 1
        BY <2>1, Zenon DEF DayInv
      <3> QED
        BY <3>1, <3>2
    <2> QED
      BY <1>1, <2>1, <2>2 DEF DayInv, Enrolled
  <1>5. CASE Harmless
    BY <1>5 DEF Harmless, pulls, KeepsCounters, DayInv
  <1> QED
    BY <1>2, <1>3, <1>4, <1>5, StepCases

(* Whatever a user and the admin do in between, a payment token of a user  *)
(* is swept at most once per UTC day.                                      *)
THEOREM SweptDaily == Spec => []SweptOncePerDay
  <1>1. Init => TypeInv /\ DayInv
    <2>1. Init => DayInv
      BY DEF Init, DayInv
    <2> QED
      BY <2>1, TypeInit
  <1>2. TypeInv /\ DayInv /\ [Next]_vars => TypeInv' /\ DayInv'
    BY TypeStep, DayStep
  <1>3. DayInv => SweptOncePerDay
    BY DEF DayInv, SweptOncePerDay
  <1> QED
    BY <1>1, <1>2, <1>3, PTL DEF Spec

-----------------------------------------------------------------------------
(***************************************************************************)
(* What a week can add up to.                                              *)
(***************************************************************************)

(* Capping a pull only lowers it (Pull::capped).                           *)
LEMMA CappedLowers ==
    ASSUME NEW p \in Pulls, NEW limit \in Nat
    PROVE  Total(Capped(p, limit)) <= Total(p)
  BY DEF Capped, Total, Pulls, Lesser

(* A pull fits in the room the week leaves (pull).                         *)
LEMMA PullWithinRoom ==
    ASSUME NEW c \in UserConfigs, NEW k \in Tokens, NEW balance \in Nat,
           NEW betaCap \in Nat, NEW calendar, NEW t \in Nat
    PROVE  Total(Pull(c, k, balance, betaCap, calendar, t)) <= Room(c, k, balance, betaCap, t)
  <1> DEFINE room == Room(c, k, balance, betaCap, t)
             engine == IF EngineDue(c, calendar, t)
                       THEN Lesser(c.rules.engine_amount, room) ELSE 0
  <1>1. room \in Nat
    BY RoomNat
  <1>2. c.rules.engine_amount \in Nat /\ c.pending \in Nat
    BY DEF UserConfigs, Rules
  <1> HIDE DEF room
  <1>3. engine \in Nat /\ engine <= room
    BY <1>1, <1>2 DEF Lesser
  <1> HIDE DEF engine
  <1>4. Total([engine |-> engine, pending |-> Lesser(c.pending, room - engine)]) <= room
    BY <1>1, <1>2, <1>3 DEF Total, Lesser
  <1>5. Total(NoPull) <= room
    BY <1>1 DEF Total, NoPull
  <1> QED
    BY <1>4, <1>5 DEF Pull, room, engine

(* What a sweep takes, on top of what the week has spent, is within the    *)
(* cap of the week.                                                        *)
LEMMA SweepWithinCap ==
    ASSUME TypeInv, NEW u \in Users, NEW k \in Tokens, NEW balance \in Nat,
           Total(SweptPull(u, k, balance)) > 0
    PROVE  /\ SpentAt(user[u], now) \in Nat
           /\ WeeklyCap(user[u], config.user_weekly_cap, now) \in Nat
           /\ SpentAt(user[u], now) + Total(SweptPull(u, k, balance))
                  <= WeeklyCap(user[u], config.user_weekly_cap, now)
  <1> DEFINE c == user[u]
             betaCap == config.user_weekly_cap
             asked == Pull(c, k, balance, betaCap, config.market_calendar, now)
             allowed == Remaining(subscription[u][k][c.rules.tier], TIERS[c.rules.tier], now)
  <1>1. /\ c \in UserConfigs /\ now \in Nat /\ betaCap \in Nat
        /\ c.rules.tier \in Tiers /\ c.rules.cushions[k] \in Nat
        /\ c.week_spent \in Nat /\ c.enrolled_at \in Nat
        /\ TIERS[c.rules.tier] \in Nat
        /\ subscription[u][k][c.rules.tier] \in Subscriptions
    BY AmountAssumption DEF TypeInv, TypeOK, AccountsTypeOK, UserConfigs, Rules, Configs
  <1>2. allowed \in Nat
    BY <1>1, SubscriptionType
  <1>3. asked \in Pulls /\ Total(asked) <= Room(c, k, balance, betaCap, now)
    BY <1>1, PullType, PullWithinRoom
  <1>4. Total(SweptPull(u, k, balance)) <= Room(c, k, balance, betaCap, now)
    <2>1. Capped(asked, allowed) \in Pulls /\ Total(Capped(asked, allowed)) <= Total(asked)
      BY <1>2, <1>3, CappedType, CappedLowers
    <2>2. SweptPull(u, k, balance) = Capped(asked, allowed)
      BY DEF SweptPull
    <2>3. Room(c, k, balance, betaCap, now) \in Nat
      BY <1>1, RoomNat
    <2> HIDE DEF asked, allowed
    <2>4. Total(asked) \in Nat /\ Total(Capped(asked, allowed)) \in Nat
      BY <1>3, <2>1 DEF Pulls, Total
    <2> QED
      BY <1>3, <2>1, <2>2, <2>3, <2>4
  <1>5. SpentAt(c, now) \in Nat /\ WeeklyCap(c, betaCap, now) \in Nat
    BY <1>1, AmountAssumption DEF SpentAt, WeeklyCap, Lesser
  <1>6. Total(SweptPull(u, k, balance)) \in Nat
    BY SweptPullType DEF Pulls, Total
  <1>7. Room(c, k, balance, betaCap, now) \in Nat
    BY <1>1, RoomNat
  <1> HIDE DEF c, betaCap
  <1>8. Room(c, k, balance, betaCap, now)
            <= SaturatingSub(WeeklyCap(c, betaCap, now), SpentAt(c, now))
    BY <1>1, <1>5 DEF Room, Lesser, SaturatingSub
  <1>9. Total(SweptPull(u, k, balance))
            <= SaturatingSub(WeeklyCap(c, betaCap, now), SpentAt(c, now))
    BY <1>4, <1>5, <1>6, <1>7, <1>8 DEF SaturatingSub
  <1> QED
    BY <1>5, <1>6, <1>9 DEF SaturatingSub, c, betaCap

(* A week's cap is a cap of the code: the trial's, or a tier's.            *)
LEMMA CapBounds ==
    ASSUME TypeInv, NEW u \in Users
    PROVE  /\ WeeklyCap(user[u], config.user_weekly_cap, now) <= U64_MAX
           /\ IF now < user[u].enrolled_at + WEEK_SECONDS
              THEN WeeklyCap(user[u], config.user_weekly_cap, now) <= TRIAL_CAP
              ELSE \E tier \in Tiers :
                       WeeklyCap(user[u], config.user_weekly_cap, now) <= TIERS[tier]
  <1>1. user[u].rules.tier \in Tiers /\ config.user_weekly_cap \in Nat
    BY DEF TypeInv, TypeOK, AccountsTypeOK, UserConfigs, Rules, Configs
  <1>2. TIERS[user[u].rules.tier] \in 0..U64_MAX
    BY <1>1, AmountAssumption
  <1> QED
    BY <1>1, <1>2, AmountAssumption DEF WeeklyCap, Lesser

(* What a sweep does to the week's accounts.                               *)
LEMMA SweepCounts ==
    ASSUME TypeInv, WeekInv,
           NEW u \in Users, NEW k \in Tokens, NEW balance \in Balances, Sweep(u, k, balance)
    PROVE  /\ UNCHANGED <<now, config, joined>>
           /\ Enrolled(u)
           /\ \A v \in Users \ {u} : user'[v] = user[v] /\ weekPulled'[v] = weekPulled[v]
           /\ user'[u].status = user[u].status
           /\ user'[u].enrolled_at = user[u].enrolled_at
           /\ user'[u].week = WeekAt(user[u], now)
           /\ user'[u].week_spent = weekPulled'[u]
           /\ weekPulled'[u] \in Nat
           /\ weekPulled'[u] <= WeeklyCap(user[u], config.user_weekly_cap, now)
  <1> DEFINE pull == SweptPull(u, k, balance)
             recorded == Recorded(user[u], pull, now)
             cap == WeeklyCap(user[u], config.user_weekly_cap, now)
             spent == SpentAt(user[u], now)
  <1>1. /\ MaySweep(u, k) /\ Total(pull) > 0
        /\ user' = [user EXCEPT ![u] = [recorded EXCEPT !.last_sweep_day[k] = DayOf(now)]]
        /\ weekPulled' = [weekPulled EXCEPT ![u] = @ + Total(pull)]
        /\ UNCHANGED <<now, config, joined>>
    BY Zenon DEF Sweep
  <1>2. balance \in Nat /\ pull \in Pulls /\ Total(pull) \in Nat
    BY LateriteAssumption, SweptPullType DEF Pulls, Total
  <1>3. /\ now \in Nat /\ weekPulled \in [Users -> Nat]
        /\ user \in [Users -> UserConfigs] /\ user[u] \in UserConfigs
    BY DEF TypeInv, TypeOK, AccountsTypeOK, HistoryTypeOK
  <1>4. spent \in Nat /\ cap \in Nat /\ spent + Total(pull) <= cap /\ cap <= U64_MAX
    BY <1>1, <1>2, SweepWithinCap, CapBounds
  <1>5. Enrolled(u)
    BY <1>1 DEF MaySweep
  <1>6. weekPulled[u] = spent
    BY <1>5 DEF WeekInv
  <1>7. /\ recorded \in UserConfigs
        /\ recorded.status = user[u].status
        /\ recorded.enrolled_at = user[u].enrolled_at
        /\ recorded.week = WeekAt(user[u], now)
        /\ recorded.week_spent = SaturatingAdd(spent, Total(pull))
    <2>1. recorded \in UserConfigs
      BY <1>2, <1>3, RecordedType
    <2> QED
      BY <1>3, <2>1 DEF Recorded, UserConfigs
  <1> HIDE DEF pull, recorded, cap, spent
  <1>8. SaturatingAdd(spent, Total(pull)) = spent + Total(pull)
    BY <1>2, <1>4, AmountAssumption DEF SaturatingAdd, Lesser
  <1>9. weekPulled'[u] = spent + Total(pull)
    BY <1>1, <1>3, <1>6
  <1>10. /\ user'[u].status = user[u].status
         /\ user'[u].enrolled_at = user[u].enrolled_at
         /\ user'[u].week = WeekAt(user[u], now)
         /\ user'[u].week_spent = weekPulled'[u]
    BY <1>1, <1>3, <1>7, <1>8, <1>9 DEF UserConfigs
  <1>11. \A v \in Users \ {u} : user'[v] = user[v] /\ weekPulled'[v] = weekPulled[v]
    BY <1>1, <1>3
  <1> QED
    BY <1>1, <1>2, <1>4, <1>5, <1>9, <1>10, <1>11 DEF cap

(* How weeks follow each other as the clock advances.                      *)
LEMMA NextWeek ==
    ASSUME NEW start \in Nat, NEW t \in Nat, start <= t
    PROVE  /\ WeekFrom(start, t) \in Nat /\ WeekFrom(start, t + 1) \in Nat
           /\ WeekFrom(start, t) <= WeekFrom(start, t + 1)
           /\ WeekFrom(start, t) = 0 <=> t < start + WEEK_SECONDS
           /\ WeekFrom(start, t + 1) = 0 <=> t + 1 < start + WEEK_SECONDS
           /\ WeekFrom(start, t + 1) = WeekFrom(start, t)
                 <=> (t + 1 - start) % WEEK_SECONDS # 0
  <1>1. t - start \in Nat /\ t + 1 - start \in Nat /\ t - start <= t + 1 - start
    OBVIOUS
  <1>2. /\ WeekFrom(start, t) = (t - start) \div WEEK_SECONDS
        /\ WeekFrom(start, t + 1) = (t + 1 - start) \div WEEK_SECONDS
    BY DEF WeekFrom, SaturatingSub
  <1>3. /\ (t - start) \div WEEK_SECONDS \in Nat
        /\ (t + 1 - start) \div WEEK_SECONDS \in Nat
        /\ (t - start) \div WEEK_SECONDS <= (t + 1 - start) \div WEEK_SECONDS
    BY <1>1, DivNat, DivMonotone, AmountAssumption
  <1>4. /\ t - start < WEEK_SECONDS <=> (t - start) \div WEEK_SECONDS = 0
        /\ t + 1 - start < WEEK_SECONDS <=> (t + 1 - start) \div WEEK_SECONDS = 0
    BY <1>1, DivFirst, AmountAssumption
  <1>5. (t - start + 1) % WEEK_SECONDS = 0
            <=> (t - start + 1) \div WEEK_SECONDS # (t - start) \div WEEK_SECONDS
    BY <1>1, DivNext, AmountAssumption
  <1>6. t - start + 1 = t + 1 - start
    OBVIOUS
  <1> QED
    BY <1>2, <1>3, <1>4, <1>5, <1>6, AmountAssumption

(* What the account says was spent stays what was pulled, and within the   *)
(* cap, at every step (record, spent_at, weekly_cap).                      *)
LEMMA WeekStep ==
    TypeInv /\ WeekInv /\ WeekWithinCap /\ [Next]_vars => WeekInv' /\ WeekWithinCap'
  <1> SUFFICES ASSUME TypeInv, WeekInv, WeekWithinCap, [Next]_vars
               PROVE  WeekInv' /\ WeekWithinCap'
    OBVIOUS
  <1>1. /\ now \in Nat /\ WEEK_SECONDS \in Nat
        /\ joined \in [Users -> Nat] /\ weekPulled \in [Users -> Nat]
        /\ user \in [Users -> UserConfigs]
        /\ \A u \in Users : /\ user[u] \in UserConfigs
                             /\ user[u].week \in Nat /\ user[u].week_spent \in Nat
    BY AmountAssumption DEF TypeInv, TypeOK, AccountsTypeOK, HistoryTypeOK, UserConfigs
  <1>2. 0 \in Tiers /\ TIERS[0] \in Nat /\ TRIAL_CAP \in Nat
    BY LateriteAssumption, AmountAssumption
  <1>3. CASE Tick
    <2>1. /\ now' = now + 1 /\ UNCHANGED <<user, joined>>
          /\ weekPulled' = [u \in Users |-> IF NewWeek(u) THEN 0 ELSE weekPulled[u]]
      BY <1>3 DEF Tick
    <2> SUFFICES ASSUME NEW u \in Users
                 PROVE  /\ ~Enrolled(u) => weekPulled'[u] = 0
                        /\ Enrolled(u) =>
                              /\ user[u].enrolled_at = joined[u]
                              /\ joined[u] <= now + 1
                              /\ user[u].week <= WeekAt(user[u], now + 1)
                              /\ weekPulled'[u] = SpentAt(user[u], now + 1)
                        /\ IF now + 1 < joined[u] + WEEK_SECONDS
                           THEN weekPulled'[u] <= TRIAL_CAP
                           ELSE \E tier \in Tiers : weekPulled'[u] <= TIERS[tier]
      BY <2>1 DEF WeekInv, WeekWithinCap, InTrial, Enrolled
    <2>2. CASE ~Enrolled(u)
      <3>1. weekPulled'[u] = 0
        BY <1>1, <2>1, <2>2 DEF WeekInv
      <3> QED
        BY <1>2, <2>2, <3>1
    <2>3. CASE Enrolled(u)
      <3>1. /\ user[u].enrolled_at = joined[u] /\ joined[u] <= now /\ joined[u] \in Nat
            /\ user[u].week <= WeekFrom(joined[u], now)
            /\ weekPulled[u] = SpentAt(user[u], now)
        BY <1>1, <2>3 DEF WeekInv, WeekAt
      <3>2. /\ WeekFrom(joined[u], now) \in Nat /\ WeekFrom(joined[u], now + 1) \in Nat
            /\ WeekFrom(joined[u], now) <= WeekFrom(joined[u], now + 1)
            /\ WeekFrom(joined[u], now) = 0 <=> now < joined[u] + WEEK_SECONDS
            /\ WeekFrom(joined[u], now + 1) = 0 <=> now + 1 < joined[u] + WEEK_SECONDS
            /\ NewWeek(u) <=> WeekFrom(joined[u], now + 1) # WeekFrom(joined[u], now)
        BY <1>1, <3>1, NextWeek DEF NewWeek
      <3>3. CASE NewWeek(u)
        <4>1. weekPulled'[u] = 0
          BY <2>1, <3>3
        <4>2. user[u].week < WeekFrom(joined[u], now + 1)
          BY <1>1, <3>1, <3>2, <3>3
        <4>3. SpentAt(user[u], now + 1) = 0
          BY <1>1, <3>1, <3>2, <4>2 DEF SpentAt, WeekAt
        <4> QED
          BY <1>1, <1>2, <2>3, <3>1, <3>2, <4>1, <4>2, <4>3 DEF WeekAt
      <3>4. CASE ~NewWeek(u)
        <4>1. weekPulled'[u] = weekPulled[u]
          BY <2>1, <3>4
        <4>2. WeekFrom(joined[u], now + 1) = WeekFrom(joined[u], now)
          BY <3>2, <3>4
        <4>3. SpentAt(user[u], now + 1) = SpentAt(user[u], now)
          BY <3>1, <4>2 DEF SpentAt, WeekAt
        <4>4. IF now < joined[u] + WEEK_SECONDS
              THEN weekPulled[u] <= TRIAL_CAP
              ELSE \E tier \in Tiers : weekPulled[u] <= TIERS[tier]
          BY DEF WeekWithinCap, InTrial
        <4>5. now + 1 < joined[u] + WEEK_SECONDS <=> now < joined[u] + WEEK_SECONDS
          BY <3>2, <4>2
        <4>6. /\ joined[u] <= now + 1
              /\ user[u].week <= WeekAt(user[u], now + 1)
          BY <1>1, <3>1, <4>2 DEF WeekAt
        <4> QED
          BY <2>3, <3>1, <4>1, <4>3, <4>4, <4>5, <4>6
      <3> QED
        BY <3>3, <3>4
    <2> QED
      BY <2>2, <2>3
  <1>4. ASSUME NEW u \in Users, NEW k \in Tokens, NEW balance \in Balances,
               Sweep(u, k, balance)
        PROVE  WeekInv' /\ WeekWithinCap'
    <2> DEFINE cap == WeeklyCap(user[u], config.user_weekly_cap, now)
    <2>1. /\ UNCHANGED <<now, config, joined>>
          /\ Enrolled(u)
          /\ \A v \in Users \ {u} : user'[v] = user[v] /\ weekPulled'[v] = weekPulled[v]
          /\ user'[u].status = user[u].status
          /\ user'[u].enrolled_at = user[u].enrolled_at
          /\ user'[u].week = WeekAt(user[u], now)
          /\ user'[u].week_spent = weekPulled'[u]
          /\ weekPulled'[u] \in Nat
          /\ weekPulled'[u] <= cap
      BY <1>4, SweepCounts
    <2>2. user[u].enrolled_at = joined[u] /\ joined[u] <= now
      BY <2>1 DEF WeekInv
    <2>3. /\ WeekAt(user'[u], now) = WeekAt(user[u], now)
          /\ SpentAt(user'[u], now) = weekPulled'[u]
      BY <2>1 DEF WeekAt, SpentAt
    <2>4. WeekAt(user[u], now) \in Nat
      BY <1>1, <2>2, NextWeek DEF WeekAt
    <2>5. WeekInv'
      BY <2>1, <2>2, <2>3, <2>4 DEF WeekInv, Enrolled, WeekAt, SpentAt
    <2>6. /\ cap \in Nat
          /\ IF now < joined[u] + WEEK_SECONDS
             THEN cap <= TRIAL_CAP
             ELSE \E tier \in Tiers : cap <= TIERS[tier]
      <3>1. cap \in Nat
        BY AmountAssumption DEF WeeklyCap, Lesser, TypeInv, TypeOK, AccountsTypeOK,
                                UserConfigs, Rules, Configs
      <3> QED
        BY <2>2, <3>1, CapBounds
    <2> HIDE DEF cap
    <2>7. IF now < joined[u] + WEEK_SECONDS
          THEN weekPulled'[u] <= TRIAL_CAP
          ELSE \E tier \in Tiers : weekPulled'[u] <= TIERS[tier]
      BY <1>2, <2>1, <2>6, AmountAssumption
    <2>8. WeekWithinCap'
      BY <2>1, <2>7 DEF WeekWithinCap, InTrial
    <2> QED
      BY <2>5, <2>8
  <1>5. ASSUME NEW u \in Users, NEW p \in Params, Enroll(u, p)
        PROVE  WeekInv' /\ WeekWithinCap'
    <2>1. /\ ~Enrolled(u)
          /\ UNCHANGED <<now, weekPulled>>
          /\ joined' = [joined EXCEPT ![u] = now]
          /\ \A v \in Users \ {u} : user'[v] = user[v] /\ joined'[v] = joined[v]
          /\ user'[u].status = "Active" /\ user'[u].enrolled_at = now
          /\ user'[u].week = 0 /\ user'[u].week_spent = 0
      BY <1>1, <1>5 DEF Enroll, Enrolled, pulls
    <2>2. joined'[u] = now /\ weekPulled'[u] = 0
      BY <1>1, <2>1 DEF WeekInv
    <2>3. WeekAt(user'[u], now) = 0 /\ SpentAt(user'[u], now) = 0
      <3>1. WeekFrom(now, now) = 0
        BY <1>1, AmountAssumption, NextWeek
      <3> QED
        BY <2>1, <3>1 DEF WeekAt, SpentAt
    <2>4. WeekInv'
      BY <1>1, <2>1, <2>2, <2>3 DEF WeekInv, Enrolled, WeekAt, SpentAt
    <2>5. WeekWithinCap'
      BY <1>2, <2>1, <2>2 DEF WeekWithinCap, InTrial
    <2> QED
      BY <2>4, <2>5
  <1>6. CASE Harmless
    <2>1. \A u \in Users :
              /\ WeekAt(user'[u], now) = WeekAt(user[u], now)
              /\ SpentAt(user'[u], now) = SpentAt(user[u], now)
      BY <1>6 DEF Harmless, KeepsCounters, WeekAt, SpentAt
    <2>2. UNCHANGED <<now, joined, weekPulled>>
      BY <1>6 DEF Harmless, pulls
    <2>3. WeekInv'
      BY <1>6, <2>1, <2>2 DEF Harmless, KeepsCounters, WeekInv, WeekAt, SpentAt
    <2>4. WeekWithinCap'
      BY <2>2 DEF WeekWithinCap, InTrial
    <2> QED
      BY <2>3, <2>4
  <1> QED
    BY <1>3, <1>4, <1>5, <1>6, StepCases

(* Nothing has been pulled when the program is initialized (UserConfig).   *)
LEMMA WeekInit == Init => TypeInv /\ WeekInv /\ WeekWithinCap
  <1> SUFFICES ASSUME Init PROVE WeekInv /\ WeekWithinCap
    BY TypeInit
  <1>1. \A u \in Users : weekPulled[u] = 0 /\ ~Enrolled(u)
    BY DEF Init, Enrolled, NoUserConfig
  <1>2. 0 \in Tiers /\ 0 <= TIERS[0] /\ 0 <= TRIAL_CAP
    BY LateriteAssumption, AmountAssumption
  <1> QED
    BY <1>1, <1>2 DEF WeekInv, WeekWithinCap

(* The combined weekly cap: what leaves a wallet in one of its user's      *)
(* weeks is at most the trial cap in the first week ever and the largest   *)
(* tier afterwards, for any number of tokens and tiers, any lengths of     *)
(* weeks and periods, and any sequence of controls, exits and returns.     *)
THEOREM WeekCapped == Spec => []WeekWithinCap
  <1>1. TypeInv /\ WeekInv /\ WeekWithinCap /\ [Next]_vars
            => TypeInv' /\ WeekInv' /\ WeekWithinCap'
    BY TypeStep, WeekStep
  <1> QED
    BY <1>1, WeekInit, PTL DEF Spec

(* Every single pull keeps the week within the cap of the moment: the      *)
(* user's tier and the beta's cap as they are when it happens.             *)
THEOREM PullsCapped == Spec => PullsWithinCap
  <1> DEFINE Within == \A u \in Users :
                          weekPulled'[u] > weekPulled[u] => weekPulled'[u] <= CapOf(u)
  <1>1. TypeInv /\ WeekInv /\ [Next]_vars => [Within]_vars
    <2> SUFFICES ASSUME TypeInv, WeekInv, [Next]_vars PROVE Within
      OBVIOUS
    <2>1. weekPulled \in [Users -> Nat]
      BY DEF TypeInv, TypeOK, HistoryTypeOK
    <2>2. CASE Tick
      BY <2>1, <2>2 DEF Tick
    <2>3. ASSUME NEW u \in Users, NEW k \in Tokens, NEW balance \in Balances,
                 Sweep(u, k, balance)
          PROVE  Within
      <3>1. /\ weekPulled'[u] <= WeeklyCap(user[u], config.user_weekly_cap, now)
            /\ Enrolled(u)
            /\ \A v \in Users \ {u} : weekPulled'[v] = weekPulled[v]
        BY <2>3, SweepCounts
      <3>2. user[u].enrolled_at = joined[u]
        BY <3>1 DEF WeekInv
      <3>3. /\ config.user_weekly_cap \in Nat /\ TRIAL_CAP \in Nat
            /\ TIERS[user[u].rules.tier] \in Nat
        BY AmountAssumption DEF TypeInv, TypeOK, AccountsTypeOK, UserConfigs, Rules, Configs
      <3>4. WeeklyCap(user[u], config.user_weekly_cap, now) = CapOf(u)
        BY <3>2, <3>3 DEF WeeklyCap, CapOf, InTrial, Lesser
      <3> QED
        BY <2>1, <3>1, <3>4
    <2>4. ASSUME NEW u \in Users, NEW p \in Params, Enroll(u, p)
          PROVE  Within
      BY <2>1, <2>4 DEF Enroll, pulls
    <2>5. CASE Harmless
      BY <2>1, <2>5 DEF Harmless, pulls
    <2> QED
      BY <2>2, <2>3, <2>4, <2>5, StepCases
  <1>2. TypeInv /\ WeekInv /\ WeekWithinCap /\ [Next]_vars
            => TypeInv' /\ WeekInv' /\ WeekWithinCap'
    BY TypeStep, WeekStep
  <1> QED
    BY <1>1, <1>2, WeekInit, PTL DEF Spec, PullsWithinCap

-----------------------------------------------------------------------------
(***************************************************************************)
(* The engine buys once per period.                                        *)
(***************************************************************************)

(* A pull has an engine part only when the engine is due (pull, capped).   *)
LEMMA EngineOnlyWhenDue ==
    ASSUME TypeInv, NEW u \in Users, NEW k \in Tokens, NEW balance \in Nat,
           SweptPull(u, k, balance).engine > 0
    PROVE  EngineDue(user[u], config.market_calendar, now)
  <1> DEFINE c == user[u]
             asked == Pull(c, k, balance, config.user_weekly_cap, config.market_calendar, now)
             allowed == Remaining(subscription[u][k][c.rules.tier], TIERS[c.rules.tier], now)
  <1>1. /\ c \in UserConfigs /\ now \in Nat /\ config.user_weekly_cap \in Nat
        /\ TIERS[c.rules.tier] \in Nat
        /\ subscription[u][k][c.rules.tier] \in Subscriptions
    BY AmountAssumption DEF TypeInv, TypeOK, AccountsTypeOK, UserConfigs, Rules, Configs
  <1>2. asked \in Pulls /\ allowed \in Nat
    BY <1>1, PullType, SubscriptionType
  <1>3. SweptPull(u, k, balance) = Capped(asked, allowed)
    BY DEF SweptPull
  <1>4. asked.engine > 0
    <2> HIDE DEF asked, allowed
    <2> QED
      BY <1>2, <1>3 DEF Capped, Pulls, Lesser
  <1> QED
    BY <1>4 DEF Pull, NoPull

(* What a sweep does to the engine's counts.                               *)
LEMMA SweepEngine ==
    ASSUME TypeInv, NEW u \in Users, NEW k \in Tokens, NEW balance \in Balances,
           Sweep(u, k, balance)
    PROVE  /\ UNCHANGED now
           /\ Enrolled(u)
           /\ \A v \in Users \ {u} : /\ user'[v] = user[v]
                                     /\ dayEngine'[v] = dayEngine[v]
                                     /\ weekEngine'[v] = weekEngine[v]
           /\ user'[u].status = user[u].status
           /\ user'[u].enrolled_at = user[u].enrolled_at
           /\ \/ /\ EngineDue(user[u], config.market_calendar, now)
                 /\ user'[u].engine_ran_at = now
                 /\ dayEngine'[u] = dayEngine[u] + 1
                 /\ weekEngine'[u] = weekEngine[u] + 1
              \/ /\ user'[u].engine_ran_at = user[u].engine_ran_at
                 /\ dayEngine'[u] = dayEngine[u]
                 /\ weekEngine'[u] = weekEngine[u]
  <1> DEFINE pull == SweptPull(u, k, balance)
             recorded == Recorded(user[u], pull, now)
             bought == IF pull.engine > 0 THEN 1 ELSE 0
  <1>1. /\ MaySweep(u, k)
        /\ user' = [user EXCEPT ![u] = [recorded EXCEPT !.last_sweep_day[k] = DayOf(now)]]
        /\ dayEngine' = [dayEngine EXCEPT ![u] = @ + bought]
        /\ weekEngine' = [weekEngine EXCEPT ![u] = @ + bought]
        /\ UNCHANGED now
    BY Zenon DEF Sweep
  <1>2. /\ now \in Nat /\ user \in [Users -> UserConfigs] /\ user[u] \in UserConfigs
        /\ dayEngine \in [Users -> Nat] /\ weekEngine \in [Users -> Nat]
    BY DEF TypeInv, TypeOK, AccountsTypeOK, HistoryTypeOK
  <1>3. pull \in Pulls /\ recorded \in UserConfigs
    BY <1>2, LateriteAssumption, SweptPullType, RecordedType
  <1>4. /\ recorded.status = user[u].status
        /\ recorded.enrolled_at = user[u].enrolled_at
        /\ recorded.engine_ran_at = IF pull.engine > 0 THEN now ELSE user[u].engine_ran_at
    BY <1>2, <1>3 DEF Recorded, UserConfigs
  <1>5. pull.engine > 0 => EngineDue(user[u], config.market_calendar, now)
    BY LateriteAssumption, EngineOnlyWhenDue
  <1>6. pull.engine \in Nat
    BY <1>3 DEF Pulls
  <1> HIDE DEF pull, recorded
  <1>7. /\ user'[u].status = user[u].status
        /\ user'[u].enrolled_at = user[u].enrolled_at
        /\ user'[u].engine_ran_at = IF pull.engine > 0 THEN now ELSE user[u].engine_ran_at
        /\ \A v \in Users \ {u} : user'[v] = user[v]
    BY <1>1, <1>2, <1>3, <1>4 DEF UserConfigs
  <1>8. Enrolled(u)
    BY <1>1 DEF MaySweep
  <1>9. CASE pull.engine > 0
    BY <1>1, <1>2, <1>5, <1>7, <1>8, <1>9
  <1>10. CASE ~(pull.engine > 0)
    BY <1>1, <1>2, <1>7, <1>8, <1>10
  <1> QED
    BY <1>9, <1>10

(* The mark of the engine's run outlives every step until its day and its  *)
(* week end (engine_ran_at).                                               *)
LEMMA EngineStep == TypeInv /\ WeekInv /\ EngineInv /\ [Next]_vars => EngineInv'
  <1> SUFFICES ASSUME TypeInv, WeekInv, EngineInv, [Next]_vars PROVE EngineInv'
    OBVIOUS
  <1>1. /\ now \in Nat /\ user \in [Users -> UserConfigs]
        /\ dayEngine \in [Users -> Nat] /\ weekEngine \in [Users -> Nat]
        /\ \A u \in Users : user[u].enrolled_at \in Nat /\ user[u].engine_ran_at \in Nat
    BY DEF TypeInv, TypeOK, AccountsTypeOK, HistoryTypeOK, UserConfigs
  <1>2. CASE Tick
    <2>1. /\ now' = now + 1 /\ UNCHANGED user
          /\ dayEngine' = [u \in Users |-> IF NewDay THEN 0 ELSE dayEngine[u]]
          /\ weekEngine' = [u \in Users |-> IF NewWeek(u) THEN 0 ELSE weekEngine[u]]
      BY <1>2 DEF Tick
    <2>2. ~NewDay => DayOf(now') = DayOf(now)
      BY <1>1, <2>1, SameDay
    <2>3. \A u \in Users :
              Enrolled(u) /\ ~NewWeek(u) => WeekAt(user[u], now') = WeekAt(user[u], now)
      <3> SUFFICES ASSUME NEW u \in Users, Enrolled(u), ~NewWeek(u)
                   PROVE  WeekAt(user[u], now + 1) = WeekAt(user[u], now)
        BY <2>1
      <3>1. user[u].enrolled_at = joined[u] /\ joined[u] \in Nat /\ joined[u] <= now
        BY <1>1 DEF WeekInv
      <3>2. WeekFrom(joined[u], now + 1) = WeekFrom(joined[u], now)
        BY <1>1, <3>1, NextWeek DEF NewWeek
      <3> QED
        BY <3>1, <3>2 DEF WeekAt
    <2> QED
      BY <1>1, <2>1, <2>2, <2>3 DEF EngineInv, Enrolled, WeekAt
  <1>3. ASSUME NEW u \in Users, NEW k \in Tokens, NEW balance \in Balances,
               Sweep(u, k, balance)
        PROVE  EngineInv'
    <2>1. user[u].enrolled_at <= now
      BY <1>3, SweepEngine DEF WeekInv
    <2> QED
      BY <1>1, <1>3, <2>1, SweepEngine DEF EngineInv, Enrolled, WeekAt
  <1>4. ASSUME NEW u \in Users, NEW p \in Params, Enroll(u, p)
        PROVE  EngineInv'
    <2>1. /\ ~Enrolled(u)
          /\ UNCHANGED <<now, dayEngine, weekEngine>>
          /\ \A v \in Users \ {u} : user'[v] = user[v]
      BY <1>1, <1>4 DEF Enroll, Enrolled, pulls
    <2>2. ~(dayEngine[u] > 0) /\ ~(weekEngine[u] > 0)
      BY <2>1, Zenon DEF EngineInv
    <2> QED
      BY <2>1, <2>2 DEF EngineInv, Enrolled, WeekAt
  <1>5. CASE Harmless
    BY <1>5 DEF Harmless, pulls, KeepsCounters, EngineInv, WeekAt
  <1> QED
    BY <1>2, <1>3, <1>4, <1>5, StepCases

(* A daily engine buys only when nothing was bought that UTC day, a weekly *)
(* one only when nothing was bought that week, over all tokens together.   *)
THEOREM EngineOnce == Spec => EngineOncePerPeriod
  <1> DEFINE Once == \A u \in Users :
                        weekEngine'[u] > weekEngine[u] =>
                            IF user[u].rules.engine = "Daily" THEN dayEngine[u] = 0
                                                              ELSE weekEngine[u] = 0
             IInv == TypeInv /\ WeekInv /\ WeekWithinCap /\ EngineInv
  <1>1. Init => IInv
    <2>1. Init => EngineInv
      BY DEF Init, EngineInv
    <2> QED
      BY <2>1, WeekInit
  <1>2. IInv /\ [Next]_vars => IInv'
    BY TypeStep, WeekStep, EngineStep
  <1>3. IInv /\ [Next]_vars => [Once]_vars
    <2> SUFFICES ASSUME TypeInv, EngineInv, [Next]_vars PROVE Once
      OBVIOUS
    <2>1. /\ dayEngine \in [Users -> Nat] /\ weekEngine \in [Users -> Nat]
          /\ \A u \in Users : DayOf(user[u].engine_ran_at) \in Nat
          /\ DayOf(now) \in Nat
      BY DivNat, AmountAssumption
      DEF TypeInv, TypeOK, AccountsTypeOK, HistoryTypeOK, UserConfigs, DayOf
    <2>2. CASE Tick
      BY <2>1, <2>2 DEF Tick
    <2>3. ASSUME NEW u \in Users, NEW k \in Tokens, NEW balance \in Balances,
                 Sweep(u, k, balance)
          PROVE  Once
      <3>1. \A v \in Users \ {u} : weekEngine'[v] = weekEngine[v]
        BY <2>3, SweepEngine
      <3>2. weekEngine'[u] > weekEngine[u]
                => EngineDue(user[u], config.market_calendar, now)
        BY <2>1, <2>3, SweepEngine
      <3>3. EngineDue(user[u], config.market_calendar, now) =>
                IF user[u].rules.engine = "Daily" THEN ~(dayEngine[u] > 0)
                                                  ELSE ~(weekEngine[u] > 0)
        <4>1. CASE user[u].rules.engine = "Daily"
          BY <2>1, <4>1 DEF EngineInv, EngineDue
        <4>2. CASE user[u].rules.engine # "Daily"
          <5>1. \A t \in Nat : WeekAt(user[u], t) \in Nat
            <6>1. \A t \in Nat : SaturatingSub(t, user[u].enrolled_at) \in Nat
              BY DEF SaturatingSub, TypeInv, TypeOK, AccountsTypeOK, UserConfigs
            <6> QED
              BY <6>1, DivNat, AmountAssumption DEF WeekAt, WeekFrom
          <5>2. now \in Nat /\ user[u].engine_ran_at \in Nat
            BY DEF TypeInv, TypeOK, AccountsTypeOK, UserConfigs
          <5> QED
            BY <2>1, <4>2, <5>1, <5>2 DEF EngineInv, EngineDue
        <4> QED
          BY <4>1, <4>2
      <3> QED
        BY <2>1, <3>1, <3>2, <3>3
    <2>4. ASSUME NEW u \in Users, NEW p \in Params, Enroll(u, p)
          PROVE  Once
      BY <2>1, <2>4 DEF Enroll, pulls
    <2>5. CASE Harmless
      BY <2>1, <2>5 DEF Harmless, pulls
    <2> QED
      BY <2>2, <2>3, <2>4, <2>5, StepCases
  <1> QED
    BY <1>1, <1>2, <1>3, PTL DEF Spec, EngineOncePerPeriod

-----------------------------------------------------------------------------
(***************************************************************************)
(* The beta's seats.                                                       *)
(***************************************************************************)

SeatedUsers == {u \in Users : Seated(u)}

(* A step takes one free seat where there is room for one more, frees one  *)
(* taken seat, or leaves them all.                                         *)
SeatTaken(u) ==
    /\ u \notin SeatedUsers
    /\ config.max_users > config.user_count
    /\ SeatedUsers' = SeatedUsers \union {u}
    /\ config'.user_count = config.user_count + 1

SeatFreed(u) ==
    /\ u \in SeatedUsers
    /\ SeatedUsers' = SeatedUsers \ {u}
    /\ config'.user_count = SaturatingSub(config.user_count, 1)

SeatsKept ==
    /\ SeatedUsers' = SeatedUsers
    /\ config'.user_count = config.user_count

(* A step gives one user a seat, takes one away, or leaves all of them     *)
(* (enroll, reactivate, exit).                                             *)
LEMMA SeatSteps ==
    ASSUME TypeInv, [Next]_vars
    PROVE  \/ \E u \in Users : SeatTaken(u) \/ SeatFreed(u)
           \/ SeatsKept
  <1>1. user \in [Users -> UserConfigs] /\ config \in Configs
    BY DEF TypeInv, TypeOK, AccountsTypeOK
  <1>2. ASSUME NEW u \in Users, NEW p \in Params, Enroll(u, p)
        PROVE  SeatTaken(u)
    <2>1. user[u].status = "Absent" /\ user'[u].status = "Active"
      BY <1>1, <1>2 DEF Enroll
    <2>2. \A v \in Users \ {u} : user'[v] = user[v]
      BY <1>1, <1>2 DEF Enroll
    <2>3. config'.user_count = config.user_count + 1
      BY <1>1, <1>2 DEF Enroll, Configs
    <2>4. config.max_users > config.user_count
      BY <1>2 DEF Enroll, MayTakeSeat
    <2> QED
      BY <2>1, <2>2, <2>3, <2>4 DEF SeatTaken, SeatedUsers, Seated
  <1>3. ASSUME NEW u \in Users, NEW p \in Params, Reactivate(u, p)
        PROVE  SeatTaken(u)
    <2>1. user[u].status = "Exited" /\ user'[u].status = "Active"
      BY <1>1, <1>3 DEF Reactivate, UserConfigs
    <2>2. \A v \in Users \ {u} : user'[v] = user[v]
      BY <1>1, <1>3 DEF Reactivate
    <2>3. config'.user_count = config.user_count + 1
      BY <1>1, <1>3 DEF Reactivate, Configs
    <2>4. config.max_users > config.user_count
      BY <1>3 DEF Reactivate, MayTakeSeat
    <2> QED
      BY <2>1, <2>2, <2>3, <2>4 DEF SeatTaken, SeatedUsers, Seated
  <1>4. ASSUME NEW u \in Users, Exit(u)
        PROVE  SeatFreed(u)
    <2>1. Seated(u) /\ user'[u].status = "Exited"
      BY <1>1, <1>4 DEF Exit, UserConfigs
    <2>2. \A v \in Users \ {u} : user'[v] = user[v]
      BY <1>1, <1>4 DEF Exit
    <2>3. config'.user_count = SaturatingSub(config.user_count, 1)
      BY <1>1, <1>4 DEF Exit, Configs
    <2> QED
      BY <2>1, <2>2, <2>3 DEF SeatFreed, SeatedUsers, Seated
  <1>5. ASSUME config'.user_count = config.user_count,
               NEW u \in Users, Seated(u)' = Seated(u),
               \A v \in Users \ {u} : user'[v] = user[v]
        PROVE  SeatsKept
    BY <1>5 DEF SeatsKept, SeatedUsers, Seated
  <1>6. CASE UNCHANGED user /\ config'.user_count = config.user_count
    BY <1>6 DEF SeatsKept, SeatedUsers, Seated
  <1>7. ASSUME NEW u \in Users, Controls(u)
        PROVE  (\E v \in Users : SeatTaken(v) \/ SeatFreed(v)) \/ SeatsKept
    <2>1. ASSUME NEW p \in Params, UpdateSettings(u, p)
          PROVE  SeatsKept
      <3> DEFINE from == IF CountsMore(user[u].rules, p) THEN RaisedFrom(u)
                         ELSE user[u].attestable_from
      <3>1. /\ user' = [user EXCEPT ![u] = [user[u] EXCEPT !.rules = p, !.attestable_from = from]]
            /\ UNCHANGED config
        BY <2>1, Zenon DEF UpdateSettings
      <3> HIDE DEF from
      <3> QED
        BY <1>1, <1>5, <3>1 DEF Seated, UserConfigs
    <2>2. CASE PauseUser(u)
      BY <1>1, <1>5, <2>2 DEF PauseUser, Seated, UserConfigs
    <2>3. CASE ResumeUser(u)
      BY <1>1, <1>5, <2>3 DEF ResumeUser, Seated, UserConfigs
    <2>4. CASE \E pending \in 0..user[u].pending : LowerPending(u, pending)
      BY <1>1, <1>5, <2>4 DEF LowerPending, Seated, UserConfigs
    <2>5. CASE \E tier \in Tiers : ChangeTier(u, tier)
      BY <1>1, <1>5, <2>5 DEF ChangeTier, Seated, UserConfigs
    <2>6. ASSUME NEW tokens \in SUBSET Tokens, ChangePaymentTokens(u, tokens)
          PROVE  SeatsKept
      <3> DEFINE from == IF tokens \ user[u].rules.payment_tokens # {} THEN RaisedFrom(u)
                         ELSE user[u].attestable_from
      <3>1. /\ user' = [user EXCEPT ![u] = [user[u] EXCEPT
                           !.rules.payment_tokens = tokens, !.attestable_from = from]]
            /\ UNCHANGED config
        BY <2>6, Zenon DEF ChangePaymentTokens
      <3> HIDE DEF from
      <3> QED
        BY <1>1, <1>5, <3>1 DEF Seated, UserConfigs
    <2> QED
      BY <1>2, <1>3, <1>4, <1>7, <2>1, <2>2, <2>3, <2>4, <2>5, <2>6 DEF Controls
  <1>8. CASE Tick \/ UNCHANGED vars
    BY <1>6, <1>8 DEF Tick, vars
  <1>9. CASE \E u \in Users, k \in Tokens, balance \in Balances : Sweep(u, k, balance)
    <2>1. PICK u \in Users, k \in Tokens, balance \in Balances : Sweep(u, k, balance)
      BY <1>9
    <2> DEFINE recorded == Recorded(user[u], SweptPull(u, k, balance), now)
    <2>2. /\ user' = [user EXCEPT ![u] = [recorded EXCEPT !.last_sweep_day[k] = DayOf(now)]]
          /\ UNCHANGED config
      BY <2>1, Zenon DEF Sweep
    <2>3. recorded \in UserConfigs /\ recorded.status = user[u].status
      <3>1. recorded \in UserConfigs
        BY <1>1, LateriteAssumption, SweptPullType, RecordedType
           DEF TypeInv, TypeOK, AccountsTypeOK
      <3> QED
        BY <1>1, <3>1 DEF Recorded, UserConfigs
    <2> HIDE DEF recorded
    <2> QED
      BY <1>1, <1>5, <2>2, <2>3 DEF Seated, UserConfigs
  <1>10. CASE \E i \in TransferIds : Attest(i)
    <2>1. PICK i \in TransferIds : Attest(i)
      BY <1>10
    <2>2. PICK pending :
              /\ user' = [user EXCEPT ![transfer[i].user].pending = pending]
              /\ UNCHANGED config
      BY <2>1, Zenon DEF Attest
    <2>3. transfer[i].user \in Users
      BY DEF TypeInv, TypeOK, AccountsTypeOK, Transfers
    <2> QED
      BY <1>1, <1>5, <2>2, <2>3 DEF Seated, UserConfigs
  <1>11. CASE \E i \in TransferIds : CloseAttestation(i)
    BY <1>6, <1>11 DEF CloseAttestation
  <1>12. CASE Admin
    BY <1>1, <1>6, <1>12 DEF Admin, UpdateConfig, SetPaused, SetMarketCalendar, Configs
  <1>13. CASE \E u \in Users : Elsewhere(u)
    BY <1>6, <1>13 DEF Elsewhere, Subscribe, CancelSubscription, ResumeSubscription,
                       CloseSubscription, SetSubscription
  <1> QED
    BY <1>7, <1>8, <1>9, <1>10, <1>11, <1>12, <1>13 DEF Next, Cranks

(* How many have a seat is a number: users are finitely many.              *)
LEMMA SeatsFinite ==
    /\ IsFiniteSet(SeatedUsers)
    /\ SeatsTaken = Cardinality(SeatedUsers) /\ SeatsTaken \in Nat
  <1>1. IsFiniteSet(SeatedUsers)
    BY LateriteAssumption, FS_Subset DEF SeatedUsers
  <1> QED
    BY <1>1, FS_CardinalityType DEF SeatsTaken, SeatedUsers

(* Where the count is the number of seats taken, so it is after a step,    *)
(* and a seat more is one the beta still had (enroll, reactivate, exit).   *)
LEMMA SeatsStep ==
    ASSUME TypeInv, SeatsCounted, [Next]_vars
    PROVE  /\ SeatsCounted'
           /\ SeatsTaken' > SeatsTaken => SeatsTaken' <= config.max_users
  <1> DEFINE seats == SeatedUsers
             after == SeatedUsers'
  <1>1. /\ IsFiniteSet(seats) /\ Cardinality(seats) \in Nat
        /\ SeatsTaken = Cardinality(seats) /\ SeatsTaken' = Cardinality(after)
        /\ config.user_count = Cardinality(seats)
    BY SeatsFinite DEF SeatsCounted, SeatsTaken, SeatedUsers
  <1>2. config.max_users \in Nat
    BY DEF TypeInv, TypeOK, AccountsTypeOK, Configs
  <1>3. ASSUME NEW u \in Users, SeatTaken(u)
        PROVE  /\ config'.user_count = Cardinality(after)
               /\ Cardinality(after) <= config.max_users
    <2>1. Cardinality(after) = Cardinality(seats) + 1
      BY <1>1, <1>3, FS_AddElement DEF SeatTaken
    <2> QED
      BY <1>1, <1>2, <1>3, <2>1 DEF SeatTaken
  <1>4. ASSUME NEW u \in Users, SeatFreed(u)
        PROVE  /\ config'.user_count = Cardinality(after)
               /\ ~(Cardinality(after) > Cardinality(seats))
    <2>1. Cardinality(seats) # 0
      BY <1>1, <1>4, FS_EmptySet DEF SeatFreed
    <2>2. Cardinality(after) = Cardinality(seats) - 1
      BY <1>1, <1>4, FS_RemoveElement DEF SeatFreed
    <2> QED
      BY <1>1, <1>4, <2>1, <2>2 DEF SeatFreed, SaturatingSub
  <1>5. CASE SeatsKept
    BY <1>1, <1>5 DEF SeatsKept, SeatsCounted
  <1> QED
    BY <1>1, <1>3, <1>4, <1>5, SeatSteps DEF SeatsCounted

(* The program's count of users is the number of those who have a seat: it *)
(* neither drifts when users leave and return, nor stops at 0.             *)
LEMMA SeatsCountedAlways == Spec => []SeatsCounted
  <1>1. Init => TypeInv /\ SeatsCounted
    <2> SUFFICES ASSUME Init PROVE SeatsCounted
      BY TypeInit
    <2>1. {u \in Users : Seated(u)} = {} /\ config.user_count = 0
      BY DEF Init, Seated, NoUserConfig
    <2> QED
      BY <2>1, FS_EmptySet DEF SeatsCounted, SeatsTaken
  <1>2. TypeInv /\ SeatsCounted /\ [Next]_vars => TypeInv' /\ SeatsCounted'
    BY TypeStep, SeatsStep
  <1> QED
    BY <1>1, <1>2, PTL DEF Spec

(* No user takes a seat beyond the beta's number of the moment, however    *)
(* the admin changes it and whoever leaves and returns; and the program's  *)
(* count stays the number of seats taken (enroll, reactivate, exit).       *)
THEOREM SeatsStayWithinBeta == Spec => SeatsWithinBeta
  <1>1. TypeInv /\ SeatsCounted /\ [Next]_vars
            => [/\ SeatsTaken' > SeatsTaken => SeatsTaken' <= config.max_users
                /\ SeatsCounted']_vars
    BY SeatsStep
  <1>2. TypeInv /\ [Next]_vars => TypeInv'
    BY TypeStep
  <1> QED
    BY <1>1, <1>2, TypeInit, SeatsCountedAlways, PTL DEF Spec, SeatsWithinBeta
=============================================================================
