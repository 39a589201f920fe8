---------------------------- MODULE Subscription ----------------------------
(***************************************************************************)
(* A user's subscription to one of the vault's plans.  The account belongs *)
(* to the Subscriptions program, which is not part of the repository: what *)
(* it does is modelled from how the Laterite program, its clients and its  *)
(* tests use it.  What the Laterite program reads in the account and asks  *)
(* of it (subscription.rs) is modelled from the source.                    *)
(*                                                                         *)
(* "open" says whether the account exists; "start" and "pulled" are the    *)
(* start of its current period and what was pulled in it; "expires" is 0   *)
(* until the subscription is cancelled.                                    *)
(***************************************************************************)
EXTENDS Integers

CONSTANT PLAN_PERIOD    \* instants per period of every plan

ASSUME PeriodAssumption == PLAN_PERIOD \in Nat \ {0}

Subscriptions == [open : BOOLEAN, start : Nat, pulled : Nat, expires : Nat]

Closed == [open |-> FALSE, start |-> 0, pulled |-> 0, expires |-> 0]

Expired(s, t) == s.expires # 0 /\ t >= s.expires

(***************************************************************************)
(* What the Laterite program reads.                                        *)
(***************************************************************************)
IsLive(s) == s.open /\ s.expires = 0

\* Faulty: every pull is allowed a whole period's amount.
RemainingAlways(s, amount, t) == IF ~s.open \/ Expired(s, t) THEN 0 ELSE amount

Remaining(s, amount, t) ==
    IF ~s.open \/ Expired(s, t) THEN 0
    ELSE IF t - s.start >= PLAN_PERIOD THEN amount
    ELSE IF amount >= s.pulled THEN amount - s.pulled ELSE 0

(***************************************************************************)
(* What the Subscriptions program does.  A period that has run out is      *)
(* rolled over by whole periods when the subscription is next pulled; a    *)
(* cancellation by the user takes effect at the end of the current period, *)
(* a cancellation both parties sign at once, and neither is accepted for a *)
(* subscription that has already ended.  The account is closed by the user *)
(* once the subscription is over, or at any time once the user revoked the *)
(* authority behind it, by who paid for it.                                *)
(***************************************************************************)
PeriodStart(s, t) == s.start + ((t - s.start) \div PLAN_PERIOD) * PLAN_PERIOD

Subscribed(t) == [open |-> TRUE, start |-> t, pulled |-> 0, expires |-> 0]

CanCancel(s, t) == s.open /\ ~Expired(s, t)

CancelledAtPeriodEnd(s, t) == [s EXCEPT !.expires = PeriodStart(s, t) + PLAN_PERIOD]

CancelledNow(s, t) == [s EXCEPT !.expires = t]

CanResume(s, t) == s.open /\ s.expires # 0 /\ ~Expired(s, t)

Resumed(s) == [s EXCEPT !.expires = 0]

CanClose(s) == s.open

Pulled(s, amount, t) ==
    [s EXCEPT !.start = PeriodStart(s, t),
              !.pulled = IF PeriodStart(s, t) = s.start THEN @ + amount ELSE amount]

(***************************************************************************)
(* Cancellation.cancel: a subscription that is closed or already over is   *)
(* left alone; any other is ended now, which Subscriptions must accept.    *)
(***************************************************************************)
\* Faulty: a subscription that is over is cancelled again, or one that is to
\* end later is taken for one that is over.
NeedsCancelIfOpen(s, t) == s.open
NeedsCancelIfLive(s, t) == IsLive(s)

NeedsCancel(s, t) == s.open /\ ~(s.expires # 0 /\ s.expires <= t)

CancelAccepted(s, t) == NeedsCancel(s, t) => CanCancel(s, t)

Cancelled(s, t) == IF NeedsCancel(s, t) THEN CancelledNow(s, t) ELSE s
=============================================================================
