------------------------------- MODULE Budget -------------------------------
(***************************************************************************)
(* What the program promises a wallet, put as simply as it can be: from    *)
(* the first time it joins, a week's allowance that starts over every      *)
(* week, the first week's being the trial's, spent in buys of at most one  *)
(* per token and day.  Nothing else - leaving, returning, pausing, changes *)
(* of plans or of settings - gives any of it back.                         *)
(***************************************************************************)
EXTENDS Naturals

CONSTANTS Users, Tokens,
          Allowances,           \* what a week's allowance can be
          TRIAL_CAP,            \* that of the first week
          DAY_SECONDS, WEEK_SECONDS

VARIABLES
    now,
    since,      \* when each user first joined, 0 until then
    spent,      \* in the current week
    bought      \* the tokens bought from today

vars == <<now, since, spent, bought>>

Init ==
    /\ now \in Nat \ {0}
    /\ since = [u \in Users |-> 0]
    /\ spent = [u \in Users |-> 0]
    /\ bought = [u \in Users |-> {}]

Join(u) ==
    /\ since[u] = 0
    /\ since' = [since EXCEPT ![u] = now]
    /\ UNCHANGED <<now, spent, bought>>

Within(u, total) ==
    IF now < since[u] + WEEK_SECONDS THEN total <= TRIAL_CAP
                                     ELSE \E a \in Allowances : total <= a

Buy(u, k) ==
    /\ k \notin bought[u]
    /\ bought' = [bought EXCEPT ![u] = @ \cup {k}]
    /\ since[u] # 0
    /\ spent'[u] > spent[u] /\ Within(u, spent'[u])
    /\ \A v \in Users \ {u} : spent'[v] = spent[v]
    /\ UNCHANGED <<now, since>>

NewWeek(u) == since[u] # 0 /\ (now + 1 - since[u]) % WEEK_SECONDS = 0
NewDay == (now + 1) % DAY_SECONDS = 0

Tick ==
    /\ now' = now + 1
    /\ spent' = [u \in Users |-> IF NewWeek(u) THEN 0 ELSE spent[u]]
    /\ bought' = [u \in Users |-> IF NewDay THEN {} ELSE bought[u]]
    /\ UNCHANGED since

Next ==
    \/ Tick
    \/ \E u \in Users : Join(u)
    \/ \E u \in Users, k \in Tokens : Buy(u, k)

Spec == Init /\ [][Next]_vars
=============================================================================
