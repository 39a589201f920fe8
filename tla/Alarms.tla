------------------------------- MODULE Alarms -------------------------------
(***************************************************************************)
(* One operations alarm (alarms.ts): calls to set bring its row to firing  *)
(* or resolved, and tell the operator.  The loops of a process, and those  *)
(* of two processes around a handover, may call at once; a call may end    *)
(* anywhere, with its process or on an error of the database.              *)
(***************************************************************************)
EXTENDS Integers, FiniteSets

CONSTANTS
    Callers,        \* what may call set at the same time
    REPEAT_MS,      \* how often a firing alarm is repeated
    MaxTime         \* bound: the clock stops here

VARIABLES
    now,
    row,        \* table alarms: firing, changedAt, notifiedAt
    call,       \* of each caller: the call in progress
    told,       \* history: when calls began whose FIRING reached the operator
    last,       \* history: what the operator heard last
    muddled     \* history: calls overlapped, one ended early, or a RESOLVED got lost

vars == <<now, row, call, told, last, muddled>>

Never == -1
Times == 0..MaxTime
Row == [firing : BOOLEAN, changedAt : Times, notifiedAt : Times \cup {Never}]
NoRow == [firing |-> FALSE, changedAt |-> 0, notifiedAt |-> Never]
Stages == {"idle", "resolve", "report", "notify", "write"}
NoCall == [stage |-> "idle", now |-> 0, row |-> NoRow, notified |-> FALSE]

AlarmsTypeOK ==
    /\ now \in Times
    /\ row \in Row
    /\ call \in [Callers -> [stage : Stages, now : Times, row : Row, notified : BOOLEAN]]
    /\ told \in SUBSET Times
    /\ last \in {"none", "FIRING", "RESOLVED"}
    /\ muddled \in BOOLEAN

Init ==
    /\ now = 0
    /\ row = NoRow
    /\ call = [c \in Callers |-> NoCall]
    /\ told = {} /\ last = "none" /\ muddled = FALSE

Due(r, t) == ~r.firing \/ r.notifiedAt = Never \/ t - r.notifiedAt >= REPEAT_MS

-----------------------------------------------------------------------------
(* set reads the row; null resolves what fires, and changes nothing else.  *)
Begin(c, stage) ==
    /\ call[c].stage = "idle"
    /\ call' = [call EXCEPT ![c] = [stage |-> stage, now |-> now, row |-> row, notified |-> FALSE]]
    /\ muddled' = (muddled \/ \E d \in Callers : call[d].stage # "idle")
    /\ UNCHANGED <<now, row, told, last>>

SetFiring(c) == Begin(c, IF Due(row, now) THEN "notify" ELSE "write")
SetResolved(c) == row.firing /\ Begin(c, "resolve")

Resolve(c) ==
    /\ call[c].stage = "resolve"
    /\ row' = [row EXCEPT !.firing = FALSE, !.changedAt = call[c].now]
    /\ call' = [call EXCEPT ![c].stage = "report"]
    /\ UNCHANGED <<now, told, last, muddled>>

(* RESOLVED is delivered once, or not at all. *)
Report(c) ==
    /\ call[c].stage = "report"
    /\ \/ last' = "RESOLVED" /\ UNCHANGED muddled
       \/ muddled' = TRUE /\ UNCHANGED last
    /\ call' = [call EXCEPT ![c] = NoCall]
    /\ UNCHANGED <<now, row, told>>

Notify(c) ==
    /\ call[c].stage = "notify"
    /\ \E delivered \in BOOLEAN :
         /\ call' = [call EXCEPT ![c].stage = "write", ![c].notified = delivered]
         /\ told' = IF delivered THEN told \cup {call[c].now} ELSE told
         /\ last' = IF delivered THEN "FIRING" ELSE last
    /\ UNCHANGED <<now, row, muddled>>

\* Faulty: the notification counts as delivered when it was due.
WriteDelivered(c) ==
    /\ call[c].stage = "write"
    /\ LET read == call[c].row
       IN  row' = [firing |-> TRUE,
                   changedAt |-> IF read.firing THEN read.changedAt ELSE call[c].now,
                   notifiedAt |-> IF Due(read, call[c].now) THEN call[c].now ELSE read.notifiedAt]
    /\ call' = [call EXCEPT ![c] = NoCall]
    /\ UNCHANGED <<now, told, last, muddled>>

(* The row is written as it was read, but for what this call changed. *)
Write(c) ==
    /\ call[c].stage = "write"
    /\ LET read == call[c].row
       IN  row' = [firing |-> TRUE,
                   changedAt |-> IF read.firing THEN read.changedAt ELSE call[c].now,
                   notifiedAt |-> IF call[c].notified THEN call[c].now ELSE read.notifiedAt]
    /\ call' = [call EXCEPT ![c] = NoCall]
    /\ UNCHANGED <<now, told, last, muddled>>

Abandon(c) ==
    /\ call[c].stage # "idle"
    /\ call' = [call EXCEPT ![c] = NoCall]
    /\ muddled' = TRUE
    /\ UNCHANGED <<now, row, told, last>>

Clock ==
    /\ now < MaxTime
    /\ now' = now + 1
    /\ UNCHANGED <<row, call, told, last, muddled>>

Next ==
    \/ Clock
    \/ \E c \in Callers :
         SetFiring(c) \/ SetResolved(c) \/ Resolve(c) \/ Report(c) \/ Notify(c) \/ Write(c) \/ Abandon(c)

Spec == Init /\ [][Next]_vars

-----------------------------------------------------------------------------
Heard == \E t \in told : t >= row.changedAt

(* The row never claims a notification the operator did not get, however   *)
(* calls overlap; and where they do not, and none ends early, the operator *)
(* heard last of an alarm what its row says, or nothing since it started   *)
(* firing (Alarms.set).                                                    *)
OperatorKnows ==
    /\ row.notifiedAt # Never => row.notifiedAt \in told
    /\ (~muddled /\ \A c \in Callers : call[c].stage = "idle") =>
         /\ last = "FIRING" => row.firing
         /\ row.firing /\ last = "RESOLVED" => \A t \in told : t <= row.changedAt

(* An alarm that fires without the operator having heard of it is due on   *)
(* the next run (alarms.test.ts: "delivers a notification Telegram missed  *)
(* on the next run").                                                      *)
MissedIsDue ==
    (row.firing /\ ~Heard /\ \A c \in Callers : call[c].stage = "idle") => Due(row, now)
=============================================================================
