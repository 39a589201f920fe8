------------------------------- MODULE Leader -------------------------------
(***************************************************************************)
(* The operator's processes (leader.ts, main.ts): one at a time holds an   *)
(* advisory lock of the database and runs the loops; a deploy starts the   *)
(* next one as a standby.  The lock ends with the session, which may be    *)
(* before its process notices: for a while two processes run the loops.    *)
(* The modules of the loops extend this one; a process runs once, and is a *)
(* standby until it has the lock.                                          *)
(***************************************************************************)
EXTENDS Naturals, FiniteSets

CONSTANTS Processes, None

VARIABLES
    session,    \* the process whose session holds the lock, or None
    role        \* of each process: "standby", "leader", "stopping", "over"

leadership == <<session, role>>

LeaderTypeOK ==
    /\ session \in Processes \cup {None}
    /\ role \in [Processes -> {"standby", "leader", "stopping", "over"}]

LeaderInit ==
    /\ session = None
    /\ role = [p \in Processes |-> "standby"]

(* A round of a loop begins only in a leader, and ends in a stopping one. *)
Leads(p) == role[p] = "leader"
Runs(p) == role[p] \in {"leader", "stopping"}

Acquire(p) ==
    /\ role[p] = "standby" /\ session = None
    /\ session' = p
    /\ role' = [role EXCEPT ![p] = "leader"]

(* The database ends the session: the connection broke, or its process did. *)
SessionEnds ==
    /\ session # None
    /\ session' = None
    /\ UNCHANGED role

(* SIGTERM: the rounds in progress end before the leader does. *)
Shutdown(p) ==
    /\ role[p] \in {"standby", "leader"}
    /\ role' = [role EXCEPT ![p] = IF Leads(p) THEN "stopping" ELSE "over"]
    /\ UNCHANGED session

Release(p) ==
    /\ role[p] = "stopping"
    /\ role' = [role EXCEPT ![p] = "over"]
    /\ session' = IF session = p THEN None ELSE session

(* onLost: the process learns that its session ended. *)
ExitOnLoss(p) ==
    /\ Runs(p) /\ session # p
    /\ role' = [role EXCEPT ![p] = "over"]
    /\ UNCHANGED session

Crash(p) ==
    /\ role[p] \in {"standby", "leader", "stopping"}
    /\ role' = [role EXCEPT ![p] = "over"]
    /\ UNCHANGED session

(* The steps that leave the loops of every process alone, and those that end *)
(* p in the middle of a round.                                               *)
Handover == SessionEnds \/ \E p \in Processes : Acquire(p) \/ Shutdown(p)
Ends(p) == ExitOnLoss(p) \/ Crash(p)
=============================================================================
