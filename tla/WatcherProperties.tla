------------------------- MODULE WatcherProperties --------------------------
(***************************************************************************)
(* What the watcher promises of the transfers it reads, and the fairness   *)
(* its loop gives it.                                                      *)
(***************************************************************************)
EXTENDS Watcher

RecordStates == {"none", "open", "closed"}
Users == [active : BOOLEAN, attestable_from : Times]
Ticks ==
    [at : {"idle", "refreshed", "scanning"}, loaded : BOOLEAN, now : Times,
     due : SUBSET Accounts]
Scans ==
    [stage : {"none", "reading", "sent"}, upto : 0..MaxTransfers,
     handled : 0..MaxTransfers, floor : Int]

(* Every variable holds a value of its type, and no account's cursor or    *)
(* scan is past what is finalized of it (watchCursors, scan).              *)
TypeOK ==
    /\ now \in Times
    /\ named \in BOOLEAN
    /\ user \in [Accounts -> Users]
    /\ transfer \in [Accounts -> Seq(Times)]
    /\ finalized \in [Accounts -> 0..MaxTransfers]
    /\ record \in [Accounts -> [Transfers -> RecordStates]]
    /\ stray \subseteq Accounts \X Transfers
    /\ cursor \in [Accounts -> 0..MaxTransfers]
    /\ known \in [Accounts -> Users]
    /\ watched \subseteq Accounts
    /\ dirty \subseteq Accounts
    /\ tick \in Ticks
    /\ scan \in [Accounts -> Scans]
    /\ ahead \subseteq Accounts \X Transfers
    /\ crashes \in 0..MaxCrashes
    /\ \A a \in Accounts :
        /\ cursor[a] <= finalized[a] /\ finalized[a] <= Len(transfer[a])
        /\ scan[a].handled <= scan[a].upto /\ scan[a].upto <= finalized[a]

-----------------------------------------------------------------------------
(* The cursor moves past a transfer only if it is attested or can never    *)
(* count any more, whatever the user changes, whatever fails half-way and  *)
(* whenever the process stops.  The one exception is a transfer later than *)
(* the clock as the tick read it (scan, attest, attestRefusal).            *)
PassedOnlyWhenDone ==
    \A a \in Accounts : \A i \in 1..cursor[a] :
        record[a][i] # "none" \/ ~Countable(a, i) \/ <<a, i>> \in ahead

(* What refusals.ts says of FINAL, the refusals after which the cursor     *)
(* moves on: that "the transfer can never count".  So no transfer the      *)
(* cursor is past of could still be attested.                              *)
RefusalsAreFinal ==
    \A a \in Accounts : \A i \in 1..cursor[a] :
        record[a][i] # "none" \/ ~Countable(a, i)

(* No transfer waits for ever: while its user's transfers count and Config *)
(* names this attestor, each finalized transfer is attested or ruled out,  *)
(* although notifications get lost, the process restarts, and reads and    *)
(* answers fail for a while (reconcile, dirty).                            *)
TransfersHandled ==
    \A a \in Accounts, i \in Transfers :
        i <= finalized[a] ~> (cursor[a] >= i \/ ~user[a].active \/ ~named)

-----------------------------------------------------------------------------
(***************************************************************************)
(* The watcher's loop runs for ever and every step of a tick ends; a full  *)
(* reading is due again every five minutes; and reads, requests and        *)
(* answers do not fail for ever: from some step on, what looks like a      *)
(* failure is a tick that had nothing to do or a scan at its end           *)
(* (loop.ts).                                                              *)
(***************************************************************************)
FairSpec ==
    /\ Spec
    /\ WF_vars(TickStep)
    /\ SF_vars(Reload)
    /\ <>[][Fails => TickStep]_vars
=============================================================================
