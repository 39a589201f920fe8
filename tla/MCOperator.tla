----------------------------- MODULE MCOperator -----------------------------
(***************************************************************************)
(* Values for model checking the loops of the operator's processes.  They  *)
(* share nothing but the processes, so a behaviour is one of the watcher,  *)
(* the indexer, the notices, the bot or one alarm.  Where two of them have *)
(* a variable of one name, the watcher keeps it.                           *)
(***************************************************************************)
EXTENDS WatcherProperties

CONSTANTS
    a1, p1, p2, r1, t1, c1, c2,
    Processes, None,
    Records, BATCH, MaxTransactions,
    MaxSources, Milestones, MaxChanges,
    Tokens, MaxUpdates,
    Callers, REPEAT_MS, MaxInstant,
    Loops       \* those explored

\* A batch holds a transaction, milestones are sources', and no token says /unlink.
ASSUME OperatorAssumption ==
    /\ BATCH \in Nat \ {0}
    /\ {MaxTransactions, MaxSources, MaxChanges, MaxUpdates, MaxInstant} \subseteq Nat
    /\ Milestones \subseteq 1..MaxSources
    /\ "unlink" \notin Tokens

VARIABLES
    loop,
    session, role,
    history, passed, stored, closed, newest, poll,
    happened, old, indexed, handled, link, round, accepted, unsent, changes,
    updates, sent, confirmed, usable, linked, offset, batch, answered, failed,
    instant, row, call, told, last, muddled

I == INSTANCE Indexer WITH finalized <- passed, cursor <- newest
N == INSTANCE Notices WITH tick <- round
B == INSTANCE Bot WITH link <- linked
A == INSTANCE Alarms WITH now <- instant, MaxTime <- MaxInstant

watcher ==
    <<now, named, user, transfer, finalized, record, stray, cursor, known, watched, dirty,
      tick, scan, ahead, crashes>>
indexer == <<history, passed, stored, closed, newest, poll>>
notices == <<happened, old, indexed, handled, link, round, accepted, unsent, changes>>
bot == <<updates, sent, confirmed, usable, linked, offset, batch, answered, failed>>
alarms == <<instant, row, call, told, last, muddled>>
every == <<loop, session, role, watcher, indexer, notices, bot, alarms>>

Starts == Init /\ I!Init /\ N!Init /\ B!Init /\ A!Init /\ loop \in Loops
\* A loop that is not explored has one initial state.
    /\ (loop # "indexer" => history = [t \in I!Transactions |-> [attests |-> {}, closes |-> {}]])
    /\ (loop # "bot" => updates = [u \in B!Updates |-> "unlink"])

\* Bound: the chat's link changes in behaviours with one source of notices.
Few == changes' = 0 \/ happened' <= 1

Others == UNCHANGED <<loop, session, role, indexer, notices, bot, alarms>>

Steps ==
    \/ loop = "watcher" /\ Next /\ Others
    \/ loop = "indexer" /\ I!Next /\ UNCHANGED <<loop, watcher, notices, bot, alarms>>
    \/ loop = "notices" /\ N!Next /\ Few /\ UNCHANGED <<loop, watcher, indexer, bot, alarms>>
    \/ loop = "bot" /\ B!Next /\ UNCHANGED <<loop, watcher, indexer, notices, alarms>>
    \/ loop = "alarms" /\ A!Next /\ UNCHANGED <<loop, session, role, watcher, indexer, notices, bot>>

OperatorSpec == Starts /\ [][Steps]_every

(* The watcher's fairness, where the watcher is explored.                  *)
Watching(step) == loop = "watcher" /\ step /\ Others
FairOperatorSpec ==
    /\ OperatorSpec
    /\ WF_every(Watching(TickStep))
    /\ SF_every(Watching(Reload))
    /\ <>[][Watching(Fails) => Watching(TickStep)]_every

(* The variables of every loop have their types, and no cursor or scan of  *)
(* the watcher is past what is finalized.                                  *)
TypesOK == TypeOK /\ I!IndexerTypeOK /\ N!NoticesTypeOK /\ B!BotTypeOK /\ A!AlarmsTypeOK

(* Indexer's property: what the cursor passed is stored, closings applied. *)
HistoryComplete == I!HistoryComplete

(* Notices' properties: nothing is sent twice that Telegram answered for,  *)
(* what is recorded as handled was told, and a milestone is not lost.      *)
NeverSentAgain == N!NeverSentAgain
HandledMeansTold == N!HandledMeansTold
MilestoneStaysDue == N!MilestoneStaysDue

(* Bot's property: /unlink is not undone by updates answered twice.        *)
UnlinkStands == B!UnlinkStands

(* Alarms' properties: the operator knows what the row says, and is told   *)
(* on the next run what a failed delivery missed.                          *)
OperatorKnows == A!OperatorKnows
MissedIsDue == A!MissedIsDue
=============================================================================
