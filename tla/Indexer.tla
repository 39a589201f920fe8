------------------------------ MODULE Indexer -------------------------------
(***************************************************************************)
(* The indexer (indexer.ts): every poll lists the program's finalized      *)
(* transactions after the cursor, oldest first, and stores them batch by   *)
(* batch, each batch in one database transaction with the cursor.          *)
(*                                                                         *)
(* A transaction is its place in the program's history; of what it holds   *)
(* the model keeps the records it attests and closes.                      *)
(***************************************************************************)
EXTENDS Leader

CONSTANTS
    Records,            \* attestation records
    BATCH,              \* transactions stored together
    MaxTransactions     \* bound: transactions of the history

VARIABLES
    history,    \* what each transaction does: [attests, closes]
    finalized,  \* how many transactions are finalized
    stored,     \* tables sweeps, attestations, user_events: the transactions with rows
    closed,     \* of each record: the transaction attestations names as its closing, or 0
    cursor,     \* table indexer_state: the last transaction stored, or 0
    poll        \* of each process: the poll in progress

tables == <<stored, closed, cursor>>
vars == <<leadership, history, finalized, tables, poll>>

Transactions == 1..MaxTransactions
Stages == {"idle", "listing", "storing"}
NoPoll == [stage |-> "idle", done |-> 0, upto |-> 0]

(* A record is attested once, and closed once, later. *)
Histories ==
    {h \in [Transactions -> [attests : SUBSET Records, closes : SUBSET Records]] :
       \A r \in Records :
         /\ Cardinality({t \in Transactions : r \in h[t].attests}) <= 1
         /\ Cardinality({t \in Transactions : r \in h[t].closes}) <= 1
         /\ \A t \in Transactions : r \in h[t].closes => \E s \in 1..(t - 1) : r \in h[s].attests}

IndexerTypeOK ==
    /\ LeaderTypeOK
    /\ history \in [Transactions -> [attests : SUBSET Records, closes : SUBSET Records]]
    /\ finalized \in 0..MaxTransactions
    /\ stored \in SUBSET Transactions
    /\ closed \in [Records -> 0..MaxTransactions]
    /\ cursor \in 0..MaxTransactions
    /\ poll \in [Processes -> [stage : Stages, done : 0..MaxTransactions, upto : 0..MaxTransactions]]

Init ==
    /\ LeaderInit
    /\ history \in Histories
    /\ finalized = 0
    /\ stored = {}
    /\ closed = [r \in Records |-> 0]
    /\ cursor = 0
    /\ poll = [p \in Processes |-> NoPoll]

-----------------------------------------------------------------------------
Finalize ==
    /\ finalized < MaxTransactions
    /\ finalized' = finalized + 1
    /\ UNCHANGED <<leadership, history, tables, poll>>

\* Faulty: the poll begins after the next transaction.
PollAfterNext(p) ==
    /\ Leads(p) /\ poll[p].stage = "idle"
    /\ poll' = [poll EXCEPT ![p] = [stage |-> "listing", done |-> cursor + 1, upto |-> cursor]]
    /\ UNCHANGED <<leadership, history, finalized, tables>>

Poll(p) ==
    /\ Leads(p) /\ poll[p].stage = "idle"
    /\ poll' = [poll EXCEPT ![p] = [stage |-> "listing", done |-> cursor, upto |-> cursor]]
    /\ UNCHANGED <<leadership, history, finalized, tables>>

(* The node lists what it has by now, which may be less than is finalized. *)
SignaturesSince(p) ==
    /\ Runs(p) /\ poll[p].stage = "listing"
    /\ \E upto \in poll[p].done..finalized :
         poll' = [poll EXCEPT ![p] = IF upto = @.done THEN NoPoll
                                     ELSE [stage |-> "storing", done |-> @.done, upto |-> upto]]
    /\ UNCHANGED <<leadership, history, finalized, tables>>

Last(p) == IF poll[p].done + BATCH < poll[p].upto THEN poll[p].done + BATCH ELSE poll[p].upto
Attested(batch) == UNION {history[t].attests : t \in batch}

\* Faulty: the cursor moves past the whole list with its first batch.
StoreWholeCursor(p) ==
    /\ Runs(p) /\ poll[p].stage = "storing"
    /\ LET batch == (poll[p].done + 1)..Last(p)
           attested == Attested(stored \cup batch)
       IN  /\ stored' = stored \cup batch
           /\ closed' = [r \in Records |->
                IF r \in attested /\ closed[r] = 0 /\ \E t \in batch : r \in history[t].closes
                THEN CHOOSE t \in batch : r \in history[t].closes
                ELSE closed[r]]
           /\ cursor' = poll[p].upto
           /\ poll' = [poll EXCEPT ![p] = IF Last(p) = @.upto THEN NoPoll ELSE [@ EXCEPT !.done = Last(p)]]
    /\ UNCHANGED <<leadership, history, finalized>>

\* Faulty: the batch's closings are applied before its rows are inserted.
StoreClosesFirst(p) ==
    /\ Runs(p) /\ poll[p].stage = "storing"
    /\ LET batch == (poll[p].done + 1)..Last(p)
           attested == Attested(stored)
       IN  /\ stored' = stored \cup batch
           /\ closed' = [r \in Records |->
                IF r \in attested /\ closed[r] = 0 /\ \E t \in batch : r \in history[t].closes
                THEN CHOOSE t \in batch : r \in history[t].closes
                ELSE closed[r]]
           /\ cursor' = Last(p)
           /\ poll' = [poll EXCEPT ![p] = IF Last(p) = @.upto THEN NoPoll ELSE [@ EXCEPT !.done = Last(p)]]
    /\ UNCHANGED <<leadership, history, finalized>>

(* Rows first, those stored already left as they are, then the closings of *)
(* records not closed yet, then the cursor: one database transaction.  The *)
(* poll goes on with the next batch.                                       *)
Store(p) ==
    /\ Runs(p) /\ poll[p].stage = "storing"
    /\ LET batch == (poll[p].done + 1)..Last(p)
           attested == Attested(stored \cup batch)
       IN  /\ stored' = stored \cup batch
           /\ closed' = [r \in Records |->
                IF r \in attested /\ closed[r] = 0 /\ \E t \in batch : r \in history[t].closes
                THEN CHOOSE t \in batch : r \in history[t].closes
                ELSE closed[r]]
           /\ cursor' = Last(p)
           /\ poll' = [poll EXCEPT ![p] = IF Last(p) = @.upto THEN NoPoll ELSE [@ EXCEPT !.done = Last(p)]]
    /\ UNCHANGED <<leadership, history, finalized>>

(* The node or the database fails, or a transaction is not available yet. *)
Fail(p) ==
    /\ Runs(p) /\ poll[p].stage # "idle"
    /\ poll' = [poll EXCEPT ![p] = NoPoll]
    /\ UNCHANGED <<leadership, history, finalized, tables>>

(* The process ends: at the end of a round, or in the middle of it. *)
EndProcess(p) ==
    /\ Ends(p) \/ (poll[p].stage = "idle" /\ Release(p))
    /\ poll' = [poll EXCEPT ![p] = NoPoll]
    /\ UNCHANGED <<history, finalized, tables>>

Lead == Handover /\ UNCHANGED <<history, finalized, tables, poll>>

Next ==
    \/ Finalize
    \/ Lead
    \/ \E p \in Processes :
         Poll(p) \/ SignaturesSince(p) \/ Store(p) \/ Fail(p) \/ EndProcess(p)

Spec == Init /\ [][Next]_vars

-----------------------------------------------------------------------------
(* Whatever the cursor has passed is stored, and a closing that is stored  *)
(* is that of its record, whichever of two processes stored it, and        *)
(* whichever moved the cursor last (Indexer.store).                        *)
HistoryComplete ==
    /\ 1..cursor \subseteq stored
    /\ \A t \in stored, r \in Records : r \in history[t].closes => closed[r] = t
=============================================================================
