--------------------------- MODULE OperatorProofs ---------------------------
(***************************************************************************)
(* The safety of the operator's loops, proved for any number of processes, *)
(* transactions, sources of notices, updates and callers: the indexer's    *)
(* history has no gap, a notice is not sent again, /unlink stands, and the *)
(* operator knows what an alarm's row says.                                *)
(***************************************************************************)
EXTENDS MCOperator, WatcherProofs, FiniteSetTheorems, WellFoundedInduction, TLAPS

(* A nonempty set of naturals has a smallest one.                          *)
LEMMA Smallest ==
    ASSUME NEW S \in SUBSET Nat, S # {}
    PROVE  \E m \in S : \A n \in S : m <= n
  <1>1. PICK m \in S : \A n \in S : <<n, m>> \notin OpToRel(<, Nat)
    BY WFMin, NatLessThanWellFounded, Zenon
  <1>2. \A n \in S : ~(n < m)
    BY <1>1 DEF OpToRel
  <1> QED
    BY <1>2

(* A set of at most one element has no two.                                *)
LEMMA AtMostOne ==
    ASSUME NEW S, IsFiniteSet(S), Cardinality(S) <= 1, NEW x \in S, NEW y \in S
    PROVE  x = y
  <1> SUFFICES ASSUME x # y PROVE FALSE
    OBVIOUS
  <1>1. IsFiniteSet({x}) /\ Cardinality({x}) = 1
    BY FS_Singleton
  <1>2. Cardinality({x} \cup {y}) = 2
    <2>1. y \notin {x}
      OBVIOUS
    <2>2. Cardinality({x} \cup {y}) = Cardinality({x}) + 1
      BY <1>1, <2>1, FS_AddElement, Zenon
    <2> QED
      BY <1>1, <2>2
  <1>3. Cardinality({x} \cup {y}) <= Cardinality(S)
    <2>1. {x} \cup {y} \in SUBSET S
      OBVIOUS
    <2> QED
      BY <2>1, FS_Subset
  <1>4. Cardinality(S) \in Nat
    BY FS_CardinalityType
  <1> QED
    BY <1>2, <1>3, <1>4

-----------------------------------------------------------------------------
(***************************************************************************)
(* The indexer.                                                            *)
(***************************************************************************)

Polls ==
    [stage : I!Stages, done : 0..MaxTransactions, upto : 0..MaxTransactions]

\* What a poll goes on from is stored.
PollOK(p) ==
    /\ poll[p].stage # "idle" => 1..poll[p].done \subseteq stored
    /\ poll[p].stage = "storing" => poll[p].done < poll[p].upto

\* What is stored has no gap below it, and a closing that is recorded is one that
\* is stored: a process that lost the lock can only store again what is there.
IndexerInv ==
    /\ history \in I!Histories
    /\ passed \in 0..MaxTransactions
    /\ stored \in SUBSET I!Transactions
    /\ closed \in [Records -> 0..MaxTransactions]
    /\ newest \in 0..MaxTransactions
    /\ poll \in [Processes -> Polls]
    /\ 1..newest \subseteq stored
    /\ \A t \in stored : 1..t \subseteq stored
    /\ \A r \in Records : closed[r] # 0 => closed[r] \in stored /\ r \in history[closed[r]].closes
    /\ \A p \in Processes : PollOK(p)
    /\ I!HistoryComplete

(* A record is closed once, and attested before it (Histories).            *)
LEMMA ClosedOnce ==
    ASSUME history \in I!Histories, NEW r \in Records,
           NEW m \in I!Transactions, NEW n \in I!Transactions,
           r \in history[m].closes, r \in history[n].closes
    PROVE  m = n
  <1> DEFINE S == {t \in I!Transactions : r \in history[t].closes}
  <1>1. Cardinality(S) <= 1
    <2>1. I!Cardinality(S) <= 1
      BY Zenon DEF I!Histories
    <2>2. I!Cardinality(S) = Cardinality(S)
      BY Zenon DEF I!Cardinality, Cardinality
    <2> QED
      BY <2>1, <2>2
  <1>2. IsFiniteSet(I!Transactions)
    BY FS_Interval, OperatorAssumption DEF I!Transactions
  <1>3. IsFiniteSet(S)
    BY <1>2, FS_Subset
  <1>4. m \in S /\ n \in S
    OBVIOUS
  <1> HIDE DEF S
  <1> QED
    BY <1>1, <1>3, <1>4, AtMostOne

(* The initial state has stored nothing.                                   *)
LEMMA IndexerInit == I!Init => IndexerInv
  <1> SUFFICES ASSUME I!Init PROVE IndexerInv
    OBVIOUS
  <1>1. I!NoPoll \in Polls
    BY OperatorAssumption DEF I!NoPoll, Polls, I!Stages
  <1> QED
    BY <1>1, OperatorAssumption
    DEF I!Init, IndexerInv, PollOK, I!NoPoll, I!HistoryComplete, I!Transactions

(* A batch is stored with its closings and the cursor: what was stored     *)
(* before it reaches to the batch, whichever process stored it             *)
(* (Indexer.store).                                                        *)
LEMMA IndexerStore ==
    ASSUME IndexerInv, NEW p \in Processes, I!Store(p)
    PROVE  IndexerInv'
  <1> DEFINE done == poll[p].done
             upto == poll[p].upto
             end == I!Last(p)
             taken == (done + 1)..end
             after == stored \cup taken
             attested == I!Attested(after)
             closes(r) == \E t \in taken : r \in history[t].closes
  <1>1. /\ poll[p].stage = "storing" /\ UNCHANGED <<history, passed>>
        /\ stored' = after
        /\ closed' = [r \in Records |->
                        IF r \in attested /\ closed[r] = 0 /\ closes(r)
                        THEN CHOOSE t \in taken : r \in history[t].closes
                        ELSE closed[r]]
        /\ newest' = end
        /\ poll' = [poll EXCEPT ![p] = IF end = @.upto THEN I!NoPoll ELSE [@ EXCEPT !.done = end]]
    BY Zenon DEF I!Store
  <1>2. /\ poll[p] \in Polls /\ done \in 0..MaxTransactions /\ upto \in 0..MaxTransactions
        /\ done < upto /\ 1..done \subseteq stored
    BY <1>1 DEF IndexerInv, PollOK, Polls
  <1>3. end \in (done + 1)..upto /\ end \in 0..MaxTransactions
    BY <1>2, OperatorAssumption DEF I!Last
  <1>4. taken \subseteq I!Transactions /\ after \in SUBSET I!Transactions
    <2>1. taken \subseteq I!Transactions
      BY <1>2, <1>3, OperatorAssumption DEF I!Transactions
    <2> QED
      BY <2>1 DEF IndexerInv
  <1>5. 1..end \subseteq after
    BY <1>2, <1>3, OperatorAssumption
  <1>6. \A t \in after : 1..t \subseteq after
    <2>1. \A t \in stored : 1..t \subseteq stored
      BY DEF IndexerInv
    <2>2. \A t \in taken : 1..t \subseteq 1..end
      BY <1>2, <1>3, OperatorAssumption
    <2> QED
      BY <1>5, <2>1, <2>2
  <1>7. poll' \in [Processes -> Polls] /\ \A q \in Processes : PollOK(q)'
    <2>1. I!NoPoll \in Polls
      BY OperatorAssumption DEF I!NoPoll, Polls, I!Stages
    <2>2. [poll[p] EXCEPT !.done = end] \in Polls
      BY <1>2, <1>3, Zenon DEF Polls
    <2>3. poll \in [Processes -> Polls]
      BY DEF IndexerInv
    <2>4. /\ poll' \in [Processes -> Polls]
          /\ \A q \in Processes \ {p} : poll'[q] = poll[q]
          /\ poll'[p] = IF end = upto THEN I!NoPoll ELSE [poll[p] EXCEPT !.done = end]
      BY <1>1, <2>1, <2>2, <2>3
    <2>5. \A q \in Processes \ {p} : PollOK(q)'
      BY <1>1, <2>4 DEF IndexerInv, PollOK
    <2>6. PollOK(p)'
      <3>1. CASE end = upto
        BY <2>4, <3>1 DEF PollOK, I!NoPoll
      <3>2. CASE end # upto
        <4>1. poll'[p].done = end /\ poll'[p].upto = upto
          BY <1>2, <2>4, <3>2 DEF Polls
        <4>2. end < upto
          BY <1>2, <1>3, <3>2
        <4> QED
          BY <1>1, <1>5, <4>1, <4>2 DEF PollOK
      <3> QED
        BY <3>1, <3>2
    <2> QED
      BY <2>4, <2>5, <2>6
  <1> HIDE DEF taken, after, attested
  <1>8. ASSUME NEW r \in Records
        PROVE  /\ closed'[r] \in 0..MaxTransactions
               /\ closed'[r] # 0 => closed'[r] \in after /\ r \in history[closed'[r]].closes
               /\ \A t \in after : r \in history[t].closes => closed'[r] = t
    <2>1. /\ closed[r] \in 0..MaxTransactions
          /\ closed[r] # 0 => closed[r] \in after /\ r \in history[closed[r]].closes
          /\ \A t \in stored : r \in history[t].closes => closed[r] = t
          /\ after = stored \cup taken /\ history \in I!Histories
      BY DEF IndexerInv, I!HistoryComplete, after
    <2>2. CASE closed[r] # 0
      <3>1. closed'[r] = closed[r]
        BY <1>1, <2>2
      <3>2. \A t \in after : r \in history[t].closes => closed[r] = t
        BY <1>4, <2>1, <2>2, ClosedOnce
      <3> QED
        BY <2>1, <2>2, <3>1, <3>2
    <2>3. CASE closed[r] = 0 /\ ~closes(r)
      <3>1. closed'[r] = closed[r]
        BY <1>1, <2>3
      <3> QED
        BY <2>1, <2>3, <3>1
    <2>4. CASE closed[r] = 0 /\ closes(r)
      <3>1. PICK t \in taken : r \in history[t].closes
        BY <2>4
      <3>2. r \in attested
        <4>1. PICK s \in 1..(t - 1) : r \in history[s].attests
          BY <1>4, <2>1, <3>1 DEF I!Histories
        <4>2. t \in after /\ s \in 1..t
          BY <1>4, <2>1, <3>1, <4>1, OperatorAssumption DEF I!Transactions
        <4> QED
          BY <1>6, <4>1, <4>2 DEF attested, I!Attested
      <3>3. closed'[r] = CHOOSE s \in taken : r \in history[s].closes
        BY <1>1, <2>4, <3>2
      <3>4. closed'[r] \in taken /\ r \in history[closed'[r]].closes
        BY <3>1, <3>3, Zenon
      <3>5. \A s \in after : r \in history[s].closes => closed'[r] = s
        BY <1>4, <2>1, <3>4, ClosedOnce
      <3>6. closed'[r] \in 0..MaxTransactions
        <4>1. closed'[r] \in I!Transactions
          BY <1>4, <3>4, Zenon
        <4> QED
          BY <4>1, OperatorAssumption DEF I!Transactions
      <3> QED
        BY <2>1, <3>4, <3>5, <3>6
    <2> QED
      BY <2>2, <2>3, <2>4
  <1>9. closed' \in [Records -> 0..MaxTransactions]
    BY <1>1, <1>8
  <1> QED
    BY <1>1, <1>3, <1>4, <1>5, <1>6, <1>7, <1>8, <1>9 DEF IndexerInv, I!HistoryComplete

(* A poll that ends, wherever it was, leaves the tables as they are.       *)
LEMMA IndexerEnds ==
    ASSUME IndexerInv, NEW p \in Processes,
           poll' = [poll EXCEPT ![p] = I!NoPoll], UNCHANGED <<history, passed, stored, closed, newest>>
    PROVE  IndexerInv'
  <1>1. I!NoPoll \in Polls /\ I!NoPoll.stage = "idle"
    BY OperatorAssumption DEF I!NoPoll, Polls, I!Stages
  <1>2. poll \in [Processes -> Polls]
    BY DEF IndexerInv
  <1> HIDE DEF Polls, I!NoPoll
  <1>3. /\ poll' \in [Processes -> Polls]
        /\ poll'[p].stage = "idle"
        /\ \A q \in Processes \ {p} : poll'[q] = poll[q]
    BY <1>1, <1>2
  <1>4. \A q \in Processes : PollOK(q)'
    BY <1>3 DEF PollOK, IndexerInv
  <1> QED
    BY <1>3, <1>4 DEF IndexerInv, I!HistoryComplete

(* A poll starts from the cursor, which is stored (poll).                  *)
LEMMA IndexerPoll ==
    ASSUME IndexerInv, NEW p \in Processes, I!Poll(p)
    PROVE  IndexerInv'
  <1> DEFINE started == [stage |-> "listing", done |-> newest, upto |-> newest]
  <1>1. poll' = [poll EXCEPT ![p] = started] /\ UNCHANGED <<history, passed, stored, closed, newest>>
    BY Zenon DEF I!Poll, I!tables
  <1>2. started \in Polls /\ started.stage = "listing" /\ started.done = newest
    BY DEF IndexerInv, Polls, I!Stages
  <1> HIDE DEF started
  <1>3. /\ poll' \in [Processes -> Polls]
        /\ poll'[p] = started
        /\ \A q \in Processes \ {p} : poll'[q] = poll[q]
    BY <1>1, <1>2 DEF IndexerInv
  <1>4. \A q \in Processes : PollOK(q)'
    BY <1>1, <1>2, <1>3 DEF PollOK, IndexerInv
  <1> QED
    BY <1>1, <1>3, <1>4 DEF IndexerInv, I!HistoryComplete

(* What is listed comes after what the poll started from                   *)
(* (signaturesSince).                                                      *)
LEMMA IndexerList ==
    ASSUME IndexerInv, NEW p \in Processes, I!SignaturesSince(p)
    PROVE  IndexerInv'
  <1>1. PICK upto \in poll[p].done..passed :
            poll' = [poll EXCEPT ![p] = IF upto = @.done THEN I!NoPoll
                                        ELSE [stage |-> "storing", done |-> @.done, upto |-> upto]]
    BY Zenon DEF I!SignaturesSince
  <1>2. /\ UNCHANGED <<history, passed, stored, closed, newest>>
        /\ poll[p].stage = "listing" /\ poll \in [Processes -> Polls]
    BY DEF I!SignaturesSince, I!tables, IndexerInv
  <1>3. CASE upto = poll[p].done
    BY <1>1, <1>2, <1>3, IndexerEnds
  <1>4. CASE upto # poll[p].done
    <2> DEFINE listed == [stage |-> "storing", done |-> poll[p].done, upto |-> upto]
    <2>1. poll' = [poll EXCEPT ![p] = listed]
      BY <1>1, <1>4
    <2>2. /\ poll[p].done \in 0..MaxTransactions /\ passed \in 0..MaxTransactions
          /\ 1..poll[p].done \subseteq stored
      BY <1>2 DEF IndexerInv, Polls, PollOK
    <2>3. listed \in Polls
      BY <2>2, OperatorAssumption DEF Polls, I!Stages
    <2>4. listed.done = poll[p].done /\ listed.done < listed.upto
      BY <1>4, <2>2
    <2> HIDE DEF listed
    <2>5. /\ poll' \in [Processes -> Polls]
          /\ poll'[p] = listed
          /\ \A q \in Processes \ {p} : poll'[q] = poll[q]
      BY <1>2, <2>1, <2>3
    <2>6. \A q \in Processes : PollOK(q)'
      BY <1>2, <2>2, <2>4, <2>5 DEF PollOK, IndexerInv
    <2> QED
      BY <1>2, <2>5, <2>6 DEF IndexerInv, I!HistoryComplete
  <1> QED
    BY <1>3, <1>4

(* Every step of the indexer keeps its history complete.                   *)
LEMMA IndexerStep == IndexerInv /\ I!Next => IndexerInv'
  <1> SUFFICES ASSUME IndexerInv, I!Next PROVE IndexerInv'
    OBVIOUS
  <1>1. CASE I!Finalize
    <2>1. passed' \in 0..MaxTransactions
      BY <1>1, OperatorAssumption DEF I!Finalize, IndexerInv
    <2> QED
      BY <1>1, <2>1 DEF I!Finalize, I!tables, IndexerInv, PollOK, I!HistoryComplete
  <1>2. CASE I!Lead
    BY <1>2 DEF I!Lead, I!tables, IndexerInv, PollOK, I!HistoryComplete
  <1>3. ASSUME NEW p \in Processes, I!Poll(p) PROVE IndexerInv'
    BY <1>3, IndexerPoll
  <1>4. ASSUME NEW p \in Processes, I!SignaturesSince(p) PROVE IndexerInv'
    BY <1>4, IndexerList
  <1>5. ASSUME NEW p \in Processes, I!Store(p) PROVE IndexerInv'
    BY <1>5, IndexerStore
  <1>6. ASSUME NEW p \in Processes, I!Fail(p) \/ I!EndProcess(p) PROVE IndexerInv'
    BY <1>6, IndexerEnds DEF I!Fail, I!EndProcess, I!tables
  <1> QED
    BY <1>1, <1>2, <1>3, <1>4, <1>5, <1>6 DEF I!Next

(* The other loops leave the indexer's state alone (main.ts).              *)
LEMMA IndexerOthers == IndexerInv /\ UNCHANGED indexer => IndexerInv'
  BY DEF indexer, IndexerInv, PollOK, I!HistoryComplete

(* Whatever the cursor has passed is stored, with its closings, for any    *)
(* number of processes that took the lock from one another and any         *)
(* failures between them (Indexer.store).                                  *)
THEOREM NoGapInHistory == OperatorSpec => []HistoryComplete
  <1>1. Starts => IndexerInv
    BY IndexerInit DEF Starts
  <1>2. IndexerInv /\ [Steps]_every => IndexerInv'
    BY IndexerStep, IndexerOthers DEF Steps, Others, every
  <1>3. IndexerInv => HistoryComplete
    BY DEF IndexerInv, HistoryComplete
  <1> QED
    BY <1>1, <1>2, <1>3, PTL DEF OperatorSpec

-----------------------------------------------------------------------------
(***************************************************************************)
(* The notices.                                                            *)
(***************************************************************************)

Rounds == [stage : N!Stages, todo : SUBSET N!Keys]
Links == [active : BOOLEAN, since : 0..MaxSources]

\* The stages of a notice that is claimed and not done with.
InHand == {"claimed", "refused", "failed"}
Sending(p) == round[p].stage \in InHand

\* A notice in hand is recorded as handled, and Telegram did not answer for it yet.
RoundOK(p) ==
    /\ round[p].stage # "idle" => round[p].todo # {}
    /\ Sending(p) => N!Oldest(p) \in handled /\ accepted[N!Oldest(p)] = 0

NoticesTypes ==
    /\ happened \in 0..MaxSources
    /\ old \in 0..MaxSources
    /\ indexed \in SUBSET N!Sources
    /\ handled \in SUBSET N!Keys
    /\ link \in Links
    /\ round \in [Processes -> Rounds]
    /\ accepted \in [N!Keys -> Nat]
    /\ unsent \in SUBSET N!Keys
    /\ changes \in 0..MaxChanges

\* No two processes have one notice in hand, and what Telegram answered for stays
\* recorded as handled.
NoticesInv ==
    /\ NoticesTypes
    /\ \A p \in Processes : RoundOK(p)
    /\ \A p, q \in Processes : p # q /\ Sending(p) /\ Sending(q) => N!Oldest(p) # N!Oldest(q)
    /\ \A x \in N!Keys : accepted[x] <= 1 /\ (accepted[x] = 1 => x \in handled)
    /\ N!HandledMeansTold

(* A notice's source is a number (Notices.tick).                           *)
LEMMA KeyShape ==
    ASSUME NEW x \in N!Keys
    PROVE  /\ x[1] \in N!Sources /\ x[1] \in Nat
           /\ x = <<x[1], "own">> \/ x = <<x[1], "goal">>
           /\ <<x[1], "own">> \in N!Keys
  BY OperatorAssumption DEF N!Keys, N!Sources

(* Notices have an oldest one, so a tick with notices left has one to      *)
(* deliver (Notices.tick).                                                 *)
LEMMA OldestIn ==
    ASSUME NoticesTypes, NEW p \in Processes, round[p].todo # {}
    PROVE  N!Oldest(p) \in round[p].todo /\ N!Oldest(p) \in N!Keys
  <1> DEFINE todo == round[p].todo
             numbers == {x[1] : x \in todo}
  <1>1. todo \in SUBSET N!Keys
    BY DEF NoticesTypes, Rounds
  <1> HIDE DEF todo
  <1>2. numbers \in SUBSET Nat /\ numbers # {}
    BY <1>1, KeyShape DEF todo
  <1>3. PICK m \in numbers : \A n \in numbers : m <= n
    BY <1>2, Smallest
  <1>4. \A y \in todo : y[1] \in Nat /\ m <= y[1]
    BY <1>2, <1>3
  <1>5. \E x \in todo : \A y \in todo \ {x} : N!Before(x, y)
    <2>1. CASE <<m, "own">> \in todo
      <3>1. \A y \in todo : N!Before(<<m, "own">>, y)
        BY <1>2, <1>4 DEF N!Before
      <3> QED
        BY <2>1, <3>1
    <2>2. CASE <<m, "own">> \notin todo
      <3>1. PICK x \in todo : x[1] = m
        BY <1>3
      <3>2. \A y \in todo : y[1] = m => y = <<m, "goal">>
        BY <1>1, <2>2, KeyShape
      <3>3. \A y \in todo \ {x} : m < y[1]
        BY <1>2, <1>4, <3>1, <3>2
      <3>4. \A y \in todo \ {x} : N!Before(x, y)
        BY <3>1, <3>3 DEF N!Before
      <3> QED
        BY <3>1, <3>4
    <2> QED
      BY <2>1, <2>2
  <1>6. N!Oldest(p) \in todo
    BY <1>5, Zenon DEF N!Oldest, todo
  <1> QED
    BY <1>1, <1>6 DEF todo

(* What is left of a tick when some notices are done with                  *)
(* (Notices.tick).                                                         *)
LEMMA WithoutType ==
    ASSUME NoticesTypes, NEW p \in Processes, NEW done
    PROVE  /\ N!NoTick \in Rounds /\ N!NoTick.stage = "idle"
           /\ N!Without(p, done) \in Rounds
           /\ N!Without(p, done).stage \notin InHand
           /\ N!Without(p, done).stage # "idle" => N!Without(p, done).todo # {}
  <1>1. round[p].todo \ done \in SUBSET N!Keys
    BY DEF NoticesTypes, Rounds
  <1>2. N!NoTick \in Rounds /\ N!NoTick.stage = "idle"
    BY DEF Rounds, N!NoTick, N!Stages
  <1>3. CASE round[p].todo \ done = {}
    BY <1>2, <1>3 DEF N!Without, InHand
  <1>4. CASE round[p].todo \ done # {}
    <2> DEFINE left == [stage |-> "next", todo |-> round[p].todo \ done]
    <2>1. N!Without(p, done) = left
      BY <1>4 DEF N!Without
    <2>2. left \in Rounds
      BY <1>1 DEF Rounds, N!Stages
    <2> QED
      BY <1>2, <1>4, <2>1, <2>2 DEF InHand
  <1> QED
    BY <1>3, <1>4

(* A process's step keeps the invariant if it leaves the notices that      *)
(* others have in hand as they are, and accounts for the one it had or     *)
(* takes (Notices.deliver).                                                *)
LEMMA RoundStep ==
    ASSUME NoticesInv, NEW p \in Processes, NEW r \in Rounds,
           round' = [round EXCEPT ![p] = r],
           UNCHANGED <<happened, old, indexed, changes>>,
           link' \in Links, handled' \in SUBSET N!Keys,
           unsent' \in SUBSET N!Keys, unsent \subseteq unsent',
           accepted' \in [N!Keys -> Nat], \A x \in N!Keys : accepted[x] <= accepted'[x],
           r.stage # "idle" => r.todo # {},
           r.stage \in InHand =>
               /\ r.todo = round[p].todo
               /\ N!Oldest(p) \in handled' /\ accepted'[N!Oldest(p)] = 0
               /\ \A q \in Processes \ {p} : Sending(q) => N!Oldest(q) # N!Oldest(p),
           \A q \in Processes \ {p} : Sending(q) =>
               N!Oldest(q) \in handled' /\ accepted'[N!Oldest(q)] = 0,
           \A x \in N!Keys : accepted'[x] <= 1 /\ (accepted'[x] = 1 => x \in handled'),
           \A x \in handled' : x \notin handled \/ (Sending(p) /\ x = N!Oldest(p)) =>
               \/ accepted'[x] > 0 \/ x \in unsent'
               \/ r.stage \in InHand /\ x = N!Oldest(p)
    PROVE  NoticesInv'
  <1>1. /\ round \in [Processes -> Rounds] /\ accepted \in [N!Keys -> Nat]
        /\ handled \in SUBSET N!Keys
    BY DEF NoticesInv, NoticesTypes
  <1>2. /\ round' \in [Processes -> Rounds]
        /\ round'[p] = r
        /\ \A q \in Processes \ {p} : round'[q] = round[q]
    BY <1>1
  <1>3. /\ \A q \in Processes \ {p} : N!Oldest(q)' = N!Oldest(q) /\ (Sending(q)' <=> Sending(q))
        /\ r.stage \in InHand => N!Oldest(p)' = N!Oldest(p)
        /\ Sending(p)' <=> r.stage \in InHand
    <2>1. \A q \in Processes \ {p} : N!Oldest(q)' = N!Oldest(q) /\ (Sending(q)' <=> Sending(q))
      BY <1>2 DEF N!Oldest, Sending
    <2>2. r.stage \in InHand => N!Oldest(p)' = N!Oldest(p)
      BY <1>2 DEF N!Oldest
    <2> QED
      BY <1>2, <2>1, <2>2 DEF Sending
  <1>4. NoticesTypes'
    BY <1>2 DEF NoticesInv, NoticesTypes
  <1>5. \A q \in Processes : RoundOK(q)'
    <2>1. RoundOK(p)'
      BY <1>2, <1>3 DEF RoundOK
    <2>2. ASSUME NEW q \in Processes \ {p} PROVE RoundOK(q)'
      <3>1. RoundOK(q)
        BY DEF NoticesInv
      <3> QED
        BY <1>2, <1>3, <3>1 DEF RoundOK
    <2> QED
      BY <2>1, <2>2
  <1>6. ASSUME NEW q \in Processes, NEW s \in Processes, q # s, Sending(q)', Sending(s)'
        PROVE  N!Oldest(q)' # N!Oldest(s)'
    <2>1. CASE q = p
      BY <1>3, <1>6, <2>1
    <2>2. CASE s = p
      BY <1>3, <1>6, <2>2
    <2>3. CASE q # p /\ s # p
      BY <1>3, <1>6, <2>3 DEF NoticesInv
    <2> QED
      BY <2>1, <2>2, <2>3
  <1>7. ASSUME NEW x \in handled'
        PROVE  accepted'[x] > 0 \/ x \in unsent' \/ \E q \in Processes : N!Delivers(q, x)'
    <2>1. \A q \in Processes : N!Delivers(q, x)' <=> Sending(q)' /\ N!Oldest(q)' = x
      BY DEF N!Delivers, Sending, InHand
    <2>2. CASE x \notin handled \/ (Sending(p) /\ x = N!Oldest(p))
      BY <1>3, <1>7, <2>1, <2>2
    <2>3. CASE x \in handled /\ ~(Sending(p) /\ x = N!Oldest(p))
      <3>1. accepted[x] > 0 \/ x \in unsent \/ \E q \in Processes : N!Delivers(q, x)
        BY <2>3 DEF NoticesInv, N!HandledMeansTold
      <3>2. CASE accepted[x] > 0
        BY <1>1, <1>7, <3>2
      <3>3. CASE x \in unsent
        BY <3>3
      <3>4. CASE \E q \in Processes : N!Delivers(q, x)
        <4>1. PICK q \in Processes : Sending(q) /\ N!Oldest(q) = x
          BY <3>4 DEF N!Delivers, Sending, InHand
        <4> QED
          BY <1>3, <2>1, <2>3, <4>1
      <3> QED
        BY <3>1, <3>2, <3>3, <3>4
    <2> QED
      BY <2>2, <2>3
  <1> QED
    BY <1>4, <1>5, <1>6, <1>7 DEF NoticesInv, N!HandledMeansTold

(* A tick takes what is due, and has nothing in hand yet (Notices.tick).   *)
LEMMA NoticesTick ==
    ASSUME NoticesInv, NEW p \in Processes, N!Tick(p)
    PROVE  NoticesInv'
  <1> DEFINE r == [stage |-> "next", todo |-> N!Todo]
  <1>1. /\ round' = [round EXCEPT ![p] = r] /\ round[p].stage = "idle" /\ N!Due # {}
        /\ UNCHANGED <<happened, old, indexed, handled, link, accepted, unsent, changes>>
    BY Zenon DEF N!Tick, N!database, N!histories
  <1>2. r \in Rounds /\ r.stage = "next"
    BY DEF Rounds, N!Todo, N!Stages
  <1>3. r.todo # {}
    <2>1. PICK n \in N!Due : n \in indexed
      BY <1>1 DEF N!Due
    <2>2. <<n, "own">> \in N!Keys
      BY <2>1 DEF NoticesInv, NoticesTypes, N!Keys
    <2> QED
      BY <2>1, <2>2 DEF N!Todo
  <1>4. ~Sending(p) /\ r.stage \notin InHand
    BY <1>1, <1>2 DEF Sending, InHand
  <1> HIDE DEF r
  <1>5. \A x \in N!Keys : accepted[x] <= accepted[x]
    BY DEF NoticesInv, NoticesTypes
  <1> QED
    BY <1>1, <1>2, <1>3, <1>4, <1>5, RoundStep DEF NoticesInv, NoticesTypes, RoundOK

(* A notice is claimed by who inserts its row; one without text is done    *)
(* with, and one that is there already is left to who claimed it           *)
(* (Notices.deliver).                                                      *)
LEMMA NoticesClaim ==
    ASSUME NoticesInv, NEW p \in Processes, N!Claim(p)
    PROVE  NoticesInv'
  <1> DEFINE x == N!Oldest(p)
             r == [round[p] EXCEPT !.stage = "claimed"]
             source == {y \in N!Keys : y[1] = x[1]}
  <1>1. /\ round[p].stage = "next" /\ handled' = handled \cup {x}
        /\ UNCHANGED <<happened, old, indexed, link, accepted, changes>>
    BY Zenon DEF N!Claim
  <1>2. /\ NoticesTypes /\ round[p] \in Rounds /\ round[p].todo # {} /\ ~Sending(p)
        /\ \A y \in N!Keys : accepted[y] <= accepted[y]
    BY <1>1 DEF NoticesInv, NoticesTypes, RoundOK, Sending, InHand
  <1>3. x \in N!Keys
    BY <1>2, OldestIn
  <1>4. \/ x \notin handled /\ round' = [round EXCEPT ![p] = r] /\ UNCHANGED unsent
        \/ round' = [round EXCEPT ![p] = N!Without(p, source)] /\ unsent' = unsent \cup source
        \/ x \in handled /\ round' = [round EXCEPT ![p] = N!Rest(p)] /\ UNCHANGED unsent
    BY Zenon DEF N!Claim
  <1>5. /\ handled' \in SUBSET N!Keys
        /\ \A q \in Processes \ {p} : Sending(q) =>
               N!Oldest(q) \in handled /\ accepted[N!Oldest(q)] = 0
        /\ \A y \in N!Keys : accepted[y] <= 1 /\ (accepted[y] = 1 => y \in handled')
    BY <1>1, <1>3 DEF NoticesInv, NoticesTypes, RoundOK
  <1> HIDE DEF x
  <1>6. CASE x \notin handled /\ round' = [round EXCEPT ![p] = r] /\ UNCHANGED unsent
    <2>1. r \in Rounds /\ r.stage = "claimed" /\ r.todo = round[p].todo
      BY <1>2 DEF Rounds, N!Stages
    <2>2. accepted[x] = 0
      BY <1>3, <1>6 DEF NoticesInv, NoticesTypes
    <2>3. r.stage \in InHand /\ r.stage # "idle"
      BY <2>1 DEF InHand
    <2> HIDE DEF r
    <2> QED
      BY <1>1, <1>2, <1>5, <1>6, <2>1, <2>2, <2>3, RoundStep DEF x, NoticesTypes
  <1>7. CASE round' = [round EXCEPT ![p] = N!Without(p, source)] /\ unsent' = unsent \cup source
    <2>1. source \subseteq N!Keys /\ x \in source
      BY <1>3
    <2>2. /\ N!Without(p, source) \in Rounds /\ N!Without(p, source).stage \notin InHand
          /\ N!Without(p, source).stage # "idle" => N!Without(p, source).todo # {}
      BY <1>2, WithoutType
    <2> HIDE DEF source
    <2> QED
      BY <1>1, <1>2, <1>5, <1>7, <2>1, <2>2, RoundStep DEF NoticesTypes
  <1>8. CASE x \in handled /\ round' = [round EXCEPT ![p] = N!Rest(p)] /\ UNCHANGED unsent
    <2>1. /\ N!Rest(p) \in Rounds /\ N!Rest(p).stage \notin InHand
          /\ N!Rest(p).stage # "idle" => N!Rest(p).todo # {}
      BY <1>2, WithoutType DEF N!Rest
    <2> QED
      BY <1>1, <1>2, <1>5, <1>8, <2>1, RoundStep DEF NoticesTypes
  <1> QED
    BY <1>4, <1>6, <1>7, <1>8

(* Telegram answers for a notice in hand: once (Notices.deliver).          *)
LEMMA NoticesAccept ==
    ASSUME NoticesInv, NEW p \in Processes, N!Accept(p)
    PROVE  NoticesInv'
  <1> DEFINE x == N!Oldest(p)
  <1>1. /\ round[p].stage = "claimed" /\ accepted' = [accepted EXCEPT ![x] = @ + 1]
        /\ round' = [round EXCEPT ![p] = N!Rest(p)]
        /\ UNCHANGED <<happened, old, indexed, handled, link, unsent, changes>>
    BY Zenon DEF N!Accept, N!database
  <1>2. /\ NoticesTypes /\ round[p] \in Rounds /\ round[p].todo # {} /\ Sending(p)
        /\ x \in handled /\ accepted[x] = 0 /\ handled \in SUBSET N!Keys
        /\ accepted \in [N!Keys -> Nat]
    BY <1>1 DEF NoticesInv, NoticesTypes, RoundOK, Sending, InHand
  <1>3. /\ N!Rest(p) \in Rounds /\ N!Rest(p).stage \notin InHand
        /\ N!Rest(p).stage # "idle" => N!Rest(p).todo # {}
    BY <1>2, WithoutType DEF N!Rest
  <1>4. \A q \in Processes \ {p} : Sending(q) =>
            N!Oldest(q) \in handled /\ accepted[N!Oldest(q)] = 0 /\ N!Oldest(q) # x
    BY <1>2 DEF NoticesInv, RoundOK
  <1>5. \A y \in N!Keys : accepted[y] <= 1 /\ (accepted[y] = 1 => y \in handled)
    BY DEF NoticesInv
  <1> HIDE DEF x
  <1>6. /\ accepted' \in [N!Keys -> Nat] /\ accepted'[x] = 1
        /\ \A y \in N!Keys : y # x => accepted'[y] = accepted[y]
    BY <1>1, <1>2
  <1>7. /\ \A y \in N!Keys : accepted[y] <= accepted'[y]
        /\ \A y \in N!Keys : accepted'[y] <= 1 /\ (accepted'[y] = 1 => y \in handled)
        /\ \A q \in Processes \ {p} : Sending(q) =>
               N!Oldest(q) \in handled /\ accepted'[N!Oldest(q)] = 0
    BY <1>2, <1>4, <1>5, <1>6
  <1>8. /\ \A y \in handled : y \notin handled \/ (Sending(p) /\ y = x) => accepted'[y] > 0
        /\ link \in Links /\ unsent \in SUBSET N!Keys
    BY <1>2, <1>6 DEF NoticesTypes
  <1> QED
    BY <1>1, <1>2, <1>3, <1>6, <1>7, <1>8, RoundStep DEF x

(* A send that is refused, or fails, leaves its notice in hand             *)
(* (Notices.deliver).                                                      *)
LEMMA NoticesNoAnswer ==
    ASSUME NoticesInv, NEW p \in Processes, N!Refuse(p) \/ N!SendFails(p)
    PROVE  NoticesInv'
  <1>1. PICK stage \in {"refused", "failed"} :
            round' = [round EXCEPT ![p] = [round[p] EXCEPT !.stage = stage]]
    BY DEF N!Refuse, N!SendFails
  <1> DEFINE r == [round[p] EXCEPT !.stage = stage]
  <1>2. /\ round[p].stage = "claimed"
        /\ UNCHANGED <<happened, old, indexed, handled, link, accepted, unsent, changes>>
    BY DEF N!Refuse, N!SendFails, N!database, N!histories
  <1>3. /\ NoticesTypes /\ round[p] \in Rounds /\ round[p].todo # {} /\ Sending(p)
        /\ N!Oldest(p) \in handled /\ accepted[N!Oldest(p)] = 0
        /\ \A y \in N!Keys : accepted[y] <= accepted[y]
    BY <1>2 DEF NoticesInv, NoticesTypes, RoundOK, Sending, InHand
  <1>4. r \in Rounds /\ r.stage \in InHand /\ r.todo = round[p].todo
    BY <1>3 DEF Rounds, N!Stages, InHand
  <1>5. /\ \A q \in Processes \ {p} : Sending(q) =>
               /\ N!Oldest(q) \in handled /\ accepted[N!Oldest(q)] = 0
               /\ N!Oldest(q) # N!Oldest(p)
        /\ \A y \in N!Keys : accepted[y] <= 1 /\ (accepted[y] = 1 => y \in handled)
    BY <1>3 DEF NoticesInv, RoundOK
  <1>6. round' = [round EXCEPT ![p] = r]
    BY <1>1
  <1> HIDE DEF r
  <1> QED
    BY <1>2, <1>3, <1>4, <1>5, <1>6, RoundStep DEF NoticesTypes

(* A chat that refuses ends its link, and the claim stays                  *)
(* (Notices.deliver).                                                      *)
LEMMA NoticesRevoke ==
    ASSUME NoticesInv, NEW p \in Processes, N!Revoke(p)
    PROVE  NoticesInv'
  <1> DEFINE x == N!Oldest(p)
  <1>1. /\ round[p].stage = "refused" /\ link' = [link EXCEPT !.active = FALSE]
        /\ round' = [round EXCEPT ![p] = N!Rest(p)] /\ unsent' = unsent \cup {x}
        /\ UNCHANGED <<happened, old, indexed, handled, accepted, changes>>
    BY Zenon DEF N!Revoke
  <1>2. /\ NoticesTypes /\ round[p].todo # {} /\ Sending(p) /\ x \in handled
        /\ \A y \in N!Keys : accepted[y] <= accepted[y]
        /\ \A q \in Processes \ {p} : Sending(q) =>
               N!Oldest(q) \in handled /\ accepted[N!Oldest(q)] = 0
        /\ \A y \in N!Keys : accepted[y] <= 1 /\ (accepted[y] = 1 => y \in handled)
    BY <1>1 DEF NoticesInv, NoticesTypes, RoundOK, Sending, InHand
  <1>3. /\ N!Rest(p) \in Rounds /\ N!Rest(p).stage \notin InHand
        /\ N!Rest(p).stage # "idle" => N!Rest(p).todo # {}
    BY <1>2, WithoutType DEF N!Rest
  <1>4. link' \in Links /\ unsent' \in SUBSET N!Keys
    BY <1>1, <1>2 DEF Links, NoticesTypes
  <1> HIDE DEF x
  <1> QED
    BY <1>1, <1>2, <1>3, <1>4, RoundStep DEF x, NoticesTypes

(* A claim that is taken back was not answered for, and nobody else had    *)
(* it (Notices.deliver).                                                   *)
LEMMA NoticesUnclaim ==
    ASSUME NoticesInv, NEW p \in Processes, N!Unclaim(p)
    PROVE  NoticesInv'
  <1> DEFINE x == N!Oldest(p)
  <1>1. /\ round[p].stage = "failed" /\ handled' = handled \ {x}
        /\ round' = [round EXCEPT ![p] = N!NoTick]
        /\ UNCHANGED <<happened, old, indexed, link, accepted, unsent, changes>>
    BY Zenon DEF N!Unclaim, N!histories
  <1>2. /\ NoticesTypes /\ Sending(p) /\ accepted[x] = 0
        /\ \A y \in N!Keys : accepted[y] <= accepted[y]
    BY <1>1 DEF NoticesInv, NoticesTypes, RoundOK, Sending, InHand
  <1>3. \A q \in Processes \ {p} : Sending(q) =>
            N!Oldest(q) \in handled' /\ accepted[N!Oldest(q)] = 0
    BY <1>1, <1>2 DEF NoticesInv, RoundOK
  <1>4. \A y \in N!Keys : accepted[y] <= 1 /\ (accepted[y] = 1 => y \in handled')
    BY <1>1, <1>2 DEF NoticesInv
  <1>5. N!NoTick \in Rounds /\ N!NoTick.stage = "idle" /\ N!NoTick.stage \notin InHand
    <2>1. N!NoTick \in Rounds /\ N!NoTick.stage = "idle"
      BY <1>2, WithoutType
    <2> QED
      BY <2>1 DEF InHand
  <1> HIDE DEF x, N!NoTick
  <1> QED
    BY <1>1, <1>2, <1>3, <1>4, <1>5, RoundStep DEF x, NoticesTypes

(* A tick that ends in the middle leaves its claim behind (Notices.tick).  *)
LEMMA NoticesLeaves ==
    ASSUME NoticesInv, NEW p \in Processes, N!Leaves(p)
    PROVE  NoticesInv'
  <1> DEFINE x == N!Oldest(p)
  <1>1. /\ round' = [round EXCEPT ![p] = N!NoTick]
        /\ unsent' = IF Sending(p) THEN unsent \cup {x} ELSE unsent
        /\ UNCHANGED <<happened, old, indexed, handled, link, accepted, changes>>
    BY Zenon DEF N!Leaves, N!database, Sending, InHand
  <1>2. /\ NoticesTypes /\ (Sending(p) => x \in handled)
        /\ \A y \in N!Keys : accepted[y] <= accepted[y]
        /\ \A q \in Processes \ {p} : Sending(q) =>
               N!Oldest(q) \in handled /\ accepted[N!Oldest(q)] = 0
        /\ \A y \in N!Keys : accepted[y] <= 1 /\ (accepted[y] = 1 => y \in handled)
    BY DEF NoticesInv, NoticesTypes, RoundOK
  <1>3. N!NoTick \in Rounds /\ N!NoTick.stage = "idle" /\ N!NoTick.stage \notin InHand
    <2>1. N!NoTick \in Rounds /\ N!NoTick.stage = "idle"
      BY <1>2, WithoutType
    <2> QED
      BY <2>1 DEF InHand
  <1>4. /\ unsent' \in SUBSET N!Keys /\ unsent \subseteq unsent'
        /\ Sending(p) => x \in unsent'
    BY <1>1, <1>2 DEF NoticesTypes
  <1> HIDE DEF x, N!NoTick
  <1> QED
    BY <1>1, <1>2, <1>3, <1>4, RoundStep DEF x, NoticesTypes

(* What happens beside the ticks touches no notice (Notices.tick).         *)
LEMMA NoticesBeside ==
    ASSUME NoticesInv, UNCHANGED <<handled, round, accepted, unsent>>,
           happened' \in 0..MaxSources, old' \in 0..MaxSources,
           indexed' \in SUBSET N!Sources, link' \in Links, changes' \in 0..MaxChanges
    PROVE  NoticesInv'
  <1>1. NoticesTypes'
    BY DEF NoticesInv, NoticesTypes
  <1>2. \A p \in Processes : N!Oldest(p)' = N!Oldest(p)
    BY DEF N!Oldest
  <1>3. \A p \in Processes : RoundOK(p)'
    BY <1>2 DEF NoticesInv, RoundOK, Sending
  <1>4. N!HandledMeansTold'
    BY <1>2 DEF NoticesInv, N!HandledMeansTold, N!Delivers
  <1> QED
    BY <1>1, <1>2, <1>3, <1>4 DEF NoticesInv, Sending

(* Every step of the notices keeps the invariant.                          *)
LEMMA NoticesStep == NoticesInv /\ N!Next => NoticesInv'
  <1> SUFFICES ASSUME NoticesInv, N!Next PROVE NoticesInv'
    OBVIOUS
  <1>1. /\ happened \in 0..MaxSources /\ old \in 0..MaxSources /\ indexed \in SUBSET N!Sources
        /\ link \in Links /\ changes \in 0..MaxChanges
        /\ {MaxSources, MaxChanges} \subseteq Nat
    BY OperatorAssumption DEF NoticesInv, NoticesTypes
  <1> USE DEF N!database, N!histories
  <1>2. CASE N!Lead
    BY <1>1, <1>2, NoticesBeside DEF N!Lead
  <1>3. CASE N!Happen
    BY <1>1, <1>3, NoticesBeside DEF N!Happen
  <1>4. CASE N!Age
    BY <1>1, <1>4, NoticesBeside DEF N!Age
  <1>5. CASE N!Index
    <2>1. indexed' \in SUBSET N!Sources
      BY <1>1, <1>5 DEF N!Index, N!Sources
    <2> QED
      BY <1>1, <1>5, <2>1, NoticesBeside DEF N!Index
  <1>6. CASE N!Link \/ N!Unlink
    <2>1. link' \in Links
      <3>1. CASE N!Link
        <4>1. link' = [active |-> TRUE, since |-> happened]
          BY <3>1 DEF N!Link
        <4> QED
          BY <1>1, <4>1 DEF Links
      <3>2. CASE N!Unlink
        <4>1. link' = [link EXCEPT !.active = FALSE]
          BY <3>2 DEF N!Unlink
        <4> QED
          BY <1>1, <4>1 DEF Links
      <3> QED
        BY <1>6, <3>1, <3>2
    <2>2. changes' \in 0..MaxChanges
      BY <1>1, <1>6 DEF N!Link, N!Unlink, N!Change
    <2> QED
      BY <1>1, <1>6, <2>1, <2>2, NoticesBeside DEF N!Link, N!Unlink, N!Change
  <1>7. ASSUME NEW p \in Processes,
               \/ N!Tick(p) \/ N!Claim(p) \/ N!Accept(p) \/ N!Refuse(p) \/ N!SendFails(p)
               \/ N!Revoke(p) \/ N!Unclaim(p) \/ N!Fail(p) \/ N!EndProcess(p)
        PROVE  NoticesInv'
    BY <1>7, NoticesTick, NoticesClaim, NoticesAccept, NoticesNoAnswer, NoticesRevoke,
       NoticesUnclaim, NoticesLeaves DEF N!Fail, N!EndProcess
  <1> QED
    BY <1>2, <1>3, <1>4, <1>5, <1>6, <1>7 DEF N!Next

(* The invariant holds before the first tick, of the notices by themselves *)
(* and beside the other loops, which leave them alone (main.ts).           *)
LEMMA NoticesAlways == N!Spec \/ OperatorSpec => []NoticesInv
  <1>1. N!Init => NoticesInv
    <2> SUFFICES ASSUME N!Init PROVE NoticesInv
      OBVIOUS
    <2>1. N!NoTick \in Rounds /\ N!NoTick.stage = "idle"
      BY DEF N!NoTick, Rounds, N!Stages
    <2>2. NoticesTypes
      BY <2>1, OperatorAssumption DEF N!Init, NoticesTypes, Links
    <2>3. \A p \in Processes : round[p].stage = "idle"
      BY <2>1 DEF N!Init
    <2> QED
      BY <2>2, <2>3 DEF N!Init, NoticesInv, RoundOK, Sending, InHand, N!HandledMeansTold
  <1>2. NoticesInv /\ UNCHANGED notices => NoticesInv'
    BY NoticesBeside DEF notices, NoticesInv, NoticesTypes
  <1>3. NoticesInv /\ [Steps]_every => NoticesInv'
    BY <1>2, NoticesStep DEF Steps, Others, every
  <1>4. NoticesInv /\ [N!Next]_N!vars => NoticesInv'
    BY <1>2, NoticesStep DEF notices, N!vars, N!database, N!histories
  <1>5. Starts => N!Init
    BY DEF Starts
  <1> QED
    BY <1>1, <1>3, <1>4, <1>5, PTL DEF OperatorSpec, N!Spec

(* No notice that Telegram answered for is sent again, by any of any       *)
(* number of processes, however they end (Notices.deliver).                *)
THEOREM NoticeSentOnce == N!Spec \/ OperatorSpec => []NeverSentAgain
  <1>1. NoticesInv => NeverSentAgain
    BY DEF NoticesInv, NeverSentAgain, N!NeverSentAgain
  <1> QED
    BY <1>1, NoticesAlways, PTL

(* A notice recorded as handled was told, is in hand, needed no message,   *)
(* or was left behind by a failure (Notices.deliver).                      *)
THEOREM HandledWasTold == N!Spec \/ OperatorSpec => []HandledMeansTold
  <1>1. NoticesInv => HandledMeansTold
    BY DEF NoticesInv, HandledMeansTold
  <1> QED
    BY <1>1, NoticesAlways, PTL

-----------------------------------------------------------------------------
(***************************************************************************)
(* The bot's conversation.                                                 *)
(***************************************************************************)

Batches == [from : 1..(MaxUpdates + 1), upto : 0..MaxUpdates]

\* Every update before the n-th was answered, or its answer failed.
ReadBefore(n) == \A u \in B!Updates : u < n => u \in answered \cup failed

BotTypes ==
    /\ updates \in [B!Updates -> B!Commands]
    /\ sent \in 0..MaxUpdates
    /\ confirmed \in 0..MaxUpdates
    /\ usable \in SUBSET Tokens
    /\ linked \in 0..MaxUpdates
    /\ offset \in [Processes -> 0..(MaxUpdates + 1)]
    /\ batch \in [Processes -> Batches]
    /\ answered \in SUBSET B!Updates
    /\ failed \in SUBSET B!Updates

\* What Telegram confirmed, what a process would confirm and what it answers next
\* have nothing unread before them; so has what was answered, whose token is spent.
BotInv ==
    /\ BotTypes
    /\ ReadBefore(confirmed + 1)
    /\ \A p \in Processes : ReadBefore(offset[p]) /\ (B!Busy(p) => ReadBefore(batch[p].from))
    /\ \A u \in answered : ReadBefore(u) /\ updates[u] \notin usable
    /\ B!UnlinkStands

(* Nothing is confirmed that was not read: the offset is past what its     *)
(* process took, the confirmed one past what some process took             *)
(* (TelegramBot.poll).                                                     *)
LEMMA BotGet ==
    ASSUME BotInv, NEW p \in Processes, B!GetUpdates(p)
    PROVE  BotInv'
  <1> DEFINE c == IF offset[p] > confirmed THEN offset[p] - 1 ELSE confirmed
             r == [from |-> c + 1, upto |-> sent]
  <1>1. /\ confirmed' = c /\ c < sent /\ batch' = [batch EXCEPT ![p] = r]
        /\ UNCHANGED <<updates, sent, usable, linked, offset, answered, failed>>
    BY DEF B!GetUpdates, B!tables
  <1>2. /\ BotTypes /\ confirmed \in 0..MaxUpdates /\ sent \in 0..MaxUpdates /\ MaxUpdates \in Nat
        /\ offset[p] \in 0..(MaxUpdates + 1) /\ batch \in [Processes -> Batches]
        /\ ReadBefore(confirmed + 1) /\ ReadBefore(offset[p])
    BY OperatorAssumption DEF BotInv, BotTypes
  <1>3. c \in 0..MaxUpdates /\ c < sent /\ ReadBefore(c + 1)
    <2>1. CASE offset[p] > confirmed
      BY <1>1, <1>2, <2>1
    <2>2. CASE ~(offset[p] > confirmed)
      BY <1>1, <1>2, <2>2
    <2> QED
      BY <2>1, <2>2
  <1> HIDE DEF c
  <1>4. r \in Batches /\ r.from = c + 1
    BY <1>2, <1>3 DEF Batches
  <1> HIDE DEF r
  <1>5. /\ batch' \in [Processes -> Batches]
        /\ batch'[p] = r
        /\ \A q \in Processes \ {p} : batch'[q] = batch[q]
    BY <1>1, <1>2, <1>4
  <1>6. BotTypes'
    BY <1>1, <1>3, <1>5 DEF BotInv, BotTypes
  <1>7. \A q \in Processes : ReadBefore(offset[q])'
    BY <1>1 DEF BotInv, ReadBefore
  <1>8. \A q \in Processes : B!Busy(q)' => ReadBefore(batch[q].from)'
    <2>1. ReadBefore(batch[p].from)'
      BY <1>1, <1>3, <1>4, <1>5 DEF ReadBefore
    <2>2. ASSUME NEW q \in Processes \ {p} PROVE B!Busy(q)' => ReadBefore(batch[q].from)'
      <3>1. B!Busy(q) => ReadBefore(batch[q].from)
        BY DEF BotInv
      <3> QED
        BY <1>1, <1>5, <3>1 DEF ReadBefore, B!Busy
    <2> QED
      BY <2>1, <2>2
  <1>9. ReadBefore(confirmed + 1)'
    BY <1>1, <1>3 DEF ReadBefore
  <1>10. \A u \in answered' : ReadBefore(u)' /\ updates'[u] \notin usable'
    BY <1>1 DEF BotInv, ReadBefore
  <1>11. B!UnlinkStands'
    BY <1>1 DEF BotInv, B!UnlinkStands
  <1> QED
    BY <1>6, <1>7, <1>8, <1>9, <1>10, <1>11 DEF BotInv

(* A process's next update, and what it read before it (TelegramBot.poll). *)
LEMMA BotTakes ==
    ASSUME BotInv, NEW p \in Processes, B!Take(p)
    PROVE  /\ batch[p].from \in B!Updates /\ batch[p].from \in Nat
           /\ ReadBefore(batch[p].from)
           /\ offset' \in [Processes -> 0..(MaxUpdates + 1)]
           /\ offset'[p] = batch[p].from + 1
           /\ \A q \in Processes \ {p} : offset'[q] = offset[q]
           /\ [batch[p] EXCEPT !.from = batch[p].from + 1] \in Batches
           /\ B!Nothing \in Batches
  <1> DEFINE u == batch[p].from
  <1>1. /\ batch[p] \in Batches /\ B!Busy(p) /\ offset \in [Processes -> 0..(MaxUpdates + 1)]
        /\ offset' = [offset EXCEPT ![p] = u + 1] /\ MaxUpdates \in Nat
    BY OperatorAssumption DEF BotInv, BotTypes, B!Take
  <1>2. /\ u \in B!Updates /\ u \in Nat
        /\ u + 1 \in 0..(MaxUpdates + 1) /\ u + 1 \in 1..(MaxUpdates + 1)
    BY <1>1 DEF Batches, B!Busy, B!Updates
  <1>3. ReadBefore(u)
    BY <1>1 DEF BotInv
  <1>4. [batch[p] EXCEPT !.from = u + 1] \in Batches
    BY <1>1, <1>2 DEF Batches
  <1>5. B!Nothing \in Batches
    BY <1>1 DEF Batches, B!Nothing
  <1> HIDE DEF u
  <1>6. /\ offset' \in [Processes -> 0..(MaxUpdates + 1)]
        /\ offset'[p] = u + 1
        /\ \A q \in Processes \ {p} : offset'[q] = offset[q]
    BY <1>1, <1>2
  <1> QED
    BY <1>2, <1>3, <1>4, <1>5, <1>6 DEF u

(* What a process that took an update knows when it is answered or failed: *)
(* nothing before what it, or another, takes next is left unread           *)
(* (TelegramBot.poll).                                                     *)
LEMMA BotAfter ==
    ASSUME BotInv, NEW p \in Processes, B!Take(p),
           answered \subseteq answered', failed \subseteq failed',
           batch[p].from \in answered' \cup failed',
           answered' \in SUBSET B!Updates, failed' \in SUBSET B!Updates,
           answered' \subseteq answered \cup {batch[p].from},
           UNCHANGED <<updates, sent, confirmed>>,
           usable' \in SUBSET usable, linked' \in 0..MaxUpdates,
           NEW r \in Batches, batch' = [batch EXCEPT ![p] = r],
           r.from = batch[p].from + 1 \/ r.upto < r.from,
           \A u \in answered' : updates[u] \notin usable',
           B!UnlinkStands'
    PROVE  BotInv'
  <1> DEFINE u == batch[p].from
             ReadNow(n) == \A w \in B!Updates : w < n => w \in answered' \cup failed'
  <1>1. /\ u \in B!Updates /\ u \in Nat /\ ReadBefore(u)
        /\ offset' \in [Processes -> 0..(MaxUpdates + 1)] /\ offset'[p] = u + 1
        /\ \A q \in Processes \ {p} : offset'[q] = offset[q]
    BY BotTakes
  <1>2. /\ batch' \in [Processes -> Batches] /\ batch'[p] = r
        /\ \A q \in Processes \ {p} : batch'[q] = batch[q]
    BY DEF BotInv, BotTypes
  <1>3. BotTypes'
    BY <1>1, <1>2 DEF BotInv, BotTypes
  <1>4. \A n : ReadBefore(n) => ReadNow(n)
    BY DEF ReadBefore
  <1> HIDE DEF u
  <1>5. ReadNow(u) /\ ReadNow(u + 1)
    <2>1. \A w \in B!Updates : w \in Nat
      BY DEF B!Updates
    <2>2. \A w \in B!Updates : w < u + 1 => w < u \/ w = u
      BY <1>1, <2>1
    <2>3. ReadNow(u)
      BY <1>1, <1>4
    <2> QED
      BY <2>2, <2>3 DEF u
  <1> HIDE DEF ReadNow
  <1>6. \A q \in Processes : ReadNow(offset'[q])
    BY <1>1, <1>4, <1>5 DEF BotInv
  <1>7. ASSUME NEW q \in Processes, B!Busy(q)' PROVE ReadNow(batch'[q].from)
    <2>1. CASE q = p
      <3>1. r.from \in Nat /\ r.upto \in Nat
        BY OperatorAssumption DEF Batches
      <3>2. r.from = u + 1
        BY <1>2, <1>7, <2>1, <3>1 DEF B!Busy, u
      <3> QED
        BY <1>2, <1>5, <2>1, <3>2
    <2>2. CASE q # p
      <3>1. B!Busy(q)
        BY <1>2, <1>7, <2>2 DEF B!Busy
      <3> QED
        BY <1>2, <1>4, <2>2, <3>1 DEF BotInv
    <2> QED
      BY <2>1, <2>2
  <1>8. ReadNow(confirmed' + 1)
    BY <1>4 DEF BotInv
  <1>9. \A w \in answered' : ReadNow(w)
    <2>1. \A w \in answered : ReadNow(w)
      BY <1>4 DEF BotInv
    <2> QED
      BY <1>5, <2>1 DEF u
  <1> QED
    BY <1>3, <1>6, <1>7, <1>8, <1>9 DEF BotInv, ReadBefore, ReadNow

(* An answer spends its update's token, and links the chat only with one   *)
(* that was never answered before; an /unlink answered before it was then  *)
(* answered past a failure of it (TelegramBot.link).                       *)
LEMMA BotAnswer ==
    ASSUME BotInv, NEW p \in Processes, B!Answer(p)
    PROVE  BotInv'
  <1> DEFINE u == batch[p].from
  <1>1. /\ B!Take(p)
        /\ linked' = IF updates[u] = "unlink" THEN 0
                     ELSE IF updates[u] \in usable THEN u ELSE linked
        /\ usable' = usable \ {updates[u]}
        /\ answered' = answered \cup {u}
        /\ UNCHANGED <<updates, sent, confirmed, failed>>
    BY DEF B!Answer
  <1>2. PICK replied \in BOOLEAN :
            batch' = [batch EXCEPT ![p] = IF replied THEN [@ EXCEPT !.from = u + 1] ELSE B!Nothing]
    BY DEF B!Answer
  <1> DEFINE r == IF replied THEN [batch[p] EXCEPT !.from = u + 1] ELSE B!Nothing
  <1>3. /\ u \in B!Updates /\ u \in Nat /\ ReadBefore(u) /\ batch[p] \in Batches
        /\ [batch[p] EXCEPT !.from = u + 1] \in Batches /\ B!Nothing \in Batches
    BY <1>1, BotTakes DEF BotInv, BotTypes
  <1>4. /\ r \in Batches /\ batch' = [batch EXCEPT ![p] = r]
        /\ r.from = u + 1 \/ r.upto < r.from
    BY <1>2, <1>3 DEF Batches, B!Nothing
  <1>5. linked' \in 0..MaxUpdates
    <2>1. linked \in 0..MaxUpdates /\ MaxUpdates \in Nat
      BY OperatorAssumption DEF BotInv, BotTypes
    <2>2. 0 \in 0..MaxUpdates /\ u \in 0..MaxUpdates
      BY <1>3, <2>1 DEF B!Updates
    <2> HIDE DEF u
    <2> QED
      BY <1>1, <2>1, <2>2
  <1>6. \A w \in answered' : updates[w] \notin usable'
    BY <1>1 DEF BotInv
  <1>7. \A w \in B!Updates : w \in Nat
    BY DEF B!Updates
  <1> HIDE DEF r, u
  <1>8. B!UnlinkStands'
    <2> SUFFICES ASSUME linked' # 0, NEW w \in answered', w > linked', updates[w] = "unlink"
                 PROVE  linked' \in failed
      BY <1>1 DEF B!UnlinkStands
    <2>1. updates[u] # "unlink" /\ w # u
      BY <1>1
    <2>2. w \in answered /\ w \in B!Updates
      BY <1>1, <2>1 DEF BotInv, BotTypes
    <2>3. CASE updates[u] \in usable
      <3>1. linked' = u
        BY <1>1, <2>1, <2>3
      <3>2. u < w
        BY <1>3, <1>7, <2>2, <3>1
      <3>3. u \in answered \cup failed
        BY <1>3, <2>2, <3>2 DEF BotInv, ReadBefore
      <3> QED
        BY <2>3, <3>1, <3>3 DEF BotInv
    <2>4. CASE updates[u] \notin usable
      BY <1>1, <2>1, <2>2, <2>4 DEF BotInv, B!UnlinkStands
    <2> QED
      BY <2>3, <2>4
  <1> QED
    BY <1>1, <1>3, <1>4, <1>5, <1>6, <1>8, BotAfter DEF u, BotInv, BotTypes

(* An answer that fails is remembered as read (TelegramBot.poll).          *)
LEMMA BotFail ==
    ASSUME BotInv, NEW p \in Processes, B!Fail(p)
    PROVE  BotInv'
  <1> DEFINE u == batch[p].from
  <1>1. /\ B!Take(p) /\ failed' = failed \cup {u}
        /\ batch' = [batch EXCEPT ![p] = B!Nothing]
        /\ UNCHANGED <<updates, sent, confirmed, usable, linked, answered>>
    BY DEF B!Fail, B!tables
  <1>2. u \in B!Updates /\ B!Nothing \in Batches
    BY <1>1, BotTakes
  <1>3. B!Nothing.upto < B!Nothing.from
    BY DEF B!Nothing
  <1>4. B!UnlinkStands'
    BY <1>1 DEF BotInv, B!UnlinkStands
  <1>5. \A w \in answered' : updates[w] \notin usable'
    BY <1>1 DEF BotInv
  <1> HIDE DEF B!Nothing
  <1> QED
    BY <1>1, <1>2, <1>3, <1>4, <1>5, BotAfter DEF BotInv, BotTypes

(* A process that ends forgets its offset, and what is read stays read     *)
(* (main.ts).                                                              *)
LEMMA BotEnds ==
    ASSUME BotInv, NEW p \in Processes, B!EndProcess(p)
    PROVE  BotInv'
  <1>1. /\ batch' = [batch EXCEPT ![p] = B!Nothing] /\ offset' = [offset EXCEPT ![p] = 0]
        /\ UNCHANGED <<updates, sent, confirmed, usable, linked, answered, failed>>
        /\ batch \in [Processes -> Batches] /\ offset \in [Processes -> 0..(MaxUpdates + 1)]
    BY DEF B!EndProcess, B!tables, BotInv, BotTypes
  <1>2. B!Nothing \in Batches /\ ~(B!Nothing.from <= B!Nothing.upto)
    BY OperatorAssumption DEF Batches, B!Nothing
  <1>3. 0 \in 0..(MaxUpdates + 1)
    BY OperatorAssumption
  <1> HIDE DEF B!Nothing
  <1>4. /\ batch' \in [Processes -> Batches] /\ offset' \in [Processes -> 0..(MaxUpdates + 1)]
        /\ batch'[p] = B!Nothing /\ offset'[p] = 0
        /\ \A q \in Processes \ {p} : batch'[q] = batch[q] /\ offset'[q] = offset[q]
    BY <1>1, <1>2, <1>3
  <1>5. BotTypes'
    BY <1>1, <1>4 DEF BotInv, BotTypes
  <1>6. \A q \in Processes : ReadBefore(offset[q])' /\ (B!Busy(q)' => ReadBefore(batch[q].from)')
    <2>1. ReadBefore(offset[p])' /\ ~B!Busy(p)'
      <3>1. \A w \in B!Updates : ~(w < 0)
        BY DEF B!Updates
      <3> QED
        BY <1>2, <1>4, <3>1 DEF ReadBefore, B!Busy
    <2>2. ASSUME NEW q \in Processes \ {p}
          PROVE  ReadBefore(offset[q])' /\ (B!Busy(q)' => ReadBefore(batch[q].from)')
      <3>1. ReadBefore(offset[q]) /\ (B!Busy(q) => ReadBefore(batch[q].from))
        BY DEF BotInv
      <3> QED
        BY <1>1, <1>4, <3>1 DEF ReadBefore, B!Busy
    <2> QED
      BY <2>1, <2>2
  <1>7. ReadBefore(confirmed + 1)' /\ B!UnlinkStands'
    BY <1>1 DEF BotInv, ReadBefore, B!UnlinkStands
  <1>8. \A u \in answered' : ReadBefore(u)' /\ updates'[u] \notin usable'
    BY <1>1 DEF BotInv, ReadBefore
  <1> QED
    BY <1>5, <1>6, <1>7, <1>8 DEF BotInv

(* What happens beside the bot's answers reads nothing and makes no token  *)
(* usable again.                                                           *)
LEMMA BotBeside ==
    ASSUME BotInv, UNCHANGED <<updates, confirmed, linked, offset, batch, answered, failed>>,
           sent' \in 0..MaxUpdates, usable' \in SUBSET usable
    PROVE  BotInv'
  <1>1. BotTypes'
    BY DEF BotInv, BotTypes
  <1>2. \A p \in Processes : ReadBefore(offset[p])' /\ (B!Busy(p)' => ReadBefore(batch[p].from)')
    BY DEF BotInv, ReadBefore, B!Busy
  <1>3. ReadBefore(confirmed + 1)' /\ B!UnlinkStands'
    BY DEF BotInv, ReadBefore, B!UnlinkStands
  <1>4. \A u \in answered' : ReadBefore(u)' /\ updates'[u] \notin usable'
    BY DEF BotInv, ReadBefore
  <1> QED
    BY <1>1, <1>2, <1>3, <1>4 DEF BotInv

(* Every step of the bot keeps the invariant.                              *)
LEMMA BotStep == BotInv /\ B!Next => BotInv'
  <1> SUFFICES ASSUME BotInv, B!Next PROVE BotInv'
    OBVIOUS
  <1> USE DEF B!tables
  <1>1. sent \in 0..MaxUpdates /\ MaxUpdates \in Nat
    BY OperatorAssumption DEF BotInv, BotTypes
  <1>2. CASE B!Write
    BY <1>1, <1>2, BotBeside DEF B!Write
  <1>3. CASE B!Expire
    BY <1>1, <1>3, BotBeside DEF B!Expire
  <1>4. CASE B!Lead
    BY <1>1, <1>4, BotBeside DEF B!Lead
  <1>5. ASSUME NEW p \in Processes,
               B!GetUpdates(p) \/ B!Answer(p) \/ B!Fail(p) \/ B!EndProcess(p)
        PROVE  BotInv'
    BY <1>5, BotGet, BotAnswer, BotFail, BotEnds
  <1> QED
    BY <1>2, <1>3, <1>4, <1>5 DEF B!Next

(* The invariant holds before the first update, and the other loops leave  *)
(* the bot alone (main.ts).                                                *)
LEMMA BotAlways == OperatorSpec => []BotInv
  <1>1. Starts => BotInv
    <2> SUFFICES ASSUME B!Init PROVE BotInv
      BY DEF Starts
    <2>1. /\ updates \in [B!Updates -> B!Commands] /\ sent = 0 /\ confirmed = 0
          /\ usable = Tokens /\ linked = 0 /\ answered = {} /\ failed = {}
          /\ offset = [p \in Processes |-> 0] /\ batch = [p \in Processes |-> B!Nothing]
      BY DEF B!Init
    <2>2. MaxUpdates \in Nat /\ \A w \in B!Updates : ~(w < 0) /\ ~(w < 0 + 1)
      BY OperatorAssumption DEF B!Updates
    <2>3. B!Nothing \in Batches /\ ~(B!Nothing.from <= B!Nothing.upto)
      BY <2>2 DEF Batches, B!Nothing
    <2>4. BotTypes
      BY <2>1, <2>2, <2>3 DEF BotTypes
    <2>5. ReadBefore(confirmed + 1)
      BY <2>1, <2>2 DEF ReadBefore
    <2>6. \A p \in Processes : ReadBefore(offset[p]) /\ ~B!Busy(p)
      BY <2>1, <2>2, <2>3 DEF ReadBefore, B!Busy
    <2> QED
      BY <2>1, <2>4, <2>5, <2>6 DEF BotInv, B!UnlinkStands
  <1>2. BotInv /\ UNCHANGED bot => BotInv'
    BY BotBeside DEF bot, BotInv, BotTypes
  <1>3. BotInv /\ [Steps]_every => BotInv'
    BY <1>2, BotStep DEF Steps, Others, every
  <1> QED
    BY <1>1, <1>3, PTL DEF OperatorSpec

(* No command from before an answered /unlink links the chat again, for    *)
(* any updates and any number of processes that answer them twice, unless  *)
(* its first answer failed (TelegramBot.link, poll).                       *)
THEOREM UnlinkIsFinal == OperatorSpec => []UnlinkStands
  <1>1. BotInv => UnlinkStands
    BY DEF BotInv, UnlinkStands
  <1> QED
    BY <1>1, BotAlways, PTL

-----------------------------------------------------------------------------
(***************************************************************************)
(* The alarms.                                                             *)
(***************************************************************************)

Calls == [stage : A!Stages, now : A!Times, row : A!Row, notified : BOOLEAN]

AlarmsTypes ==
    /\ instant \in A!Times
    /\ row \in A!Row
    /\ call \in [Callers -> Calls]
    /\ told \in SUBSET A!Times
    /\ last \in {"none", "FIRING", "RESOLVED"}
    /\ muddled \in BOOLEAN

\* The operator heard last what row r says, from word l and the times s it was told.
Settled(r, l, s) ==
    /\ l = "FIRING" => r.firing
    /\ r.firing /\ l = "RESOLVED" => \A t \in s : t <= r.changedAt

\* What is true of the row r while call k is the only one in progress.
Alone(k, r, l, s) ==
    /\ k.stage \in {"resolve", "notify", "write"} => r = k.row
    /\ k.stage = "report" => ~r.firing
    /\ k.stage = "notify" \/ (k.stage = "write" /\ ~k.notified) =>
           Settled(r, l, s) /\ \A t \in s : t <= k.now
    /\ k.stage = "write" /\ k.notified => l = "FIRING"
    /\ k.stage = "idle" => Settled(r, l, s)

\* A row, and a row that a call read or will write, claims only what the operator
\* was told; while nothing is muddled, calls come one after the other.
Honest(r, s) == r.notifiedAt # A!Never => r.notifiedAt \in s
AlarmsInv ==
    /\ AlarmsTypes
    /\ \A t \in told : t <= instant
    /\ Honest(row, told)
    /\ \A c \in Callers :
         /\ call[c].now <= instant
         /\ Honest(call[c].row, told)
         /\ call[c].notified => call[c].now \in told
    /\ ~muddled =>
         /\ \A c, d \in Callers : call[c].stage # "idle" /\ call[d].stage # "idle" => c = d
         /\ \A c \in Callers : call[c].stage # "idle" => Alone(call[c], row, last, told)
         /\ (\A c \in Callers : call[c].stage = "idle") => Settled(row, last, told)

(* A step of one caller keeps the invariant if what it writes and what it  *)
(* goes on with claim nothing the operator was not told, and if it was     *)
(* alone the row is what it would be alone (Alarms.set).                   *)
LEMMA CallStep ==
    ASSUME AlarmsInv, NEW c \in Callers, NEW k \in Calls,
           call' = [call EXCEPT ![c] = k], UNCHANGED instant,
           row' \in A!Row, last' \in {"none", "FIRING", "RESOLVED"}, muddled' \in BOOLEAN,
           told' \in SUBSET A!Times, told \subseteq told', \A t \in told' : t <= instant,
           Honest(row', told'), Honest(k.row, told'), k.now <= instant,
           k.notified => k.now \in told',
           ~muddled' =>
               /\ \A d \in Callers \ {c} : call[d].stage = "idle"
               /\ Alone(k, row', last', told')
    PROVE  AlarmsInv'
  <1>1. /\ call' \in [Callers -> Calls] /\ call'[c] = k
        /\ \A d \in Callers \ {c} : call'[d] = call[d]
    BY DEF AlarmsInv, AlarmsTypes
  <1>2. AlarmsTypes'
    BY <1>1 DEF AlarmsInv, AlarmsTypes
  <1>3. ASSUME NEW d \in Callers
        PROVE  /\ call'[d].now <= instant
               /\ Honest(call'[d].row, told')
               /\ call'[d].notified => call'[d].now \in told'
    <2>1. CASE d = c
      BY <1>1, <2>1
    <2>2. CASE d # c
      <3>1. /\ call[d].now <= instant /\ Honest(call[d].row, told)
            /\ call[d].notified => call[d].now \in told
        BY DEF AlarmsInv
      <3> QED
        BY <1>1, <2>2, <3>1 DEF Honest
    <2> QED
      BY <2>1, <2>2
  <1>4. ASSUME ~muddled'
        PROVE  /\ \A d, e \in Callers : call'[d].stage # "idle" /\ call'[e].stage # "idle" => d = e
               /\ \A d \in Callers : call'[d].stage # "idle" => Alone(call'[d], row', last', told')
               /\ (\A d \in Callers : call'[d].stage = "idle") => Settled(row', last', told')
    <2>1. \A d \in Callers \ {c} : call'[d].stage = "idle"
      BY <1>1, <1>4
    <2>2. Alone(k, row', last', told')
      BY <1>4
    <2>3. k.stage = "idle" => Settled(row', last', told')
      BY <2>2 DEF Alone
    <2> QED
      BY <1>1, <2>1, <2>2, <2>3
  <1> QED
    BY <1>2, <1>3, <1>4 DEF AlarmsInv, Honest, Alone, Settled

(* A call reads the row; while calls come one after the other, the         *)
(* operator knows what it says (Alarms.set).                               *)
LEMMA AlarmBegins ==
    ASSUME AlarmsInv, NEW c \in Callers, NEW stage \in {"resolve", "notify", "write"},
           A!Begin(c, stage)
    PROVE  AlarmsInv'
  <1> DEFINE k == [stage |-> stage, now |-> instant, row |-> row, notified |-> FALSE]
  <1>1. /\ call[c].stage = "idle" /\ call' = [call EXCEPT ![c] = k]
        /\ muddled' = (muddled \/ \E d \in Callers : call[d].stage # "idle")
        /\ UNCHANGED <<instant, row, told, last>>
    BY DEF A!Begin
  <1>2. AlarmsTypes /\ Honest(row, told) /\ \A t \in told : t <= instant
    BY DEF AlarmsInv
  <1>3. /\ k \in Calls /\ k.row = row /\ k.now = instant /\ k.stage = stage /\ k.notified = FALSE
        /\ instant <= instant
    BY <1>2, OperatorAssumption DEF AlarmsTypes, Calls, A!Stages, A!Times
  <1> HIDE DEF k
  <1>4. ASSUME ~muddled'
        PROVE  /\ \A d \in Callers \ {c} : call[d].stage = "idle"
               /\ Alone(k, row, last, told)
    <2>1. ~muddled /\ \A d \in Callers : call[d].stage = "idle"
      BY <1>1, <1>4
    <2>2. Settled(row, last, told)
      BY <2>1 DEF AlarmsInv
    <2> QED
      BY <1>2, <1>3, <2>1, <2>2 DEF Alone
  <1>5. muddled' \in BOOLEAN
    BY <1>1
  <1> QED
    BY <1>1, <1>2, <1>3, <1>4, <1>5, CallStep DEF AlarmsTypes

(* A call in progress knows what it read, and alone what is true of the    *)
(* row (Alarms.set).                                                       *)
LEMMA InProgress ==
    ASSUME AlarmsInv, NEW c \in Callers, call[c].stage # "idle"
    PROVE  /\ call[c] \in Calls /\ AlarmsTypes /\ MaxInstant \in Nat
           /\ call[c].now \in A!Times /\ call[c].row \in A!Row
           /\ \A t \in told : t <= instant
           /\ Honest(row, told) /\ Honest(call[c].row, told)
           /\ call[c].now <= instant
           /\ call[c].notified => call[c].now \in told
           /\ ~muddled =>
                /\ \A d \in Callers \ {c} : call[d].stage = "idle"
                /\ Alone(call[c], row, last, told)
  <1>1. call[c] \in Calls /\ AlarmsTypes /\ MaxInstant \in Nat
    BY OperatorAssumption DEF AlarmsInv, AlarmsTypes
  <1>2. call[c].now \in A!Times /\ call[c].row \in A!Row
    BY <1>1 DEF Calls
  <1> QED
    BY <1>1, <1>2 DEF AlarmsInv

(* A call that ends has nothing more to claim.                             *)
LEMMA NoCallType ==
    ASSUME MaxInstant \in Nat
    PROVE  /\ A!NoCall \in Calls /\ A!NoCall.stage = "idle" /\ A!NoCall.notified = FALSE
           /\ A!NoCall.now = 0 /\ A!NoCall.row.notifiedAt = A!Never
           /\ A!NoRow \in A!Row /\ A!NoRow.notifiedAt = A!Never
  <1>1. A!NoRow \in A!Row /\ A!NoRow.notifiedAt = A!Never
    BY DEF A!NoRow, A!Row, A!Times
  <1> HIDE DEF A!NoRow
  <1> QED
    BY <1>1 DEF A!NoCall, Calls, A!Times, A!Stages

(* It claims nothing at any time.                                          *)
LEMMA NoCallClaims ==
    ASSUME AlarmsTypes
    PROVE  /\ A!NoCall \in Calls /\ A!NoCall.stage = "idle" /\ A!NoCall.notified = FALSE
           /\ A!NoCall.now <= instant /\ Honest(A!NoCall.row, told)
  <1>1. MaxInstant \in Nat /\ 0 <= instant
    BY OperatorAssumption DEF AlarmsTypes, A!Times
  <1> HIDE DEF A!NoCall
  <1> QED
    BY <1>1, NoCallType DEF Honest

(* The row is resolved, and the operator is still to hear it (Alarms.set). *)
LEMMA AlarmResolve ==
    ASSUME AlarmsInv, NEW c \in Callers, A!Resolve(c)
    PROVE  AlarmsInv'
  <1> DEFINE k == [call[c] EXCEPT !.stage = "report"]
             r == [row EXCEPT !.firing = FALSE, !.changedAt = call[c].now]
  <1>1. /\ call[c].stage = "resolve" /\ call' = [call EXCEPT ![c] = k] /\ row' = r
        /\ UNCHANGED <<instant, told, last, muddled>>
    BY DEF A!Resolve
  <1>2. /\ call[c] \in Calls /\ AlarmsTypes /\ call[c].now \in A!Times
        /\ \A t \in told : t <= instant
        /\ Honest(row, told) /\ Honest(call[c].row, told)
        /\ call[c].now <= instant
        /\ call[c].notified => call[c].now \in told
        /\ ~muddled => \A d \in Callers \ {c} : call[d].stage = "idle"
    BY <1>1, InProgress
  <1>3. /\ k \in Calls /\ k.row = call[c].row /\ k.now = call[c].now
        /\ k.notified = call[c].notified /\ k.stage = "report"
    BY <1>2 DEF Calls, A!Stages
  <1>4. r \in A!Row /\ r.notifiedAt = row.notifiedAt /\ r.firing = FALSE
    BY <1>2 DEF AlarmsTypes, A!Row
  <1> HIDE DEF k, r
  <1>5. Alone(k, r, last, told)
    BY <1>3, <1>4 DEF Alone
  <1>6. Honest(r, told)
    BY <1>2, <1>4 DEF Honest
  <1> QED
    BY <1>1, <1>2, <1>3, <1>4, <1>5, <1>6, CallStep DEF AlarmsTypes

(* RESOLVED is the last the operator heard of a row that does not fire, or *)
(* it got lost (Alarms.set).                                               *)
LEMMA AlarmReport ==
    ASSUME AlarmsInv, NEW c \in Callers, A!Report(c)
    PROVE  AlarmsInv'
  <1>1. /\ call[c].stage = "report" /\ call' = [call EXCEPT ![c] = A!NoCall]
        /\ (last' = "RESOLVED" /\ muddled' = muddled) \/ (muddled' = TRUE /\ last' = last)
        /\ UNCHANGED <<instant, row, told>>
    BY DEF A!Report
  <1>2. /\ AlarmsTypes /\ MaxInstant \in Nat /\ \A t \in told : t <= instant
        /\ Honest(row, told)
        /\ ~muddled =>
             /\ \A d \in Callers \ {c} : call[d].stage = "idle"
             /\ Alone(call[c], row, last, told)
    BY <1>1, InProgress
  <1>3. /\ A!NoCall \in Calls /\ A!NoCall.stage = "idle" /\ A!NoCall.notified = FALSE
        /\ A!NoCall.now <= instant /\ Honest(A!NoCall.row, told)
    BY <1>2, NoCallClaims
  <1>4. muddled' \in BOOLEAN /\ last' \in {"none", "FIRING", "RESOLVED"}
    BY <1>1, <1>2 DEF AlarmsTypes
  <1>5. ASSUME ~muddled'
        PROVE  /\ \A d \in Callers \ {c} : call[d].stage = "idle"
               /\ Alone(A!NoCall, row, last', told)
    <2>1. ~muddled /\ last' = "RESOLVED"
      BY <1>1, <1>5
    <2>2. ~row.firing
      BY <1>1, <1>2, <2>1 DEF Alone
    <2> QED
      BY <1>2, <1>3, <2>1, <2>2 DEF Alone, Settled
  <1> HIDE DEF A!NoCall
  <1> QED
    BY <1>1, <1>2, <1>3, <1>4, <1>5, CallStep DEF AlarmsTypes

(* A FIRING that is delivered is the last the operator heard, when its     *)
(* call began; one that is not changes nothing (Alarms.set).               *)
LEMMA AlarmNotify ==
    ASSUME AlarmsInv, NEW c \in Callers, A!Notify(c)
    PROVE  AlarmsInv'
  <1>1. PICK delivered \in BOOLEAN :
            /\ call' = [call EXCEPT ![c].stage = "write", ![c].notified = delivered]
            /\ told' = IF delivered THEN told \cup {call[c].now} ELSE told
            /\ last' = IF delivered THEN "FIRING" ELSE last
    BY DEF A!Notify
  <1> DEFINE k == [call[c] EXCEPT !.stage = "write", !.notified = delivered]
  <1>2. call[c].stage = "notify" /\ UNCHANGED <<instant, row, muddled>>
    BY DEF A!Notify
  <1>3. /\ call[c] \in Calls /\ AlarmsTypes /\ call[c].now \in A!Times
        /\ \A t \in told : t <= instant
        /\ Honest(row, told) /\ Honest(call[c].row, told)
        /\ call[c].now <= instant
        /\ ~muddled =>
             /\ \A d \in Callers \ {c} : call[d].stage = "idle"
             /\ Alone(call[c], row, last, told)
    BY <1>2, InProgress
  <1>4. call' = [call EXCEPT ![c] = k]
    BY <1>1, <1>3 DEF AlarmsTypes
  <1>5. /\ k \in Calls /\ k.row = call[c].row /\ k.now = call[c].now
        /\ k.notified = delivered /\ k.stage = "write"
    BY <1>3 DEF Calls, A!Stages
  <1>6. /\ told' \in SUBSET A!Times /\ told \subseteq told' /\ \A t \in told' : t <= instant
        /\ last' \in {"none", "FIRING", "RESOLVED"}
        /\ k.notified => k.now \in told'
    BY <1>1, <1>3, <1>5 DEF AlarmsTypes
  <1>7. Honest(row, told') /\ Honest(k.row, told')
    BY <1>3, <1>5, <1>6 DEF Honest
  <1> HIDE DEF k
  <1>8. ASSUME ~muddled
        PROVE  /\ \A d \in Callers \ {c} : call[d].stage = "idle"
               /\ Alone(k, row, last', told')
    <2>1. CASE delivered
      BY <1>1, <1>2, <1>3, <1>5, <1>8, <2>1 DEF Alone
    <2>2. CASE ~delivered
      BY <1>1, <1>2, <1>3, <1>5, <1>8, <2>2 DEF Alone
    <2> QED
      BY <2>1, <2>2
  <1> QED
    BY <1>2, <1>3, <1>4, <1>5, <1>6, <1>7, <1>8, CallStep DEF AlarmsTypes

(* What a call writes is what it read but for what it knows: that the      *)
(* operator heard FIRING from it, or heard nothing since (Alarms.set).     *)
LEMMA AlarmWrite ==
    ASSUME AlarmsInv, NEW c \in Callers, A!Write(c)
    PROVE  AlarmsInv'
  <1> DEFINE k == call[c]
             read == k.row
             r == [firing |-> TRUE,
                   changedAt |-> IF read.firing THEN read.changedAt ELSE k.now,
                   notifiedAt |-> IF k.notified THEN k.now ELSE read.notifiedAt]
  <1>1. /\ call[c].stage = "write" /\ call' = [call EXCEPT ![c] = A!NoCall] /\ row' = r
        /\ UNCHANGED <<instant, told, last, muddled>>
    BY DEF A!Write
  <1>2. /\ k \in Calls /\ AlarmsTypes /\ MaxInstant \in Nat
        /\ k.now \in A!Times /\ read \in A!Row
        /\ \A t \in told : t <= instant
        /\ Honest(read, told)
        /\ k.notified => k.now \in told
        /\ ~muddled =>
             /\ \A d \in Callers \ {c} : call[d].stage = "idle"
             /\ Alone(k, row, last, told)
    BY <1>1, InProgress
  <1>3. /\ A!NoCall \in Calls /\ A!NoCall.stage = "idle" /\ A!NoCall.notified = FALSE
        /\ A!NoCall.now <= instant /\ Honest(A!NoCall.row, told)
    BY <1>2, NoCallClaims
  <1>4. k.stage = "write"
    BY <1>1
  <1> HIDE DEF k, A!NoCall
  <1>5. r \in A!Row /\ r.firing = TRUE /\ Honest(r, told)
    <2>1. /\ r.firing = TRUE
          /\ r.notifiedAt = IF k.notified THEN k.now ELSE read.notifiedAt
      OBVIOUS
    <2>2. Honest(r, told)
      BY <1>2, <2>1 DEF Honest
    <2>3. r \in A!Row
      BY <1>2 DEF A!Row
    <2> QED
      BY <2>1, <2>2, <2>3
  <1>6. ASSUME ~muddled
        PROVE  Alone(A!NoCall, r, last, told)
    <2>1. Alone(k, row, last, told)
      BY <1>2, <1>6
    <2>2. row = read
      BY <1>4, <2>1 DEF Alone
    <2>3. Settled(r, last, told)
      <3>1. CASE k.notified
        BY <1>4, <2>1, <3>1 DEF Alone, Settled
      <3>2. CASE ~k.notified
        <4>1. Settled(row, last, told) /\ \A t \in told : t <= k.now
          BY <1>4, <2>1, <3>2 DEF Alone
        <4> QED
          BY <2>2, <4>1 DEF Settled
      <3> QED
        BY <3>1, <3>2
    <2> QED
      BY <1>3, <2>3 DEF Alone
  <1> HIDE DEF r
  <1> QED
    BY <1>1, <1>2, <1>3, <1>5, <1>6, CallStep DEF AlarmsTypes

(* A call that ends early muddles, and claims nothing (Alarms.set).        *)
LEMMA AlarmAbandon ==
    ASSUME AlarmsInv, NEW c \in Callers, A!Abandon(c)
    PROVE  AlarmsInv'
  <1>1. /\ call[c].stage # "idle" /\ call' = [call EXCEPT ![c] = A!NoCall] /\ muddled' = TRUE
        /\ UNCHANGED <<instant, row, told, last>>
    BY DEF A!Abandon
  <1>2. /\ AlarmsTypes /\ MaxInstant \in Nat /\ Honest(row, told)
        /\ \A t \in told : t <= instant
    BY <1>1, InProgress
  <1>3. /\ A!NoCall \in Calls /\ A!NoCall.notified = FALSE
        /\ A!NoCall.now <= instant /\ Honest(A!NoCall.row, told)
    BY <1>2, NoCallClaims
  <1> HIDE DEF A!NoCall
  <1> QED
    BY <1>1, <1>2, <1>3, CallStep DEF AlarmsTypes

(* Every step of an alarm keeps the invariant.                             *)
LEMMA AlarmsStep == AlarmsInv /\ A!Next => AlarmsInv'
  <1> SUFFICES ASSUME AlarmsInv, A!Next PROVE AlarmsInv'
    OBVIOUS
  <1>1. CASE A!Clock
    <2>1. /\ instant' = instant + 1 /\ instant' \in A!Times /\ instant \in Nat
          /\ MaxInstant \in Nat /\ UNCHANGED <<row, call, told, last, muddled>>
      BY <1>1, OperatorAssumption DEF A!Clock, AlarmsInv, AlarmsTypes, A!Times
    <2>2. \A t \in A!Times : t <= instant => t <= instant'
      BY <2>1 DEF A!Times
    <2>3. \A t \in told' : t <= instant'
      BY <2>1, <2>2 DEF AlarmsInv, AlarmsTypes
    <2>4. \A c \in Callers : call[c].now <= instant'
      BY <2>1, <2>2 DEF AlarmsInv, AlarmsTypes, Calls
    <2>5. AlarmsTypes'
      BY <2>1 DEF AlarmsInv, AlarmsTypes
    <2> QED
      BY <2>1, <2>3, <2>4, <2>5 DEF AlarmsInv
  <1>2. ASSUME NEW c \in Callers,
               \/ A!SetFiring(c) \/ A!SetResolved(c) \/ A!Resolve(c) \/ A!Report(c)
               \/ A!Notify(c) \/ A!Write(c) \/ A!Abandon(c)
        PROVE  AlarmsInv'
    <2>1. A!SetFiring(c) => A!Begin(c, "notify") \/ A!Begin(c, "write")
      BY DEF A!SetFiring
    <2>2. A!SetResolved(c) => A!Begin(c, "resolve")
      BY DEF A!SetResolved
    <2> QED
      BY <1>2, <2>1, <2>2, AlarmBegins, AlarmResolve, AlarmReport, AlarmNotify, AlarmWrite,
         AlarmAbandon
  <1> QED
    BY <1>1, <1>2 DEF A!Next

(* The invariant holds before the first call (schema.ts, table alarms).    *)
LEMMA AlarmsInit == Starts => AlarmsInv
  <1> SUFFICES ASSUME A!Init PROVE AlarmsInv
    BY DEF Starts
  <1>1. MaxInstant \in Nat
    BY OperatorAssumption
  <1>2. /\ A!NoCall \in Calls /\ A!NoCall.stage = "idle" /\ A!NoCall.notified = FALSE
        /\ A!NoCall.now = 0 /\ A!NoCall.row.notifiedAt = A!Never
        /\ A!NoRow \in A!Row /\ A!NoRow.notifiedAt = A!Never
    BY <1>1, NoCallType
  <1> HIDE DEF A!NoCall, A!NoRow
  <1>3. AlarmsTypes
    <2>1. 0 \in A!Times
      BY <1>1 DEF A!Times
    <2>2. call \in [Callers -> Calls] /\ told \in SUBSET A!Times
      BY <1>2 DEF A!Init
    <2> QED
      BY <1>2, <2>1, <2>2 DEF A!Init, AlarmsTypes
  <1>4. Settled(row, last, told) /\ Honest(row, told)
    BY <1>2 DEF A!Init, Settled, Honest
  <1> QED
    BY <1>2, <1>3, <1>4 DEF A!Init, AlarmsInv, Honest

(* The other loops leave the alarms alone (main.ts).                       *)
LEMMA AlarmsOthers == AlarmsInv /\ UNCHANGED alarms => AlarmsInv'
  BY DEF alarms, AlarmsInv, AlarmsTypes

(* The row of an alarm never claims a notification the operator did not    *)
(* get, for any number of callers; and while their calls neither overlap   *)
(* nor end early, the operator heard last what the row says (Alarms.set).  *)
THEOREM RowIsHonest == OperatorSpec => []OperatorKnows
  <1>1. AlarmsInv /\ [Steps]_every => AlarmsInv'
    BY AlarmsStep, AlarmsOthers DEF Steps, Others, every
  <1>2. AlarmsInv => OperatorKnows
    BY DEF AlarmsInv, OperatorKnows, A!OperatorKnows, Settled, Honest
  <1> QED
    BY <1>1, <1>2, AlarmsInit, PTL DEF OperatorSpec

-----------------------------------------------------------------------------
(***************************************************************************)
(* The processes, and the types of all the loops' variables.               *)
(***************************************************************************)

LeaderTypes ==
    /\ session \in Processes \cup {None}
    /\ role \in [Processes -> {"standby", "leader", "stopping", "over"}]

(* Leading, taking over and ending keep who leads typed (leader.ts).       *)
LEMMA ElectionStep ==
    ASSUME LeaderTypes,
           \/ I!Handover \/ N!Handover \/ B!Handover
           \/ \E p \in Processes :
                \/ I!Ends(p) \/ N!Ends(p) \/ B!Ends(p)
                \/ I!Release(p) \/ N!Release(p) \/ B!Release(p)
    PROVE  LeaderTypes'
  <1>1. CASE I!SessionEnds \/ N!SessionEnds \/ B!SessionEnds
    BY <1>1 DEF LeaderTypes, I!SessionEnds, N!SessionEnds, B!SessionEnds
  <1>2. ASSUME NEW p \in Processes, I!Acquire(p) \/ N!Acquire(p) \/ B!Acquire(p)
        PROVE  LeaderTypes'
    BY <1>2 DEF LeaderTypes, I!Acquire, N!Acquire, B!Acquire
  <1>3. ASSUME NEW p \in Processes, I!Shutdown(p) \/ N!Shutdown(p) \/ B!Shutdown(p)
        PROVE  LeaderTypes'
    BY <1>3 DEF LeaderTypes, I!Shutdown, N!Shutdown, B!Shutdown
  <1>4. ASSUME NEW p \in Processes, I!Release(p) \/ N!Release(p) \/ B!Release(p)
        PROVE  LeaderTypes'
    BY <1>4 DEF LeaderTypes, I!Release, N!Release, B!Release
  <1>5. ASSUME NEW p \in Processes, I!Ends(p) \/ N!Ends(p) \/ B!Ends(p)
        PROVE  LeaderTypes'
    BY <1>5 DEF LeaderTypes, I!Ends, N!Ends, B!Ends, I!ExitOnLoss, N!ExitOnLoss, B!ExitOnLoss,
       I!Crash, N!Crash, B!Crash
  <1> QED
    BY <1>1, <1>2, <1>3, <1>4, <1>5 DEF I!Handover, N!Handover, B!Handover

(* Every step of a loop leads, ends its process, or leaves both alone      *)
(* (main.ts).                                                              *)
LEMMA LeaderStep == LeaderTypes /\ [Steps]_every => LeaderTypes'
  <1>1. LeaderTypes /\ UNCHANGED <<session, role>> => LeaderTypes'
    BY DEF LeaderTypes
  <1>2. LeaderTypes /\ I!Next => LeaderTypes'
    BY <1>1, ElectionStep DEF I!Next, I!Lead, I!Finalize, I!Poll, I!SignaturesSince, I!Store,
       I!Fail, I!EndProcess, I!leadership
  <1>3. LeaderTypes /\ N!Next => LeaderTypes'
    BY <1>1, ElectionStep DEF N!Next, N!Lead, N!Happen, N!Age, N!Index, N!Link, N!Unlink,
       N!Change, N!Tick, N!Claim, N!Accept, N!Refuse, N!SendFails, N!Revoke, N!Unclaim, N!Fail,
       N!EndProcess, N!leadership
  <1>4. LeaderTypes /\ B!Next => LeaderTypes'
    BY <1>1, ElectionStep DEF B!Next, B!Lead, B!Write, B!Expire, B!GetUpdates, B!Answer,
       B!Fail, B!EndProcess, B!leadership
  <1> QED
    BY <1>1, <1>2, <1>3, <1>4 DEF Steps, Others, every

(* The watcher's invariant holds beside the other loops, which leave it    *)
(* alone (main.ts).                                                        *)
LEMMA WatcherAlways == OperatorSpec => []Inv
  <1>1. UNCHANGED watcher => UNCHANGED vars
    BY DEF watcher, vars, program, memory
  <1>2. Inv /\ [Steps]_every => Inv'
    BY <1>1, NextInv DEF Steps, every
  <1>3. Starts => Inv
    BY InitInv DEF Starts
  <1> QED
    BY <1>2, <1>3, PTL DEF OperatorSpec

(* The state of the watcher, the indexer, the notices, the bot, the alarms *)
(* and who leads keep their types in every behaviour (main.ts).            *)
THEOREM OperatorTypes == OperatorSpec => []TypesOK
  <1> DEFINE Types == LeaderTypes /\ IndexerInv /\ AlarmsInv
  <1>1. Starts => Types
    BY IndexerInit, AlarmsInit DEF Starts, LeaderTypes, I!Init, I!LeaderInit
  <1>2. Types /\ [Steps]_every => Types'
    BY LeaderStep, IndexerStep, IndexerOthers, AlarmsStep, AlarmsOthers DEF Steps, Others, every
  <1>3. Types /\ Inv /\ NoticesInv /\ BotInv => TypesOK
    <2> SUFFICES ASSUME Types, Inv, NoticesInv, BotInv PROVE TypesOK
      OBVIOUS
    <2>1. I!IndexerTypeOK
      BY DEF IndexerInv, LeaderTypes, I!IndexerTypeOK, I!LeaderTypeOK, I!Histories, Polls
    <2>2. N!NoticesTypeOK
      BY DEF NoticesInv, NoticesTypes, LeaderTypes, N!NoticesTypeOK, N!LeaderTypeOK, Rounds, Links
    <2>3. B!BotTypeOK
      BY DEF BotInv, BotTypes, LeaderTypes, B!BotTypeOK, B!LeaderTypeOK, Batches
    <2>4. A!AlarmsTypeOK
      BY DEF AlarmsInv, AlarmsTypes, A!AlarmsTypeOK, Calls
    <2> QED
      BY <2>1, <2>2, <2>3, <2>4, InvImplies DEF TypesOK
  <1> QED
    BY <1>1, <1>2, <1>3, WatcherAlways, NoticesAlways, BotAlways, PTL DEF OperatorSpec
=============================================================================
