---------------------------- MODULE WatcherProofs ----------------------------
(***************************************************************************)
(* The watcher's safety, proved for any accounts, numbers of transfers,    *)
(* times to live, finality and crashes: the cursor never passes a transfer *)
(* that still counts, but for those later than the tick's clock.           *)
(***************************************************************************)
EXTENDS WatcherProperties, TLAPS

\* Transfer i of a is attested, can never count, or was later than the clock.
Done(a, i) == record[a][i] # "none" \/ ~Countable(a, i) \/ <<a, i>> \in ahead

\* The program's state and what the indexer and history know of it.
ProgramOK ==
    /\ now \in Times
    /\ named \in BOOLEAN
    /\ user \in [Accounts -> Users]
    /\ transfer \in [Accounts -> Seq(Times)]
    /\ finalized \in [Accounts -> 0..MaxTransfers]
    /\ record \in [Accounts -> [Transfers -> RecordStates]]
    /\ stray \subseteq Accounts \X Transfers
    /\ ahead \subseteq Accounts \X Transfers
    /\ crashes \in 0..MaxCrashes
    /\ \A a \in Accounts :
        /\ user[a].attestable_from <= now
        /\ finalized[a] <= Len(transfer[a]) /\ Len(transfer[a]) <= MaxTransfers
        /\ \A i \in 1..finalized[a] : transfer[a][i] < now

\* What the process read of the clock and the users is not ahead of them.
MemoryOK ==
    /\ known \in [Accounts -> Users]
    /\ watched \subseteq Accounts
    /\ dirty \subseteq Accounts
    /\ tick \in Ticks
    /\ tick.now <= now
    /\ \A a \in Accounts : known[a].attestable_from <= user[a].attestable_from

\* What a scan has handled is done with, what it does not fetch is too old or
\* before what counts, and it waits for an answer only about what it read.
ScanOK(a) ==
    /\ scan[a] \in Scans
    /\ scan[a].handled <= scan[a].upto
    /\ scan[a].upto <= finalized[a]
    /\ scan[a].stage = "sent" => scan[a].handled < scan[a].upto
    /\ \/ scan[a].floor <= user[a].attestable_from
       \/ scan[a].floor <= now - ATTESTATION_TTL_SECONDS
    /\ \A i \in 1..scan[a].handled : Done(a, i)

\* What the cursor is past of is done with.
CursorOK(a) ==
    /\ cursor[a] \in 0..MaxTransfers
    /\ cursor[a] <= finalized[a]
    /\ \A i \in 1..cursor[a] : Done(a, i)

Inv ==
    /\ ProgramOK
    /\ MemoryOK
    /\ scan \in [Accounts -> Scans]
    /\ cursor \in [Accounts -> 0..MaxTransfers]
    /\ \A a \in Accounts : ScanOK(a) /\ CursorOK(a)

(* The invariant says what the runs check (watchCursors).                  *)
LEMMA InvImplies == Inv => TypeOK /\ PassedOnlyWhenDone
  BY DEF Inv, ProgramOK, MemoryOK, ScanOK, CursorOK, Done, TypeOK, PassedOnlyWhenDone

-----------------------------------------------------------------------------
(***************************************************************************)
(* How the world moves in any step: the clock, the finalized transfers and *)
(* the records only go forward, and what makes transfers count again does  *)
(* so from now on.                                                         *)
(***************************************************************************)
MovesOn ==
    /\ now <= now'
    /\ ahead \subseteq ahead'
    /\ \A a \in Accounts :
        /\ \/ user'[a] = user[a]
           \/ ~user'[a].active /\ user'[a].attestable_from = user[a].attestable_from
           \/ user'[a].attestable_from = now
        /\ finalized[a] <= finalized'[a]
        /\ \A i \in 1..finalized[a] : transfer'[a][i] = transfer[a][i]
        /\ \A i \in Transfers : record[a][i] # "none" => record'[a][i] # "none"

(* A finalized transfer is one of the bounded number there are.            *)
LEMMA FinalizedFacts ==
    ASSUME ProgramOK, NEW a \in Accounts, NEW i \in 1..finalized[a]
    PROVE  /\ i \in Transfers /\ i <= Len(transfer[a])
           /\ transfer[a][i] \in Nat /\ transfer[a][i] < now
  <1>1. /\ finalized[a] \in 0..MaxTransfers /\ finalized[a] <= Len(transfer[a])
        /\ transfer[a] \in Seq(Times)
    BY DEF ProgramOK
  <1>2. i \in 1..Len(transfer[a]) BY <1>1
  <1> QED BY <1>1, <1>2, WatcherAssumption DEF ProgramOK, Transfers, Times

(* What is done with stays done with: no change of the user makes an       *)
(* earlier transfer count again (attestable_from).                         *)
LEMMA DoneStays ==
    ASSUME ProgramOK, ProgramOK', MovesOn,
           NEW a \in Accounts, NEW i \in 1..finalized[a], Done(a, i)
    PROVE  Done(a, i)'
  <1> DEFINE time == transfer[a][i]
  <1>1. /\ i \in Transfers /\ i <= Len(transfer[a])
        /\ time \in Nat /\ time < now /\ transfer'[a][i] = time
    BY FinalizedFacts DEF MovesOn
  <1>2. /\ now \in Nat /\ now' \in Nat /\ now <= now'
        /\ user[a] \in Users /\ user'[a] \in Users /\ user[a].attestable_from <= now
    BY DEF ProgramOK, MovesOn, Times
  <1> HIDE DEF time
  <1>3. CASE record[a][i] # "none" BY <1>1, <1>3 DEF Done, MovesOn
  <1>4. CASE <<a, i>> \in ahead BY <1>4 DEF Done, MovesOn
  <1>5. CASE ~Countable(a, i)
    <2>1. Refused(user[a], time, now) BY <1>1, <1>5 DEF Countable, time
    <2>2. /\ user[a].attestable_from \in Nat /\ user'[a].attestable_from \in Nat
          /\ ATTESTATION_TTL_SECONDS \in Nat
      BY <1>2, WatcherAssumption DEF Users, Times
    <2>3. \/ user'[a] = user[a] \/ ~user'[a].active \/ user'[a].attestable_from = now
      BY DEF MovesOn
    <2>4. Refused(user'[a], time, now')
      <3>1. CASE user'[a] = user[a]
        BY <2>1, <2>2, <3>1, <1>1, <1>2 DEF Refused, Inactive, Invalid, Expired
      <3>2. CASE ~user'[a].active BY <3>2 DEF Refused, Inactive
      <3>3. CASE user'[a].attestable_from = now
        BY <3>3, <2>2, <1>1, <1>2 DEF Refused, Invalid
      <3> QED BY <2>3, <3>1, <3>2, <3>3
    <2>5. Refused(user[a], transfer[a][i], now)' BY <2>4, <1>1
    <2> QED BY <2>5 DEF Done, Countable
  <1> QED BY <1>3, <1>4, <1>5 DEF Done

(* A user's transfers never count from an earlier time on, and the clock   *)
(* does not go back.                                                       *)
LEMMA Later ==
    ASSUME ProgramOK, ProgramOK', MovesOn, NEW a \in Accounts
    PROVE  /\ user[a].attestable_from <= user'[a].attestable_from
           /\ user[a].attestable_from \in Nat /\ user'[a].attestable_from \in Nat
           /\ now \in Nat /\ now' \in Nat /\ now <= now'
           /\ finalized[a] \in Nat /\ finalized'[a] \in Nat
           /\ finalized[a] <= finalized'[a]
  <1>1. /\ user[a] \in Users /\ user'[a] \in Users
        /\ finalized[a] \in 0..MaxTransfers /\ finalized'[a] \in 0..MaxTransfers
        /\ now \in Nat /\ now' \in Nat
        /\ user[a].attestable_from <= now
    BY DEF ProgramOK, Times
  <1>2. user[a].attestable_from \in Nat /\ user'[a].attestable_from \in Nat
    BY <1>1 DEF Users, Times
  <1>3. user[a].attestable_from <= user'[a].attestable_from
    BY <1>1, <1>2 DEF MovesOn
  <1> QED BY <1>1, <1>2, <1>3, WatcherAssumption DEF MovesOn

(* A cursor that stays where it was is right after the step.               *)
LEMMA CursorStays ==
    ASSUME Inv, ProgramOK', MovesOn, NEW a \in Accounts, cursor'[a] = cursor[a]
    PROVE  CursorOK(a)'
  <1>1. ProgramOK /\ CursorOK(a) /\ cursor[a] \in Nat
    BY WatcherAssumption DEF Inv, CursorOK
  <1>2. \A i \in 1..cursor[a] : i \in 1..finalized[a] /\ Done(a, i)
    BY <1>1, Later DEF CursorOK
  <1>3. \A i \in 1..cursor[a] : Done(a, i)' BY <1>1, <1>2, DoneStays
  <1> QED BY <1>1, <1>3, Later DEF CursorOK

(* A scan that reads nothing in the step is right after it.                *)
LEMMA ScanStays ==
    ASSUME Inv, ProgramOK', MovesOn, NEW a \in Accounts, scan'[a] = scan[a]
    PROVE  ScanOK(a)'
  <1>1. ProgramOK /\ ScanOK(a) BY DEF Inv
  <1>2. /\ scan[a] \in Scans /\ scan[a].handled \in Nat /\ scan[a].upto \in Nat
        /\ scan[a].floor \in Int /\ ATTESTATION_TTL_SECONDS \in Nat
    BY <1>1, WatcherAssumption DEF ScanOK, Scans
  <1>3. \A i \in 1..scan[a].handled : i \in 1..finalized[a] /\ Done(a, i)
    BY <1>1, <1>2, Later DEF ScanOK
  <1>4. \A i \in 1..scan[a].handled : Done(a, i)' BY <1>1, <1>3, DoneStays
  <1>5. \/ scan[a].floor <= user'[a].attestable_from
        \/ scan[a].floor <= now' - ATTESTATION_TTL_SECONDS
    BY <1>1, <1>2, Later DEF ScanOK
  <1> QED BY <1>1, <1>2, <1>4, <1>5, Later DEF ScanOK

(* An account that is not read has nothing to answer for.                  *)
LEMMA NoScanIsRight ==
    ASSUME ProgramOK', NEW a \in Accounts, scan'[a] = NoScan
    PROVE  ScanOK(a)' /\ NoScan \in Scans
  <1>1. /\ NoScan \in Scans /\ NoScan.handled = 0 /\ NoScan.upto = 0 /\ NoScan.floor = 0
        /\ NoScan.stage = "none"
    BY WatcherAssumption DEF NoScan, Scans
  <1>2. finalized'[a] \in Nat /\ user'[a].attestable_from \in Nat
    BY WatcherAssumption DEF ProgramOK, Users, Times
  <1> QED BY <1>1, <1>2 DEF ScanOK

-----------------------------------------------------------------------------
(* What the process remembers stays right when it reads some users again.  *)
LEMMA MemoryStays ==
    ASSUME Inv, ProgramOK', MovesOn,
           known' \in [Accounts -> Users],
           \A a \in Accounts : known'[a] = known[a] \/ known'[a] = user[a],
           watched' \subseteq Accounts, dirty' \subseteq Accounts,
           tick' \in Ticks, tick'.now = tick.now
    PROVE  MemoryOK'
  <1>1. ProgramOK /\ MemoryOK BY DEF Inv
  <1>2. tick.now \in Nat /\ tick.now <= now BY <1>1 DEF MemoryOK, Ticks, Times
  <1>3. tick.now <= now' BY <1>1, <1>2 DEF ProgramOK, MovesOn, Times
  <1>4. ASSUME NEW b \in Accounts
        PROVE  known'[b].attestable_from <= user'[b].attestable_from
    <2>1. known[b].attestable_from \in Nat /\ user[b].attestable_from \in Nat
      BY <1>1 DEF ProgramOK, MemoryOK, Users, Times
    <2> QED BY <1>1, <2>1, Later DEF MemoryOK
  <1> QED BY <1>3, <1>4 DEF MemoryOK

(* The world's steps change nothing the process remembers or stored.       *)
LEMMA WorldKeeps ==
    ASSUME Inv, ProgramOK', MovesOn,
           UNCHANGED <<cursor, known, watched, dirty, tick, scan>>
    PROVE  Inv'
  <1>1. \A a \in Accounts : ScanOK(a)' /\ CursorOK(a)' BY ScanStays, CursorStays
  <1>2. MemoryOK' BY MemoryStays DEF Inv, MemoryOK
  <1> QED BY <1>1, <1>2 DEF Inv

(* A tick's own steps read the users and the clock, and scan nothing.      *)
LEMMA TickKeeps ==
    ASSUME Inv,
           \/ Reload \/ Refresh \/ EndEarly \/ FailTick \/ StartScans \/ EndTick
           \/ \E a \in Accounts : Notify(a)
    PROVE  Inv'
  <1>1. UNCHANGED <<program, cursor, scan, ahead, crashes>>
    BY DEF Reload, Refresh, EndEarly, FailTick, StartScans, EndTick, Notify
  <1>2. ProgramOK' /\ MovesOn
    BY <1>1 DEF program, Inv, ProgramOK, MovesOn, Users, Times
  <1>3. \A a \in Accounts : ScanOK(a)' /\ CursorOK(a)' BY <1>1, <1>2, ScanStays, CursorStays
  <1>4. MemoryOK'
    <2>1. ProgramOK /\ MemoryOK BY DEF Inv
    <2>2. now' = now /\ user' = user BY <1>1 DEF program
    <2>3. user \in [Accounts -> Users] /\ now \in Times BY <2>1 DEF ProgramOK
    <2>4. \A a \in Accounts : user[a].attestable_from \in Nat BY <2>3 DEF Users, Times
    <2>5. CASE Reload
      <3>1. tick' \in Ticks /\ tick'.now = tick.now BY <2>1, <2>5 DEF Reload, MemoryOK, Ticks
      <3> QED BY <2>1, <2>2, <2>3, <2>4, <2>5, <3>1 DEF Reload, MemoryOK, Follows
    <2>6. CASE Refresh
      <3>1. tick' \in Ticks /\ tick'.now = tick.now BY <2>1, <2>6 DEF Refresh, MemoryOK, Ticks
      <3>2. CASE UNCHANGED memory BY <2>1, <2>2, <3>1, <3>2 DEF MemoryOK, memory
      <3>3. CASE ~UNCHANGED memory
        <4>1. PICK changed \in SUBSET Accounts :
                LET users == [a \in Accounts |-> IF a \in changed THEN user[a] ELSE known[a]]
                IN  /\ known' = users
                    /\ watched' = Follows(users)
                    /\ dirty' = dirty \union (Follows(users) \ watched)
          BY <2>6, <3>3 DEF Refresh
        <4>2. /\ known' = [a \in Accounts |-> IF a \in changed THEN user[a] ELSE known[a]]
              /\ watched' \subseteq Accounts /\ dirty' \subseteq Accounts
          BY <2>1, <4>1 DEF Follows, MemoryOK
        <4>3. /\ known' \in [Accounts -> Users]
              /\ \A a \in Accounts : known'[a].attestable_from <= user[a].attestable_from
          BY <2>1, <2>3, <2>4, <4>2 DEF MemoryOK
        <4> QED BY <2>1, <2>2, <3>1, <4>2, <4>3 DEF MemoryOK
      <3> QED BY <3>2, <3>3
    <2>7. CASE EndEarly \/ FailTick
      <3>1. tick' \in Ticks /\ tick'.now = tick.now
        BY <2>1, <2>7 DEF EndEarly, FailTick, MemoryOK, Ticks
      <3> QED BY <2>1, <2>2, <2>7, <3>1 DEF EndEarly, FailTick, MemoryOK, memory
    <2>8. CASE StartScans
      <3>1. tick' \in Ticks /\ tick'.now = now BY <2>1, <2>3, <2>8 DEF StartScans, MemoryOK, Ticks
      <3>2. now <= now BY <2>3 DEF Times
      <3> QED BY <2>1, <2>2, <2>8, <3>1, <3>2 DEF StartScans, MemoryOK
    <2>9. CASE EndTick
      <3>1. tick' \in Ticks /\ tick'.now = 0
        <4>1. 0 \in Times BY WatcherAssumption DEF Times
        <4> QED BY <2>1, <2>9, <4>1 DEF EndTick, MemoryOK, Ticks
      <3>2. 0 <= now BY <2>3 DEF Times
      <3> QED BY <2>1, <2>2, <2>9, <3>1, <3>2 DEF EndTick, MemoryOK, memory
    <2>10. CASE \E a \in Accounts : Notify(a)
      BY <2>1, <2>2, <2>10 DEF Notify, MemoryOK
    <2> QED BY <2>5, <2>6, <2>7, <2>8, <2>9, <2>10
  <1> QED BY <1>1, <1>2, <1>3, <1>4 DEF Inv

-----------------------------------------------------------------------------
(***************************************************************************)
(* The steps of a scan.                                                    *)
(***************************************************************************)

(* A finalized transfer the program would refuse now is done with.         *)
LEMMA RefusedIsDone ==
    ASSUME ProgramOK, NEW a \in Accounts, NEW i \in 1..finalized[a],
           Refused(user[a], transfer[a][i], now)
    PROVE  Done(a, i)
  BY FinalizedFacts DEF Done, Countable

(* The transfer at hand is one the scan may read.                          *)
LEMMA AtFacts ==
    ASSUME Inv, NEW a \in Accounts, Reads(a) \/ scan[a].stage = "sent"
    PROVE  At(a) \in 1..finalized[a] /\ At(a) \in Transfers /\ At(a) <= scan[a].upto
  <1>1. ProgramOK /\ ScanOK(a) BY DEF Inv
  <1>2. /\ scan[a].handled \in Nat /\ scan[a].upto \in Nat
        /\ finalized[a] \in 0..MaxTransfers /\ scan[a].upto <= finalized[a]
    BY <1>1 DEF ScanOK, Scans, ProgramOK
  <1>3. At(a) <= scan[a].upto BY <1>1, <1>2 DEF Reads, At, ScanOK
  <1> QED BY <1>2, <1>3, WatcherAssumption DEF At, Transfers

(* A step that leaves the program alone moves nothing back.                *)
LEMMA NothingMoves ==
    ASSUME Inv, UNCHANGED <<now, named, user, transfer, finalized, record, crashes>>,
           stray' \subseteq Accounts \X Transfers,
           ahead' \subseteq Accounts \X Transfers, ahead \subseteq ahead'
    PROVE  ProgramOK' /\ MovesOn
  <1>1. ProgramOK BY DEF Inv
  <1>2. now <= now /\ \A a \in Accounts : finalized[a] <= finalized[a]
    BY <1>1, WatcherAssumption DEF ProgramOK, Times
  <1> QED BY <1>1, <1>2 DEF ProgramOK, MovesOn

(* Nor does one that opens or closes a record.                             *)
LEMMA RecordMoves ==
    ASSUME Inv, UNCHANGED <<now, named, user, transfer, finalized, ahead, crashes>>,
           NEW a \in Accounts, NEW i \in Transfers, NEW r \in {"open", "closed"},
           record' = [record EXCEPT ![a][i] = r], stray' \subseteq stray
    PROVE  ProgramOK' /\ MovesOn
  <1>1. ProgramOK BY DEF Inv
  <1>2. now <= now /\ \A b \in Accounts : finalized[b] <= finalized[b]
    BY <1>1, WatcherAssumption DEF ProgramOK, Times
  <1>3. /\ record' \in [Accounts -> [Transfers -> RecordStates]]
        /\ \A b \in Accounts, j \in Transfers : record[b][j] # "none" => record'[b][j] # "none"
    BY <1>1 DEF ProgramOK, RecordStates
  <1> QED BY <1>1, <1>2, <1>3 DEF ProgramOK, MovesOn

(* The transfer at hand may be counted as handled once it is done with.    *)
LEMMA HandledKeeps ==
    ASSUME Inv, ProgramOK', MovesOn, MemoryOK', UNCHANGED cursor,
           NEW a \in Accounts, Reads(a) \/ scan[a].stage = "sent", Handled(a),
           NEW i, i = At(a), Done(a, i)'
    PROVE  Inv'
  <1>1. ProgramOK /\ ScanOK(a) /\ scan \in [Accounts -> Scans] BY DEF Inv
  <1>2. /\ scan[a].handled \in Nat /\ scan[a].upto \in 0..MaxTransfers
        /\ scan[a].floor \in Int /\ finalized[a] \in 0..MaxTransfers
        /\ scan[a].upto <= finalized[a]
    BY <1>1 DEF ScanOK, Scans, ProgramOK
  <1>3. i = scan[a].handled + 1 /\ i <= scan[a].upto /\ i \in 0..MaxTransfers
    BY AtFacts, <1>2, WatcherAssumption DEF At
  <1>4. /\ scan' \in [Accounts -> Scans]
        /\ scan'[a].stage = "reading" /\ scan'[a].upto = scan[a].upto
        /\ scan'[a].handled = i /\ scan'[a].floor = scan[a].floor
        /\ \A b \in Accounts \ {a} : scan'[b] = scan[b]
    BY <1>1, <1>3 DEF Handled, Scans
  <1>5. \A j \in 1..i : Done(a, j)'
    <2>1. \A j \in 1..scan[a].handled : j \in 1..finalized[a] /\ Done(a, j)
      BY <1>1, <1>2 DEF ScanOK
    <2>2. \A j \in 1..scan[a].handled : Done(a, j)' BY <1>1, <2>1, DoneStays
    <2>3. \A j \in 1..i : j = i \/ j \in 1..scan[a].handled BY <1>2, <1>3
    <2> QED BY <2>2, <2>3
  <1>6. ScanOK(a)'
    <2>1. \/ scan[a].floor <= user'[a].attestable_from
          \/ scan[a].floor <= now' - ATTESTATION_TTL_SECONDS
      BY <1>1, <1>2, Later, WatcherAssumption DEF ScanOK
    <2>2. scan[a].upto <= finalized'[a] BY <1>1, <1>2, Later
    <2>3. scan'[a] \in Scans BY <1>4
    <2> QED BY <1>3, <1>4, <1>5, <2>1, <2>2, <2>3 DEF ScanOK
  <1>7. \A b \in Accounts \ {a} : ScanOK(b)' BY <1>4, ScanStays
  <1>8. \A b \in Accounts : CursorOK(b)' BY CursorStays
  <1> QED BY <1>4, <1>6, <1>7, <1>8 DEF Inv

(* The steps that are done with a transfer without sending anything: it is *)
(* too old, the user's account refuses it, or its record is there.         *)
LEMMA RuledOutKeeps ==
    ASSUME Inv, NEW a \in Accounts,
           \/ Skip(a) \/ Refuse(a) \/ AlreadyAttested(a)
           \/ Counted(a) \/ RefusedByProgram(a)
    PROVE  Inv'
  <1>0. PICK i : i = At(a) OBVIOUS
  <1>1. ProgramOK /\ MemoryOK /\ ScanOK(a) BY DEF Inv
  <1>2. /\ UNCHANGED <<program, cursor, watched, dirty, tick, crashes>>
        /\ Handled(a) /\ (Reads(a) \/ scan[a].stage = "sent")
        /\ known' = known \/ known' = [known EXCEPT ![a] = user[a]]
        /\ ahead' = ahead \/ ahead' = ahead \union {<<a, i>>}
    BY <1>0 DEF Skip, Refuse, AlreadyAttested, Counted, RefusedByProgram, memory
  <1>3. i \in 1..finalized[a] /\ i \in Transfers BY <1>0, <1>2, AtFacts
  <1>4. ProgramOK' /\ MovesOn
    BY <1>1, <1>2, <1>3, NothingMoves DEF program, ProgramOK
  <1>5. MemoryOK'
    BY <1>1, <1>2, <1>4, MemoryStays DEF MemoryOK, ProgramOK, Ticks
  <1>6. transfer[a][i] \in Nat /\ transfer[a][i] < now /\ now \in Nat
    BY <1>1, <1>3, FinalizedFacts DEF ProgramOK, Times
  <1>7. Done(a, i) \/ <<a, i>> \in ahead'
    <2>1. user[a].attestable_from \in Nat /\ ATTESTATION_TTL_SECONDS \in Nat
      BY <1>1, WatcherAssumption DEF ProgramOK, Users, Times
    <2>2. tick.now \in Nat /\ tick.now <= now BY <1>1 DEF MemoryOK, Ticks, Times
    <2>3. CASE Skip(a)
      <3>1. transfer[a][i] < scan[a].floor /\ scan[a].floor \in Int
        BY <1>0, <1>1, <2>3 DEF Skip, Time, ScanOK, Scans
      <3>2. Refused(user[a], transfer[a][i], now)
        BY <1>1, <1>6, <2>1, <3>1 DEF ScanOK, Refused, Invalid, Expired
      <3> QED BY <1>1, <1>3, <3>2, RefusedIsDone
    <2>4. CASE Refuse(a)
      <3>1. Refused(user[a], transfer[a][i], tick.now) BY <1>0, <2>4 DEF Refuse, Time
      <3>2. CASE transfer[a][i] > tick.now BY <1>0, <2>4, <3>2 DEF Refuse, Time
      <3>3. CASE ~(transfer[a][i] > tick.now)
        <4>1. Refused(user[a], transfer[a][i], now)
          BY <1>6, <2>1, <2>2, <3>1, <3>3 DEF Refused, Inactive, Invalid, Expired
        <4> QED BY <1>1, <1>3, <4>1, RefusedIsDone
      <3> QED BY <3>2, <3>3
    <2>5. CASE AlreadyAttested(a) BY <1>0, <2>5 DEF AlreadyAttested, Done
    <2>6. CASE Counted(a) BY <1>0, <2>6 DEF Counted, Done
    <2>7. CASE RefusedByProgram(a)
      <3>1. Refused(user[a], transfer[a][i], now) BY <1>0, <2>7 DEF RefusedByProgram, Time
      <3> QED BY <1>1, <1>3, <3>1, RefusedIsDone
    <2> QED BY <2>3, <2>4, <2>5, <2>6, <2>7
  <1>8. Done(a, i)' BY <1>1, <1>3, <1>4, <1>7, DoneStays DEF Done
  <1> QED BY <1>0, <1>2, <1>4, <1>5, <1>8, HandledKeeps

(* An attestation that lands leaves its record.                            *)
LEMMA LandKeeps == ASSUME Inv, NEW a \in Accounts, Land(a) PROVE Inv'
  <1>0. PICK i : i = At(a) OBVIOUS
  <1>1. ProgramOK /\ MemoryOK BY DEF Inv
  <1>2. /\ scan[a].stage = "sent" /\ Handled(a)
        /\ record' = [record EXCEPT ![a][i] = "open"] /\ stray' = stray \ {<<a, i>>}
        /\ UNCHANGED <<now, named, user, transfer, finalized, cursor, known, watched,
                       dirty, tick, ahead, crashes>>
    BY <1>0 DEF Land, Attested, memory
  <1>3. i \in Transfers BY <1>0, <1>2, AtFacts
  <1>4. ProgramOK' /\ MovesOn BY <1>2, <1>3, RecordMoves
  <1>5. MemoryOK' BY <1>1, <1>2, <1>4, MemoryStays DEF MemoryOK
  <1>6. record'[a][i] = "open" BY <1>1, <1>2, <1>3 DEF ProgramOK
  <1>7. Done(a, i)' BY <1>6 DEF Done
  <1> QED BY <1>0, <1>2, <1>4, <1>5, <1>7, HandledKeeps

(* Sending changes nothing but what the scan waits for.                    *)
LEMMA SendKeeps == ASSUME Inv, NEW a \in Accounts, Send(a) PROVE Inv'
  <1>1. ProgramOK /\ MemoryOK /\ ScanOK(a) /\ scan \in [Accounts -> Scans] BY DEF Inv
  <1>2. /\ UNCHANGED <<program, cursor, watched, dirty, tick, ahead, crashes>>
        /\ Reads(a) /\ known' = [known EXCEPT ![a] = user[a]]
        /\ scan' = [scan EXCEPT ![a].stage = "sent"]
    BY DEF Send
  <1>3. ProgramOK' /\ MovesOn BY <1>1, <1>2, NothingMoves DEF program, ProgramOK
  <1>4. MemoryOK' BY <1>1, <1>2, <1>3, MemoryStays DEF MemoryOK, ProgramOK
  <1>5. /\ scan' \in [Accounts -> Scans]
        /\ scan'[a].stage = "sent" /\ scan'[a].upto = scan[a].upto
        /\ scan'[a].handled = scan[a].handled /\ scan'[a].floor = scan[a].floor
        /\ \A b \in Accounts \ {a} : scan'[b] = scan[b]
    BY <1>1, <1>2 DEF Scans
  <1>6. ScanOK(a)'
    <2>1. scan[a].handled \in Nat /\ scan[a].upto \in Nat BY <1>1 DEF ScanOK, Scans
    <2>2. scan[a].handled < scan[a].upto BY <1>2, <2>1 DEF Reads, At
    <2>3. UNCHANGED <<now, user, transfer, finalized, record, ahead>> BY <1>2 DEF program
    <2>4. scan'[a] \in Scans BY <1>5
    <2>5. \A i \in 1..scan[a].handled : Done(a, i)' BY <1>1, <2>3 DEF ScanOK, Done, Countable
    <2> QED BY <1>1, <1>5, <2>2, <2>3, <2>4, <2>5 DEF ScanOK
  <1>7. \A b \in Accounts \ {a} : ScanOK(b)' BY <1>3, <1>5, ScanStays
  <1>8. \A b \in Accounts : CursorOK(b)' BY <1>2, <1>3, CursorStays
  <1> QED BY <1>2, <1>3, <1>4, <1>5, <1>6, <1>7, <1>8 DEF Inv

(* A scan starts where the cursor is, and fetches nothing that is too old  *)
(* or from before the user's transfers count.                              *)
LEMMA StartScanKeeps == ASSUME Inv, NEW a \in Accounts, StartScan(a) PROVE Inv'
  <1>1. ProgramOK /\ MemoryOK /\ CursorOK(a) /\ scan \in [Accounts -> Scans] BY DEF Inv
  <1>2. UNCHANGED <<program, cursor, memory, ahead, crashes>> BY DEF StartScan
  <1>3. ProgramOK' /\ MovesOn BY <1>1, <1>2, NothingMoves DEF program, ProgramOK
  <1>4. MemoryOK'
    <2>1. tick' \in Ticks /\ tick'.now = tick.now BY <1>1 DEF StartScan, MemoryOK, Ticks
    <2> QED BY <1>1, <1>2, <1>3, <2>1, MemoryStays DEF MemoryOK, memory
  <1>5. \A b \in Accounts : CursorOK(b)' BY <1>2, <1>3, CursorStays
  <1>6. CASE scan' = scan
    BY <1>2, <1>3, <1>4, <1>5, <1>6, ScanStays DEF Inv
  <1>7. CASE scan' # scan
    <2>1. scan' = [scan EXCEPT ![a] = [stage |-> "reading", upto |-> finalized[a],
                                      handled |-> cursor[a], floor |-> Floor(a)]]
      BY <1>7 DEF StartScan
    <2>2. /\ tick.now \in Nat /\ tick.now <= now /\ now \in Nat
          /\ known[a].attestable_from \in Nat /\ user[a].attestable_from \in Nat
          /\ known[a].attestable_from <= user[a].attestable_from
          /\ ATTESTATION_TTL_SECONDS \in Nat
      BY <1>1, WatcherAssumption DEF ProgramOK, MemoryOK, Ticks, Users, Times
    <2>3. /\ Floor(a) \in Int
          /\ \/ Floor(a) <= user[a].attestable_from
             \/ Floor(a) <= now - ATTESTATION_TTL_SECONDS
      BY <2>2 DEF Floor
    <2>4. /\ cursor[a] \in 0..MaxTransfers /\ finalized[a] \in 0..MaxTransfers
          /\ cursor[a] <= finalized[a]
      BY <1>1 DEF ProgramOK, CursorOK
    <2>5. /\ scan' \in [Accounts -> Scans] /\ scan'[a] \in Scans
          /\ scan'[a].stage = "reading" /\ scan'[a].upto = finalized[a]
          /\ scan'[a].handled = cursor[a] /\ scan'[a].floor = Floor(a)
          /\ \A b \in Accounts \ {a} : scan'[b] = scan[b]
      BY <1>1, <2>1, <2>3, <2>4 DEF Scans
    <2>6. ScanOK(a)'
      <3>1. UNCHANGED <<now, user, transfer, finalized, record, ahead>> BY <1>2 DEF program
      <3>2. \A i \in 1..cursor[a] : Done(a, i)' BY <1>1, <3>1 DEF CursorOK, Done, Countable
      <3>3. finalized[a] <= finalized[a] BY <2>4
      <3> QED BY <2>3, <2>4, <2>5, <3>1, <3>2, <3>3 DEF ScanOK
    <2>7. \A b \in Accounts \ {a} : ScanOK(b)' BY <1>3, <2>5, ScanStays
    <2> QED BY <1>2, <1>3, <1>4, <1>5, <2>5, <2>6, <2>7 DEF Inv
  <1> QED BY <1>6, <1>7

(* The cursor moves to what the scan handled, whether the scan ends or is  *)
(* left half-way.                                                          *)
LEMMA ScanEndKeeps ==
    ASSUME Inv, ProgramOK', MovesOn, MemoryOK', NEW a \in Accounts,
           scan' = [scan EXCEPT ![a] = NoScan],
           SaveCursor(a, scan[a].handled) \/ UNCHANGED cursor
    PROVE  Inv'
  <1>1. ProgramOK /\ ScanOK(a) /\ scan \in [Accounts -> Scans]
        /\ cursor \in [Accounts -> 0..MaxTransfers]
    BY DEF Inv
  <1>2. /\ scan'[a] = NoScan /\ \A b \in Accounts \ {a} : scan'[b] = scan[b]
        /\ scan' \in [Accounts -> Scans]
    <2>1. scan'[a] = NoScan /\ \A b \in Accounts \ {a} : scan'[b] = scan[b] BY <1>1
    <2>2. NoScan \in Scans BY <2>1, NoScanIsRight
    <2> QED BY <1>1, <2>1, <2>2
  <1>3. \A b \in Accounts : ScanOK(b)' BY <1>2, NoScanIsRight, ScanStays
  <1>4. CASE UNCHANGED cursor BY <1>1, <1>2, <1>3, <1>4, CursorStays DEF Inv
  <1>5. CASE SaveCursor(a, scan[a].handled)
    <2>1. /\ scan[a].handled \in 0..MaxTransfers /\ scan[a].upto \in 0..MaxTransfers
          /\ finalized[a] \in 0..MaxTransfers
          /\ scan[a].handled <= scan[a].upto /\ scan[a].upto <= finalized[a]
      BY <1>1 DEF ScanOK, Scans, ProgramOK
    <2>2. /\ cursor' \in [Accounts -> 0..MaxTransfers] /\ cursor'[a] = scan[a].handled
          /\ \A b \in Accounts \ {a} : cursor'[b] = cursor[b]
      BY <1>1, <1>5, <2>1 DEF SaveCursor
    <2>3. \A i \in 1..scan[a].handled : i \in 1..finalized[a] /\ Done(a, i)
      BY <1>1, <2>1 DEF ScanOK
    <2>4. \A i \in 1..scan[a].handled : Done(a, i)' BY <1>1, <2>3, DoneStays
    <2>5. scan[a].handled <= finalized'[a] BY <1>1, <2>1, Later
    <2>6. CursorOK(a)' BY <2>1, <2>2, <2>4, <2>5 DEF CursorOK
    <2>7. \A b \in Accounts \ {a} : CursorOK(b)' BY <2>2, CursorStays
    <2> QED BY <1>2, <1>3, <2>2, <2>6, <2>7 DEF Inv
  <1> QED BY <1>4, <1>5

(* What was sent for some accounts and is left unseen was read from them.  *)
LEMMA StraysAreTransfers ==
    ASSUME Inv, NEW as \in SUBSET Accounts, LeaveStray(as)
    PROVE  stray' \subseteq Accounts \X Transfers
  <1>1. \A a \in as : scan[a].stage = "sent" => At(a) \in Transfers BY AtFacts
  <1>2. stray \subseteq Accounts \X Transfers BY DEF Inv, ProgramOK
  <1>3. ASSUME NEW p \in stray' PROVE p \in Accounts \X Transfers
    <2>1. CASE p \in stray BY <1>2, <2>1
    <2>2. CASE p \notin stray
      <3>1. PICK a \in as : scan[a].stage = "sent" /\ p = <<a, At(a)>>
        BY <1>3, <2>2 DEF LeaveStray
      <3> QED BY <1>1, <3>1
    <2> QED BY <2>1, <2>2
  <1> QED BY <1>3

(* Leaving a scan, or ending it, keeps the invariant.                      *)
LEMMA LeaveScanKeeps ==
    ASSUME Inv, NEW a \in Accounts, FailScan(a) \/ SignatureRefused(a) \/ EndScan(a)
    PROVE  Inv'
  <1>1. ProgramOK /\ MemoryOK BY DEF Inv
  <1>2. /\ UNCHANGED <<now, named, user, transfer, finalized, record, known, watched,
                       tick, ahead, crashes>>
        /\ scan' = [scan EXCEPT ![a] = NoScan]
        /\ SaveCursor(a, scan[a].handled) \/ UNCHANGED cursor
        /\ dirty' = dirty \/ dirty' = dirty \union {a}
        /\ stray' = stray \/ LeaveStray({a})
    BY DEF FailScan, SignatureRefused, EndScan, LeaveScan, program, memory
  <1>3. stray' \subseteq Accounts \X Transfers
    BY <1>1, <1>2, {a} \in SUBSET Accounts, StraysAreTransfers DEF ProgramOK
  <1>4. ProgramOK' /\ MovesOn BY <1>1, <1>2, <1>3, NothingMoves DEF ProgramOK
  <1>5. MemoryOK' BY <1>1, <1>2, <1>4, MemoryStays DEF MemoryOK
  <1> QED BY <1>2, <1>4, <1>5, ScanEndKeeps

(* A crash loses what the process remembered and keeps the cursors.        *)
LEMMA CrashKeeps == ASSUME Inv, Crash PROVE Inv'
  <1>1. ProgramOK BY DEF Inv
  <1>2. /\ UNCHANGED <<now, named, user, transfer, finalized, record, cursor, ahead>>
        /\ known' = [a \in Accounts |-> Unread] /\ watched' = {} /\ dirty' = {}
        /\ tick' = IdleTick /\ scan' = [a \in Accounts |-> NoScan]
        /\ crashes < MaxCrashes /\ crashes' = crashes + 1
    BY DEF Crash
  <1>3. stray' \subseteq Accounts \X Transfers BY StraysAreTransfers DEF Crash
  <1>4. crashes' \in 0..MaxCrashes BY <1>1, <1>2, WatcherAssumption DEF ProgramOK
  <1>5. ProgramOK' /\ MovesOn
    <2>1. now <= now /\ \A a \in Accounts : finalized[a] <= finalized[a]
      BY <1>1, WatcherAssumption DEF ProgramOK, Times
    <2> QED BY <1>1, <1>2, <1>3, <1>4, <2>1 DEF ProgramOK, MovesOn
  <1>6. MemoryOK'
    <2>1. 0 \in Times /\ 0 <= now BY <1>1, WatcherAssumption DEF ProgramOK, Times
    <2>2. Unread \in Users /\ Unread.attestable_from = 0 BY <2>1 DEF Unread, Users
    <2>3. \A a \in Accounts : 0 <= user[a].attestable_from
      BY <1>1 DEF ProgramOK, Users, Times
    <2>4. IdleTick \in Ticks /\ IdleTick.now = 0 BY <2>1 DEF IdleTick, Ticks
    <2> QED BY <1>2, <2>1, <2>2, <2>3, <2>4 DEF MemoryOK
  <1>7. \A a \in Accounts : scan'[a] = NoScan BY <1>2
  <1>8. \A a \in Accounts : ScanOK(a)' /\ CursorOK(a)'
    BY <1>2, <1>5, <1>7, NoScanIsRight, CursorStays
  <1>9. scan' \in [Accounts -> Scans] BY <1>2, <1>5, <1>7, NoScanIsRight
  <1> QED BY <1>2, <1>5, <1>6, <1>8, <1>9 DEF Inv

-----------------------------------------------------------------------------
(***************************************************************************)
(* The world's steps.                                                      *)
(***************************************************************************)

(* Each step of the world, and each record closed, moves the program on.   *)
LEMMA WorldMovesOn ==
    ASSUME Inv, World \/ \E a \in Accounts, i \in Transfers : CloseRecord(a, i)
    PROVE  ProgramOK' /\ MovesOn
  <1>1. ProgramOK BY DEF Inv
  <1>2. /\ now \in Nat /\ now <= now
        /\ \A a \in Accounts : /\ finalized[a] \in 0..MaxTransfers
                              /\ finalized[a] <= finalized[a]
                              /\ transfer[a] \in Seq(Times) /\ user[a] \in Users
                              /\ user[a].attestable_from \in Nat
    BY <1>1, WatcherAssumption DEF ProgramOK, Times, Users
  <1>3. CASE Tick
    <2>1. now' \in Times /\ now <= now' BY <1>2, <1>3, WatcherAssumption DEF Tick, Times
    <2>2. \A a \in Accounts : user[a].attestable_from <= now'
      BY <1>1, <1>2, <1>3 DEF ProgramOK, Tick
    <2>3. \A a \in Accounts : \A i \in 1..finalized[a] : transfer[a][i] < now'
      BY <1>1, <1>2, <1>3, FinalizedFacts DEF Tick
    <2> QED BY <1>1, <1>2, <1>3, <2>1, <2>2, <2>3 DEF Tick, Elsewhere, ProgramOK, MovesOn
  <1>4. CASE RotateAttestor
    BY <1>1, <1>2, <1>4 DEF RotateAttestor, Elsewhere, ProgramOK, MovesOn
  <1>5. ASSUME NEW a \in Accounts, Transfer(a) PROVE ProgramOK' /\ MovesOn
    <2>1. /\ Len(transfer[a]) < MaxTransfers
          /\ transfer' = [transfer EXCEPT ![a] = Append(transfer[a], now)]
          /\ UNCHANGED <<now, named, user, finalized, record, stray, ahead, crashes>>
      BY <1>5 DEF Transfer, Elsewhere
    <2>2. /\ transfer'[a] = Append(transfer[a], now)
          /\ \A b \in Accounts \ {a} : transfer'[b] = transfer[b]
          /\ transfer' \in [Accounts -> Seq(Times)]
      BY <1>1, <1>2, <2>1 DEF ProgramOK
    <2>3. /\ Len(transfer'[a]) = Len(transfer[a]) + 1
          /\ \A i \in 1..Len(transfer[a]) : transfer'[a][i] = transfer[a][i]
      BY <1>2, <2>2
    <2>4. Len(transfer'[a]) <= MaxTransfers /\ finalized[a] <= Len(transfer'[a])
      BY <1>1, <1>2, <2>1, <2>3, WatcherAssumption DEF ProgramOK
    <2>5. \A i \in 1..finalized[a] : transfer'[a][i] = transfer[a][i]
      BY <1>1, <1>2, <2>3 DEF ProgramOK
    <2> QED BY <1>1, <1>2, <2>1, <2>2, <2>4, <2>5 DEF ProgramOK, MovesOn
  <1>6. ASSUME NEW a \in Accounts, Finalize(a) PROVE ProgramOK' /\ MovesOn
    <2>1. /\ finalized[a] < Len(transfer[a])
          /\ transfer[a][finalized[a] + 1] + FINALITY <= now
          /\ finalized' = [finalized EXCEPT ![a] = finalized[a] + 1]
          /\ UNCHANGED <<now, named, user, transfer, record, stray, ahead, crashes>>
      BY <1>6 DEF Finalize, Elsewhere
    <2>2. Len(transfer[a]) \in Nat /\ Len(transfer[a]) <= MaxTransfers /\ MaxTransfers \in Nat
      BY <1>1, <1>2, WatcherAssumption DEF ProgramOK
    <2>3. finalized[a] + 1 \in 0..MaxTransfers /\ finalized[a] + 1 <= Len(transfer[a])
      BY <1>2, <2>1, <2>2
    <2>4. /\ finalized' \in [Accounts -> 0..MaxTransfers]
          /\ finalized'[a] = finalized[a] + 1
          /\ \A b \in Accounts \ {a} : finalized'[b] = finalized[b]
      BY <1>1, <2>1, <2>3 DEF ProgramOK
    <2>5. transfer[a][finalized[a] + 1] \in Nat
      <3>1. finalized[a] + 1 \in 1..Len(transfer[a]) BY <1>2, <2>2, <2>3
      <3> QED BY <1>2, <3>1, WatcherAssumption DEF Times
    <2>6. transfer[a][finalized[a] + 1] < now BY <1>2, <2>1, <2>5, WatcherAssumption
    <2>7. \A i \in 1..finalized'[a] : transfer[a][i] < now
      BY <1>1, <1>2, <2>4, <2>6 DEF ProgramOK
    <2>8. finalized[a] <= finalized'[a] BY <1>2, <2>4
    <2> QED BY <1>1, <1>2, <2>1, <2>3, <2>4, <2>7, <2>8 DEF ProgramOK, MovesOn
  <1>7. ASSUME NEW a \in Accounts, TurnOff(a) \/ TurnOn(a) PROVE ProgramOK' /\ MovesOn
    <2>1. UNCHANGED <<now, named, transfer, finalized, record, stray, ahead, crashes>>
      BY <1>7 DEF TurnOff, TurnOn, Elsewhere
    <2>2. /\ user' \in [Accounts -> Users]
          /\ \A b \in Accounts \ {a} : user'[b] = user[b]
          /\ \/ ~user'[a].active /\ user'[a].attestable_from = user[a].attestable_from
             \/ user'[a].attestable_from = now
      <3>1. user \in [Accounts -> Users] /\ now \in Times BY <1>1 DEF ProgramOK
      <3>2. CASE TurnOff(a) BY <3>1, <3>2 DEF TurnOff, Users
      <3>3. CASE TurnOn(a)
        <4>1. [active |-> TRUE, attestable_from |-> now] \in Users BY <3>1 DEF Users
        <4> QED BY <3>1, <3>3, <4>1 DEF TurnOn
      <3> QED BY <1>7, <3>2, <3>3
    <2> QED BY <1>1, <1>2, <2>1, <2>2 DEF ProgramOK, MovesOn
  <1>8. ASSUME NEW a \in Accounts, NEW i \in Transfers, LandStray(a, i) \/ CloseRecord(a, i)
        PROVE  ProgramOK' /\ MovesOn
    <2>1. /\ UNCHANGED <<now, named, user, transfer, finalized, ahead, crashes>>
          /\ stray' \subseteq stray
          /\ \/ record' = [record EXCEPT ![a][i] = "open"]
             \/ record' = [record EXCEPT ![a][i] = "closed"]
      BY <1>8 DEF LandStray, CloseRecord, Attested
    <2> QED BY <2>1, RecordMoves
  <1> QED BY <1>3, <1>4, <1>5, <1>6, <1>7, <1>8 DEF World

-----------------------------------------------------------------------------
(* The invariant holds at the start, of an empty program and a process     *)
(* that has read nothing.                                                  *)
LEMMA InitInv == Init => Inv
  <1> SUFFICES ASSUME Init PROVE Inv OBVIOUS
  <1>1. 0 \in Times /\ 0 \in 0..MaxTransfers /\ 0 \in 0..MaxCrashes
        /\ ATTESTATION_TTL_SECONDS \in Nat
    BY WatcherAssumption DEF Times
  <1>2. ProgramOK BY <1>1 DEF Init, ProgramOK, Users, RecordStates
  <1>3. MemoryOK BY <1>1 DEF Init, MemoryOK, Unread, IdleTick, Users, Ticks
  <1>4. NoScan \in Scans BY <1>1 DEF NoScan, Scans
  <1>5. \A a \in Accounts : ScanOK(a)
    BY <1>1, <1>4 DEF Init, ScanOK, NoScan
  <1>6. \A a \in Accounts : CursorOK(a) BY <1>1 DEF Init, CursorOK
  <1> QED BY <1>1, <1>2, <1>3, <1>4, <1>5, <1>6 DEF Init, Inv

(* Every step keeps the invariant.                                         *)
LEMMA NextInv == Inv /\ [Next]_vars => Inv'
  <1> SUFFICES ASSUME Inv, [Next]_vars PROVE Inv' OBVIOUS
  <1>1. ASSUME NEW a \in Accounts, ScanStep(a) PROVE Inv'
    BY <1>1, RuledOutKeeps, LandKeeps, SendKeeps, StartScanKeeps, LeaveScanKeeps
       DEF ScanStep, Answer
  <1>2. CASE TickStep BY <1>1, <1>2, TickKeeps DEF TickStep
  <1>3. CASE Fails BY <1>3, TickKeeps, LeaveScanKeeps DEF Fails
  <1>4. CASE World \/ \E a \in Accounts, i \in Transfers : CloseRecord(a, i)
    <2>1. UNCHANGED <<cursor, known, watched, dirty, tick, scan>>
      BY <1>4 DEF World, Tick, RotateAttestor, Transfer, Finalize, TurnOff, TurnOn,
                  LandStray, CloseRecord, Elsewhere, memory
    <2> QED BY <1>4, <2>1, WorldMovesOn, WorldKeeps
  <1>5. CASE \E a \in Accounts : Notify(a) BY <1>5, TickKeeps
  <1>6. CASE Crash BY <1>6, CrashKeeps
  <1>7. CASE UNCHANGED vars
    BY <1>7 DEF vars, program, memory, Inv, ProgramOK, MemoryOK, ScanOK, CursorOK, Done,
                Countable
  <1> QED BY <1>2, <1>3, <1>4, <1>5, <1>6, <1>7 DEF Next

-----------------------------------------------------------------------------
(* Types, and that no cursor or scan is past what is finalized.            *)
THEOREM WatcherTypes == Spec => []TypeOK
  <1>1. Inv => TypeOK BY InvImplies
  <1> QED BY InitInv, NextInv, <1>1, PTL DEF Spec

(* The cursor never passes a transfer that could still be attested, but    *)
(* for one later than the clock as its tick read it (scan, attest).        *)
THEOREM CursorPassesOnlyDone == Spec => []PassedOnlyWhenDone
  <1>1. Inv => PassedOnlyWhenDone BY InvImplies
  <1> QED BY InitInv, NextInv, <1>1, PTL DEF Spec
=============================================================================
