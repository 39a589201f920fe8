------------------------------ MODULE Watcher -------------------------------
(***************************************************************************)
(* The watcher (watcher.ts): it reads the finalized transactions of each   *)
(* watched token account after the account's cursor, oldest first, has the *)
(* program attest the transfer of each, moves the cursor past the ones it  *)
(* is done with, and closes records that expired.                          *)
(*                                                                         *)
(* Each transaction holds one transfer, and each account has a user of its *)
(* own.  Of a user the model keeps whether transfers count at all (active, *)
(* the token enabled, the rules turning them into an amount) and since     *)
(* when; the two change as in Laterite, where whatever makes transfers     *)
(* count again raises attestable_from.  Everything the watcher awaits may  *)
(* fail, and everything may happen while it waits.                         *)
(***************************************************************************)
EXTENDS Integers, Sequences, FiniteSets

CONSTANTS
    Accounts,                   \* token accounts of enrolled users
    ATTESTATION_TTL_SECONDS,    \* how long a transfer can be attested
    FINALITY,                   \* instants until a transaction is finalized
    SCAN_CONCURRENCY,           \* accounts read at once
    MaxTransfers,               \* bound: transfers of an account
    MaxTime,                    \* bound: the clock stops here
    MaxCrashes                  \* bound: crashes of the process

ASSUME WatcherAssumption ==
    /\ ATTESTATION_TTL_SECONDS \in Nat
    /\ FINALITY \in Nat \ {0}
    /\ SCAN_CONCURRENCY \in Nat \ {0}
    /\ MaxTransfers \in Nat
    /\ MaxTime \in Nat \ {0}
    /\ MaxCrashes \in Nat

VARIABLES
    now,        \* the cluster's clock
    named,      \* whether Config names this watcher's attestor
    user,       \* of each account: whether transfers count, and since when
    transfer,   \* of each account: the times of its transfers, oldest first
    finalized,  \* of each account: how many of them are finalized
    record,     \* of each transfer: "none", "open" or "closed"
    stray,      \* attestations sent whose outcome the watcher never saw
    cursor,     \* table watch_cursors: the transfers each account is done with
    known,      \* memory: the users, as last read
    watched,    \* memory: the accounts watched
    dirty,      \* memory: the accounts to read
    tick,       \* the tick in progress
    scan,       \* of each account: the reading in progress
    ahead,      \* history: transfers refused as later than the tick's clock
    crashes     \* crashes so far

program == <<now, named, user, transfer, finalized, record, stray>>
memory == <<known, watched, dirty>>
vars == <<program, cursor, memory, tick, scan, ahead, crashes>>

Transfers == 1..MaxTransfers
Times == 0..MaxTime
Unread == [active |-> FALSE, attestable_from |-> 0]
IdleTick == [at |-> "idle", loaded |-> FALSE, now |-> 0, due |-> {}]
NoScan == [stage |-> "none", upto |-> 0, handled |-> 0, floor |-> 0]

-----------------------------------------------------------------------------
(***************************************************************************)
(* What the program says of a transfer.                                    *)
(***************************************************************************)

\* Why attest refuses a transfer of this time, for an account u at clock t.
Inactive(u) == ~u.active
Invalid(u, time, t) == time < u.attestable_from \/ time > t
Expired(time, t) == time + ATTESTATION_TTL_SECONDS < t

Refused(u, time, t) == Inactive(u) \/ Invalid(u, time, t) \/ Expired(time, t)

\* Whether the transfer still counts, if it is attested.
Countable(a, i) ==
    /\ i <= Len(transfer[a])
    /\ ~Refused(user[a], transfer[a][i], now)

\* The program attests transfer i of a: no other copy of it can land.
Attested(a, i) ==
    /\ named
    /\ record[a][i] = "none"
    /\ Countable(a, i)
    /\ record' = [record EXCEPT ![a][i] = "open"]
    /\ stray' = stray \ {<<a, i>>}

-----------------------------------------------------------------------------
(***************************************************************************)
(* A tick first brings the users up to date: all of them on the first tick *)
(* and every five minutes, else those the indexer has news of.             *)
(***************************************************************************)
Follows(users) == {a \in Accounts : users[a].active}

\* Faulty: the full reading marks only the accounts that are new.
ReloadNewOnly ==
    /\ tick.at = "idle"
    /\ known' = user
    /\ watched' = Follows(user)
    /\ dirty' = dirty \union (Follows(user) \ watched)
    /\ tick' = [tick EXCEPT !.at = "refreshed", !.loaded = TRUE]
    /\ UNCHANGED <<program, cursor, scan, ahead, crashes>>

Reload ==
    /\ tick.at = "idle"
    /\ known' = user
    /\ watched' = Follows(user)
    /\ dirty' = dirty \union Follows(user)
    /\ tick' = [tick EXCEPT !.at = "refreshed", !.loaded = TRUE]
    /\ UNCHANGED <<program, cursor, scan, ahead, crashes>>

Refresh ==
    /\ tick.at = "idle"
    /\ tick.loaded
    /\ \E changed \in SUBSET Accounts :
        LET users == [a \in Accounts |-> IF a \in changed THEN user[a] ELSE known[a]]
        IN  IF changed = {} THEN UNCHANGED memory
            ELSE /\ known' = users
                 /\ watched' = Follows(users)
                 /\ dirty' = dirty \union (Follows(users) \ watched)
    /\ tick' = [tick EXCEPT !.at = "refreshed"]
    /\ UNCHANGED <<program, cursor, scan, ahead, crashes>>

\* Nothing is due, or the deployment is not this watcher's: nothing is signed.
EndEarly ==
    /\ tick.at = "refreshed"
    /\ dirty = {} \/ ~named
    /\ tick' = [tick EXCEPT !.at = "idle"]
    /\ UNCHANGED <<program, cursor, memory, scan, ahead, crashes>>

\* A read of the tick fails: the loop tries again.
FailTick ==
    /\ tick.at = "refreshed"
    /\ tick' = [tick EXCEPT !.at = "idle"]
    /\ UNCHANGED <<program, cursor, memory, scan, ahead, crashes>>

\* One reading of the clock serves every scan of the tick.
StartScans ==
    /\ tick.at = "refreshed"
    /\ named
    /\ tick' = [tick EXCEPT !.at = "scanning", !.now = now, !.due = dirty]
    /\ dirty' = {}
    /\ UNCHANGED <<program, cursor, known, watched, scan, ahead, crashes>>

Scanning == {a \in Accounts : scan[a].stage # "none"}

EndTick ==
    /\ tick.at = "scanning"
    /\ tick.due = {}
    /\ Scanning = {}
    /\ tick' = [tick EXCEPT !.at = "idle", !.now = 0]
    /\ UNCHANGED <<program, cursor, memory, scan, ahead, crashes>>

-----------------------------------------------------------------------------
(***************************************************************************)
(* One account's transactions, from its cursor on.                         *)
(***************************************************************************)
\* Transfers before this are not fetched: too old, or before they count.
Floor(a) ==
    LET windowStart == tick.now - ATTESTATION_TTL_SECONDS
    IN  IF known[a].attestable_from > windowStart THEN known[a].attestable_from
        ELSE windowStart

StartScan(a) ==
    /\ tick.at = "scanning"
    /\ a \in tick.due
    /\ Cardinality(Scanning) < SCAN_CONCURRENCY
    /\ tick' = [tick EXCEPT !.due = @ \ {a}]
    /\ scan' = IF a \notin watched THEN scan
               ELSE [scan EXCEPT ![a] =
                        [stage |-> "reading", upto |-> finalized[a],
                         handled |-> cursor[a], floor |-> Floor(a)]]
    /\ UNCHANGED <<program, cursor, memory, ahead, crashes>>

\* The transfer at hand.
At(a) == scan[a].handled + 1
Time(a) == transfer[a][At(a)]

Reads(a) == scan[a].stage = "reading" /\ At(a) <= scan[a].upto

Handled(a) == scan' = [scan EXCEPT ![a].handled = @ + 1, ![a].stage = "reading"]

Skip(a) ==
    /\ Reads(a)
    /\ Time(a) < scan[a].floor
    /\ Handled(a)
    /\ UNCHANGED <<program, cursor, memory, tick, ahead, crashes>>

\* The user's account, read now, refuses it at the tick's clock.
Refuse(a) ==
    /\ Reads(a)
    /\ Time(a) >= scan[a].floor
    /\ Refused(user[a], Time(a), tick.now)
    /\ Handled(a)
    /\ known' = [known EXCEPT ![a] = user[a]]
    /\ ahead' = IF Time(a) > tick.now THEN ahead \union {<<a, At(a)>>} ELSE ahead
    /\ UNCHANGED <<program, cursor, watched, dirty, tick, crashes>>

AlreadyAttested(a) ==
    /\ Reads(a)
    /\ Time(a) >= scan[a].floor
    /\ ~Refused(user[a], Time(a), tick.now)
    /\ record[a][At(a)] # "none"
    /\ Handled(a)
    /\ known' = [known EXCEPT ![a] = user[a]]
    /\ UNCHANGED <<program, cursor, watched, dirty, tick, ahead, crashes>>

Send(a) ==
    /\ Reads(a)
    /\ Time(a) >= scan[a].floor
    /\ ~Refused(user[a], Time(a), tick.now)
    /\ record[a][At(a)] = "none"
    /\ scan' = [scan EXCEPT ![a].stage = "sent"]
    /\ known' = [known EXCEPT ![a] = user[a]]
    /\ UNCHANGED <<program, cursor, watched, dirty, tick, ahead, crashes>>

Land(a) ==
    /\ scan[a].stage = "sent"
    /\ Attested(a, At(a))
    /\ Handled(a)
    /\ UNCHANGED <<now, named, user, transfer, finalized, cursor, memory, tick,
                   ahead, crashes>>

\* Someone else's copy, or an earlier one of this watcher, landed first.
Counted(a) ==
    /\ scan[a].stage = "sent"
    /\ named
    /\ record[a][At(a)] # "none"
    /\ ~Refused(user[a], Time(a), now)
    /\ Handled(a)
    /\ UNCHANGED <<program, cursor, memory, tick, ahead, crashes>>

\* The program refuses it, in simulation or when it runs.
RefusedByProgram(a) ==
    /\ scan[a].stage = "sent"
    /\ Refused(user[a], Time(a), now)
    /\ Handled(a)
    /\ UNCHANGED <<program, cursor, memory, tick, ahead, crashes>>

\* What the watcher sent and did not see the end of may still land.
LeaveStray(as) ==
    stray' = stray \union
        {<<a, At(a)>> : a \in {b \in as : scan[b].stage = "sent" /\ record[b][At(b)] = "none"}}

\* Faulty: an account that could not be read in full is moved past anyway.
SaveUpto(a, last) ==
    cursor' = [cursor EXCEPT ![a] = scan[a].upto]

\* The cursor moves past the transfers handled (not at all if none was).
SaveCursor(a, last) == cursor' = [cursor EXCEPT ![a] = last]

\* The account is read again on the next tick, from what was handled.
LeaveScan(a) ==
    /\ scan' = [scan EXCEPT ![a] = NoScan]
    /\ SaveCursor(a, scan[a].handled) \/ UNCHANGED cursor
    /\ dirty' = dirty \union {a}
    /\ UNCHANGED <<now, named, user, transfer, finalized, record, known, watched,
                   tick, ahead, crashes>>

\* A transaction is not there yet, a request or an answer is lost.
FailScan(a) == scan[a].stage # "none" /\ LeaveScan(a) /\ LeaveStray({a})

\* The program does not take this attestor's signature.
SignatureRefused(a) ==
    scan[a].stage = "sent" /\ ~named /\ LeaveScan(a) /\ UNCHANGED stray

EndScan(a) ==
    /\ scan[a].stage = "reading"
    /\ scan[a].handled = scan[a].upto
    /\ SaveCursor(a, scan[a].handled)
    /\ scan' = [scan EXCEPT ![a] = NoScan]
    /\ UNCHANGED <<program, memory, tick, ahead, crashes>>

-----------------------------------------------------------------------------
(***************************************************************************)
(* The process and the world around it.                                    *)
(***************************************************************************)

\* A finalized block changed a watched account, or its subscription is new.
Notify(a) ==
    /\ a \in watched
    /\ dirty' = dirty \union {a}
    /\ UNCHANGED <<program, cursor, known, watched, tick, scan, ahead, crashes>>

Crash ==
    /\ crashes < MaxCrashes
    /\ crashes' = crashes + 1
    /\ known' = [a \in Accounts |-> Unread]
    /\ watched' = {}
    /\ dirty' = {}
    /\ tick' = IdleTick
    /\ scan' = [a \in Accounts |-> NoScan]
    /\ LeaveStray(Accounts)
    /\ UNCHANGED <<now, named, user, transfer, finalized, record, cursor, ahead>>

\* closeRecords closes records that expired, some of those there are.
CloseRecord(a, i) ==
    /\ record[a][i] = "open"
    /\ Expired(transfer[a][i], now)
    /\ record' = [record EXCEPT ![a][i] = "closed"]
    /\ UNCHANGED <<now, named, user, transfer, finalized, stray, cursor, memory, tick,
                   scan, ahead, crashes>>

LandStray(a, i) ==
    /\ <<a, i>> \in stray
    /\ Attested(a, i)
    /\ UNCHANGED <<now, named, user, transfer, finalized, cursor, memory, tick,
                   scan, ahead, crashes>>

Elsewhere == UNCHANGED <<record, stray, cursor, memory, tick, scan, ahead, crashes>>

Tick ==
    /\ now < MaxTime
    /\ now' = now + 1
    /\ UNCHANGED <<named, user, transfer, finalized>> /\ Elsewhere

Transfer(a) ==
    /\ Len(transfer[a]) < MaxTransfers
    /\ transfer' = [transfer EXCEPT ![a] = Append(@, now)]
    /\ UNCHANGED <<now, named, user, finalized>> /\ Elsewhere

Finalize(a) ==
    /\ finalized[a] < Len(transfer[a])
    /\ transfer[a][finalized[a] + 1] + FINALITY <= now
    /\ finalized' = [finalized EXCEPT ![a] = @ + 1]
    /\ UNCHANGED <<now, named, user, transfer>> /\ Elsewhere

\* The user pauses, leaves, drops the token or turns the rules off.
TurnOff(a) ==
    /\ user[a].active
    /\ user' = [user EXCEPT ![a].active = FALSE]
    /\ UNCHANGED <<now, named, transfer, finalized>> /\ Elsewhere

\* The user resumes, returns, adds the token or lets more count.
TurnOn(a) ==
    /\ user' = [user EXCEPT ![a] = [active |-> TRUE, attestable_from |-> now]]
    /\ UNCHANGED <<now, named, transfer, finalized>> /\ Elsewhere

\* update_config names another attestor, or this one again.
RotateAttestor ==
    /\ named' = ~named
    /\ UNCHANGED <<now, user, transfer, finalized>> /\ Elsewhere

-----------------------------------------------------------------------------
Init ==
    /\ now = 0
    /\ named = TRUE
    /\ user = [a \in Accounts |-> [active |-> TRUE, attestable_from |-> 0]]
    /\ transfer = [a \in Accounts |-> <<>>]
    /\ finalized = [a \in Accounts |-> 0]
    /\ record = [a \in Accounts |-> [i \in Transfers |-> "none"]]
    /\ stray = {}
    /\ cursor = [a \in Accounts |-> 0]
    /\ known = [a \in Accounts |-> Unread]
    /\ watched = {}
    /\ dirty = {}
    /\ tick = IdleTick
    /\ scan = [a \in Accounts |-> NoScan]
    /\ ahead = {}
    /\ crashes = 0

Answer(a) == Land(a) \/ Counted(a) \/ RefusedByProgram(a)

ScanStep(a) ==
    \/ StartScan(a) \/ Skip(a) \/ Refuse(a) \/ AlreadyAttested(a) \/ Send(a)
    \/ Answer(a) \/ SignatureRefused(a) \/ EndScan(a)

Fails == FailTick \/ \E a \in Accounts : FailScan(a)

TickStep ==
    \/ Reload \/ Refresh \/ EndEarly \/ StartScans \/ EndTick
    \/ \E a \in Accounts : ScanStep(a)

World ==
    \/ Tick \/ RotateAttestor
    \/ \E a \in Accounts : Transfer(a) \/ Finalize(a) \/ TurnOff(a) \/ TurnOn(a)
    \/ \E a \in Accounts, i \in Transfers : LandStray(a, i)

Next ==
    \/ TickStep
    \/ Fails
    \/ \E a \in Accounts, i \in Transfers : CloseRecord(a, i)
    \/ \E a \in Accounts : Notify(a)
    \/ Crash
    \/ World

Spec == Init /\ [][Next]_vars
=============================================================================
