---------------------------- MODULE Sponsorships ----------------------------
(***************************************************************************)
(* The sponsor route: transactions it builds for a wallet (prepare), then  *)
(* co-signs and sends when the wallet has signed them (submit), counted in *)
(* the table sponsorships, and what becomes of them on the cluster.  Any   *)
(* number of requests run at once; only a claim runs under a lock.  A      *)
(* refusal leaves no trace, so it is a step that is not enabled.           *)
(***************************************************************************)
EXTENDS Naturals, FiniteSets, FiniteSetsExt

CONSTANTS Wallets, Ips, NoIp,      \* requests may come without an address
          Assets, NoAsset,         \* an asset whose account is created, or none
          Messages,                \* the messages that get built
          SPONSOR_LIMITS,          \* sends in a day: all, ip, wallet
          RETURN_LIMIT,            \* reactivations of a wallet in a month
          PREPARE_LIMITS,          \* builds in an hour: ip, wallet
          PREPARED_TTL, BLOCKHASH, \* how long a message may be claimed, and land
          HOUR, DAY, RETURN_WINDOW,
          MaxTime

ASSUME LimitsAssumption ==
    /\ SPONSOR_LIMITS \in [{"all", "ip", "wallet"} -> Nat \ {0}]
    /\ PREPARE_LIMITS \in [{"ip", "wallet"} -> Nat \ {0}]
    /\ RETURN_LIMIT \in Nat \ {0}
ASSUME WindowsAssumption ==
    /\ {PREPARED_TTL, HOUR, DAY, RETURN_WINDOW} \subseteq Nat \ {0}
    /\ {BLOCKHASH, MaxTime} \subseteq Nat
ASSUME MessagesAssumption == IsFiniteSet(Messages)
ASSUME NothingsAssumption == NoIp \notin Ips /\ NoAsset \notin Assets

VARIABLES
    now,
    rows,          \* the table: a row per message
    building,      \* what prepare requests built and have yet to record
    request,       \* the submit request that claimed the message
    chain,         \* the message's transaction on the cluster
    user,          \* each wallet's account with the program
    accounts,      \* the wallets' asset accounts that exist
    paid,          \* history: the messages whose landing created one
    unaddressed    \* history: the messages claimed by a request with no address

vars == <<now, rows, building, request, chain, user, accounts, paid, unaddressed>>

Kinds == {"enroll", "reactivate"}
Outcomes == {"none", "prepared", "sent", "landed", "failed"}

NoRow == [outcome |-> "none"]
Idle == [at |-> "idle"]

Init ==
    /\ now = 0
    /\ rows = [m \in Messages |-> NoRow]
    /\ building = [m \in Messages |-> Idle]
    /\ request = [m \in Messages |-> "none"]
    /\ chain = [m \in Messages |-> "none"]
    /\ user = [w \in Wallets |-> "absent"]
    /\ accounts = {}
    /\ paid = {}
    /\ unaddressed = {}

-----------------------------------------------------------------------------
(***************************************************************************)
(* The limits.                                                             *)
(***************************************************************************)
SPENT == {"sent", "landed"}

Recorded == {m \in Messages : rows[m].outcome # "none"}
\* Faulty: a claim counts once its transaction has landed only.
SpentOnceLanded == {m \in Messages : rows[m].outcome = "landed"}

Spent == {m \in Messages : rows[m].outcome \in SPENT}

Within(window, t) == t + window > now

SentWithin(window) == {m \in Spent : Within(window, rows[m].sentAt)}
OfWallet(ms, w) == {m \in ms : rows[m].wallet = w}
OfIp(ms, i) == {m \in ms : rows[m].ip = i}
Returns(ms) == {m \in ms : rows[m].kind = "reactivate"}

\* What each limit counts for a transaction of this kind, how many it allows,
\* and over which window.
Counted(w, i, kind) ==
    {[of |-> OfWallet(SentWithin(DAY), w), most |-> SPONSOR_LIMITS["wallet"], window |-> DAY],
     [of |-> SentWithin(DAY), most |-> SPONSOR_LIMITS["all"], window |-> DAY]}
    \cup (IF i = NoIp THEN {} ELSE
            {[of |-> OfIp(SentWithin(DAY), i), most |-> SPONSOR_LIMITS["ip"], window |-> DAY]})
    \cup (IF kind = "enroll" THEN {} ELSE
            {[of |-> Returns(OfWallet(SentWithin(RETURN_WINDOW), w)),
              most |-> RETURN_LIMIT, window |-> RETURN_WINDOW]})

\* The limits another transaction would pass.
SendLimits(w, i, kind) == {c \in Counted(w, i, kind) : Cardinality(c.of) >= c.most}

\* Faulty: the wait ends an instant before the oldest leaves the window.
RetryAfterEarly(c) == Min({rows[m].sentAt : m \in c.of}) + c.window - now - 1

\* How long a request refused for a limit is told to wait.
RetryAfter(c) == Min({rows[m].sentAt : m \in c.of}) + c.window - now

BuiltWithin(ms) == {m \in ms : Within(HOUR, rows[m].preparedAt)}

PrepareAllowed(w, i, kind) ==
    /\ Cardinality(BuiltWithin(OfWallet(Recorded, w))) < PREPARE_LIMITS["wallet"]
    /\ i # NoIp => Cardinality(BuiltWithin(OfIp(Recorded, i))) < PREPARE_LIMITS["ip"]
    /\ SendLimits(w, i, kind) = {}

\* Faulty: only landed transactions are looked at.
AssetAccountPaidLanded(w, asset, except) ==
    \E m \in OfWallet(Spent, w) \ except :
        rows[m].asset = asset /\ rows[m].outcome = "landed"

\* Whether the sponsor paid for the account already, in another message.
AssetAccountPaid(w, asset, except) ==
    \E m \in OfWallet(Spent, w) \ except : rows[m].asset = asset

-----------------------------------------------------------------------------
(***************************************************************************)
(* Prepare: the limits and the chain are read, and the message built from  *)
(* them is recorded some time later.                                       *)
(***************************************************************************)
\* What the user's account must be for the transaction to execute.
Executable(w, kind) == user[w] = IF kind = "enroll" THEN "absent" ELSE "exited"

Prepare(m, w, i, kind, asset) ==
    LET creates == <<w, asset>> \notin accounts
    IN  /\ building[m] = Idle /\ rows[m] = NoRow
        /\ PrepareAllowed(w, i, kind)
        /\ Executable(w, kind)
        /\ creates => ~AssetAccountPaid(w, asset, {})
        /\ building' = [building EXCEPT ![m] =
             [at |-> "built", wallet |-> w, ip |-> i, kind |-> kind, built |-> now,
              asset |-> IF creates THEN asset ELSE NoAsset]]
        /\ UNCHANGED <<now, rows, request, chain, user, accounts, paid, unaddressed>>

RecordPrepared(m) ==
    LET b == building[m]
    IN  /\ b.at = "built"
        /\ rows' = [rows EXCEPT ![m] =
             [outcome |-> "prepared", wallet |-> b.wallet, ip |-> b.ip, kind |-> b.kind,
              asset |-> b.asset, preparedAt |-> now, lastValid |-> b.built + BLOCKHASH,
              sentAt |-> 0]]
        /\ building' = [building EXCEPT ![m] = Idle]
        /\ UNCHANGED <<now, request, chain, user, accounts, paid, unaddressed>>

-----------------------------------------------------------------------------
(***************************************************************************)
(* Submit: the claim, the shape, the send, and what comes of it.           *)
(***************************************************************************)
\* Faulty: however long ago the message was prepared.
ClaimableAnytime(m) == rows[m].outcome = "prepared"

Claimable(m) ==
    /\ rows[m].outcome = "prepared"
    /\ Within(PREPARED_TTL, rows[m].preparedAt)

Claim(m, i) ==
    LET row == rows[m]
    IN  /\ Claimable(m)
        /\ SendLimits(row.wallet, i, row.kind) = {}
        /\ row.asset # NoAsset => ~AssetAccountPaid(row.wallet, row.asset, {m})
        /\ rows' = [rows EXCEPT ![m].ip = IF i = NoIp THEN @ ELSE i,
                                ![m].outcome = "sent", ![m].sentAt = now]
        /\ request' = [request EXCEPT ![m] = "claimed"]
        /\ unaddressed' = IF i = NoIp THEN unaddressed \cup {m} ELSE unaddressed
        /\ UNCHANGED <<now, building, chain, user, accounts, paid>>

Settle(m, outcome) ==
    /\ rows' = [rows EXCEPT ![m].outcome = outcome]
    /\ request' = [request EXCEPT ![m] = "over"]
    /\ UNCHANGED <<now, building, chain, user, accounts, paid, unaddressed>>

\* The message has not the shape it must have under the configuration as it is
\* now, or the RPC refuses the transaction in its own simulation.
RefuseToSend(m) ==
    /\ request[m] = "claimed"
    /\ Settle(m, "failed")

Send(m) ==
    /\ request[m] = "claimed"
    /\ request' = [request EXCEPT ![m] = "sent"]
    /\ chain' = [chain EXCEPT ![m] = "sent"]
    /\ UNCHANGED <<now, rows, building, user, accounts, paid, unaddressed>>

\* The transaction is confirmed, with or without an error.
Confirmed(m) ==
    /\ request[m] = "sent"
    /\ \/ chain[m] = "landed" /\ Settle(m, "landed")
       \/ chain[m] = "failed" /\ Settle(m, "failed")

\* The cluster is past the last block at which the transaction could land.
Expired(m) ==
    /\ request[m] = "sent"
    /\ chain[m] = "sent" /\ now > rows[m].lastValid
    /\ Settle(m, "failed")

\* The RPC fails and says nothing of the transaction: it is settled as failed.
Unclear(m) ==
    /\ request[m] = "sent"
    /\ Settle(m, "failed")

\* The process stops, or a read or a settlement throws: the claim stays.
Abandon(m) ==
    /\ request[m] \in {"claimed", "sent"}
    /\ request' = [request EXCEPT ![m] = "over"]
    /\ UNCHANGED <<now, rows, building, chain, user, accounts, paid, unaddressed>>

Submit(m) ==
    \/ \E i \in Ips \cup {NoIp} : Claim(m, i)
    \/ RefuseToSend(m)
    \/ Send(m)
    \/ Confirmed(m)
    \/ Expired(m)
    \/ Unclear(m)
    \/ Abandon(m)

-----------------------------------------------------------------------------
(***************************************************************************)
(* The cluster and the users.                                              *)
(***************************************************************************)
Execute(m) ==
    LET row == rows[m]
    IN  /\ chain[m] = "sent" /\ now <= row.lastValid
        /\ IF Executable(row.wallet, row.kind)
           THEN /\ chain' = [chain EXCEPT ![m] = "landed"]
                /\ user' = [user EXCEPT ![row.wallet] = "active"]
                /\ IF row.asset = NoAsset \/ <<row.wallet, row.asset>> \in accounts
                   THEN UNCHANGED <<accounts, paid>>
                   ELSE /\ accounts' = accounts \cup {<<row.wallet, row.asset>>}
                        /\ paid' = paid \cup {m}
           ELSE /\ chain' = [chain EXCEPT ![m] = "failed"]
                /\ UNCHANGED <<user, accounts, paid>>
        /\ UNCHANGED <<now, rows, building, request, unaddressed>>

Exit(w) ==
    /\ user[w] = "active"
    /\ user' = [user EXCEPT ![w] = "exited"]
    /\ UNCHANGED <<now, rows, building, request, chain, accounts, paid, unaddressed>>

CloseAccount(account) ==
    /\ account \in accounts
    /\ accounts' = accounts \ {account}
    /\ UNCHANGED <<now, rows, building, request, chain, user, paid, unaddressed>>

Tick ==
    /\ now < MaxTime
    /\ now' = now + 1
    /\ UNCHANGED <<rows, building, request, chain, user, accounts, paid, unaddressed>>

Next ==
    \/ \E m \in Messages :
         \/ \E w \in Wallets, i \in Ips \cup {NoIp}, kind \in Kinds, asset \in Assets :
              Prepare(m, w, i, kind, asset)
         \/ RecordPrepared(m)
         \/ Submit(m)
         \/ Execute(m)
    \/ \E w \in Wallets : Exit(w)
    \/ \E account \in accounts : CloseAccount(account)
    \/ Tick

Spec == Init /\ [][Next]_vars

-----------------------------------------------------------------------------
(***************************************************************************)
(* Properties.                                                             *)
(***************************************************************************)
Builds ==
    [at : {"built"}, wallet : Wallets, ip : Ips \cup {NoIp}, kind : Kinds,
     built : Nat, asset : Assets \cup {NoAsset}]
Rows ==
    [outcome : Outcomes \ {"none"}, wallet : Wallets, ip : Ips \cup {NoIp}, kind : Kinds,
     asset : Assets \cup {NoAsset}, preparedAt : Nat, lastValid : Nat, sentAt : Nat]

(* Every variable is well typed; nothing happens in the future, a request  *)
(* works on a row only while the row says it was claimed, and a row was    *)
(* claimed within PREPARED_TTL (claimSend).                                *)
TypeOK ==
    /\ now \in 0..MaxTime
    /\ rows \in [Messages -> Rows \cup {NoRow}]
    /\ building \in [Messages -> Builds \cup {Idle}]
    /\ request \in [Messages -> {"none", "claimed", "sent", "over"}]
    /\ chain \in [Messages -> {"none", "sent", "landed", "failed"}]
    /\ user \in [Wallets -> {"absent", "active", "exited"}]
    /\ accounts \subseteq Wallets \X Assets
    /\ paid \subseteq Messages /\ unaddressed \subseteq Messages
    /\ \A m \in Recorded : rows[m].preparedAt <= now /\ rows[m].sentAt <= now
    /\ \A m \in Messages : request[m] \in {"claimed", "sent"} => rows[m].outcome = "sent"
    /\ \A m \in Spent : rows[m].sentAt \in rows[m].preparedAt..(rows[m].preparedAt + PREPARED_TTL - 1)

(* However many requests run at once, and whatever processes leave behind, *)
(* what the table says the sponsor paid for is within SPONSOR_LIMITS and   *)
(* RETURN_LIMIT in every window, for each wallet, each address that asked, *)
(* and in all (claimSend, sendLimit).                                      *)
WithinLimits ==
    LET sent == {m \in Messages : rows[m].outcome \in {"sent", "landed"}}
        within(window) == {m \in sent : rows[m].sentAt > now - window}
    IN  /\ Cardinality(within(DAY)) <= SPONSOR_LIMITS["all"]
        /\ \A w \in Wallets :
             /\ Cardinality({m \in within(DAY) : rows[m].wallet = w}) <= SPONSOR_LIMITS["wallet"]
             /\ Cardinality({m \in within(RETURN_WINDOW) :
                  rows[m].wallet = w /\ rows[m].kind = "reactivate"}) <= RETURN_LIMIT
        /\ \A i \in Ips :
             Cardinality({m \in within(DAY) : rows[m].ip = i /\ m \notin unaddressed})
                <= SPONSOR_LIMITS["ip"]

(* A wait told to a request refused for a limit is enough for that limit,  *)
(* and ends at the first instant at which it is (retryAfter).  It leans on *)
(* no limit ever being passed; a count lowered by failures ends it sooner. *)
WaitIsEnough ==
    \A w \in Wallets, i \in Ips, kind \in Kinds : \A c \in SendLimits(w, i, kind) :
        LET counted(t) == Cardinality({m \in c.of : rows[m].sentAt + c.window > t})
        IN  \/ c.of \cap unaddressed # {}
            \/ /\ counted(now + RetryAfter(c)) < c.most
               /\ counted(now + RetryAfter(c) - 1) >= c.most

(* The sponsor pays for a wallet's account in an asset once, of all the    *)
(* transactions the table does not call failed, although its owner may     *)
(* close the account and several messages creating it may be out at once   *)
(* (assetAccountPaid).                                                     *)
CountedAccountPaidOnce ==
    \A m, n \in paid :
        /\ rows[m].wallet = rows[n].wallet
        /\ rows[m].asset = rows[n].asset
        /\ "failed" \notin {rows[m].outcome, rows[n].outcome}
        => m = n

(* What schema.ts says of asset_account: "the asset whose account the      *)
(* transaction creates, which the sponsor pays at most once per wallet and *)
(* asset".                                                                 *)
AssetAccountPaidOnce ==
    \A m, n \in paid :
        rows[m].wallet = rows[n].wallet /\ rows[m].asset = rows[n].asset => m = n
=============================================================================
