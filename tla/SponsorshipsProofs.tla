------------------------- MODULE SponsorshipsProofs -------------------------
(***************************************************************************)
(* What holds of the two routes that spend, for any number of messages,    *)
(* wallets, addresses and grants, any limits and any windows.              *)
(***************************************************************************)
EXTENDS MCSponsorships, FiniteSetTheorems, WellFoundedInduction, TLAPS

(* Every set of numbers that is not empty has a smallest (retryAfter).     *)
LEMMA Smallest ==
    ASSUME NEW S \in SUBSET Nat, S # {}
    PROVE  Min(S) \in S /\ \A s \in S : Min(S) <= s
  <1>1. PICK s \in S : \A t \in S : <<t, s>> \notin OpToRel(<, Nat)
    BY NatLessThanWellFounded, WFMin, Zenon
  <1>2. \A t \in S : ~(t < s)
    BY <1>1 DEF OpToRel
  <1>3. \A t \in S : s <= t
    BY <1>2
  <1> QED
    BY <1>3, Zenon DEF Min

(* A set with one element more than one that is below a limit is within    *)
(* the limit (sendLimit).                                                  *)
LEMMA OneMore ==
    ASSUME NEW S, IsFiniteSet(S), NEW x, NEW T \in SUBSET (S \cup {x}), NEW most \in Nat,
           ~(Cardinality(S) >= most)
    PROVE  Cardinality(T) <= most
  <1>1. /\ Cardinality(S) \in Nat /\ IsFiniteSet(S \cup {x})
        /\ Cardinality(S \cup {x}) \in {Cardinality(S), Cardinality(S) + 1}
    BY FS_CardinalityType, FS_AddElement
  <1>2. Cardinality(T) <= Cardinality(S \cup {x}) /\ Cardinality(T) \in Nat
    BY <1>1, FS_Subset, FS_CardinalityType
  <1> HIDE DEF Cardinality
  <1> QED
    BY <1>1, <1>2

(* A part of a set that is within a limit is within it.                    *)
LEMMA NoMore ==
    ASSUME NEW S, IsFiniteSet(S), NEW T \in SUBSET S, NEW most \in Nat,
           Cardinality(S) <= most
    PROVE  Cardinality(T) <= most
  <1>1. Cardinality(S) \in Nat /\ Cardinality(T) \in Nat /\ Cardinality(T) <= Cardinality(S)
    BY FS_Subset, FS_CardinalityType
  <1> QED
    BY <1>1

(* Sets of messages are finite.                                            *)
LEMMA FiniteMessages ==
    ASSUME NEW S \in SUBSET Messages
    PROVE  IsFiniteSet(S) /\ Cardinality(S) \in Nat
  BY MessagesAssumption, FS_Subset, FS_CardinalityType

-----------------------------------------------------------------------------
(***************************************************************************)
(* The sponsor's messages.                                                 *)
(***************************************************************************)

Requests == {"none", "claimed", "sent", "over"}
Chains == {"none", "sent", "landed", "failed"}

\* Of a message: its row r, what is being built b, its request q and transaction c at
\* time t, and whether it created an account, p.  A message is recorded once, works on
\* the row it claimed within PREPARED_TTL, and was claimed before it was sent.
MessageOK(r, b, q, c, t, p) ==
    /\ b # Idle => r = NoRow
    /\ r.outcome # "none" => r.preparedAt <= t /\ r.sentAt <= t
    /\ q \in {"claimed", "sent"} => r.outcome = "sent"
    /\ r.outcome \in SPENT => r.sentAt \in r.preparedAt..(r.preparedAt + PREPARED_TTL - 1)
    /\ c # "none" => q \in {"sent", "over"} /\ r.outcome \in {"sent", "landed", "failed"}
    /\ p => c = "landed" /\ r.asset # NoAsset

SponsorTypes ==
    /\ now \in 0..MaxTime
    /\ rows \in [Messages -> Rows \cup {NoRow}]
    /\ building \in [Messages -> Builds \cup {Idle}]
    /\ request \in [Messages -> Requests]
    /\ chain \in [Messages -> Chains]
    /\ user \in [Wallets -> {"absent", "active", "exited"}]
    /\ accounts \subseteq Wallets \X Assets
    /\ paid \subseteq Messages /\ unaddressed \subseteq Messages

\* And no two messages that count pay for one account.
SponsorInv ==
    /\ SponsorTypes
    /\ \A m \in Messages : MessageOK(rows[m], building[m], request[m], chain[m], now, m \in paid)
    /\ \A m, n \in Messages :
         /\ rows[m].outcome \in SPENT /\ rows[n].outcome \in SPENT
         /\ rows[m].wallet = rows[n].wallet
         /\ rows[m].asset = rows[n].asset /\ rows[m].asset # NoAsset
         => m = n

(* A row that is not there is told from those that are by its outcome.     *)
LEMMA RowShape ==
    ASSUME NEW r \in Rows \cup {NoRow}
    PROVE  /\ r.outcome \in Outcomes
           /\ r.outcome = "none" <=> r = NoRow
           /\ r.outcome # "none" =>
                /\ r \in Rows /\ r.wallet \in Wallets /\ r.ip \in Ips \cup {NoIp}
                /\ r.kind \in Kinds /\ r.asset \in Assets \cup {NoAsset}
                /\ r.preparedAt \in Nat /\ r.lastValid \in Nat /\ r.sentAt \in Nat
  BY DEF Rows, NoRow, Outcomes

\* Nothing but message m changes of the messages.
OnlyOf(m) ==
    \A n \in Messages \ {m} :
      /\ rows'[n] = rows[n] /\ building'[n] = building[n]
      /\ request'[n] = request[n] /\ chain'[n] = chain[n]
      /\ n \in paid' <=> n \in paid

(* A step of one message keeps the invariant if it leaves the message as   *)
(* it must be, and counts an account no other message counts (sponsor.ts). *)
LEMMA MessageStep ==
    ASSUME SponsorInv, SponsorTypes', NEW m \in Messages, OnlyOf(m), now' = now,
           MessageOK(rows'[m], building'[m], request'[m], chain'[m], now, m \in paid'),
           rows'[m].outcome \in SPENT /\ rows'[m].asset # NoAsset =>
             \A n \in Messages \ {m} :
               ~(/\ rows[n].outcome \in SPENT /\ rows[n].wallet = rows'[m].wallet
                 /\ rows[n].asset = rows'[m].asset)
    PROVE  SponsorInv'
  <1>1. \A n \in Messages :
          MessageOK(rows'[n], building'[n], request'[n], chain'[n], now', n \in paid')
    <2> TAKE n \in Messages
    <2>1. CASE n = m
      BY <2>1, Zenon
    <2>2. CASE n # m
      <3>1. MessageOK(rows[n], building[n], request[n], chain[n], now, n \in paid)
        BY DEF SponsorInv
      <3>2. /\ rows'[n] = rows[n] /\ building'[n] = building[n]
            /\ request'[n] = request[n] /\ chain'[n] = chain[n]
            /\ n \in paid' <=> n \in paid
        BY <2>2 DEF OnlyOf
      <3> QED
        BY <3>1, <3>2 DEF MessageOK
    <2> QED
      BY <2>1, <2>2
  <1>2. ASSUME NEW n \in Messages, NEW o \in Messages,
               rows'[n].outcome \in SPENT, rows'[o].outcome \in SPENT,
               rows'[n].wallet = rows'[o].wallet,
               rows'[n].asset = rows'[o].asset, rows'[n].asset # NoAsset
        PROVE  n = o
    <2>1. CASE n # m /\ o # m
      BY <1>2, <2>1 DEF SponsorInv, OnlyOf
    <2>2. CASE n = m /\ o # m
      BY <1>2, <2>2 DEF OnlyOf
    <2>3. CASE n # m /\ o = m
      BY <1>2, <2>3 DEF OnlyOf
    <2> QED
      BY <2>1, <2>2, <2>3
  <1> QED
    BY <1>1, <1>2 DEF SponsorInv

(* What the invariant says of a message (sponsor.ts).                      *)
LEMMA MessageShape ==
    ASSUME SponsorInv, NEW m \in Messages
    PROVE  /\ rows[m] \in Rows \cup {NoRow} /\ building[m] \in Builds \cup {Idle}
           /\ request[m] \in Requests /\ chain[m] \in Chains
           /\ MessageOK(rows[m], building[m], request[m], chain[m], now, m \in paid)
           /\ now \in Nat /\ now \in 0..MaxTime /\ PREPARED_TTL \in Nat \ {0} /\ BLOCKHASH \in Nat
           /\ user \in [Wallets -> {"absent", "active", "exited"}]
           /\ accounts \subseteq Wallets \X Assets
           /\ paid \subseteq Messages /\ unaddressed \subseteq Messages
           /\ rows[m].outcome \in SPENT /\ rows[m].asset # NoAsset =>
                \A n \in Messages \ {m} :
                  ~(/\ rows[n].outcome \in SPENT /\ rows[n].wallet = rows[m].wallet
                    /\ rows[n].asset = rows[m].asset)
  <1>1. now \in Nat /\ PREPARED_TTL \in Nat \ {0} /\ BLOCKHASH \in Nat
    BY WindowsAssumption DEF SponsorInv, SponsorTypes
  <1> QED
    BY <1>1 DEF SponsorInv, SponsorTypes

(* A message is built where none is, and no row is there (prepare).        *)
LEMMA PrepareStep ==
    ASSUME SponsorInv, NEW m \in Messages, NEW w \in Wallets, NEW i \in Ips \cup {NoIp},
           NEW kind \in Kinds, NEW asset \in Assets, Prepare(m, w, i, kind, asset)
    PROVE  SponsorInv'
  <1> DEFINE k == [at |-> "built", wallet |-> w, ip |-> i, kind |-> kind, built |-> now,
                   asset |-> IF <<w, asset>> \notin accounts THEN asset ELSE NoAsset]
  <1>1. /\ building' = [building EXCEPT ![m] = k] /\ rows[m] = NoRow
        /\ UNCHANGED <<now, rows, request, chain, user, accounts, paid, unaddressed>>
    BY Zenon DEF Prepare
  <1>2. k \in Builds
    BY MessageShape DEF Builds
  <1> HIDE DEF k
  <1>3. MessageOK(rows[m], k, request[m], chain[m], now, m \in paid')
    BY <1>1, MessageShape DEF MessageOK
  <1>4. SponsorTypes'
    BY <1>1, <1>2 DEF SponsorInv, SponsorTypes
  <1>5. OnlyOf(m) /\ building'[m] = k
    BY <1>1 DEF SponsorInv, SponsorTypes, OnlyOf
  <1>6. rows[m].outcome \notin SPENT
    BY <1>1 DEF NoRow, SPENT
  <1> QED
    BY <1>1, <1>3, <1>4, <1>5, <1>6, MessageStep

(* What was built is recorded, and nothing of it was sent (savePrepared).  *)
LEMMA RecordStep ==
    ASSUME SponsorInv, NEW m \in Messages, RecordPrepared(m)
    PROVE  SponsorInv'
  <1> DEFINE b == building[m]
             r == [outcome |-> "prepared", wallet |-> b.wallet, ip |-> b.ip, kind |-> b.kind,
                   asset |-> b.asset, preparedAt |-> now, lastValid |-> b.built + BLOCKHASH,
                   sentAt |-> 0]
  <1>1. /\ b.at = "built" /\ rows' = [rows EXCEPT ![m] = r]
        /\ building' = [building EXCEPT ![m] = Idle]
        /\ UNCHANGED <<now, request, chain, user, accounts, paid, unaddressed>>
    BY Zenon DEF RecordPrepared
  <1>2. b \in Builds /\ b # Idle
    BY <1>1, MessageShape DEF Idle
  <1>3. /\ r \in Rows /\ r.outcome = "prepared" /\ r.preparedAt = now /\ r.sentAt = 0
    BY <1>2, MessageShape DEF Builds, Rows, Outcomes
  <1>4. rows[m] = NoRow
    BY <1>2, MessageShape DEF MessageOK
  <1> HIDE DEF b, r
  <1>5. MessageOK(r, Idle, request[m], chain[m], now, m \in paid')
    BY <1>1, <1>3, <1>4, MessageShape DEF MessageOK, SPENT, NoRow
  <1>6. r.outcome \notin SPENT
    BY <1>3 DEF SPENT
  <1>7. SponsorTypes'
    BY <1>1, <1>3 DEF SponsorInv, SponsorTypes
  <1>8. OnlyOf(m) /\ rows'[m] = r /\ building'[m] = Idle
    BY <1>1 DEF SponsorInv, SponsorTypes, OnlyOf
  <1> QED
    BY <1>1, <1>5, <1>6, <1>7, <1>8, MessageStep

(* A claim counts the message when no other that counts pays for the same  *)
(* account, within PREPARED_TTL (claimSend).                               *)
LEMMA ClaimStep ==
    ASSUME SponsorInv, NEW m \in Messages, NEW i \in Ips \cup {NoIp}, Claim(m, i)
    PROVE  SponsorInv'
  <1> DEFINE r == [rows[m] EXCEPT !.ip = IF i = NoIp THEN rows[m].ip ELSE i,
                                  !.outcome = "sent", !.sentAt = now]
  <1>1. /\ rows[m].outcome = "prepared" /\ Within(PREPARED_TTL, rows[m].preparedAt)
        /\ rows[m].asset # NoAsset => ~AssetAccountPaid(rows[m].wallet, rows[m].asset, {m})
        /\ request' = [request EXCEPT ![m] = "claimed"]
        /\ unaddressed' = IF i = NoIp THEN unaddressed \cup {m} ELSE unaddressed
        /\ UNCHANGED <<now, building, chain, user, accounts, paid>>
    BY DEF Claim, Claimable
  <1>2. /\ rows[m] \in Rows /\ rows[m].preparedAt \in Nat /\ rows[m].ip \in Ips \cup {NoIp}
    BY <1>1, MessageShape, RowShape
  <1>3. rows' = [rows EXCEPT ![m] = r]
    BY <1>2 DEF Claim, SponsorInv, SponsorTypes
  <1>4. /\ r \in Rows /\ r.outcome = "sent" /\ r.sentAt = now
        /\ r.preparedAt = rows[m].preparedAt /\ r.asset = rows[m].asset
        /\ r.wallet = rows[m].wallet
    BY <1>2, MessageShape DEF Rows, Outcomes
  <1> HIDE DEF r
  <1>5. r.sentAt \in r.preparedAt..(r.preparedAt + PREPARED_TTL - 1)
    BY <1>1, <1>2, <1>4, MessageShape DEF Within, MessageOK
  <1>6. building[m] = Idle
    <2>1. rows[m] # NoRow
      BY <1>1 DEF NoRow
    <2> QED
      BY <2>1, MessageShape DEF MessageOK
  <1>7. chain[m] = "none" /\ m \notin paid
    BY <1>1, MessageShape DEF MessageOK
  <1>8. MessageOK(r, building[m], "claimed", chain[m], now, m \in paid')
    BY <1>1, <1>4, <1>5, <1>6, <1>7, MessageShape DEF MessageOK
  <1>9. ASSUME r.asset # NoAsset, NEW n \in Messages \ {m}
        PROVE  ~(rows[n].outcome \in SPENT /\ rows[n].wallet = r.wallet /\ rows[n].asset = r.asset)
    BY <1>1, <1>4, <1>9 DEF AssetAccountPaid, OfWallet, Spent
  <1>10. SponsorTypes'
    BY <1>1, <1>3, <1>4 DEF SponsorInv, SponsorTypes, Requests
  <1>11. OnlyOf(m) /\ rows'[m] = r /\ request'[m] = "claimed"
    BY <1>1, <1>3 DEF SponsorInv, SponsorTypes, OnlyOf
  <1> QED
    BY <1>1, <1>8, <1>9, <1>10, <1>11, MessageStep

(* The outcome of a claimed message is settled as sent, landed or failed   *)
(* (settle).                                                               *)
LEMMA SettleStep ==
    ASSUME SponsorInv, NEW m \in Messages, request[m] \in {"claimed", "sent"},
           NEW outcome \in {"landed", "failed"}, Settle(m, outcome)
    PROVE  SponsorInv'
  <1> DEFINE r == [rows[m] EXCEPT !.outcome = outcome]
  <1>1. /\ rows' = [rows EXCEPT ![m] = r] /\ request' = [request EXCEPT ![m] = "over"]
        /\ UNCHANGED <<now, building, chain, user, accounts, paid, unaddressed>>
    <2>1. rows \in [Messages -> Rows \cup {NoRow}]
      BY DEF SponsorInv, SponsorTypes
    <2> QED
      BY <2>1 DEF Settle
  <1>2. rows[m].outcome = "sent"
    BY MessageShape DEF MessageOK
  <1>3. rows[m] \in Rows /\ rows[m] # NoRow
    BY <1>2, MessageShape, RowShape
  <1>4. /\ r \in Rows /\ r.outcome = outcome /\ r.sentAt = rows[m].sentAt
        /\ r.preparedAt = rows[m].preparedAt /\ r.asset = rows[m].asset
        /\ r.wallet = rows[m].wallet
    BY <1>3 DEF Rows, Outcomes
  <1> HIDE DEF r
  <1>5. MessageOK(r, building[m], "over", chain[m], now, m \in paid')
    BY <1>1, <1>2, <1>3, <1>4, MessageShape DEF MessageOK, SPENT
  <1>6. r.outcome \in SPENT /\ r.asset # NoAsset =>
          \A n \in Messages \ {m} :
            ~(rows[n].outcome \in SPENT /\ rows[n].wallet = r.wallet /\ rows[n].asset = r.asset)
    BY <1>2, <1>4, MessageShape DEF SPENT
  <1>7. SponsorTypes'
    BY <1>1, <1>4 DEF SponsorInv, SponsorTypes, Requests
  <1>8. OnlyOf(m) /\ rows'[m] = r /\ request'[m] = "over"
    BY <1>1 DEF SponsorInv, SponsorTypes, OnlyOf
  <1> QED
    BY <1>1, <1>5, <1>6, <1>7, <1>8, MessageStep

(* A message is sent by the request that claimed it (submit).              *)
LEMMA SendStep ==
    ASSUME SponsorInv, NEW m \in Messages, Send(m)
    PROVE  SponsorInv'
  <1>1. /\ request[m] = "claimed"
        /\ request' = [request EXCEPT ![m] = "sent"] /\ chain' = [chain EXCEPT ![m] = "sent"]
        /\ UNCHANGED <<now, rows, building, user, accounts, paid, unaddressed>>
    BY DEF Send
  <1>2. rows[m].outcome = "sent" /\ m \notin paid
    BY <1>1, MessageShape DEF MessageOK
  <1>3. SponsorTypes'
    BY <1>1 DEF SponsorInv, SponsorTypes, Requests, Chains
  <1>4. OnlyOf(m) /\ request'[m] = "sent" /\ chain'[m] = "sent"
    BY <1>1 DEF SponsorInv, SponsorTypes, OnlyOf
  <1>5. MessageOK(rows'[m], building'[m], request'[m], chain'[m], now, m \in paid')
    BY <1>1, <1>2, <1>4, MessageShape DEF MessageOK
  <1>6. rows'[m].outcome \in SPENT /\ rows'[m].asset # NoAsset =>
          \A n \in Messages \ {m} :
            ~(/\ rows[n].outcome \in SPENT /\ rows[n].wallet = rows'[m].wallet
              /\ rows[n].asset = rows'[m].asset)
    BY <1>1, MessageShape
  <1> QED
    BY <1>1, <1>3, <1>4, <1>5, <1>6, MessageStep

(* A request that stops leaves the claim (submit).                         *)
LEMMA AbandonStep ==
    ASSUME SponsorInv, NEW m \in Messages, Abandon(m)
    PROVE  SponsorInv'
  <1>1. /\ request[m] \in {"claimed", "sent"} /\ request' = [request EXCEPT ![m] = "over"]
        /\ UNCHANGED <<now, rows, building, chain, user, accounts, paid, unaddressed>>
    BY DEF Abandon
  <1>2. SponsorTypes'
    BY <1>1 DEF SponsorInv, SponsorTypes, Requests
  <1>3. OnlyOf(m) /\ request'[m] = "over"
    BY <1>1 DEF SponsorInv, SponsorTypes, OnlyOf
  <1>4. MessageOK(rows'[m], building'[m], request'[m], chain'[m], now, m \in paid')
    BY <1>1, <1>3, MessageShape DEF MessageOK
  <1>5. rows'[m].outcome \in SPENT /\ rows'[m].asset # NoAsset =>
          \A n \in Messages \ {m} :
            ~(/\ rows[n].outcome \in SPENT /\ rows[n].wallet = rows'[m].wallet
              /\ rows[n].asset = rows'[m].asset)
    BY <1>1, MessageShape
  <1> QED
    BY <1>1, <1>2, <1>3, <1>4, <1>5, MessageStep

(* A message that lands creates the account of its row, for which the      *)
(* sponsor pays (sponsor.ts).                                              *)
LEMMA ExecuteStep ==
    ASSUME SponsorInv, NEW m \in Messages, Execute(m)
    PROVE  SponsorInv'
  <1> DEFINE row == rows[m]
  <1>1. /\ chain[m] = "sent" /\ UNCHANGED <<now, rows, building, request, unaddressed>>
        /\ \/ /\ chain' = [chain EXCEPT ![m] = "landed"]
              /\ user' = [user EXCEPT ![row.wallet] = "active"]
              /\ \/ accounts' = accounts /\ paid' = paid
                 \/ /\ row.asset # NoAsset
                    /\ accounts' = accounts \cup {<<row.wallet, row.asset>>}
                    /\ paid' = paid \cup {m}
           \/ chain' = [chain EXCEPT ![m] = "failed"] /\ UNCHANGED <<user, accounts, paid>>
    BY DEF Execute
  <1>2. row.outcome \in {"sent", "landed", "failed"} /\ m \notin paid /\ row \in Rows \cup {NoRow}
    BY <1>1, MessageShape DEF MessageOK
  <1>3. row.wallet \in Wallets /\ row.asset \in Assets \cup {NoAsset}
    BY <1>2, RowShape
  <1> HIDE DEF row
  <1>4. SponsorTypes'
    <2>1. chain' \in [Messages -> Chains] /\ paid' \subseteq Messages
      BY <1>1 DEF SponsorInv, SponsorTypes, Chains
    <2>2. user' \in [Wallets -> {"absent", "active", "exited"}]
      BY <1>1 DEF SponsorInv, SponsorTypes
    <2>3. accounts' \subseteq Wallets \X Assets
      BY <1>1, <1>3 DEF SponsorInv, SponsorTypes
    <2> QED
      BY <1>1, <2>1, <2>2, <2>3 DEF SponsorInv, SponsorTypes
  <1>5. OnlyOf(m)
    BY <1>1 DEF SponsorInv, SponsorTypes, OnlyOf
  <1>6. /\ chain'[m] \in {"landed", "failed"}
        /\ m \in paid' => chain'[m] = "landed" /\ row.asset # NoAsset
    BY <1>1, <1>2 DEF SponsorInv, SponsorTypes
  <1>7. MessageOK(rows'[m], building'[m], request'[m], chain'[m], now, m \in paid')
    BY <1>1, <1>6, MessageShape DEF MessageOK, row
  <1>8. rows'[m].outcome \in SPENT /\ rows'[m].asset # NoAsset =>
          \A n \in Messages \ {m} :
            ~(/\ rows[n].outcome \in SPENT /\ rows[n].wallet = rows'[m].wallet
              /\ rows[n].asset = rows'[m].asset)
    BY <1>1, MessageShape
  <1> QED
    BY <1>1, <1>4, <1>5, <1>7, <1>8, MessageStep

(* Users, closed accounts and the clock change no message (sponsor.ts).    *)
LEMMA BesideMessages ==
    ASSUME SponsorInv, now' \in now..MaxTime,
           user' \in [Wallets -> {"absent", "active", "exited"}],
           accounts' \subseteq Wallets \X Assets,
           UNCHANGED <<rows, building, request, chain, paid, unaddressed>>
    PROVE  SponsorInv'
  <1>1. now \in Nat /\ now' \in Nat /\ now <= now' /\ now' \in 0..MaxTime
    BY WindowsAssumption DEF SponsorInv, SponsorTypes
  <1>2. SponsorTypes'
    BY <1>1 DEF SponsorInv, SponsorTypes
  <1>3. ASSUME NEW m \in Messages
        PROVE  MessageOK(rows'[m], building'[m], request'[m], chain'[m], now', m \in paid')
    <2>1. /\ rows[m] \in Rows \cup {NoRow}
          /\ MessageOK(rows[m], building[m], request[m], chain[m], now, m \in paid)
      BY <1>3, MessageShape
    <2>2. rows[m].outcome # "none" => rows[m].preparedAt \in Nat /\ rows[m].sentAt \in Nat
      BY <2>1, RowShape
    <2> QED
      BY <1>1, <2>1, <2>2 DEF MessageOK
  <1>4. \A m, n \in Messages :
          /\ rows'[m].outcome \in SPENT /\ rows'[n].outcome \in SPENT
          /\ rows'[m].wallet = rows'[n].wallet
          /\ rows'[m].asset = rows'[n].asset /\ rows'[m].asset # NoAsset
          => m = n
    BY DEF SponsorInv
  <1> QED
    BY <1>2, <1>3, <1>4 DEF SponsorInv

(* Every step of either route keeps the invariant (sponsor.ts, faucet.ts). *)
LEMMA SponsorStep == SponsorInv /\ [RoutesNext]_<<vars, route, faucet>> => SponsorInv'
  <1> SUFFICES ASSUME SponsorInv, [RoutesNext]_<<vars, route, faucet>> PROVE SponsorInv'
    OBVIOUS
  <1>1. /\ now \in 0..MaxTime /\ now \in Nat /\ MaxTime \in Nat
        /\ user \in [Wallets -> {"absent", "active", "exited"}]
        /\ accounts \subseteq Wallets \X Assets
    BY WindowsAssumption DEF SponsorInv, SponsorTypes
  <1>2. ASSUME NEW m \in Messages, NEW w \in Wallets, NEW i \in Ips \cup {NoIp},
               NEW kind \in Kinds, NEW asset \in Assets, Prepare(m, w, i, kind, asset)
        PROVE  SponsorInv'
    BY <1>2, PrepareStep
  <1>3. ASSUME NEW m \in Messages, RecordPrepared(m) PROVE SponsorInv'
    BY <1>3, RecordStep
  <1>4. ASSUME NEW m \in Messages, Submit(m) PROVE SponsorInv'
    <2>1. ASSUME NEW i \in Ips \cup {NoIp}, Claim(m, i) PROVE SponsorInv'
      BY <1>4, <2>1, ClaimStep
    <2>2. CASE RefuseToSend(m) \/ Confirmed(m) \/ Expired(m) \/ Unclear(m)
      <3>1. /\ request[m] \in {"claimed", "sent"}
            /\ Settle(m, "landed") \/ Settle(m, "failed")
        BY <2>2 DEF RefuseToSend, Confirmed, Expired, Unclear
      <3> QED
        BY <1>4, <3>1, SettleStep
    <2>3. CASE Send(m) \/ Abandon(m)
      BY <1>4, <2>3, SendStep, AbandonStep
    <2> QED
      BY <1>4, <2>1, <2>2, <2>3 DEF Submit
  <1>5. ASSUME NEW m \in Messages, Execute(m) PROVE SponsorInv'
    BY <1>5, ExecuteStep
  <1>6. ASSUME NEW w \in Wallets, Exit(w) PROVE SponsorInv'
    BY <1>1, <1>6, BesideMessages DEF Exit
  <1>7. ASSUME NEW account \in accounts, CloseAccount(account) PROVE SponsorInv'
    BY <1>1, <1>7, BesideMessages DEF CloseAccount
  <1>8. CASE Tick
    BY <1>1, <1>8, BesideMessages DEF Tick
  <1>9. CASE F!Next /\ UNCHANGED sponsor
    <2>1. now' = now \/ (now < MaxTime /\ now' = now + 1)
      BY <1>9 DEF F!Next, F!Tick, F!ReserveGrant, F!SendFaucet, F!Mint, F!SettleMinted,
         F!Release, F!Abandon
    <2>2. now' \in now..MaxTime
      BY <1>1, <2>1
    <2> QED
      BY <1>1, <1>9, <2>2, BesideMessages DEF sponsor
  <1>10. CASE UNCHANGED vars
    BY <1>1, <1>10, BesideMessages DEF vars
  <1> QED
    BY <1>2, <1>3, <1>4, <1>5, <1>6, <1>7, <1>8, <1>9, <1>10 DEF RoutesNext, Next

(* The invariant holds of an empty table (schema.ts).                      *)
LEMMA SponsorInit == RoutesInit => SponsorInv
  <1> SUFFICES ASSUME Init PROVE SponsorInv
    BY DEF RoutesInit
  <1>1. SponsorTypes
    BY WindowsAssumption DEF Init, SponsorTypes, Requests, Chains
  <1>2. \A m \in Messages : MessageOK(rows[m], building[m], request[m], chain[m], now, m \in paid)
    BY DEF Init, MessageOK, NoRow, SPENT
  <1> QED
    BY <1>1, <1>2 DEF Init, SponsorInv, NoRow, SPENT

(* So it holds always (sponsor.ts).                                        *)
LEMMA SponsorAlways == RoutesSpec => []SponsorInv
  BY SponsorInit, SponsorStep, PTL DEF RoutesSpec

(* Every variable of the sponsor is well typed: nothing happens in the     *)
(* future, a request works on the row it claimed, and no row was claimed   *)
(* later than PREPARED_TTL after it was prepared (claimSend).              *)
THEOREM SponsorTypesOK == RoutesSpec => []TypeOK
  <1>1. SponsorInv => TypeOK
    <2> SUFFICES ASSUME SponsorInv PROVE TypeOK
      OBVIOUS
    <2>1. \A m \in Messages :
            MessageOK(rows[m], building[m], request[m], chain[m], now, m \in paid)
      BY DEF SponsorInv
    <2>2. /\ \A m \in Recorded : rows[m].preparedAt <= now /\ rows[m].sentAt <= now
          /\ \A m \in Messages : request[m] \in {"claimed", "sent"} => rows[m].outcome = "sent"
          /\ \A m \in Spent :
               rows[m].sentAt \in rows[m].preparedAt..(rows[m].preparedAt + PREPARED_TTL - 1)
      BY <2>1 DEF MessageOK, Recorded, Spent
    <2> QED
      BY <2>2 DEF TypeOK, SponsorInv, SponsorTypes, Requests, Chains
  <1> QED
    BY <1>1, SponsorAlways, PTL

(* The sponsor pays for a wallet's account in an asset once, of all the    *)
(* messages the table does not call failed, for any number of messages     *)
(* out at once (assetAccountPaid).                                         *)
THEOREM PaidOnce == RoutesSpec => []CountedAccountPaidOnce
  <1>1. SponsorInv => CountedAccountPaidOnce
    <2> SUFFICES ASSUME SponsorInv, NEW m \in paid, NEW n \in paid,
                        rows[m].wallet = rows[n].wallet, rows[m].asset = rows[n].asset,
                        "failed" \notin {rows[m].outcome, rows[n].outcome}
                 PROVE  m = n
      BY DEF CountedAccountPaidOnce
    <2>1. m \in Messages /\ n \in Messages
      BY DEF SponsorInv, SponsorTypes
    <2>2. /\ rows[m].outcome \in SPENT /\ rows[n].outcome \in SPENT /\ rows[m].asset # NoAsset
      BY <2>1, MessageShape DEF MessageOK, SPENT
    <2> QED
      BY <2>1, <2>2 DEF SponsorInv
  <1> QED
    BY <1>1, SponsorAlways, PTL

-----------------------------------------------------------------------------
(***************************************************************************)
(* The limits.                                                             *)
(***************************************************************************)

\* WithinLimits, in the sets that the limits count.
LimitsInv ==
    /\ Cardinality(SentWithin(DAY)) <= SPONSOR_LIMITS["all"]
    /\ \A w \in Wallets :
         /\ Cardinality(OfWallet(SentWithin(DAY), w)) <= SPONSOR_LIMITS["wallet"]
         /\ Cardinality(Returns(OfWallet(SentWithin(RETURN_WINDOW), w))) <= RETURN_LIMIT
    /\ \A i \in Ips : Cardinality(OfIp(SentWithin(DAY), i) \ unaddressed) <= SPONSOR_LIMITS["ip"]

(* The limits and windows are numbers (sponsor.ts).                        *)
LEMMA LimitTypes ==
    /\ SPONSOR_LIMITS["all"] \in Nat \ {0} /\ SPONSOR_LIMITS["wallet"] \in Nat \ {0}
    /\ SPONSOR_LIMITS["ip"] \in Nat \ {0} /\ RETURN_LIMIT \in Nat \ {0}
    /\ DAY \in Nat \ {0} /\ RETURN_WINDOW \in Nat \ {0}
  BY LimitsAssumption, WindowsAssumption

(* The sets that the limits count are of messages, and finite (sendLimit). *)
LEMMA CountedFinite ==
    ASSUME NEW window, NEW w, NEW i, NEW P
    PROVE  /\ SentWithin(window) \subseteq Messages /\ IsFiniteSet(SentWithin(window))
           /\ IsFiniteSet(OfWallet(SentWithin(window), w))
           /\ IsFiniteSet(Returns(OfWallet(SentWithin(window), w)))
           /\ IsFiniteSet(OfIp(SentWithin(window), i))
           /\ IsFiniteSet(OfIp(SentWithin(window), i) \ P)
  <1>1. /\ SentWithin(window) \subseteq Messages
        /\ OfWallet(SentWithin(window), w) \subseteq Messages
        /\ Returns(OfWallet(SentWithin(window), w)) \subseteq Messages
        /\ OfIp(SentWithin(window), i) \subseteq Messages
        /\ OfIp(SentWithin(window), i) \ P \subseteq Messages
    BY DEF SentWithin, Spent, OfWallet, Returns, OfIp
  <1> QED
    BY <1>1, FiniteMessages

\* No message is counted that was not, and none is counted later.
CountsLess ==
    /\ now \in Nat /\ now' \in Nat /\ now <= now' /\ unaddressed \subseteq unaddressed'
    /\ \A n \in Messages : rows'[n].outcome \in SPENT =>
         /\ rows[n].outcome \in SPENT /\ rows'[n].wallet = rows[n].wallet
         /\ rows'[n].ip = rows[n].ip /\ rows'[n].kind = rows[n].kind
         /\ rows'[n].sentAt = rows[n].sentAt

(* A step that counts no more messages keeps within the limits (settle).   *)
LEMMA LimitsKept ==
    ASSUME SponsorInv, LimitsInv, CountsLess
    PROVE  LimitsInv'
  <1>1. \A n \in Messages : rows[n].outcome \in SPENT => rows[n].sentAt \in Nat
    BY MessageShape, RowShape DEF SPENT
  <1>2. \A window \in Nat : SentWithin(window)' \subseteq SentWithin(window)
    BY <1>1 DEF CountsLess, SentWithin, Spent, Within
  <1>3. \A n \in Messages : rows'[n].outcome \in SPENT =>
          /\ rows'[n].wallet = rows[n].wallet /\ rows'[n].ip = rows[n].ip
          /\ rows'[n].kind = rows[n].kind
    BY DEF CountsLess
  <1>4. SentWithin(DAY)' \subseteq SentWithin(DAY)
    BY <1>2, LimitTypes
  <1>5. ASSUME NEW w \in Wallets
        PROVE  /\ OfWallet(SentWithin(DAY), w)' \subseteq OfWallet(SentWithin(DAY), w)
               /\ Returns(OfWallet(SentWithin(RETURN_WINDOW), w))'
                    \subseteq Returns(OfWallet(SentWithin(RETURN_WINDOW), w))
    BY <1>2, <1>3, LimitTypes DEF OfWallet, Returns, SentWithin, Spent
  <1>6. ASSUME NEW i \in Ips
        PROVE  (OfIp(SentWithin(DAY), i) \ unaddressed)' \subseteq OfIp(SentWithin(DAY), i) \ unaddressed
    BY <1>3, <1>4 DEF OfIp, SentWithin, Spent, CountsLess
  <1>7. (Cardinality(SentWithin(DAY)) <= SPONSOR_LIMITS["all"])'
    <2>1. Cardinality(SentWithin(DAY)) <= SPONSOR_LIMITS["all"]
      BY DEF LimitsInv
    <2>2. IsFiniteSet(SentWithin(DAY)) /\ SPONSOR_LIMITS["all"] \in Nat
      BY CountedFinite, LimitTypes
    <2> QED
      BY <1>4, <2>1, <2>2, NoMore
  <1>8. ASSUME NEW w \in Wallets
        PROVE  /\ (Cardinality(OfWallet(SentWithin(DAY), w)) <= SPONSOR_LIMITS["wallet"])'
               /\ (Cardinality(Returns(OfWallet(SentWithin(RETURN_WINDOW), w))) <= RETURN_LIMIT)'
    <2>1. /\ Cardinality(OfWallet(SentWithin(DAY), w)) <= SPONSOR_LIMITS["wallet"]
          /\ Cardinality(Returns(OfWallet(SentWithin(RETURN_WINDOW), w))) <= RETURN_LIMIT
      BY <1>8 DEF LimitsInv
    <2>2. /\ IsFiniteSet(OfWallet(SentWithin(DAY), w)) /\ SPONSOR_LIMITS["wallet"] \in Nat
          /\ IsFiniteSet(Returns(OfWallet(SentWithin(RETURN_WINDOW), w))) /\ RETURN_LIMIT \in Nat
      BY CountedFinite, LimitTypes
    <2>3. (Cardinality(OfWallet(SentWithin(DAY), w)) <= SPONSOR_LIMITS["wallet"])'
      BY <1>5, <1>8, <2>1, <2>2, NoMore
    <2>4. (Cardinality(Returns(OfWallet(SentWithin(RETURN_WINDOW), w))) <= RETURN_LIMIT)'
      BY <1>5, <1>8, <2>1, <2>2, NoMore
    <2> QED
      BY <2>3, <2>4
  <1>9. ASSUME NEW i \in Ips
        PROVE  (Cardinality(OfIp(SentWithin(DAY), i) \ unaddressed) <= SPONSOR_LIMITS["ip"])'
    <2>1. Cardinality(OfIp(SentWithin(DAY), i) \ unaddressed) <= SPONSOR_LIMITS["ip"]
      BY <1>9 DEF LimitsInv
    <2>2. IsFiniteSet(OfIp(SentWithin(DAY), i) \ unaddressed) /\ SPONSOR_LIMITS["ip"] \in Nat
      BY CountedFinite, LimitTypes
    <2> QED
      BY <1>6, <1>9, <2>1, <2>2, NoMore
  <1> QED
    BY <1>7, <1>8, <1>9 DEF LimitsInv

(* What is refused no send is under each limit that counts it (sendLimit). *)
LEMMA UnderLimits ==
    ASSUME NEW w, NEW i, NEW kind, SendLimits(w, i, kind) = {}
    PROVE  /\ ~(Cardinality(SentWithin(DAY)) >= SPONSOR_LIMITS["all"])
           /\ ~(Cardinality(OfWallet(SentWithin(DAY), w)) >= SPONSOR_LIMITS["wallet"])
           /\ i # NoIp => ~(Cardinality(OfIp(SentWithin(DAY), i)) >= SPONSOR_LIMITS["ip"])
           /\ kind # "enroll" =>
                ~(Cardinality(Returns(OfWallet(SentWithin(RETURN_WINDOW), w))) >= RETURN_LIMIT)
  <1> DEFINE all == [of |-> SentWithin(DAY), most |-> SPONSOR_LIMITS["all"], window |-> DAY]
             wallet == [of |-> OfWallet(SentWithin(DAY), w), most |-> SPONSOR_LIMITS["wallet"],
                        window |-> DAY]
             ip == [of |-> OfIp(SentWithin(DAY), i), most |-> SPONSOR_LIMITS["ip"], window |-> DAY]
             back == [of |-> Returns(OfWallet(SentWithin(RETURN_WINDOW), w)),
                      most |-> RETURN_LIMIT, window |-> RETURN_WINDOW]
  <1>1. /\ all \in Counted(w, i, kind) /\ wallet \in Counted(w, i, kind)
        /\ i # NoIp => ip \in Counted(w, i, kind)
        /\ kind # "enroll" => back \in Counted(w, i, kind)
    BY Zenon DEF Counted
  <1>2. /\ all.of = SentWithin(DAY) /\ all.most = SPONSOR_LIMITS["all"]
        /\ wallet.of = OfWallet(SentWithin(DAY), w) /\ wallet.most = SPONSOR_LIMITS["wallet"]
        /\ ip.of = OfIp(SentWithin(DAY), i) /\ ip.most = SPONSOR_LIMITS["ip"]
        /\ back.of = Returns(OfWallet(SentWithin(RETURN_WINDOW), w)) /\ back.most = RETURN_LIMIT
    OBVIOUS
  <1> HIDE DEF all, wallet, ip, back
  <1>3. \A c \in Counted(w, i, kind) : ~(Cardinality(c.of) >= c.most)
    BY DEF SendLimits
  <1>4. /\ ~(Cardinality(all.of) >= all.most)
        /\ ~(Cardinality(wallet.of) >= wallet.most)
        /\ i # NoIp => ~(Cardinality(ip.of) >= ip.most)
        /\ kind # "enroll" => ~(Cardinality(back.of) >= back.most)
    BY <1>1, <1>3, Zenon
  <1> QED
    BY <1>2, <1>4, Zenon

(* A claim is made under every limit that counts it, and counts one more   *)
(* message in each (claimSend).                                            *)
LEMMA LimitsClaim ==
    ASSUME SponsorInv, LimitsInv, NEW m \in Messages, NEW j \in Ips \cup {NoIp}, Claim(m, j)
    PROVE  LimitsInv'
  <1>1. /\ rows[m].outcome = "prepared" /\ SendLimits(rows[m].wallet, j, rows[m].kind) = {}
        /\ rows' = [rows EXCEPT ![m].ip = IF j = NoIp THEN @ ELSE j,
                                ![m].outcome = "sent", ![m].sentAt = now]
        /\ unaddressed' = IF j = NoIp THEN unaddressed \cup {m} ELSE unaddressed
        /\ now' = now /\ now \in Nat
    BY MessageShape DEF Claim, Claimable
  <1>2. /\ rows[m] \in Rows /\ rows[m].wallet \in Wallets /\ rows[m].kind \in Kinds
        /\ rows \in [Messages -> Rows \cup {NoRow}]
    BY <1>1, MessageShape, RowShape DEF SponsorInv, SponsorTypes
  <1>3. /\ \A n \in Messages \ {m} : rows'[n] = rows[n]
        /\ rows'[m].wallet = rows[m].wallet /\ rows'[m].kind = rows[m].kind
        /\ j # NoIp => rows'[m].ip = j
    BY <1>1, <1>2 DEF Rows
  <1>4. \A window : SentWithin(window)' \subseteq SentWithin(window) \cup {m}
    BY <1>1, <1>3 DEF SentWithin, Spent, Within
  <1>5. /\ ~(Cardinality(SentWithin(DAY)) >= SPONSOR_LIMITS["all"])
        /\ ~(Cardinality(OfWallet(SentWithin(DAY), rows[m].wallet)) >= SPONSOR_LIMITS["wallet"])
        /\ j # NoIp => ~(Cardinality(OfIp(SentWithin(DAY), j)) >= SPONSOR_LIMITS["ip"])
        /\ rows[m].kind # "enroll" =>
             ~(Cardinality(Returns(OfWallet(SentWithin(RETURN_WINDOW), rows[m].wallet)))
                 >= RETURN_LIMIT)
    BY <1>1, UnderLimits
  <1>6. (Cardinality(SentWithin(DAY)) <= SPONSOR_LIMITS["all"])'
    <2>1. ~(Cardinality(SentWithin(DAY)) >= SPONSOR_LIMITS["all"])
      BY <1>5
    <2>2. IsFiniteSet(SentWithin(DAY)) /\ SPONSOR_LIMITS["all"] \in Nat
      BY CountedFinite, LimitTypes
    <2> QED
      BY <1>4, <2>1, <2>2, OneMore
  <1>7. ASSUME NEW w \in Wallets
        PROVE  (Cardinality(OfWallet(SentWithin(DAY), w)) <= SPONSOR_LIMITS["wallet"])'
    <2>1. IsFiniteSet(OfWallet(SentWithin(DAY), w)) /\ SPONSOR_LIMITS["wallet"] \in Nat
      BY CountedFinite, LimitTypes
    <2>2. CASE w = rows[m].wallet
      <3>1. ~(Cardinality(OfWallet(SentWithin(DAY), w)) >= SPONSOR_LIMITS["wallet"])
        BY <1>5, <2>2
      <3>2. OfWallet(SentWithin(DAY), w)' \subseteq OfWallet(SentWithin(DAY), w) \cup {m}
        BY <1>3, <1>4 DEF OfWallet, SentWithin, Spent
      <3> QED
        BY <2>1, <3>1, <3>2, OneMore
    <2>3. CASE w # rows[m].wallet
      <3>1. OfWallet(SentWithin(DAY), w)' \subseteq OfWallet(SentWithin(DAY), w)
        BY <1>3, <1>4, <2>3 DEF OfWallet, SentWithin, Spent
      <3>2. Cardinality(OfWallet(SentWithin(DAY), w)) <= SPONSOR_LIMITS["wallet"]
        BY <1>7 DEF LimitsInv
      <3> QED
        BY <2>1, <3>1, <3>2, NoMore
    <2> QED
      BY <2>2, <2>3
  <1>8. ASSUME NEW w \in Wallets
        PROVE  (Cardinality(Returns(OfWallet(SentWithin(RETURN_WINDOW), w))) <= RETURN_LIMIT)'
    <2> DEFINE returns == Returns(OfWallet(SentWithin(RETURN_WINDOW), w))
    <2>1. IsFiniteSet(returns) /\ RETURN_LIMIT \in Nat
      BY CountedFinite, LimitTypes
    <2>2. CASE w = rows[m].wallet /\ rows[m].kind = "reactivate"
      <3>1. ~(Cardinality(returns) >= RETURN_LIMIT)
        BY <1>5, <2>2
      <3>2. returns' \subseteq returns \cup {m}
        BY <1>3, <1>4 DEF Returns, OfWallet, SentWithin, Spent
      <3> HIDE DEF returns
      <3> QED
        BY <2>1, <3>1, <3>2, OneMore DEF returns
    <2>3. CASE w # rows[m].wallet \/ rows[m].kind # "reactivate"
      <3>1. returns' \subseteq returns
        BY <1>3, <1>4, <2>3 DEF Returns, OfWallet, SentWithin, Spent
      <3>2. Cardinality(returns) <= RETURN_LIMIT
        BY <1>8 DEF LimitsInv
      <3> QED
        BY <2>1, <3>1, <3>2, NoMore
    <2> QED
      BY <2>2, <2>3
  <1>9. ASSUME NEW i \in Ips
        PROVE  (Cardinality(OfIp(SentWithin(DAY), i) \ unaddressed) <= SPONSOR_LIMITS["ip"])'
    <2> DEFINE addressed == OfIp(SentWithin(DAY), i) \ unaddressed
    <2>1. IsFiniteSet(addressed) /\ SPONSOR_LIMITS["ip"] \in Nat
      BY CountedFinite, LimitTypes
    <2>2. CASE i = j
      <3>1. i # NoIp
        BY <1>9, NothingsAssumption
      <3>2. /\ ~(Cardinality(OfIp(SentWithin(DAY), i)) >= SPONSOR_LIMITS["ip"])
            /\ IsFiniteSet(OfIp(SentWithin(DAY), i))
        BY <1>5, <2>2, <3>1, CountedFinite
      <3>3. addressed' \subseteq OfIp(SentWithin(DAY), i) \cup {m}
        BY <1>3, <1>4 DEF OfIp, SentWithin, Spent
      <3> QED
        BY <2>1, <3>2, <3>3, OneMore
    <2>3. CASE i # j
      <3>1. addressed' \subseteq addressed
        BY <1>1, <1>3, <1>4, <2>3 DEF OfIp, SentWithin, Spent
      <3>2. Cardinality(addressed) <= SPONSOR_LIMITS["ip"]
        BY <1>9 DEF LimitsInv
      <3> QED
        BY <2>1, <3>1, <3>2, NoMore
    <2> QED
      BY <2>2, <2>3
  <1> QED
    BY <1>6, <1>7, <1>8, <1>9 DEF LimitsInv

(* Every step of either route keeps within the limits (claimSend).         *)
LEMMA LimitsStep ==
    SponsorInv /\ LimitsInv /\ [RoutesNext]_<<vars, route, faucet>> => LimitsInv'
  <1> SUFFICES ASSUME SponsorInv, LimitsInv, [RoutesNext]_<<vars, route, faucet>>
               PROVE  LimitsInv'
    OBVIOUS
  <1>1. now \in Nat
    BY WindowsAssumption DEF SponsorInv, SponsorTypes
  <1>2. ASSUME now' = now \/ now' = now + 1, UNCHANGED <<rows, unaddressed>>
        PROVE  LimitsInv'
    BY <1>1, <1>2, LimitsKept DEF CountsLess
  <1>3. ASSUME NEW m \in Messages, RecordPrepared(m) PROVE LimitsInv'
    <2>1. rows \in [Messages -> Rows \cup {NoRow}]
      BY DEF SponsorInv, SponsorTypes
    <2>2. /\ rows'[m].outcome = "prepared" /\ \A n \in Messages \ {m} : rows'[n] = rows[n]
          /\ now' = now /\ unaddressed' = unaddressed
      BY <1>3, <2>1 DEF RecordPrepared
    <2> QED
      BY <1>1, <2>2, LimitsKept DEF CountsLess, SPENT
  <1>4. ASSUME NEW m \in Messages, NEW outcome \in {"landed", "failed"},
               request[m] \in {"claimed", "sent"}, Settle(m, outcome)
        PROVE  LimitsInv'
    <2>1. rows \in [Messages -> Rows \cup {NoRow}] /\ rows[m].outcome = "sent"
      BY <1>4, MessageShape DEF SponsorInv, SponsorTypes, MessageOK
    <2>2. rows[m] \in Rows
      BY <2>1, RowShape
    <2>3. /\ rows'[m].wallet = rows[m].wallet /\ rows'[m].ip = rows[m].ip
          /\ rows'[m].kind = rows[m].kind /\ rows'[m].sentAt = rows[m].sentAt
          /\ \A n \in Messages \ {m} : rows'[n] = rows[n]
          /\ now' = now /\ unaddressed' = unaddressed
      BY <1>4, <2>1, <2>2 DEF Settle, Rows
    <2> QED
      BY <1>1, <2>1, <2>3, LimitsKept DEF CountsLess, SPENT
  <1>5. ASSUME NEW m \in Messages, Submit(m) PROVE LimitsInv'
    <2>1. ASSUME NEW i \in Ips \cup {NoIp}, Claim(m, i) PROVE LimitsInv'
      BY <1>5, <2>1, LimitsClaim
    <2>2. CASE RefuseToSend(m) \/ Confirmed(m) \/ Expired(m) \/ Unclear(m)
      <3>1. /\ request[m] \in {"claimed", "sent"}
            /\ Settle(m, "landed") \/ Settle(m, "failed")
        BY <2>2 DEF RefuseToSend, Confirmed, Expired, Unclear
      <3> QED
        BY <1>4, <1>5, <3>1
    <2>3. CASE Send(m) \/ Abandon(m)
      BY <1>2, <2>3 DEF Send, Abandon
    <2> QED
      BY <1>5, <2>1, <2>2, <2>3 DEF Submit
  <1>6. ASSUME NEW m \in Messages,
               \/ Execute(m)
               \/ \E w \in Wallets, i \in Ips \cup {NoIp}, kind \in Kinds, asset \in Assets :
                    Prepare(m, w, i, kind, asset)
        PROVE  LimitsInv'
    BY <1>2, <1>6 DEF Prepare, Execute
  <1>7. CASE (\E w \in Wallets : Exit(w)) \/ (\E account \in accounts : CloseAccount(account)) \/ Tick
    BY <1>2, <1>7 DEF Exit, CloseAccount, Tick
  <1>8. CASE F!Next /\ UNCHANGED sponsor
    BY <1>2, <1>8 DEF sponsor, F!Next, F!Tick, F!ReserveGrant, F!SendFaucet, F!Mint,
       F!SettleMinted, F!Release, F!Abandon
  <1>9. CASE UNCHANGED vars
    BY <1>2, <1>9 DEF vars
  <1> QED
    BY <1>3, <1>5, <1>6, <1>7, <1>8, <1>9 DEF RoutesNext, Next

(* Nothing counts in an empty table (schema.ts).                           *)
LEMMA LimitsInit == RoutesInit => LimitsInv
  <1> SUFFICES ASSUME Init PROVE LimitsInv
    BY DEF RoutesInit
  <1>1. \A window : SentWithin(window) = {}
    BY DEF Init, SentWithin, Spent, SPENT, NoRow
  <1>2. /\ \A w : OfWallet(SentWithin(DAY), w) = {}
        /\ \A w : Returns(OfWallet(SentWithin(RETURN_WINDOW), w)) = {}
        /\ \A i : OfIp(SentWithin(DAY), i) \ unaddressed = {}
    BY <1>1 DEF OfWallet, Returns, OfIp
  <1> QED
    BY <1>1, <1>2, FS_EmptySet, LimitTypes DEF LimitsInv

(* So the limits hold always (claimSend).                                  *)
LEMMA LimitsAlways == RoutesSpec => []LimitsInv
  <1>1. SponsorInv /\ LimitsInv /\ [RoutesNext]_<<vars, route, faucet>> => (SponsorInv /\ LimitsInv)'
    BY SponsorStep, LimitsStep
  <1> QED
    BY <1>1, SponsorInit, LimitsInit, PTL DEF RoutesSpec

(* What counts in a window was sent after its beginning (sendLimit).       *)
LEMMA SentAfter ==
    ASSUME SponsorInv, NEW window \in Nat
    PROVE  SentWithin(window) = {m \in {n \in Messages : rows[n].outcome \in {"sent", "landed"}} :
                                   rows[m].sentAt > now - window}
  <1>1. now \in Nat /\ \A n \in Messages : rows[n].outcome \in SPENT => rows[n].sentAt \in Nat
    BY MessageShape, RowShape, WindowsAssumption DEF SPENT, SponsorInv, SponsorTypes
  <1> QED
    BY <1>1 DEF SentWithin, Spent, SPENT, Within

(* What the table says the sponsor paid for is within SPONSOR_LIMITS and   *)
(* RETURN_LIMIT, for any limits and windows, and any number of requests at *)
(* once (claimSend, sendLimit).                                            *)
THEOREM LimitsHold == RoutesSpec => []WithinLimits
  <1>1. SponsorInv /\ LimitsInv => WithinLimits
    <2> SUFFICES ASSUME SponsorInv, LimitsInv PROVE WithinLimits
      OBVIOUS
    <2> DEFINE sent == {n \in Messages : rows[n].outcome \in {"sent", "landed"}}
               within(window) == {m \in sent : rows[m].sentAt > now - window}
    <2>1. SentWithin(DAY) = within(DAY) /\ SentWithin(RETURN_WINDOW) = within(RETURN_WINDOW)
      BY SentAfter, LimitTypes
    <2> HIDE DEF within
    <2>2. ASSUME NEW w \in Wallets
          PROVE  /\ {m \in within(DAY) : rows[m].wallet = w} = OfWallet(SentWithin(DAY), w)
                 /\ {m \in within(RETURN_WINDOW) : rows[m].wallet = w /\ rows[m].kind = "reactivate"}
                      = Returns(OfWallet(SentWithin(RETURN_WINDOW), w))
      BY <2>1 DEF OfWallet, Returns
    <2>3. ASSUME NEW i \in Ips
          PROVE  {m \in within(DAY) : rows[m].ip = i /\ m \notin unaddressed}
                   = OfIp(SentWithin(DAY), i) \ unaddressed
      BY <2>1 DEF OfIp
    <2>4. /\ Cardinality(within(DAY)) <= SPONSOR_LIMITS["all"]
          /\ \A w \in Wallets :
               /\ Cardinality({m \in within(DAY) : rows[m].wallet = w}) <= SPONSOR_LIMITS["wallet"]
               /\ Cardinality({m \in within(RETURN_WINDOW) :
                    rows[m].wallet = w /\ rows[m].kind = "reactivate"}) <= RETURN_LIMIT
          /\ \A i \in Ips :
               Cardinality({m \in within(DAY) : rows[m].ip = i /\ m \notin unaddressed})
                 <= SPONSOR_LIMITS["ip"]
      BY <2>1, <2>2, <2>3 DEF LimitsInv
    <2> QED
      BY <2>4, Zenon DEF WithinLimits, within
  <1> QED
    BY <1>1, SponsorAlways, LimitsAlways, PTL

(* What a refused send runs into is exactly used up, unless a request with *)
(* no address had a part in it, and counts messages with times (sendLimit).*)
LEMMA RefusedAtLimit ==
    ASSUME SponsorInv, LimitsInv, NEW w \in Wallets, NEW i \in Ips, NEW kind \in Kinds,
           NEW c \in SendLimits(w, i, kind)
    PROVE  /\ c.of \in SUBSET Messages /\ \A m \in c.of : rows[m].sentAt \in Nat
           /\ c.most \in Nat \ {0} /\ c.window \in Nat \ {0}
           /\ Cardinality(c.of) >= c.most
           /\ c.of \cap unaddressed = {} => Cardinality(c.of) <= c.most
  <1>1. c \in Counted(w, i, kind) /\ Cardinality(c.of) >= c.most
    BY DEF SendLimits
  <1>2. i # NoIp
    BY NothingsAssumption
  <1>3. \/ c = [of |-> OfWallet(SentWithin(DAY), w), most |-> SPONSOR_LIMITS["wallet"], window |-> DAY]
        \/ c = [of |-> SentWithin(DAY), most |-> SPONSOR_LIMITS["all"], window |-> DAY]
        \/ c = [of |-> OfIp(SentWithin(DAY), i), most |-> SPONSOR_LIMITS["ip"], window |-> DAY]
        \/ c = [of |-> Returns(OfWallet(SentWithin(RETURN_WINDOW), w)),
                most |-> RETURN_LIMIT, window |-> RETURN_WINDOW]
    BY <1>1, <1>2 DEF Counted
  <1>4. \/ /\ c.of = OfWallet(SentWithin(DAY), w) /\ c.most = SPONSOR_LIMITS["wallet"]
           /\ c.window = DAY
        \/ c.of = SentWithin(DAY) /\ c.most = SPONSOR_LIMITS["all"] /\ c.window = DAY
        \/ /\ c.of = OfIp(SentWithin(DAY), i) /\ c.most = SPONSOR_LIMITS["ip"]
           /\ c.window = DAY
        \/ /\ c.of = Returns(OfWallet(SentWithin(RETURN_WINDOW), w)) /\ c.most = RETURN_LIMIT
           /\ c.window = RETURN_WINDOW
    BY <1>3
  <1>5. c.most \in Nat \ {0} /\ c.window \in Nat \ {0}
    BY <1>4, LimitTypes
  <1>6. c.of \subseteq Spent
    BY <1>4 DEF SentWithin, OfWallet, OfIp, Returns
  <1>7. c.of \in SUBSET Messages /\ \A m \in c.of : rows[m].sentAt \in Nat
    BY <1>6, MessageShape, RowShape DEF Spent, SPENT
  <1>8. ASSUME c.of \cap unaddressed = {} PROVE Cardinality(c.of) <= c.most
    <2>1. CASE c.of = OfIp(SentWithin(DAY), i) /\ c.most = SPONSOR_LIMITS["ip"]
      <3>1. c.of = OfIp(SentWithin(DAY), i) \ unaddressed
        BY <1>8, <2>1
      <3> QED
        BY <2>1, <3>1 DEF LimitsInv
    <2>2. CASE ~(c.of = OfIp(SentWithin(DAY), i) /\ c.most = SPONSOR_LIMITS["ip"])
      BY <1>4, <2>2 DEF LimitsInv
    <2> QED
      BY <2>1, <2>2
  <1> QED
    BY <1>1, <1>5, <1>7, <1>8

(* A wait told to a refused request is enough for its limit and not longer *)
(* than it must be, for any limits and windows (retryAfter).               *)
THEOREM WaitSuffices == RoutesSpec => []WaitIsEnough
  <1>1. SponsorInv /\ LimitsInv => WaitIsEnough
    <2> SUFFICES ASSUME SponsorInv, LimitsInv, NEW w \in Wallets, NEW i \in Ips, NEW kind \in Kinds,
                        NEW c \in SendLimits(w, i, kind), c.of \cap unaddressed = {}
                 PROVE  /\ Cardinality({m \in c.of : rows[m].sentAt + c.window
                                                       > now + RetryAfter(c)}) < c.most
                        /\ Cardinality({m \in c.of : rows[m].sentAt + c.window
                                                       > now + RetryAfter(c) - 1}) >= c.most
      BY DEF WaitIsEnough
    <2> DEFINE times == {rows[m].sentAt : m \in c.of}
               first == Min(times)
    <2>1. /\ c.of \in SUBSET Messages /\ \A m \in c.of : rows[m].sentAt \in Nat
          /\ c.most \in Nat \ {0} /\ c.window \in Nat \ {0}
          /\ Cardinality(c.of) >= c.most /\ Cardinality(c.of) <= c.most
      BY RefusedAtLimit
    <2>2. IsFiniteSet(c.of) /\ Cardinality(c.of) \in Nat
      BY <2>1, FiniteMessages
    <2>3. c.of # {}
      BY <2>1, <2>2, FS_EmptySet
    <2>4. times \in SUBSET Nat /\ times # {}
      BY <2>1, <2>3
    <2>5. first \in times /\ \A s \in times : first <= s
      BY <2>4, Smallest
    <2>6. PICK m \in c.of : rows[m].sentAt = first
      BY <2>5
    <2>7. first \in Nat /\ \A n \in c.of : first <= rows[n].sentAt
      BY <2>4, <2>5
    <2>8. now \in Nat /\ RetryAfter(c) = first + c.window - now
      BY MessageShape, <2>1, <2>6 DEF RetryAfter
    <2> HIDE DEF times, first
    <2>9. now + RetryAfter(c) = first + c.window
      BY <2>1, <2>7, <2>8
    <2>10. {n \in c.of : rows[n].sentAt + c.window > now + RetryAfter(c)} \subseteq c.of \ {m}
      BY <2>1, <2>6, <2>7, <2>9
    <2>11. {n \in c.of : rows[n].sentAt + c.window > now + RetryAfter(c) - 1} = c.of
      <3>1. \A n \in c.of : rows[n].sentAt + c.window > first + c.window - 1
        BY <2>1, <2>7
      <3>2. \A n \in c.of : rows[n].sentAt + c.window > now + RetryAfter(c) - 1
        BY <2>1, <2>7, <2>8, <3>1
      <3> QED
        BY <3>2, Zenon
    <2>12. /\ IsFiniteSet(c.of \ {m}) /\ Cardinality(c.of \ {m}) = Cardinality(c.of) - 1
      BY <2>2, <2>6, FS_RemoveElement
    <2>13. Cardinality({n \in c.of : rows[n].sentAt + c.window > now + RetryAfter(c)})
             <= Cardinality(c.of \ {m})
      BY <2>10, <2>12, FS_Subset
    <2>14. Cardinality({n \in c.of : rows[n].sentAt + c.window > now + RetryAfter(c)}) \in Nat
      BY <2>10, <2>12, FS_Subset, FS_CardinalityType
    <2>15. Cardinality({n \in c.of : rows[n].sentAt + c.window > now + RetryAfter(c)}) < c.most
      BY <2>1, <2>2, <2>12, <2>13, <2>14
    <2> QED
      BY <2>1, <2>11, <2>15
  <1> QED
    BY <1>1, SponsorAlways, LimitsAlways, PTL

-----------------------------------------------------------------------------
(***************************************************************************)
(* The faucet's grants.                                                    *)
(***************************************************************************)

GrantRows == [wallet : FaucetWallets, ip : Ips \cup {NoIp}, grantedAt : Nat, signed : BOOLEAN]

FaucetTypes ==
    /\ now \in Nat
    /\ grants \in [Grants -> GrantRows \cup {F!NoGrant}]
    /\ granting \in [Grants -> {"none", "reserved", "sent", "over"}]
    /\ \A g \in Grants : granting[g] \in {"reserved", "sent"} => grants[g] \in GrantRows

GrantedTo(w) == {g \in F!Recent : grants[g].wallet = w}
GrantedAt(i) == {g \in F!Recent : grants[g].ip = i}

FaucetInv ==
    /\ FaucetTypes
    /\ \A w \in FaucetWallets : Cardinality(GrantedTo(w)) <= FAUCET_LIMITS["wallet"]
    /\ \A i \in Ips : Cardinality(GrantedAt(i)) <= FAUCET_LIMITS["ip"]

(* The number of elements is the same in every module (faucet.ts).         *)
LEMMA SameCardinality == \A S : F!Cardinality(S) = Cardinality(S)
  BY Zenon DEF F!Cardinality, Cardinality

(* The faucet's limits are numbers, and what they count is finite          *)
(* (reserveGrant).                                                         *)
LEMMA GrantsFinite ==
    ASSUME NEW w, NEW i
    PROVE  /\ IsFiniteSet(GrantedTo(w)) /\ IsFiniteSet(GrantedAt(i))
           /\ FAUCET_LIMITS["wallet"] \in Nat /\ FAUCET_LIMITS["ip"] \in Nat
           /\ FAUCET_WINDOW \in Nat \ {0}
  <1>1. GrantedTo(w) \in SUBSET Grants /\ GrantedAt(i) \in SUBSET Grants
    BY DEF GrantedTo, GrantedAt, F!Recent
  <1> QED
    BY <1>1, FaucetAssumption, FS_Subset

(* A reservation is told from none (faucet.ts).                            *)
LEMMA GrantShape == \A r \in GrantRows : r # F!NoGrant /\ r.grantedAt \in Nat
  BY DEF GrantRows, F!NoGrant

(* A step that grants nothing keeps within the limits (releaseGrant).      *)
LEMMA NothingGranted ==
    ASSUME FaucetInv, FaucetTypes', now <= now',
           \A g \in Grants : grants'[g] # F!NoGrant =>
             /\ grants[g] # F!NoGrant /\ grants'[g].wallet = grants[g].wallet
             /\ grants'[g].ip = grants[g].ip /\ grants'[g].grantedAt = grants[g].grantedAt
    PROVE  FaucetInv'
  <1>1. F!Recent' \subseteq F!Recent
    <2>1. now \in Nat /\ now' \in Nat /\ FAUCET_WINDOW \in Nat
      BY GrantsFinite DEF FaucetInv, FaucetTypes
    <2>2. \A g \in Grants : grants[g] # F!NoGrant => grants[g].grantedAt \in Nat
      BY GrantShape DEF FaucetInv, FaucetTypes
    <2> QED
      BY <2>1, <2>2 DEF F!Recent
  <1>2. /\ \A w : GrantedTo(w)' \subseteq GrantedTo(w)
        /\ \A i : GrantedAt(i)' \subseteq GrantedAt(i)
    BY <1>1 DEF GrantedTo, GrantedAt, F!Recent
  <1>3. ASSUME NEW w \in FaucetWallets
        PROVE  (Cardinality(GrantedTo(w)) <= FAUCET_LIMITS["wallet"])'
    <2>1. Cardinality(GrantedTo(w)) <= FAUCET_LIMITS["wallet"]
      BY DEF FaucetInv
    <2> QED
      BY <1>2, <2>1, GrantsFinite, NoMore
  <1>4. ASSUME NEW i \in Ips
        PROVE  (Cardinality(GrantedAt(i)) <= FAUCET_LIMITS["ip"])'
    <2>1. Cardinality(GrantedAt(i)) <= FAUCET_LIMITS["ip"]
      BY DEF FaucetInv
    <2> QED
      BY <1>2, <2>1, GrantsFinite, NoMore
  <1> QED
    BY <1>3, <1>4 DEF FaucetInv

(* A grant is reserved where its wallet and its address are below their    *)
(* limits (reserveGrant).                                                  *)
LEMMA GrantReserved ==
    ASSUME FaucetInv, NEW g \in Grants, NEW v \in FaucetWallets, NEW j \in Ips \cup {NoIp},
           F!ReserveGrant(g, v, j)
    PROVE  FaucetInv'
  <1> DEFINE r == [wallet |-> v, ip |-> j, grantedAt |-> now, signed |-> FALSE]
  <1>1. /\ grants' = [grants EXCEPT ![g] = r] /\ granting' = [granting EXCEPT ![g] = "reserved"]
        /\ ~(Cardinality(GrantedTo(v)) >= FAUCET_LIMITS["wallet"])
        /\ j # NoIp => ~(Cardinality(GrantedAt(j)) >= FAUCET_LIMITS["ip"])
        /\ now' = now
    <2>1. /\ grants' = [grants EXCEPT ![g] = r] /\ granting' = [granting EXCEPT ![g] = "reserved"]
          /\ Cardinality(GrantedTo(v)) < FAUCET_LIMITS["wallet"]
          /\ j # NoIp => Cardinality(GrantedAt(j)) < FAUCET_LIMITS["ip"]
          /\ now' = now
      BY SameCardinality, Zenon DEF F!ReserveGrant, GrantedTo, GrantedAt
    <2>2. /\ Cardinality(GrantedTo(v)) \in Nat /\ Cardinality(GrantedAt(j)) \in Nat
          /\ FAUCET_LIMITS["wallet"] \in Nat /\ FAUCET_LIMITS["ip"] \in Nat
      BY GrantsFinite, FS_CardinalityType
    <2> QED
      BY <2>1, <2>2
  <1>2. r \in GrantRows /\ r.wallet = v /\ r.ip = j
    BY DEF GrantRows, FaucetInv, FaucetTypes
  <1> HIDE DEF r
  <1>3. FaucetTypes'
    BY <1>1, <1>2 DEF FaucetInv, FaucetTypes
  <1>4. grants'[g] = r /\ \A h \in Grants \ {g} : grants'[h] = grants[h]
    BY <1>1 DEF FaucetInv, FaucetTypes
  <1>5. F!Recent' \subseteq F!Recent \cup {g}
    BY <1>1, <1>4 DEF F!Recent
  <1>6. ASSUME NEW w \in FaucetWallets
        PROVE  (Cardinality(GrantedTo(w)) <= FAUCET_LIMITS["wallet"])'
    <2>1. CASE w = v
      <3>1. GrantedTo(w)' \subseteq GrantedTo(w) \cup {g}
        BY <1>4, <1>5 DEF GrantedTo, F!Recent
      <3> QED
        BY <1>1, <2>1, <3>1, GrantsFinite, OneMore
    <2>2. CASE w # v
      <3>1. GrantedTo(w)' \subseteq GrantedTo(w)
        BY <1>2, <1>4, <1>5, <2>2 DEF GrantedTo, F!Recent
      <3>2. Cardinality(GrantedTo(w)) <= FAUCET_LIMITS["wallet"]
        BY DEF FaucetInv
      <3> QED
        BY <3>1, <3>2, GrantsFinite, NoMore
    <2> QED
      BY <2>1, <2>2
  <1>7. ASSUME NEW i \in Ips
        PROVE  (Cardinality(GrantedAt(i)) <= FAUCET_LIMITS["ip"])'
    <2>1. CASE i = j
      <3>1. GrantedAt(i)' \subseteq GrantedAt(i) \cup {g}
        BY <1>4, <1>5 DEF GrantedAt, F!Recent
      <3>2. i # NoIp
        BY NothingsAssumption
      <3> QED
        BY <1>1, <2>1, <3>1, <3>2, GrantsFinite, OneMore
    <2>2. CASE i # j
      <3>1. GrantedAt(i)' \subseteq GrantedAt(i)
        BY <1>2, <1>4, <1>5, <2>2 DEF GrantedAt, F!Recent
      <3>2. Cardinality(GrantedAt(i)) <= FAUCET_LIMITS["ip"]
        BY DEF FaucetInv
      <3> QED
        BY <3>1, <3>2, GrantsFinite, NoMore
    <2> QED
      BY <2>1, <2>2
  <1> QED
    BY <1>3, <1>6, <1>7 DEF FaucetInv

(* Every step of either route keeps the faucet's invariant: what comes     *)
(* after a reservation signs, keeps or releases it (faucet.ts).            *)
LEMMA FaucetStep == FaucetInv /\ [RoutesNext]_<<vars, route, faucet>> => FaucetInv'
  <1> SUFFICES ASSUME FaucetInv, [RoutesNext]_<<vars, route, faucet>> PROVE FaucetInv'
    OBVIOUS
  <1>1. FaucetTypes
    BY DEF FaucetInv
  <1>2. ASSUME now' = now \/ now' = now + 1, UNCHANGED faucet PROVE FaucetInv'
    <2>1. FaucetTypes' /\ now <= now'
      BY <1>1, <1>2 DEF FaucetTypes, faucet
    <2> QED
      BY <1>2, <2>1, NothingGranted DEF faucet
  <1>3. ASSUME NEW g \in Grants, F!SettleMinted(g) PROVE FaucetInv'
    <2>1. /\ granting[g] = "sent" /\ grants' = [grants EXCEPT ![g].signed = TRUE]
          /\ granting' = [granting EXCEPT ![g] = "over"] /\ now' = now
      BY <1>3 DEF F!SettleMinted
    <2>2. grants[g] \in GrantRows
      BY <1>1, <2>1 DEF FaucetTypes
    <2>3. /\ grants'[g] \in GrantRows /\ grants'[g].wallet = grants[g].wallet
          /\ grants'[g].ip = grants[g].ip /\ grants'[g].grantedAt = grants[g].grantedAt
          /\ \A h \in Grants \ {g} : grants'[h] = grants[h]
      BY <1>1, <2>1, <2>2 DEF FaucetTypes, GrantRows
    <2>4. FaucetTypes' /\ now <= now'
      <3>1. grants' \in [Grants -> GrantRows \cup {F!NoGrant}]
        BY <1>1, <2>1, <2>3 DEF FaucetTypes
      <3>2. granting'[g] = "over" /\ \A h \in Grants \ {g} : granting'[h] = granting[h]
        BY <1>1, <2>1 DEF FaucetTypes
      <3> QED
        BY <1>1, <2>1, <2>3, <3>1, <3>2 DEF FaucetTypes
    <2> QED
      BY <2>2, <2>3, <2>4, GrantShape, NothingGranted
  <1>4. ASSUME NEW g \in Grants, F!Release(g) PROVE FaucetInv'
    <2>1. /\ grants' = [grants EXCEPT ![g] = F!NoGrant]
          /\ granting' = [granting EXCEPT ![g] = "over"] /\ now' = now
      BY <1>4 DEF F!Release
    <2>2. grants'[g] = F!NoGrant /\ \A h \in Grants \ {g} : grants'[h] = grants[h]
      BY <1>1, <2>1 DEF FaucetTypes
    <2>3. FaucetTypes' /\ now <= now'
      BY <1>1, <2>1 DEF FaucetTypes
    <2> QED
      BY <2>2, <2>3, NothingGranted
  <1>5. ASSUME NEW g \in Grants, F!SendFaucet(g) \/ F!Mint(g) \/ F!Abandon(g) PROVE FaucetInv'
    <2>1. FaucetTypes' /\ now <= now' /\ grants' = grants
      BY <1>1, <1>5 DEF FaucetTypes, F!SendFaucet, F!Mint, F!Abandon
    <2> QED
      BY <2>1, NothingGranted
  <1>6. CASE F!Next
    BY <1>2, <1>3, <1>4, <1>5, <1>6, GrantReserved DEF F!Next, F!Tick, faucet
  <1>7. CASE Next /\ UNCHANGED faucet
    <2>1. CASE Tick
      BY <1>2, <1>7, <2>1 DEF Tick
    <2>2. CASE ~Tick
      <3>1. now' = now
        <4>1. ASSUME NEW m \in Messages, Submit(m) PROVE now' = now
          BY <4>1 DEF Submit, Claim, RefuseToSend, Send, Confirmed, Expired, Unclear, Abandon, Settle
        <4>2. ASSUME NEW m \in Messages, RecordPrepared(m) \/ Execute(m) PROVE now' = now
          BY <4>2 DEF RecordPrepared, Execute
        <4>3. ASSUME NEW m \in Messages, NEW w \in Wallets, NEW i \in Ips \cup {NoIp},
                     NEW kind \in Kinds, NEW asset \in Assets, Prepare(m, w, i, kind, asset)
              PROVE  now' = now
          BY <4>3, Zenon DEF Prepare
        <4>4. CASE (\E w \in Wallets : Exit(w)) \/ (\E account \in accounts : CloseAccount(account))
          BY <4>4, Zenon DEF Exit, CloseAccount
        <4> QED
          BY <1>7, <2>2, <4>1, <4>2, <4>3, <4>4, Zenon DEF Next
      <3> QED
        BY <1>2, <1>7, <3>1
    <2> QED
      BY <2>1, <2>2
  <1>8. CASE UNCHANGED <<vars, route, faucet>>
    BY <1>2, <1>8 DEF vars
  <1> QED
    BY <1>6, <1>7, <1>8 DEF RoutesNext

(* Of the grants that were not released, each wallet and each address has  *)
(* at most its number in every window, for any number of requests at once  *)
(* (reserveGrant).                                                         *)
THEOREM GrantsHold == RoutesSpec => []GrantsWithinLimits
  <1>1. RoutesInit => FaucetInv
    <2> SUFFICES ASSUME Init, F!Init PROVE FaucetInv
      BY DEF RoutesInit
    <2>1. FaucetTypes
      BY DEF Init, F!Init, FaucetTypes
    <2>2. \A w : GrantedTo(w) = {} /\ GrantedAt(w) = {}
      BY DEF F!Init, GrantedTo, GrantedAt, F!Recent
    <2> QED
      BY <2>1, <2>2, FS_EmptySet, GrantsFinite DEF FaucetInv
  <1>2. FaucetInv => GrantsWithinLimits
    <2> SUFFICES ASSUME FaucetInv PROVE GrantsWithinLimits
      OBVIOUS
    <2> DEFINE within == {g \in Grants : grants[g] # F!NoGrant
                                          /\ grants[g].grantedAt > now - FAUCET_WINDOW}
    <2>1. within = F!Recent
      <3>1. now \in Nat /\ FAUCET_WINDOW \in Nat
        BY GrantsFinite DEF FaucetInv, FaucetTypes
      <3>2. \A g \in Grants : grants[g] # F!NoGrant => grants[g].grantedAt \in Nat
        BY GrantShape DEF FaucetInv, FaucetTypes
      <3> QED
        BY <3>1, <3>2 DEF F!Recent
    <2> HIDE DEF within
    <2>2. /\ \A w \in FaucetWallets :
               F!Cardinality({g \in within : grants[g].wallet = w}) <= FAUCET_LIMITS["wallet"]
          /\ \A i \in Ips :
               F!Cardinality({g \in within : grants[g].ip = i}) <= FAUCET_LIMITS["ip"]
      BY <2>1, SameCardinality, Zenon DEF FaucetInv, GrantedTo, GrantedAt
    <2> QED
      BY <2>2, Zenon DEF GrantsWithinLimits, F!GrantsWithinLimits, within
  <1> QED
    BY <1>1, <1>2, FaucetStep, PTL DEF RoutesSpec
=============================================================================
