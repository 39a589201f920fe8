------------------------------- MODULE Faucet -------------------------------
(***************************************************************************)
(* The devnet faucet's route: a grant is reserved under a lock, minted,    *)
(* and kept with its signature or released.  A refusal is a step that is   *)
(* not enabled.                                                            *)
(***************************************************************************)
EXTENDS Naturals, FiniteSets

CONSTANTS Wallets, Ips, NoIp,
          Grants,              \* the reservations there can be
          FAUCET_LIMITS,       \* grants within the window: ip, wallet
          FAUCET_WINDOW,
          MaxTime

VARIABLES
    now,
    grants,     \* the table: a row per grant, until it is released
    granting,   \* the request of each grant
    mints       \* the grants' transactions: sent, or minted

vars == <<now, grants, granting, mints>>

NoGrant == [wallet |-> "none"]

Init ==
    /\ now = 0
    /\ grants = [g \in Grants |-> NoGrant]
    /\ granting = [g \in Grants |-> "none"]
    /\ mints = [g \in Grants |-> "none"]

\* Faulty: only minted grants are counted.
RecentSigned == {g \in Grants : /\ grants[g] # NoGrant /\ grants[g].signed
                                /\ grants[g].grantedAt + FAUCET_WINDOW > now}

Recent == {g \in Grants : grants[g] # NoGrant /\ grants[g].grantedAt + FAUCET_WINDOW > now}

ReserveGrant(g, w, i) ==
    /\ granting[g] = "none"
    /\ Cardinality({h \in Recent : grants[h].wallet = w}) < FAUCET_LIMITS["wallet"]
    /\ i # NoIp => Cardinality({h \in Recent : grants[h].ip = i}) < FAUCET_LIMITS["ip"]
    /\ grants' = [grants EXCEPT ![g] = [wallet |-> w, ip |-> i, grantedAt |-> now, signed |-> FALSE]]
    /\ granting' = [granting EXCEPT ![g] = "reserved"]
    /\ UNCHANGED <<now, mints>>

SendFaucet(g) ==
    /\ granting[g] = "reserved"
    /\ granting' = [granting EXCEPT ![g] = "sent"]
    /\ mints' = [mints EXCEPT ![g] = "sent"]
    /\ UNCHANGED <<now, grants>>

Mint(g) ==
    /\ mints[g] = "sent"
    /\ mints' = [mints EXCEPT ![g] = "minted"]
    /\ UNCHANGED <<now, grants, granting>>

\* The mint is confirmed, and its signature recorded.
SettleMinted(g) ==
    /\ granting[g] = "sent" /\ mints[g] = "minted"
    /\ grants' = [grants EXCEPT ![g].signed = TRUE]
    /\ granting' = [granting EXCEPT ![g] = "over"]
    /\ UNCHANGED <<now, mints>>

\* Whatever throws, before the send, in it or after it, releases the grant.
Release(g) ==
    /\ granting[g] \in {"reserved", "sent"}
    /\ grants' = [grants EXCEPT ![g] = NoGrant]
    /\ granting' = [granting EXCEPT ![g] = "over"]
    /\ UNCHANGED <<now, mints>>

\* The process stops, or the release throws.
Abandon(g) ==
    /\ granting[g] \in {"reserved", "sent"}
    /\ granting' = [granting EXCEPT ![g] = "over"]
    /\ UNCHANGED <<now, grants, mints>>

Tick ==
    /\ now < MaxTime
    /\ now' = now + 1
    /\ UNCHANGED <<grants, granting, mints>>

Next ==
    \/ \E g \in Grants :
         \/ \E w \in Wallets, i \in Ips \cup {NoIp} : ReserveGrant(g, w, i)
         \/ SendFaucet(g)
         \/ Mint(g)
         \/ SettleMinted(g)
         \/ Release(g)
         \/ Abandon(g)
    \/ Tick

Spec == Init /\ [][Next]_vars

-----------------------------------------------------------------------------
(* Of the grants that were not released, each wallet and each address has  *)
(* at most its number in every window, minted or not, however many         *)
(* requests run at once and whatever processes leave behind                *)
(* (reserveGrant).                                                         *)
GrantsWithinLimits ==
    LET within == {g \in Grants : grants[g] # NoGrant /\ grants[g].grantedAt > now - FAUCET_WINDOW}
    IN  /\ \A w \in Wallets :
             Cardinality({g \in within : grants[g].wallet = w}) <= FAUCET_LIMITS["wallet"]
        /\ \A i \in Ips : Cardinality({g \in within : grants[g].ip = i}) <= FAUCET_LIMITS["ip"]
=============================================================================
