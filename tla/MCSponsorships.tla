--------------------------- MODULE MCSponsorships ---------------------------
(***************************************************************************)
(* Values for model checking the app's two routes that spend.  They share  *)
(* nothing but the clock, so a behaviour is one of the sponsor or one of   *)
(* the faucet.                                                             *)
(***************************************************************************)
EXTENDS Sponsorships, TLC

CONSTANTS w1, w2, i1, noip, a, noasset, m1, m2, m3,
          Grants, FaucetWallets, FAUCET_LIMITS, FAUCET_WINDOW

VARIABLES route, grants, granting, mints

\* Every limit allows something, and a window has a length.
ASSUME FaucetAssumption ==
    /\ IsFiniteSet(Grants)
    /\ FAUCET_LIMITS \in [{"ip", "wallet"} -> Nat \ {0}]
    /\ FAUCET_WINDOW \in Nat \ {0}

F == INSTANCE Faucet WITH Wallets <- FaucetWallets

faucet == <<grants, granting, mints>>
sponsor == <<rows, building, request, chain, user, accounts, paid, unaddressed>>

RoutesInit == Init /\ F!Init /\ route \in {"sponsor", "faucet"}
RoutesNext ==
    \/ route = "sponsor" /\ Next /\ UNCHANGED <<route, faucet>>
    \/ route = "faucet" /\ F!Next /\ UNCHANGED <<route, sponsor>>
RoutesSpec == RoutesInit /\ [][RoutesNext]_<<vars, route, faucet>>

(* Faucet's property of the grants: within the faucet's limits.            *)
GrantsWithinLimits == F!GrantsWithinLimits

SendsADay == [all |-> 2, ip |-> 1, wallet |-> 2]
BuildsAnHour == [ip |-> 3, wallet |-> 2]
FaucetLimits == [ip |-> 2, wallet |-> 1]
Symmetry == Permutations({m1, m2, m3})
=============================================================================
