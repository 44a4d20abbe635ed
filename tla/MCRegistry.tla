----------------------------- MODULE MCRegistry ------------------------------
(* Instances of Registry for TLC. *)
EXTENDS Registry, TLC

CONSTANTS alice, bob, k1, k2

TwoWallets == {alice, bob}
TwoKeys == {k1, k2}
OneGoodKey == {k1}

\* Nothing tells the wallets apart.
Wallets == Permutations(TwoWallets)
==============================================================================
