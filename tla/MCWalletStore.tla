-------------------------- MODULE MCWalletStore --------------------------
(* Small instances of WalletStore for TLC. *)
EXTENDS WalletStore, TLC

CONSTANTS i1, i2, a1, o1, o2, b1, b2

Two == {i1, i2}
One == {a1}
NoAccounts == {}
Coins == {o1, o2}
NoCoins == {}
NoChange == {}
OneChange == {1}
Unlock == [o \in Outpoints |-> IF o = o1 THEN 0 ELSE 1]
Expiry == [o \in Outpoints |-> IF o = o1 THEN 1 ELSE None]
OneHash == {b1}
TwoHashes == {b1, b2}
TwoFees == 1..2
Symmetric == Permutations(Ids)
===========================================================================
