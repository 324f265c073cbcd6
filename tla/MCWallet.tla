------------------------------ MODULE MCWallet ------------------------------
(* Model-checking instances of Wallet.                                      *)
EXTENDS Wallet, TLC

(* The calls are interchangeable: no definition tells one from another.     *)
CallSymmetry == Permutations(Calls)
=============================================================================
