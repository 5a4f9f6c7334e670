--------------------------- MODULE MCCheckoutLock ---------------------------
(* Small instances of CheckoutLock. Accounts, devices and requests are       *)
(* interchangeable, the office account apart.                                *)
EXTENDS CheckoutLock, TLC

LockSymmetry ==
  Permutations(Officials \ {Office}) \union Permutations(Calls)
=============================================================================
