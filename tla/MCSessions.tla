---------------------------------- MODULE MCSessions ----------------------------------
EXTENDS Sessions, TLC

CONSTANTS k1, k2, c1, c2

\* One wallet in two spellings and with two Casper addresses, and another wallet.
MCWallets ==
  {[keys |-> k1, spelling |-> "mixed", casper |-> c1],
   [keys |-> k1, spelling |-> "lower", casper |-> c2],
   [keys |-> k2, spelling |-> "mixed", casper |-> c1]}

Symmetry == Permutations(Clients)
=======================================================================================
