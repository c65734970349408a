--------------------------------- MODULE MCHttpShell ----------------------------------
EXTENDS HttpShell, TLC

MCMax == [r \in Routes |-> IF r = "vault-pair" THEN 2 ELSE 1]
Symmetry == Permutations(Users) \cup Permutations(Campaigns)
=======================================================================================
