-------------------------------- MODULE MCDemoPayments --------------------------------
EXTENDS DemoPayments, TLC

Symmetry == Permutations(Keys) \cup Permutations(Calls)
=======================================================================================
