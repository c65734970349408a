---------------------------------- MODULE MCAuditLog ----------------------------------
EXTENDS AuditLog, TLC

Symmetry == Permutations(Users) \cup Permutations(Contents)
=======================================================================================
