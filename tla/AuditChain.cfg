SPECIFICATION AuditSpec
CONSTANTS
  Users = {u1, u2}
  Contents = {w1, w2}
  MaxLimit = 3
  MaxEvents = 4
SYMMETRY Symmetry
INVARIANTS
  AuditTypeOK
  VerifiedListingIsTrue
  SoleUsersLogVerifies
