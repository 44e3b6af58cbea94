SPECIFICATION FairSpec
CONSTANTS
  Users = {owner}
  Owner = owner
  NoUser = NoUser
  Sessions = {s1, s2}
  NoSession = NoSession
  Codes = {c1, c2}
  Keys = {k1}
  Requests = {r1, r2}
  Window = 2
  MaxAttempts = 1
  Idle = 1
  Absolute = 3
  Validity = 1
  Operations <- AllOperations
  MaxChanges = 2
  MaxUses = 3
INVARIANTS SessionsAreEntitled GuessesBounded
PROPERTIES LockoutEnds
