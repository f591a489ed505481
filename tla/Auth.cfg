SPECIFICATION Spec
CONSTANTS
  Users = {u1, u2}
  Sids = {s1, s2}
  Threads = {t1, t2}
  First = u1
  None = none
  MaxAttempts = 1
  MaxWord = 2
INVARIANTS PasswordIsLastChosen SomebodyEnabled NoSessionRevived AttemptsBounded
SYMMETRY Symmetric
