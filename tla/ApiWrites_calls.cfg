\* Two calls at a time under one key, of the same request or of two, while others edit and revoke.
SPECIFICATION Spec
CONSTANTS
  c1 = c1
  c2 = c2
  k1 = k1
  Calls = {c1, c2}
  Keys = {k1}
  Titles = {"old", "new"}
  LastDue = 1
  Bodies <- MC_Bodies
  MaxCalls = 3
SYMMETRY Alike
INVARIANTS OncePerKey SuccessIsTrue
PROPERTIES ImplementsIdempotency OnlyAsObserved OnlyWithRights
