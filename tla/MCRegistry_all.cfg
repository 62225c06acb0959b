SPECIFICATION Spec
CHECK_DEADLOCK FALSE
SYMMETRY SymmetricRequests
CONSTANTS
  Requests = {r1, r2}
  Sessions = {"a", "b"}
  AtStart = {"a"}
  Urls = {u1}
  Tags = {g1}
  Tokens = {t1}
  Prefixes = {"p"}
  PrefixOf <- OnePrefixed
  Mixes <- Parts
  MaxRequests = 3
  MaxFaults = 1
INVARIANTS RegistryIsStored DeletedLeavesNothing TagsAreKept 
