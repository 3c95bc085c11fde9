\* Four lookups: of two names, the first along a search path, and of one name's
\* other family; answers may be aliases of any name of the family.
CONSTANTS
  a = a
  b = b
  a6 = a6
  c1 = c1
  c2 = c2
  c3 = c3
  c4 = c4
  Names = {a, b, a6}
  Callers = {c1, c2, c3, c4}
  NULL = null
  Domain <- MCDomain
  is_ipv6 <- MCFamily
  Tries <- MCTries
  NServers = 2
  Attempts = 4
  MaxCnames = 2
SPECIFICATION FairSpec
INVARIANTS
  EachWaitsOnce
  AnswersAgree
PROPERTIES
  LookupsAnswered
\* every lookup is answered
CHECK_DEADLOCK FALSE
