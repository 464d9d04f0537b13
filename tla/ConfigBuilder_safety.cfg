CONSTANTS
  c1 = c1
  c2 = c2
  verify_host = verify_host
  session_ticket = session_ticket
  hA = hA
  hB = hB
  Chains <- MC_Chains
  Categories <- MC_Categories
  Handlers <- MC_Handlers
  SessionTicketCb <- session_ticket
  CHAINS_MAX_COUNT = 4
  MaxOwned = 5
  OcspSupported = TRUE
SPECIFICATION Spec
INVARIANTS
  NoDanglingChain
  OcspMatchesRequest
  BInv
CHECK_DEADLOCK FALSE
