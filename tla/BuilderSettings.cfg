CONSTANTS
  p1 = p1
  p2 = p2
  k1 = k1
  c1 = c1
  o1 = o1
  v1 = v1
  Protocols <- MC_Protocols
  LongProtocols <- MC_LongProtocols
  KeyNames <- MC_KeyNames
  KeyLens <- MC_KeyLens
  TrustCerts <- MC_TrustCerts
  Options <- MC_Options
  Values <- MC_Values
  MaxAlpn = 2
  U32Limit = 17
SPECIFICATION Spec
INVARIANTS
  AlpnMatchesRequest
PROPERTIES
  RejectedInputChangesNothing
