CONSTANTS
  h1 = h1
  h2 = h2
  h3 = h3
  h4 = h4
  Handles <- MC_Handles
  UsizeModulus <- MC_UsizeModulus
SPECIFICATION Spec
PROPERTIES
  NoLeak
