SPECIFICATION Spec
CONSTANTS
  g1 = g1
  g2 = g2
  Gateways = {g1, g2}
  Contents <- MCContents
  MaxMtime = 2
SYMMETRY Symmetry
INVARIANTS ReloadApplies ContextsMatchConfig
