SPECIFICATION Spec
CONSTANTS
  Portals = {p1}
  Keys = {k1, k2, k3}
  NoKey = NoKey
PROPERTIES CompletedEvidenceIsImmutable
CHECK_DEADLOCK FALSE
