\* One case with a trace before one without.
SPECIFICATION Spec
CONSTANTS
  k1 = k1  k2 = k2  s1 = s1  s2 = s2
  CaseCount = 2
  MaxTraces = 2
  KBs = {k1, k2}
  ScopeKB = k1
  Sessions = {s1}
  Online <- MCOnline
  Annotations <- MCAnnotations
  NoKB = NoKB
  NotARow = NotARow
  Unrecorded = Unrecorded
INVARIANT UnboundIsSkipped
