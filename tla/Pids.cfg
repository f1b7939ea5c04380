SPECIFICATION Spec
CONSTANTS
  Pcb = {p1, p2, p3, p4}
  PidBound = 8
SYMMETRY PcbSymmetry
INVARIANTS
  LookupExact
PROPERTIES
  CyclicOrder
