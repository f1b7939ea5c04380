SPECIFICATION Spec
CONSTANTS
  Null = Null
  Pcb = {p1, p2, p3, p4}
  Semd = {d1, d2, d3, d4}
  Key = {10, 20, 30, 40, 50}
SYMMETRY PcbSymmetry
INVARIANTS
  ListOK
  DescriptorsSuffice
  SemAddExact
PROPERTIES
  ImplementsSemQueues
