SPECIFICATION TablesSpec
CONSTANTS
  Threads = {t1, t2, t3}
  Objects = {o1, o2, o3}
  MaxOpen = 2
SYMMETRY Symmetry
INVARIANTS TypeOK Ownership TableOpen CallsReachTheirObject ExitDeletesAll
  DllTypeOK DllOwnership DllTableOpen OrderlyCalls
