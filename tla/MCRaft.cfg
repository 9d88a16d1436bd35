SPECIFICATION Spec
CONSTANTS
  a = a
  b = b
  c = c
  x = x
  Node <- MCNode
  Nobody = Nobody
  Command <- MCCommand
  Noop = Noop
  Budgets <- MCBudgets
SYMMETRY Symmetry
VIEW View
INVARIANTS OneLeaderPerTerm LogMatching ReadsAreCurrent
PROPERTY RaftIsAnAgreedLog
CHECK_DEADLOCK FALSE
