SPECIFICATION Spec
CONSTANTS
  Provider = {"p1", "p2", "p3"}
  Local = "local"
  Key = {"k1", "k2", "k3"}
  Declared <- MCDeclared
  Entries <- MCEntries
  MaxBuilds = 4
CHECK_DEADLOCK FALSE
INVARIANTS RegisterReplaces
