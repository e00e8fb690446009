SPECIFICATION CatalogSpec
CONSTANTS
  Provider = {"p1", "p2"}
  Local = "local"
  Key = {"k1", "k2"}
  Declared <- MCDeclared
  Entries <- MCEntries
  MaxBuilds = 2
  IdOrder <- MCIdOrder
  NameOf <- MCNameOf
  CardOf <- MCCardOf
  Registries <- MCRegistries
  NativeMidi <- MCNativeMidi
  MaxAdded = 2
  MaxHandles = 1
CHECK_DEADLOCK FALSE
INVARIANTS OpenedIsPlanned SitesReleased CandidatesExact PlacedAsChosen
PROPERTIES OwnerStable LoadLeavesPrefix UnloadUndoesLoad
