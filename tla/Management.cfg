SPECIFICATION WorkbenchSpec
CONSTANTS
  Handlers = {h1, h2}
  Requests = {q1, q2, q3}
  Validations = {v1}
  Overrides = {"own", "bad"}
  Invalid = {"bad"}
  Catalogs = {"c0", "c1"}
  Families = {"f0", "f1"}
  Written <- MCWritten
  Datasets <- MCDatasets
  Roots = {r0, r1}
  Contracts = {s0, s1}
  SeedOverride = "own"
  SeedCatalog = "c0"
  SeedFamilies = "f0"
  MaxShown = 2
  MaxRevision = 3
  MaxAudit = 4
  Clients = {u1, u2}
  Simulations = {k1}
  TurnIds = {n1, n2}
  MaxBuilt = 3
  MaxTurns = 1
  MaxTrouble = 2
SYMMETRY Symmetry
CHECK_DEADLOCK FALSE
INVARIANTS HistorySound PublishedWasShown TurnsRunInLiveSessions SessionsAreOwned
PROPERTIES CatalogImportKeepsTheRest ImplementsPublicationHistory
