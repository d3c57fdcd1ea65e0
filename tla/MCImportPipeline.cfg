SPECIFICATION Spec
CONSTANTS
  x = x
  y = y
  t1 = t1
  t2 = t2
  k1 = k1
  k2 = k2
  v = v
  w = w
  id = id
  other = other
  c1 = c1
  r1 = r1
  None = None
  Names = {x, y}
  Teams = {t1, t2}
  Keys = {k1, k2}
  Values = {v, w}
  SeasonsOf <- MCSeasonsOf
  Batches <- MCBatches
  Mappings = {id, other}
  Identity1 = id
  Clerks = {c1}
  Reviewers = {r1}
  Databases = {TRUE, FALSE}
  FirstRecords <- MCFirstRecords
  HandNames = {y}
  MaxImports = 2
  MaxWrites = 3
INVARIANTS
  ImportedOnce
  ContractsSound
  RowsTraced
PROPERTIES
  RosterErasesNothing
