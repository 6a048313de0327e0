CONSTANTS
  c1 = c1
  c2 = c2
  bad = bad
  id = id
  pwd = pwd
  mac = mac
  t1 = t1
  Class <- MCClass
  Table = {t1}
  Column <- MCColumn
  Marker = {}
  Dash = {}
  ClassKey <- MCClassKey
  Decl <- MCDecl
  Malformed = {bad}
  Lists <- MCLists
  Worker = {w1}
  NoClass = NoClass
  NoColumn = NoColumn
  NoTable = NoTable
  MaxSnap = 3
SPECIFICATION Spec
PROPERTIES
  AutoKeysKeepsSecretsApart
