CONSTANTS
  p1 = p1
  p2 = p2
  e1 = e1
  e2 = e2
  k1 = k1
  k2 = k2
  s1 = s1
  s2 = s2
  t1 = t1
  a1 = a1
  a2 = a2
  Proc = {p1, p2}
  Engine = {e1, e2}
  State = {a1, a2}
  NoEngine = NoEngine
  NoState = NoState
  Configs <- MCConfigs
  SecretName = {k1, k2}
  Salts = {s1, s2}
  Text = {t1}
  CacheMax = 2
  IterMax = 2
  IterDefault = 2
  Existing <- MCExisting
  MaxStored = 7
  NoSalt = NoSalt
  NoSecret = NoSecret
  NoKey = NoKey
  NoText = NoText
  NoValue = NoValue
  Failed = Failed
SYMMETRY MCSymmetry
SPECIFICATION Spec
INVARIANTS
  TypeOK
  CacheOrdered
  CacheTrue
  Readable
  OnlyVerifiedCached
PROPERTIES
  DecryptExact
  SaltKept
