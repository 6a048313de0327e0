CONSTANTS
  lenient = lenient
  strict = strict
  nocheck = nocheck
  noseal = noseal
  nokeys = nokeys
  k1 = k1
  v1 = v1
  s1 = s1
  s2 = s2
  m1 = m1
  Engine = {lenient}
  Reader = {strict, nocheck, noseal, nokeys}
  Conf <- MCConf
  SecretName = {s1, s2}
  VerifyName = {m1}
  NoName = NoName
  Key = {k1, Empty}
  Val = {v1, Empty}
  KeyMarked = TRUE
  Hook <- MCHook
  CopyHook <- MCCopyHook
  Query <- MCQuery
  Foreign <- MCForeign
  Empty = Empty
  NoMac = NoMac
  Broken = Broken
  Failed = Failed
  Nobody = Nobody
  MaxSigned = 2
SPECIFICATION Spec
INVARIANTS
  TypeOK
  WrittenVerifies
  SecretSealed
  StrictAuthentic
  NothingSilent
  ReadsAsked
