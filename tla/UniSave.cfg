CONSTANTS
  Proc = {p1, p2}
  Key = {native, counted, keyed}
  Val = {v1, v2}
  Native = {native}
  KeyOnly = {keyed}
  Absent = Absent
SPECIFICATION Spec
SYMMETRY Alike
INVARIANTS
  TypeOK
  SaveEffective
  NeverOverwrites
  DuplicateOnlyByRace
  FallbackIsUpsert
