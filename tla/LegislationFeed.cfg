CONSTANTS
  t1 = t1
  t2 = t2
  FirstText = t1
  NoText = NoText
  r1 = r1
  r2 = r2
  MaxLaws = 2
  Texts = {t1, t2}
  Runners = {r1, r2}
  MaxAmendments = 1
  MaxFaults = 2
SPECIFICATION Spec
INVARIANTS
  TypeOK
  NoneSwallowed
  OneJobPerText
PROPERTY
  Surfaces
