SPECIFICATION FairSpec
CONSTANTS
  Scans = {s1, s2}
  Readers = {r1}
  Targets = {t1}
  PoolSize = 2
  NModules = 1
  MaxRestarts = 1
PROPERTIES
  EveryScanEndsOrHangs
  EveryReadEndsOrHangs
