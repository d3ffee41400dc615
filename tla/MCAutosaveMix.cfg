SPECIFICATION Spec
CONSTANTS
  t1 = t1
  Tabs = {t1}
  Char <- MCChar
  Texts <- MCLongAndShort
  InitialDisk <- MCInitialDisk
  Faults = {}
  MaxPosts = 2
INVARIANTS
  SavesDoNotMix
