SPECIFICATION FairSpec
CONSTANTS
  t1 = t1
  Tabs = {t1}
  Char <- MCChar
  Texts <- MCLongAndShort
  InitialDisk <- MCNoFile
  Faults = {}
  MaxPosts = 2
PROPERTIES
  EventuallyOnDisk
