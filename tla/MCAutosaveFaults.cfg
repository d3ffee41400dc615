SPECIFICATION Spec
CONSTANTS
  t1 = t1
  Tabs = {t1}
  Char <- MCChar
  Texts <- MCTexts
  InitialDisk <- MCInitialDisk
  Faults = {"crash", "loss", "io", "outside"}
  MaxPosts = 2
INVARIANTS
  EditIsSentOrPending
  CleanSaveIsOnDisk
PROPERTIES
  CleanLoadShowsLastSave
