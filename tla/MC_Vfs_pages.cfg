CONSTANTS
  t1 = t1
  t2 = t2
  Tabs = {t1, t2}
  Uploads <- DistinctUploads
  FolderInputs <- MCFolderInputs
  RunScript = FALSE
  MaxClicks = 2
  MaxFaults = 0
SPECIFICATION Spec
INVARIANT TypeOK
PROPERTY StoreRefinement
