CONSTANTS
  t1 = t1
  t2 = t2
  Tabs = {t1}
  Uploads <- OneUpload
  FolderInputs <- MCFolderInputs
  RunScript = FALSE
  MaxClicks = 1
  MaxFaults = 0
SPECIFICATION Spec
INVARIANT AcknowledgedFolderSaved
