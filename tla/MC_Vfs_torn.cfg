CONSTANTS
  t1 = t1
  t2 = t2
  Tabs = {t1}
  Uploads <- OneUpload
  FolderInputs <- NoFolderInputs
  RunScript = FALSE
  MaxClicks = 2
  MaxFaults = 1
SPECIFICATION Spec
INVARIANT RecordedUploadsKept
