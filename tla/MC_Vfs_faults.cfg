CONSTANTS
  t1 = t1
  t2 = t2
  Tabs = {t1, t2}
  Uploads <- OneUpload
  FolderInputs <- MCFolderInputs
  RunScript = TRUE
  MaxClicks = 1
  MaxFaults = 1
SPECIFICATION Spec
PROPERTIES ViewNeverRegresses PageSettles
