CONSTANTS
  Files = {f1, f2}
  MaxChanges = 3
  MaxOthers = 1
SPECIFICATION FairSpec
INVARIANTS UploadedAtMostOnce NoStrandedFile NewFilesUploaded
PROPERTIES TreeIsEmptied
CHECK_DEADLOCK FALSE
