SPECIFICATION BackupSpec
CONSTANTS
  Digests <- TwoDigests
INVARIANTS
  GivesBackWhatWasThere
  RowsKeepFiles
