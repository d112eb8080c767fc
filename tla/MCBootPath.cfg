SPECIFICATION Spec
CONSTANT RamSize = 655360
CONSTANT FwSize = 442232
CONSTANT NvramLens <- MCNvramLens
CONSTANT TestSets <- MCTestSets
CONSTANT MaxLoads = 2
CHECK_DEADLOCK FALSE
INVARIANTS DownloadBeforeRelease ReleasedWhole DmaOnlyInDownload DownloadGivesBack
