SPECIFICATION Spec
CONSTANT RamSize = 655360
CONSTANT FwSize = 442232
CONSTANT NvramLens <- OneNvram
CONSTANT TestSets <- SharedInfoSets
CONSTANT MaxLoads = 1
CHECK_DEADLOCK FALSE
INVARIANT SharedInfoIsApart
