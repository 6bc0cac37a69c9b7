SPECIFICATION FairSpec
CONSTANTS
  Inputs <- MCInputs
  Wanted <- MCWanted
  Assumed = {"usi"}
  MaxFds = 4
  BufLen = 3
  LineLen = 4
  IdentLen = 2
  HeadLen = 5
  MaxSize = 6
  BufSize = 32
  Texts <- MCTexts
  Page = 4
  MemTop = 36
  Headers <- MCHeaders
  Requests <- MCRequests
  TextLen <- MCTextLen
  PageSize = 3
  Space = 4
  MaxPages = 3
  MaxMaps = 2
  MaxText = 5
  HeapWords = {4, 5, 6, 7, 8, 9, 10, 11}
  Sizes = {1, 2}
  Aligns = {2, 4}
  HeaderLen = 2
INVARIANTS ListIsConfigured   LinesExact LossAccounted ExactReads Utf8Exact SegmentsLoaded SecondCallFills MappingsHold WrittenOnce FreesWhatItTook
PROPERTIES StartupEnds ReadsEnd
CHECK_DEADLOCK FALSE
