\* Eleven small directories, converted twice.
CONSTANTS
  Words <- AllWords
  HWords = {"h", "html"}
  Unreadable <- UnreadableNames
  ReadOnly <- ReadOnlyNames
  MaxOpen = 3
  MaxRuns = 2
  Directories <- SmallDirectories
  Subdirs <- SubdirNames
  Contents <- SomeBytes
  HexInputs <- HexTexts
SPECIFICATION ConverterSpec
CHECK_DEADLOCK FALSE
INVARIANTS HeadersHold TablesAgree WordsWritten
PROPERTY WalksEnd
