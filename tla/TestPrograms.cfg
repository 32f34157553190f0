\* Each program on its own: chains of up to six nodes, ranges around the
\* largest with a format, a file that is absent, empty, short or long.
CONSTANTS
  Counts = {0, 1, 2, 5}
  Unwritten = Unwritten
  Ranges <- EnteredRanges
  Totals = {0, 2}
  Options = {1, 2, 3}
  Widest = 4
  Sizes <- FileSizes
  MaxWrites = 10
SPECIFICATION ProgramSpec
CHECK_DEADLOCK FALSE
INVARIANTS Reversed AnswersInRange FormatFits ReadsFresh
PROPERTY ReadsGoOn
