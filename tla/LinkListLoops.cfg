\* Two lists and three entries, with loops over the lists.
CONSTANTS
  ListHead = {h1, h2}
  Entry = {e1, e2, e3}
  Garbage = Garbage
  None = None
SPECIFICATION FairLoopSpec
INVARIANTS IInv LoopVisitsAll
PROPERTIES ImplementsLists CallsKeepTheirPlace LoopEnds
