SPECIFICATION Spec
CONSTANTS
  Threads = {run, refresh}
  SessionIDs = {1, 2}
  MaxMinute = 3
  MaxRows = 2
SYMMETRY Interchangeable
INVARIANTS TypeOK OverlapHeals RowsHaveOneOwner CommandsFollowMode ReadingsPure MinuteBooked
