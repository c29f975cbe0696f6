CONSTANTS
  N = 4
  MaxArrivals = 6
  Data = {1, 2, 3, 4, 5, 6}
  NoDatum = none
SPECIFICATION StartupSpec
INVARIANTS  NothingOwedIsLost
