\* A worker, two public servers and a request.
SPECIFICATION MCSpec
CONSTANTS
  Workers = {w1}
  Servers <- TwoServers
  Requests = {r1}
  InboxCleanup = TRUE
  Faulty = TRUE
INVARIANTS TeardownOrder NothingLeftBehind ExitCodeHonest
PROPERTIES ProcessEnds
