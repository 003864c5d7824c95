\* One test run of the Tester that reaches its time limit.
CONSTANTS
  Requests = {1}
  Paths = {}
  Outside = {}
  Plans = {}
  MaxTries = 1
  MaxWorkFaults = 0
SPECIFICATION WorkSpec
PROPERTY TestRunsEnd
CHECK_DEADLOCK FALSE
