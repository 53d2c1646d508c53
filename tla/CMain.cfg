CONSTANTS
  MaxLcore = 3
  LaunchBound = 3
  Period = 2
  MaxLag = 3
  Modulus = 3
SPECIFICATION LiveSpec
INVARIANTS NeverRefused PollsOnlyReady
PROPERTIES PrintsWhatArrived WorkersPoll StatsKeepComing
