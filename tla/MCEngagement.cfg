CONSTANTS
  Counts = {1, 2}
  Interval = 3
  MaxJobs = 1
  MaxRestarts = 1
SPECIFICATION Spec
PROPERTIES CountsWait CountsArrive
