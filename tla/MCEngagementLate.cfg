CONSTANTS
  Counts = {1, 2}
  Interval = 3
  MaxJobs = 2
  MaxRestarts = 1
SPECIFICATION Spec
PROPERTIES CountsArrive
