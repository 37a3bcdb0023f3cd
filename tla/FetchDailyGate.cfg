CONSTANTS
  Feed <- OneFeed
  Worker = {w1}
  MaxVersion = 1
  MaxMishaps = 0
SPECIFICATION Spec
PROPERTY OneDownloadPerDay
