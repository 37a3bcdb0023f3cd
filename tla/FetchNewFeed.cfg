CONSTANTS
  Feed <- OneFeed
  Worker = {w1}
  MaxVersion = 2
  MaxMishaps = 0
SPECIFICATION Spec
PROPERTY KeepsUpToDate
