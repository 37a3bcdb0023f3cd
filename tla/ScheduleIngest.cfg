CONSTANTS
  Feed <- SomeFeeds
  Worker = {w1, w2}
  MaxVersion = 2
  MaxMishaps = 2
SPECIFICATION Spec
CONSTRAINT Alone
INVARIANTS
  DiagnosedBeforePromotion
  UpsertsInOrder
PROPERTIES
  GateSurvivesRestart
  EmptySystemRepaired
