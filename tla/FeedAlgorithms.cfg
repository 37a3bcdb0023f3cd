CONSTANTS
  Systems <- MCSystems
  CombinedFeeds <- MCCombinedFeeds
  LiveTrips <- MCLiveTrips
  StationRows <- MCStationRows
  TripScans <- MCTripScans
  RowFiles <- MCRowFiles
  CoveredTrips <- MCCoveredTrips
  ViewedFeeds <- MCViewedFeeds
  AlertFeeds <- MCAlertFeeds
  DiagnosedFeeds <- MCDiagnosedFeeds
  StationRuns <- MCStationRuns
  MAX_MATCH_DISTANCE_METERS = 2
  MAX_REAL_COMPLEX_MEMBERS = 2
SPECIFICATION Spec
INVARIANTS
  DemuxRestoresFeeds
  VehicleIsPlaced
  TransfersGoBothWays
  ScanFindsBothEnds
  LastWriteWins
  TailCompletesTrip
  DetailMatchesStream
  LineFilterCovers
  AlertsHydrated
  ReportListsChanges
  CrosswalkCurrent
