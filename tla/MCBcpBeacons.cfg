SPECIFICATION BeaconsFairSpec
CONSTANTS
  none = none
  NONE = none
  MININTERVAL = 2
  MAXINTERVAL = 5
  DIFF_QUEUE_TH = 2
  MAX_BACKLOG = 2
  WORD = 8
  MAX_EVENTS = 2
  MAX_FRAMES = 1
INVARIANTS
  BeaconsTypeOK
  TimerRuns
  TimesInInterval
  ExtraHasBeacon
PROPERTIES
  DifferencesReported
  BacklogAnnounced
  RequestsEnd
