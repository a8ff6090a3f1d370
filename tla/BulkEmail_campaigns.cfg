CONSTANTS
  a1 = a1
  a2 = a2
  MaxJobs = 2
  Kinds = {"now", "cron"}
  Attendees = {a1, a2}
  Registered = {a1, a2}
  BatchSize = 1
  PassSize = 2
  MaxLogs = 6
  MaxUpsets = 2
SPECIFICATION FairSpec
INVARIANTS
  TypeOK
  RepeatedOnlyIfLostOrOpened
PROPERTIES
  CompletedIsLogged
  CancelledIsOver
  CampaignsEnd
CHECK_DEADLOCK FALSE
