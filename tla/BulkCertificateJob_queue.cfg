CONSTANTS
  ada = ada
  bob = bob
  cem = cem
  a1 = a1
  a2 = a2
  scheduler = scheduler
  web = web
  Drivers = {scheduler, web}
  Scheduler = scheduler
  MaxJobs = 2
  Names = {ada, bob, cem}
  TooLong = {cem}
  Attendees = {}
  Registered <- AdaAlone
  NoName = NoName
  Nobody = Nobody
  NameLists <- Lists
  ChunkSize = 2
  Unlimited = FALSE
  Opening = 100
  IssueUnits = 10
  HostingEstimate = 20
  HostingUnits = {30}
  MaxCertificates = 1
  MaxNamings = 1
  MaxDeletes = 1
  MaxCrashes = 1
SPECIFICATION FairSpec
INVARIANTS JobCountsItsCertificates BalanceMatchesCertificates OneCertificateEach NothingSkipped
PROPERTIES CancelledIsFinal JobsNeverOverdraw JobsFinishOrStuck
