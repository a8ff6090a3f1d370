CONSTANTS
  ada = ada
  bob = bob
  cem = cem
  a1 = a1
  a2 = a2
  scheduler = scheduler
  web = web
  Drivers = {scheduler, web}
  Scheduler = scheduler
  MaxJobs = 2
  Names = {ada, bob}
  TooLong = {}
  Attendees = {a1, a2}
  Registered <- AdaAlone
  NoName = NoName
  Nobody = Nobody
  NameLists <- Repeated
  ChunkSize = 2
  Unlimited = FALSE
  Opening = 100
  IssueUnits = 10
  HostingEstimate = 20
  HostingUnits = {30}
  MaxCertificates = 2
  MaxNamings = 3
  MaxDeletes = 0
  MaxCrashes = 0
SPECIFICATION Spec
SYMMETRY Processes
INVARIANTS OneCertificateEach NothingSkipped
