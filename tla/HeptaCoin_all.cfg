CONSTANTS
  o1 = o1
  o2 = o2
  e1 = e1
  e2 = e2
  e3 = e3
  a1 = a1
  a2 = a2
  s1 = s1
  s2 = s2
  s3 = s3
  NoSession = NoSession
  Users = {o1, o2}
  Events = {e1, e2, e3}
  Attendees = {a1, a2}
  Sessions = {s1, s2}
  Owner <- TwoOwners
  Team <- OneTeam
  Exempt = {o2}
  Opening = 40
  IssueUnits = 10
  HostingUnits = {2, 20}
  CreditAmounts = {50}
  Kinds = {"issue", "quiz", "certify", "credit"}
SPECIFICATION FairSpec
INVARIANTS LockOrder SpentOnCertificates OneCertificatePerAttendee
PROPERTIES RequestsEnd
