CONSTANTS
  s1 = s1
  s2 = s2
  MaxOrders = 2
  Sessions = {s1, s2}
  Plans = {"pro", "growth"}
  Sold = {"pro", "growth"}
  Renewed = {"pro", "growth"}
  Quota <- Quotas
  Days = {2}
  GrantDays = 2
  RenewAfter = 1
  Opening = 0
  IssueCost = 2
  LastDay = 1
  MaxSpecial = 1
  MaxFailures = 1
SPECIFICATION FairSpec
INVARIANTS TypeOK CreditedOncePerPayment
PROPERTIES TwoActiveOnlyByOverlap PaymentsProvisioned
