CONSTANTS
  d1 = d1
  d2 = d2
  t1 = t1
  t2 = t2
  n1 = n1
  k1 = k1
  Desks = {d1, d2}
  Tickets = {t1, t2}
  Pending = {t2}
  Nonces = {n1}
  Kiosks = {k1}
  KioskOf <- MCKioskOf
  NoNonce = NoNonce
  NoKiosk = NoKiosk
  MaxSessions = 2
  MaxChanges = 2
SPECIFICATION GateSpec
SYMMETRY Symmetry
INVARIANTS
  AttendanceMatchesTicket
  DoublesOnlyByOverlap
