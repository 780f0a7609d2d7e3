SPECIFICATION Spec
CONSTANTS
  c1 = c1
  page = page
  engine = engine
  Conns = {c1}
  Callers = {page, engine}
  Ticking = {engine}
  Owner <- MCOwner
  Buffer = 1
  MaxEvents = 2
  t1 = t1
  t2 = t2
  Times = {t1, t2}
  None = None
CHECK_DEADLOCK FALSE
SYMMETRY SameTimes
INVARIANT TypeOK
INVARIANT ListingFresh
INVARIANT NotModifiedExact
INVARIANT NoNewsLost
