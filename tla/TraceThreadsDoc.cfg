SPECIFICATION TraceSpec
CONSTANTS
  t1 = t1
  t2 = t2
  libA = libA
  m1 = m1
  m2 = m2
  f1 = f1
  None = None
  Thread = {t1, t2}
  Called <- MCFew
  Caller <- MCCaller
  Address = {1, 2, 3, 4, 5}
  Ranges <- MCRanges
  Loaded <- MCLoaded
  Started <- MCStarted
  ID <- MCID
  Extra <- MCExtra
  MayThrow <- MCThrow
  Strict = TRUE
  Pretty = TRUE
  Shorty <- MCShorty
INVARIANT OwnDescription
