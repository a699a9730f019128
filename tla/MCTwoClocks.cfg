SPECIFICATION Spec
CONSTANTS
  Data = {"a"}
  Ends = {}
  Times = {t1, t2}
  LongBits = 4
  BitDue = {TRUE}
  Rest = 3
  Dividers = {0, 1, 2, 5, 18, 66}
  Chunks = {1, 2}
  Lag = 6
SYMMETRY TimesAlike
INVARIANT SentAsAccepted
INVARIANT RateAsSet
INVARIANT BitsAsSampled
INVARIANT ActivityShown
