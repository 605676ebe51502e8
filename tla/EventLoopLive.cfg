SPECIFICATION FairSpec
CONSTANTS
  a = a
  b = b
  p = p
  i = i
  s = s
  Timeouts = {a}
  Periods = {p}
  Idles = {i}
  Ios = {s}
  Coarse = 4
  Grain = 2
  MaxBlock = 2
  MaxTime = 4
  Uses <- LiveUses
PROPERTIES DueTimerFires StopEndsRun
