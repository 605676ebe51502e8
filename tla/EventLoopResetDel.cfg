SPECIFICATION Spec
CONSTANTS
  a = a
  b = b
  p = p
  i = i
  s = s
  Timeouts = {a, b}
  Periods = {p}
  Idles = {i}
  Ios = {s}
  Coarse = 4
  Grain = 2
  MaxBlock = 2
  MaxTime = 3
  Uses <- ResetDelUses
INVARIANT NoDanglingLink
