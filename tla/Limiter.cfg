SPECIFICATION Spec
CONSTANTS
  t1 = t1  t2 = t2  a = a  b = b  w = w
  Threads = {t1, t2}
  Addresses = {a, b}
  Widgets = {w}
  IpLimit = 1
  IpWindow = 3
  WidgetLimit = 3
  WidgetWindow = 3
  Second = 3
  SweepEvery = 2
  MaxLag = 1
  MaxExcess = 1
  MaxRestarts = 1
  None = None
SYMMETRY Symmetry
INVARIANTS AtMostDouble RefusalIsEarned ManyHandsCloseAForm
CHECK_DEADLOCK FALSE
