SPECIFICATION Spec
CONSTANTS
  a = a  b = b  w1 = w1  w2 = w2  w3 = w3  kA = kA  kB = kB  kX = kX
  r1 = r1  r2 = r2  r3 = r3  r4 = r4
  Widgets = {w1, w2, w3}
  Owner <- TwoOwners
  Rows = {r1, r2, r3, r4}
  About <- Submitted
  Keys = {kA, kB, kX}
  Opens <- OneWrong
  Slots = {1, 2}
  PageSize = 1
  MaxCountries = 2
  SeriesDays = 8
  Nobody = Nobody
  NoKey = NoKey
  None = None
INVARIANTS FiguresAgree WhoseFigures
PROPERTIES LoadingEnds
CHECK_DEADLOCK FALSE
