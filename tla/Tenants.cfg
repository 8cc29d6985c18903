SPECIFICATION Spec
CONSTANTS
  acme = acme  globex = globex  signup = signup  contact = contact  demo = demo  random = random
  email = email  website = website  company = company
  s1 = s1  s2 = s2  r1 = r1
  Specs <- TwoTenants
  Demos <- TwoAndOne
  DemoFields = {email}
  Seeds = {s1, s2}
  Requests = {r1}
  Ids = {signup, contact, demo, random}
  FieldLists <- Lists
  Honeypots = {website, company}
  NoOne = NoOne
  Nothing = Nothing
SYMMETRY Symmetry
INVARIANTS TypeOK SafeToRunTwice NamesMatch
PROPERTIES HoneypotStaysFree Implements
CHECK_DEADLOCK FALSE
