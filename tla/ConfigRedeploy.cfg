SPECIFICATION ConfigSpec
CONSTANTS
  b1 = b1  plain = plain  fancy = fancy  website = website  homepage = homepage
  Browsers = {b1}
  Looks = {plain, fancy}
  SeedLook = plain
  Honeypots = {website, homepage}
  MaxAge = 2
  MaxVersion = 2
  MaxRedeploys = 1
  MaxReseeds = 0
  None = None
INVARIANTS SameTagSamePayload
CHECK_DEADLOCK FALSE
