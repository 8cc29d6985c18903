SPECIFICATION FairConfigSpec
CONSTANTS
  b1 = b1  plain = plain  fancy = fancy  website = website  homepage = homepage
  Browsers = {b1}
  Looks = {plain, fancy}
  SeedLook = plain
  Honeypots = {website, homepage}
  MaxAge = 2
  MaxVersion = 3
  MaxRedeploys = 1
  MaxReseeds = 1
  None = None
INVARIANTS SameTagSameLook StaleOnlyByMaxAge
PROPERTIES EditsReachEveryone
CHECK_DEADLOCK FALSE
