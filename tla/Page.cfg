SPECIFICATION FairSpec
CONSTANTS
  inline = inline  popover = popover
  Tags = {inline, popover}
  Popovers = {popover}
  MaxCards = 2
  MaxSends = 2
INVARIANTS LoadedOnceMountedOnce ThanksAreEarned
PROPERTIES EveryLoaderMounts CardsComeToRest
CHECK_DEADLOCK FALSE
