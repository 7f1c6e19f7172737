SPECIFICATION FairSpec
CONSTANTS
  LastDay = 2
  MaxEdits = 1
INVARIANTS
  PageFollowsSelection
PROPERTIES
  PageSettles
