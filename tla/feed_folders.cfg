SPECIFICATION FairSpec
CONSTANTS
  s1 = s1  s2 = s2  r1 = r1  f1 = f1  f2 = f2  x = x  y = y
  Nowhere = Nowhere
  Sub = {s1, s2, r1}
  Feed = {f1, f2}
  FeedOf <- ThreeSubs
  Subscribed = {s1}
  Id = {x, y}
  Folder <- ThreeFolders
  BeginsWith <- Names
  Places <- Moving
  Issuable <- Tickets
  Addable = {x, y}
  Appending = {f2}
  Recursive = {f1}
  MaxEdits = 2
  MaxChanges = 1
  MaxFaults = 1
INVARIANT TypeOK
PROPERTIES FeedsStayInFolders FeedsCatchUp
CHECK_DEADLOCK FALSE
