CONSTANTS
  Sites = {"zoom", "letsride", "keigwin", "ptt"}
  NumListings = 2
  MaxRefresh = 2
  MaxUp = 1
  MaxHits = 2
  Page <- MCPage
  Listings <- MCListings
  Place <- MCPlace
SPECIFICATION Spec
CHECK_DEADLOCK FALSE
INVARIANTS TypeOK DamageBounded NothingLost
