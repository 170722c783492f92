SPECIFICATION NoticesSpec
CONSTANTS
  Slugs = {fiesta}
  fiesta = fiesta
  Pages <- MCPages
  Unseen = unseen
  MaxBoots = 1
  Hands = {1}
  Never = never
  MaxHour = 0
INVARIANT TakenDownIsGone
CHECK_DEADLOCK FALSE
