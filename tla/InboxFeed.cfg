SPECIFICATION FairFeedSpec
CONSTANTS
  Channels = {c1}
  Limit = 4
  PageSize = 4
  ItemCap = 2
  MaxPosted = 4
  MaxCrashes = 1
  Unposted = Unposted
PROPERTIES
  FeedIsKept
  EveryMessageArrives
