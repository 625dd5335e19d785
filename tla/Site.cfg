SPECIFICATION SiteSpec
CONSTRAINT FewSwaps
CONSTANTS
  Tabs = {t1, t2}
  Browsers = {b1, b2}
  MaxForms = 2
  Requests = {q1, q2, q3}
  Backlog = 1
  MaxVersion = 2
  Nobody = nobody
  Texts <- MCTexts
  Names <- MCNames
  Title = 2
  Body = 3
  Name = 2
  Total = 5
  MaxCategories = 1
  Lowest = 0
  Highest = 1
  None = none
  Users = {poster, reader}
  Poster = poster
  Replier = reader
  Topics = {"service"}
  Choosers = {reader}
  MaxNotices = 2
  Visitor = visitor
  Streams = {s1}
  Devices = {d1}
  MaxKeys = 2
  Listed = {"btc", "xmr", "usdt"}
  Fallback = {"btc", "xmr"}
  Unlisted = {"fake"}
  Typed = {"1"}
  Order <- MCOrder
  Services <- MCServices
  MaxAmount = 2
  Sites <- MCSites
  Params <- MCParams
  Attributes = {"a", "b"}
  Draws <- MCDraws
  Curated = {"btc", "xmr"}
  Combinations = {{"btc", "xmr"}}
  PageSize = 1
  Minimum = 2
  MaxParams = 2
INVARIANTS
  
  NoStaleThumb
  SignedCardsAreDrawn
  NobodyIsToldTwice
  
  
  BestIsFirst
  
PROPERTY
  ShowsOwnResults
CHECK_DEADLOCK FALSE
