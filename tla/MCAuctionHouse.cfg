SPECIFICATION FairSpec
CONSTANTS
  s = s
  p = p
  q = q
  item = item
  None = None
  Auctions = {item}
  Players = {s, p, q}
  Seller <- MCSeller
  StartBid = 1
  Buyout = 2
  Deposit = 1
  Prices = {2, 3}
  Purse = 4
  CutPercent = 50
  MaxRestarts = 1
INVARIANTS TypeOK BidderWholeUnspoilt RemovedOnce
PROPERTY AuctionEnds
CHECK_DEADLOCK FALSE
CONSTRAINT Unspoilt
