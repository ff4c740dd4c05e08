SPECIFICATION StockSpec
CONSTANTS
  beer = beer
  food = food
  Blank = Blank
  Workers = {w1, w2}
  MaxRequests = 3
  MaxCrashes = 1
  Names <- MCNames
  Lists <- MCLists
  FirstList <- MCFirstList
  FirstName = beer
  MaxCategories = 2
  MaxProducts = 2
  MaxStock = 1
  MaxCounts = 2
  MaxItems = 2
SYMMETRY WorkerSymmetry
CHECK_DEADLOCK FALSE
INVARIANTS BookedOnce
PROPERTIES StockIsExplained
