SPECIFICATION FaultSpec
CONSTANTS
  beer = beer
  meal = meal
  Workers = {w1, w2}
  Orders = {o1}
  Products = {beer, meal}
  Tracked = {beer}
  Stationed = {meal}
  Price <- MCPrice
  Deposit <- MCDeposit
  OrphanCheck = TRUE
  InitialStock <- MCStock
  Carts <- SmallCarts
  Quantities = {1, 2}
  Amounts = {1, 2}
  Discounts = {1}
  MaxRequests = 3
  MaxItems = 2
  MaxPayments = 5
  Enabled = {"create", "posCreate", "update", "remove", "addItem", "updateItem",
    "removeItem", "ready", "deliver", "complete", "cancel", "posCancel",
    "forceCancel", "forceStatus", "pay", "posPay", "split", "posSplit",
    "refund", "forceRefund"}
SYMMETRY WorkerSymmetry
INVARIANTS TypeOK ReversalMirrorsTarget
