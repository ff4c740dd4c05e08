SPECIFICATION Spec
CONSTANTS
  beer = beer
  meal = meal
  Workers = {w1}
  Orders = {o1}
  Products = {beer, meal}
  Tracked = {beer}
  Stationed = {meal}
  Price <- MCPrice
  Deposit <- MCDeposit
  OrphanCheck = FALSE
  InitialStock <- MCStock
  Carts <- MCCarts
  Quantities = {1, 2}
  Amounts = {1}
  Discounts = {1}
  MaxRequests = 5
  MaxItems = 2
  MaxPayments = 10
  Enabled = {"create", "posCreate", "update", "remove", "addItem", "updateItem",
    "removeItem", "ready", "deliver", "complete", "cancel", "posCancel",
    "forceCancel", "forceStatus", "pay", "posPay", "split", "posSplit",
    "refund", "forceRefund"}
INVARIANTS PaidAmountMatchesLedger NoStockLost
PROPERTIES ForceCancelReversesAll
