---------------------------- MODULE StockTaking ----------------------------
(* Inventory counts of one event (src/src/modules/inventory): a count is drafted
   with its items, started, counted item by item and completed, which applies the
   differences to the stock of the catalogue, product by product and without a
   transaction.                                                              *)
EXTENDS Catalogue

CONSTANTS
  MaxCounts, MaxItems,    \* rows ever made
  FirstList,              \* the products there are at first, on the first count
  FirstName               \* of the first category and its products

CountIds == 1..MaxCounts
ItemIds == 1..MaxItems

ASSUME StockAssumption ==
  /\ IsFiniteSet(Workers)
  /\ {MaxCounts, MaxItems} \subseteq Nat /\ MaxCounts >= 1 /\ MaxCategories >= 1
  /\ FirstList = 1..Cardinality(FirstList) /\ FirstList \subseteq ProductIds \cap ItemIds
  /\ FirstName \in Names

VARIABLES
  counts,       \* status of each count that exists
  items,        \* id to [count, product, expected, counted]
  raced,        \* history: counts that two requests worked on at a time
  cut,          \* history: how often the completion of a count was cut off
  removed       \* history: products that were deleted at some time

stockVars == <<requests, catalogue, counts, items, raced, cut, removed>>

Statuses == {"draft", "in_progress", "completed", "cancelled"}
Uncounted == Blank
ItemRow == [count : CountIds, product : ProductIds, expected : Nat, counted : Nat \cup {Uncounted}]

StockOK ==
  /\ RequestsOK /\ CatalogueOK
  /\ nextId \in [category : 1..MaxCategories + 1, product : 1..MaxProducts + 1,
                count : 1..MaxCounts + 1, item : 1..MaxItems + 1]
  /\ DOMAIN counts \subseteq CountIds /\ \A c \in DOMAIN counts : counts[c] \in Statuses
  /\ DOMAIN items \subseteq ItemIds /\ \A i \in DOMAIN items : items[i] \in ItemRow
  /\ raced \subseteq CountIds /\ cut \in [CountIds -> Nat] /\ removed \subseteq ProductIds

ItemsOf(c) == {i \in DOMAIN items : items[i].count = c}

(* The difference is computed and saved with the counted quantity.  *)
Difference(item) == item.counted - item.expected

(* One category with a few products, and no count yet, a draft with its items,
   or one in progress, with some items counted.  *)
StockInit ==
  /\ RequestsInit
  /\ categories = [c \in {1} |-> FirstName]
  /\ \E stock \in 0..MaxStock :
       products = [p \in FirstList |-> [name |-> FirstName, category |-> 1, available |-> TRUE,
                     tracked |-> TRUE, stock |-> stock, deleted |-> FALSE]]
  /\ movements = <<>> /\ drifted = {} /\ raced = {} /\ removed = {} /\ cut = [c \in CountIds |-> 0]
  /\ \/ counts = [c \in {} |-> Blank] /\ items = [i \in {} |-> Blank]
     \/ /\ counts \in [{1} -> {"draft", "in_progress"}]
        /\ \E quantity \in [FirstList -> 0..MaxStock \cup {Uncounted}] :
             /\ counts[1] = "draft" => \A p \in FirstList : quantity[p] = Uncounted
             /\ items = [i \in FirstList |-> [count |-> 1, product |-> i,
                          expected |-> products[i].stock, counted |-> quantity[i]]]
  /\ nextId = [category |-> 2, product |-> Cardinality(FirstList) + 1,
             count |-> Cardinality(DOMAIN counts) + 1, item |-> Cardinality(DOMAIN items) + 1]

----------------------------------------------------------------------------
(* Requests about a count.  *)

(* Somebody is working on count c.  *)
Concerns(w, c) == \E i \in DOMAIN task[w] : "count" \in DOMAIN task[w][i] /\ task[w][i].count = c
CountRequest(w, c, todo) ==
  /\ Start(w, todo)
  /\ raced' = IF \E o \in Workers : Concerns(o, c) THEN raced \cup {c} ELSE raced
  /\ UNCHANGED <<categories, products, movements, drifted, counts, items, cut, removed>>

(* A count is saved with the items that were read with it.  *)
SaveCount(c, status) == [do |-> "saveCount", count |-> c, status |-> status, with |-> ItemsOf(c)]
SaveItem(i, row) == [do |-> "saveItem", item |-> i, row |-> row, count |-> row.count]
Adjust(c, p, quantity) == [do |-> "adjust", count |-> c, product |-> p, quantity |-> quantity]

CreateCount(w) ==
  /\ \A c \in DOMAIN counts : counts[c] # "in_progress"
  /\ nextId.count <= MaxCounts
  /\ CountRequest(w, nextId.count, <<SaveCount(nextId.count, "draft")>>)
  /\ nextId' = [nextId EXCEPT !.count = @ + 1]

UpdateCount(w, c) ==
  /\ counts[c] # "completed"
  /\ CountRequest(w, c, <<SaveCount(c, counts[c])>>) /\ UNCHANGED nextId

DeleteCount(w, c) ==
  /\ counts[c] # "completed"
  /\ CountRequest(w, c, <<[do |-> "removeCount", count |-> c]>>) /\ UNCHANGED nextId

StartCount(w, c) ==
  /\ counts[c] = "draft" /\ ItemsOf(c) # {}
  /\ CountRequest(w, c, <<SaveCount(c, "in_progress")>>) /\ UNCHANGED nextId

CancelCount(w, c) ==
  /\ counts[c] # "completed"
  /\ CountRequest(w, c, <<SaveCount(c, "cancelled")>>) /\ UNCHANGED nextId

NewItem(i, c, p) ==
  SaveItem(i, [count |-> c, product |-> p, expected |-> products[p].stock, counted |-> Uncounted])

(* addItem and bulkAddItems: the stock at that time is what is expected.  *)
AddItems(w, c, chosen) ==
  /\ counts[c] = "draft"
  /\ chosen # {} /\ chosen \cap {items[i].product : i \in ItemsOf(c)} = {}
  /\ nextId.item + Cardinality(chosen) <= MaxItems + 1
  /\ \E order \in SetToSeqs(chosen) :
       CountRequest(w, c, [k \in DOMAIN order |-> NewItem(nextId.item + k - 1, c, order[k])])
  /\ nextId' = [nextId EXCEPT !.item = @ + Cardinality(chosen)]

AddItem(w, c, p) == AddItems(w, c, {p})

BulkAddItems(w, c) ==
  LET already == {items[i].product : i \in ItemsOf(c)}
  IN  \E wanted \in {Live} \cup {In(k) : k \in DOMAIN categories} :
        AddItems(w, c, {p \in wanted \cap Live : products[p].tracked} \ already)

UpdateItem(w, i, quantity) ==
  LET c == items[i].count
  IN  /\ counts[c] = "in_progress"
      /\ CountRequest(w, c, <<SaveItem(i, [items[i] EXCEPT !.counted = quantity])>>)
      /\ UNCHANGED nextId

(* Mutants: the count stays in progress; items without a count are passed over.  *)
CompleteAgain(w, c) ==
  LET mine == {i \in ItemsOf(c) : items[i].counted # Uncounted /\ Difference(items[i]) # 0}
  IN  /\ counts[c] = "in_progress"
      /\ \A i \in ItemsOf(c) : items[i].counted # Uncounted
      /\ \E order \in SetToSeqs(mine) :
           CountRequest(w, c,
             [k \in DOMAIN order |-> Adjust(c, items[order[k]].product, Difference(items[order[k]]))]
               \o <<SaveCount(c, "in_progress")>>)
      /\ UNCHANGED nextId
CompleteShrinkage(w, c) ==
  LET mine == {i \in ItemsOf(c) : items[i].counted # Uncounted /\ Difference(items[i]) < 0}
  IN  /\ counts[c] = "in_progress"
      /\ \A i \in ItemsOf(c) : items[i].counted # Uncounted
      /\ \E order \in SetToSeqs(mine) :
           CountRequest(w, c,
             [k \in DOMAIN order |-> Adjust(c, items[order[k]].product, Difference(items[order[k]]))]
               \o <<SaveCount(c, "completed")>>)
      /\ UNCHANGED nextId

CompleteCount(w, c) ==
  LET mine == {i \in ItemsOf(c) : items[i].counted # Uncounted /\ Difference(items[i]) # 0}
  IN  /\ counts[c] = "in_progress"
      /\ \A i \in ItemsOf(c) : items[i].counted # Uncounted
      /\ \E order \in SetToSeqs(mine) :
           CountRequest(w, c,
             [k \in DOMAIN order |-> Adjust(c, items[order[k]].product, Difference(items[order[k]]))]
               \o <<SaveCount(c, "completed")>>)
      /\ UNCHANGED nextId

----------------------------------------------------------------------------
(* Statements.  *)

(* An item added since the count was read would lose its count: refused.  *)
StoreCount(w) ==
  LET c == Now(w).count
  IN  /\ At(w, "saveCount")
      /\ IF ItemsOf(c) \ Now(w).with # {}
         THEN Fail(w) /\ UNCHANGED counts
         ELSE Done(w) /\ counts' = With(counts, c, Now(w).status)
      /\ UNCHANGED <<catalogue, items, raced, cut, removed>>

DropCount(w) ==
  /\ At(w, "removeCount")
  /\ counts' = Without(counts, Now(w).count)
  /\ items' = [i \in DOMAIN items \ ItemsOf(Now(w).count) |-> items[i]]
  /\ Done(w)
  /\ UNCHANGED <<catalogue, raced, cut, removed>>

StoreItem(w) ==
  /\ At(w, "saveItem")
  /\ IF Now(w).count \notin DOMAIN counts
     THEN Fail(w) /\ UNCHANGED items
     ELSE Done(w) /\ items' = With(items, Now(w).item, Now(w).row)
  /\ UNCHANGED <<catalogue, counts, raced, cut, removed>>

(* applyStockAdjustment: the product as it is now, or nothing if it is gone.  *)
ApplyStockAdjustment(w) ==
  LET p == Now(w).product
      before == products[p].stock
      after == AtLeastZero(before + Now(w).quantity)
  IN  /\ At(w, "adjust")
      /\ IF p \notin Live THEN Done(w)
         ELSE Then(w, <<SaveProduct(p, [products[p] EXCEPT !.stock = after]),
                        Move(p, Now(w).count, Now(w).quantity, before, after)>>)
      /\ UNCHANGED <<catalogue, counts, items, raced, cut, removed>>

----------------------------------------------------------------------------

CountStatement(w) == StoreCount(w) \/ DropCount(w) \/ StoreItem(w) \/ ApplyStockAdjustment(w)

InventoryRequest(w) ==
  \/ CreateCount(w)
  \/ \E c \in DOMAIN counts :
       \/ UpdateCount(w, c) \/ DeleteCount(w, c) \/ StartCount(w, c) \/ CancelCount(w, c)
       \/ CompleteCount(w, c) \/ BulkAddItems(w, c) \/ \E p \in Live : AddItem(w, c, p)
  \/ \E i \in DOMAIN items, quantity \in 0..MaxStock : UpdateItem(w, i, quantity)

OfCatalogue == CrashCatalogue \/ \E w \in Workers : CatalogueRequest(w) \/ CatalogueStatement(w)

(* The completion of c has something left to do, and will not do it.  *)
Completes(w, c) ==
  \E i \in DOMAIN task[w] :
    task[w][i].do = "saveCount" /\ task[w][i].count = c /\ task[w][i].status = "completed"
CutOff(c) == \E w \in Workers : Completes(w, c) /\ task'[w] = Idle

StockNext ==
  \/ \E w \in Workers : InventoryRequest(w) \/ CountStatement(w)
  \/ OfCatalogue /\ removed' = removed \cup {p \in DOMAIN products' : products'[p].deleted}
       /\ cut' = [c \in CountIds |-> cut[c] + IF CutOff(c) THEN 1 ELSE 0]
       /\ UNCHANGED <<counts, items, raced>>

StockSpec == StockInit /\ [][StockNext]_stockVars

----------------------------------------------------------------------------
Booked(c, p) == {m \in DOMAIN movements : movements[m].count = c /\ movements[m].product = p}

(* A count is booked once: a completed count has changed the stock of every product
   whose count differs, whatever sales and changes came in between, and no product
   twice, except once more for every completion that was cut off, by a stop of the
   process or a statement that failed, and run again (completeCount,
   applyStockAdjustment).  *)
BookedOnce ==
  \A c \in CountIds \ raced :
    /\ \A p \in ProductIds : Cardinality(Booked(c, p)) <= 1 + cut[c]
    /\ c \in DOMAIN counts /\ counts[c] = "completed" =>
         \A i \in ItemsOf(c) :
           items[i].product \in removed \/ Difference(items[i]) = 0 \/ Booked(c, items[i].product) # {}

(* What the movements tell of the stock of p, and those still to be written.  *)
Change(row) == row.after - row.before
Told(p) == [m \in DOMAIN movements |-> IF movements[m].product = p THEN Change(movements[m]) ELSE 0]
Untold(p) == [w \in Workers |-> IF w \in Pending /\ Now(w).row.product = p THEN Change(Now(w).row) ELSE 0]
Unexplained(p) == products[p].stock - SumFunction(Told(p)) - SumFunction(Untold(p))

(* The stock changes with the movement that tells how, and by as much (adjustStock,
   applyStockAdjustment, addItemToOrder), unless it was set by hand, two writes
   overlapped or the process stopped in between.  *)
StockIsExplained ==
  [][\A p \in DOMAIN products \ drifted' : Unexplained(p)' = Unexplained(p)]_stockVars
=============================================================================
