----------------------------- MODULE Catalogue -----------------------------
(* Categories and products of one event (src/src/modules/categories,
   src/src/modules/products): their administration, the import of a product
   list, manual adjustments of the stock, and the sales of the order handlers as
   far as they touch the stock.

   Every save of a product writes the row as its handler read it, with the
   change, and puts it back when it was deleted meanwhile.  Prices, texts,
   options and the order on the screen are left out.                         *)
EXTENDS Requests, SequencesExt

CONSTANTS
  Names,          \* of categories and products
  MaxCategories, MaxProducts,  \* rows ever made
  MaxStock,       \* opening stock and the largest quantity of a request
  Lists,          \* the product lists that are imported, parsed
  Blank

ASSUME CatalogueAssumption ==
  /\ Blank \notin Names \cup Nat
  /\ {MaxCategories, MaxProducts, MaxStock} \subseteq Nat
  /\ Lists \subseteq Seq([category : Names \cup {Blank}, name : Names \cup {Blank}, stock : Nat])

VARIABLES
  categories,     \* name of each category that exists
  products, movements,
  nextId,         \* the id the next row gets
  drifted         \* history: products whose stock no movement explains, and why not

catalogue == <<categories, products, movements, nextId, drifted>>

CategoryIds == 1..MaxCategories
ProductIds == 1..MaxProducts

ProductRow == [name : Names, category : CategoryIds, available : BOOLEAN,
               tracked : BOOLEAN, stock : Nat, deleted : BOOLEAN]
Movement == [product : ProductIds, count : Nat, quantity : Int,
             before : Nat, after : Nat]
NoCount == 0

CatalogueOK ==
  /\ DOMAIN categories \subseteq CategoryIds /\ \A c \in DOMAIN categories : categories[c] \in Names
  /\ DOMAIN products \subseteq ProductIds /\ \A p \in DOMAIN products : products[p] \in ProductRow
  /\ \A i \in DOMAIN movements : movements[i] \in Movement
  /\ drifted \subseteq ProductIds

(* What findOne finds.  *)
Live == {p \in DOMAIN products : ~products[p].deleted}
In(c) == {p \in DOMAIN products : products[p].category = c}

SaveProduct(p, row) == [do |-> "saveProduct", product |-> p, row |-> row, read |-> products[p].stock]
NewProduct(p, name, c, stock) ==
  [do |-> "newProduct", product |-> p, row |->
    [name |-> name, category |-> c, available |-> TRUE, tracked |-> TRUE, stock |-> stock, deleted |-> FALSE]]
Move(p, count, quantity, before, after) ==
  [do |-> "movement", row |-> [product |-> p, count |-> count, quantity |-> quantity,
                               before |-> before, after |-> after]]

----------------------------------------------------------------------------
(* Categories.  A category is read with its products.  *)

CreateCategory(w, name) ==
  /\ nextId.category <= MaxCategories
  /\ Start(w, <<[do |-> "saveCategory", category |-> nextId.category, name |-> name, with |-> {}]>>)
  /\ nextId' = [nextId EXCEPT !.category = @ + 1]
  /\ UNCHANGED <<categories, products, movements, drifted>>

UpdateCategory(w, c, name) ==
  /\ Start(w, <<[do |-> "saveCategory", category |-> c, name |-> name, with |-> In(c) \cap Live]>>)
  /\ UNCHANGED catalogue

RemoveCategory(w, c) == Start(w, <<[do |-> "removeCategory", category |-> c]>>) /\ UNCHANGED catalogue

(* save() of a category that was read with its products: one that came since
   would lose its category, which the database refuses; one that left since is
   taken back.  *)
StoreCategory(w) ==
  LET c == Now(w).category
  IN  /\ At(w, "saveCategory")
      /\ IF (In(c) \cap Live) \ Now(w).with # {}
         THEN Fail(w) /\ UNCHANGED <<categories, products>>
         ELSE /\ Done(w)
              /\ categories' = With(categories, c, Now(w).name)
              /\ products' = [p \in DOMAIN products |->
                   IF p \in Now(w).with THEN [products[p] EXCEPT !.category = c] ELSE products[p]]
      /\ UNCHANGED <<movements, nextId, drifted>>

(* The key of a product must not be null, so ON DELETE SET NULL fails as long as
   a product, deleted or not, has the category.  *)
DropCategory(w) ==
  /\ At(w, "removeCategory")
  /\ IF In(Now(w).category) # {}
     THEN Fail(w) /\ UNCHANGED categories
     ELSE Done(w) /\ categories' = Without(categories, Now(w).category)
  /\ UNCHANGED <<products, movements, nextId, drifted>>

----------------------------------------------------------------------------
(* Products.  *)

CreateProduct(w, name, c) ==
  /\ nextId.product <= MaxProducts
  /\ \E stock \in 0..MaxStock : Start(w, <<NewProduct(nextId.product, name, c, stock)>>)
  /\ nextId' = [nextId EXCEPT !.product = @ + 1]
  /\ UNCHANGED <<categories, products, movements, drifted>>

UpdateProduct(w, p) ==
  /\ p \in Live
  /\ \E row \in {[products[p] EXCEPT !.category = c] : c \in DOMAIN categories}
                \cup {[products[p] EXCEPT !.tracked = ~@]}
                \cup {[products[p] EXCEPT !.stock = n] : n \in 0..MaxStock} :
       row # products[p] /\ Start(w, <<SaveProduct(p, row)>>)
  /\ UNCHANGED catalogue

UpdateAvailability(w, p) ==
  /\ p \in Live
  /\ Start(w, <<SaveProduct(p, [products[p] EXCEPT !.available = ~@])>>)
  /\ UNCHANGED catalogue

RemoveProduct(w, p) == p \in Live /\ Start(w, <<[do |-> "softRemove", product |-> p]>>) /\ UNCHANGED catalogue

AtLeastZero(n) == IF n < 0 THEN 0 ELSE n

(* Mutant: the movement tells the quantity asked for, not the one reached.  *)
AdjustStockUnclamped(w, p, quantity) ==
  LET before == products[p].stock
      after == AtLeastZero(before + quantity)
  IN  /\ p \in Live /\ products[p].tracked
      /\ Start(w, <<SaveProduct(p, [products[p] EXCEPT !.stock = after]),
                    Move(p, NoCount, quantity, before, before + quantity)>>)
      /\ UNCHANGED catalogue

AdjustStock(w, p, quantity) ==
  LET before == products[p].stock
      after == AtLeastZero(before + quantity)
  IN  /\ p \in Live /\ products[p].tracked
      /\ Start(w, <<SaveProduct(p, [products[p] EXCEPT !.stock = after]),
                    Move(p, NoCount, quantity, before, after)>>)
      /\ UNCHANGED catalogue

(* addItemToOrder: the product is read and checked, saved and booked.  *)
Sell(w, p) ==
  LET before == products[p].stock
  IN  /\ p \in Live /\ products[p].tracked /\ before >= 1
      /\ Start(w, <<SaveProduct(p, [products[p] EXCEPT !.stock = before - 1]),
                    Move(p, NoCount, -1, before, before - 1)>>)
      /\ UNCHANGED catalogue

(* The row is written as it was read: a sale in between is forgotten.  *)
StoreProduct(w) ==
  LET p == Now(w).product
      explained == \/ Now(w).row.stock = Now(w).read
                   \/ Len(task[w]) > 1 /\ task[w][2].do = "movement"
  IN  /\ At(w, "saveProduct")
      /\ IF Now(w).row.category \notin DOMAIN categories
         THEN Fail(w) /\ UNCHANGED <<products, drifted>>
         ELSE /\ Done(w)
              /\ products' = With(products, p, Now(w).row)
              /\ drifted' = IF explained /\ products[p].stock = Now(w).read THEN drifted ELSE drifted \cup {p}
      /\ UNCHANGED <<categories, movements, nextId>>

InsertProduct(w) ==
  /\ At(w, "newProduct")
  /\ IF Now(w).row.category \notin DOMAIN categories
     THEN Fail(w) /\ UNCHANGED products
     ELSE Done(w) /\ products' = With(products, Now(w).product, Now(w).row)
  /\ UNCHANGED <<categories, movements, nextId, drifted>>

SoftRemove(w) ==
  /\ At(w, "softRemove")
  /\ products' = [products EXCEPT ![Now(w).product].deleted = TRUE]
  /\ Done(w)
  /\ UNCHANGED <<categories, movements, nextId, drifted>>

InsertMovement(w) ==
  /\ At(w, "movement")
  /\ movements' = Append(movements, Now(w).row)
  /\ Done(w)
  /\ UNCHANGED <<categories, products, nextId, drifted>>

----------------------------------------------------------------------------
(* The import of a product list: rows [category, name, stock], where a row that
   the parser could not make a product of lacks its name or its category.  *)

Modes == {"skip", "update", "create"}

Valid(row) == row.name # Blank /\ row.category # Blank

CategoryNamed(name) == {c \in DOMAIN categories : categories[c] = name}

(* The products that are there already, by name and name of the category.  *)
Matches(row) ==
  {p \in Live : /\ products[p].name = row.name
                /\ products[p].category \in CategoryNamed(row.category)}

Latest(ids) == CHOOSE i \in ids : \A j \in ids : j <= i

Action(row, mode) ==
  IF ~Valid(row) THEN "error"
  ELSE IF Matches(row) = {} THEN "create"
  ELSE mode

(* The names for which a category is made, once each, in the order of the list.  *)
NewCategories(list) ==
  LET wanted == [i \in DOMAIN list |-> IF Valid(list[i]) THEN list[i].category ELSE Blank]
  IN  ToSet(wanted) \ (Range(categories) \cup {Blank})

(* The id of the category a row goes to: an old one, or a fresh one.  *)
CategoryFor(name, fresh) ==
  IF CategoryNamed(name) # {} THEN Latest(CategoryNamed(name))
  ELSE nextId.category + (CHOOSE i \in DOMAIN fresh : fresh[i] = name) - 1

(* What a row is good for: a product is made, or the one that is there goes to
   the category of the list.  *)
Applied(row, mode, id, fresh) ==
  LET c == CategoryFor(row.category, fresh)
      old == Latest(Matches(row))
  IN  IF Action(row, mode) = "create" THEN NewProduct(id, row.name, c, row.stock)
      ELSE SaveProduct(old, [products[old] EXCEPT !.category = c])

Ascending(S) == {s \in [1..Cardinality(S) -> S] : \A i, j \in DOMAIN s : i < j => s[i] < s[j]}

ImportProducts(w, list, mode) ==
  LET fresh == SetToSeq(NewCategories(list))
      Rows(action) == {i \in DOMAIN list : Action(list[i], mode) = action}
      Id(i) == nextId.product + Cardinality({j \in Rows("create") : j < i})
  IN  /\ Rows("create") \cup Rows("update") # {}
      /\ nextId.category + Len(fresh) <= MaxCategories + 1
      /\ nextId.product + Cardinality(Rows("create")) <= MaxProducts + 1
      /\ \E order \in Ascending(Rows("create") \cup Rows("update")) :
           Start(w, [i \in DOMAIN fresh |->
                       [do |-> "saveCategory", category |-> nextId.category + i - 1, name |-> fresh[i], with |-> {}]]
                    \o [k \in DOMAIN order |-> Applied(list[order[k]], mode, Id(order[k]), fresh)])
      /\ nextId' = [nextId EXCEPT !.category = @ + Len(fresh), !.product = @ + Cardinality(Rows("create"))]
      /\ UNCHANGED <<categories, products, movements, drifted>>

----------------------------------------------------------------------------

(* Movements whose product is saved already and who are not.  *)
Pending == {w \in Workers : At(w, "movement")}

(* A restart loses the movements of the stock that was saved just before.  *)
CrashCatalogue ==
  /\ Crash
  /\ drifted' = drifted \cup {Now(w).row.product : w \in Pending}
  /\ UNCHANGED <<categories, products, movements, nextId>>

CatalogueRequest(w) ==
  \/ \E name \in Names : CreateCategory(w, name)
  \/ \E c \in DOMAIN categories :
       \/ RemoveCategory(w, c)
       \/ \E name \in Names : UpdateCategory(w, c, name) \/ CreateProduct(w, name, c)
  \/ \E p \in DOMAIN products :
       \/ UpdateProduct(w, p) \/ UpdateAvailability(w, p) \/ RemoveProduct(w, p) \/ Sell(w, p)
       \/ \E quantity \in (-MaxStock..MaxStock) \ {0} : AdjustStock(w, p, quantity)
  \/ \E list \in Lists, mode \in Modes : ImportProducts(w, list, mode)

CatalogueStatement(w) ==
  \/ StoreCategory(w) \/ DropCategory(w) \/ StoreProduct(w) \/ InsertProduct(w)
  \/ SoftRemove(w) \/ InsertMovement(w)
=============================================================================
