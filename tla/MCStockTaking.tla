--------------------------- MODULE MCStockTaking ---------------------------
(* One product at first; a list that makes a category and a product, and has a
   row that is not valid.                                                    *)
EXTENDS StockTaking

CONSTANTS beer, food

Line(c, name) == [category |-> c, name |-> name, stock |-> 1]

MCNames == {beer, food}
MCLists == {<<Line(food, beer), Line(Blank, food)>>}
MCFirstList == {1}
WorkerSymmetry == Permutations(Workers)
=============================================================================
