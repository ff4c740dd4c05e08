--------------------------- MODULE MCShopCheckout ---------------------------
(* One checkout that three requests settle.  *)
EXTENDS ShopCheckout

CONSTANTS c1

MCCheckouts == {c1}
=============================================================================
