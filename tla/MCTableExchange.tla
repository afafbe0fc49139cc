--------------------------- MODULE MCTableExchange ---------------------------
(* TLC instance of TableExchange.                                           *)
EXTENDS ExchangeProperties
=============================================================================
