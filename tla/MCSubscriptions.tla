--------------------------- MODULE MCSubscriptions ---------------------------
(* TLC instance of Subscriptions.                                           *)
EXTENDS SubscriptionProperties
=============================================================================
