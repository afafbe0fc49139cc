-------------------------- MODULE MCPackageDelivery --------------------------
(* TLC instances of PackageDelivery.                                       *)
EXTENDS DeliveryProperties
=============================================================================
