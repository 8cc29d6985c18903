-------------------------- MODULE ConfigDeliveryMC --------------------------
(* Small instances of ConfigDelivery for TLC. *)
EXTENDS ConfigDelivery
CONSTANTS b1, plain, fancy, website, homepage
=============================================================================
