-------------------------- MODULE AddressLookupMC --------------------------
(* Two postcodes, one with more pages than the loop of this instance       *)
(* reaches and one with a single page.                                     *)
EXTENDS AddressLookup, TLC

CONSTANTS bn1a, bn1b

MCPages == (bn1a :> 3) @@ (bn1b :> 1)
=============================================================================
