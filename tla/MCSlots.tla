------------------------------- MODULE MCSlots ---------------------------------
(***************************************************************************)
(* Two of the three names share a bucket.  One of the literals has a key   *)
(* twice.                                                                  *)
(***************************************************************************)
EXTENDS Slots

CONSTANTS a, b, c, u, v, shared, other

MCBucketOf == [n \in Name |-> IF n = c THEN other ELSE shared]

MCLiteral == {<< <<a, u>>, <<b, v>> >>, << <<a, u>>, <<a, v>> >>}
==============================================================================
