--------------------------- MODULE MCPartControl ---------------------------
(* Instances of PartControl for TLC. *)
EXTENDS PartControl

\* The shipped configuration: chassis 1, gimbal 7 and 5, bullet 2, 3 and 4.
Shipped == {<<1, 7, 5, 2, 3, 4>>}

\* Parts of it with two groups, with one group, and one id twice.
SmallConfigs == {<<1, 7, 4>>, <<7, 5>>, <<5, 7, 5>>}
=============================================================================
