--------------------------- MODULE MCCharDrivers ---------------------------
(***************************************************************************)
(* The texts that TLC has users write to "buffer": one shorter than the    *)
(* initial one, which fills the buffer but for its last byte, and one that *)
(* fills it, so that nothing ends it.                                      *)
(***************************************************************************)
EXTENDS CharDrivers

MCTexts == {[name |-> "x", length |-> 1], [name |-> "long", length |-> Room]}
=============================================================================
