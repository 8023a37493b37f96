------------------------- MODULE MCLocalStateBatch -------------------------
(* A batch over two of three keys: the third shows that a key the batch    *)
(* does not select is never touched.                                       *)
EXTENDS LocalStateBatch
CONSTANTS k1, k2, k3
MCKey == {k1, k2, k3}
MCOrder == <<k2, k1>>
=============================================================================
