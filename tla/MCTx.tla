-------------------------------- MODULE MCTx --------------------------------
(* The transaction process of one connector on small bounds. *)
EXTENDS TxProcess

=============================================================================
