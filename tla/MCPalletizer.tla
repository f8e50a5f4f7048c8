----------------------------- MODULE MCPalletizer -----------------------------
(* Palletizer with a pack of three boxes. *)
EXTENDS Palletizer
=============================================================================
