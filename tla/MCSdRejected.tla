---------------------------- MODULE MCSdRejected ----------------------------
(* A card of four sectors, 0 to 3, that may reject a block at every attempt. *)
EXTENDS DiskioSd, TLC

OnlySDHC == {0 :> "SDHC"}
=============================================================================
