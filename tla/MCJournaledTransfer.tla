------------------------- MODULE MCJournaledTransfer -------------------------
(* Small instances of JournaledTransfer: pieces of two bytes.              *)
EXTENDS JournaledTransfer

(* A file of two whole pieces, and one whose second piece is a short one.  *)
WholeAndShort == <<4, 3>>
=============================================================================
