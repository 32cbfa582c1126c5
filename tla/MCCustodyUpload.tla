--------------------------- MODULE MCCustodyUpload ---------------------------
(* A small instance of CustodyUpload: its constants come from the .cfg.     *)
EXTENDS CustodyUpload
=============================================================================
