----------------------------- MODULE MCZyUpload -----------------------------
(***************************************************************************)
(* ZyUpload for TLC.                                                       *)
(***************************************************************************)
EXTENDS ZyUpload
==============================================================================
