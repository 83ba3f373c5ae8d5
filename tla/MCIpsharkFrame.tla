--------------------------- MODULE MCIpsharkFrame ---------------------------
(* The modules as they are: the constants are in the .cfg. *)
EXTENDS IpsharkFrame
=============================================================================
