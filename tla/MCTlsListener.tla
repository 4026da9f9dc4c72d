--------------------------- MODULE MCTlsListener ---------------------------
(***************************************************************************)
(* Instance of TlsListener for TLC.                                        *)
(***************************************************************************)
EXTENDS TlsListener
=============================================================================
