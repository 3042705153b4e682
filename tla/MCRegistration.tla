--------------------------- MODULE MCRegistration ---------------------------
(***************************************************************************)
(* Registration for TLC: all constants get their values in the cfg.        *)
(***************************************************************************)
EXTENDS Registration
=============================================================================
