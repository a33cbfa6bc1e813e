-------------------------------- MODULE MCNames --------------------------------
(* All expressions of a few binders and variables over two names.           *)
EXTENDS NameEnv
=============================================================================
