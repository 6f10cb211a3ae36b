---------------------- MODULE MCRegistryDispatcherGlue ----------------------
(* The dispatcher as every program of the library runs it: with the glue.  *)
EXTENDS RegistryDispatcherGlue
=============================================================================
