------------------------- MODULE MCSimpleDispatcher -------------------------
(* Every kind of event may make every call, and signals may arrive. *)
EXTENDS SimpleDispatcher
=============================================================================
