--------------------------- MODULE MCRouterModule ---------------------------
(* Two plugs, one of which stays. *)
EXTENDS RouterModule
=============================================================================
