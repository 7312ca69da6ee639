------------------------------ MODULE MCScopes ------------------------------
(* One variable for TLC (the operations never relate two variables), and   *)
(* calls deep enough for a frame and a prefix to lie above and below each  *)
(* other in either order.                                                  *)
EXTENDS Scopes

MCNames == {"x"}
MCValues == {"value"}
MCPrefixValues == {"temp"}
MCArguments == {"a", "b"}

=============================================================================
