--------------------------- MODULE MCSearchServer ---------------------------
(* An instance of SearchServer for TLC: one interface with broadcast.      *)
EXTENDS SearchServer

OneInterface == <<"unicast", "broadcast">>

=============================================================================
