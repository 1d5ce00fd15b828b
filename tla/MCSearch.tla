------------------------------ MODULE MCSearch ------------------------------
(* An instance of Search for TLC: two servers, the first with a channel    *)
(* that both of its providers have, and a name that only the second knows. *)
EXTENDS Search

TwoServers == {"s1", "s2"}
SomeNames == {"a", "b"}
SomeHas == [s \in TwoServers |->
  IF s = "s1" THEN <<{"a"}, {"a"}>> ELSE <<{}, {"b"}>>]

=============================================================================
