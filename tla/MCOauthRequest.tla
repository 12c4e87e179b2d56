--------------------------- MODULE MCOauthRequest ---------------------------
(* Instances of the OAuth surface for TLC: the pairs a form body is made of. *)
EXTENDS OauthRequest

MCPairs ==
    {[key |-> k, eq |-> TRUE, empty |-> e] : k \in {"code", "state"}, e \in BOOLEAN}
      \cup {[key |-> "other", eq |-> e, empty |-> FALSE] : e \in BOOLEAN}
=============================================================================
