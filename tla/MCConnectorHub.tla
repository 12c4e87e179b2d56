--------------------------- MODULE MCConnectorHub ---------------------------
(* Instances of the connector hub for TLC. *)
EXTENDS ConnectorHubProps, TLC

Symmetry ==
    Permutations(Connectors) \cup Permutations(Keys) \cup Permutations(ExternalIds)
      \cup Permutations(EventIds) \cup Permutations(Workers)
=============================================================================
