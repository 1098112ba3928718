-------------------------- MODULE MCProviderRoutes --------------------------
\* Three providers, of which the configuration enables none, as
\* config.example.yaml; one role that needs a provider and one that does not.
EXTENDS ProviderRoutes

MCShippedRoutes == [role \in Roles |-> IF role \in Required THEN 1 ELSE Blank]
=============================================================================
