------------------------ MODULE MCIntegrationRequest ------------------------
(* IntegrationRequest for TLC: the number of attempts of config.yml, 3. *)
EXTENDS IntegrationRequest
=============================================================================
