-------------------------- MODULE MCPluginStartup ---------------------------
(* The proxy and the agent with two linked plugins and up to two manifests *)
(* for two other ids or for theirs.                                        *)
EXTENDS PluginStartup

CONSTANTS ratelimit, oidc, c1, c2

MCForPipeline == {ratelimit}
MCForProvider == {oidc}
MCProvided == [p \in {ratelimit, oidc} |-> IF p = ratelimit THEN {c1} ELSE {c2}]
MCConfigured == {<< >>, <<ratelimit>>, <<oidc>>, <<Foreign>>} \cup
    {<<ratelimit, p>> : p \in Plugin \ {oidc}}
=============================================================================
