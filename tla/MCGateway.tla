------------------------------ MODULE MCGateway ------------------------------
(***************************************************************************)
(* An instance of GuardedGateway for TLC: the deployed chain with a guard  *)
(* in front and another one behind api-translation, one external model     *)
(* that moves between providers and Secrets (and is the cluster's own when *)
(* the store has no entry for it), and requests that name no model.  The   *)
(* second guard sees bodies as the translators leave them, Vertex's        *)
(* without a model's name among them.                                      *)
(***************************************************************************)
EXTENDS GuardedGateway

CONSTANTS ns, secA, secB, kA, kB, llama, openai, anthropic, vertex

MCChain == <<"body-field-to-header", "nemo-request-guard", "model-provider-resolver",
             "api-translation", "nemo-request-guard", "apikey-injection">>

Info(p, c) == [provider |-> p, credentialRefName |-> c, credentialRefNamespace |-> ns]

\* An unsupported provider leaves api-translation as a refused body does, and a missing
\* reference leaves apikey-injection as a missing Secret does: none is needed here.
MCInfos == {Info(anthropic, secA), Info(openai, secB), Info(vertex, secA)}

MCSecretKeys == {<<ns, secA>>, <<ns, secB>>}

\* Secrets with and without the field the generators need.
MCCredentials == {[f \in {"api-key"} |-> kA], [f \in {"region"} |-> kB]}

MCAuthHeader == [p \in {openai, anthropic, vertex} |->
                   IF p = anthropic THEN "x-api-key" ELSE "authorization"]
=============================================================================
