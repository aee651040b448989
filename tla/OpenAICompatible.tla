-------------------------- MODULE OpenAICompatible --------------------------
(***************************************************************************)
(* translator/openai, translator/bedrock and translator/azure: providers   *)
(* that speak the gateway's own format.  Their translators set the path,   *)
(* and return no body: the one the client sent goes on as it is, and the   *)
(* answer comes back as it is but for two fields of Azure's.               *)
(***************************************************************************)
EXTENDS OpenAIChat

\* No message is read, and none refused; what Azure and the others do refuse is a model without
\* a name, or of a name that is no deployment id (Gateway's TranslateFails).
Accepts(history) == TRUE

TranslateRequest(history, settings) == [messages |-> history, settings |-> settings]

\* An answer as these providers give it: an error, or choices; "filtered" is the presence of
\* prompt_filter_results in the body, and of content_filter_results in a choice.
AzureTranslateResponse(body) ==
  [error |-> body.error, filtered |-> FALSE,
   choices |-> [i \in DOMAIN body.choices |-> [body.choices[i] EXCEPT !.filtered = FALSE]]]

TranslateResponse(provider, body) ==
  IF provider = "azure" THEN AzureTranslateResponse(body) ELSE body
=============================================================================
