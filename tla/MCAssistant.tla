---------------------------- MODULE MCAssistant ----------------------------
(* The environments of llm.service.spec.ts: two providers in either order,  *)
(* with and without keys and fallbacks, and one with no model at all.       *)
EXTENDS Assistant

CONSTANTS openai, groq, mini, nano, llama

Two  == (openai :> <<mini, nano>>) @@ (groq :> <<llama>>)
One  == (openai :> <<mini>>) @@ (groq :> <<>>)
Nil  == (openai :> <<>>) @@ (groq :> <<>>)

Environments ==
  [ order  : {<<openai, groq>>, <<groq, openai>>, <<openai, openai>>},
    models : {Two, One, Nil},
    keys   : SUBSET {openai, groq} ]
=============================================================================
