----------------------------- MODULE MCServices -----------------------------
(***************************************************************************)
(* Five parts of the server that share no state, checked side by side: in  *)
(* each behaviour one of them runs and the others rest.                    *)
(***************************************************************************)
EXTENDS RealtimeCall, VoiceSession, WebhookRetry, CircuitBreaker, PersistStage

MCPieces == {<<"a">>, <<"b">>, <<"b", "a">>}

VARIABLE part  \* the part that runs

serviceVars == <<part, realtimeVars, sessionVars, webhookVars, breakerVars, persistVars>>

ServicesTypeOK == RealtimeTypeOK /\ SessionTypeOK /\ WebhookTypeOK /\ BreakerTypeOK
                  /\ PersistTypeOK

ServicesInit ==
  /\ part \in {"realtime", "session", "webhook", "breaker", "persist"}
  /\ RealtimeInit /\ SessionInit /\ WebhookInit /\ BreakerInit /\ PersistInit

Realtime == /\ part = "realtime" /\ RealtimeNext
            /\ UNCHANGED <<part, sessionVars, webhookVars, breakerVars, persistVars>>
Session == /\ part = "session" /\ SessionNext
           /\ UNCHANGED <<part, realtimeVars, webhookVars, breakerVars, persistVars>>
Webhook == /\ part = "webhook" /\ WebhookNext
           /\ UNCHANGED <<part, realtimeVars, sessionVars, breakerVars, persistVars>>
Breaker == /\ part = "breaker" /\ BreakerNext
           /\ UNCHANGED <<part, realtimeVars, sessionVars, webhookVars, persistVars>>
Persist == /\ part = "persist" /\ PersistNext
           /\ UNCHANGED <<part, realtimeVars, sessionVars, webhookVars, breakerVars>>

ServicesNext == Realtime \/ Session \/ Webhook \/ Breaker \/ Persist

\* No action under fairness is enabled in the initial state of a part that rests.
ServicesSpec == ServicesInit /\ [][ServicesNext]_serviceVars /\ RealtimeFairness /\ WebhookFairness
=============================================================================
