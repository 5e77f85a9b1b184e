-------------------------- MODULE MCCircuitBreaker --------------------------
(* One breaker, small limits: thresholds that two failures can reach.      *)
EXTENDS CircuitBreaker

\* Failing commands or headers of other gateways, not both.  OpenIsRetried has
\* nothing left to ask once a command has failed.
OneTrouble == ~ (failed /\ brought)
=============================================================================
