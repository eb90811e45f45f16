----------------------------- MODULE MCEventBus -----------------------------
(* An instance of module EventBusRabbitMQ: a service that subscribes to two events. *)
EXTENDS EventBusRabbitMQ, TLC

CONSTANTS e1, e2, k1, k2

TwoEvents     == {e1, e2}
TwoCalls      == <<e1, e2>>
TwoSessions   == {k1, k2}
=============================================================================
