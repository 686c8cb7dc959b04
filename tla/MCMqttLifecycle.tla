-------------------------- MODULE MCMqttLifecycle --------------------------
(* A small instance of MqttLifecycle. *)
EXTENDS MqttLifecycle
============================================================================
