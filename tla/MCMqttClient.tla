---------------------------- MODULE MCMqttClient ----------------------------
(***************************************************************************)
(* What the server publishes in the runs of MqttClient: nothing, or a      *)
(* message with QoS 0 between two with QoS 1.                              *)
(***************************************************************************)
EXTENDS MqttClient

NoPublications == <<>>

ThreePublications == <<"m1", "n", "m2">>
=============================================================================
