----------------------------- MODULE MCBrokerRedis -----------------------------
(* BrokerRedis for TLC: descriptors, patterns and the name are model values. *)
EXTENDS BrokerRedis
===============================================================================
