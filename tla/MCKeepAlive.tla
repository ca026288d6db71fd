------------------------------ MODULE MCKeepAlive ------------------------------
(* KeepAlive with ticks of half a second. *)
EXTENDS KeepAlive
===============================================================================
