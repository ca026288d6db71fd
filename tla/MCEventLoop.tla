------------------------------ MODULE MCEventLoop ------------------------------
(* EventLoop with a repeating timer, one that is repeating and reset by   *)
(* callbacks, like a watchdog, and a one-shot that is reset, like Cache's. *)
EXTENDS EventLoop, TLC

Intervals == 1 :> 3 @@ 2 :> 4 @@ 3 :> 5
===============================================================================
