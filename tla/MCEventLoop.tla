---------------------------- MODULE MCEventLoop ----------------------------
(* Instances of EventLoop for TLC.                                          *)
EXTENDS EventLoop, TLC

CONSTANTS own, c1, io

(* The owner submits once, another client twice, the loop to itself once.   *)
TwoClients == (own :> 1) @@ (c1 :> 2) @@ (io :> 1)
=============================================================================
