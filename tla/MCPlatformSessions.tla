------------------------- MODULE MCPlatformSessions -------------------------
(* Three turns of one session on both hosts, with clients that wait and    *)
(* clients that do not, two creations and one failing batch of the queue.  *)
(* The requests come after a short, a medium and a long idle time, and the *)
(* context grows through the segments of the measured profile.             *)
EXTENDS PlatformSessions, TLC

CONSTANTS r1, r2, r3

MCIdle == r1 :> 20 @@ r2 :> 400 @@ r3 :> 5000
MCIdleTwo == r1 :> 20 @@ r2 :> 400
=============================================================================
