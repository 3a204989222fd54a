---------------------------- MODULE MCPollPoller ----------------------------
(* Instances of PollPoller for TLC. *)
EXTENDS PollPoller

CONSTANTS c1, c2, c3, c4

\* Three descriptors, one of them used by two channels in turn.
SharedFd == c1 :> 0 @@ c2 :> 1 @@ c3 :> 2 @@ c4 :> 2

=============================================================================
