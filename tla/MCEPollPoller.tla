---------------------------- MODULE MCEPollPoller ---------------------------
(* Instances of EPollPoller for TLC. *)
EXTENDS EPollPoller, TLC

CONSTANTS c1, c2, c3

\* Two descriptors, one of them 0 and one used by two channels in turn.
SharedFd == c1 :> 0 @@ c2 :> 1 @@ c3 :> 1

=============================================================================
