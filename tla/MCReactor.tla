----------------------------- MODULE MCReactor ------------------------------
(* Instances of Reactor for TLC. *)
EXTENDS Reactor, TLC

CONSTANTS c1, c2, c3, o1, o2

\* Two descriptors, one of them used by two channels in turn.
SharedFd == c1 :> 1 @@ c2 :> 2 @@ c3 :> 2

\* One channel is a member of an object.
OneMember == c1 :> o1

\* It may be tied to that object, to another, or to one after the other.
MemberTies == {<<c1, o1>>, <<c1, o2>>}

=============================================================================
