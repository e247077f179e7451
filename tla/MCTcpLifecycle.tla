---------------------------- MODULE MCTcpLifecycle ----------------------------
(* Descriptor numbers are interchangeable, and so are the connections of   *)
(* the same kind of session, which are in no set of their own.             *)
EXTENDS TcpLifecycle, TLC

Symmetry ==
  Permutations(Fds) \cup Permutations(Conns \ (SecondOwner \cup Unconnected))
=============================================================================
