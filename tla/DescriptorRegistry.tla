-------------------------- MODULE DescriptorRegistry --------------------------
(***************************************************************************)
(* What the network layers promise about socket descriptors, without loops,*)
(* channels or handlers: a descriptor number belongs to one connection at a*)
(* time, it is watched only for the connection that owns it, and it is     *)
(* given back only after it is no longer watched, so that its next owner   *)
(* finds it free.  A connection owns a descriptor once in its life.        *)
(***************************************************************************)
CONSTANTS Conns, Fds, NoConn

VARIABLES own, watch, past

registryVars == <<own, watch, past>>

RegistryInit ==
  /\ own = [f \in Fds |-> NoConn]
  /\ watch = [f \in Fds |-> NoConn]
  /\ past = {}

Open(c, f) ==
  /\ own[f] = NoConn /\ c \notin past
  /\ own' = [own EXCEPT ![f] = c]
  /\ past' = past \cup {c}
  /\ UNCHANGED watch

Watch(f) ==
  /\ own[f] # NoConn /\ watch[f] = NoConn
  /\ watch' = [watch EXCEPT ![f] = own[f]]
  /\ UNCHANGED <<own, past>>

Unwatch(f) ==
  /\ watch[f] # NoConn
  /\ watch' = [watch EXCEPT ![f] = NoConn]
  /\ UNCHANGED <<own, past>>

Release(f) ==
  /\ own[f] # NoConn /\ watch[f] = NoConn
  /\ own' = [own EXCEPT ![f] = NoConn]
  /\ UNCHANGED <<watch, past>>

RegistryNext ==
  \E f \in Fds :
    \/ \E c \in Conns : Open(c, f)
    \/ Watch(f) \/ Unwatch(f) \/ Release(f)

RegistrySpec == RegistryInit /\ [][RegistryNext]_registryVars

-----------------------------------------------------------------------------
(***************************************************************************)
(* No descriptor number is watched for a connection other than its owner:  *)
(* an event of a socket never reaches the handlers of another one.         *)
(***************************************************************************)
WatchedForOwner == \A f \in Fds : watch[f] # NoConn => watch[f] = own[f]

(***************************************************************************)
(* A connection never has two descriptors, so closing it once gives back   *)
(* all it holds.                                                           *)
(***************************************************************************)
OneDescriptor ==
  \A f, g \in Fds : (own[f] # NoConn /\ own[f] = own[g]) => f = g
=============================================================================
