----------------------- MODULE DescriptorRegistryProofs -----------------------
(* What the abstract registry promises, for any connections and numbers.   *)
EXTENDS DescriptorRegistry, TLAPS

(***************************************************************************)
(* The inductive invariant: owners are connections of the past, each has   *)
(* one descriptor, and what is watched is owned.                           *)
(***************************************************************************)
RegistryTypeOK ==
  /\ own \in [Fds -> Conns \cup {NoConn}]
  /\ watch \in [Fds -> Conns \cup {NoConn}]
  /\ past \subseteq Conns

OwnersArePast == \A f \in Fds : own[f] # NoConn => own[f] \in past

RegistryInv ==
  /\ RegistryTypeOK
  /\ OwnersArePast
  /\ OneDescriptor
  /\ WatchedForOwner

(* The registry starts with every number free.                             *)
LEMMA InitRegistryInv == RegistryInit => RegistryInv
BY DEF RegistryInit, RegistryInv, RegistryTypeOK, OwnersArePast, OneDescriptor,
       WatchedForOwner

(* Accepting, watching, unwatching and closing keep the invariant.         *)
LEMMA NextRegistryInv == RegistryInv /\ [RegistryNext]_registryVars => RegistryInv'
<1>. SUFFICES ASSUME RegistryInv, [RegistryNext]_registryVars
              PROVE  RegistryInv'
  OBVIOUS
<1>. USE DEF RegistryInv, RegistryTypeOK, OwnersArePast,
         OneDescriptor, WatchedForOwner
<1>1. ASSUME NEW f \in Fds, NEW c \in Conns, Open(c, f)
      PROVE  RegistryInv'
  BY <1>1 DEF Open
<1>2. ASSUME NEW f \in Fds, Watch(f)
      PROVE  RegistryInv'
  BY <1>2 DEF Watch
<1>3. ASSUME NEW f \in Fds, Unwatch(f)
      PROVE  RegistryInv'
  BY <1>3 DEF Unwatch
<1>4. ASSUME NEW f \in Fds, Release(f)
      PROVE  RegistryInv'
  BY <1>4 DEF Release
<1>5. CASE UNCHANGED registryVars
  BY <1>5 DEF registryVars
<1>. QED
  BY <1>1, <1>2, <1>3, <1>4, <1>5 DEF RegistryNext

LEMMA RegistryInvariance == RegistrySpec => []RegistryInv
BY InitRegistryInv, NextRegistryInv, PTL DEF RegistrySpec

(***************************************************************************)
(* A number is watched only for the connection that owns it: an event of a *)
(* socket cannot reach the handlers of another connection (Epoll.cpp:42-54)*)
(***************************************************************************)
THEOREM RegistryWatchedForOwner == RegistrySpec => []WatchedForOwner
<1>1. RegistryInv => WatchedForOwner
  BY DEF RegistryInv
<1>. QED
  BY RegistryInvariance, <1>1, PTL

(***************************************************************************)
(* A connection never holds two numbers, so the one close() of             *)
(* TcpConnection::onClose() gives back all of them.                        *)
(***************************************************************************)
THEOREM RegistryOneDescriptor == RegistrySpec => []OneDescriptor
<1>1. RegistryInv => OneDescriptor
  BY DEF RegistryInv
<1>. QED
  BY RegistryInvariance, <1>1, PTL
=============================================================================
