------------------------------- MODULE TaskQueue -------------------------------
(***************************************************************************)
(* What addTask promises, without threads of control, locks, swapped lists *)
(* or a poll: a task is executed in its turn, in the order in which the    *)
(* tasks of all posters entered one queue, or at once if its poster has    *)
(* none in the queue; and none is lost, doubled or overtaken on the way.   *)
(***************************************************************************)
EXTENDS Naturals, Sequences

CONSTANTS Posters, NoTask

VARIABLES
  posted,        \* how many tasks each poster has posted
  hand,          \* the task each poster is about to hand over
  queue,         \* the tasks that wait for their turn
  done           \* the tasks executed, in the order of execution

queueVars == <<posted, hand, queue, done>>

QueueInit ==
  /\ posted = [t \in Posters |-> 0]
  /\ hand = [t \in Posters |-> NoTask]
  /\ queue = <<>> /\ done = <<>>

Post(t) ==
  /\ hand[t] = NoTask
  /\ posted' = [posted EXCEPT ![t] = @ + 1]
  /\ hand' = [hand EXCEPT ![t] = <<t, posted[t] + 1>>]
  /\ UNCHANGED <<queue, done>>

HandOver(t) ==
  /\ hand[t] # NoTask
  /\ hand' = [hand EXCEPT ![t] = NoTask]
  /\ UNCHANGED posted

Push(t) ==
  /\ HandOver(t)
  /\ queue' = Append(queue, hand[t])
  /\ UNCHANGED done

ExecuteAtOnce(t) ==
  /\ HandOver(t)
  /\ \A i \in DOMAIN queue : queue[i][1] # t
  /\ done' = Append(done, hand[t])
  /\ UNCHANGED queue

ExecuteNext ==
  /\ queue # <<>>
  /\ done' = Append(done, Head(queue))
  /\ queue' = Tail(queue)
  /\ UNCHANGED <<posted, hand>>

QueueNext ==
  \/ ExecuteNext
  \/ \E t \in Posters : Post(t) \/ Push(t) \/ ExecuteAtOnce(t)

QueueSpec == QueueInit /\ [][QueueNext]_queueVars
=============================================================================
