---------------------------- MODULE MessageQueues ----------------------------
(***************************************************************************)
(* What the message queues of the operating system promise: each is a      *)
(* first-in first-out queue of bounded capacity.  A message is delivered   *)
(* to one process, and none is lost, doubled or overtaken.                 *)
(***************************************************************************)
EXTENDS Naturals, Sequences

CONSTANTS Queues, Processes, Messages, Capacity

VARIABLES
  messages,   \* what is on each queue, oldest first
  got         \* the message each process got last

vars == <<messages, got>>

Init ==
  /\ messages = [q \in Queues |-> <<>>]
  /\ got \in [Processes -> Messages]

Put(q, m) ==
  /\ Len(messages[q]) < Capacity[q]
  /\ messages' = [messages EXCEPT ![q] = Append(@, m)]
  /\ UNCHANGED got

Get(p, q) ==
  /\ messages[q] # <<>>
  /\ got' = [got EXCEPT ![p] = Head(messages[q])]
  /\ messages' = [messages EXCEPT ![q] = Tail(@)]

Next ==
  \E q \in Queues :
    \/ \E m \in Messages : Put(q, m)
    \/ \E p \in Processes : Get(p, q)

Spec == Init /\ [][Next]_vars
=============================================================================
