------------------------------- MODULE Network -------------------------------
(***************************************************************************)
(* MPI as the processes use it: standard sends of small messages, which    *)
(* MPI buffers, receives of a given source and tag, and a probe of any     *)
(* source and tag.  Messages of one sender to one receiver do not overtake *)
(* each other; those of different senders arrive in any order.             *)
(***************************************************************************)
EXTENDS Tasks, Sequences

Node == Worker \cup {0}     \* rank 0 is the runtime

Tag == {"CREATE_TASK", "FINISH_TASK", "RUN_TASK", "REQUEST_MEMORY",
        "WRITE_MEMORY", "REPORT_CAPACITY", "SHUTDOWN"}

(* Of a multi-part exchange under one tag, which part a message is.        *)
Part == {"task", "id", "ack", "count", "data", "none"}

Message == [tag : Tag, part : Part, task : Task, origin : Node]

VARIABLE net   \* net[<<s, d>>]: sent by s to d and not received yet, in order

NetworkTypeOK == net \in [Node \X Node -> Seq(Message)]
NetworkInit == net = [sd \in Node \X Node |-> << >>]

Msg(tag, part, t) == [tag |-> tag, part |-> part, task |-> t, origin |-> 0]

Tagged(s, d, tag) == {i \in 1 .. Len(net[<<s, d>>]) : net[<<s, d>>][i].tag = tag}
Arrived(s, d, tag) == Tagged(s, d, tag) # {}
FirstIndex(s, d, tag) ==
  CHOOSE i \in Tagged(s, d, tag) : \A j \in Tagged(s, d, tag) : i <= j

(* The message a receive of that source and tag matches, and the channel   *)
(* without it.                                                             *)
Matched(s, d, tag) == net[<<s, d>>][FirstIndex(s, d, tag)]
Without(s, d, tag) ==
  LET q == net[<<s, d>>]
      i == FirstIndex(s, d, tag)
  IN  SubSeq(q, 1, i - 1) \o SubSeq(q, i + 1, Len(q))

Send(s, d, m) == net' = [net EXCEPT ![<<s, d>>] = Append(@, m)]
Receive(s, d, tag) == net' = [net EXCEPT ![<<s, d>>] = Without(s, d, tag)]

(* A receive from s, answered by the messages ms to r.                     *)
ReceiveAndSend(s, d, tag, r, ms) ==
  LET left == [net EXCEPT ![<<s, d>>] = Without(s, d, tag)]
  IN  net' = [left EXCEPT ![<<d, r>>] = @ \o ms]
=============================================================================
