---------------------------- MODULE DeviceQueues ----------------------------
(***************************************************************************)
(* The device work queues gtensor puts kernels, copies and library calls   *)
(* on: the default queue and the queues of gt::stream objects              *)
(* (backend_sycl_device.h, backend_sycl.h).  Each queue is in order, two   *)
(* queues are not ordered at all; a wait() orders one queue with the host. *)
(*                                                                         *)
(* A device is a record: mem, the contents of its buffers, and queue, the  *)
(* work each queue has left.  Contents are terms that say how they came    *)
(* about, <<name, argument, ...>>, so that an operation that reads a       *)
(* buffer too early or too late leaves another term.                       *)
(***************************************************************************)
EXTENDS Naturals, SequencesExt, FiniteSetsExt

(* An operation is a set of stores, done at once: each computes name from  *)
(* the buffers in the sequence from and stores the result in buffer to.    *)
Store(to, name, from) == [to |-> to, name |-> name, from |-> from]

Writes(op) == {s.to : s \in op}
Reads(op) == UNION {ToSet(s.from) : s \in op}
Touches(op) == Writes(op) \cup Reads(op)

Conflict(op1, op2) ==
  \/ Writes(op1) \cap Touches(op2) # {}
  \/ Writes(op2) \cap Touches(op1) # {}

Junk == <<"junk">>

(* A copy stores what it read, other operations the term of their result.  *)
Result(mem, s) ==
  LET args == [i \in DOMAIN s.from |-> mem[s.from[i]]]
  IN  IF s.name = "copy" THEN args[1] ELSE <<s.name>> \o args

Executed(mem, op) ==
  LET by == [b \in Writes(op) |-> CHOOSE s \in op : s.to = b]
  IN  [b \in DOMAIN mem |-> IF b \in Writes(op) THEN Result(mem, by[b]) ELSE mem[b]]

Submit(d, q, op) == [d EXCEPT !.queue[q] = Append(@, op)]

SubmitAll(d, q, ops) == [d EXCEPT !.queue[q] = @ \o ops]

(* Queue q executes its oldest operation. *)
Step(d, q) ==
  [d EXCEPT !.mem = Executed(@, Head(d.queue[q])), !.queue[q] = Tail(@)]

(* queue::wait(): q has executed everything, the others are where they were. *)
Waited(d, q) ==
  [d EXCEPT !.mem = FoldLeft(Executed, @, d.queue[q]), !.queue[q] = << >>]

Pending(d) == UNION {ToSet(d.queue[q]) : q \in DOMAIN d.queue}

Idle(d) == \A q \in DOMAIN d.queue : d.queue[q] = << >>

(* Two queues never have conflicting work at the same time. *)
NoRace(d) ==
  \A q1, q2 \in DOMAIN d.queue :
    q1 # q2 =>
      \A op1 \in ToSet(d.queue[q1]), op2 \in ToSet(d.queue[q2]) : ~ Conflict(op1, op2)
=============================================================================
