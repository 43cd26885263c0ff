---------------------------- MODULE DeviceRuntime ----------------------------
(***************************************************************************)
(* What a program with several streams and devices relies on, on SYCL:     *)
(* which queue a kernel, a copy or a fill goes to, and which of them have  *)
(* been waited for when the call returns (backend_sycl.h, the macros of    *)
(* macros.h, and the C interface in front of them).  Streams  *)
(* are those of StreamOwner; their queues hold work now.                   *)
(*                                                                         *)
(* The program keeps to one rule: it does not touch a buffer while a queue *)
(* it has not waited for since may still work on it, except by putting     *)
(* more work on that same queue.                                           *)
(***************************************************************************)
EXTENDS StreamOwner, DeviceQueues

CONSTANTS
  Buffer,     \* the arrays of the program
  Kind,       \* their kind of memory: "host", "device", "managed"
  MaxPending  \* bound on the work that is queued

Nobody == <<"nobody">>

ASSUME NobodyAssumption == Nobody \notin Queue

VARIABLES
  devices,          \* the buffers and the queues of all devices
  view,         \* a stream_view: the queue it refers to
  owner,        \* the queue the program must wait for, per buffer, or Nobody
  expected,     \* the contents if every call did its work at once
  sync_kernels  \* GTENSOR_SYNC_KERNELS

work == <<devices, owner, expected>>

allVars == <<streamVars, work, view, sync_kernels>>

(* get_queue(device_id): made when it is first asked for and never destroyed. *)
DefaultQueue(d) == <<"default", d>>

Queues == Queue \cup {DefaultQueue(d) : d \in Device}

(* get_queue() *)
get_queue == DefaultQueue(current_device_id_)

RuntimeInit ==
  /\ StreamsInit
  /\ devices = [mem |-> [b \in Buffer |-> <<"zero">>], queue |-> [q \in Queues |-> << >>]]
  /\ owner = [b \in Buffer |-> Nobody]
  /\ expected = devices.mem
  /\ view = get_queue
  /\ sync_kernels \in BOOLEAN

-----------------------------------------------------------------------------
(* Work *)

(* The program may use these buffers on queue q. *)
MayUse(buffers, q) == \A b \in buffers : owner[b] \in {Nobody, q}

QueuesHaveRoom == MapThenSumSet(LAMBDA q : Len(devices.queue[q]), Queues) < MaxPending

(* A call puts op on queue q and waits for the queue, or not.  Of what is   *)
(* done when the call returns, the program relies on its own buffers being *)
(* ready, and only if the call says so.                                    *)
Call(q, op, waits, ready) ==
  /\ QueuesHaveRoom
  /\ MayUse(Touches(op), q)
  /\ devices' = IF waits THEN Waited(Submit(devices, q, op), q) ELSE Submit(devices, q, op)
  /\ owner' = [b \in Buffer |-> IF b \notin Touches(op) THEN owner[b]
                                ELSE IF ready THEN Nobody ELSE q]
  /\ expected' = Executed(expected, op)

(* A view that may be used: of a default queue, or of a stream that lives. *)
UsableView(q) == q \in Open \/ \E d \in Device : q = DefaultQueue(d)

(* assign(to, from, view) and launch(shape, f, view): a kernel is not waited *)
(* for unless the build synchronizes kernels, which no program relies on.    *)
Launch(op) == UsableView(view) /\ Call(view, op, sync_kernels, FALSE)

Kernels ==
  LET reachable == {b \in Buffer : Kind[b] # "host"}
  IN  {{Store(p[1], "copy", <<p[2]>>)} : p \in {p \in reachable \X reachable : p[1] # p[2]}}

(* to = from, without a stream: the default stream of the current device.  *)
Assign(op) == Call(get_queue, op, sync_kernels, FALSE)

(* "sync if in/out is host/managed to mimic CUDA sync behavior" *)
OnHost(buffers) == \E b \in buffers : Kind[b] # "device"

(* Mutant: only copies into memory of the host are waited for.             *)
CopyWaitsForOutput(from, to) ==
  /\ from # to /\ {Kind[from], Kind[to]} # {"host"}
  /\ Call(get_queue, {Store(to, "copy", <<from>>)}, OnHost({to}), OnHost({from, to}))

(* copy_n between the host and the device or on the device; between hosts  *)
(* it is std::copy_n and no work for a queue.                              *)
CopyBuffer(from, to) ==
  /\ from # to /\ {Kind[from], Kind[to]} # {"host"}
  /\ Call(get_queue, {Store(to, "copy", <<from>>)}, OnHost({from, to}), OnHost({from, to}))

(* copy_async_dd *)
CopyAsync(from, to) ==
  /\ from # to /\ "host" \notin {Kind[from], Kind[to]}
  /\ Call(get_queue, {Store(to, "copy", <<from>>)}, FALSE, FALSE)

(* fill *)
Fill(b) ==
  /\ Kind[b] # "host"
  /\ Call(get_queue, {Store(b, "zero", << >>)}, OnHost({b}), OnHost({b}))

(* queue q is waited for. *)
Wait(q) ==
  /\ devices' = Waited(devices, q)
  /\ owner' = [b \in Buffer |-> IF owner[b] = q THEN Nobody ELSE owner[b]]
  /\ UNCHANGED expected

(* device_synchronize: waits for the default queue of the current device. *)
Synchronize == Wait(get_queue)

(* stream_view::synchronize *)
SynchronizeView == UsableView(view) /\ Wait(view)

(* The program writes into memory the host can reach. *)
HostWrite(b) ==
  /\ Kind[b] # "device"
  /\ owner[b] = Nobody
  /\ devices' = [devices EXCEPT !.mem[b] = <<"new">>]
  /\ expected' = [expected EXCEPT ![b] = <<"new">>]
  /\ UNCHANGED owner

(* A queue works on; that of a stream that was destroyed, too. *)
Execute(q) ==
  /\ devices.queue[q] # << >>
  /\ devices' = Step(devices, q)
  /\ UNCHANGED <<owner, expected>>

Work ==
  \/ \E op \in Kernels : Launch(op) \/ Assign(op)
  \/ \E from, to \in Buffer : CopyBuffer(from, to) \/ CopyAsync(from, to)
  \/ \E b \in Buffer : Fill(b) \/ HostWrite(b)
  \/ Synchronize \/ SynchronizeView
  \/ \E q \in Queues : Execute(q)

-----------------------------------------------------------------------------
(* Streams *)

(* view = stream_view{}, the default queue of the device that is current. *)
ViewDefault == view' = get_queue

(* view = s.get_view() *)
ViewStream(s) == StreamAlive(s) /\ s \notin moved /\ view' = stream[s].queue

(* A new queue object is not one that still has work. *)
NewStreamQueue(s) ==
  /\ New(s)
  /\ \A q \in Queue : stream'[s].queue = q => devices.queue[q] = << >> /\ view # q

RuntimeNext ==
  \/ Work /\ UNCHANGED <<streamVars, view, sync_kernels>>
  \/ (ViewDefault \/ \E s \in Stream : ViewStream(s)) /\ UNCHANGED <<streamVars, work, sync_kernels>>
  \/ \E s \in Stream :
       (NewStreamQueue(s) \/ DestroyStream(s)) /\ UNCHANGED <<work, view, sync_kernels>>
  \/ \E t, s \in Stream :
       (MoveConstructStream(t, s) \/ MoveAssignStream(t, s)) /\ UNCHANGED <<work, view, sync_kernels>>
  \/ \E d \in Id : DeviceSet(d) /\ UNCHANGED <<work, view, sync_kernels>>

RuntimeSpec == RuntimeInit /\ [][RuntimeNext]_allVars

-----------------------------------------------------------------------------
(* Properties *)

(* Work is on queues that exist, and views refer to one. *)
RuntimeTypeOK ==
  /\ StreamsTypeOK
  /\ devices.mem \in [Buffer -> {<<"zero">>, <<"new">>}]
  /\ expected \in [Buffer -> {<<"zero">>, <<"new">>}]
  /\ DOMAIN devices.queue = Queues
  /\ view \in Queues
  /\ owner \in [Buffer -> Queues \cup {Nobody}]

(* A program that keeps to the rule gets what it would get if every call   *)
(* did its work at once: no two queues have conflicting work, and a buffer *)
(* it may touch has no work pending and its final contents - whichever     *)
(* device was current when a view was made, when work was queued and when  *)
(* it was waited for, and whatever became of the streams in the meantime   *)
(* (tests/test_stream.cxx: device_assign_ordered_default and _non_default). *)
ResultsInOrder ==
  /\ NoRace(devices)
  /\ \A b \in Buffer : owner[b] = Nobody =>
       /\ \A op \in Pending(devices) : b \notin Touches(op)
       /\ devices.mem[b] = expected[b]
=============================================================================
