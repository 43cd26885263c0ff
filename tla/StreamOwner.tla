----------------------------- MODULE StreamOwner -----------------------------
(***************************************************************************)
(* gt::stream on SYCL: stream_base (backend_common.h), the owning handle,  *)
(* over the queue lists of SyclQueues (backend_sycl_device.h).             *)
(*                                                                         *)
(* stream_base never initializes moved_from_: a new object has whatever    *)
(* the memory held (Garbage).  operator=(&&) returns no value, undefined   *)
(* behaviour that a build may survive; the model follows the builds that   *)
(* do, since the others stop.                                              *)
(***************************************************************************)
EXTENDS FiniteSets

CONSTANTS
  Stream,   \* the names of gt::stream objects
  Queue,    \* identities of sycl::queue objects
  Device,   \* the device ids that exist
  Id,       \* the ids the application may ask for
  Garbage,  \* values an uninitialized bool can be read as
  DeadStream      \* marks a name whose object is not alive

ASSUME StreamsAssumption ==
  /\ Garbage \subseteq BOOLEAN
  /\ Device \subseteq Id
  /\ DeadStream \notin [queue : Queue, moved_from_ : BOOLEAN]

VARIABLES
  stream,             \* stream[s]: view_'s queue and moved_from_, or DeadStream
  stream_queue_map_,  \* the list of open stream queues of each device
  current_device_id_,
  moved               \* objects the application has moved from and not assigned to

streamVars == <<stream, stream_queue_map_, current_device_id_, moved>>

StreamAlive(s) == stream[s] # DeadStream

Open == UNION {stream_queue_map_[d] : d \in Device}

(* A queue that is neither open nor referred to by an object. *)
Fresh == {q \in Queue \ Open : \A s \in Stream : StreamAlive(s) => stream[s].queue # q}

StreamsInit ==
  /\ stream = [s \in Stream |-> DeadStream]
  /\ stream_queue_map_ = [d \in Device |-> {}]
  /\ current_device_id_ \in Device
  /\ moved = {}

(* gt::stream s: new_stream_queue() on the current device. *)
New(s) ==
  /\ ~ StreamAlive(s)
  /\ \E q \in Fresh, g \in Garbage :
        /\ stream' = [stream EXCEPT ![s] = [queue |-> q, moved_from_ |-> g]]
        /\ stream_queue_map_' = [stream_queue_map_ EXCEPT ![current_device_id_] = @ \cup {q}]
  /\ UNCHANGED <<current_device_id_, moved>>

(* sync_and_destroy(s): delete_stream_queue looks in the list of the       *)
(* current device.                                                         *)
SyncAndDestroy(q, movedFrom) ==
  stream_queue_map_' =
    IF movedFrom THEN stream_queue_map_
                 ELSE [stream_queue_map_ EXCEPT ![current_device_id_] = @ \ {q}]

(* ~stream *)
DestroyStream(s) ==
  /\ StreamAlive(s)
  /\ SyncAndDestroy(stream[s].queue, stream[s].moved_from_)
  /\ stream' = [stream EXCEPT ![s] = DeadStream]
  /\ moved' = moved \ {s}
  /\ UNCHANGED current_device_id_

(* gt::stream t(std::move(s)); s was not moved from before.                *)
MoveConstructStream(t, s) ==
  /\ ~ StreamAlive(t) /\ StreamAlive(s) /\ s \notin moved
  /\ \E g \in Garbage :
        stream' = [stream EXCEPT ![t] = [queue |-> stream[s].queue, moved_from_ |-> g],
                                 ![s].moved_from_ = TRUE]
  /\ moved' = moved \cup {s}
  /\ UNCHANGED <<stream_queue_map_, current_device_id_>>

(* Mutant: destroys the queue it has just taken over, not the old one.     *)
MoveAssignDestroysNew(t, s) ==
  /\ StreamAlive(t) /\ StreamAlive(s) /\ s \notin moved
  /\ stream' = [stream EXCEPT ![t].queue = stream[s].queue, ![s].moved_from_ = TRUE]
  /\ SyncAndDestroy(stream[s].queue, stream'[t].moved_from_)
  /\ moved' = (moved \ {t}) \cup {s}
  /\ UNCHANGED current_device_id_

(* t = std::move(s): takes over the view, marks s and then destroys the    *)
(* old stream of t unless t is marked by now; t's own mark is not reset.   *)
MoveAssignStream(t, s) ==
  /\ StreamAlive(t) /\ StreamAlive(s) /\ s \notin moved
  /\ stream' = [stream EXCEPT ![t].queue = stream[s].queue, ![s].moved_from_ = TRUE]
  /\ SyncAndDestroy(stream[t].queue, stream'[t].moved_from_)
  /\ moved' = (moved \ {t}) \cup {s}
  /\ UNCHANGED current_device_id_

(* Mutant: the id is not checked.                                          *)
DeviceSetUnchecked(d) ==
  /\ d # current_device_id_
  /\ current_device_id_' = d
  /\ UNCHANGED <<stream, stream_queue_map_, moved>>

(* device_set(d): an id that does not exist throws.                        *)
DeviceSet(d) ==
  /\ d # current_device_id_
  /\ d \in Device
  /\ current_device_id_' = d
  /\ UNCHANGED <<stream, stream_queue_map_, moved>>

StreamsNext ==
  \/ \E s \in Stream : New(s) \/ DestroyStream(s)
  \/ \E t, s \in Stream : MoveConstructStream(t, s) \/ MoveAssignStream(t, s)
  \/ \E d \in Id : DeviceSet(d)

StreamsSpec == StreamsInit /\ [][StreamsNext]_streamVars

-----------------------------------------------------------------------------
(* Properties *)

(* Objects, lists and the current device have their declared ranges. *)
StreamsTypeOK ==
  /\ stream \in [Stream -> [queue : Queue, moved_from_ : BOOLEAN] \cup {DeadStream}]
  /\ stream_queue_map_ \in [Device -> SUBSET Queue]
  /\ current_device_id_ \in Device
  /\ moved \subseteq Stream

(* An object the application may use owns an open queue, and owns it       *)
(* alone: no sequence of moves, device changes and destructions closes a   *)
(* stream under its owner or gives it two.                                 *)
UsableStreamOpen ==
  \A s \in Stream :
    StreamAlive(s) /\ s \notin moved =>
      /\ stream[s].queue \in Open
      /\ \A t \in Stream :
           StreamAlive(t) /\ t \notin moved /\ t # s => stream[t].queue # stream[s].queue
=============================================================================
