----------------------------- MODULE Reductions -----------------------------
(***************************************************************************)
(* The reductions of include/gtensor/reductions.h: sum, max, min, reduce,  *)
(* transform_reduce, norm_linf and sum_squares, which yield one value and  *)
(* wait for it, and sum_axis_to, a kernel.                                 *)
(*                                                                         *)
(* On a device the items of a reduction are combined by work groups, each  *)
(* in a private copy, and the copies are combined into the result, all in  *)
(* an order that nobody chooses.  norm_linf and sum_squares evaluate an    *)
(* expression into a temporary first, by a kernel on the default queue     *)
(* whatever stream the reduction is to run on.                             *)
(*                                                                         *)
(* Out of bounds of the model, because the code does not do them:          *)
(*   - max on a device of elements that are all negative, which is 0;      *)
(*   - reduce on SYCL with an init that is not neutral, which every group  *)
(*     adds;                                                               *)
(*   - norm_linf, and sum_squares of an expression, on a SYCL stream,      *)
(*     which does not wait for the temporary (ReductionCorrect would fail);        *)
(*   - max and min of nothing, and sum_axis_to along an axis of extent 0,  *)
(*     which read an element that is not there.                            *)
(***************************************************************************)
EXTENDS DeviceQueues, Indexing

CONSTANTS
  Contents,  \* a record of the contents the application writes, sequences
  Inits,     \* the inits it calls reduce with
  Groups,    \* the work groups of a device
  Shapes,    \* the shapes of arrays that are summed along an axis
  MaxQueue,  \* bound on the work waiting in a queue
  None       \* no value: neutral for every operation

Backend == {"thrust", "sycl", "sycl_host", "host"}
Queue == {"default", "stream"}
Function == {"sum", "max", "min", "reduce", "transform_reduce", "norm_linf", "sum_squares"}
BinaryOp == {"plus", "maximum", "minimum"}

ASSUME ConstantsAssumption ==
  /\ \A v \in DOMAIN Contents : Contents[v] \in Seq(Int)
  /\ "copy" \notin DOMAIN Contents
  /\ Inits \subseteq Int
  /\ Groups # {} /\ IsFiniteSet(Groups)
  /\ Shapes \subseteq Seq(Nat)
  /\ MaxQueue \in Nat \ {0}
  /\ None \notin Int /\ None \notin Seq(Seq(Nat))

VARIABLES
  backend,   \* the build
  dev,       \* the device: contents of the arrays a and temp, work per queue
  expected,  \* what a holds when the queues are done
  call,      \* the reduction under way: an element of Calls, or NoCall
  private,   \* the private copies of the groups
  result,    \* the result on the device
  todo,      \* the items no group has taken
  correct,   \* whether the last value returned was the one asked for
  kernel,    \* the axis sum under way, or NoKernel
  out        \* the cells of its output

vars == <<backend, dev, expected, call, private, result, todo, correct, kernel, out>>

NoCall == [f |-> None]
NoKernel == [threads |-> {}]

-----------------------------------------------------------------------------
(* Values *)

Combine(op, x, y) ==
  IF x = None THEN y
  ELSE IF y = None THEN x
  ELSE CASE op = "plus"    -> x + y
         [] op = "maximum" -> IF x > y THEN x ELSE y
         [] op = "minimum" -> IF x < y THEN x ELSE y

(* UnaryOpIdentity, UnaryOpNorm. *)
Transform(f, x) == IF f \in {"transform_reduce", "sum_squares"} THEN x * x ELSE x

Abs(x) == IF x < 0 THEN -x ELSE x

(* The values behind the contents of a buffer. *)
Meaning(term) ==
  LET first == Contents[term[Len(term)][1]]
  IN  IF Len(term) = 1 THEN Contents[term[1]]
      ELSE CASE term[1] = "abs"    -> [i \in DOMAIN first |-> Abs(first[i])]
             [] term[1] = "double" -> [i \in DOMAIN first |-> 2 * first[i]]

(* The operation a function combines with, given that of reduce(). *)
OpOf(f, op) ==
  CASE f \in {"sum", "sum_squares"} -> "plus"
    [] f \in {"max", "norm_linf"}   -> "maximum"
    [] f = "min" -> "minimum"
    [] OTHER -> op

-----------------------------------------------------------------------------
(* What the result starts from and what every private copy starts from.    *)

ThrustStart(f, init, data) ==
  [result  |-> CASE f \in {"sum", "max", "norm_linf", "sum_squares"} -> 0
                 [] f = "min" -> None
                 [] OTHER -> init,
   private |-> None]

(* Mutant: the buffer for the minimum starts at 0, as that for the maximum. *)
SyclStartAtZero(f, init, data) ==
  CASE f = "sum" -> [result |-> 0, private |-> 0]
    [] f \in {"max", "norm_linf", "min"} -> [result |-> 0, private |-> None]
    [] f = "sum_squares" -> [result |-> 0, private |-> 0]
    [] OTHER -> [result |-> init, private |-> init]

(* sycl::reduction knows the neutral elements of its own operations, and   *)
(* transform_reduce hands it init for one.  The maximum starts at 0, the   *)
(* minimum, by a task of its own, at the first element.                    *)
SyclStart(f, init, data) ==
  CASE f = "sum" -> [result |-> 0, private |-> 0]
    [] f \in {"max", "norm_linf"} -> [result |-> 0, private |-> None]
    [] f = "min" -> [result |-> data[1], private |-> None]
    [] f = "sum_squares" -> [result |-> 0, private |-> 0]
    [] OTHER -> [result |-> init, private |-> init]

Start(f, init, data) ==
  IF backend = "thrust" THEN ThrustStart(f, init, data) ELSE SyclStart(f, init, data)

(* The loops on the host. *)
Loop(f, op, start, data) ==
  LET value[n \in 0..Len(data)] ==
        IF n = 0 THEN start ELSE Combine(op, value[n - 1], Transform(f, data[n]))
  IN  value[Len(data)]

HostReduce(f, op, init, data) ==
  CASE f \in {"sum", "sum_squares"}  -> Loop(f, op, 0, data)
    [] f \in {"max", "norm_linf"}    -> Loop(f, op, data[1], Tail(data))
    [] f = "min"                     -> Loop(f, op, data[1], data)
    [] f \in {"reduce", "transform_reduce"} -> Loop(f, op, init, data)

(* The reference: the sum, the greatest or the least of the values, and of *)
(* init where the caller gives one.                                        *)
Reduced(f, op, init, data) ==
  LET given == f \in {"reduce", "transform_reduce"}
      values == {Transform(f, data[i]) : i \in DOMAIN data} \cup (IF given THEN {init} ELSE {})
  IN  CASE op = "plus"    -> (IF given THEN init ELSE 0) + Total([i \in DOMAIN data |-> Transform(f, data[i])])
        [] op = "maximum" -> CHOOSE x \in values : \A y \in values : x >= y
        [] op = "minimum" -> CHOOSE x \in values : \A y \in values : x <= y

(* The builds that run kernels and copies at once. *)
Host == backend \in {"host", "sycl_host"}

(* The functions that loop over the elements on the host.  On the host     *)
(* device of SYCL those that ask is_host_backend() do; transform_reduce()  *)
(* does not ask, so that it, reduce() and sum_squares() go to the queue.   *)
Loops(f) ==
  \/ backend = "host"
  \/ backend = "sycl_host" /\ f \in {"sum", "max", "min", "norm_linf"}

-----------------------------------------------------------------------------
Init ==
  /\ backend \in Backend
  /\ \E v \in DOMAIN Contents :
       /\ dev = [mem |-> [b \in {"a", "temp"} |-> <<v>>], queue |-> [q \in Queue |-> << >>]]
       /\ expected = <<v>>
  /\ call = NoCall
  /\ private = [g \in Groups |-> None]
  /\ result = None
  /\ todo = {}
  /\ correct = TRUE
  /\ kernel = NoKernel
  /\ out = << >>

SameReduction == UNCHANGED <<call, private, result, todo, correct>>
SameKernel == UNCHANGED <<kernel, out>>

HostRuns == call = NoCall /\ kernel = NoKernel

(* Kernels and copies of the host builds are done at once. *)
Enqueue(d, op) ==
  IF Host THEN [d EXCEPT !.mem = Executed(@, op)] ELSE Submit(d, "default", op)

(* The application writes its array by a kernel. *)
Fill(v) ==
  /\ HostRuns
  /\ Len(dev.queue["default"]) < MaxQueue
  /\ dev' = Enqueue(dev, {Store("a", v, << >>)})
  /\ expected' = <<v>>
  /\ UNCHANGED backend /\ SameReduction /\ SameKernel

-----------------------------------------------------------------------------
(* Reductions *)

(* What gt::eval has to compute: nothing when the argument is a container. *)
Source(f, e) == IF f = "norm_linf" THEN "abs" ELSE e

Buffer(source) == IF source = "a" THEN "a" ELSE "temp"

(* The work the reduction is: it reads its array for as long as it runs.   *)
Work(c) == {Store("result", "reduce", <<Buffer(c.source)>>)}

IsReduction(op) == call # NoCall /\ op = Work(call)

(* What the callers have to see to. *)
Supported(f, op, init, e, q) ==
  LET data == Contents[expected[1]]
  IN  /\ f \in {"max", "min", "norm_linf"} => Len(data) > 0
      /\ f = "max" /\ backend \in {"thrust", "sycl"} => \E i \in DOMAIN data : data[i] >= 0
      /\ backend \in {"sycl", "sycl_host"} /\ f \in {"reduce", "transform_reduce"}
           => Combine(op, init, init) = init
      /\ q = "stream" => /\ backend = "sycl" /\ f # "norm_linf" /\ e = "a"
                         /\ dev.queue["default"] = << >>

(* A call up to the point where the host waits. *)
Call(f, op, init, e, q) ==
  LET source == Source(f, e)
      term == IF source = "a" THEN expected ELSE <<source, expected>>
      c == [f |-> f, op |-> OpOf(f, op), init |-> IF f \in {"reduce", "transform_reduce"} THEN init ELSE 0,
            source |-> source, queue |-> q, running |-> FALSE,
             want |-> Reduced(f, OpOf(f, op), init, Meaning(term))]
      evaluated == IF source = "a" THEN dev
                   ELSE Enqueue(dev, {Store("temp", source, <<"a">>)})
  IN  /\ HostRuns
      /\ Supported(f, OpOf(f, op), init, e, q)
      /\ call' = c
      /\ dev' = IF Loops(f) THEN evaluated ELSE Submit(evaluated, q, Work(c))
      /\ UNCHANGED <<backend, expected, private, result, todo, correct>> /\ SameKernel

Data == Meaning(dev.mem[Buffer(call.source)])

(* The loop over the elements on the host. *)
OnHost ==
  /\ call # NoCall /\ Loops(call.f)
  /\ correct' = (HostReduce(call.f, call.op, call.init, Data) = call.want)
  /\ call' = NoCall
  /\ UNCHANGED <<backend, dev, expected, private, result, todo>> /\ SameKernel

(* The device begins with a reduction when its queue has got there. *)
Begin ==
  /\ call # NoCall /\ ~ Loops(call.f) /\ ~ call.running
  /\ dev.queue[call.queue] # << >> /\ IsReduction(Head(dev.queue[call.queue]))
  /\ LET s == Start(call.f, call.init, Data)
     IN  result' = s.result /\ private' = [g \in Groups |-> s.private]
  /\ todo' = DOMAIN Data
  /\ call' = [call EXCEPT !.running = TRUE]
  /\ UNCHANGED <<backend, dev, expected, correct>> /\ SameKernel

(* Group g takes item i. *)
WorkItem(g, i) ==
  /\ i \in todo
  /\ private' = [private EXCEPT ![g] = Combine(call.op, @, Transform(call.f, Data[i]))]
  /\ todo' = todo \ {i}
  /\ UNCHANGED <<backend, dev, expected, call, result, correct>> /\ SameKernel

(* Group g combines its copy into the result. *)
Flush(g) ==
  /\ call # NoCall /\ ~ Loops(call.f) /\ call.running /\ todo = {}
  /\ private[g] # None
  /\ result' = Combine(call.op, result, private[g])
  /\ private' = [private EXCEPT ![g] = None]
  /\ UNCHANGED <<backend, dev, expected, call, todo, correct>> /\ SameKernel

(* Mutant: the host does not wait, and reads what there is.                *)
ReturnEarly ==
  /\ call # NoCall /\ ~ Loops(call.f) /\ call.running
  /\ dev' = Step(dev, call.queue)
  /\ correct' = (result = call.want)
  /\ result' = None
  /\ call' = NoCall
  /\ UNCHANGED <<backend, expected, private, todo>> /\ SameKernel

(* e.wait(), and the result is returned; a temporary is freed, which waits *)
(* for the default queue.                                                  *)
Return ==
  /\ call # NoCall /\ ~ Loops(call.f) /\ call.running
  /\ todo = {} /\ \A g \in Groups : private[g] = None
  /\ dev' = Step(dev, call.queue)
  /\ correct' = (result = call.want)
  /\ result' = None
  /\ call' = NoCall
  /\ UNCHANGED <<backend, expected, private, todo>> /\ SameKernel

(* The default queue goes on with what is not a reduction. *)
DeviceStep ==
  /\ dev.queue["default"] # << >>
  /\ ~ IsReduction(Head(dev.queue["default"]))
  /\ dev' = Step(dev, "default")
  /\ UNCHANGED <<backend, expected>> /\ SameReduction /\ SameKernel

-----------------------------------------------------------------------------
(* sum_axis_to.  Every element of the input holds its own index, so that a *)
(* sum is the sequence of the indices that went into it.                   *)

Region(shape, strides, offset) == [shape |-> shape, strides |-> strides, offset |-> offset]

Cell(r, idx) == r.offset + CalcIndex(r.strides, idx)

(* A container, every second element of one, and one with its axes swapped. *)
Regions(shape) ==
  LET strides == CalcStrides(shape)
      swapped == Reverse(CalcStrides(Reverse(shape)))
  IN  {Region(shape, strides, 0),
       Region(shape, [d \in DOMAIN strides |-> 2 * strides[d]], 1),
       Region(shape, swapped, 0)}

(* The cells of an array that holds region r. *)
Cells(r) == 0..(2 * CalcSize(r.shape))

Content(r, cell) ==
  IF \E idx \in Indices(r.shape) : Cell(r, idx) = cell
    THEN CHOOSE idx \in Indices(r.shape) : Cell(r, idx) = cell
    ELSE None

(* Looked at on an idle device.                                            *)
LaunchAxisSum(shape, axis) ==
  LET shape_out == RemoveAt(shape, axis)
  IN  /\ HostRuns /\ Idle(dev)
      /\ shape[axis] > 0 /\ CalcSize(shape_out) > 0
      /\ \E in \in Regions(shape), to \in Regions(shape_out) :
           /\ kernel' = [in |-> in, to |-> to, axis |-> axis,
                         threads |-> 0..(CalcSize(shape_out) - 1)]
           /\ out' = [c \in Cells(to) |-> None]
      /\ UNCHANGED <<backend, dev, expected>> /\ SameReduction

(* Mutant: the index runs on from 1, over the end of the axis.             *)
AxisTermsFromOne(idx_out, i) ==
  Content(kernel.in, Cell(kernel.in, InsertAt(idx_out, kernel.axis, i + 1)))

(* The value in[idx_in] with idx_in[axis] = i. *)
AxisTerms(idx_out, i) ==
  Content(kernel.in, Cell(kernel.in, InsertAt(idx_out, kernel.axis, i)))

(* Thread i of the kernel. *)
AxisThread(i) ==
  LET idx_out == Unravel(i, CalcStrides(kernel.to.shape))
      reduction_length == kernel.in.shape[kernel.axis]
  IN  /\ i \in kernel.threads
      /\ out' = [out EXCEPT ![Cell(kernel.to, idx_out)] =
                   [j \in 1..reduction_length |-> AxisTerms(idx_out, j - 1)]]
      /\ kernel' = [kernel EXCEPT !.threads = @ \ {i}]
      /\ UNCHANGED <<backend, dev, expected>> /\ SameReduction

EndAxisSum ==
  /\ kernel # NoKernel /\ kernel.threads = {}
  /\ kernel' = NoKernel /\ out' = << >>
  /\ UNCHANGED <<backend, dev, expected>> /\ SameReduction

-----------------------------------------------------------------------------
Next ==
  \/ \E v \in DOMAIN Contents : Fill(v)
  \/ \E f \in Function, op \in BinaryOp, init \in Inits, e \in {"a", "double"}, q \in Queue :
       /\ e = "a" \/ f = "sum_squares"
       /\ Call(f, op, init, e, q)
  \/ OnHost \/ Begin \/ Return \/ DeviceStep
  \/ \E g \in Groups : Flush(g)
  \/ \E g \in Groups : \E i \in todo : WorkItem(g, i)
  \/ \E shape \in Shapes : \E axis \in DOMAIN shape : LaunchAxisSum(shape, axis)
  \/ \E i \in kernel.threads : AxisThread(i)
  \/ EndAxisSum

Spec == Init /\ [][Next]_vars

-----------------------------------------------------------------------------
(* Properties *)

(* Contents, partial results and kernels have their declared ranges; items *)
(* and copies are left over only while a reduction runs.                   *)
TypeOK ==
  /\ backend \in Backend
  /\ DOMAIN dev.mem = {"a", "temp"}
  /\ call # NoCall => call.f \in Function /\ call.op \in BinaryOp
  /\ call = NoCall => todo = {} /\ \A g \in Groups : private[g] = None
  /\ \A g \in Groups : private[g] = None \/ private[g] \in Int

(* A reduction returns its function of the elements the application wrote  *)
(* last, however the items are shared out among the groups, whatever the   *)
(* queues had still to do and wherever the result starts from (sum_1d,     *)
(* max_1d, min_1d, reduce_sum_1d and norm of src/tests/test_reductions.cxx);  *)
(* on a stream it does not read what the default queue writes.             *)
ReductionCorrect == correct /\ NoRace(dev)

(* An axis sum leaves in every element of the output the sum over the axis *)
(* of exactly the elements with its other indices, whatever the layouts of *)
(* the two views, and nothing in the elements between those of the output. *)
AxisSumCorrect ==
  kernel # NoKernel /\ kernel.threads = {} =>
    LET r == kernel.to
        sums == [idx \in Indices(r.shape) |->
                   [j \in 1..kernel.in.shape[kernel.axis] |->
                      InsertAt(idx, kernel.axis, j - 1)]]
    IN  /\ \A idx \in Indices(r.shape) : out[Cell(r, idx)] = sums[idx]
        /\ Cardinality({c \in DOMAIN out : out[c] # None}) = CalcSize(r.shape)
=============================================================================
