----------------------------- MODULE BandSolver -----------------------------
(***************************************************************************)
(* The banded LU solver of gt-blas (gt-blas/bandsolver.h): the search for  *)
(* the bandwidth, the SYCL kernel whose threads solve one right-hand side  *)
(* together, in both variants, and the kernel of the other backends, where *)
(* one thread does.                                                        *)
(*                                                                         *)
(* Elements are numbers modulo the prime Prime: a field, like the reals    *)
(* that floating-point numbers stand for, in which the result can be       *)
(* compared with the solution.  Rows, columns and threads count from 0,    *)
(* pivots from 1.  A barrier is passed when every thread has arrived.      *)
(***************************************************************************)
EXTENDS Integers, SequencesExt, FiniteSetsExt

CONSTANTS
  N,         \* size of the matrix
  Prime,     \* the elements are integers modulo this prime
  Matrices,  \* LU factored matrices: row, column -> element
  Pivots,    \* pivot vectors of getrf
  Rhs,       \* right-hand sides
  BlockSize  \* threads of the sub-group

ASSUME SizesAssumption == N \in Nat \ {0} /\ BlockSize \in Nat \ {0}

Rows == 0..(N - 1)
Elements == 0..(Prime - 1)
Thread == 0..(BlockSize - 1)

ASSUME ArgumentsAssumption ==
  /\ Prime \in Nat /\ Prime > 1 /\ \A d \in 2..(Prime - 1) : Prime % d # 0
  /\ Matrices \subseteq [Rows \X Rows -> Elements]
  /\ \A M \in Matrices : \A i \in Rows : M[i, i] # 0
  /\ Pivots \subseteq [Rows -> 1..N]
  /\ \A piv \in Pivots : \A i \in Rows : piv[i] > i
  /\ Rhs \subseteq [Rows -> Elements]

VARIABLES
  problem,  \* the arguments: A, piv, b, lbw, ubw, and whether B fits local memory
  mem,      \* mem["B"], mem["sol"]: the right-hand side and its copy
  thread    \* thread[o]: where it is (pc), loop variables i and b, register x,
            \* and the number of barriers it has arrived at

vars == <<problem, mem, thread>>

Plus(a, b) == (a + b) % Prime
Minus(a, b) == (a - b) % Prime
Times(a, b) == (a * b) % Prime
Over(a, b) == CHOOSE c \in Elements : Times(c, b) = a
Total(s) == FoldLeft(Plus, 0, s)

-----------------------------------------------------------------------------
(* get_max_bandwidth *)

(* Mutant: the walk along a diagonal stops before row or column 0.         *)
DiagonalShort(M, d) ==
  {M[p[1], p[2]] : p \in {q \in Rows \X Rows : q[1] - q[2] = d /\ q[1] > 0 /\ q[2] > 0}}

Diagonal(M, d) == {M[p[1], p[2]] : p \in {q \in Rows \X Rows : q[1] - q[2] = d}}

(* The diagonals are looked at from the corner, until one is not zero. *)
LowerBandwidth(M) ==
  N - 1 - Cardinality({d \in 1..(N - 1) : \A e \in d..(N - 1) : Diagonal(M, e) \subseteq {0}})

UpperBandwidth(M) ==
  N - 1 - Cardinality({d \in 1..(N - 1) : \A e \in d..(N - 1) : Diagonal(M, -e) \subseteq {0}})

-----------------------------------------------------------------------------
(* The kernel of one thread: getrs_banded_batched without SYCL, and the    *)
(* same loops in invert_banded_batched.                                    *)

(* Elements i and j of v exchanged. *)
Exchanged(v, ij) == [v EXCEPT ![ij[1]] = v[ij[2]], ![ij[2]] = v[ij[1]]]

Pivoted(piv, b) == FoldLeft(Exchanged, b, [k \in 1..N |-> <<k - 1, piv[k - 1] - 1>>])

(* A pass of an outer loop: row i of M, and the columns of the inner loop. *)
Pass(M, i, first, last) == [A |-> M, row |-> i, first |-> first, last |-> last]

(* What the inner loop makes of element p.row of v. *)
Reduced(v, p) ==
  Minus(v[p.row], Total([k \in 1..(p.last - p.first + 1) |->
                           Times(p.A[p.row, p.first + k - 1], v[p.first + k - 1])]))

ForwardRow(v, p) == [v EXCEPT ![p.row] = Reduced(v, p)]
BackwardRow(v, p) == [v EXCEPT ![p.row] = Over(Reduced(v, p), p.A[p.row, p.row])]

(* The rows before lbw reach back to column 0. *)
ForwardPass(M, lbw, i) == Pass(M, i, IF i < lbw THEN 0 ELSE i - lbw, i - 1)
BackwardPass(M, ubw, i) == Pass(M, i, i + 1, IF i > N - ubw - 1 THEN N - 1 ELSE i + ubw)

Forward(M, lbw, b) == FoldLeft(ForwardRow, b, [k \in 1..N |-> ForwardPass(M, lbw, k - 1)])
Backward(M, ubw, b) == FoldLeft(BackwardRow, b, [k \in 1..N |-> BackwardPass(M, ubw, N - k)])

GetrsBanded(p, b) == Backward(p.A, p.ubw, Forward(p.A, p.lbw, Pivoted(p.piv, b)))

(* Column rhs of the inverse. *)
InvertBanded(p, rhs) == GetrsBanded(p, [i \in Rows |-> IF i = rhs THEN 1 ELSE 0])

SolveInverted(p, b) ==
  [i \in Rows |-> Total([k \in 1..N |-> Times(InvertBanded(p, k - 1)[i], b[k - 1])])]

-----------------------------------------------------------------------------
(* The kernel of a sub-group *)

(* The array the threads work on: local memory if B fits, else B itself.   *)
Work == IF problem.local THEN "sol" ELSE "B"

Init ==
  /\ \E M \in Matrices, piv \in Pivots, b \in Rhs, local \in BOOLEAN :
     \E lbw \in LowerBandwidth(M)..(N - 1), ubw \in UpperBandwidth(M)..(N - 1) :
       /\ problem = [A |-> M, piv |-> piv, b |-> b, lbw |-> lbw, ubw |-> ubw, local |-> local]
       /\ mem = [B |-> b, sol |-> [i \in Rows |-> 0]]
       /\ thread = [o \in Thread |-> [pc |-> IF local THEN "load" ELSE "pivot",
                                      i |-> 0, b |-> o, x |-> 0, barriers |-> 0]]

(* sycl::group_barrier(sg): no thread goes on before all have arrived.     *)
Released(o) == \A t \in Thread : thread[t].barriers >= thread[o].barriers

At(o, pc) == thread[o].pc = pc /\ Released(o)

Go(o, t) == thread' = [thread EXCEPT ![o] = t]

(* Thread o is at next, behind a barrier. *)
Arrived(o, next) == [thread[o] EXCEPT !.pc = next, !.barriers = @ + 1]

(* sol[b] = B[b] for every BlockSize-th b. *)
Load(o) ==
  /\ At(o, "load")
  /\ IF thread[o].b < N
       THEN /\ mem' = [mem EXCEPT !.sol[thread[o].b] = mem.B[thread[o].b]]
            /\ Go(o, [thread[o] EXCEPT !.b = @ + BlockSize])
       ELSE Go(o, Arrived(o, "pivot")) /\ UNCHANGED mem
  /\ UNCHANGED problem

(* Thread 0 exchanges rows. *)
Pivot(o) ==
  /\ At(o, "pivot")
  /\ mem' = IF o = 0 THEN [mem EXCEPT ![Work] = Pivoted(problem.piv, @)] ELSE mem
  /\ Go(o, Arrived(o, "forward"))
  /\ UNCHANGED problem

(* x = sol[i], the first statement of a forward step *)
ReadForward(o) ==
  /\ At(o, "forward")
  /\ Go(o, [thread[o] EXCEPT !.pc = "eliminate", !.x = mem[Work][thread[o].i],
                             !.b = thread[o].i + o + 1])
  /\ UNCHANGED <<problem, mem>>

(* Is there another row for o in this column? *)
Eliminating(t) == t.b <= t.i + problem.lbw /\ t.b < N

Update(o) ==
  mem' = [mem EXCEPT ![Work][thread[o].b] =
            Minus(@, Times(problem.A[thread[o].b, thread[o].i], thread[o].x))]

Eliminate(o) ==
  /\ At(o, "eliminate") /\ Eliminating(thread[o])
  /\ Update(o)
  /\ Go(o, [thread[o] EXCEPT !.b = @ + BlockSize])
  /\ UNCHANGED problem

(* Mutant: no barrier between two columns.                                 *)
NextColumnNoBarrier(o) ==
  /\ At(o, "eliminate") /\ ~ Eliminating(thread[o])
  /\ Go(o, IF thread[o].i < N - 1 THEN [thread[o] EXCEPT !.pc = "forward", !.i = @ + 1]
                                  ELSE Arrived(o, "backward"))
  /\ UNCHANGED <<problem, mem>>

(* Mutant: the loop goes one column too far.                               *)
NextColumnPastEnd(o) ==
  /\ At(o, "eliminate") /\ ~ Eliminating(thread[o])
  /\ Go(o, IF thread[o].i < N THEN [Arrived(o, "forward") EXCEPT !.i = @ + 1]
                              ELSE Arrived(o, "backward"))
  /\ UNCHANGED <<problem, mem>>

(* Mutant: a thread without a row in this column goes by the barrier.      *)
NextColumnDivergent(o) ==
  /\ At(o, "eliminate") /\ ~ Eliminating(thread[o])
  /\ LET t == IF thread[o].b = thread[o].i + o + 1 THEN [thread[o] EXCEPT !.pc = "forward"]
                                                   ELSE Arrived(o, "forward")
     IN  Go(o, IF t.i < N - 1 THEN [t EXCEPT !.i = @ + 1] ELSE [t EXCEPT !.pc = "backward"])
  /\ UNCHANGED <<problem, mem>>

(* The barrier at the end of a forward step, and the loop around it. *)
NextColumn(o) ==
  /\ At(o, "eliminate") /\ ~ Eliminating(thread[o])
  /\ Go(o, IF thread[o].i < N - 1 THEN [Arrived(o, "forward") EXCEPT !.i = @ + 1]
                                  ELSE Arrived(o, "backward"))
  /\ UNCHANGED <<problem, mem>>

(* x = sol[i] / A[i * lda + i], the first statement of a backward step *)
ReadBackward(o) ==
  /\ At(o, "backward")
  /\ Go(o, [thread[o] EXCEPT !.pc = "substitute",
                             !.x = Over(mem[Work][thread[o].i], problem.A[thread[o].i, thread[o].i]),
                             !.b = thread[o].i + o - problem.ubw])
  /\ UNCHANGED <<problem, mem>>

(* Rows above the matrix are skipped. *)
Substitute(o) ==
  /\ At(o, "substitute") /\ thread[o].b < thread[o].i
  /\ IF thread[o].b >= 0 THEN Update(o) ELSE UNCHANGED mem
  /\ Go(o, [thread[o] EXCEPT !.b = @ + BlockSize])
  /\ UNCHANGED problem

Substituted(o) ==
  /\ At(o, "substitute") /\ thread[o].b >= thread[o].i
  /\ Go(o, Arrived(o, "result"))
  /\ UNCHANGED <<problem, mem>>

(* Thread 0 writes the element behind the barrier; there is none before    *)
(* the next step.  The variant on B ends with the loop.                    *)
Result(o) ==
  /\ At(o, "result")
  /\ mem' = IF o = 0 THEN [mem EXCEPT ![Work][thread[o].i] = thread[o].x] ELSE mem
  /\ Go(o, IF thread[o].i > 0 THEN [thread[o] EXCEPT !.pc = "backward", !.i = @ - 1]
           ELSE IF problem.local THEN [Arrived(o, "store") EXCEPT !.b = o]
           ELSE [thread[o] EXCEPT !.pc = "done"])
  /\ UNCHANGED problem

(* B[b] = sol[b] for every BlockSize-th b. *)
Store(o) ==
  /\ At(o, "store")
  /\ IF thread[o].b < N
       THEN /\ mem' = [mem EXCEPT !.B[thread[o].b] = mem.sol[thread[o].b]]
            /\ Go(o, [thread[o] EXCEPT !.b = @ + BlockSize])
       ELSE Go(o, Arrived(o, "done")) /\ UNCHANGED mem
  /\ UNCHANGED problem

ThreadStep(o) ==
  \/ Load(o) \/ Pivot(o)
  \/ ReadForward(o) \/ Eliminate(o) \/ NextColumn(o)
  \/ ReadBackward(o) \/ Substitute(o) \/ Substituted(o) \/ Result(o)
  \/ Store(o)

Next == \E o \in Thread : ThreadStep(o)

(* The threads of a sub-group that is running all make progress. *)
Fairness == \A o \in Thread : WF_vars(ThreadStep(o))

Spec == Init /\ [][Next]_vars /\ Fairness

-----------------------------------------------------------------------------
(* Properties *)

Done == \A o \in Thread : thread[o].pc = "done" /\ Released(o)

(* Arrays and threads have their declared ranges, and no thread leaves the *)
(* matrix.                                                                 *)
TypeOK ==
  /\ mem \in [{"B", "sol"} -> [Rows -> Elements]]
  /\ \A o \in Thread :
       /\ thread[o].pc \in {"load", "pivot", "forward", "eliminate", "backward", "substitute",
                            "result", "store", "done"}
       /\ thread[o].i \in Rows /\ thread[o].x \in Elements
       /\ thread[o].b \in (-N)..(N + BlockSize)
       /\ thread[o].barriers \in Nat

(* What the next statement of thread o reads and writes. *)
Reads(o) ==
  LET t == thread[o]
  IN  CASE t.pc = "load" /\ t.b < N -> {<<"B", t.b>>}
        [] t.pc = "store" /\ t.b < N -> {<<"sol", t.b>>}
        [] t.pc = "pivot" /\ o = 0 -> {Work} \X Rows
        [] t.pc \in {"forward", "backward"} -> {<<Work, t.i>>}
        [] t.pc = "eliminate" /\ Eliminating(t) -> {<<Work, t.b>>}
        [] t.pc = "substitute" /\ t.b \in 0..(t.i - 1) -> {<<Work, t.b>>}
        [] OTHER -> {}

Writes(o) ==
  LET t == thread[o]
  IN  CASE t.pc = "load" /\ t.b < N -> {<<"sol", t.b>>}
        [] t.pc = "store" /\ t.b < N -> {<<"B", t.b>>}
        [] t.pc = "result" /\ o = 0 -> {<<Work, t.i>>}
        [] t.pc \in {"pivot", "eliminate", "substitute"} -> Reads(o)
        [] OTHER -> {}

(* No element is written by one thread while another could read or write   *)
(* it: the barriers of the kernel, one per column and none behind the      *)
(* write of a result, are enough for any bandwidth.                        *)
RaceFree ==
  \A o, t \in Thread :
    o # t /\ Released(o) /\ Released(t) => Writes(o) \cap (Reads(t) \cup Writes(t)) = {}

(* What the stored factors are: 1 on the diagonal of L. *)
L(M) == [ij \in Rows \X Rows |->
           IF ij[1] = ij[2] THEN 1 ELSE IF ij[1] > ij[2] THEN M[ij] ELSE 0]
U(M) == [ij \in Rows \X Rows |-> IF ij[1] <= ij[2] THEN M[ij] ELSE 0]
Applied(M, v) == [i \in Rows |-> Total([k \in 1..N |-> Times(M[i, k - 1], v[k - 1])])]

(* The threads together leave the solution of LU x = Pb in B, for any      *)
(* bandwidths not below those of the matrix (it may share a batch with     *)
(* wider ones), and the kernel of one thread and the product with the      *)
(* inverse come to the same.                                               *)
Solves ==
  Done =>
    /\ Applied(L(problem.A), Applied(U(problem.A), mem.B)) = Pivoted(problem.piv, problem.b)
    /\ mem.B = GetrsBanded(problem, problem.b)
    /\ mem.B = SolveInverted(problem, problem.b)

(* Every thread meets the same barriers: the kernel ends. *)
Termination == <>Done
=============================================================================
