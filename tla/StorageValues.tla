---------------------------- MODULE StorageValues ----------------------------
(***************************************************************************)
(* What a user of gtensor_storage (include/gtensor/gtensor_storage.h)      *)
(* sees: independent values.  Each object is a sequence of elements, none  *)
(* shares anything with another, and there is no device, no pointer and no *)
(* capacity.  Elements nobody wrote have arbitrary values.                 *)
(***************************************************************************)
EXTENDS Naturals, Sequences

CONSTANTS
  Obj,      \* the names of storage objects
  Value,    \* the values of an element
  MaxSize,  \* the largest size asked for
  Dead,     \* marks a name whose object is not alive
  Lost      \* an object whose memory could not be allocated

VARIABLE val  \* val[o]: the elements of o, or Dead, or Lost

Elements(n) == [1..n -> Value]

Init == val = [o \in Obj |-> Dead]

HasElements(o) == val[o] # Dead /\ val[o] # Lost

Construct(o, n) ==
  /\ val[o] = Dead
  /\ \E v \in Elements(n) \cup {Lost} : val' = [val EXCEPT ![o] = v]

(* Copy construction and copy assignment, also of an object to itself. *)
Copy(o, s) ==
  /\ HasElements(s)
  /\ val' = [val EXCEPT ![o] = val[s]]

(* A moved-from object is empty: so is one that is moved to itself. *)
Move(o, s) ==
  /\ val[s] # Dead
  /\ val' = [[val EXCEPT ![o] = val[s]] EXCEPT ![s] = << >>]

(* Resizing keeps the common prefix. *)
Resize(o, n) ==
  /\ HasElements(o)
  /\ \E v \in Elements(n) :
        /\ \A i \in 1..n : i <= Len(val[o]) => v[i] = val[o][i]
        /\ val' = [val EXCEPT ![o] = v]

(* Only an object without elements can fail to get memory and lose itself. *)
LoseMemory(o) ==
  /\ val[o] = << >> \/ val[o] = Lost
  /\ val' = [val EXCEPT ![o] = Lost]

(* What a lost object holds after it does get memory. *)
Recover(o, n) ==
  /\ val[o] = Lost
  /\ \E v \in Elements(n) : val' = [val EXCEPT ![o] = v]

Write(o) ==
  /\ HasElements(o)
  /\ \E v \in Elements(Len(val[o])) : val' = [val EXCEPT ![o] = v]

Destroy(o) ==
  /\ val[o] # Dead
  /\ val' = [val EXCEPT ![o] = Dead]

Next ==
  \E o \in Obj :
    \/ \E n \in 0..MaxSize : Construct(o, n) \/ Resize(o, n) \/ Recover(o, n)
    \/ \E s \in Obj : Copy(o, s) \/ Move(o, s)
    \/ LoseMemory(o) \/ Write(o) \/ Destroy(o)

Spec == Init /\ [][Next]_val
=============================================================================
