--------------------------- MODULE MCDeviceRuntime ---------------------------
(* Two stream objects, two devices, and a buffer of each kind of memory. *)
EXTENDS DeviceRuntime, TLC

CONSTANTS d, m, h

KindOf == (d :> "device") @@ (h :> "host") @@ (m :> "managed")

Symmetry == Permutations(Stream) \cup Permutations(Queue) \cup Permutations(Device)
=============================================================================
