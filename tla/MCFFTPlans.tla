----------------------------- MODULE MCFFTPlans -----------------------------
(* Three objects, and handles for a full set of resources for each of two  *)
(* with some left for plans that a move assignment forgets.                *)
EXTENDS FFTPlans, TLC

MCBackends == {"cuda", "hip", "sycl", "bbfft"}

Symmetry == Permutations(Plan) \cup Permutations(Handle)
=============================================================================
