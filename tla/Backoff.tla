------------------------------- MODULE Backoff -------------------------------
(***************************************************************************)
(* calculate_exponential_backoff, shared by file transfers and scheduler   *)
(* RPCs: a random delay in [lo, min(e^n, hi)), or lo if that is empty.     *)
(* Delays are whole ticks; 3^n bounds e^n above.                           *)
(***************************************************************************)
EXTENDS Naturals

calculate_exponential_backoff(n, lo, hi) ==
    {d \in lo..hi : d = lo \/ d < 3 ^ n}
=============================================================================
