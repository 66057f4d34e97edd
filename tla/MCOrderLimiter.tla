---------------------------- MODULE MCOrderLimiter ----------------------------
(* OrderLimiter for TLC: threads and IPs are interchangeable. *)
EXTENDS OrderLimiter, TLC

Symmetry == Permutations(Senders) \cup Permutations(Creators) \cup Permutations(Ips)
=============================================================================
