------------------------------ MODULE MC_Relay ------------------------------
(* Model-checking instance of Relay: two users, two partitions.            *)
EXTENDS Relay

CONSTANTS u1, u2, p1, p2

MCUsers == {u1, u2}
MCPartitions == {p1, p2}
MCKeyPartition == [u \in MCUsers |-> IF u = u1 THEN p1 ELSE p2]

=============================================================================
