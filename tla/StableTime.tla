----------------------------- MODULE StableTime -----------------------------
(***************************************************************************)
(* What a stable time promises the rest of a protocol, whatever the rounds *)
(* that compute it: a partition's stable time only rises, one partition at *)
(* a time, and never above what every partition has reached.  GrGst        *)
(* implements it for the GST of gr, GrvGst for each entry of the GST       *)
(* vector of grv; GrSession and GrvSession rely on nothing else.  The      *)
(* partitions are the domain of both functions.                            *)
(***************************************************************************)
EXTENDS Integers

CONSTANT
    Time         \* the timestamps

VARIABLES
    peak,   \* the highest time each partition has received everything up to
    gst     \* the stable time that each partition knows

Init ==
    /\ peak = [p \in DOMAIN gst |-> 0]
    /\ gst = [p \in DOMAIN peak |-> 0]

\* Partition p has received everything up to t.
Reach(p, t) ==
    /\ t > peak[p]
    /\ peak' = [peak EXCEPT ![p] = t]
    /\ UNCHANGED gst

\* Partition p learns that every partition has received everything up to g.
Raise(p, g) ==
    /\ g > gst[p]
    /\ \A q \in DOMAIN peak : g <= peak[q]
    /\ gst' = [gst EXCEPT ![p] = g]
    /\ UNCHANGED peak

Next == \E p \in DOMAIN gst, t \in Time : Reach(p, t) \/ Raise(p, t)

Spec == Init /\ [][Next]_<<peak, gst>>
=============================================================================
