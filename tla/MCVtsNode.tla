----------------------------- MODULE MCVtsNode ------------------------------
(* Small counters, a short ring and two kinds of requests for TLC.         *)
EXTENDS VtsNode

MCStatus == [rq \in Requests |-> IF rq = "quick" THEN 200 ELSE 504]
MCLength == [rq \in Requests |-> IF rq = "quick" THEN 3 ELSE 1]
MCSent == [rq \in Requests |-> IF rq = "quick" THEN 0 ELSE 2]
MCMsec == [rq \in Requests |-> IF rq = "quick" THEN [request |-> 1, response |-> 0]
                                               ELSE [request |-> 3, response |-> 2]]

MCBounds == <<0, 2>>
=============================================================================
