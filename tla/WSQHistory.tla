------------------------------- MODULE WSQHistory -------------------------------
(***************************************************************************)
(* The work-stealing queue with a history of what each empty() or size()   *)
(* call could have seen: the largest number of items in the queue since    *)
(* the call began.                                                         *)
(***************************************************************************)
EXTENDS WorkStealingQueue

VARIABLE most      \* the largest size of the queue since the call began

hvars == <<vars, most>>

\* What a thief could steal at this moment.
Size == IF bottom > top THEN bottom - top ELSE 0

HInit ==
    /\ Init
    /\ most = [p \in Thieves |-> 0]

Asking(p) == pc[p] = "query"

HNext ==
    /\ Next
    /\ most' = [p \in Thieves |->
                   IF ~Asking(p)' THEN 0
                   ELSE IF Asking(p) /\ most[p] > Size' THEN most[p] ELSE Size']

HSpec == HInit /\ [][HNext]_hvars

\* The answer of size() is never larger than the queue was at some moment of
\* the call; in particular, when empty() says no there was an item to steal.
NeverOverstated ==
    [][\A p \in Thieves : pc[p] = "query" /\ pc'[p] = "idle" => SizeResult(p) <= most[p]]_hvars
===============================================================================
