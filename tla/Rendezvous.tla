----------------------------- MODULE Rendezvous -----------------------------
(***************************************************************************)
(* What the pairing of visitors with data channels promises, without       *)
(* tables, futures, timers or coroutines: an open request is joined by one *)
(* channel or fails, once and for all, and a channel joins one request.    *)
(***************************************************************************)
CONSTANTS Visitor, Data, NoData

VARIABLES
    phase,  \* the request of each visitor
    mate    \* the channel that joined it

Phases == {"none", "open", "joined", "failed", "over"}

Init ==
    /\ phase = [v \in Visitor |-> "none"]
    /\ mate  = [v \in Visitor |-> NoData]

\* A visitor is admitted, or turned away at once.
Enter(v, p) ==
    /\ phase[v] = "none"
    /\ p \in {"open", "over"}
    /\ phase' = [phase EXCEPT ![v] = p]
    /\ UNCHANGED mate

Join(v, d) ==
    /\ phase[v] = "open"
    /\ \A w \in Visitor : mate[w] # d
    /\ phase' = [phase EXCEPT ![v] = "joined"]
    /\ mate' = [mate EXCEPT ![v] = d]

\* One event may fail several requests, those of a client that has gone.
Fail(S) ==
    /\ \A v \in S : phase[v] = "open"
    /\ phase' = [v \in Visitor |-> IF v \in S THEN "failed" ELSE phase[v]]
    /\ UNCHANGED mate

Leave(v) ==
    /\ phase[v] \in {"open", "joined", "failed"}
    /\ phase' = [phase EXCEPT ![v] = "over"]
    /\ UNCHANGED mate

Next ==
    \/ \E v \in Visitor, p \in {"open", "over"} : Enter(v, p)
    \/ \E v \in Visitor, d \in Data : Join(v, d)
    \/ \E S \in SUBSET Visitor : Fail(S)
    \/ \E v \in Visitor : Leave(v)

Spec == Init /\ [][Next]_<<phase, mate>>
=============================================================================
