--------------------------- MODULE Pairing_proofs ---------------------------
(* Theorems about Pairing for every number of visitors, channels, clients. *)
EXTENDS Pairing, FiniteSetTheorems, TLAPS

\* What the futures and the closed flag of a pending request say together.
Verdicts ==
    \A v \in Visitor :
        /\ ready[v] = "yes" <=> data[v] # NoData
        /\ ready[v] = "no" => closed[v]
        /\ at[v] = "new" => ready[v] = "unset"
        /\ at[v] = "piping" => ready[v] = "yes"
        /\ at[v] = "new" \/ v \in items => ~done[v]

\* A channel belongs to one request from its registration on, and its handler
\* waits until that request is done.
Channels ==
    /\ \A v, w \in Visitor : data[v] # NoData /\ data[v] = data[w] => v = w
    /\ \A v \in Visitor : data[v] # NoData /\ ~done[v] =>
          dat[data[v]] = "waiting" /\ serves[data[v]] = v
    /\ \A d \in Data :
          /\ dat[d] \in {"new", "reading"} => \A v \in Visitor : data[v] # d
          /\ dat[d] = "reading" => link[d] # "closing"
          /\ dat[d] = "waiting" => serves[d] \in Visitor /\ data[serves[d]] = d
          /\ dat[d] = "waiting" /\ link[d] = "closing" => done[serves[d]]

\* The inductive invariant.
PairInv == TypeOK /\ TableExact /\ Verdicts /\ Channels

LEMMA FailType ==
    ASSUME TypeOK, NEW S \in SUBSET Visitor, Fail(S)
    PROVE  /\ closed' \in [Visitor -> BOOLEAN]
           /\ ready' \in [Visitor -> {"unset", "yes", "no"}]
           /\ \A v \in Visitor : /\ ready'[v] = "yes" <=> ready[v] = "yes"
                                 /\ ready'[v] # ready[v] => v \in S /\ ready[v] = "unset"
                                 /\ ready'[v] = "no" => ready[v] = "no" \/ closed'[v]
                                 /\ closed[v] => closed'[v]
  BY DEF Fail, TypeOK

THEOREM PairInvariant == Spec => []PairInv
<1>1. Init => PairInv
  BY PairingAssumption DEF Init, PairInv, TypeOK, TableExact, Verdicts, Channels, Stages
<1>2. PairInv /\ [Next]_vars => PairInv'
  <2> SUFFICES ASSUME PairInv, [Next]_vars PROVE PairInv'
    OBVIOUS
  <2> USE DEF PairInv, TypeOK, TableExact, Verdicts, Channels, Stages, pending, channel
  <2>1. ASSUME NEW v \in Visitor,
               TurnAway(v) \/ Notified(v) \/ NotifyFails(v) \/ StartPipe(v) \/ HearFailure(v)
               \/ Leave(v) \/ Gone(v)
        PROVE  PairInv'
    BY <2>1 DEF TurnAway, Notified, NotifyFails, StartPipe, HearFailure, Leave, Gone
  <2>2. ASSUME NEW v \in Visitor, NEW c \in Client, Admit(v, c) PROVE PairInv'
    BY <2>2 DEF Admit
  <2>3. ASSUME NEW v \in Visitor, Timeout(v) PROVE PairInv'
    <3>1. Fail({v}) /\ at' = [at EXCEPT ![v] = "replying"] /\ at[v] = "waiting"
          /\ UNCHANGED <<online, items, client, done, data, channel>>
      BY <2>3 DEF Timeout
    <3>2. /\ closed' \in [Visitor -> BOOLEAN]
          /\ ready' \in [Visitor -> {"unset", "yes", "no"}]
          /\ \A w \in Visitor : /\ ready'[w] = "yes" <=> ready[w] = "yes"
                                /\ ready'[w] # ready[w] => w = v
                                /\ ready'[w] = "no" => closed'[w]
      BY <3>1, FailType
    <3>3. at' \in [Visitor -> Stages] /\ UNCHANGED <<online, items, client, done, data, channel>>
      BY <3>1
    <3>4. TypeOK'
      BY <3>2, <3>3
    <3>5. TableExact'
      BY <3>1
    <3>6. Verdicts' /\ Channels'
      BY <3>1, <3>2
    <3>7. QED
      BY <3>4, <3>5, <3>6
  <2>4. ASSUME NEW v \in Visitor, at[v] \in {"replying", "piping"}, CleanUp(v) PROVE PairInv'
    <3>1. /\ items' = items \ {v} /\ done' = [done EXCEPT ![v] = TRUE]
          /\ UNCHANGED <<online, client, ready, closed, data, dat, serves>>
          /\ \/ data[v] = NoData /\ at' = [at EXCEPT ![v] = "leaving"] /\ UNCHANGED link
             \/ /\ data[v] # NoData /\ at' = [at EXCEPT ![v] = "releasing"]
                /\ link' = [link EXCEPT ![data[v]] = IF @ = "up" THEN "closing" ELSE @]
      BY <2>4 DEF CleanUp, Release
    <3>2. TypeOK' /\ TableExact' /\ Verdicts'
      BY <2>4, <3>1
    <3>3. Channels'
      BY <2>4, <3>1
    <3>4. QED
      BY <3>2, <3>3
  <2>5. ASSUME NEW d \in Data, DataConnects(d) \/ DataGivesUp(d) \/ DataGone(d) \/ DataLost(d)
        PROVE  PairInv'
    BY <2>5 DEF DataConnects, DataGivesUp, DataGone, DataLost, CloseData
  <2>6. ASSUME NEW d \in Data, DataDone(d) PROVE PairInv'
    BY <2>6 DEF DataDone, CloseData
  <2>7. ASSUME NEW d \in Data, NEW v \in Visitor, Register(d, v) PROVE PairInv'
    <3>1. CASE Attachable(v)
      <4>1. /\ dat[d] = "reading" /\ v \in items /\ ready[v] = "unset" /\ ~closed[v]
            /\ data' = [data EXCEPT ![v] = d] /\ ready' = [ready EXCEPT ![v] = "yes"]
            /\ serves' = [serves EXCEPT ![d] = v] /\ dat' = [dat EXCEPT ![d] = "waiting"]
            /\ UNCHANGED <<link, online, at, items, client, closed, done>>
        BY <2>7, <3>1 DEF Register, Attachable
      <4>2. TypeOK' /\ TableExact'
        BY <4>1
      <4>3. Verdicts'
        BY <4>1, PairingAssumption
      <4>4. \A w \in Visitor : data[w] # d
        BY <4>1
      <4>5. data[v] = NoData /\ ~done[v]
        BY <4>1
      <4>6. Channels'
        BY <4>1, <4>4, <4>5, PairingAssumption
      <4>7. QED
        BY <4>2, <4>3, <4>6
    <3>2. CASE ~Attachable(v)
      BY <2>7, <3>2 DEF Register, CloseData
    <3>3. QED
      BY <3>1, <3>2
  <2>8. CASE ControlStep
    <3>1. ASSUME NEW c \in Client, ClientOnline(c) \/ ClientUnacked(c) PROVE PairInv'
      BY <3>1 DEF ClientOnline, ClientUnacked
    <3>2. ASSUME NEW c \in Client, ClientOffline(c) PROVE PairInv'
      BY <3>2, FailType DEF ClientOffline, FailAllForClient
    <3>3. ASSUME NEW v \in Visitor, ConnError(v) PROVE PairInv'
      BY <3>3, FailType DEF ConnError
    <3>4. QED
      BY <2>8, <3>1, <3>2, <3>3 DEF ControlStep
  <2>9. CASE UNCHANGED vars
    BY <2>9 DEF vars
  <2>10. QED
    BY <2>1, <2>2, <2>3, <2>4, <2>5, <2>6, <2>7, <2>8, <2>9
    DEF Next, VisitorStep, DataStep, Replied, PipeEnds
<1>3. QED
  BY <1>1, <1>2, PTL DEF Spec

\* The variables of visitors, requests and channels keep their types, whatever
\* the order in which the handlers of both connections go on.
THEOREM PairingTypes == Spec => []TypeOK
  BY PairInvariant, PTL DEF PairInv

\* A visitor is piped with its own channel, whose handler stays out of the way
\* (core.py:956-997 and 1090-1139, pending.py:95-117).
THEOREM PipesHoldChannels == Spec => []PipeHoldsChannel
<1>1. PairInv => PipeHoldsChannel
  BY DEF PairInv, TypeOK, TableExact, Verdicts, Channels, PipeHoldsChannel
<1>2. QED
  BY <1>1, PairInvariant, PTL

\* finish() always reaches the handler that waits (pending.py:114-131).
THEOREM WaitersHeld == Spec => []WaitersAreHeld
<1>1. PairInv => WaitersAreHeld
  BY DEF PairInv, Channels, WaitersAreHeld
<1>2. QED
  BY <1>1, PairInvariant, PTL

\* Every path of _handle_visitor leaves the table through its finally block
\* (core.py:1135-1139).
THEOREM TableIsExact == Spec => []TableExact
  BY PairInvariant, PTL DEF PairInv

\* The first verdict on a request stands (pending.py:95-112).
THEOREM VerdictsStand == Spec => VerdictStands
<1>1. PairInv /\ [Next]_vars =>
        \A v \in Visitor : ready[v] # "unset" => ready'[v] = ready[v] /\ data'[v] = data[v]
  <2> SUFFICES ASSUME PairInv, [Next]_vars, NEW v \in Visitor, ready[v] # "unset"
               PROVE  ready'[v] = ready[v] /\ data'[v] = data[v]
    OBVIOUS
  <2> USE DEF PairInv, TypeOK, pending, channel
  <2>1. ASSUME NEW d \in Data, NEW w \in Visitor, Register(d, w)
        PROVE  ready'[v] = ready[v] /\ data'[v] = data[v]
    BY <2>1 DEF Register, Attachable
  <2>2. ASSUME NEW S \in SUBSET Visitor, Fail(S) PROVE ready'[v] = ready[v]
    BY <2>2 DEF Fail
  <2>3. ASSUME NEW w \in Visitor, VisitorStep(w)
        PROVE  ready'[v] = ready[v] /\ data'[v] = data[v]
    BY <2>2, <2>3 DEF VisitorStep, TurnAway, Admit, Notified, NotifyFails, StartPipe,
       HearFailure, Timeout, Replied, PipeEnds, CleanUp, Release, Leave, Gone
  <2>4. CASE ControlStep
    BY <2>2, <2>4 DEF ControlStep, ClientOnline, ClientOffline, ClientUnacked, ConnError,
       FailAllForClient
  <2>5. CASE UNCHANGED <<ready, data>>
    BY <2>5
  <2>6. QED
    BY <2>1, <2>3, <2>4, <2>5 DEF Next, DataStep, DataConnects, DataGivesUp, DataDone,
       DataGone, DataLost, vars
<1>2. PairInv /\ [Next]_vars =>
        [\A v \in Visitor : ready[v] # "unset" =>
            ready'[v] = ready[v] /\ data'[v] = data[v]]_vars
  BY <1>1
<1>3. QED
  BY <1>2, PairInvariant, PTL DEF Spec, VerdictStands

-----------------------------------------------------------------------------
\* The requests of a client in the table, by which its quota is judged.
Mine(c) == {v \in items : client[v] = c}

QuotaInv ==
    /\ IsFiniteSet(items)
    /\ Limit > 0 => \A c \in Client : Cardinality(Mine(c)) <= Limit

\* A step that admits nobody leaves each client's share of the table as it is
\* or smaller.
LEMMA SharesShrink ==
    ASSUME QuotaInv, items' \subseteq items, client' = client
    PROVE  QuotaInv'
<1>1. IsFiniteSet(items')
  BY FS_Subset DEF QuotaInv
<1>2. ASSUME Limit > 0, NEW c \in Client PROVE Cardinality(Mine(c)') <= Limit
  <2>1. Mine(c)' \in SUBSET Mine(c) /\ Mine(c) \in SUBSET items
    BY DEF Mine
  <2>2. IsFiniteSet(Mine(c))
    BY <2>1, FS_Subset DEF QuotaInv
  <2>3. /\ Cardinality(Mine(c)') <= Cardinality(Mine(c))
        /\ Cardinality(Mine(c)') \in Nat /\ Cardinality(Mine(c)) \in Nat
    BY <2>1, <2>2, FS_Subset, FS_CardinalityType
  <2>4. Cardinality(Mine(c)) <= Limit
    BY <1>2 DEF QuotaInv
  <2>5. QED
    BY <2>3, <2>4, PairingAssumption
<1>3. QED
  BY <1>1, <1>2 DEF QuotaInv

\* max_conns_per_client holds for every client id, over all its sessions
\* (core.py:1032-1056, pending.py:192-198).
THEOREM QuotaHolds == Spec => []QuotaRespected
<1>1. Init => QuotaInv
  <2> SUFFICES ASSUME Init PROVE QuotaInv
    OBVIOUS
  <2>1. items = {} /\ \A c \in Client : Mine(c) = {}
    BY DEF Init, Mine
  <2>2. QED
    BY <2>1, FS_EmptySet, PairingAssumption DEF QuotaInv
<1>2. PairInv /\ QuotaInv /\ [Next]_vars => QuotaInv'
  <2> SUFFICES ASSUME PairInv, QuotaInv, [Next]_vars PROVE QuotaInv'
    OBVIOUS
  <2>1. ASSUME NEW v \in Visitor, NEW c \in Client, Admit(v, c) PROVE QuotaInv'
    <3>1. /\ items' = items \cup {v} /\ client' = [client EXCEPT ![v] = c] /\ v \notin items
          /\ Limit > 0 => Cardinality(Mine(c)) < Limit
      BY <2>1 DEF Admit, Count, Mine, PairInv, TableExact
    <3>2. \A b \in Client : Mine(b)' = IF b = c THEN Mine(b) \cup {v} ELSE Mine(b)
      BY <3>1 DEF Mine, PairInv, TypeOK
    <3>3. \A b \in Client : IsFiniteSet(Mine(b)) /\ Cardinality(Mine(b)) \in Nat
      <4> SUFFICES ASSUME NEW b \in Client
                   PROVE  IsFiniteSet(Mine(b)) /\ Cardinality(Mine(b)) \in Nat
        OBVIOUS
      <4>1. Mine(b) \in SUBSET items
        BY DEF Mine
      <4>2. QED
        BY <4>1, FS_Subset, FS_CardinalityType DEF QuotaInv
    <3>4. Cardinality(Mine(c) \cup {v}) = Cardinality(Mine(c)) + 1
      <4>1. v \notin Mine(c)
        BY <3>1 DEF Mine
      <4>2. QED
        BY <3>3, <4>1, FS_AddElement
    <3>5. ASSUME Limit > 0, NEW b \in Client PROVE Cardinality(Mine(b)') <= Limit
      <4>1. CASE b = c
        BY <3>1, <3>2, <3>3, <3>4, <3>5, <4>1, PairingAssumption
      <4>2. CASE b # c
        BY <3>2, <3>5, <4>2 DEF QuotaInv
      <4>3. QED
        BY <4>1, <4>2
    <3>6. IsFiniteSet(items')
      BY <3>1, FS_AddElement DEF QuotaInv
    <3>7. QED
      BY <3>5, <3>6 DEF QuotaInv
  <2>2. ASSUME items' \subseteq items, client' = client PROVE QuotaInv'
    BY <2>2, SharesShrink
  <2>3. ASSUME NEW v \in Visitor, VisitorStep(v), ~(\E c \in Client : Admit(v, c)) PROVE QuotaInv'
    BY <2>2, <2>3 DEF VisitorStep, TurnAway, Notified, NotifyFails, StartPipe, HearFailure,
       Timeout, Replied, PipeEnds, CleanUp, Release, Leave, Gone, pending
  <2>4. ASSUME NEW d \in Data, DataStep(d) PROVE QuotaInv'
    BY <2>2, <2>4 DEF DataStep, DataConnects, Register, DataGivesUp, DataDone, DataGone,
       DataLost, pending
  <2>5. CASE ControlStep
    BY <2>2, <2>5 DEF ControlStep, ClientOnline, ClientOffline, ClientUnacked, ConnError, pending
  <2>6. CASE UNCHANGED vars
    BY <2>2, <2>6 DEF vars, pending
  <2>7. QED
    BY <2>1, <2>3, <2>4, <2>5, <2>6 DEF Next
<1>3. PairInv /\ QuotaInv => QuotaRespected
  <2> SUFFICES ASSUME PairInv, QuotaInv, Limit > 0, NEW c \in Client
               PROVE  Cardinality({v \in Visitor :
                          client[v] = c /\ at[v] \in {"notifying", "waiting", "piping"}}) <= Limit
    BY DEF QuotaRespected
  <2> DEFINE live == {v \in Visitor : client[v] = c /\ at[v] \in {"notifying", "waiting", "piping"}}
  <2>1. live \in SUBSET Mine(c) /\ Mine(c) \in SUBSET items
    BY DEF PairInv, TableExact, Mine
  <2>2. IsFiniteSet(Mine(c))
    BY <2>1, FS_Subset DEF QuotaInv
  <2>3. /\ Cardinality(live) <= Cardinality(Mine(c))
        /\ Cardinality(live) \in Nat /\ Cardinality(Mine(c)) \in Nat
    BY <2>1, <2>2, FS_Subset, FS_CardinalityType
  <2>4. QED
    BY <2>3, PairingAssumption DEF QuotaInv
<1>4. QED
  BY <1>1, <1>2, <1>3, PairInvariant, PTL DEF Spec

-----------------------------------------------------------------------------
phases == [v \in Visitor |-> Phase(v)]

\* The phase of a request depends on three variables only.
LEMMA PhaseKept ==
    ASSUME NEW v \in Visitor,
           at'[v] = "new" <=> at[v] = "new", v \in items' <=> v \in items, ready'[v] = ready[v]
    PROVE  Phase(v)' = Phase(v)
  BY DEF Phase

LEMMA PhaseCases ==
    ASSUME TypeOK, NEW v \in Visitor
    PROVE  /\ at[v] = "new" => Phase(v) = "none"
           /\ at[v] # "new" /\ v \notin items => Phase(v) = "over"
           /\ at[v] # "new" /\ v \in items =>
                 Phase(v) = IF ready[v] = "unset" THEN "open"
                            ELSE IF ready[v] = "yes" THEN "joined" ELSE "failed"
  BY DEF Phase, TypeOK

\* Steps that move neither a coroutine out of "new", nor the table, nor a
\* verdict, nor a channel's request are stutters of the rendezvous.
LEMMA Stutter ==
    ASSUME UNCHANGED <<items, ready, data>>,
           \A v \in Visitor : at'[v] = "new" <=> at[v] = "new"
    PROVE  UNCHANGED <<phases, data>>
  BY PhaseKept DEF phases

\* A set of open requests is failed at once.
LEMMA FailRefines ==
    ASSUME TypeOK, TypeOK', NEW S \in SUBSET items, TableExact, Fail(S),
           UNCHANGED <<items, data>>, \A v \in Visitor : at'[v] = "new" <=> at[v] = "new"
    PROVE  \E T \in SUBSET Visitor : R!Fail(T)
<1> DEFINE T == {v \in S : ready[v] = "unset"}
<1>1. T \in SUBSET Visitor /\ \A v \in T : v \in items /\ at[v] # "new"
  BY DEF TypeOK, TableExact
<1>2. \A v \in T : Phase(v) = "open"
  BY <1>1, PhaseCases
<1>3. \A v \in Visitor : Phase(v)' = IF v \in T THEN "failed" ELSE Phase(v)
  <2> SUFFICES ASSUME NEW v \in Visitor PROVE Phase(v)' = IF v \in T THEN "failed" ELSE Phase(v)
    OBVIOUS
  <2>1. CASE v \in T
    <3>1. ready'[v] = "no" /\ v \in items' /\ at'[v] # "new"
      BY <1>1, <2>1 DEF Fail
    <3>2. QED
      BY <2>1, <3>1 DEF Phase
  <2>2. CASE v \notin T
    BY <2>2, PhaseKept DEF Fail, TypeOK
  <2>3. QED
    BY <2>1, <2>2
<1>4. R!Fail(T)
  BY <1>1, <1>2, <1>3 DEF R!Fail
<1>5. QED
  BY <1>1, <1>4

\* An admitted visitor leaves the rendezvous with its finally block.
LEMMA CleanUpRefines ==
    ASSUME PairInv, NEW v \in Visitor, at[v] \in {"replying", "piping"}, CleanUp(v)
    PROVE  R!Leave(v)
<1>1. /\ items' = items \ {v} /\ UNCHANGED <<ready, data>>
      /\ at' = [at EXCEPT ![v] = "leaving"] \/ at' = [at EXCEPT ![v] = "releasing"]
  BY DEF CleanUp, Release
<1>2. v \in items
  BY DEF PairInv, TableExact
<1>3. Phase(v) \in {"open", "joined", "failed"}
  BY <1>2, PhaseCases DEF PairInv
<1>4. Phase(v)' = "over"
  BY <1>1 DEF Phase, PairInv, TypeOK
<1>5. \A w \in Visitor : w # v => Phase(w)' = Phase(w)
  BY <1>1, PhaseKept DEF PairInv, TypeOK
<1>6. QED
  BY <1>1, <1>3, <1>4, <1>5 DEF R!Leave

LEMMA RegisterRefines ==
    ASSUME PairInv, NEW d \in Data, NEW v \in Visitor, Register(d, v), Attachable(v)
    PROVE  R!Join(v, d)
<1>1. /\ ready' = [ready EXCEPT ![v] = "yes"] /\ data' = [data EXCEPT ![v] = d]
      /\ UNCHANGED <<at, items>> /\ dat[d] = "reading"
      /\ v \in items /\ ready[v] = "unset"
  BY DEF Register, Attachable
<1>2. \A w \in Visitor : data[w] # d
  BY <1>1 DEF PairInv, Channels
<1>3. at[v] # "new"
  BY <1>1 DEF PairInv, TableExact
<1>4. Phase(v) = "open" /\ Phase(v)' = "joined"
  BY <1>1, <1>3 DEF Phase, PairInv, TypeOK
<1>5. \A w \in Visitor : w # v => Phase(w)' = Phase(w)
  BY <1>1, PhaseKept DEF PairInv, TypeOK
<1>6. QED
  BY <1>1, <1>2, <1>4, <1>5 DEF R!Join

LEMMA EnterRefines ==
    ASSUME PairInv, NEW v \in Visitor, TurnAway(v) \/ (\E c \in Client : Admit(v, c))
    PROVE  \E p \in {"open", "over"} : R!Enter(v, p)
<1> DEFINE p == IF items' = items THEN "over" ELSE "open"
<1>1. /\ at[v] = "new" /\ v \notin items /\ ready[v] = "unset" /\ UNCHANGED <<ready, data>>
      /\ \/ at' = [at EXCEPT ![v] = "refusing"] /\ items' = items
         \/ at' = [at EXCEPT ![v] = "notifying"] /\ items' = items \cup {v}
  BY DEF TurnAway, Admit, PairInv, TypeOK, TableExact, Verdicts, pending
<1>2. Phase(v) = "none" /\ Phase(v)' = p
  BY <1>1 DEF Phase, PairInv, TypeOK
<1>3. \A w \in Visitor : w # v => Phase(w)' = Phase(w)
  BY <1>1, PhaseKept DEF PairInv, TypeOK
<1>4. R!Enter(v, p)
  BY <1>1, <1>2, <1>3 DEF R!Enter
<1>5. QED
  BY <1>4

\* The futures, the table and the coroutines implement the rendezvous: a
\* request is joined or fails once, and a channel joins one request
\* (pending.py:95-117, core.py:956-1146).
THEOREM PairingImplementsRendezvous == Spec => ImplementsRendezvous
<1>1. Init => R!Init
  BY DEF Init, R!Init, Phase
<1>2. PairInv /\ PairInv' /\ [Next]_vars => [R!Next]_<<phases, data>>
  <2> SUFFICES ASSUME PairInv, PairInv', [Next]_vars PROVE [R!Next]_<<phases, data>>
    OBVIOUS
  <2>1. ASSUME NEW v \in Visitor, TurnAway(v) \/ (\E c \in Client : Admit(v, c)) PROVE R!Next
    BY <2>1, EnterRefines DEF R!Next
  <2>2. ASSUME NEW v \in Visitor, Replied(v) \/ PipeEnds(v) PROVE R!Next
    BY <2>2, CleanUpRefines DEF Replied, PipeEnds, R!Next
  <2>3. ASSUME NEW v \in Visitor, Timeout(v) PROVE R!Next
    <3>1. Fail({v}) /\ {v} \in SUBSET items /\ UNCHANGED <<items, data>>
          /\ \A w \in Visitor : at'[w] = "new" <=> at[w] = "new"
      BY <2>3 DEF Timeout, PairInv, TypeOK, TableExact
    <3>2. QED
      BY <3>1, FailRefines DEF PairInv, R!Next
  <2>4. ASSUME NEW v \in Visitor,
               Notified(v) \/ NotifyFails(v) \/ StartPipe(v) \/ HearFailure(v) \/ Leave(v) \/ Gone(v)
        PROVE  UNCHANGED <<phases, data>>
    BY <2>4, Stutter DEF Notified, NotifyFails, StartPipe, HearFailure, Leave, Gone, pending,
       PairInv, TypeOK
  <2>5. ASSUME NEW d \in Data, NEW v \in Visitor, Register(d, v)
        PROVE  R!Next \/ UNCHANGED <<phases, data>>
    <3>1. CASE Attachable(v)
      BY <2>5, <3>1, RegisterRefines DEF R!Next
    <3>2. CASE ~Attachable(v)
      BY <2>5, <3>2, Stutter DEF Register
    <3>3. QED
      BY <3>1, <3>2
  <2>6. ASSUME NEW d \in Data,
               DataConnects(d) \/ DataGivesUp(d) \/ DataDone(d) \/ DataGone(d) \/ DataLost(d)
        PROVE  UNCHANGED <<phases, data>>
    BY <2>6, Stutter DEF DataConnects, DataGivesUp, DataDone, DataGone, DataLost, pending
  <2>7. CASE ControlStep
    <3>1. ASSUME NEW c \in Client, ClientOnline(c) \/ ClientUnacked(c)
          PROVE  UNCHANGED <<phases, data>>
      BY <3>1, Stutter DEF ClientOnline, ClientUnacked, pending
    <3>2. ASSUME NEW S \in SUBSET items, Fail(S), UNCHANGED <<at, items, data>> PROVE R!Next
      BY <3>2, FailRefines DEF PairInv, R!Next
    <3>3. ASSUME NEW c \in Client, ClientOffline(c) PROVE R!Next
      BY <3>2, <3>3 DEF ClientOffline, FailAllForClient
    <3>4. ASSUME NEW v \in Visitor, ConnError(v) PROVE R!Next
      BY <3>2, <3>4 DEF ConnError
    <3>5. QED
      BY <2>7, <3>1, <3>3, <3>4 DEF ControlStep
  <2>8. CASE UNCHANGED vars
    BY <2>8, Stutter DEF vars, pending
  <2>9. QED
    BY <2>1, <2>2, <2>3, <2>4, <2>5, <2>6, <2>7, <2>8 DEF Next, VisitorStep, DataStep
<1>3. QED
  BY <1>1, <1>2, PairInvariant, PTL DEF Spec, ImplementsRendezvous, R!Spec, phases

-----------------------------------------------------------------------------
(* Whoever waits waits for something that is still to come.                *)

\* A data handler waits for a request that is still in the table, or that is
\* done; it and a visitor that releases a channel wait for a transport that has
\* been closed.
WaitsEnd ==
    /\ \A d \in Data :
          /\ dat[d] = "waiting" => serves[d] \in items \/ done[serves[d]]
          /\ dat[d] = "closing" => link[d] \in {"closing", "lost"}
    /\ \A v \in Visitor :
          at[v] = "releasing" => data[v] # NoData /\ link[data[v]] \in {"closing", "lost"}

\* A channel that has been read from has a transport.
Connected == \A d \in Data : dat[d] # "new" => link[d] # "none"

LEMMA WaitsStep == PairInv /\ PairInv' /\ Connected /\ WaitsEnd /\ [Next]_vars => Connected' /\ WaitsEnd'
<1> SUFFICES ASSUME PairInv, PairInv', Connected, WaitsEnd, [Next]_vars PROVE Connected' /\ WaitsEnd'
  OBVIOUS
<1> USE DEF PairInv, TypeOK, TableExact, Verdicts, Channels, Connected, WaitsEnd, pending, channel
<1>1. ASSUME NEW v \in Visitor,
             TurnAway(v) \/ Notified(v) \/ NotifyFails(v) \/ StartPipe(v) \/ HearFailure(v)
             \/ Leave(v) \/ Gone(v) \/ Timeout(v) \/ \E c \in Client : Admit(v, c)
      PROVE  Connected' /\ WaitsEnd'
  BY <1>1 DEF TurnAway, Notified, NotifyFails, StartPipe, HearFailure, Leave, Gone, Timeout, Admit
<1>2. ASSUME NEW v \in Visitor, at[v] \in {"replying", "piping"}, CleanUp(v) PROVE Connected' /\ WaitsEnd'
  <2>1. /\ items' = items \ {v} /\ done' = [done EXCEPT ![v] = TRUE]
        /\ UNCHANGED <<online, client, ready, closed, data, dat, serves>>
        /\ \/ data[v] = NoData /\ at' = [at EXCEPT ![v] = "leaving"] /\ UNCHANGED link
           \/ /\ data[v] # NoData /\ at' = [at EXCEPT ![v] = "releasing"]
              /\ link' = [link EXCEPT ![data[v]] = IF @ = "up" THEN "closing" ELSE @]
    BY <1>2 DEF CleanUp, Release
  <2>2. data[v] # NoData => dat[data[v]] = "waiting"
    BY <1>2
  <2>3. Connected'
    BY <2>1
  <2>4. \A d \in Data : dat'[d] = "waiting" => serves'[d] \in items' \/ done'[serves'[d]]
    BY <2>1
  <2>5. \A d \in Data : dat'[d] = "closing" => link'[d] \in {"closing", "lost"}
    BY <2>1
  <2>6. \A w \in Visitor : at'[w] = "releasing" => data'[w] # NoData /\ link'[data'[w]] \in {"closing", "lost"}
    BY <2>1, <2>2
  <2> QED
    BY <2>3, <2>4, <2>5, <2>6
<1>3. ASSUME NEW d \in Data, DataConnects(d) \/ DataGivesUp(d) \/ DataDone(d) \/ DataGone(d) \/ DataLost(d)
      PROVE  Connected' /\ WaitsEnd'
  BY <1>3 DEF DataConnects, DataGivesUp, DataDone, DataGone, DataLost, CloseData
<1>4. ASSUME NEW d \in Data, NEW v \in Visitor, Register(d, v) PROVE Connected' /\ WaitsEnd'
  <2>1. CASE Attachable(v)
    BY <1>4, <2>1 DEF Register, Attachable
  <2>2. CASE ~Attachable(v)
    BY <1>4, <2>2 DEF Register, CloseData
  <2> QED
    BY <2>1, <2>2
<1>5. CASE ControlStep
  <2>1. UNCHANGED <<at, items, done, data, dat, serves, link>>
    BY <1>5 DEF ControlStep, ClientOnline, ClientOffline, ClientUnacked, ConnError
  <2> QED
    BY <2>1
<1>6. CASE UNCHANGED vars
  BY <1>6 DEF vars
<1> QED
  BY <1>1, <1>2, <1>3, <1>4, <1>5, <1>6 DEF Next, VisitorStep, DataStep, Replied, PipeEnds

\* No data handler waits for a request that ended without telling it, and no
\* close is awaited that nobody asked for, whichever of finish(), a late
\* register and the loss of the channel comes first (core.py:956-997 and
\* 1128-1139, pending.py:114-131).
THEOREM NoWaitInVain == Spec => []WaitsEnd
<1>1. Init => Connected /\ WaitsEnd
  BY DEF Init, Connected, WaitsEnd
<1> QED
  BY <1>1, WaitsStep, PairInvariant, PTL DEF Spec
=============================================================================
