------------------------ MODULE ServerLifecycle_proofs ------------------------
(* Theorems about ServerLifecycle for any number of clicks and clients: what  *)
(* starts and stops that follow one another leave behind.                     *)
EXTENDS ServerLifecycle, TLAPS

Stages == {"over", "start", "map", "map_bound", "control", "control_bound", "data",
           "data_bound", "serve", "unmap", "stop", "close", "closing", "unlisten",
           "sweep", "finish"}
Record == [at : Stages, srv : Instance \cup {None}, task : Instance \cup {None},
           left : SUBSET Client, shut : Client \cup {None}]
Sockets == [Ports -> {"off", "bound", "known"}]

\* The variables that say what a start and a stop do.
Typed ==
    /\ want \in BOOLEAN
    /\ clicks \in 0..MaxClicks
    /\ current \in Instance
    /\ again \in BOOLEAN
    /\ call \in [Call -> Record]
    /\ sock \in [Instance -> Sockets]
    /\ \A i \in ended : i \in Instance /\ i <= current

\* Without an overlap only the last call is under way.
OneCall == \A k \in Call : k # clicks => call[k].at = "over"
Stage == IF clicks = 0 THEN "over" ELSE call[clicks].at
Works(k) == call[k].srv = current

\* Only the server of the controller listens.
OthersSilent == \A i \in Instance : i # current => \A p \in Ports : sock[i][p] = "off"
Shape(m, c, d) ==
    sock[current]["map"] = m /\ sock[current]["control"] = c /\ sock[current]["data"] = d
Tidy == \A p \in Ports : sock[current][p] \in {"off", "known"}

\* Nothing has been started, or it has been stopped.
Down == /\ serving = None /\ heard = None /\ Shape("off", "off", "off")
        /\ again => clicks > 1
        /\ ~again => ended = {}

\* A start is under way, and no port of its own is in its way.
Coming == want /\ serving = None /\ heard = current /\ Works(clicks) /\ current \notin ended

FailedAt(p) == failure = <<p, "other">>

\* A start has succeeded, or failed.
Served == /\ serving = current /\ heard = current /\ failure = None
          /\ Shape("known", "known", "known")
Failed == /\ serving = None
          /\ \E p \in Ports :
                /\ FailedAt(p)
                /\ Shape("off", IF p = "data" THEN "known" ELSE "off", "off")
Started == current \notin ended /\ (Served \/ Failed)

\* What holds at each stage of a call that no other one overlaps.
AtStage ==
    /\ Stage = "over" => IF want THEN Started ELSE Down
    /\ Stage = "start" => want /\ Down
    /\ Stage = "map" => Coming /\ failure = None /\ Shape("off", "off", "off")
    /\ Stage = "map_bound" => Coming /\ failure = None /\ Shape("bound", "off", "off")
    /\ Stage = "control" => Coming /\ failure = None /\ Shape("known", "off", "off")
    /\ Stage = "control_bound" => Coming /\ failure = None /\ Shape("known", "bound", "off")
    /\ Stage = "data" => Coming /\ failure = None /\ Shape("known", "known", "off")
    /\ Stage = "data_bound" => Coming /\ failure = None /\ Shape("known", "known", "bound")
    /\ Stage = "serve" => Coming /\ failure = None /\ Shape("known", "known", "known")
    /\ Stage = "unmap" => /\ Coming
                          /\ \/ FailedAt("control") /\ Shape("known", "off", "off")
                             \/ FailedAt("data") /\ Shape("known", "known", "off")
    /\ Stage = "stop" => ~want /\ Started
    /\ Stage = "close" => ~want /\ serving = None /\ Tidy /\ current \notin ended
    /\ Stage \in {"closing", "unlisten"} =>
          /\ ~want /\ serving = None /\ Works(clicks) /\ current \notin ended
          /\ \/ Shape("off", "off", "off") \/ Shape("known", "off", "off")
    /\ Stage = "sweep" => /\ ~want /\ serving = None /\ Works(clicks)
                          /\ Shape("off", "off", "off")
    /\ Stage = "finish" => ~want /\ serving = None /\ Shape("off", "off", "off")

\* There are as many servers as starts: never more than clicks.
Numbered ==
    /\ want /\ Stage # "start" => current <= clicks
    /\ clicks > 0 /\ ~want => current < clicks
    /\ Stage = "start" => current < clicks \/ (clicks = 1 /\ current = 1 /\ ~again)
    /\ clicks = 0 => current = 1 /\ ~again /\ ~want

OnlyOthersFail == failure # None => failure \in Ports \X {"other"}

Good == Typed /\ OneCall /\ OthersSilent /\ AtStage /\ Numbered /\ OnlyOthersFail
SerialInv == ~overlap => Good

-----------------------------------------------------------------------------
LEMMA InitGood == Init => SerialInv
<1> SUFFICES ASSUME Init PROVE Good
  BY DEF SerialInv
<1> USE LifecycleAssumption DEF LifecycleAssumption, Init, Instance, Call
<1>1. Over \in Record /\ Over.at = "over"
  BY DEF Over, Running, Record, Stages
<1>2. Typed
  <2>1. 1 \in Instance /\ 0 \in 0..MaxClicks
    OBVIOUS
  <2>2. call \in [Call -> Record]
    BY <1>1
  <2>3. sock \in [Instance -> Sockets]
    BY DEF Sockets
  <2>4. want \in BOOLEAN /\ again \in BOOLEAN
    BY Zenon
  <2>5. QED
    BY <2>1, <2>2, <2>3, <2>4 DEF Typed
<1>3. OneCall /\ OthersSilent /\ OnlyOthersFail
  BY <1>1 DEF OneCall, OthersSilent, OnlyOthersFail
<1>4. Stage = "over" /\ Numbered
  BY DEF Stage, Numbered
<1>5. Shape("off", "off", "off")
  BY DEF Shape, Ports
<1>6. AtStage
  BY <1>4, <1>5 DEF AtStage, Down
<1>7. QED
  BY <1>2, <1>3, <1>4, <1>6 DEF Good

\* The call that runs is the last one.
LEMMA TheCall ==
    ASSUME Good, NEW k \in Call, call[k].at # "over"
    PROVE  k = clicks /\ clicks > 0 /\ Stage = call[k].at /\ call[k] \in Record
  BY LifecycleAssumption DEF LifecycleAssumption, Good, Typed, OneCall, Stage, Call

\* What becomes of it.
LEMMA CallMoves ==
    ASSUME Good, NEW k \in Call, call[k].at # "over", NEW rec \in Record,
           call' = [call EXCEPT ![k] = rec], UNCHANGED clicks
    PROVE  call' \in [Call -> Record] /\ OneCall' /\ Stage' = rec.at /\ call'[clicks] = rec
<1>1. k = clicks /\ clicks > 0
  BY TheCall
<1>2. QED
  BY <1>1 DEF Good, Typed, OneCall, Stage

LEMMA CallGoes ==
    ASSUME Good, NEW k \in Call, call[k].at # "over", NEW where \in Stages, Goes(k, where),
           UNCHANGED clicks
    PROVE  /\ call' \in [Call -> Record] /\ OneCall' /\ Stage' = where
           /\ call'[clicks].srv = call[clicks].srv
<1> DEFINE rec == [call[k] EXCEPT !.at = where]
<1>1. k = clicks /\ call[k] \in Record
  BY TheCall
<1>2. rec \in Record /\ rec.at = where /\ rec.srv = call[k].srv
  BY <1>1 DEF Record
<1>3. call' = [call EXCEPT ![k] = rec]
  BY DEF Goes
<1> HIDE DEF rec
<1>4. QED
  BY <1>1, <1>2, <1>3, CallMoves

-----------------------------------------------------------------------------
(* The clicks. *)

\* A click that overlaps nothing finds every call over.
LEMMA HandMoves ==
    ASSUME Good, NEW where \in {"start", "stop"}, Hand(where), ~overlap'
    PROVE  /\ Stage = "over" /\ clicks' = clicks + 1 /\ clicks' \in 0..MaxClicks
           /\ call' \in [Call -> Record] /\ OneCall' /\ Stage' = where
<1> DEFINE rec == Running(where, None)
<1>1. rec \in Record /\ rec.at = where
  BY DEF Running, Record, Stages
<1> HIDE DEF rec
<1>2. /\ clicks < MaxClicks /\ clicks' = clicks + 1 /\ Quiet
      /\ call' = [call EXCEPT ![clicks + 1] = rec]
  BY DEF Hand, rec
<1>3. clicks \in Nat /\ MaxClicks \in Nat /\ clicks + 1 \in Call /\ clicks' # 0
  BY <1>2, LifecycleAssumption DEF LifecycleAssumption, Good, Typed, Call
<1>4. Stage = "over"
  BY <1>2, <1>3 DEF Quiet, Stage, Good, Typed, Call
<1>5. call' \in [Call -> Record] /\ call'[clicks'] = rec
  BY <1>1, <1>2, <1>3 DEF Good, Typed
<1>6. OneCall'
  BY <1>2, <1>3 DEF OneCall, Quiet, Good, Typed
<1>7. Stage' = where
  BY <1>1, <1>3, <1>5 DEF Stage
<1>8. QED
  BY <1>2, <1>3, <1>4, <1>5, <1>6, <1>7

LEMMA ClickGood == ASSUME Good, OnStart \/ OnStop, ~overlap' PROVE Good'
<1>1. UNCHANGED <<controller, sock, ended>>
  BY DEF OnStart, OnStop, Hand
<1>2. clicks \in Nat /\ current \in Nat
  BY LifecycleAssumption DEF LifecycleAssumption, Good, Typed, Instance
<1>3. OthersSilent' /\ OnlyOthersFail'
  BY <1>1 DEF Good, OthersSilent, OnlyOthersFail, controller
<1>4. CASE OnStart
  <2>1. ~want /\ want' /\ Hand("start")
    BY <1>4 DEF OnStart
  <2>2. /\ Stage = "over" /\ clicks' = clicks + 1 /\ clicks' \in 0..MaxClicks
        /\ call' \in [Call -> Record] /\ OneCall' /\ Stage' = "start"
    BY <2>1, HandMoves
  <2>3. Down /\ (clicks = 0 => current = 1 /\ ~again) /\ (clicks > 0 => current < clicks)
    BY <2>1, <2>2 DEF Good, AtStage, Numbered
  <2>4. Down'
    BY <1>1, <1>2, <2>2, <2>3 DEF Down, Shape, controller
  <2>5. AtStage'
    BY <2>1, <2>2, <2>4 DEF AtStage
  <2>6. Numbered'
    BY <1>1, <1>2, <2>1, <2>2, <2>3 DEF Numbered, controller
  <2>7. Typed'
    BY <1>1, <1>4, <2>2 DEF OnStart, Good, Typed, controller
  <2>8. QED
    BY <1>3, <2>2, <2>5, <2>6, <2>7 DEF Good
<1>5. CASE OnStop
  <2>1. want /\ ~want' /\ Hand("stop")
    BY <1>5 DEF OnStop
  <2>2. /\ Stage = "over" /\ clicks' = clicks + 1 /\ clicks' \in 0..MaxClicks
        /\ call' \in [Call -> Record] /\ OneCall' /\ Stage' = "stop"
    BY <2>1, HandMoves
  <2>3. Started /\ current <= clicks
    BY <2>1, <2>2 DEF Good, AtStage, Numbered
  <2>4. Started'
    BY <1>1, <2>3 DEF Started, Served, Failed, FailedAt, Shape, controller
  <2>5. AtStage'
    BY <2>1, <2>2, <2>4 DEF AtStage
  <2>6. Numbered'
    BY <1>1, <1>2, <2>1, <2>2, <2>3 DEF Numbered, controller
  <2>7. Typed'
    BY <1>1, <1>5, <2>2 DEF OnStop, Good, Typed, controller
  <2>8. QED
    BY <1>3, <2>2, <2>5, <2>6, <2>7 DEF Good
<1>6. QED
  BY <1>4, <1>5

-----------------------------------------------------------------------------
(* The start. *)

LEMMA BeginGood == ASSUME Good, NEW k \in Call, BeginStart(k) PROVE Good'
<1>1. k = clicks /\ clicks > 0 /\ Stage = "start" /\ want /\ Down
  BY TheCall DEF BeginStart, At, Good, AtStage
<1>2. ~Up
  BY <1>1 DEF Down, Up
<1> DEFINE next == NextInstance
           rec == Running("map", next)
<1>3. /\ current' = next /\ failure' = None
      /\ heard' = next
      /\ call' = [call EXCEPT ![k] = rec]
      /\ UNCHANGED <<want, clicks, serving, again, sock, ended>>
  BY <1>1, <1>2 DEF BeginStart, Down
<1>4. current \in Nat /\ clicks \in Nat /\ MaxClicks \in Nat /\ clicks <= MaxClicks /\ current >= 1
  BY LifecycleAssumption DEF LifecycleAssumption, Good, Typed, Instance
<1>5. next \in Instance /\ next <= clicks /\ next >= current /\ next \notin ended
  <2>1. CASE again
    <3>1. next = current + 1 /\ clicks > 1 /\ current < clicks
      BY <1>1, <2>1 DEF NextInstance, Down, Good, Numbered
    <3>2. next \notin ended
      BY <1>4, <3>1 DEF Good, Typed
    <3>3. QED
      BY <1>4, <3>1, <3>2 DEF Instance
  <2>2. CASE ~again
    <3>1. next = current /\ ended = {}
      BY <1>1, <2>2 DEF NextInstance, Down
    <3>2. current <= clicks
      BY <1>1, <1>4 DEF Good, Numbered
    <3>3. QED
      BY <1>4, <3>1, <3>2 DEF Instance
  <2>3. QED
    BY <2>1, <2>2
<1> HIDE DEF next
<1>6. rec \in Record /\ rec.at = "map" /\ rec.srv = next
  BY <1>5 DEF Running, Record, Stages
<1> HIDE DEF rec
<1>7. call' \in [Call -> Record] /\ OneCall' /\ Stage' = "map" /\ call'[clicks] = rec
  BY <1>1, <1>3, <1>6, CallMoves DEF BeginStart, At
<1>8. \A i \in Instance : \A p \in Ports : sock[i][p] = "off"
  BY <1>1 DEF Down, Shape, Good, OthersSilent, Ports
<1>9. Shape("off", "off", "off")' /\ OthersSilent'
  BY <1>3, <1>5, <1>8 DEF Shape, OthersSilent, Ports
<1>10. Coming'
  BY <1>1, <1>3, <1>5, <1>6, <1>7 DEF Coming, Works, Down
<1>11. AtStage'
  BY <1>3, <1>7, <1>9, <1>10 DEF AtStage
<1>12. Numbered'
  BY <1>1, <1>3, <1>5, <1>7 DEF Numbered
<1>13. Typed'
  <2>1. \A i \in ended' : i \in Instance /\ i <= current'
    BY <1>3, <1>4, <1>5 DEF Good, Typed, Instance
  <2>2. QED
    BY <1>3, <1>5, <1>7, <2>1 DEF Good, Typed
<1>14. OnlyOthersFail'
  BY <1>3 DEF OnlyOthersFail
<1>15. QED
  BY <1>7, <1>9, <1>11, <1>12, <1>13, <1>14 DEF Good

\* A step of a call under way leaves the numbers as they are.
LEMMA NumbersKept ==
    ASSUME Good, clicks > 0, Stage # "start", Stage' # "start", UNCHANGED <<want, clicks, current>>
    PROVE  Numbered'
<1>1. clicks \in Nat
  BY LifecycleAssumption DEF LifecycleAssumption, Good, Typed
<1>2. QED
  BY <1>1 DEF Good, Numbered

\* One socket of the server of the controller changes.
LEMMA SocketSet ==
    ASSUME Good, NEW p \in Ports, NEW v \in {"off", "bound", "known"},
           sock' = [sock EXCEPT ![current][p] = v], UNCHANGED current
    PROVE  /\ sock' \in [Instance -> Sockets] /\ OthersSilent'
           /\ sock'[current][p] = v
           /\ \A q \in Ports : q # p => sock'[current][q] = sock[current][q]
<1> DEFINE mine == [sock[current] EXCEPT ![p] = v]
<1>1. current \in Instance /\ sock \in [Instance -> Sockets]
  BY DEF Good, Typed
<1>2. mine \in Sockets /\ mine[p] = v /\ \A q \in Ports : q # p => mine[q] = sock[current][q]
  BY <1>1 DEF Sockets
<1>3. sock' = [sock EXCEPT ![current] = mine]
  OBVIOUS
<1> HIDE DEF mine
<1>4. sock'[current] = mine /\ \A i \in Instance : i # current => sock'[i] = sock[i]
  BY <1>1, <1>3
<1>5. sock' \in [Instance -> Sockets]
  BY <1>1, <1>2, <1>3
<1>6. QED
  BY <1>2, <1>4, <1>5 DEF Good, OthersSilent

LEMMA BindGood == ASSUME Good, NEW k \in Call, NEW p \in Ports, Bind(k, p) PROVE Good'
<1>1. k = clicks /\ clicks > 0 /\ Stage = p /\ BoundAt(p) \in Stages \ {"start"}
  BY TheCall DEF Bind, At, BoundAt, Ports, Stages
<1>2. Coming /\ failure = None
  BY <1>1 DEF Good, AtStage, Ports
<1>3. /\ sock' = [sock EXCEPT ![current][p] = "bound"] /\ Goes(k, BoundAt(p))
      /\ UNCHANGED <<want, clicks, current, serving, again, failure, heard, ended>>
  BY <1>1, <1>2 DEF Bind, Coming, Works, controller
<1>4. /\ call' \in [Call -> Record] /\ OneCall' /\ Stage' = BoundAt(p)
      /\ call'[clicks].srv = call[clicks].srv
  BY <1>1, <1>3, CallGoes DEF Bind, At, Ports
<1>5. /\ sock' \in [Instance -> Sockets] /\ OthersSilent' /\ sock'[current][p] = "bound"
      /\ \A q \in Ports : q # p => sock'[current][q] = sock[current][q]
  BY <1>3, SocketSet
<1>6. Coming' /\ failure' = None
  BY <1>2, <1>3, <1>4 DEF Coming, Works
<1>7. AtStage'
  <2>1. CASE p = "map"
    <3>1. Shape("off", "off", "off") /\ Stage' = "map_bound"
      BY <1>1, <1>4, <2>1 DEF Good, AtStage, BoundAt
    <3>2. Shape("bound", "off", "off")'
      BY <1>3, <1>5, <2>1, <3>1 DEF Shape, Ports
    <3>3. QED
      BY <1>6, <3>1, <3>2 DEF AtStage
  <2>2. CASE p = "control"
    <3>1. Shape("known", "off", "off") /\ Stage' = "control_bound"
      BY <1>1, <1>4, <2>2 DEF Good, AtStage, BoundAt
    <3>2. Shape("known", "bound", "off")'
      BY <1>3, <1>5, <2>2, <3>1 DEF Shape, Ports
    <3>3. QED
      BY <1>6, <3>1, <3>2 DEF AtStage
  <2>3. CASE p = "data"
    <3>1. Shape("known", "known", "off") /\ Stage' = "data_bound"
      BY <1>1, <1>4, <2>3 DEF Good, AtStage, BoundAt
    <3>2. Shape("known", "known", "bound")'
      BY <1>3, <1>5, <2>3, <3>1 DEF Shape, Ports
    <3>3. QED
      BY <1>6, <3>1, <3>2 DEF AtStage
  <2>4. QED
    BY <2>1, <2>2, <2>3 DEF Ports
<1>8. Numbered'
  BY <1>1, <1>3, <1>4, NumbersKept DEF Ports
<1>9. Typed' /\ OnlyOthersFail'
  BY <1>3, <1>4, <1>5 DEF Good, Typed, OnlyOthersFail
<1>10. QED
  BY <1>4, <1>5, <1>7, <1>8, <1>9 DEF Good

LEMMA BoundGood == ASSUME Good, NEW k \in Call, NEW p \in Ports, Bound(k, p) PROVE Good'
<1>1. k = clicks /\ clicks > 0 /\ Stage = BoundAt(p) /\ After(p) \in Stages \ {"start"}
  BY TheCall DEF Bound, At, BoundAt, After, Ports, Stages
<1>2. Coming /\ failure = None
  BY <1>1 DEF Good, AtStage, Ports, BoundAt
<1>3. /\ sock' = [sock EXCEPT ![current][p] = "known"] /\ Goes(k, After(p))
      /\ UNCHANGED <<want, clicks, current, serving, again, failure, heard, ended>>
  BY <1>1, <1>2 DEF Bound, Coming, Works, controller
<1>4. /\ call' \in [Call -> Record] /\ OneCall' /\ Stage' = After(p)
      /\ call'[clicks].srv = call[clicks].srv
  BY <1>1, <1>3, CallGoes DEF Bound, At, Ports, BoundAt
<1>5. /\ sock' \in [Instance -> Sockets] /\ OthersSilent' /\ sock'[current][p] = "known"
      /\ \A q \in Ports : q # p => sock'[current][q] = sock[current][q]
  BY <1>3, SocketSet
<1>6. Coming' /\ failure' = None
  BY <1>2, <1>3, <1>4 DEF Coming, Works
<1>7. AtStage'
  <2>1. CASE p = "map"
    <3>1. Shape("bound", "off", "off") /\ Stage' = "control"
      BY <1>1, <1>4, <2>1 DEF Good, AtStage, BoundAt, After
    <3>2. Shape("known", "off", "off")'
      BY <1>3, <1>5, <2>1, <3>1 DEF Shape, Ports
    <3>3. QED
      BY <1>6, <3>1, <3>2 DEF AtStage
  <2>2. CASE p = "control"
    <3>1. Shape("known", "bound", "off") /\ Stage' = "data"
      BY <1>1, <1>4, <2>2 DEF Good, AtStage, BoundAt, After
    <3>2. Shape("known", "known", "off")'
      BY <1>3, <1>5, <2>2, <3>1 DEF Shape, Ports
    <3>3. QED
      BY <1>6, <3>1, <3>2 DEF AtStage
  <2>3. CASE p = "data"
    <3>1. Shape("known", "known", "bound") /\ Stage' = "serve"
      BY <1>1, <1>4, <2>3 DEF Good, AtStage, BoundAt, After
    <3>2. Shape("known", "known", "known")'
      BY <1>3, <1>5, <2>3, <3>1 DEF Shape, Ports
    <3>3. QED
      BY <1>6, <3>1, <3>2 DEF AtStage
  <2>4. QED
    BY <2>1, <2>2, <2>3 DEF Ports
<1>8. Numbered'
  BY <1>1, <1>3, <1>4, NumbersKept DEF Ports, BoundAt
<1>9. Typed' /\ OnlyOthersFail'
  BY <1>3, <1>4, <1>5 DEF Good, Typed, OnlyOthersFail
<1>10. QED
  BY <1>4, <1>5, <1>7, <1>8, <1>9 DEF Good

\* The port a start does not get is not one of the server's own: the others
\* are silent, and this one has not been bound yet.
LEMMA BindFailsGood == ASSUME Good, NEW k \in Call, NEW p \in Ports, BindFails(k, p) PROVE Good'
<1> DEFINE where == IF p = "map" THEN "over" ELSE "unmap"
<1>1. k = clicks /\ clicks > 0 /\ Stage = p /\ where \in Stages \ {"start"}
  BY TheCall DEF BindFails, At, Ports, Stages
<1>2. Coming /\ sock[current][p] = "off"
  BY <1>1 DEF Good, AtStage, Ports, Shape
<1>3. \A i \in Instance : ~Listens(i, p)
  BY <1>2 DEF Listens, Good, OthersSilent
<1>4. Holder(p) = "other"
  BY <1>3 DEF BindFails, Holder
<1>5. /\ failure' = <<p, "other">> /\ Goes(k, where)
      /\ UNCHANGED <<want, clicks, current, serving, again, heard, sock, ended>>
  BY <1>4 DEF BindFails
<1>6. /\ call' \in [Call -> Record] /\ OneCall' /\ Stage' = where
      /\ call'[clicks].srv = call[clicks].srv
  BY <1>1, <1>5, CallGoes DEF BindFails, At, Ports
<1>7. FailedAt(p)' /\ Coming'
  BY <1>1, <1>2, <1>5, <1>6 DEF Coming, Works, FailedAt
<1>8. AtStage'
  <2>1. CASE p = "map"
    <3>1. Shape("off", "off", "off")' /\ Stage' = "over"
      BY <1>1, <1>5, <1>6, <2>1 DEF Good, AtStage, Shape
    <3>2. Started'
      BY <1>7, <2>1, <3>1 DEF Started, Failed, Coming
    <3>3. QED
      BY <1>7, <3>1, <3>2 DEF AtStage, Coming
  <2>2. CASE p = "control"
    <3>1. Shape("known", "off", "off")' /\ Stage' = "unmap"
      BY <1>1, <1>5, <1>6, <2>2 DEF Good, AtStage, Shape
    <3>2. QED
      BY <1>7, <2>2, <3>1 DEF AtStage
  <2>3. CASE p = "data"
    <3>1. Shape("known", "known", "off")' /\ Stage' = "unmap"
      BY <1>1, <1>5, <1>6, <2>3 DEF Good, AtStage, Shape
    <3>2. QED
      BY <1>7, <2>3, <3>1 DEF AtStage
  <2>4. QED
    BY <2>1, <2>2, <2>3 DEF Ports
<1>9. Numbered'
  BY <1>1, <1>5, <1>6, NumbersKept DEF Ports
<1>10. Typed' /\ OthersSilent'
  BY <1>5, <1>6 DEF Good, Typed, OthersSilent
<1>11. OnlyOthersFail'
  BY <1>5 DEF OnlyOthersFail
<1>12. QED
  BY <1>6, <1>8, <1>9, <1>10, <1>11 DEF Good

\* Sockets the server knows are closed.
LEMMA SocketsClosed ==
    ASSUME Good, NEW P, sock' = Closed(current, P), UNCHANGED current
    PROVE  /\ sock' \in [Instance -> Sockets] /\ OthersSilent'
           /\ \A p \in Ports : sock'[current][p] =
                 IF p \in P /\ sock[current][p] = "known" THEN "off" ELSE sock[current][p]
<1> DEFINE mine == [p \in Ports |-> IF p \in P /\ sock[current][p] = "known"
                                    THEN "off" ELSE sock[current][p]]
<1>1. current \in Instance /\ sock \in [Instance -> Sockets]
  BY DEF Good, Typed
<1>2. mine \in Sockets
  BY <1>1 DEF Sockets
<1>3. sock' = [sock EXCEPT ![current] = mine]
  BY DEF Closed
<1>4. \A p \in Ports : mine[p] =
          IF p \in P /\ sock[current][p] = "known" THEN "off" ELSE sock[current][p]
  OBVIOUS
<1> HIDE DEF mine
<1>5. sock'[current] = mine /\ \A i \in Instance : i # current => sock'[i] = sock[i]
  BY <1>1, <1>3
<1>6. sock' \in [Instance -> Sockets]
  BY <1>1, <1>2, <1>3
<1>7. QED
  BY <1>4, <1>5, <1>6 DEF Good, OthersSilent

LEMMA OverRecord == Over \in Record /\ Over.at = "over"
  BY DEF Over, Running, Record, Stages

LEMMA UnmapGood == ASSUME Good, NEW k \in Call, Unmap(k) PROVE Good'
<1>1. k = clicks /\ clicks > 0 /\ Stage = "unmap" /\ Coming
  BY TheCall DEF Unmap, At, Good, AtStage
<1>2. /\ sock' = Closed(current, {"map"}) /\ call' = [call EXCEPT ![k] = Over]
      /\ UNCHANGED <<want, clicks, current, serving, again, failure, heard, ended>>
  BY <1>1 DEF Unmap, Coming, Works, controller
<1>3. call' \in [Call -> Record] /\ OneCall' /\ Stage' = "over"
  BY <1>2, OverRecord, CallMoves DEF Unmap, At
<1>4. /\ sock' \in [Instance -> Sockets] /\ OthersSilent'
      /\ \A p \in Ports : sock'[current][p] =
            IF p \in {"map"} /\ sock[current][p] = "known" THEN "off" ELSE sock[current][p]
  BY <1>2, SocketsClosed
<1>5. Started'
  <2>1. \/ FailedAt("control") /\ Shape("known", "off", "off")
        \/ FailedAt("data") /\ Shape("known", "known", "off")
    BY <1>1 DEF Good, AtStage
  <2>2. \/ FailedAt("control")' /\ Shape("off", "off", "off")'
        \/ FailedAt("data")' /\ Shape("off", "known", "off")'
    BY <1>2, <1>4, <2>1 DEF FailedAt, Shape, Ports
  <2>3. QED
    BY <1>1, <1>2, <2>2 DEF Started, Failed, Coming, Ports
<1>6. AtStage'
  BY <1>1, <1>2, <1>3, <1>5 DEF AtStage, Coming
<1>7. Numbered'
  BY <1>1, <1>2, <1>3, NumbersKept
<1>8. Typed' /\ OnlyOthersFail'
  BY <1>2, <1>3, <1>4 DEF Good, Typed, OnlyOthersFail
<1>9. QED
  BY <1>3, <1>4, <1>6, <1>7, <1>8 DEF Good

LEMMA ServeGood == ASSUME Good, NEW k \in Call, Serve(k) PROVE Good'
<1>1. /\ k = clicks /\ clicks > 0 /\ Stage = "serve"
      /\ Coming /\ failure = None /\ Shape("known", "known", "known")
  BY TheCall DEF Serve, At, Good, AtStage
<1>2. /\ serving' = current /\ call' = [call EXCEPT ![k] = Over]
      /\ UNCHANGED <<want, clicks, current, again, failure, heard, sock, ended>>
  BY DEF Serve
<1>3. call' \in [Call -> Record] /\ OneCall' /\ Stage' = "over"
  BY <1>2, OverRecord, CallMoves DEF Serve, At
<1>4. Started'
  BY <1>1, <1>2 DEF Started, Served, Shape, Coming
<1>5. AtStage'
  BY <1>1, <1>2, <1>3, <1>4 DEF AtStage, Coming
<1>6. Numbered'
  BY <1>1, <1>2, <1>3, NumbersKept
<1>7. Typed' /\ OnlyOthersFail' /\ OthersSilent'
  BY <1>2, <1>3 DEF Good, Typed, OnlyOthersFail, OthersSilent
<1>8. QED
  BY <1>3, <1>5, <1>6, <1>7 DEF Good

-----------------------------------------------------------------------------
(* The stop. *)

LEMMA BeginStopGood == ASSUME Good, NEW k \in Call, BeginStop(k) PROVE Good'
<1> DEFINE rec == [Running("close", None) EXCEPT !.task = serving]
<1>1. /\ k = clicks /\ clicks > 0 /\ Stage = "stop" /\ ~want /\ Started
  BY TheCall DEF BeginStop, At, Good, AtStage
<1>2. serving \in Instance \cup {None} /\ Tidy
  BY <1>1 DEF Started, Served, Failed, Shape, Tidy, Ports, Good, Typed
<1>3. rec \in Record /\ rec.at = "close"
  BY <1>2 DEF Running, Record, Stages
<1>4. /\ call' = [call EXCEPT ![k] = rec] /\ serving' = None
      /\ UNCHANGED <<want, clicks, current, again, failure, heard, sock, ended>>
  BY DEF BeginStop
<1> HIDE DEF rec
<1>5. call' \in [Call -> Record] /\ OneCall' /\ Stage' = "close"
  BY <1>3, <1>4, CallMoves DEF BeginStop, At
<1>6. AtStage'
  BY <1>1, <1>2, <1>4, <1>5 DEF AtStage, Started, Tidy
<1>7. Numbered'
  BY <1>1, <1>4, <1>5, NumbersKept
<1>8. Typed' /\ OnlyOthersFail' /\ OthersSilent'
  BY <1>4, <1>5 DEF Good, Typed, OnlyOthersFail, OthersSilent
<1>9. QED
  BY <1>5, <1>6, <1>7, <1>8 DEF Good

\* A server that has not been stopped yet is closed, whether it came up or not.
LEMMA CloseGood == ASSUME Good, NEW k \in Call, Close(k) PROVE Good'
<1> DEFINE rec == [[call[k] EXCEPT !.at = "closing"] EXCEPT !.srv = current]
<1>1. /\ k = clicks /\ clicks > 0 /\ Stage = "close" /\ call[k] \in Record
      /\ ~want /\ serving = None /\ Tidy /\ current \notin ended
  BY TheCall DEF Close, At, Good, AtStage
<1>2. /\ sock' = Closed(current, {"control", "data"})
      /\ call' = [call EXCEPT ![k].at = "closing", ![k].srv = current]
      /\ UNCHANGED <<want, clicks, current, serving, again, failure, heard, ended>>
  BY <1>1 DEF Close, controller
<1>3. rec \in Record /\ rec.at = "closing" /\ rec.srv = current
  BY <1>1 DEF Record, Stages, Good, Typed
<1>4. call' = [call EXCEPT ![k] = rec]
  BY <1>1, <1>2 DEF Good, Typed
<1> HIDE DEF rec
<1>5. call' \in [Call -> Record] /\ OneCall' /\ Stage' = "closing" /\ call'[clicks] = rec
  BY <1>1, <1>2, <1>3, <1>4, CallMoves DEF Close, At
<1>6. /\ sock' \in [Instance -> Sockets] /\ OthersSilent'
      /\ \A p \in Ports : sock'[current][p] =
            IF p \in {"control", "data"} /\ sock[current][p] = "known"
            THEN "off" ELSE sock[current][p]
  BY <1>2, SocketsClosed
<1>7. Shape("off", "off", "off")' \/ Shape("known", "off", "off")'
  BY <1>1, <1>2, <1>6 DEF Tidy, Shape, Ports
<1>8. AtStage'
  BY <1>1, <1>2, <1>3, <1>5, <1>7 DEF AtStage, Works
<1>9. Numbered'
  BY <1>1, <1>2, <1>5, NumbersKept
<1>10. Typed' /\ OnlyOthersFail'
  BY <1>2, <1>5, <1>6 DEF Good, Typed, OnlyOthersFail
<1>11. QED
  BY <1>5, <1>6, <1>8, <1>9, <1>10 DEF Good

LEMMA WaitClosedGood == ASSUME Good, NEW k \in Call, WaitClosed(k) PROVE Good'
<1>1. /\ k = clicks /\ clicks > 0 /\ Stage = "closing"
      /\ ~want /\ serving = None /\ Works(clicks) /\ current \notin ended
      /\ Shape("off", "off", "off") \/ Shape("known", "off", "off")
  BY TheCall DEF WaitClosed, At, Good, AtStage
<1>2. /\ Goes(k, "unlisten")
      /\ UNCHANGED <<want, clicks, current, serving, again, failure, heard, sock, ended>>
  BY DEF WaitClosed, controller
<1>3. /\ call' \in [Call -> Record] /\ OneCall' /\ Stage' = "unlisten"
      /\ call'[clicks].srv = call[clicks].srv
  BY <1>2, CallGoes DEF WaitClosed, At, Stages
<1>4. Works(clicks)'
  BY <1>1, <1>2, <1>3 DEF Works
<1>5. AtStage'
  BY <1>1, <1>2, <1>3, <1>4 DEF AtStage, Shape
<1>6. Numbered'
  BY <1>1, <1>2, <1>3, NumbersKept
<1>7. Typed' /\ OnlyOthersFail' /\ OthersSilent'
  BY <1>2, <1>3 DEF Good, Typed, OnlyOthersFail, OthersSilent
<1>8. QED
  BY <1>3, <1>5, <1>6, <1>7 DEF Good

LEMMA UnlistenGood == ASSUME Good, NEW k \in Call, Unlisten(k) PROVE Good'
<1> DEFINE gone == {c \in Client : conn[c] = [srv |-> call[k].srv, registered |-> TRUE]}
           rec == [[call[k] EXCEPT !.at = "sweep"] EXCEPT !.left = gone]
<1>1. /\ k = clicks /\ clicks > 0 /\ Stage = "unlisten" /\ call[k] \in Record
      /\ ~want /\ serving = None /\ call[k].srv = current
      /\ Shape("off", "off", "off") \/ Shape("known", "off", "off")
  BY TheCall DEF Unlisten, At, Good, AtStage, Works
<1>2. /\ sock' = Closed(current, {"map"})
      /\ call' = [call EXCEPT ![k].at = "sweep", ![k].left = gone]
      /\ UNCHANGED <<want, clicks, current, serving, again, failure, heard, ended>>
  BY <1>1 DEF Unlisten, controller
<1>3. gone \subseteq Client
  OBVIOUS
<1> HIDE DEF gone
<1>4. rec \in Record /\ rec.at = "sweep" /\ rec.srv = current
  BY <1>1, <1>3 DEF Record, Stages
<1>5. call' = [call EXCEPT ![k] = rec]
  BY <1>1, <1>2 DEF Good, Typed
<1> HIDE DEF rec
<1>6. call' \in [Call -> Record] /\ OneCall' /\ Stage' = "sweep" /\ call'[clicks] = rec
  BY <1>1, <1>2, <1>4, <1>5, CallMoves DEF Unlisten, At
<1>7. /\ sock' \in [Instance -> Sockets] /\ OthersSilent'
      /\ \A p \in Ports : sock'[current][p] =
            IF p \in {"map"} /\ sock[current][p] = "known" THEN "off" ELSE sock[current][p]
  BY <1>2, SocketsClosed
<1>8. Shape("off", "off", "off")'
  BY <1>1, <1>2, <1>7 DEF Shape, Ports
<1>9. AtStage'
  BY <1>1, <1>2, <1>4, <1>6, <1>8 DEF AtStage, Works
<1>10. Numbered'
  BY <1>1, <1>2, <1>6, NumbersKept
<1>11. Typed' /\ OnlyOthersFail'
  BY <1>2, <1>6, <1>7 DEF Good, Typed, OnlyOthersFail
<1>12. QED
  BY <1>6, <1>7, <1>9, <1>10, <1>11 DEF Good

LEMMA SweepGood == ASSUME Good, NEW k \in Call, NEW c \in Client, Sweep(k, c) PROVE Good'
<1> DEFINE rec == [[call[k] EXCEPT !.left = @ \ {c}] EXCEPT !.shut = c]
<1>1. /\ k = clicks /\ clicks > 0 /\ Stage = "sweep" /\ call[k] \in Record
      /\ ~want /\ serving = None /\ call[k].srv = current /\ Shape("off", "off", "off")
  BY TheCall DEF Sweep, At, Good, AtStage, Works
<1>2. /\ call' = [call EXCEPT ![k].left = @ \ {c}, ![k].shut = c]
      /\ UNCHANGED <<want, clicks, current, serving, again, failure, heard, sock, ended>>
  BY DEF Sweep, controller
<1>3. rec \in Record /\ rec.at = "sweep" /\ rec.srv = current
  BY <1>1 DEF Record, Stages, Sweep, At
<1>4. call' = [call EXCEPT ![k] = rec]
  BY <1>1, <1>2 DEF Good, Typed
<1> HIDE DEF rec
<1>5. call' \in [Call -> Record] /\ OneCall' /\ Stage' = "sweep" /\ call'[clicks] = rec
  BY <1>1, <1>2, <1>3, <1>4, CallMoves DEF Sweep, At
<1>6. AtStage'
  BY <1>1, <1>2, <1>3, <1>5 DEF AtStage, Works, Shape
<1>7. Numbered'
  BY <1>1, <1>2, <1>5, NumbersKept
<1>8. Typed' /\ OnlyOthersFail' /\ OthersSilent'
  BY <1>2, <1>5 DEF Good, Typed, OnlyOthersFail, OthersSilent
<1>9. QED
  BY <1>5, <1>6, <1>7, <1>8 DEF Good

LEMMA SetStoppedGood == ASSUME Good, NEW k \in Call, SetStopped(k) PROVE Good'
<1>1. /\ k = clicks /\ clicks > 0 /\ Stage = "sweep"
      /\ ~want /\ serving = None /\ call[k].srv = current /\ Shape("off", "off", "off")
  BY TheCall DEF SetStopped, At, Good, AtStage, Works
<1>2. /\ ended' = ended \cup {current} /\ Goes(k, "finish")
      /\ UNCHANGED <<want, clicks, current, serving, again, failure, heard, sock>>
  BY <1>1 DEF SetStopped, controller
<1>3. call' \in [Call -> Record] /\ OneCall' /\ Stage' = "finish"
  BY <1>2, CallGoes DEF SetStopped, At, Stages
<1>4. AtStage'
  BY <1>1, <1>2, <1>3 DEF AtStage, Shape
<1>5. Numbered'
  BY <1>1, <1>2, <1>3, NumbersKept
<1>6. Typed'
  <2>1. current \in Instance /\ current <= current
    BY LifecycleAssumption DEF LifecycleAssumption, Good, Typed, Instance
  <2>2. \A i \in ended' : i \in Instance /\ i <= current'
    BY <1>2, <2>1 DEF Good, Typed
  <2>3. QED
    BY <1>2, <1>3, <2>2 DEF Good, Typed
<1>7. OnlyOthersFail' /\ OthersSilent'
  BY <1>2 DEF Good, OnlyOthersFail, OthersSilent
<1>8. QED
  BY <1>3, <1>4, <1>5, <1>6, <1>7 DEF Good

LEMMA FinishStopGood == ASSUME Good, NEW k \in Call, FinishStop(k) PROVE Good'
<1>1. /\ k = clicks /\ clicks > 0 /\ Stage = "finish"
      /\ ~want /\ serving = None /\ Shape("off", "off", "off")
  BY TheCall DEF FinishStop, At, Good, AtStage
<1>2. /\ heard' = None /\ again' = TRUE /\ call' = [call EXCEPT ![k] = Over]
      /\ UNCHANGED <<want, clicks, current, serving, failure, sock, ended>>
  BY DEF FinishStop
<1>3. call' \in [Call -> Record] /\ OneCall' /\ Stage' = "over"
  BY <1>2, OverRecord, CallMoves DEF FinishStop, At
<1>4. clicks > 1
  <2>1. current < clicks /\ current \in Nat /\ current >= 1 /\ clicks \in Nat
    BY <1>1, LifecycleAssumption DEF LifecycleAssumption, Good, Typed, Numbered, Instance
  <2>2. QED
    BY <2>1
<1>5. Down'
  BY <1>1, <1>2, <1>4 DEF Down, Shape
<1>6. AtStage'
  BY <1>1, <1>2, <1>3, <1>5 DEF AtStage
<1>7. Numbered'
  BY <1>1, <1>2, <1>3, NumbersKept
<1>8. Typed' /\ OnlyOthersFail' /\ OthersSilent'
  BY <1>2, <1>3 DEF Good, Typed, OnlyOthersFail, OthersSilent
<1>9. QED
  BY <1>3, <1>6, <1>7, <1>8 DEF Good

-----------------------------------------------------------------------------
\* What clients and other programs do is no part of it: of the calls it changes
\* at most the sessions they still have to close.
LEMMA WorldGood ==
    ASSUME Good, UNCHANGED <<want, clicks, controller, sock, ended>>,
           call' \in [Call -> Record],
           \A k \in Call : call'[k].at = call[k].at /\ call'[k].srv = call[k].srv
    PROVE  Good'
<1>1. /\ want' = want /\ clicks' = clicks /\ current' = current
      /\ serving' = serving /\ again' = again /\ failure' = failure /\ heard' = heard
      /\ sock' = sock /\ ended' = ended
  BY DEF controller
<1>2. Stage' = Stage /\ (clicks # 0 => call'[clicks].srv = call[clicks].srv)
  BY <1>1, LifecycleAssumption DEF LifecycleAssumption, Stage, Good, Typed, Call
<1>3. Stage # "over" => clicks # 0
  BY DEF Stage
<1>4. Down' <=> Down
  BY <1>1 DEF Down, Shape
<1>5. Tidy' <=> Tidy
  BY <1>1 DEF Tidy
<1>6. clicks # 0 => (Works(clicks)' <=> Works(clicks)) /\ (Coming' <=> Coming)
  BY <1>1, <1>2 DEF Coming, Works
<1>7. Started' <=> Started
  <2>1. Served' <=> Served
    BY <1>1 DEF Served, Shape
  <2>2. Failed' <=> Failed
    BY <1>1 DEF Failed, FailedAt, Shape
  <2>3. QED
    BY <1>1, <2>1, <2>2 DEF Started
<1>8. AtStage'
  BY <1>1, <1>2, <1>3, <1>4, <1>5, <1>6, <1>7 DEF Good, AtStage, Shape, FailedAt
<1>9. Typed' /\ OneCall' /\ OthersSilent'
  BY <1>1 DEF Good, Typed, OneCall, OthersSilent
<1>10. Numbered' /\ OnlyOthersFail'
  BY <1>1, <1>2 DEF Good, Numbered, OnlyOthersFail
<1>11. QED
  BY <1>8, <1>9, <1>10 DEF Good

\* A connection that is gone is in no call any more.
LEMMA LostGood == ASSUME Good, NEW c \in Client, Lost(c) PROVE Good'
<1>1. call \in [Call -> Record]
  BY DEF Good, Typed
<1>2. \A k \in Call : /\ call'[k] \in Record
                      /\ call'[k].at = call[k].at /\ call'[k].srv = call[k].srv
  BY <1>1 DEF Lost, Record
<1>3. call' \in [Call -> Record]
  BY <1>2 DEF Lost
<1>4. QED
  BY <1>2, <1>3, WorldGood DEF Lost

LEMMA CallStepGood == ASSUME Good, NEW k \in Call, Step(k) PROVE Good'
  BY BeginGood, BindGood, BoundGood, BindFailsGood, UnmapGood, ServeGood, BeginStopGood,
     CloseGood, WaitClosedGood, UnlistenGood, SweepGood, LostGood, SetStoppedGood, FinishStopGood
  DEF Step, Swept

\* As long as no start and stop overlap, every stage of each finds what the
\* stages before it left: the inductive invariant.
THEOREM SerialInvariant == Spec => []SerialInv
<1>1. SerialInv /\ [Next]_vars => SerialInv'
  <2> SUFFICES ASSUME SerialInv, [Next]_vars, ~overlap' PROVE Good'
    BY DEF SerialInv
  <2>1. ~overlap => Good
    BY DEF SerialInv
  <2>2. CASE OnStart \/ OnStop
    <3>1. ~overlap
      BY <2>2 DEF OnStart, OnStop, Hand
    <3>2. QED
      BY <2>1, <2>2, <3>1, ClickGood
  <2>3. ASSUME NEW k \in Call, Step(k) PROVE Good'
    <3>1. UNCHANGED overlap
      BY <2>3 DEF Step, BeginStart, Bind, Bound, BindFails, Unmap, Serve, BeginStop, Close,
         WaitClosed, Unlisten, Sweep, Swept, Lost, SetStopped, FinishStop
    <3>2. QED
      BY <2>1, <2>3, <3>1, CallStepGood
  <2>4. CASE \/ \E c \in Client : Connect(c) \/ Register(c) \/ Stalls(c)
             \/ \E i \in Instance : VisitorStalls(i) \/ VisitorReads(i)
             \/ \E p \in Contested : OtherTakes(p) \/ OtherLeaves(p)
             \/ UNCHANGED vars
    <3>1. UNCHANGED <<want, call, clicks, controller, sock, ended, overlap>>
      BY <2>4 DEF Connect, Register, Stalls, VisitorStalls, VisitorReads, OtherTakes, OtherLeaves,
                  vars, controller
    <3>2. Good /\ call' \in [Call -> Record]
      BY <2>1, <3>1 DEF Good, Typed
    <3>3. QED
      BY <3>1, <3>2, WorldGood
  <2>5. CASE \E c \in Client : Leave(c)
    <3>1. UNCHANGED overlap
      BY <2>5 DEF Leave, Lost
    <3>2. QED
      BY <2>1, <2>5, <3>1, LostGood DEF Leave
  <2>6. QED
    BY <2>2, <2>3, <2>4, <2>5 DEF Next
<1>2. QED
  BY <1>1, InitGood, PTL DEF Spec

\* A stop that no other call overlaps leaves nothing that listens, and a start
\* that did not fail a server with all its sockets, heard by the window:
\* server_controller.py:104-165 and core.py:262-353.
THEOREM SerialLeavesClean == Spec => []SerialIsClean
<1>1. SerialInv => SerialIsClean
  <2> SUFFICES ASSUME Good, Quiet
      PROVE  /\ \A i \in Instance, p \in Ports : Listens(i, p) => want /\ i = current
             /\ want /\ failure = None =>
                    /\ Up /\ serving = current /\ heard = current
                    /\ \A p \in Ports : sock[current][p] = "known"
    BY DEF SerialInv, SerialIsClean
  <2>1. IF want THEN Started ELSE Down
    <3>1. Stage = "over"
      BY LifecycleAssumption DEF LifecycleAssumption, Quiet, Stage, Good, Typed, Call
    <3>2. QED
      BY <3>1 DEF Good, AtStage
  <2>2. \A i \in Instance, p \in Ports : Listens(i, p) => i = current
    BY DEF Listens, Good, OthersSilent
  <2>3. CASE ~want
    BY <2>1, <2>2, <2>3 DEF Down, Shape, Ports, Listens
  <2>4. CASE want /\ Served
    BY <2>1, <2>2, <2>4, LifecycleAssumption
    DEF LifecycleAssumption, Started, Served, Up, Shape, Ports, Good, Typed
  <2>5. CASE want /\ Failed
    <3>1. failure # None
      BY <2>5, LifecycleAssumption DEF LifecycleAssumption, Failed, FailedAt
    <3>2. QED
      BY <2>2, <2>5, <3>1
  <2>6. QED
    BY <2>1, <2>3, <2>4, <2>5 DEF Started
<1>2. QED
  BY <1>1, SerialInvariant, PTL

\* A start that no stop overlaps fails only for a port another program holds,
\* never for one a server before it has left open (server_controller.py:137-165).
THEOREM NeverItsOwnObstacle == Spec => []NeverInOwnWay
<1>1. SerialInv => NeverInOwnWay
  BY DEF SerialInv, Good, OnlyOthersFail, NeverInOwnWay
<1>2. QED
  BY <1>1, SerialInvariant, PTL
=============================================================================
