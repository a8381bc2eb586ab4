------------------------- MODULE ProcessLife_proofs -------------------------
(* Proofs about ProcessLife: what the end of a process may cost, for any     *)
(* number of requests.                                                       *)
EXTENDS ProcessLife, FiniteSetTheorems, TLAPS

\* A process may end by log.Fatal while nothing has reached it or when its listener
\* failed, by exit once it was flushed, and by a kill.
MayEnd(p, how) ==
    \/ how = "fatal" /\ (Young(p) \/ listener[p] = "failed")
    \/ how = "exited" /\ stage[p] = "flushed"
    \/ how = "killed"

USE DEF Process

\* What is answered stays answered.
AnswersStay == \A r \in Request : req[r] = "answered" => req'[r] = "answered"

\* So what was dropped for want of room stays explained.
LEMMA RoomStaysGone ==
    ASSUME AnswersStay, Cardinality(Answered) > QueueSize
    PROVE  Cardinality(Answered') > QueueSize
<1>1. Answered \subseteq Answered' /\ Answered' \subseteq Request
  BY DEF AnswersStay, Answered
<1>2. IsFiniteSet(Answered')
  BY <1>1, QueueAssumption, FS_Subset
<1>3. IsFiniteSet(Answered) /\ Cardinality(Answered) <= Cardinality(Answered')
  BY <1>1, <1>2, FS_Subset
<1>4. Cardinality(Answered) \in Nat /\ Cardinality(Answered') \in Nat
  BY <1>2, <1>3, FS_CardinalityType
<1> QED BY <1>3, <1>4, QueueAssumption

\* A step that drops no span keeps the causes of those that are gone.
LEMMA SpansKeep ==
    ASSUME SpansReachCollector, AnswersStay,
           \A r \in Request : span'[r] = "dropped" => span[r] = "dropped",
           \A r \in Request : span'[r] = "lost" =>
               BrokeDown("gateway")' \/ overran' \/ unexported'
    PROVE  SpansReachCollector'
BY RoomStaysGone DEF SpansReachCollector

\* The end of the gateway keeps the invariant.
LEMMA GatewayEndKeeps ==
    ASSUME LifeInv, NEW how \in Ended, MayEnd("gateway", how),
           Runs("gateway"), Ends("gateway", how)
    PROVE  LifeInv'
<1> USE DEF LifeInv, Ended, Runs, Ends, GatewayGone, InHandler
<1>1. /\ stage'["gateway"] = how
      /\ stage'["service"] = stage["service"]
      /\ UNCHANGED <<signalled, listener, overran, unexported, rpcCut>>
  BY DEF TypeOK
<1>2. /\ \A r \in Request : req'[r] = IF req[r] = "handling" THEN "cut" ELSE req[r]
      /\ \A r \in Request : rpc'[r] = IF rpc[r] = "running" THEN "cancelled" ELSE rpc[r]
      /\ \A r \in Request : span'[r] = IF span[r] \in Waiting THEN "lost" ELSE span[r]
  OBVIOUS
<1>3. TypeOK'
  BY <1>1, <1>2 DEF TypeOK
<1>4. BootQuiet'
  BY <1>1, <1>2 DEF BootQuiet, Young, Booting, Waiting, TypeOK
<1>5. Stopped'
  BY <1>1, <1>2 DEF Stopped, TypeOK
<1>6. NothingCutShort'
  BY <1>1, <1>2 DEF NothingCutShort, BrokeDown, MayEnd, BootQuiet, Stopped, TypeOK
<1>7. SpansReachCollector' /\ SpanOfAnswer'
  <2>1. AnswersStay /\ \A r \in Request : span'[r] = "dropped" => span[r] = "dropped"
    BY <1>2 DEF AnswersStay, TypeOK
  <2>2. ASSUME NEW r \in Request, span'[r] = "lost"
        PROVE  BrokeDown("gateway")' \/ overran' \/ unexported'
    <3>1. CASE span[r] = "lost"
      BY <1>1, <3>1 DEF SpansReachCollector, BrokeDown
    <3>2. CASE span[r] \in Waiting
      BY <1>1, <3>2 DEF BrokeDown, MayEnd, BootQuiet, Stopped, Waiting
    <3> QED BY <1>2, <2>2, <3>1, <3>2
  <2>3. SpanOfAnswer'
    BY <1>2 DEF SpanOfAnswer, Waiting, TypeOK
  <2> QED BY <2>1, <2>2, <2>3, SpansKeep
<1> QED BY <1>3, <1>4, <1>5, <1>6, <1>7

\* So does the end of movies-service.
LEMMA ServiceEndKeeps ==
    ASSUME LifeInv, NEW how \in Ended, MayEnd("service", how),
           Runs("service"), Ends("service", how)
    PROVE  LifeInv'
<1> USE DEF LifeInv, Ended, Runs, Ends, ServiceGone, InHandler
<1>1. /\ stage'["service"] = how
      /\ stage'["gateway"] = stage["gateway"]
      /\ UNCHANGED <<signalled, listener, overran, unexported, req, span>>
  BY DEF TypeOK
<1>2. /\ \A r \in Request : rpc'[r] = IF rpc[r] \in {"running", "cancelled"} THEN "over" ELSE rpc[r]
      /\ \A r \in Request : rpcCut'[r] = (rpcCut[r] \/ rpc[r] = "running")
  OBVIOUS
<1>3. TypeOK'
  BY <1>1, <1>2 DEF TypeOK
<1>4. BootQuiet'
  BY <1>1, <1>2 DEF BootQuiet, Young, Booting, TypeOK
<1>5. Stopped'
  BY <1>1, <1>2 DEF Stopped, TypeOK
<1>6. NothingCutShort'
  BY <1>1, <1>2 DEF NothingCutShort, BrokeDown, MayEnd, BootQuiet, Stopped, TypeOK
<1>7. SpansReachCollector' /\ SpanOfAnswer'
  BY <1>1 DEF SpansReachCollector, SpanOfAnswer, Answered, BrokeDown
<1> QED BY <1>3, <1>4, <1>5, <1>6, <1>7

\* A process that ends as it may keeps the invariant.
LEMMA EndKeeps ==
    ASSUME LifeInv, NEW p \in Process, NEW how \in Ended, MayEnd(p, how), Runs(p), Ends(p, how)
    PROVE  LifeInv'
BY GatewayEndKeeps, ServiceEndKeeps

\* A step of main from one stage to another, with what else it changes.
LEMMA BootStepKeeps ==
    ASSUME LifeInv, NEW p \in Process, NEW from \in Booting, NEW to \in Booting \cup {"serving"},
           BootStep(p, from, to)
    PROVE  LifeInv'
<1> USE DEF LifeInv, BootStep, Booting, requests, history, Runs, Ended
<1>1. /\ stage'[p] = to /\ \A q \in Process \ {p} : stage'[q] = stage[q]
      /\ UNCHANGED <<signalled, history, requests>>
      /\ listener'[p] = IF to = "serving" THEN "starting" ELSE listener[p]
      /\ \A q \in Process \ {p} : listener'[q] = listener[q]
      /\ listener[p] = "none"
  BY DEF TypeOK, BootQuiet
<1>2. TypeOK'
  BY <1>1 DEF TypeOK, InHandler
<1>3. BootQuiet'
  BY <1>1 DEF BootQuiet, Young
<1>4. Stopped' /\ NothingCutShort' /\ SpansReachCollector' /\ SpanOfAnswer'
  BY <1>1
     DEF Stopped, NothingCutShort, SpansReachCollector, SpanOfAnswer, BrokeDown, Answered, InHandler
<1> QED BY <1>2, <1>3, <1>4

\* Requests, RPCs and spans that go on while neither main moves.
LEMMA RequestKeeps ==
    ASSUME LifeInv, NEW r \in Request,
           Arrive(r) \/ Call(r) \/ CallTimeout(r) \/ HandlerEnds(r) \/ Respond(r) \/ Collect(r)
    PROVE  LifeInv'
<1> USE DEF LifeInv, InHandler, Runs, Ended, Connected, NotStopped, history
<1>1. CASE Arrive(r)
  <2> USE <1>1 DEF Arrive
  <2>1. TypeOK'
    BY DEF TypeOK
  <2>2. BootQuiet' /\ Stopped'
    BY DEF BootQuiet, Young, Stopped, TypeOK
  <2>3. NothingCutShort' /\ SpansReachCollector' /\ SpanOfAnswer'
    BY DEF NothingCutShort, SpansReachCollector, SpanOfAnswer, BrokeDown, Answered, TypeOK
  <2> QED BY <2>1, <2>2, <2>3
<1>2. CASE Call(r)
  <2> USE <1>2 DEF Call
  <2>1. TypeOK'
    BY DEF TypeOK
  <2>2. BootQuiet' /\ Stopped'
    BY DEF BootQuiet, Young, Stopped, TypeOK
  <2>3. NothingCutShort' /\ SpansReachCollector' /\ SpanOfAnswer'
    BY DEF NothingCutShort, SpansReachCollector, SpanOfAnswer, BrokeDown, Answered
  <2> QED BY <2>1, <2>2, <2>3
<1>3. CASE CallTimeout(r) \/ HandlerEnds(r)
  <2> USE <1>3 DEF CallTimeout, HandlerEnds
  <2>1. TypeOK'
    BY DEF TypeOK
  <2>2. BootQuiet' /\ Stopped'
    BY DEF BootQuiet, Young, Stopped, TypeOK
  <2>3. NothingCutShort' /\ SpansReachCollector' /\ SpanOfAnswer'
    BY DEF NothingCutShort, SpansReachCollector, SpanOfAnswer, BrokeDown, Answered
  <2> QED BY <2>1, <2>2, <2>3
<1>4. CASE Respond(r)
  <2>1. /\ UNCHANGED <<stage, signalled, listener, rpc, rpcCut, history>>
        /\ req[r] = "handling" /\ req' = [req EXCEPT ![r] = "answered"]
        /\ stage["gateway"] \notin Ended /\ rpc[r] # "running"
    BY <1>4 DEF Respond
  <2>2. PICK next \in {"lost", "dropped", "queued"} :
          /\ span' = [span EXCEPT ![r] = next]
          /\ next = "lost" <=> stage["gateway"] = "flushed"
          /\ next = "dropped" => Cardinality(InState("queued")) >= QueueSize
    BY <1>4 DEF Respond
  <2>3. \A other \in Request : span'[other] = IF other = r THEN next ELSE span[other]
    BY <2>2 DEF TypeOK
  <2>4. TypeOK'
    BY <2>1, <2>2 DEF TypeOK
  <2>5. BootQuiet'
    BY <2>1, <2>3 DEF BootQuiet, Young, TypeOK
  <2>6. Stopped' /\ NothingCutShort'
    BY <2>1, <2>2, <2>3 DEF Stopped, NothingCutShort, BrokeDown, Waiting, TypeOK
  <2>7. SpanOfAnswer'
    BY <2>1, <2>3 DEF SpanOfAnswer, TypeOK
  <2>8. SpansReachCollector'
    <3>1. AnswersStay
      BY <2>1 DEF AnswersStay, TypeOK
    <3>2. CASE next # "dropped"
      <4>1. \A other \in Request : span'[other] = "dropped" => span[other] = "dropped"
        BY <2>3, <3>2
      <4>2. \A other \in Request :
              span'[other] = "lost" => BrokeDown("gateway")' \/ overran' \/ unexported'
        BY <2>1, <2>2, <2>3 DEF SpansReachCollector, BrokeDown, Stopped
      <4> QED BY <3>1, <4>1, <4>2, SpansKeep
    <3>3. CASE next = "dropped"
      <4>1. Cardinality(Answered') > QueueSize
        <5> DEFINE queued == InState("queued")
        <5>1. r \notin queued /\ queued \cup {r} \subseteq Answered' /\ Answered' \subseteq Request
          BY <2>1 DEF InState, Answered, SpanOfAnswer, TypeOK
        <5>2. IsFiniteSet(queued) /\ IsFiniteSet(Answered')
          BY <5>1, QueueAssumption, FS_Subset
        <5>3. Cardinality(queued \cup {r}) = Cardinality(queued) + 1
          BY <5>1, <5>2, FS_AddElement
        <5>4. Cardinality(queued \cup {r}) <= Cardinality(Answered')
          BY <5>1, <5>2, FS_Subset
        <5>5. Cardinality(queued) \in Nat /\ Cardinality(Answered') \in Nat
          BY <5>2, FS_CardinalityType
        <5> QED BY <2>2, <3>3, <5>3, <5>4, <5>5, QueueAssumption
      <4>2. \A other \in Request :
              span'[other] = "lost" => BrokeDown("gateway")' \/ overran' \/ unexported'
        BY <2>1, <2>3, <3>3 DEF SpansReachCollector, BrokeDown
      <4> QED BY <4>1, <4>2 DEF SpansReachCollector
    <3> QED BY <3>2, <3>3
  <2> QED BY <2>4, <2>5, <2>6, <2>7, <2>8
<1>5. CASE Collect(r)
  <2>1. /\ UNCHANGED <<stage, signalled, listener, req, rpc, rpcCut, history>>
        /\ span[r] = "queued" /\ span' = [span EXCEPT ![r] = "batched"]
    BY <1>5 DEF Collect
  <2>2. \A other \in Request : span'[other] = IF other = r THEN "batched" ELSE span[other]
    BY <2>1 DEF TypeOK
  <2>3. TypeOK'
    BY <2>1 DEF TypeOK
  <2>4. BootQuiet'
    BY <2>1, <2>2 DEF BootQuiet, Young, TypeOK
  <2>5. Stopped' /\ NothingCutShort'
    BY <2>1, <2>2 DEF Stopped, NothingCutShort, BrokeDown, Waiting, TypeOK
  <2>6. AnswersStay
    BY <2>1, <2>2 DEF AnswersStay
  <2>7. SpansReachCollector' /\ SpanOfAnswer'
    BY <2>1, <2>2, <2>6, SpansKeep DEF SpansReachCollector, SpanOfAnswer, BrokeDown
  <2> QED BY <2>3, <2>4, <2>5, <2>7
<1> QED BY <1>1, <1>2, <1>3, <1>4, <1>5

\* Spans that were sent go to the collector or are lost to it.
Exported ==
    /\ span' \in [Request -> {"none", "queued", "batched", "exported", "dropped", "lost"}]
    /\ unexported' \in BOOLEAN /\ (unexported => unexported')
    /\ \A r \in Request : span'[r] = "none" <=> span[r] = "none"
    /\ \A r \in Request : span'[r] = "dropped" => span[r] = "dropped"
    /\ \A r \in Request : span'[r] = "lost" => span[r] = "lost" \/ unexported'

\* An export that the collector takes in part loses spans only to the collector.
LEMMA ExportKeeps ==
    ASSUME LifeInv, NEW sent \in SUBSET Request, NEW taken \in SUBSET sent, Export(sent, taken),
           \A r \in sent : span[r] \in Waiting
    PROVE  Exported /\ \A r \in Request : span'[r] \in Waiting => span[r] \in Waiting /\ r \notin sent
<1>1. \A r \in Request : span'[r] = IF r \in taken THEN "exported"
                                   ELSE IF r \in sent THEN "lost" ELSE span[r]
  BY DEF Export
<1>2. unexported' = (unexported \/ taken # sent)
  BY DEF Export
<1>3. span' \in [Request -> {"none", "queued", "batched", "exported", "dropped", "lost"}]
  BY DEF Export, LifeInv, TypeOK
<1> QED BY <1>1, <1>2, <1>3 DEF Exported, Waiting, LifeInv, TypeOK

\* Spans that were sent leave the causes of those that are gone.
LEMMA ExportedKeeps ==
    ASSUME LifeInv, Exported, req' = req,
           BrokeDown("gateway") => BrokeDown("gateway")', overran => overran'
    PROVE  SpansReachCollector' /\ SpanOfAnswer'
<1>1. AnswersStay /\ SpanOfAnswer'
  BY DEF Exported, AnswersStay, SpanOfAnswer, LifeInv
<1>2. \A r \in Request : span'[r] = "dropped" => span[r] = "dropped"
  BY DEF Exported
<1>3. \A r \in Request : span'[r] = "lost" => BrokeDown("gateway")' \/ overran' \/ unexported'
  BY DEF Exported, LifeInv, SpansReachCollector
<1> QED BY <1>1, <1>2, <1>3, SpansKeep DEF LifeInv

\* A main that goes on from one stage after the boot to another.
Moved(p, next) ==
    /\ stage' \in [Process -> Ended \cup Booting \cup {"serving", "stopping", "flushing", "flushed"}]
    /\ stage'[p] = next
    /\ \A q \in Process \ {p} : stage'[q] = stage[q]

\* A main that goes on to its next stage leaves the other process where it is.
LEMMA GotoMoves ==
    ASSUME LifeInv, NEW p \in Process, NEW next \in {"stopping", "flushing", "flushed"},
           Goto(p, next)
    PROVE  Moved(p, next)
BY DEF LifeInv, TypeOK, Goto, Moved, Ended, Booting

\* The steps of a main that was told to stop.
LEMMA StopKeeps ==
    ASSUME LifeInv,
           \/ \E p \in Process : Stop(p) \/ ShutdownTracing(p)
           \/ ShutdownDone \/ ShutdownTimesOut \/ GracefulStopDone
    PROVE  LifeInv'
<1> USE DEF LifeInv, InHandler, Runs, Ended, history, requests
<1>1. ASSUME NEW p \in Process, Stop(p) PROVE LifeInv'
  <2>1. Moved(p, "stopping") /\ stage[p] = "serving"
        /\ UNCHANGED <<signalled, listener, history, requests>>
    BY <1>1, GotoMoves DEF Stop
  <2>2. TypeOK' /\ BootQuiet'
    BY <2>1 DEF Moved, TypeOK, BootQuiet, Young, Booting
  <2>3. Stopped' /\ NothingCutShort' /\ SpansReachCollector' /\ SpanOfAnswer'
    BY <2>1
       DEF Moved, Stopped, NothingCutShort, SpansReachCollector, SpanOfAnswer, BrokeDown, Answered
  <2> QED BY <2>2, <2>3
<1>2. CASE ShutdownDone \/ ShutdownTimesOut
  <2>1. /\ Moved("gateway", "flushing") /\ stage["gateway"] = "stopping"
        /\ UNCHANGED <<signalled, listener, unexported, requests>>
        /\ \/ overran' = overran /\ \A r \in Request : req[r] # "handling"
           \/ overran' = TRUE
    BY <1>2, GotoMoves DEF ShutdownDone, ShutdownTimesOut
  <2>2. TypeOK' /\ BootQuiet'
    BY <2>1 DEF Moved, TypeOK, BootQuiet, Young, Booting
  <2>3. Stopped' /\ NothingCutShort' /\ SpansReachCollector' /\ SpanOfAnswer'
    BY <2>1
       DEF Moved, Stopped, NothingCutShort, SpansReachCollector, SpanOfAnswer, BrokeDown, Answered, TypeOK
  <2> QED BY <2>2, <2>3
<1>3. CASE GracefulStopDone
  <2>1. /\ Moved("service", "flushing") /\ stage["service"] = "stopping"
        /\ \A r \in Request : ~InHandler(r)
        /\ UNCHANGED <<signalled, listener, history, requests>>
    BY <1>3, GotoMoves DEF GracefulStopDone
  <2>2. TypeOK' /\ BootQuiet'
    BY <2>1 DEF Moved, TypeOK, BootQuiet, Young, Booting
  <2>3. Stopped' /\ NothingCutShort' /\ SpansReachCollector' /\ SpanOfAnswer'
    BY <2>1
       DEF Moved, Stopped, NothingCutShort, SpansReachCollector, SpanOfAnswer, BrokeDown, Answered
  <2> QED BY <2>2, <2>3
<1>4. CASE ShutdownTracing("gateway")
  <2>1. /\ Moved("gateway", "flushed") /\ stage["gateway"] = "flushing" /\ ExportAll
        /\ UNCHANGED <<signalled, listener, req, rpc, rpcCut, overran>>
    BY <1>4, GotoMoves DEF ShutdownTracing
  <2>2. Exported /\ \A r \in Request : span'[r] \notin Waiting
    <3> DEFINE held == {r \in Request : span[r] \in Waiting}
    <3>1. PICK taken \in SUBSET held : Export(held, taken)
      BY <2>1 DEF ExportAll
    <3> QED BY <3>1, ExportKeeps
  <2>3. TypeOK' /\ BootQuiet'
    BY <2>1, <2>2 DEF Moved, Exported, TypeOK, BootQuiet, Young, Booting
  <2>4. Stopped' /\ NothingCutShort'
    BY <2>1, <2>2 DEF Moved, Stopped, NothingCutShort, BrokeDown
  <2>5. SpansReachCollector' /\ SpanOfAnswer'
    BY <2>1, <2>2, ExportedKeeps DEF BrokeDown
  <2> QED BY <2>3, <2>4, <2>5
<1>5. CASE ShutdownTracing("service")
  <2>1. /\ Moved("service", "flushed") /\ stage["service"] = "flushing"
        /\ UNCHANGED <<signalled, listener, history, requests>>
    BY <1>5, GotoMoves DEF ShutdownTracing
  <2>2. TypeOK' /\ BootQuiet'
    BY <2>1 DEF Moved, TypeOK, BootQuiet, Young, Booting
  <2>3. Stopped' /\ NothingCutShort' /\ SpansReachCollector' /\ SpanOfAnswer'
    BY <2>1
       DEF Moved, Stopped, NothingCutShort, SpansReachCollector, SpanOfAnswer, BrokeDown, Answered
  <2> QED BY <2>2, <2>3
<1> QED BY <1>1, <1>2, <1>3, <1>4, <1>5

\* The goroutines that listen, the signal, the periodic export.
LEMMA ListenerKeeps ==
    ASSUME LifeInv,
           \/ \E p \in Process : Accept(p) \/ AcceptFails(p) \/ Sigterm(p)
           \/ ListenAndServeReturns \/ ServeReturns \/ PeriodicExport
    PROVE  LifeInv'
<1> USE DEF LifeInv, InHandler, Runs, Ended, NotStopped, history, requests
<1>1. ASSUME NEW p \in Process, Accept(p) PROVE LifeInv'
  <2> USE <1>1 DEF Accept
  <2>1. TypeOK'
    BY DEF TypeOK
  <2>2. BootQuiet'
    BY DEF TypeOK, BootQuiet, Young, Booting
  <2>3. Stopped' /\ NothingCutShort' /\ SpansReachCollector' /\ SpanOfAnswer'
    BY DEF Stopped, NothingCutShort, SpansReachCollector, SpanOfAnswer, BrokeDown, Answered
  <2> QED BY <2>1, <2>2, <2>3
<1>2. ASSUME NEW p \in Process, Sigterm(p) PROVE LifeInv'
  <2> USE <1>2 DEF Sigterm
  <2>1. TypeOK' /\ BootQuiet'
    BY DEF TypeOK, BootQuiet, Young
  <2>2. Stopped' /\ NothingCutShort' /\ SpansReachCollector' /\ SpanOfAnswer'
    BY DEF Stopped, NothingCutShort, SpansReachCollector, SpanOfAnswer, BrokeDown, Answered
  <2> QED BY <2>1, <2>2
<1>3. CASE ListenAndServeReturns \/ ServeReturns
  <2>1. PICK p \in Process : listener' = [listener EXCEPT ![p] = "closed"]
                             /\ listener[p] \in {"starting", "accepting"}
    BY <1>3 DEF ListenAndServeReturns, ServeReturns
  <2>2. UNCHANGED <<stage, signalled, history, requests>>
    BY <1>3 DEF ListenAndServeReturns, ServeReturns
  <2>3. TypeOK' /\ \A q \in Process : BrokeDown(q) => BrokeDown(q)'
    BY <2>1, <2>2 DEF TypeOK, BrokeDown
  <2>4. BootQuiet'
    BY <1>3, <2>2 DEF ListenAndServeReturns, ServeReturns, TypeOK, BootQuiet, Young, Booting
  <2>5. Stopped' /\ NothingCutShort' /\ SpanOfAnswer'
    BY <2>2, <2>3 DEF Stopped, NothingCutShort, SpanOfAnswer
  <2>6. SpansReachCollector'
    BY <2>2, <2>3 DEF SpansReachCollector, Answered
  <2> QED BY <2>3, <2>4, <2>5, <2>6
<1>4. CASE PeriodicExport
  <2>1. /\ stage["gateway"] \notin Ended /\ InState("batched") # {}
        /\ UNCHANGED <<stage, signalled, listener, req, rpc, rpcCut, overran>>
    BY <1>4 DEF PeriodicExport
  <2>2. PICK taken \in {{}, InState("batched")} : Export(InState("batched"), taken)
    BY <1>4 DEF PeriodicExport
  <2>3. Exported /\ \A r \in Request : span'[r] \in Waiting => span[r] \in Waiting
    <3>1. /\ InState("batched") \in SUBSET Request /\ taken \in SUBSET InState("batched")
          /\ \A r \in InState("batched") : span[r] \in Waiting
      BY DEF InState, Waiting
    <3> QED BY <2>2, <3>1, ExportKeeps
  <2>4. TypeOK' /\ BootQuiet'
    BY <2>1, <2>3 DEF Exported, TypeOK, BootQuiet, Young, Booting
  <2>5. Stopped' /\ NothingCutShort'
    BY <2>1, <2>3 DEF Stopped, NothingCutShort, BrokeDown
  <2>6. SpansReachCollector' /\ SpanOfAnswer'
    BY <2>1, <2>3, ExportedKeeps DEF BrokeDown
  <2> QED BY <2>4, <2>5, <2>6
<1>5. ASSUME NEW p \in Process, AcceptFails(p) PROVE LifeInv'
  <2> USE <1>5 DEF AcceptFails
  <2>1. TypeOK'
    BY DEF TypeOK
  <2>2. BootQuiet'
    BY DEF TypeOK, BootQuiet, Young, Booting
  <2>3. Stopped' /\ NothingCutShort' /\ SpansReachCollector' /\ SpanOfAnswer'
    BY DEF Stopped, NothingCutShort, SpansReachCollector, SpanOfAnswer, BrokeDown, Answered, TypeOK
  <2> QED BY <2>1, <2>2, <2>3
<1> QED BY <1>1, <1>2, <1>3, <1>4, <1>5

\* Every log.Fatal comes before anything has reached the process, or after its
\* listener failed.
LEMMA FatalIsYoung ==
    ASSUME LifeInv
    PROVE  /\ \A p \in Process : InitTracingFails(p) \/ DialFails(p) => Young(p)
           /\ PingFails \/ ListenFails \/ ServeAfterStop => Young("service")
           /\ ListenAndServeFails => Young("gateway")
           /\ \A p \in Process : FailedIsFatal(p) => listener[p] = "failed"
BY DEF LifeInv, BootQuiet, Booting, Young, InitTracingFails, DialFails, PingFails,
       ListenFails, ServeAfterStop, ListenAndServeFails, FailedIsFatal

\* Every step of the two processes and their requests keeps the invariant.
THEOREM InvStep == LifeInv /\ [Next]_vars => LifeInv'
<1> SUFFICES ASSUME LifeInv, [Next]_vars PROVE LifeInv'
  OBVIOUS
<1>1. ASSUME NEW p \in Process, InitTracing(p) \/ Dial(p) PROVE LifeInv'
  BY <1>1, BootStepKeeps DEF InitTracing, Dial, Booting
<1>2. CASE Ping \/ Seed \/ Listen
  BY <1>2, BootStepKeeps DEF Ping, Seed, Listen, Booting
<1>3. ASSUME NEW p \in Process, InitTracingFails(p) \/ DialFails(p) PROVE LifeInv'
  BY <1>3, EndKeeps, FatalIsYoung DEF InitTracingFails, DialFails, Fatal, MayEnd, Ended
<1>4. CASE PingFails \/ ListenFails \/ ServeAfterStop \/ ListenAndServeFails
  BY <1>4, EndKeeps, FatalIsYoung
     DEF PingFails, ListenFails, ServeAfterStop, ListenAndServeFails, Fatal, MayEnd, Ended
<1>5. ASSUME NEW p \in Process, Exit(p) \/ Kill(p) PROVE LifeInv'
  BY <1>5, EndKeeps DEF Exit, Kill, MayEnd, Ended, Runs
<1>6. ASSUME NEW r \in Request,
             Arrive(r) \/ Call(r) \/ CallTimeout(r) \/ HandlerEnds(r) \/ Respond(r) \/ Collect(r)
      PROVE  LifeInv'
  BY <1>6, RequestKeeps
<1>7. CASE \/ \E p \in Process : Stop(p) \/ ShutdownTracing(p)
           \/ ShutdownDone \/ ShutdownTimesOut \/ GracefulStopDone
  BY <1>7, StopKeeps
<1>8. CASE \/ \E p \in Process : Accept(p) \/ AcceptFails(p) \/ Sigterm(p)
           \/ ListenAndServeReturns \/ ServeReturns \/ PeriodicExport
  BY <1>8, ListenerKeeps
<1>9. CASE UNCHANGED vars
  BY <1>9 DEF vars, LifeInv, TypeOK, BootQuiet, Young, Stopped, NothingCutShort,
              SpansReachCollector, SpanOfAnswer, BrokeDown, Answered, Runs, InHandler
<1>10. ASSUME NEW p \in Process, FailedIsFatal(p) PROVE LifeInv'
  BY <1>10, EndKeeps, FatalIsYoung DEF FailedIsFatal, Fatal, MayEnd, Ended
<1> QED
  BY <1>1, <1>2, <1>3, <1>4, <1>5, <1>6, <1>7, <1>8, <1>9, <1>10
     DEF Next, Main, GatewayMain, ServiceMain, Listener

\* The inductive invariant holds however the two mains, signals and requests
\* interleave.
THEOREM Invariance == Spec => []LifeInv
<1>1. Init => LifeInv
  BY DEF Init, LifeInv, TypeOK, BootQuiet, Young, Stopped, NothingCutShort,
         SpansReachCollector, SpanOfAnswer, Runs, Ended, InHandler
<1> QED BY <1>1, InvStep, PTL DEF Spec
-----------------------------------------------------------------------------
(* The theorems.                                                            *)

\* The variables keep their types, and nothing runs in a process that is gone.
THEOREM TypeCorrect == Spec => []TypeOK
BY Invariance, PTL DEF LifeInv

\* A request or an RPC is cut only by a kill, by a listener that fails, or by the
\* end of Shutdown's 5 seconds.
THEOREM NothingCut == Spec => []NothingCutShort
BY Invariance, PTL DEF LifeInv

\* No process that has once accepted, and whose listener did not fail, ends by
\* log.Fatal.
THEOREM NeverFatal == Spec => ServingNeverFatal
<1>1. ASSUME LifeInv, [Next]_vars, NEW p \in Process, listener[p] \in {"accepting", "closed"}, stage[p] # "fatal"
      PROVE  stage'[p] # "fatal"
  <2> USE <1>1
  <2>1. ASSUME NEW q \in Process, NEW from \in Booting, NEW to \in Booting \cup {"serving"},
               BootStep(q, from, to)
        PROVE  stage'[p] # "fatal"
    BY <2>1 DEF BootStep, LifeInv, TypeOK, Booting
  <2>2. CASE \E q \in Process : InitTracing(q) \/ Dial(q)
    BY <2>1, <2>2 DEF InitTracing, Dial, Booting
  <2>3. CASE Ping \/ Seed \/ Listen
    BY <2>1, <2>3 DEF Ping, Seed, Listen, Booting
  <2>4. ASSUME NEW q \in Process, Young(q) \/ listener[q] = "failed", Fatal(q) PROVE stage'[p] # "fatal"
    BY <2>4 DEF Young, Fatal, Ends, LifeInv, TypeOK
  <2>5. CASE \E q \in Process : InitTracingFails(q) \/ DialFails(q)
    BY <2>4, <2>5, FatalIsYoung DEF InitTracingFails, DialFails
  <2>6. CASE PingFails \/ ListenFails \/ ServeAfterStop \/ ListenAndServeFails
    BY <2>4, <2>6, FatalIsYoung
       DEF PingFails, ListenFails, ServeAfterStop, ListenAndServeFails
  <2>7. CASE \E q \in Process : Exit(q) \/ Kill(q)
    BY <2>7 DEF Exit, Kill, Ends, LifeInv, TypeOK
  <2>8. CASE \/ \E q \in Process : Stop(q) \/ ShutdownTracing(q)
             \/ ShutdownDone \/ ShutdownTimesOut \/ GracefulStopDone
    BY <2>8 DEF Stop, ShutdownTracing, ShutdownDone, ShutdownTimesOut, GracefulStopDone,
                Goto, LifeInv, TypeOK
  <2>9. CASE \/ UNCHANGED vars \/ PeriodicExport \/ ListenAndServeReturns \/ ServeReturns
             \/ \E q \in Process : Accept(q) \/ AcceptFails(q) \/ Sigterm(q)
             \/ \E r \in Request :
                  Arrive(r) \/ Call(r) \/ CallTimeout(r) \/ HandlerEnds(r) \/ Respond(r) \/ Collect(r)
    BY <2>9
       DEF vars, PeriodicExport, ListenAndServeReturns, ServeReturns, Accept, AcceptFails, Sigterm,
                Arrive, Call, CallTimeout, HandlerEnds, Respond, Collect
  <2>10. CASE \E q \in Process : FailedIsFatal(q)
    BY <2>4, <2>10, FatalIsYoung DEF FailedIsFatal
  <2> QED
    BY <2>2, <2>3, <2>5, <2>6, <2>7, <2>8, <2>9, <2>10
       DEF Next, Main, GatewayMain, ServiceMain, Listener
<1>2. LifeInv /\ [Next]_vars =>
        [\A p \in Process : listener[p] \in {"accepting", "closed"}
                              => ~(stage[p] # "fatal" /\ stage'[p] = "fatal")]_vars
  BY <1>1
<1> QED BY <1>2, Invariance, PTL DEF Spec, ServingNeverFatal

\* Spans are lost only to the collector, a kill, a listener that fails or the end of
\* those 5 seconds, and dropped only when more requests were answered than a queue holds.
THEOREM SpansSent == Spec => []SpansReachCollector
BY Invariance, PTL DEF LifeInv
=============================================================================
