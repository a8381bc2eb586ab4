---------------------------- MODULE ProcessLife -----------------------------
(***************************************************************************)
(* The lives of a gateway and a movies-service: boot, serving, SIGTERM, and   *)
(* the end, with the requests and RPCs that are under way.  log.Fatal ends a  *)
(* process at once and runs no deferred call; main returning runs them, and   *)
(* ends every goroutine that still runs.                                     *)
(*                                                                         *)
(* A request makes at most one RPC here (Resilience has the others), and none  *)
(* when it is a POST, whose publish may block as long as RabbitMQ likes.      *)
(* What becomes of the consumer's messages is in CreateJobs.                  *)
(***************************************************************************)
EXTENDS Integers, FiniteSets

CONSTANTS Request,
          QueueSize   \* the spans a BatchSpanProcessor queues: 2048 by default

ASSUME QueueAssumption == IsFiniteSet(Request) /\ QueueSize \in Nat \ {0}

VARIABLES
    stage,      \* where the main of each process is
    signalled,  \* has its context seen SIGTERM?
    listener,   \* the goroutine of each process that listens and accepts
    req,        \* HTTP requests in the gateway
    rpc,        \* their RPCs in movies-service
    rpcCut,     \* history: RPCs that movies-service left without a reply
    span,       \* the span of each request in the gateway's BatchSpanProcessor
    overran,    \* history: did srv.Shutdown run out of its 5 seconds?
    unexported  \* history: did the collector fail to take an export?

vars == <<stage, signalled, listener, req, rpc, rpcCut, span, overran, unexported>>
requests == <<req, rpc, rpcCut, span>>
history == <<overran, unexported>>

Process == {"gateway", "service"}
Ended == {"exited", "fatal", "killed"}
Runs(p) == stage[p] \notin Ended

Init ==
    /\ stage = [p \in Process |-> "tracing"]
    /\ signalled = [p \in Process |-> FALSE]
    /\ listener = [p \in Process |-> "none"]
    /\ req = [r \in Request |-> "none"]
    /\ rpc = [r \in Request |-> "none"]
    /\ rpcCut = [r \in Request |-> FALSE]
    /\ span = [r \in Request |-> "none"]
    /\ overran = FALSE
    /\ unexported = FALSE
-----------------------------------------------------------------------------
(* What the end of a process does to requests and RPCs.                      *)

\* A span in the processor's queue, or in the batch that its goroutine collects.
Waiting == {"queued", "batched"}

InHandler(r) == rpc[r] \in {"running", "cancelled"}

\* The gateway is gone: its requests are cut, their RPCs cancelled, and the spans
\* it still holds are lost.
GatewayGone ==
    /\ req' = [r \in Request |-> IF req[r] = "handling" THEN "cut" ELSE req[r]]
    /\ rpc' = [r \in Request |-> IF rpc[r] = "running" THEN "cancelled" ELSE rpc[r]]
    /\ span' = [r \in Request |-> IF span[r] \in Waiting THEN "lost" ELSE span[r]]
    /\ UNCHANGED rpcCut

\* movies-service is gone: the callers of its RPCs get Unavailable.
ServiceGone ==
    /\ rpc' = [r \in Request |-> IF InHandler(r) THEN "over" ELSE rpc[r]]
    /\ rpcCut' = [r \in Request |-> rpcCut[r] \/ rpc[r] = "running"]
    /\ UNCHANGED <<req, span>>

Ends(p, how) ==
    /\ stage' = [stage EXCEPT ![p] = how]
    /\ IF p = "gateway" THEN GatewayGone ELSE ServiceGone
    /\ UNCHANGED <<signalled, listener, overran, unexported>>

Fatal(p) == Runs(p) /\ Ends(p, "fatal")
-----------------------------------------------------------------------------
(* Boot.                                                                    *)

\* A step of main that succeeds; the last one starts the goroutine that listens.
BootStep(p, from, to) ==
    /\ stage[p] = from
    /\ stage' = [stage EXCEPT ![p] = to]
    /\ listener' = IF to = "serving" THEN [listener EXCEPT ![p] = "starting"] ELSE listener
    /\ UNCHANGED <<signalled, history, requests>>

InitTracing(p) == BootStep(p, "tracing", IF p = "gateway" THEN "rabbitmq" ELSE "mongo")
InitTracingFails(p) == stage[p] = "tracing" /\ Fatal(p)

\* Ping takes the context that the signal cancels.
Ping == ~signalled["service"] /\ BootStep("service", "mongo", "seed")
PingFails == stage["service"] = "mongo" /\ Fatal("service")

\* Seed and EnsureIndexes are done, or failed, or cancelled by the signal:
\* main logs an error and goes on.
Seed == BootStep("service", "seed", "rabbitmq")

\* The gateway's publisher, the consumer and its subscription.
Dial(p) == BootStep(p, "rabbitmq", IF p = "gateway" THEN "serving" ELSE "listen")
DialFails(p) == stage[p] = "rabbitmq" /\ Fatal(p)

Listen == BootStep("service", "listen", "serving")
ListenFails == stage["service"] = "listen" /\ Fatal("service")
-----------------------------------------------------------------------------
(* The goroutines that listen.                                              *)

\* The main of a server that was not told to stop.
NotStopped(p) == stage[p] = "serving"

Accept(p) ==
    /\ Runs(p) /\ listener[p] = "starting" /\ NotStopped(p)
    /\ listener' = [listener EXCEPT ![p] = "accepting"]
    /\ UNCHANGED <<stage, signalled, history, requests>>

\* The gateway's port is taken: ListenAndServe returns an error.
ListenAndServeFails ==
    /\ listener["gateway"] = "starting" /\ NotStopped("gateway")
    /\ Fatal("gateway")

\* An error of Accept that is not temporary: ListenAndServe, or Serve, returns it ...
AcceptFails(p) ==
    /\ Runs(p) /\ listener[p] = "accepting" /\ NotStopped(p)
    /\ listener' = [listener EXCEPT ![p] = "failed"]
    /\ UNCHANGED <<stage, signalled, history, requests>>

\* ... and the goroutine calls log.Fatal, whatever main does by then.
FailedIsFatal(p) == listener[p] = "failed" /\ Fatal(p)

\* Mutant of ListenAndServeReturns: ErrServerClosed is not told apart.
ReturnIsFatal ==
    /\ listener["gateway"] \in {"starting", "accepting"} /\ ~NotStopped("gateway")
    /\ Fatal("gateway")

\* After Shutdown it returns ErrServerClosed, also when it is called only then.
ListenAndServeReturns ==
    /\ Runs("gateway")
    /\ listener["gateway"] \in {"starting", "accepting"} /\ ~NotStopped("gateway")
    /\ listener' = [listener EXCEPT !["gateway"] = "closed"]
    /\ UNCHANGED <<stage, signalled, history, requests>>

\* Serve returns nil when GracefulStop ends it ...
ServeReturns ==
    /\ Runs("service")
    /\ listener["service"] = "accepting" /\ ~NotStopped("service")
    /\ listener' = [listener EXCEPT !["service"] = "closed"]
    /\ UNCHANGED <<stage, signalled, history, requests>>

\* ... but ErrServerStopped when it is called only after it.
ServeAfterStop ==
    /\ listener["service"] = "starting" /\ ~NotStopped("service")
    /\ Fatal("service")
-----------------------------------------------------------------------------
(* Requests.                                                                *)

\* A connection that was accepted serves requests also when no other is accepted.
Connected(p) == listener[p] \in {"accepting", "failed"} /\ NotStopped(p)

\* Mutant of Arrive: nobody looks whether the server was told to stop.
ArriveAnyway(r) ==
    /\ req[r] = "none" /\ listener["gateway"] = "accepting"
    /\ req' = [req EXCEPT ![r] = "handling"]
    /\ UNCHANGED <<stage, signalled, listener, rpc, rpcCut, span, history>>

Arrive(r) ==
    /\ req[r] = "none"
    /\ Connected("gateway")
    /\ req' = [req EXCEPT ![r] = "handling"]
    /\ UNCHANGED <<stage, signalled, listener, rpc, rpcCut, span, history>>

Call(r) ==
    /\ req[r] = "handling" /\ rpc[r] = "none"
    /\ Connected("service")
    /\ rpc' = [rpc EXCEPT ![r] = "running"]
    /\ UNCHANGED <<stage, signalled, listener, req, rpcCut, span, history>>

\* Mutant of CallTimeout: the call has no deadline.
NoDeadline(r) == FALSE /\ rpc[r] = "running" /\ UNCHANGED vars

\* callTimeout ends the attempt and, since the deadline is sent along, the
\* context of the RPC's handler.
CallTimeout(r) ==
    /\ Runs("gateway") /\ rpc[r] = "running"
    /\ rpc' = [rpc EXCEPT ![r] = "cancelled"]
    /\ UNCHANGED <<stage, signalled, listener, req, rpcCut, span, history>>

HandlerEnds(r) ==
    /\ Runs("service") /\ InHandler(r)
    /\ rpc' = [rpc EXCEPT ![r] = "over"]
    /\ UNCHANGED <<stage, signalled, listener, req, rpcCut, span, history>>

InState(state) == {r \in Request : span[r] = state}

\* The handler answers and its span ends: it is dropped when the queue is full, and
\* lost when the provider was shut down.
Respond(r) ==
    /\ Runs("gateway") /\ req[r] = "handling" /\ rpc[r] # "running"
    /\ req' = [req EXCEPT ![r] = "answered"]
    /\ span' = [span EXCEPT ![r] = IF stage["gateway"] = "flushed" THEN "lost"
                                   ELSE IF Cardinality(InState("queued")) >= QueueSize THEN "dropped"
                                   ELSE "queued"]
    /\ UNCHANGED <<stage, signalled, listener, rpc, rpcCut, history>>

\* The processor's goroutine takes a span out of the queue, when it is not busy
\* with an export.
Collect(r) ==
    /\ Runs("gateway") /\ span[r] = "queued"
    /\ span' = [span EXCEPT ![r] = "batched"]
    /\ UNCHANGED <<stage, signalled, listener, req, rpc, rpcCut, history>>

\* Of the spans that are sent the collector takes some: the others are dropped.
Export(sent, taken) ==
    /\ span' = [r \in Request |-> IF r \in taken THEN "exported"
                                  ELSE IF r \in sent THEN "lost" ELSE span[r]]
    /\ unexported' = (unexported \/ taken # sent)

\* A batch is full, or 5 seconds old.
PeriodicExport ==
    /\ Runs("gateway") /\ InState("batched") # {}
    /\ \E taken \in {{}, InState("batched")} : Export(InState("batched"), taken)
    /\ UNCHANGED <<stage, signalled, listener, req, rpc, rpcCut, overran>>
-----------------------------------------------------------------------------
(* The end.                                                                 *)

Sigterm(p) ==
    /\ Runs(p) /\ ~signalled[p]
    /\ signalled' = [signalled EXCEPT ![p] = TRUE]
    /\ UNCHANGED <<stage, listener, history, requests>>

Goto(p, next) == stage' = [stage EXCEPT ![p] = next]

\* srv.Shutdown closes the listener, GracefulStop too; both wait then.
Stop(p) ==
    /\ stage[p] = "serving" /\ signalled[p]
    /\ Goto(p, "stopping")
    /\ UNCHANGED <<signalled, listener, history, requests>>

ShutdownDone ==
    /\ stage["gateway"] = "stopping"
    /\ \A r \in Request : req[r] # "handling"
    /\ Goto("gateway", "flushing")
    /\ UNCHANGED <<signalled, listener, history, requests>>

ShutdownTimesOut ==
    /\ stage["gateway"] = "stopping"
    /\ \E r \in Request : req[r] = "handling"
    /\ Goto("gateway", "flushing")
    /\ overran' = TRUE
    /\ UNCHANGED <<signalled, listener, unexported, requests>>

\* Mutant of GracefulStopDone: grpcSrv.Stop().
StopNow ==
    /\ stage["service"] = "stopping"
    /\ Goto("service", "flushing")
    /\ UNCHANGED <<signalled, listener, history, requests>>

GracefulStopDone ==
    /\ stage["service"] = "stopping"
    /\ \A r \in Request : ~InHandler(r)
    /\ Goto("service", "flushing")
    /\ UNCHANGED <<signalled, listener, history, requests>>

ExportAll ==
    LET held == {r \in Request : span[r] \in Waiting}
    IN  \E taken \in SUBSET held : Export(held, taken)

\* Mutant of ShutdownTracing: the flush comes before the server is shut down.
FlushFirst(p) ==
    /\ stage[p] = IF p = "gateway" THEN "stopping" ELSE "flushing"
    /\ Goto(p, "flushed")
    /\ IF p = "gateway" THEN ExportAll ELSE UNCHANGED <<span, unexported>>
    /\ UNCHANGED <<signalled, listener, req, rpc, rpcCut, overran>>

\* The deferred calls of main: what the provider holds is exported batch by batch,
\* as far as 5 seconds allow, and it takes no more.  Only the gateway's spans are followed.
ShutdownTracing(p) ==
    /\ stage[p] = "flushing"
    /\ Goto(p, "flushed")
    /\ IF p = "gateway" THEN ExportAll ELSE UNCHANGED <<span, unexported>>
    /\ UNCHANGED <<signalled, listener, req, rpc, rpcCut, overran>>

Exit(p) == stage[p] = "flushed" /\ Ends(p, "exited")

Kill(p) == Runs(p) /\ Ends(p, "killed")

Main(p) == InitTracing(p) \/ InitTracingFails(p) \/ Dial(p) \/ DialFails(p)
           \/ Stop(p) \/ ShutdownTracing(p) \/ Exit(p)
GatewayMain == Main("gateway") \/ ShutdownDone \/ ShutdownTimesOut
ServiceMain == Main("service") \/ Ping \/ PingFails \/ Seed \/ Listen \/ ListenFails \/ GracefulStopDone
Listener == ListenAndServeFails \/ ListenAndServeReturns \/ ServeReturns \/ ServeAfterStop
            \/ \E p \in Process : Accept(p) \/ AcceptFails(p) \/ FailedIsFatal(p)

Next ==
    \/ GatewayMain \/ ServiceMain \/ Listener \/ PeriodicExport
    \/ \E p \in Process : Sigterm(p) \/ Kill(p)
    \/ \E r \in Request : Arrive(r) \/ Call(r) \/ CallTimeout(r) \/ HandlerEnds(r)
                          \/ Respond(r) \/ Collect(r)

Spec == Init /\ [][Next]_vars

\* Both mains run and what they wait for has a limit: the dials of the drivers,
\* Shutdown's and the exporter's 5 seconds.  callTimeout passes, and a handler
\* whose context is cancelled ends, since the driver looks at it.  MongoDB and
\* RabbitMQ need never answer, and nobody sends a signal or a request by need.
FairSpec ==
    /\ Spec /\ WF_vars(GatewayMain) /\ WF_vars(ServiceMain)
    /\ \A r \in Request : WF_vars(CallTimeout(r)) /\ WF_vars(rpc[r] = "cancelled" /\ HandlerEnds(r))
-----------------------------------------------------------------------------
TypeOK ==
    /\ stage \in [Process -> Ended \cup {"tracing", "mongo", "seed", "rabbitmq", "listen",
                                         "serving", "stopping", "flushing", "flushed"}]
    /\ signalled \in [Process -> BOOLEAN] /\ overran \in BOOLEAN /\ unexported \in BOOLEAN
    /\ listener \in [Process -> {"none", "starting", "accepting", "failed", "closed"}]
    /\ req \in [Request -> {"none", "handling", "answered", "cut"}]
    /\ rpc \in [Request -> {"none", "running", "cancelled", "over"}]
    /\ rpcCut \in [Request -> BOOLEAN]
    /\ span \in [Request -> {"none", "queued", "batched", "exported", "dropped", "lost"}]
    \* nothing runs in a process that is gone
    /\ ~Runs("gateway") => \A r \in Request : req[r] # "handling" /\ rpc[r] # "running"
    /\ ~Runs("service") => \A r \in Request : ~InHandler(r)

\* A process that was killed, or that ended by log.Fatal since it can accept no more.
BrokeDown(p) == stage[p] = "killed" \/ (stage[p] = "fatal" /\ listener[p] = "failed")

\* A request is cut in the middle only when the gateway breaks down or the 5 seconds
\* of Shutdown are over, and an RPC only when movies-service breaks down: a rolling
\* update of either costs no call that had begun, unless it takes too long.
NothingCutShort ==
    \A r \in Request :
        /\ req[r] = "cut" => BrokeDown("gateway") \/ overran
        /\ rpcCut[r] => BrokeDown("service")

Answered == {r \in Request : req[r] = "answered"}

\* The span of an answered request is lost only when the collector did not take
\* it, the gateway broke down or Shutdown ran out of time: shutting the server down
\* before the deferred shutdownTracing is what saves it (api-gateway/cmd/main.go:108).
\* And none is dropped for want of room before more requests were answered than the
\* queue of WithBatcher holds (api-gateway/internal/observability/tracing.go:48).
SpansReachCollector ==
    \A r \in Request :
        /\ span[r] = "lost" => BrokeDown("gateway") \/ overran \/ unexported
        /\ span[r] = "dropped" => Cardinality(Answered) > QueueSize

\* A process that has once accepted, and whose listener did not fail, does not end
\* by log.Fatal, which would skip the deferred calls: not by the error its own
\* shutdown makes the server return.
ServingNeverFatal ==
    [][\A p \in Process : listener[p] \in {"accepting", "closed"}
                            => ~(stage[p] # "fatal" /\ stage'[p] = "fatal")]_vars

\* A process that gets SIGTERM ends: the gateway whatever its requests and RabbitMQ
\* do, since Shutdown gives up after 5 seconds (api-gateway/cmd/main.go:118), and
\* movies-service although GracefulStop has no limit (movies-service/cmd/main.go:192)
\* and MongoDB may be silent, since callTimeout ends the RPCs it waits for.
SignalEnds == \A p \in Process : signalled[p] ~> ~Runs(p)

\* The inductive invariant, part by part.

\* Nobody listens before main has come to its end of the boot, and nothing
\* reaches a process that has not accepted.
Booting == {"tracing", "mongo", "seed", "rabbitmq", "listen"}
Young(p) == listener[p] \in {"none", "starting"}
BootQuiet ==
    /\ \A p \in Process : stage[p] \in Booting => listener[p] = "none"
    /\ Young("gateway") => \A r \in Request : req[r] = "none" /\ span[r] = "none"
    /\ Young("service") => \A r \in Request : rpc[r] = "none"

\* Once a server was stopped what it waited for is over, or Shutdown ran out of
\* its time, and after the flush no span waits to be sent.
Stopped ==
    /\ stage["gateway"] \in {"flushing", "flushed"} =>
         overran \/ \A r \in Request : req[r] # "handling"
    /\ stage["gateway"] = "flushed" => \A r \in Request : span[r] \notin Waiting
    /\ stage["service"] \in {"flushing", "flushed"} => \A r \in Request : ~InHandler(r)

\* A request has a span when it has its answer.
SpanOfAnswer == \A r \in Request : span[r] # "none" <=> req[r] = "answered"

LifeInv == TypeOK /\ SpanOfAnswer /\ BootQuiet /\ Stopped /\ NothingCutShort /\ SpansReachCollector
=============================================================================
