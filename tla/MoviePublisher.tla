--------------------------- MODULE MoviePublisher ---------------------------
(***************************************************************************)
(* The gateway's publisher at work: POST /movies through Resilience to the  *)
(* RabbitMQ connection that all handlers share.  Publish makes sure there   *)
(* is a connection (ensureConnected, under the mutex, dialing if it must),  *)
(* takes the channel (under the mutex again) and sends on it (without).     *)
(*                                                                         *)
(* The connection can die between any two of these steps.  None of them     *)
(* looks at the context of the attempt.                                     *)
(***************************************************************************)
EXTENDS PublisherConnection

CONSTANT Faults  \* what goes wrong in this instance

FaultKind == {"down",     \* RabbitMQ stops; its connections die
              "drop",     \* the connection, or only its channel, dies
              "blocked"}  \* RabbitMQ stops reading what publishers send

ASSUME FaultAssumption == Faults \subseteq FaultKind

vars == <<calls, broker, conn, mu, step, channel, expired, sockets>>

\* NewRabbitMQPublisher has dialed, or the gateway would not have started.
Init ==
    /\ B!Init
    /\ broker = "up"
    /\ conn = "open"
    /\ mu = None
    /\ step = [c \in Caller |-> "none"]
    /\ channel = [c \in Caller |-> "none"]
    /\ expired = [c \in Caller |-> FALSE]
    /\ sockets = 1
-----------------------------------------------------------------------------
Goto(c, s) == step' = [step EXCEPT ![c] = s]

\* Mutant of Return: a failed publish is retried without end.
RetriesForever(c, outcome) ==
    /\ pc[c] = "attempt"
    /\ B!AfterRequest(c, outcome)
    /\ IF outcome = "ok"
         THEN B!Return(c)
         ELSE B!Goto(c, "backoff") /\ UNCHANGED <<attempt, gone>>
    /\ Goto(c, "none")
    /\ channel' = [channel EXCEPT ![c] = "none"]
    /\ expired' = [expired EXCEPT ![c] = FALSE]

\* The attempt of c returns; every error of a publish counts and is retried.
Return(c, outcome) ==
    /\ B!Finish(c, outcome)
    /\ Goto(c, "none")
    /\ channel' = [channel EXCEPT ![c] = "none"]
    /\ expired' = [expired EXCEPT ![c] = FALSE]

Post(c) ==
    /\ B!Call(c)
    /\ UNCHANGED <<broker, conn, mu, step, channel, expired, sockets>>

Admit(c) ==
    /\ B!Admit(c)
    /\ Goto(c, "ensure")
    /\ UNCHANGED <<broker, conn, mu, channel, expired, sockets>>

Reject(c) ==
    /\ B!Reject(c)
    /\ UNCHANGED <<broker, conn, mu, step, channel, expired, sockets>>

CallTimeout(c) ==
    /\ pc[c] = "attempt" /\ ~expired[c]
    /\ expired' = [expired EXCEPT ![c] = TRUE]
    /\ UNCHANGED <<calls, broker, conn, mu, step, channel, sockets>>

Connected(c) ==
    /\ step[c] = "ensure"
    /\ mu = None
    /\ conn = "open"
    /\ Goto(c, "take")
    /\ UNCHANGED <<calls, broker, conn, mu, channel, expired, sockets>>

\* Mutant of Redial: the old connection is not closed.
RedialLeaks(c) ==
    /\ step[c] = "ensure"
    /\ mu = None
    /\ conn # "open"
    /\ mu' = c
    /\ Goto(c, "dial")
    /\ UNCHANGED <<calls, broker, conn, channel, expired, sockets>>

\* Mutant of Redial: the mutex is not held while dialing.
RedialUnlocked(c) ==
    /\ step[c] = "ensure"
    /\ mu = None
    /\ conn # "open"
    /\ conn' = "closed"
    /\ sockets' = IF conn = "channelClosed" THEN sockets - 1 ELSE sockets
    /\ Goto(c, "dial")
    /\ UNCHANGED <<calls, broker, mu, channel, expired>>

\* Mutant of Redial: the connection is made once, when the gateway starts.
NoRedial(c) ==
    /\ step[c] = "ensure"
    /\ mu = None
    /\ conn # "open"
    /\ Goto(c, "take")
    /\ UNCHANGED <<calls, broker, conn, mu, channel, expired, sockets>>

\* The connection or its channel is dead: close what is left of it and dial.
Redial(c) ==
    /\ step[c] = "ensure"
    /\ mu = None
    /\ conn # "open"
    /\ mu' = c
    /\ conn' = "closed"
    /\ sockets' = IF conn = "channelClosed" THEN sockets - 1 ELSE sockets
    /\ Goto(c, "dial")
    /\ UNCHANGED <<calls, broker, channel, expired>>

DialOk(c) ==
    /\ step[c] = "dial"
    /\ broker # "down"
    /\ conn' = "open"
    /\ sockets' = sockets + 1
    /\ mu' = None
    /\ Goto(c, "take")
    /\ UNCHANGED <<calls, broker, channel, expired>>

\* Mutant of DialFails: the mutex is not unlocked on the way out.
DialFailsLocked(c) ==
    /\ step[c] = "dial"
    /\ broker = "down" \/ "drop" \in Faults
    /\ Return(c, "transient")
    /\ UNCHANGED <<broker, conn, mu, sockets>>

DialFails(c) ==
    /\ step[c] = "dial"
    /\ broker = "down" \/ "drop" \in Faults
    /\ mu' = None
    /\ Return(c, "transient")
    /\ UNCHANGED <<broker, conn, sockets>>

TakeChannel(c) ==
    /\ step[c] = "take"
    /\ mu = None
    /\ channel' = [channel EXCEPT ![c] = IF conn = "open" THEN "open" ELSE "closed"]
    /\ Goto(c, "send")
    /\ UNCHANGED <<calls, broker, conn, mu, expired, sockets>>

\* Sending waits for as long as RabbitMQ does not read.
SendOk(c) ==
    /\ step[c] = "send"
    /\ channel[c] = "open"
    /\ broker = "up"
    /\ Return(c, "ok")
    /\ UNCHANGED <<broker, conn, mu, sockets>>

SendFails(c) ==
    /\ step[c] = "send"
    /\ channel[c] = "closed"
    /\ Return(c, "transient")
    /\ UNCHANGED <<broker, conn, mu, sockets>>

BackoffEnds(c) ==
    /\ B!BackoffEnds(c)
    /\ UNCHANGED <<broker, conn, mu, step, channel, expired, sockets>>

BackoffCancelled(c) ==
    /\ B!BackoffCancelled(c)
    /\ UNCHANGED <<broker, conn, mu, step, channel, expired, sockets>>

Leave(c) ==
    /\ B!Leave(c)
    /\ UNCHANGED <<broker, conn, mu, step, channel, expired, sockets>>

OpenTimeout ==
    /\ B!OpenTimeout
    /\ UNCHANGED <<broker, conn, mu, step, channel, expired, sockets>>

IntervalEnds ==
    /\ B!IntervalEnds
    /\ UNCHANGED <<broker, conn, mu, step, channel, expired, sockets>>

\* Whoever took the channel finds it closed.
ChannelDies ==
    channel' = [c \in Caller |-> IF channel[c] = "open" THEN "closed" ELSE channel[c]]

BrokerDown ==
    /\ "down" \in Faults
    /\ broker # "down"
    /\ broker' = "down"
    /\ conn' = "closed"
    /\ sockets' = 0
    /\ ChannelDies
    /\ UNCHANGED <<calls, mu, step, expired>>

BrokerUp ==
    /\ broker # "up"
    /\ broker' = "up"
    /\ UNCHANGED <<calls, conn, mu, step, channel, expired, sockets>>

BrokerBlocks ==
    /\ "blocked" \in Faults
    /\ broker = "up"
    /\ broker' = "blocked"
    /\ UNCHANGED <<calls, conn, mu, step, channel, expired, sockets>>

Drop ==
    /\ "drop" \in Faults
    /\ conn = "open"
    /\ \/ conn' = "channelClosed" /\ UNCHANGED sockets
       \/ conn' = "closed" /\ sockets' = sockets - 1
    /\ ChannelDies
    /\ UNCHANGED <<calls, broker, mu, step, expired>>

Locked(c) == Connected(c) \/ Redial(c) \/ TakeChannel(c)

Proceed(c) ==
    \/ Admit(c) \/ Reject(c)
    \/ Locked(c) \/ DialOk(c) \/ DialFails(c) \/ SendOk(c) \/ SendFails(c)
    \/ BackoffEnds(c) \/ BackoffCancelled(c)

Next ==
    \/ \E c \in Caller : Post(c) \/ Proceed(c) \/ CallTimeout(c) \/ Leave(c)
    \/ OpenTimeout \/ IntervalEnds
    \/ BrokerDown \/ BrokerUp \/ BrokerBlocks \/ Drop

Spec == Init /\ [][Next]_vars

\* Goroutines are scheduled, a sync.Mutex passes over no waiter for ever, a
\* dial ends, the timers run.  A blocked RabbitMQ need not read again.
FairSpec ==
    /\ Spec
    /\ \A c \in Caller : WF_vars(Proceed(c)) /\ SF_vars(Locked(c)) /\ WF_vars(CallTimeout(c))
    /\ WF_vars(OpenTimeout)
-----------------------------------------------------------------------------
\* Liveness: every POST is answered, whatever happens to the connection, unless
\* RabbitMQ does not read what it is sent.
PostAnswered ==
    <>[](broker # "blocked") => \A c \in Caller : pc[c] # "idle" ~> pc[c] = "idle"

\* A step in which no connection dies and no dial to a running RabbitMQ fails.
NetworkHolds == ~Drop /\ \A c \in Caller : broker = "up" => ~DialFails(c)

\* Liveness: after RabbitMQ went away or connections died, requests that keep
\* coming close the breaker again, because some attempt redials.
PublisherRecovers ==
    /\ <>[](broker = "up")
    /\ <>[][NetworkHolds]_vars
    /\ []<>(\E c \in Caller : pc[c] = "call")
    => []<>(state = "closed")
=============================================================================
