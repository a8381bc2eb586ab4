------------------------ MODULE PublisherConnection -------------------------
(***************************************************************************)
(* The state of the gateway's publisher, which all handlers share: the      *)
(* connection to RabbitMQ, the mutex around it and where each handler is in *)
(* Publish; and what must be true of it.  MoviePublisher has the steps.     *)
(***************************************************************************)
EXTENDS Dependency

CONSTANT None  \* no caller

ASSUME NoneAssumption == None \notin Caller

VARIABLES
    broker,   \* RabbitMQ is up, down or blocked
    conn,     \* p.conn and p.channel: open, channelClosed or closed
    mu,       \* the caller that holds p.mu while it dials, or None
    step,     \* step[c]: where c is in Publish
    channel,  \* channel[c]: the channel c took is "open", "closed" or "none"
    sockets   \* history: connections the gateway has open

PublisherTypeOK ==
    /\ B!TypeOK
    /\ broker \in {"up", "down", "blocked"}
    /\ conn \in {"open", "channelClosed", "closed"}
    /\ mu \in Caller \cup {None}
    /\ step \in [Caller -> {"none", "ensure", "dial", "take", "send"}]
    /\ channel \in [Caller -> {"none", "open", "closed"}]
    /\ expired \in [Caller -> BOOLEAN]
    /\ sockets \in 0..1

\* Safety: however many handlers find the connection dead at once, the gateway
\* has at most one open, and it is the one publishers are given.
OneConnection ==
    /\ sockets <= 1
    /\ sockets = 1 <=> conn # "closed"

\* The inductive invariant: who is in Publish is in an attempt, the one who dials
\* holds the mutex, and nothing is connected while it does.
Publishing == \A c \in Caller : step[c] # "none" <=> pc[c] = "attempt"

DialsAlone ==
    /\ \A c \in Caller : step[c] = "dial" <=> mu = c
    /\ mu # None => conn = "closed"

PublisherInv ==
    /\ PublisherTypeOK
    /\ B!BreakerInv
    /\ Publishing
    /\ DialsAlone
    /\ OneConnection
=============================================================================
