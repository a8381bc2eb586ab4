----------------------------- MODULE IngestLoad -----------------------------
(***************************************************************************)
(* docs/performance/tools/ingest-load: main publishes every item, waits, polls *)
(* what is pending round by round until nothing is or the deadline passed, and *)
(* reports.  Each request runs in a goroutine of its own, counted by a         *)
(* WaitGroup and held back by a semaphore.                                    *)
(*                                                                         *)
(* Of the system under load only the fate of each job matters (see CreateJobs): *)
(* it may settle, late or never, a second copy of its message may give it the *)
(* other outcome, and a POST that failed may have made one.                   *)
(***************************************************************************)
EXTENDS Integers, FiniteSets

CONSTANTS N,            \* -n, the number of items
          PostSlots,    \* -c
          PollSlots     \* -drain-concurrency

Item == 1..N

ASSUME FlagAssumption == N \in Nat /\ PostSlots \in Nat \ {0} /\ PollSlots \in Nat \ {0}

VARIABLES
    doDrain,  \* -drain
    main,     \* where main is
    left,     \* the items the loop of main still has to start a goroutine for
    worker,   \* the goroutine of each item: its request, its deferred calls
    items,    \* what was recorded of each item
    late,     \* has the drain's deadline passed?
    job,      \* the job an item's POST made, as the API knows it
    had,      \* the outcomes the job has had (a history variable)
    report    \* the numbers that are printed

vars == <<doDrain, main, left, worker, items, late, job, had, report>>

Outcome == {"completed", "failed"}

Nothing == [result |-> "nil", status |-> ""]
NoReport == [accepted |-> 0, errors |-> 0, completed |-> 0, failed |-> 0, timeouts |-> 0]

Init ==
    /\ doDrain \in BOOLEAN
    /\ main = "publish"
    /\ left = Item
    /\ worker = [i \in Item |-> "none"]
    /\ items = [i \in Item |-> Nothing]
    /\ late = FALSE
    /\ job = [i \in Item |-> "none"]
    /\ had = [i \in Item |-> {}]
    /\ report = NoReport
-----------------------------------------------------------------------------
(* The goroutines.                                                          *)

Goto(i, step) == worker' = [worker EXCEPT ![i] = step]

\* A slot is given back by the first deferred call, the WaitGroup's by the last.
Taken == {i \in Item : worker[i] \in {"post", "get", "written"}}

PostAccepted(i) ==
    /\ worker[i] = "post"
    /\ items' = [items EXCEPT ![i].result = "accepted"]
    /\ job' = [job EXCEPT ![i] = "open"]
    /\ Goto(i, "written")
    /\ UNCHANGED <<doDrain, main, left, late, had, report>>

\* An error, the client's timeout, another status than 202, a body that is not
\* understood: in some of these the job was made.
PostFails(i) ==
    /\ worker[i] = "post"
    /\ items' = [items EXCEPT ![i].result = "error"]
    /\ \E made \in {"none", "open"} : job' = [job EXCEPT ![i] = made]
    /\ Goto(i, "written")
    /\ UNCHANGED <<doDrain, main, left, late, had, report>>

PollSettled(i) ==
    /\ worker[i] = "get"
    /\ job[i] \in Outcome
    /\ items' = [items EXCEPT ![i].status = job[i]]
    /\ Goto(i, "written")
    /\ UNCHANGED <<doDrain, main, left, late, job, had, report>>

\* Mutant of PollUnsettled: whatever is neither 200 nor 202 is a failed job.
OthersFailed(i) ==
    /\ worker[i] = "get"
    /\ items' = [items EXCEPT ![i].status = "failed"]
    /\ Goto(i, "written")
    /\ UNCHANGED <<doDrain, main, left, late, job, had, report>>

\* 202, an error, or any other status: also of a job that is settled.
PollUnsettled(i) ==
    /\ worker[i] = "get"
    /\ Goto(i, "written")
    /\ UNCHANGED <<doDrain, main, left, items, late, job, had, report>>

Release(i) ==
    /\ worker[i] = "written"
    /\ Goto(i, "released")
    /\ UNCHANGED <<doDrain, main, left, items, late, job, had, report>>

Done(i) ==
    /\ worker[i] = "released"
    /\ Goto(i, "none")
    /\ UNCHANGED <<doDrain, main, left, items, late, job, had, report>>

Goroutine(i) ==
    PostAccepted(i) \/ PostFails(i) \/ PollSettled(i) \/ PollUnsettled(i) \/ Release(i) \/ Done(i)
-----------------------------------------------------------------------------
(* main.                                                                    *)

\* The next turn of a loop that starts goroutines: it waits for a slot.
Start(loop, slots, request) ==
    /\ main = loop
    /\ Cardinality(Taken) < slots
    /\ \E i \in left :
         /\ \A other \in left : i <= other
         /\ Goto(i, request)
         /\ left' = left \ {i}
    /\ UNCHANGED <<doDrain, main, items, late, job, had, report>>

StartPost == Start("publish", PostSlots, "post")
StartPoll == Start("poll", PollSlots, "get")

\* Mutant of Wait: wg.Done without wg.Add.
NoWait == left = {}
\* wg.Wait() after the loop.
Wait == left = {} /\ \A i \in Item : worker[i] = "none"

Published ==
    /\ main = "publish" /\ Wait
    /\ main' = IF doDrain THEN "drain" ELSE "report"
    /\ UNCHANGED <<doDrain, left, worker, items, late, job, had, report>>

Pending == {i \in Item : items[i] = [result |-> "accepted", status |-> ""]}

\* Mutant of Drain: nobody looks at the deadline.
DrainForever ==
    /\ main = "drain"
    /\ left' = Pending
    /\ main' = IF Pending = {} THEN "report" ELSE "poll"
    /\ UNCHANGED <<doDrain, worker, items, late, job, had, report>>

\* The head of the drain's loop; the deadline is looked at between rounds only.
Drain ==
    /\ main = "drain"
    /\ left' = IF late THEN {} ELSE Pending
    /\ main' = IF left' = {} THEN "report" ELSE "poll"
    /\ items' = [i \in Item |-> IF late /\ i \in Pending
                                  THEN [items[i] EXCEPT !.status = "timeout"] ELSE items[i]]
    /\ UNCHANGED <<doDrain, worker, late, job, had, report>>

RoundEnds ==
    /\ main = "poll" /\ Wait
    /\ main' = "drain"
    /\ UNCHANGED <<doDrain, left, worker, items, late, job, had, report>>

Having(status) == Cardinality({i \in Item : items[i] = [result |-> "accepted", status |-> status]})
Report ==
    /\ main = "report"
    /\ main' = "end"
    /\ report' = [accepted |-> Cardinality({i \in Item : items[i].result = "accepted"}),
                  errors |-> Cardinality({i \in Item : items[i].result # "accepted"}),
                  completed |-> Having("completed"), failed |-> Having("failed"),
                  timeouts |-> Having("timeout")]
    /\ UNCHANGED <<doDrain, left, worker, items, late, job, had>>

Main == StartPost \/ StartPoll \/ Published \/ Drain \/ RoundEnds \/ Report
-----------------------------------------------------------------------------
DeadlinePasses ==
    /\ main \in {"drain", "poll"} /\ ~late
    /\ late' = TRUE
    /\ UNCHANGED <<doDrain, main, left, worker, items, job, had, report>>

\* A worker writes the job's record, whatever is in it: a message that was sent
\* again has two copies, and they may end differently.
JobSettles(i) ==
    /\ job[i] # "none"
    /\ \E outcome \in Outcome :
         /\ job' = [job EXCEPT ![i] = outcome]
         /\ had' = [had EXCEPT ![i] = @ \cup {outcome}]
    /\ UNCHANGED <<doDrain, main, left, worker, items, late, report>>

Terminated == main = "end" /\ UNCHANGED vars

Next ==
    \/ Main \/ DeadlinePasses \/ Terminated
    \/ \E i \in Item : Goroutine(i) \/ JobSettles(i)

Spec == Init /\ [][Next]_vars

\* main and its goroutines run, requests end at the latest after the client's 10
\* seconds, the deadline passes; whether a job settles is not up to the tool.
FairSpec ==
    Spec /\ WF_vars(Main) /\ WF_vars(DeadlinePasses) /\ \A i \in Item : WF_vars(Goroutine(i))
-----------------------------------------------------------------------------
TypeOK ==
    /\ doDrain \in BOOLEAN /\ late \in BOOLEAN /\ left \subseteq Item
    /\ main \in {"publish", "drain", "poll", "report", "end"}
    /\ worker \in [Item -> {"none", "post", "get", "written", "released"}]
    /\ items \in [Item -> [result : {"nil", "error", "accepted"},
                           status : {"", "completed", "failed", "timeout"}]]
    /\ job \in [Item -> {"none", "open"} \cup Outcome] /\ had \in [Item -> SUBSET Outcome]
    /\ report \in [accepted : 0..N, errors : 0..N, completed : 0..N, failed : 0..N, timeouts : 0..N]
    \* publishing and polling do not mix, and main reads nothing that a goroutine
    \* may still write
    /\ \A i \in Item : worker[i] = "post" => main = "publish"
    /\ main \in {"drain", "report", "end"} => \A i \in Item : worker[i] = "none"

\* What is printed adds up and is true: every item is accepted or an error, and
\* after a drain every accepted one is completed, failed or timed out; Completed
\* and Failed count only jobs that had that outcome when they were asked for
\* (a second copy of the message may have given them the other one since); and a
\* job that never had but one outcome, and is not counted by it, is among the
\* timeouts or the publish errors: a POST that failed may have made a movie, and
\* a job may settle after the last look at it.
WithOutcome(outcome) == {i \in Item : outcome \in had[i]}
WithOnly(outcome) == {i \in Item : had[i] = {outcome}}
ReportIsTrue ==
    main = "end" =>
        /\ report.accepted + report.errors = N
        /\ doDrain =>
             /\ report.completed + report.failed + report.timeouts = report.accepted
             /\ \A outcome \in Outcome :
                  /\ report[outcome] <= Cardinality(WithOutcome(outcome))
                  /\ Cardinality(WithOnly(outcome))
                       <= report[outcome] + report.timeouts + report.errors

\* The tool ends, whatever becomes of the jobs and however slow the gateway is.
Terminates == <>(main = "end")

\* The inductive invariant, part by part.

\* An item has no result until its POST has one, and a loop starts one goroutine
\* for an item at a time.
Sent ==
    /\ \A i \in left : worker[i] = "none"
    /\ \A i \in Item : items[i].result = "nil" <=> worker[i] = "post" \/ (main = "publish" /\ i \in left)

\* Only what is pending is asked for.
Asked ==
    \A i \in Item :
        worker[i] = "get" \/ (main = "poll" /\ i \in left)
            => items[i].result = "accepted" /\ items[i].status = ""

\* What was recorded of a job was once so.
StatusIsTrue(i) ==
    /\ items[i].result = "nil" => job[i] = "none"
    /\ items[i].status # "" => items[i].result = "accepted"
    /\ items[i].status \in Outcome => items[i].status \in had[i]
    /\ job[i] \in Outcome => job[i] \in had[i]
StatusTrue == \A i \in Item : StatusIsTrue(i)

\* A drain leaves nothing pending, and the report is about what it left.
Drained ==
    main \in {"report", "end"} /\ doDrain =>
        \A i \in Item : items[i].result = "accepted" => items[i].status # ""
Accepted == {i \in Item : items[i].result = "accepted"}
Errors == {i \in Item : items[i].result # "accepted"}
Reported ==
    main = "end" =>
        report = [accepted |-> Cardinality(Accepted), errors |-> Cardinality(Errors),
                  completed |-> Having("completed"), failed |-> Having("failed"),
                  timeouts |-> Having("timeout")]

LoadInv == TypeOK /\ Sent /\ Asked /\ StatusTrue /\ Drained /\ Reported
=============================================================================
