-------------------------- MODULE IngestLoad_proofs -------------------------
(* Proofs about IngestLoad: its numbers add up and are true of the system,   *)
(* for any number of items and any concurrency.                              *)
EXTENDS IngestLoad, FiniteSetTheorems, TLAPS
-----------------------------------------------------------------------------
(* Counting items.                                                          *)

\* The movies to send can be counted.
LEMMA ItemsAreFinite == IsFiniteSet(Item) /\ Cardinality(Item) = N
BY FlagAssumption, FS_Interval DEF Item

\* A part of the items is counted, and has no more than the whole.
LEMMA Fewer ==
    ASSUME NEW T \in SUBSET Item, NEW S \in SUBSET T
    PROVE  /\ Cardinality(S) \in Nat /\ Cardinality(T) \in Nat
           /\ Cardinality(S) <= Cardinality(T) /\ Cardinality(T) <= N
<1>1. IsFiniteSet(T) /\ IsFiniteSet(S)
  BY ItemsAreFinite, FS_Subset
<1> QED BY <1>1, ItemsAreFinite, FS_Subset, FS_CardinalityType

\* Two parts of the items with nothing in common add up.
LEMMA Parts ==
    ASSUME NEW S \in SUBSET Item, NEW T \in SUBSET Item, S \cap T = {}
    PROVE  Cardinality(S \cup T) = Cardinality(S) + Cardinality(T)
<1>1. IsFiniteSet(T) /\ IsFiniteSet(S)
  BY ItemsAreFinite, FS_Subset
<1>2. Cardinality(S \cap T) = 0
  BY FS_EmptySet
<1>3. Cardinality(S \cup T) = Cardinality(S) + Cardinality(T) - Cardinality(S \cap T)
  BY <1>1, FS_Union
<1>4. Cardinality(S) \in Nat /\ Cardinality(T) \in Nat
  BY <1>1, FS_CardinalityType
<1> QED BY <1>2, <1>3, <1>4

\* What is counted is a set of items.
LEMMA HavingIs ==
    ASSUME TypeOK, NEW status
    PROVE  Having(status)
             = Cardinality({i \in Item : items[i].result = "accepted" /\ items[i].status = status})
<1>1. \A i \in Item : items[i] = [result |-> items[i].result, status |-> items[i].status]
  BY DEF TypeOK
<1>2. {i \in Item : items[i].result = "accepted" /\ items[i].status = status}
        = {i \in Item : items[i] = [result |-> "accepted", status |-> status]}
  BY <1>1
<1> QED BY <1>2 DEF Having

\* The invariant makes the report true.
LEMMA InvIsTrue == LoadInv => ReportIsTrue
<1> SUFFICES ASSUME LoadInv, main = "end" PROVE
        /\ report.accepted + report.errors = N
        /\ doDrain =>
             /\ report.completed + report.failed + report.timeouts = report.accepted
             /\ \A outcome \in Outcome :
                  /\ report[outcome] <= Cardinality(WithOutcome(outcome))
                  /\ Cardinality(WithOnly(outcome))
                       <= report[outcome] + report.timeouts + report.errors
  BY DEF ReportIsTrue
<1> DEFINE Of(status) == {i \in Item : items[i].result = "accepted" /\ items[i].status = status}
<1> USE DEF LoadInv
<1>1. /\ report.accepted = Cardinality(Accepted) /\ report.errors = Cardinality(Errors)
      /\ \A outcome \in Outcome : report[outcome] = Cardinality(Of(outcome))
      /\ report.timeouts = Cardinality(Of("timeout"))
  <2>1. /\ report.accepted = Cardinality(Accepted) /\ report.errors = Cardinality(Errors)
        /\ report["completed"] = Having("completed") /\ report["failed"] = Having("failed")
        /\ report.timeouts = Having("timeout")
    BY DEF Reported
  <2>2. ASSUME NEW status PROVE Having(status) = Cardinality(Of(status))
    BY HavingIs
  <2> HIDE DEF Of
  <2> QED BY <2>1, <2>2 DEF Outcome
<1>2. report.accepted + report.errors = N
  <2>1. Accepted \cap Errors = {} /\ Accepted \cup Errors = Item
    BY DEF Accepted, Errors
  <2>2. Accepted \in SUBSET Item /\ Errors \in SUBSET Item
    BY DEF Accepted, Errors
  <2> QED BY <1>1, <2>1, <2>2, Parts, ItemsAreFinite
<1>3. /\ Accepted \in SUBSET Item /\ Errors \in SUBSET Item
      /\ \A status : Of(status) \in SUBSET Item
  BY DEF Accepted, Errors
<1>4. ASSUME doDrain
      PROVE  report.completed + report.failed + report.timeouts = report.accepted
  <2>1. /\ (Of("completed") \cup Of("failed")) \cup Of("timeout") = Accepted
        /\ Of("completed") \cap Of("failed") = {}
        /\ (Of("completed") \cup Of("failed")) \cap Of("timeout") = {}
    BY <1>4 DEF TypeOK, Drained, Accepted
  <2> HIDE DEF Of
  <2>2. Cardinality(Of("completed") \cup Of("failed"))
          = Cardinality(Of("completed")) + Cardinality(Of("failed"))
    BY <1>3, <2>1, Parts
  <2>3. Of("completed") \cup Of("failed") \in SUBSET Item
    BY <1>3
  <2>4. Cardinality(Accepted)
          = Cardinality(Of("completed") \cup Of("failed")) + Cardinality(Of("timeout"))
    BY <1>3, <2>1, <2>3, Parts
  <2>5. \A status : Cardinality(Of(status)) \in Nat
    BY <1>3, Fewer
  <2> QED BY <1>1, <2>2, <2>4, <2>5 DEF Outcome
<1>5. ASSUME doDrain, NEW outcome \in Outcome
      PROVE  /\ report[outcome] <= Cardinality(WithOutcome(outcome))
             /\ Cardinality(WithOnly(outcome))
                  <= report[outcome] + report.timeouts + report.errors
  <2> DEFINE seen == Of(outcome) \cup Of("timeout")
  <2>1. WithOutcome(outcome) \in SUBSET Item /\ Of(outcome) \in SUBSET WithOutcome(outcome)
    BY DEF StatusTrue, StatusIsTrue, WithOutcome, Outcome
  <2>2. WithOnly(outcome) \in SUBSET (seen \cup Errors)
    <3> SUFFICES ASSUME NEW i \in Item, had[i] = {outcome}, items[i].result = "accepted"
                 PROVE  items[i].status \in {outcome, "timeout"}
      BY DEF WithOnly, Errors
    <3>1. items[i].status # "" /\ items[i].status \in {"", "completed", "failed", "timeout"}
      BY <1>5 DEF Drained, TypeOK
    <3>2. items[i].status \in Outcome => items[i].status \in had[i]
      BY DEF StatusTrue, StatusIsTrue
    <3> QED BY <3>1, <3>2 DEF Outcome
  <2>3. seen \cap Errors = {} /\ Of(outcome) \cap Of("timeout") = {}
    BY DEF Errors, Outcome
  <2> HIDE DEF Of
  <2>4. seen \in SUBSET Item /\ seen \cup Errors \in SUBSET Item
    BY <1>3
  <2>5. Cardinality(seen) = Cardinality(Of(outcome)) + Cardinality(Of("timeout"))
    BY <1>3, <2>3, Parts
  <2> HIDE DEF seen
  <2>6. Cardinality(seen \cup Errors) = Cardinality(seen) + Cardinality(Errors)
    BY <1>3, <2>3, <2>4, Parts
  <2>7. Cardinality(Of(outcome)) <= Cardinality(WithOutcome(outcome))
    BY <2>1, Fewer
  <2>8. Cardinality(WithOnly(outcome)) <= Cardinality(seen \cup Errors)
    BY <2>2, <2>4, Fewer
  <2> QED BY <1>1, <2>5, <2>6, <2>7, <2>8
<1> QED BY <1>2, <1>4, <1>5
-----------------------------------------------------------------------------
(* The steps.                                                               *)

\* A step leaves an item and its job alone.
Unmoved(k) == items'[k] = items[k] /\ job'[k] = job[k] /\ had'[k] = had[k]

\* What is recorded stays true when it is true of the one item a step changes.
LEMMA StatusOfOthers ==
    ASSUME StatusTrue, NEW i \in Item, StatusIsTrue(i)',
           \A k \in Item : k # i => Unmoved(k)
    PROVE  StatusTrue'
<1> SUFFICES ASSUME NEW k \in Item PROVE StatusIsTrue(k)'
  BY DEF StatusTrue, StatusIsTrue
<1>1. CASE k # i
  <2>1. Unmoved(k)
    BY <1>1
  <2>2. StatusIsTrue(k)
    BY DEF StatusTrue, StatusIsTrue
  <2> QED BY <2>1, <2>2 DEF StatusIsTrue, Unmoved
<1> QED BY <1>1

\* Every step of a goroutine keeps the invariant.
LEMMA GoroutineKeeps ==
    ASSUME LoadInv, NEW i \in Item, Goroutine(i)
    PROVE  LoadInv'
<1> USE DEF LoadInv, Goto
<1>1. CASE PostAccepted(i)
  <2> USE <1>1 DEF PostAccepted
  <2>1. TypeOK'
    BY DEF TypeOK
  <2>2. Sent' /\ Asked'
    BY DEF Sent, Asked, TypeOK
  <2>3. items[i].status = "" /\ main \notin {"report", "end"}
    BY DEF Sent, StatusTrue, StatusIsTrue, TypeOK
  <2>4. StatusIsTrue(i)' /\ \A k \in Item : k # i => Unmoved(k)
    BY <2>3 DEF StatusIsTrue, TypeOK, Unmoved, Outcome
  <2>5. StatusTrue'
    BY <2>4, StatusOfOthers
  <2>6. Drained' /\ Reported'
    BY <2>3 DEF Drained, Reported
  <2> QED BY <2>1, <2>2, <2>5, <2>6
<1>2. CASE PostFails(i)
  <2>1. PICK made \in {"none", "open"} : job' = [job EXCEPT ![i] = made]
    BY <1>2 DEF PostFails
  <2> USE <1>2 DEF PostFails
  <2>2. TypeOK'
    BY DEF TypeOK
  <2>3. Sent' /\ Asked'
    BY DEF Sent, Asked, TypeOK
  <2>4. items[i].status = "" /\ main # "end" /\ main # "report"
    BY DEF Sent, StatusTrue, StatusIsTrue, TypeOK
  <2>5. StatusTrue'
    <3>1. StatusIsTrue(i)' /\ \A k \in Item : k # i => Unmoved(k)
      BY <2>1, <2>4 DEF StatusIsTrue, TypeOK, Unmoved, Outcome
    <3> QED BY <3>1, StatusOfOthers
  <2>6. Drained' /\ Reported'
    BY <2>4 DEF Drained, Reported
  <2> QED BY <2>2, <2>3, <2>5, <2>6
<1>3. CASE PollSettled(i)
  <2> USE <1>3 DEF PollSettled
  <2>1. TypeOK'
    BY DEF TypeOK, Outcome
  <2>2. Sent' /\ Asked'
    BY DEF Sent, Asked, TypeOK
  <2>3. /\ items[i].result = "accepted" /\ main \notin {"report", "end"}
        /\ job[i] \in had[i]
    BY DEF Asked, Sent, TypeOK, StatusTrue, StatusIsTrue
  <2>4. StatusIsTrue(i)' /\ \A k \in Item : k # i => Unmoved(k)
    BY <2>3 DEF StatusIsTrue, TypeOK, Unmoved, Outcome
  <2>5. StatusTrue'
    BY <2>4, StatusOfOthers
  <2>6. Drained' /\ Reported'
    BY <2>3 DEF Drained, Reported
  <2> QED BY <2>1, <2>2, <2>5, <2>6
<1>4. CASE PollUnsettled(i) \/ Release(i) \/ Done(i)
  <2>1. PICK step \in {"written", "released", "none"} : worker' = [worker EXCEPT ![i] = step]
    BY <1>4 DEF PollUnsettled, Release, Done
  <2>2. /\ worker[i] \in {"get", "written", "released"}
        /\ UNCHANGED <<doDrain, main, left, items, late, job, had, report>>
    BY <1>4 DEF PollUnsettled, Release, Done
  <2>3. TypeOK'
    BY <2>1, <2>2 DEF TypeOK
  <2>4. worker'[i] = step /\ \A other \in Item \ {i} : worker'[other] = worker[other]
    BY <2>1 DEF TypeOK
  <2>5. i \notin left /\ left \subseteq Item
    BY <2>2 DEF Sent, TypeOK
  <2>6. Sent'
    BY <2>2, <2>4, <2>5 DEF Sent
  <2>7. Asked'
    BY <2>2, <2>4, <2>5 DEF Asked
  <2>8. main' \notin {"report", "end"}
    BY <2>2 DEF TypeOK
  <2>9. StatusTrue' /\ Drained' /\ Reported'
    BY <2>2, <2>8 DEF StatusTrue, StatusIsTrue, Drained, Reported
  <2> QED BY <2>3, <2>6, <2>7, <2>9
<1> QED BY <1>1, <1>2, <1>3, <1>4 DEF Goroutine

\* Every step of main keeps the invariant.
LEMMA MainKeeps ==
    ASSUME LoadInv, Main
    PROVE  LoadInv'
<1> USE DEF LoadInv
<1>1. ASSUME NEW loop \in {"publish", "poll"}, NEW slots, NEW request, Start(loop, slots, request),
             request = IF loop = "publish" THEN "post" ELSE "get"
      PROVE  LoadInv'
  <2>1. PICK i \in left : worker' = [worker EXCEPT ![i] = request] /\ left' = left \ {i}
    BY <1>1 DEF Start, Goto
  <2>2. main = loop /\ UNCHANGED <<doDrain, main, items, late, job, had, report>> /\ i \in Item
    BY <1>1 DEF Start, TypeOK
  <2>3. /\ worker'[i] = request
        /\ \A other \in Item \ {i} : worker'[other] = worker[other]
        /\ \A other \in left' : other \in left /\ other \in Item /\ other # i
    BY <2>1, <2>2 DEF TypeOK
  <2>4. TypeOK'
    BY <1>1, <2>1, <2>2 DEF TypeOK
  <2>5. Sent'
    BY <1>1, <2>1, <2>2, <2>3 DEF Sent
  <2>6. Asked'
    <3>1. CASE loop = "publish"
      BY <1>1, <2>2, <2>3, <3>1 DEF Asked
    <3>2. CASE loop = "poll"
      BY <1>1, <2>2, <2>3, <3>2 DEF Asked
    <3> QED BY <3>1, <3>2
  <2>7. StatusTrue' /\ Drained' /\ Reported'
    BY <2>2 DEF StatusTrue, StatusIsTrue, Drained, Reported
  <2> QED BY <2>4, <2>5, <2>6, <2>7
<1>2. CASE Published \/ RoundEnds
  <2>1. /\ left = {} /\ UNCHANGED <<doDrain, left, worker, items, late, job, had, report>>
        /\ \A i \in Item : worker[i] = "none"
        /\ main' = "drain" \/ (main' = "report" /\ ~doDrain)
    BY <1>2 DEF Published, RoundEnds, Wait
  <2>2. TypeOK'
    BY <2>1 DEF TypeOK
  <2>3. Sent' /\ Asked'
    BY <2>1 DEF Sent, Asked
  <2>4. StatusTrue' /\ Drained' /\ Reported'
    BY <2>1 DEF StatusTrue, StatusIsTrue, Drained, Reported
  <2> QED BY <2>2, <2>3, <2>4
<1>3. CASE Drain
  <2>1. /\ items' = [i \in Item |-> IF late /\ i \in Pending
                                     THEN [items[i] EXCEPT !.status = "timeout"] ELSE items[i]]
        /\ left' = IF late THEN {} ELSE Pending
        /\ main' = IF left' = {} THEN "report" ELSE "poll"
        /\ UNCHANGED <<doDrain, worker, late, job, had, report>>
        /\ main = "drain"
    BY <1>3 DEF Drain
  <2>2. \A i \in Item : i \in Pending <=> items[i].result = "accepted" /\ items[i].status = ""
    <3> SUFFICES ASSUME NEW i \in Item
                 PROVE  items[i] = [result |-> "accepted", status |-> ""]
                          <=> items[i].result = "accepted" /\ items[i].status = ""
      BY DEF Pending
    <3>1. items[i] = [result |-> items[i].result, status |-> items[i].status]
      BY DEF TypeOK
    <3>2. ASSUME items[i].result = "accepted", items[i].status = ""
          PROVE  items[i] = [result |-> "accepted", status |-> ""]
      BY <3>1, <3>2
    <3>3. ASSUME items[i] = [result |-> "accepted", status |-> ""]
          PROVE  items[i].result = "accepted" /\ items[i].status = ""
      <4> DEFINE r == [result |-> "accepted", status |-> ""]
      <4>1. r.result = "accepted" /\ r.status = ""
        OBVIOUS
      <4> HIDE DEF r
      <4>2. items[i] = r
        BY <3>3 DEF r
      <4> QED BY <4>1, <4>2
    <3> QED BY <3>2, <3>3
  <2>3. \A i \in Item : worker[i] = "none"
    BY <2>1 DEF TypeOK
  <2>4. \A i \in Item :
          /\ items'[i].result = items[i].result
          /\ items'[i].status = IF late /\ i \in Pending THEN "timeout" ELSE items[i].status
    BY <2>1 DEF TypeOK
  <2>5. Pending \subseteq Item
    BY DEF Pending
  <2>6. TypeOK'
    <3>1. items' \in [Item -> [result : {"nil", "error", "accepted"},
                              status : {"", "completed", "failed", "timeout"}]]
      BY <2>1 DEF TypeOK
    <3> QED BY <2>1, <2>3, <2>5, <3>1 DEF TypeOK
  <2>7. Sent' /\ Asked'
    BY <2>1, <2>2, <2>3, <2>4, <2>5 DEF Sent, Asked
  <2>8. StatusTrue'
    <3> SUFFICES ASSUME NEW i \in Item
                 PROVE  /\ items'[i].result = "nil" => job'[i] = "none"
                        /\ items'[i].status # "" => items'[i].result = "accepted"
                        /\ items'[i].status \in Outcome => items'[i].status \in had'[i]
                        /\ job'[i] \in Outcome => job'[i] \in had'[i]
      BY DEF StatusTrue, StatusIsTrue
    <3>1. CASE late /\ i \in Pending
      <4>1. items'[i].status = "timeout" /\ items'[i].result = "accepted"
        BY <2>2, <2>4, <3>1
      <4>2. job'[i] = job[i] /\ had'[i] = had[i] /\ "timeout" \notin Outcome
        BY <2>1 DEF Outcome
      <4> QED BY <2>2, <3>1, <4>1, <4>2 DEF StatusTrue, StatusIsTrue
    <3>2. CASE ~(late /\ i \in Pending)
      BY <2>1, <2>4, <3>2 DEF StatusTrue, StatusIsTrue
    <3> QED BY <3>1, <3>2
  <2>9. Drained' /\ Reported'
    <3>1. main' # "end" /\ (main' = "report" => late \/ Pending = {})
      BY <2>1
    <3> QED BY <2>2, <2>4, <3>1 DEF Drained, Reported
  <2> QED BY <2>6, <2>7, <2>8, <2>9
<1>4. CASE Report
  <2> USE <1>4 DEF Report
  <2>1. TypeOK'
    <3>1. \A S \in SUBSET Item : Cardinality(S) \in 0..N
      BY Fewer, FlagAssumption
    <3>2. /\ Cardinality({i \in Item : items[i].result = "accepted"}) \in 0..N
          /\ Cardinality({i \in Item : items[i].result # "accepted"}) \in 0..N
          /\ \A status : Having(status) \in 0..N
      BY <3>1 DEF Having
    <3>3. report' \in [accepted : 0..N, errors : 0..N, completed : 0..N, failed : 0..N, timeouts : 0..N]
      BY <3>2
    <3> QED BY <3>3 DEF TypeOK
  <2>2. Sent' /\ Asked'
    BY DEF Sent, Asked
  <2>3. StatusTrue' /\ Drained'
    BY DEF StatusTrue, StatusIsTrue, Drained
  <2>4. Reported'
    BY DEF Reported, Having, Accepted, Errors
  <2> QED BY <2>1, <2>2, <2>3, <2>4
<1> QED BY <1>1, <1>2, <1>3, <1>4 DEF Main, StartPost, StartPoll

\* Every step of main, of a goroutine and of the service keeps the invariant.
THEOREM InvStep == LoadInv /\ [Next]_vars => LoadInv'
<1> SUFFICES ASSUME LoadInv, [Next]_vars PROVE LoadInv'
  OBVIOUS
<1>1. ASSUME NEW i \in Item, JobSettles(i) PROVE LoadInv'
  <2> USE <1>1 DEF JobSettles, LoadInv
  <2>0. PICK outcome \in Outcome :
          /\ job' = [job EXCEPT ![i] = outcome]
          /\ had' = [had EXCEPT ![i] = @ \cup {outcome}]
    OBVIOUS
  <2>1. TypeOK'
    BY <2>0 DEF TypeOK
  <2>2. Sent' /\ Asked' /\ Drained'
    BY DEF Sent, Asked, Drained
  <2>3. StatusTrue'
    <3>1. StatusIsTrue(i) /\ items[i].result # "nil"
      BY DEF StatusTrue, StatusIsTrue
    <3>2. job'[i] = outcome /\ had'[i] = had[i] \cup {outcome}
      BY <2>0 DEF TypeOK
    <3>3. StatusIsTrue(i)'
      BY <3>1, <3>2 DEF StatusIsTrue
    <3>4. \A k \in Item : k # i => Unmoved(k)
      BY <2>0 DEF Unmoved, TypeOK
    <3> QED BY <3>3, <3>4, StatusOfOthers
  <2>4. Reported'
    BY DEF Reported, Having, Accepted, Errors
  <2> QED BY <2>1, <2>2, <2>3, <2>4
<1>2. CASE DeadlinePasses \/ UNCHANGED vars
  <2>1. UNCHANGED <<doDrain, main, left, worker, items, job, had, report>> /\ late' \in BOOLEAN
    BY <1>2 DEF DeadlinePasses, vars, LoadInv, TypeOK
  <2>2. TypeOK'
    BY <2>1 DEF LoadInv, TypeOK
  <2>3. Sent' /\ Asked' /\ Drained' /\ StatusTrue'
    BY <2>1 DEF LoadInv, Sent, Asked, Drained, StatusTrue, StatusIsTrue
  <2>4. Reported'
    BY <2>1 DEF LoadInv, Reported, Having, Accepted, Errors
  <2> QED BY <2>2, <2>3, <2>4 DEF LoadInv
<1> QED BY <1>1, <1>2, MainKeeps, GoroutineKeeps DEF Next, Terminated

\* The inductive invariant holds however goroutines, jobs and timeouts interleave.
THEOREM Invariance == Spec => []LoadInv
<1>1. Init => LoadInv
  <2> SUFFICES ASSUME Init PROVE LoadInv
    OBVIOUS
  <2>1. TypeOK
    <3>1. items \in [Item -> [result : {"nil", "error", "accepted"},
                             status : {"", "completed", "failed", "timeout"}]]
      BY DEF Init, Nothing
    <3>2. report \in [accepted : 0..N, errors : 0..N, completed : 0..N, failed : 0..N, timeouts : 0..N]
      BY FlagAssumption DEF Init, NoReport
    <3> QED BY <3>1, <3>2 DEF Init, TypeOK
  <2>2. Sent /\ Asked /\ StatusTrue /\ Drained /\ Reported
    BY DEF Init, Outcome, Nothing, Sent, Asked, StatusTrue, StatusIsTrue, Drained, Reported
  <2> QED BY <2>1, <2>2 DEF LoadInv
<1> QED BY <1>1, InvStep, PTL DEF Spec
-----------------------------------------------------------------------------
(* The theorems.                                                            *)

\* The variables keep their types, and main reads nothing a goroutine may write.
THEOREM TypeCorrect == Spec => []TypeOK
BY Invariance, PTL DEF LoadInv

\* The report adds up and is true of the jobs that were made.
THEOREM ReportTrue == Spec => []ReportIsTrue
BY Invariance, InvIsTrue, PTL
=============================================================================
