------------------------ MODULE RequestAnalyzerProofs ------------------------
(***************************************************************************)
(* The counters of request_analyzer.rb add up, for every number of threads, *)
(* every limit and every pace of the clock.                                *)
(***************************************************************************)
EXTENDS RequestAnalyzer, FiniteSetTheorems, TLAPS

(* What a thread knows of its request follows from where it is. *)
DocFits ==
  \A t \in Threads :
    /\ stage[t] \in {"unborn", "created", "request"} => doc[t] = "none"
    /\ stage[t] = "bad" => doc[t] = "differs"
    /\ stage[t] = "div" => doc[t] \in {"same", "differs"}
    /\ stage[t] = "error" => doc[t] = "raised"
    /\ stage[t] \in Over => doc[t] # "none"

(* The main loop enters the block that logs only when a period is due, and  *)
(* nobody else logs it.                                                     *)
DueFits == main \in {"puts", "reset"} => due > 0

IInv == TypeOK /\ DocFits /\ DueFits /\ ThreadCount /\ Accounting

LEMMA Counted ==
  ASSUME NEW S \in SUBSET Threads
  PROVE  /\ IsFiniteSet(S) /\ Cardinality(S) \in Nat
         /\ \A t \in Threads \ S : Cardinality(S \cup {t}) = Cardinality(S) + 1
         /\ \A t \in S : /\ Cardinality(S \ {t}) = Cardinality(S) - 1
                         /\ Cardinality(S) > 0
<1>1. IsFiniteSet(S)
  BY AnalyzerAssumption, FS_Subset
<1>2. Cardinality(S) \in Nat
  BY <1>1, FS_CardinalityType
<1>3. \A t \in Threads \ S : Cardinality(S \cup {t}) = Cardinality(S) + 1
  BY <1>1, FS_AddElement
<1>4. ASSUME NEW t \in S
      PROVE  Cardinality(S \ {t}) = Cardinality(S) - 1 /\ Cardinality(S) > 0
  <2>1. Cardinality(S \ {t}) = Cardinality(S) - 1
    BY <1>1, FS_RemoveElement
  <2>2. Cardinality(S \ {t}) \in Nat
    BY <1>1, FS_RemoveElement, FS_CardinalityType
  <2>3. QED
    BY <1>2, <2>1, <2>2
<1>5. QED
  BY <1>1, <1>2, <1>3, <1>4

LEMMA InitIInv == Init => IInv
<1> SUFFICES ASSUME Init PROVE IInv
  OBVIOUS
<1>1. TypeOK
  BY AnalyzerAssumption DEF Init, TypeOK, Counters, Zero
<1>2. DocFits /\ DueFits
  BY DEF Init, DocFits, DueFits, Over
<1>3. Inside = {} /\ Pages = {} /\ Errors = {} /\ BadPages = {}
  BY DEF Init, Inside, Pages, Errors, BadPages
<1>4. Cardinality({}) = 0
  BY FS_EmptySet
<1>5. \A c \in {"div", "err", "bad"} : Told(c) = 0
  BY DEF Init, Told, HoldsMutex, Zero
<1>6. QED
  BY <1>1, <1>2, <1>3, <1>4, <1>5, AnalyzerAssumption
     DEF IInv, ThreadCount, Accounting, Init

(* A step that leaves the threads alone leaves the sets of threads alone. *)
LEMMA SameThreads ==
  ASSUME UNCHANGED <<stage, doc>>
  PROVE  /\ Inside' = Inside /\ Pages' = Pages
         /\ Errors' = Errors /\ BadPages' = BadPages
BY DEF Inside, Pages, Errors, BadPages

LEMMA MainStepIInv ==
  ASSUME IInv, MainStep
  PROVE  IInv'
<1>0. TypeOK /\ DocFits /\ DueFits /\ ThreadCount /\ Accounting
  BY DEF IInv
<1>1. CASE CheckTime \/ SleepToComplete
  <2>1. TypeOK' /\ DocFits' /\ DueFits'
    BY <1>0, <1>1 DEF CheckTime, PeriodOver, SleepToComplete, TypeOK, DocFits, DueFits
  <2>2. \A c : Told(c)' = Told(c)
    BY <1>1 DEF CheckTime, SleepToComplete, Told, HoldsMutex
  <2>3. QED
    BY <1>0, <1>1, <2>1, <2>2, SameThreads
       DEF IInv, ThreadCount, Accounting, CheckTime, SleepToComplete
<1>2. CASE Puts
  <2>1. TypeOK' /\ DocFits' /\ DueFits'
    BY <1>0, <1>2 DEF Puts, TypeOK, DocFits, DueFits, Counters
  <2>2. \A c \in {"div", "err", "bad"} : Told(c)' = Told(c)
    BY <1>0, <1>2 DEF Puts, Told, HoldsMutex, TypeOK, Counters
  <2>3. QED
    BY <1>0, <1>2, <2>1, <2>2, SameThreads DEF IInv, ThreadCount, Accounting, Puts
<1>3. CASE Reset
  <2>1. TypeOK' /\ DocFits' /\ DueFits'
    BY <1>0, <1>3, AnalyzerAssumption
       DEF Reset, TypeOK, DocFits, DueFits, Counters, Zero
  <2>2. \A c \in {"div", "err", "bad"} : Told(c)' = Told(c)
    BY <1>0, <1>3 DEF Reset, Told, HoldsMutex, TypeOK, Counters, Zero
  <2>3. QED
    BY <1>0, <1>3, <2>1, <2>2, SameThreads DEF IInv, ThreadCount, Accounting, Reset
<1>4. ASSUME NEW t \in Threads, CreateThread(t)
      PROVE  IInv'
  <2>1. TypeOK' /\ DueFits'
    BY <1>0, <1>4 DEF CreateThread, TypeOK, DueFits
  <2>2. DocFits'
    BY <1>0, <1>4 DEF CreateThread, TypeOK, DocFits, Over
  <2>3. Inside' = Inside /\ Pages' = Pages /\ Errors' = Errors /\ BadPages' = BadPages
    BY <1>0, <1>4 DEF CreateThread, TypeOK, Inside, Pages, Errors, BadPages, Over
  <2>4. \A c : Told(c)' = Told(c)
    BY <1>4 DEF CreateThread, Told, HoldsMutex
  <2>5. QED
    BY <1>0, <1>4, <2>1, <2>2, <2>3, <2>4 DEF IInv, ThreadCount, Accounting, CreateThread
<1>5. QED
  BY <1>1, <1>2, <1>3, <1>4 DEF MainStep

(* A thread's block under m keeps everything but the sums in order. *)
LEMMA SynchronizeKeeps ==
  ASSUME IInv, NEW t \in Threads, NEW from, NEW to,
         <<from, to>> \in {<<"created", "request">>, <<"bad", "div">>, <<"div", "ensure">>,
                          <<"error", "ensure">>, <<"ensure", "gone">>},
         Synchronize(t, from, to), current_thread_count' \in Nat, count' \in Counters
  PROVE  TypeOK' /\ DocFits' /\ DueFits'
<1>1. TypeOK'
  BY DEF IInv, Synchronize, TypeOK
<1>2. DueFits'
  BY DEF IInv, Synchronize, DueFits
<1>3. DocFits'
  BY DEF IInv, Synchronize, TypeOK, DocFits, Over
<1>4. QED
  BY <1>1, <1>2, <1>3

LEMMA ThreadStepIInv ==
  ASSUME IInv, NEW t \in Threads, ThreadStep(t)
  PROVE  IInv'
<1>0. TypeOK /\ DocFits /\ DueFits /\ ThreadCount /\ Accounting
  BY DEF IInv
<1> DEFINE Columns == {"div", "err", "bad"}
<1>1. /\ Inside \in SUBSET Threads /\ Pages \in SUBSET Threads
      /\ Errors \in SUBSET Threads /\ BadPages \in SUBSET Threads
  BY DEF Inside, Pages, Errors, BadPages
<1>2. CASE Enter(t)
  <2>1. TypeOK' /\ DocFits' /\ DueFits'
    BY <1>0, <1>2, SynchronizeKeeps DEF Enter, TypeOK
  <2>2. t \notin Inside /\ Inside' = Inside \cup {t}
    BY <1>0, <1>2 DEF Enter, Synchronize, TypeOK, Inside
  <2>3. Pages' = Pages /\ Errors' = Errors /\ BadPages' = BadPages
    BY <1>0, <1>2 DEF Enter, Synchronize, TypeOK, Pages, Errors, BadPages, Over
  <2>4. \A c : Told(c)' = Told(c)
    BY <1>2 DEF Enter, Synchronize, Told, HoldsMutex
  <2>5. ThreadCount'
    BY <1>0, <1>1, <1>2, <2>2, Counted DEF Enter, ThreadCount
  <2>6. QED
    BY <1>0, <2>1, <2>3, <2>4, <2>5 DEF IInv, Accounting
<1>3. CASE Respond(t)
  <2>1. TypeOK' /\ DueFits'
    BY <1>0, <1>3 DEF Respond, TypeOK, DueFits
  <2>2. DocFits'
    BY <1>0, <1>3 DEF Respond, TypeOK, DocFits, Over
  <2>3. Inside' = Inside
    BY <1>0, <1>3 DEF Respond, TypeOK, Inside
  <2>4. Pages' = Pages /\ Errors' = Errors /\ BadPages' = BadPages
    BY <1>0, <1>3 DEF Respond, TypeOK, DocFits, Pages, Errors, BadPages, Over
  <2>5. \A c : Told(c)' = Told(c)
    BY <1>3 DEF Respond, Told, HoldsMutex
  <2>6. QED
    BY <1>0, <1>3, <2>1, <2>2, <2>3, <2>4, <2>5 DEF IInv, ThreadCount, Accounting, Respond
<1>4. CASE CountBad(t)
  <2>1. TypeOK' /\ DocFits' /\ DueFits'
    BY <1>0, <1>4, SynchronizeKeeps DEF CountBad, TypeOK, Counters
  <2>2. t \notin BadPages /\ BadPages' = BadPages \cup {t}
    BY <1>0, <1>4 DEF CountBad, Synchronize, TypeOK, DocFits, BadPages, Over
  <2>3. Inside' = Inside /\ Pages' = Pages /\ Errors' = Errors
    BY <1>0, <1>4 DEF CountBad, Synchronize, TypeOK, Inside, Pages, Errors, Over
  <2>4. /\ Told("bad")' = Told("bad") + 1
        /\ Told("div")' = Told("div") /\ Told("err")' = Told("err")
    BY <1>0, <1>4 DEF CountBad, Synchronize, Told, HoldsMutex, TypeOK, Counters
  <2>5. Told("bad")' = Cardinality(BadPages')
    BY <1>0, <1>1, <2>2, <2>4, Counted DEF Accounting
  <2>6. QED
    BY <1>0, <1>4, <2>1, <2>3, <2>4, <2>5 DEF IInv, ThreadCount, Accounting, CountBad
<1>5. CASE CountDiv(t)
  <2>1. TypeOK' /\ DocFits' /\ DueFits'
    BY <1>0, <1>5, SynchronizeKeeps DEF CountDiv, TypeOK, Counters
  <2>2. t \notin Pages /\ Pages' = Pages \cup {t}
    BY <1>0, <1>5 DEF CountDiv, Synchronize, TypeOK, DocFits, Pages, Over
  <2>3. Inside' = Inside /\ BadPages' = BadPages /\ Errors' = Errors
    BY <1>0, <1>5 DEF CountDiv, Synchronize, TypeOK, DocFits, Inside, BadPages, Errors, Over
  <2>4. /\ Told("div")' = Told("div") + 1
        /\ Told("bad")' = Told("bad") /\ Told("err")' = Told("err")
    BY <1>0, <1>5 DEF CountDiv, Synchronize, Told, HoldsMutex, TypeOK, Counters
  <2>5. Told("div")' = Cardinality(Pages')
    BY <1>0, <1>1, <2>2, <2>4, Counted DEF Accounting
  <2>6. QED
    BY <1>0, <1>5, <2>1, <2>3, <2>4, <2>5 DEF IInv, ThreadCount, Accounting, CountDiv
<1>6. CASE CountError(t)
  <2>1. TypeOK' /\ DocFits' /\ DueFits'
    BY <1>0, <1>6, SynchronizeKeeps DEF CountError, TypeOK, Counters
  <2>2. t \notin Errors /\ Errors' = Errors \cup {t}
    BY <1>0, <1>6 DEF CountError, Synchronize, TypeOK, DocFits, Errors, Over
  <2>3. Inside' = Inside /\ BadPages' = BadPages /\ Pages' = Pages
    BY <1>0, <1>6 DEF CountError, Synchronize, TypeOK, DocFits, Inside, BadPages, Pages, Over
  <2>4. /\ Told("err")' = Told("err") + 1
        /\ Told("bad")' = Told("bad") /\ Told("div")' = Told("div")
    BY <1>0, <1>6 DEF CountError, Synchronize, Told, HoldsMutex, TypeOK, Counters
  <2>5. Told("err")' = Cardinality(Errors')
    BY <1>0, <1>1, <2>2, <2>4, Counted DEF Accounting
  <2>6. QED
    BY <1>0, <1>6, <2>1, <2>3, <2>4, <2>5 DEF IInv, ThreadCount, Accounting, CountError
<1>7. CASE Leave(t)
  <2>1. t \in Inside /\ Inside' = Inside \ {t}
    BY <1>0, <1>7 DEF Leave, Synchronize, TypeOK, Inside
  <2>2. ThreadCount' /\ current_thread_count' \in Nat
    BY <1>0, <1>1, <1>7, <2>1, Counted DEF Leave, ThreadCount
  <2>3. TypeOK' /\ DocFits' /\ DueFits'
    BY <1>0, <1>7, <2>2, SynchronizeKeeps DEF Leave, TypeOK
  <2>4. Pages' = Pages /\ Errors' = Errors /\ BadPages' = BadPages
    BY <1>0, <1>7 DEF Leave, Synchronize, TypeOK, Pages, Errors, BadPages, Over
  <2>5. \A c : Told(c)' = Told(c)
    BY <1>7 DEF Leave, Synchronize, Told, HoldsMutex
  <2>6. QED
    BY <1>0, <2>2, <2>3, <2>4, <2>5 DEF IInv, Accounting
<1>8. QED
  BY <1>2, <1>3, <1>4, <1>5, <1>6, <1>7 DEF ThreadStep

LEMMA NextIInv == IInv /\ [Next]_vars => IInv'
<1> SUFFICES ASSUME IInv, [Next]_vars PROVE IInv'
  OBVIOUS
<1>1. CASE Tick
  <2>1. TypeOK' /\ DocFits' /\ DueFits'
    BY <1>1, AnalyzerAssumption DEF IInv, Tick, TypeOK, DocFits, DueFits
  <2>2. \A c : Told(c)' = Told(c)
    BY <1>1 DEF Tick, Told, HoldsMutex
  <2>3. QED
    BY <1>1, <2>1, <2>2, SameThreads DEF IInv, Tick, ThreadCount, Accounting
<1>2. CASE UNCHANGED vars
  <2>1. TypeOK' /\ DocFits' /\ DueFits'
    BY <1>2 DEF IInv, vars, TypeOK, DocFits, DueFits
  <2>2. \A c : Told(c)' = Told(c)
    BY <1>2 DEF vars, Told, HoldsMutex
  <2>3. QED
    BY <1>2, <2>1, <2>2, SameThreads DEF IInv, vars, ThreadCount, Accounting
<1>3. QED
  BY <1>1, <1>2, MainStepIInv, ThreadStepIInv DEF Next

(* The types, the thread count and the columns of the log are right in      *)
(* every reachable state.                                                   *)
THEOREM Invariant == Spec => []IInv
<1>1. QED
  BY InitIInv, NextIInv, PTL DEF Spec

(* The variables of the analyzer keep their types, with any number of       *)
(* threads (request_analyzer.rb).                                           *)
THEOREM TypeCorrect == Spec => []TypeOK
<1>1. IInv => TypeOK
  BY DEF IInv
<1>2. QED
  BY <1>1, Invariant, PTL

(* The log and the counters together tell every finished request once.      *)
THEOREM AccountingHolds == Spec => []Accounting
<1>1. IInv => Accounting
  BY DEF IInv
<1>2. QED
  BY <1>1, Invariant, PTL

(* current_thread_count counts the threads that are inside their block.     *)
THEOREM ThreadCountHolds == Spec => []ThreadCount
<1>1. IInv => ThreadCount
  BY DEF IInv
<1>2. QED
  BY <1>1, Invariant, PTL

-----------------------------------------------------------------------------
(* The analyzer implements RequestTally. *)

LEMMA FirstTally == Init => Tally!Init
<1> SUFFICES ASSUME Init PROVE Tally!Init
  OBVIOUS
<1>1. Pages = {} /\ Errors = {} /\ BadPages = {}
  BY DEF Init, Pages, Errors, BadPages
<1>2. CountedIn = [c \in Tally!Columns |-> {}]
  BY <1>1 DEF CountedIn, Tally!Columns
<1>3. reported = [c \in Tally!Columns |-> 0]
  BY DEF Init, Zero, Tally!Columns
<1>4. QED
  BY <1>2, <1>3 DEF Tally!Init

(* A step that neither counts nor writes is not seen by the tally. *)
LEMMA Unseen ==
  ASSUME Pages' = Pages, Errors' = Errors, BadPages' = BadPages, reported' = reported
  PROVE  UNCHANGED Tally!vars
BY DEF CountedIn, Tally!vars

(* No request is on two sides: a page is none before it is counted, and a   *)
(* failed request brings none.                                             *)
LEMMA OneOutcome ==
  ASSUME IInv, NEW t \in Threads
  PROVE  /\ stage[t] = "bad" => t \notin Pages \cup Errors
         /\ stage[t] = "div" => t \notin Errors
         /\ stage[t] = "error" => t \notin Pages \cup BadPages
BY DEF IInv, DocFits, Pages, Errors, BadPages, Over

(* The tally counts as the analyzer's properties do. *)
LEMMA SameCount == \A S : Tally!Cardinality(S) = Cardinality(S)
BY DEF Cardinality, Tally!Cardinality

(* A line brings every column up to date: until the reset, the counters are *)
(* what the log does not tell yet.                                         *)
LEMMA LineIsWritten ==
  ASSUME IInv, Puts
  PROVE  Tally!WriteLine
<1>1. TypeOK /\ Accounting
  BY DEF IInv
<1>2. \A c \in Tally!Columns : Told(c) = reported[c] + count[c]
  BY DEF Puts, Told, HoldsMutex
<1>3. \A c \in Tally!Columns : Told(c) = Cardinality(CountedIn[c])
  BY <1>1 DEF Accounting, CountedIn, Tally!Columns
<1>4. DOMAIN reported = Tally!Columns
  BY <1>1 DEF TypeOK, Counters, Tally!Columns
<1>5. reported' = [c \in Tally!Columns |-> Cardinality(CountedIn[c])]
  <2>1. reported' = [c \in Tally!Columns |-> reported[c] + count[c]]
    BY <1>4 DEF Puts
  <2>2. QED
    BY <1>2, <1>3, <2>1
<1>6. CountedIn' = CountedIn
  BY SameThreads DEF Puts, CountedIn
<1>7. QED
  BY <1>5, <1>6, SameCount DEF Tally!WriteLine

LEMMA MainStepTallies ==
  ASSUME IInv, MainStep
  PROVE  [Tally!Next]_(Tally!vars)
<1>1. CASE Puts
  BY <1>1, LineIsWritten DEF Tally!Next
<1>2. CASE CheckTime \/ Reset \/ SleepToComplete
  BY <1>2, SameThreads, Unseen DEF CheckTime, Reset, SleepToComplete
<1>3. ASSUME NEW t \in Threads, CreateThread(t)
      PROVE  UNCHANGED Tally!vars
  <2>1. Pages' = Pages /\ Errors' = Errors /\ BadPages' = BadPages
    BY <1>3 DEF IInv, CreateThread, TypeOK, Pages, Errors, BadPages, Over
  <2>2. QED
    BY <1>3, <2>1, Unseen DEF CreateThread
<1>4. QED
  BY <1>1, <1>2, <1>3 DEF MainStep

LEMMA ThreadStepTallies ==
  ASSUME IInv, NEW t \in Threads, ThreadStep(t)
  PROVE  [Tally!Next]_(Tally!vars)
<1>0. TypeOK /\ DocFits
  BY DEF IInv
<1>1. CASE Enter(t) \/ Leave(t)
  <2>1. Pages' = Pages /\ Errors' = Errors /\ BadPages' = BadPages
    BY <1>0, <1>1 DEF Enter, Leave, Synchronize, TypeOK, Pages, Errors, BadPages, Over
  <2>2. QED
    BY <1>1, <2>1, Unseen DEF Enter, Leave, Synchronize
<1>2. CASE Respond(t)
  <2>1. Pages' = Pages /\ Errors' = Errors /\ BadPages' = BadPages
    BY <1>0, <1>2 DEF Respond, TypeOK, DocFits, Pages, Errors, BadPages, Over
  <2>2. QED
    BY <1>2, <2>1, Unseen DEF Respond
<1>3. CASE CountBad(t)
  <2>1. /\ BadPages' = BadPages \cup {t}
        /\ Pages' = Pages /\ Errors' = Errors /\ reported' = reported
    BY <1>0, <1>3
       DEF CountBad, Synchronize, TypeOK, DocFits, BadPages, Pages, Errors, Over
  <2>2. CountedIn' = [CountedIn EXCEPT !["bad"] = @ \cup {t}]
    BY <2>1 DEF CountedIn
  <2>3. Tally!CountBad(t)
    BY <1>3, <2>1, <2>2, OneOutcome
       DEF CountBad, Synchronize, Tally!CountBad, Tally!CountIn, CountedIn
  <2>4. QED
    BY <2>3 DEF Tally!Next
<1>4. CASE CountDiv(t)
  <2>1. /\ Pages' = Pages \cup {t}
        /\ BadPages' = BadPages /\ Errors' = Errors /\ reported' = reported
    BY <1>0, <1>4
       DEF CountDiv, Synchronize, TypeOK, DocFits, BadPages, Pages, Errors, Over
  <2>2. CountedIn' = [CountedIn EXCEPT !["div"] = @ \cup {t}]
    BY <2>1 DEF CountedIn
  <2>3. Tally!CountPage(t)
    BY <1>4, <2>1, <2>2, OneOutcome
       DEF CountDiv, Synchronize, Tally!CountPage, Tally!CountIn, CountedIn
  <2>4. QED
    BY <2>3 DEF Tally!Next
<1>5. CASE CountError(t)
  <2>1. /\ Errors' = Errors \cup {t}
        /\ BadPages' = BadPages /\ Pages' = Pages /\ reported' = reported
    BY <1>0, <1>5
       DEF CountError, Synchronize, TypeOK, DocFits, BadPages, Pages, Errors, Over
  <2>2. CountedIn' = [CountedIn EXCEPT !["err"] = @ \cup {t}]
    BY <2>1 DEF CountedIn
  <2>3. Tally!CountError(t)
    BY <1>5, <2>1, <2>2, OneOutcome
       DEF CountError, Synchronize, Tally!CountError, Tally!CountIn, CountedIn
  <2>4. QED
    BY <2>3 DEF Tally!Next
<1>6. QED
  BY <1>1, <1>2, <1>3, <1>4, <1>5 DEF ThreadStep

LEMMA NextTallies == IInv /\ [Next]_vars => [Tally!Next]_(Tally!vars)
<1> SUFFICES ASSUME IInv, [Next]_vars PROVE [Tally!Next]_(Tally!vars)
  OBVIOUS
<1>1. CASE Tick \/ UNCHANGED vars
  BY <1>1, SameThreads, Unseen DEF Tick, vars
<1>2. QED
  BY <1>1, MainStepTallies, ThreadStepTallies DEF Next

(* The analyzer implements RequestTally, with any number of threads, any    *)
(* limit and any pace of the clock: every line of request.log tells of all  *)
(* columns what was counted until one moment                                *)
(* (request_analyzer.rb:75-119).                                            *)
THEOREM KeepsTallyHolds == Spec => KeepsTally
<1>1. QED
  BY FirstTally, NextTallies, Invariant, PTL DEF Spec, KeepsTally, Tally!Spec

=============================================================================
