--------------------------- MODULE RequestAnalyzer ---------------------------
(***************************************************************************)
(* document_req/request_analyzer.rb: the main loop starts threads that each *)
(* request one page, and writes a line with three counters for each second *)
(* that has passed.  The mutex m guards the counters.                      *)
(***************************************************************************)
EXTENDS Integers, FiniteSets

CONSTANTS
  Threads,             \* bound: the threads the endless loop creates
  THREAD_COUNT_LIMIT,
  MaxDue               \* bound: how far the log may lag behind the clock

ASSUME AnalyzerAssumption ==
  /\ IsFiniteSet(Threads)
  /\ THREAD_COUNT_LIMIT \in Nat
  /\ MaxDue \in Nat

VARIABLES
  main,                  \* where the main loop is
  due,                   \* periods passed since the start and not yet logged
  count,                 \* current_div_count, connection_error_count, bad_doc_count
  current_thread_count,
  reported,              \* the sums of the columns of request.log
  stage,                 \* where each thread is
  doc                    \* what came of each thread's request

vars == <<main, due, count, current_thread_count, reported, stage, doc>>

Counters == [div : Nat, err : Nat, bad : Nat]
Zero == [div |-> 0, err |-> 0, bad |-> 0]

TypeOK ==
  /\ main \in {"time", "puts", "reset", "gate"}
  /\ due \in 0..MaxDue
  /\ count \in Counters /\ reported \in Counters
  /\ current_thread_count \in Nat
  /\ stage \in [Threads -> {"unborn", "created", "request", "bad", "div", "error",
                            "ensure", "gone"}]
  /\ doc \in [Threads -> {"none", "same", "differs", "raised"}]

Init ==
  /\ main = "time" /\ due = 0
  /\ count = Zero /\ reported = Zero /\ current_thread_count = 0
  /\ stage = [t \in Threads |-> "unborn"]
  /\ doc = [t \in Threads |-> "none"]

-----------------------------------------------------------------------------
(* The main loop.  It holds m from Puts to Reset; every other block under m *)
(* is one step.                                                             *)

HoldsMutex == main = "reset"

(* The slip of a log that does not wait for its first period. *)
PeriodBegun == due >= 0

PeriodOver == due > 0

CheckTime ==
  /\ main = "time"
  /\ main' = IF PeriodOver THEN "puts" ELSE "gate"
  /\ UNCHANGED <<due, count, current_thread_count, reported, stage, doc>>

Puts ==
  /\ main = "puts"
  /\ reported' = [c \in DOMAIN reported |-> reported[c] + count[c]]
  /\ main' = "reset"
  /\ UNCHANGED <<due, count, current_thread_count, stage, doc>>

(* The slip of a counter that is not reset. *)
ResetAllButBad ==
  /\ main = "reset"
  /\ count' = [Zero EXCEPT !.bad = count.bad]
  /\ due' = due - 1
  /\ main' = "gate"
  /\ UNCHANGED <<current_thread_count, reported, stage, doc>>

Reset ==
  /\ main = "reset"
  /\ count' = Zero
  /\ due' = due - 1
  /\ main' = "gate"
  /\ UNCHANGED <<current_thread_count, reported, stage, doc>>

(* current_thread_count is read without m.  SleepToComplete stands for the  *)
(* loop's other way, and for a loop that has no thread of the bound left.   *)
CreateThread(t) ==
  /\ main = "gate"
  /\ current_thread_count < THREAD_COUNT_LIMIT
  /\ stage[t] = "unborn"
  /\ stage' = [stage EXCEPT ![t] = "created"]
  /\ main' = "time"
  /\ UNCHANGED <<due, count, current_thread_count, reported, doc>>

SleepToComplete ==
  /\ main = "gate"
  /\ current_thread_count >= THREAD_COUNT_LIMIT \/ \A t \in Threads : stage[t] # "unborn"
  /\ main' = "time"
  /\ UNCHANGED <<due, count, current_thread_count, reported, stage, doc>>

-----------------------------------------------------------------------------
(* A thread. *)

(* The slip of a block that does not take m. *)
Unsynchronized(t, from, to) ==
  /\ stage[t] = from
  /\ stage' = [stage EXCEPT ![t] = to]
  /\ UNCHANGED <<main, due, reported, doc>>

(* m.synchronize{ ... }, from one place of the thread to the next. *)
Synchronize(t, from, to) ==
  /\ stage[t] = from
  /\ ~HoldsMutex
  /\ stage' = [stage EXCEPT ![t] = to]
  /\ UNCHANGED <<main, due, reported, doc>>

Enter(t) ==
  /\ Synchronize(t, "created", "request")
  /\ current_thread_count' = current_thread_count + 1
  /\ UNCHANGED count

(* request_a_page returns a page, which is compared with the one of the     *)
(* start, or raises: refused, reset, or one of the two timeouts.            *)
Respond(t) ==
  /\ stage[t] = "request"
  /\ \E d \in {"same", "differs", "raised"} :
       /\ doc' = [doc EXCEPT ![t] = d]
       /\ stage' = [stage EXCEPT ![t] = CASE d = "same" -> "div"
                                          [] d = "differs" -> "bad"
                                          [] d = "raised" -> "error"]
  /\ UNCHANGED <<main, due, count, current_thread_count, reported>>

CountBad(t) ==
  /\ Synchronize(t, "bad", "div")
  /\ count' = [count EXCEPT !.bad = @ + 1]
  /\ UNCHANGED current_thread_count

CountDiv(t) ==
  /\ Synchronize(t, "div", "ensure")
  /\ count' = [count EXCEPT !.div = @ + 1]
  /\ UNCHANGED current_thread_count

(* The slip of a rescue without the ensure. *)
CountErrorOnly(t) ==
  /\ Synchronize(t, "error", "gone")
  /\ count' = [count EXCEPT !.err = @ + 1]
  /\ UNCHANGED current_thread_count

(* The slip of a rescue that only prints the exception. *)
ForgetError(t) ==
  /\ Synchronize(t, "error", "ensure")
  /\ UNCHANGED <<count, current_thread_count>>

CountError(t) ==
  /\ Synchronize(t, "error", "ensure")
  /\ count' = [count EXCEPT !.err = @ + 1]
  /\ UNCHANGED current_thread_count

Leave(t) ==
  /\ Synchronize(t, "ensure", "gone")
  /\ current_thread_count' = current_thread_count - 1
  /\ UNCHANGED count

(* A period passes. *)
Tick ==
  /\ due < MaxDue
  /\ due' = due + 1
  /\ UNCHANGED <<main, count, current_thread_count, reported, stage, doc>>

MainStep ==
  CheckTime \/ Puts \/ Reset \/ SleepToComplete \/ \E t \in Threads : CreateThread(t)

ThreadStep(t) ==
  Enter(t) \/ Respond(t) \/ CountBad(t) \/ CountDiv(t) \/ CountError(t) \/ Leave(t)

Next == MainStep \/ (\E t \in Threads : ThreadStep(t)) \/ Tick

Spec == Init /\ [][Next]_vars

-----------------------------------------------------------------------------

(* What the log tells so far, of a column: what it has, and what is counted *)
(* and not yet in it.                                                       *)
Told(c) == IF HoldsMutex THEN reported[c] ELSE reported[c] + count[c]

Over == {"ensure", "gone"}
Pages == {t \in Threads : doc[t] \in {"same", "differs"} /\ stage[t] \in Over}
Errors == {t \in Threads : doc[t] = "raised" /\ stage[t] \in Over}
BadPages == {t \in Threads : doc[t] = "differs" /\ stage[t] \in Over \cup {"div"}}

(* Each request is told exactly once and in the right columns, whatever the *)
(* threads do while the main loop writes a line and resets the counters     *)
(* (request_analyzer.rb:77-115).                                            *)
Accounting ==
  /\ Told("div") = Cardinality(Pages)
  /\ Told("err") = Cardinality(Errors)
  /\ Told("bad") = Cardinality(BadPages)

(* The analyzer implements RequestTally: though the threads count in steps  *)
(* of their own and the main loop writes and resets in two, every line      *)
(* tells of each column what was counted until one and the same moment, and *)
(* no request is counted both as a page and as an error                     *)
(* (request_analyzer.rb:75-119).                                            *)
CountedIn == [div |-> Pages, err |-> Errors, bad |-> BadPages]

Tally == INSTANCE RequestTally WITH Requests <- Threads, counted <- CountedIn, told <- reported

KeepsTally == Tally!Spec

(* current_thread_count is the number of threads between their first and    *)
(* their last block under m: no way out of a thread forgets to leave        *)
(* (request_analyzer.rb:92-118).                                            *)
Inside == {t \in Threads : stage[t] \notin {"unborn", "created", "gone"}}
ThreadCount == current_thread_count = Cardinality(Inside)

(* Every request that was started ends up in the log.                       *)
AllReported ==
  \A t \in Threads :
    stage[t] = "created" ~>
      /\ stage[t] = "gone"
      /\ reported.div + reported.err >= Cardinality(Pages \cup Errors)

(* The interpreter runs every thread and the clock goes on; a request ends  *)
(* after two timeouts of 2 s at the latest; m is granted first come, first  *)
(* served, so that a thread which waits for it again and again gets it.     *)
Fairness ==
  /\ WF_vars(MainStep)
  /\ WF_vars(Tick)
  /\ \A t \in Threads : SF_vars(ThreadStep(t))

FairSpec == Spec /\ Fairness
=============================================================================
