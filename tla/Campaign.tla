------------------------------ MODULE Campaign ------------------------------
(***************************************************************************)
(* experiment_for_parallel_flex.sh, one driver per guest, over the runs of *)
(* ExperimentOnce and one Xen host shared by all guests: boot the guest,   *)
(* then again and again look its domain id up and run one experiment.      *)
(***************************************************************************)
EXTENDS ExperimentOnce, Functions

CONSTANTS
  Algorithm,     \* the algorithm argument of each guest's driver
  Contains,      \* the pairs <<g, h>> such that the name h contains the name g
  Octet,         \* atoi of the guest's ip address: its first number
  Slices,        \* with_pause: how many values current_bits takes; simple: 1
  RunsPerSlice,  \* with_pause: each_count; simple: ex_count
  Slide,         \* inject_bits grows by Slide from slice to slice
  WaitSecs       \* wait_before_check

ASSUME CampaignAssumption ==
  /\ Algorithm \in [Guests -> {"simple", "with_pause"}]
  /\ Contains \subseteq Guests \X Guests
  /\ \A g \in Guests : <<g, g>> \in Contains
  /\ {Octet, Slices, RunsPerSlice, Slide, WaitSecs} \subseteq Nat
  /\ RunsPerSlice > 0

VARIABLE drv     \* the shell variables of each guest's driver

vars == <<hostVars, runVars, drv>>

Hogehoge == -1   \* the initial dom_id_past, which no id equals
NoId == 0        \* the empty string, when xm list shows no such domain
Total == Slices * RunsPerSlice

Driver ==
  [pc : {"boot", "list", "wait", "done", "stopped"},
   past : Nat \cup {Hogehoge}, launched : 0..Total]

TypeOK == HostTypeOK /\ RunTypeOK /\ drv \in [Guests -> Driver]

Init ==
  /\ HostInit
  /\ RunInit
  /\ drv = [g \in Guests |-> [pc |-> "boot", past |-> Hogehoge, launched |-> 0]]

Boot(g) ==
  /\ drv[g].pc = "boot"
  /\ XmRestore(g)
  /\ drv' = [drv EXCEPT ![g].pc = "list"]
  /\ UNCHANGED runVars

(* xm list | grep $dom_name: every domain whose name contains $dom_name. *)
Found(g) == {d \in DomIds : Listed(d) /\ <<g, dom[d].owner>> \in Contains}

(* The slip of counting from 0 to ex_count. *)
ListingOneMore(g) == drv[g].pc = "list" /\ drv[g].launched <= Total

Listing(g) == drv[g].pc = "list" /\ drv[g].launched < Total

(* The run's inject_bits, from the number of runs before it. *)
Quota(g) == Slide * (1 + drv[g].launched \div RunsPerSlice)

(* The slip of a driver that takes any id. *)
AnyDomain(g, d) == TRUE

(* dom_id_past is another id: the guest was restored since. *)
Replaced(g, d) == drv[g].past # d

(* No other command of the driver runs before the process returns, so that *)
(* dom_id_past may be set at its start.                                     *)
Launch(g, id, process, label) ==
  /\ run' = [run EXCEPT ![g] = process]
  /\ drv' = [drv EXCEPT ![g].pc = label, ![g].past = id, ![g].launched = @ + 1]
  /\ UNCHANGED <<hostVars, log, forkFails>>

LaunchListed(g) ==
  /\ Listing(g)
  /\ \E d \in DomIds :
       /\ Found(g) = {d}
       /\ Replaced(g, d)
       /\ Launch(g, d, [NoRun EXCEPT !.pc = "init", !.target = d, !.ip = TRUE,
                          !.pause = (Algorithm[g] = "with_pause"), !.quota = Quota(g)],
                 "wait")

(* [ -n ] is true: an empty $dom_id_new does not stop the driver, it only   *)
(* moves the arguments after it one place to the front.  With four of them  *)
(* left the process takes the ip address for dom_id, $current_bits for the  *)
(* ip address and wait_before_check for inject_bits, and does not pause;    *)
(* with three it prints its usage and is gone.                              *)
LaunchUnlisted(g) ==
  /\ Listing(g)
  /\ Found(g) = {}
  /\ Replaced(g, NoId)
  /\ IF Algorithm[g] = "with_pause"
     THEN Launch(g, NoId, [NoRun EXCEPT !.pc = "init", !.target = Octet,
                                        !.quota = WaitSecs], "wait")
     ELSE Launch(g, NoId, NoRun, "list")

(* The id is the past one; or there are several, which [ -n ] rejects. *)
StopDriver(g) ==
  /\ Listing(g)
  /\ \/ Found(g) = {} /\ ~Replaced(g, NoId)
     \/ \E d \in DomIds : Found(g) = {d} /\ ~Replaced(g, d)
     \/ Cardinality(Found(g)) > 1
  /\ drv' = [drv EXCEPT ![g].pc = "stopped"]
  /\ UNCHANGED <<hostVars, runVars>>

Return(g) ==
  /\ drv[g].pc = "wait"
  /\ At(g, "off")
  /\ drv' = [drv EXCEPT ![g].pc = "list"]
  /\ UNCHANGED <<hostVars, runVars>>

Finish(g) ==
  /\ drv[g].pc = "list"
  /\ drv[g].launched = Total
  /\ drv' = [drv EXCEPT ![g].pc = "done"]
  /\ UNCHANGED <<hostVars, runVars>>

DriverStep(g) ==
  \/ Boot(g) \/ LaunchListed(g) \/ LaunchUnlisted(g)
  \/ StopDriver(g) \/ Return(g) \/ Finish(g)

Ended(g) == drv[g].pc \in {"done", "stopped"}

(* Every driver has exited: nothing more is expected of the system. *)
AllEnded ==
  /\ \A g \in Guests : Ended(g)
  /\ UNCHANGED vars

Next ==
  \/ \E g \in Guests : RunStep(g) /\ UNCHANGED drv
  \/ \E g \in Guests : DriverStep(g)
  \/ HostStep /\ UNCHANGED <<runVars, drv>>
  \/ AllEnded

Spec == Init /\ [][Next]_vars

-----------------------------------------------------------------------------
(* What the campaign's results rest on. *)

(* The log counts deaths caused by the injected faults: no line stands for  *)
(* a guest that was alive and well when the run destroyed it.               *)
(* experiment_once.c:156-160, for the quick algorithm.                      *)
NoSurvivorLogged ==
  \A g \in Guests : \A i \in 1..Len(log[g]) :
    LET d == log[g][i].dom IN d \in DomIds => dom[d].left # "up"

(* A logged number is exactly the number of bits that domain ever received: *)
(* no other run, of this guest or of another, adds to it before or after    *)
(* the line is written.  The line of a run that failed to initialise holds  *)
(* an uninitialised attack_count and says nothing.                          *)
CountIsTotalDamage ==
  \A g \in Guests : \A i \in 1..Len(log[g]) :
    LET line == log[g][i] IN
      line.count # Junk => line.dom \in DomIds /\ line.count = dom[line.dom].flips

(* A run starts on a domain no run has touched: dom_id_past is enough to    *)
(* recognise a guest that was not replaced, though it remembers one id.     *)
FreshVictim ==
  [][\A g \in Guests :
       At(g, "off") /\ run'[g].pc = "init" /\ run'[g].target \in DomIds
         => dom[run'[g].target].flips = 0]_vars

(* The entries of all the logs, but for the lines of runs that failed to    *)
(* initialise, whose count is uninitialised.                                *)
Entries ==
  UNION {{[guest |-> g, dom |-> l.dom, count |-> l.count] :
            l \in {m \in Range(log[g]) : m.count # Junk}} : g \in Guests}

Ledger == INSTANCE InjectionLedger WITH
  owner  <- [d \in DomIds |-> dom[d].owner],
  damage <- [d \in DomIds |-> dom[d].flips],
  ledger <- Entries

(* The campaign keeps its ledger: whatever fails unnoticed, a driver never  *)
(* goes back to a domain its log tells of, nor to one that was replaced,    *)
(* and the count it writes is all that domain received                      *)
(* (experiment_once.c:80-160, experiment_for_parallel_flex.sh:29-34).       *)
KeepsLedger == Ledger!Spec

(* A run writes a line at most once for each time it passes the log, and    *)
(* comes back to it only because fork failed.                               *)
LinesPerRun == \A g \in Guests : Len(log[g]) <= drv[g].launched + forkFails

(* No domain stays paused: the run that paused it is alive and will unpause *)
(* it, though a process may die of SIGPIPE and domains may come and go      *)
(* between the pause and the unpause.                                       *)
PausedHasPauser ==
  \A d \in DomIds : dom[d].paused =>
    \E g \in Guests : run[g].pause /\ DomId(g) = d /\ run[g].pc \in {"inject", "recover"}

(* The look after a destroy finds another guest's domain on a CPU, as the   *)
(* first one from the victim's id on.                                       *)
Misled(g) ==
  /\ At(g, "confirm")
  /\ \E e \in InfoOf(run[g].target) : dom[e].owner # g /\ MayRun(e)

(* A driver comes to its end unless its run is misled again and again (an   *)
(* exited driver stays so).  The jump back to re_destroy can go on for ever *)
(* only over other guests' domains, which no destroy of this run touches,   *)
(* and the one to create_guest_again only while fork fails, which it does   *)
(* MaxForkFails times at most: neither xm failing unnoticed now and then,   *)
(* nor a pause by another run, nor a guest that hangs keeps a run from its  *)
(* end (experiment_once.c:119-170).                                         *)
EndsUnlessMisled == \A g \in Guests : []<>(Ended(g) \/ Misled(g))

(* A statement of the sources that the code does not keep. *)

(* A driver that finds no domain id says so and stops                       *)
(* (experiment_for_parallel_flex.sh:42-45 and 75-78).                       *)
StopsWhenUnlisted ==
  [][\A g \in Guests :
       Listing(g) /\ Found(g) = {} /\ drv'[g] # drv[g] => drv'[g].pc = "stopped"]_vars

(* What the calls of one process and one driver make of it: neither is ever *)
(* stopped for good, and xm destroy does not fail for ever.                 *)
Fairness ==
  \A g \in Guests :
    /\ WF_vars(RunStep(g) /\ UNCHANGED drv)
    /\ WF_vars(DriverStep(g))
    /\ SF_vars(DestroyDomain(g) /\ XmDestroyed(g) /\ UNCHANGED drv)

FairSpec == Spec /\ Fairness
=============================================================================
