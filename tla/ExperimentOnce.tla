--------------------------- MODULE ExperimentOnce ---------------------------
(***************************************************************************)
(* One run of experiment_once.out per guest: flip bits in a domain's       *)
(* memory, decide whether the guest died, destroy it, log the count and    *)
(* restore the guest from its snapshot.  Steps are the calls to the host;  *)
(* everything between two calls is local to the process.                   *)
(***************************************************************************)
EXTENDS XenHost, Sequences

CONSTANTS
  Addrs,        \* the addresses rand() may draw outside the VGA hole
  Holes,        \* some pages of a living domain cannot be mapped
  MaxForkFails  \* bound: how often fork() may fail, over all runs

ASSUME RunAssumption == MaxForkFails \in Nat /\ Holes \in BOOLEAN

VARIABLES
  run,          \* the process of each guest (its local variables)
  log,          \* ./experiment_<guest>.log, in the order written
  forkFails     \* how often fork() has failed so far

runVars == <<run, log, forkFails>>

(* An uninitialised attack_count or rc; no initialised one is negative. *)
Junk == -1

(* target: the dom_id argument.  ip: the ip_addr argument is the guest's.  *)
(* init: is_init # 0.  attack: attack_count.  seen: the hash table ht.     *)
(* dead: is_dead.  cleaned: xa_destroy has run.                            *)
NoRun ==
  [pc |-> "off", target |-> 0, pause |-> FALSE, quota |-> 0, ip |-> FALSE,
   init |-> FALSE, attack |-> Junk, seen |-> {}, rc |-> Junk, dead |-> FALSE,
   cleaned |-> FALSE]

Run ==
  [pc : {"off", "init", "pause", "inject", "check", "recover", "recheck",
         "destroy", "confirm", "record", "restore"},
   target : Nat, pause : BOOLEAN, quota : Nat, ip : BOOLEAN,
   init : BOOLEAN, attack : Nat \cup {Junk}, seen : SUBSET Addrs,
   rc : {0, 1, 2, Junk}, dead : BOOLEAN, cleaned : BOOLEAN]

(* A line of the log; the file holds the count only, the domain says whose. *)
Line == [dom : Nat, count : Nat \cup {Junk}]

RunTypeOK ==
  /\ run \in [Guests -> Run]
  /\ log \in [Guests -> Seq(Line)]
  /\ forkFails \in 0..MaxForkFails

RunInit ==
  /\ run = [g \in Guests |-> NoRun]
  /\ log = [g \in Guests |-> <<>>]
  /\ forkFails = 0

At(g, label) == run[g].pc = label

Goto(g, label) == run' = [run EXCEPT ![g].pc = label]

(* xa_init and the mapping of physical address 0 work on a domain that runs. *)
XaInit(g) ==
  /\ At(g, "init")
  /\ Listed(run[g].target)
  /\ run' = [run EXCEPT ![g].init = TRUE, ![g].attack = 0, ![g].rc = 0,
                        ![g].pc = IF run[g].pause THEN "pause" ELSE "inject"]
  /\ UNCHANGED <<hostVars, log, forkFails>>

XaInitFails(g) ==
  /\ At(g, "init")
  /\ ~Listed(run[g].target)
  /\ Goto(g, "recover")
  /\ UNCHANGED <<hostVars, log, forkFails>>

(* dom_id was incremented in the call of init: it no longer is the target. *)
DomId(g) == run[g].target + 1

PauseDomain(g) ==
  /\ At(g, "pause")
  /\ SetPaused(DomId(g), TRUE)
  /\ Goto(g, "inject")
  /\ UNCHANGED <<log, forkFails>>

(* A draw in the VGA hole changes nothing, so it is a stuttering step.  An  *)
(* address hit before is not followed by a check of the guest.              *)
InjectBit(g) ==
  /\ At(g, "inject")
  /\ run[g].attack < run[g].quota
  /\ Listed(run[g].target)
  /\ Flip(run[g].target)
  /\ \E a \in Addrs :
       run' = [run EXCEPT ![g].attack = @ + 1, ![g].seen = @ \cup {a},
                 ![g].pc = IF run[g].pause \/ a \in run[g].seen THEN "inject" ELSE "check"]
  /\ UNCHANGED <<log, forkFails>>

(* The quota is reached, or a page cannot be mapped: any page once the      *)
(* domain is lost, and one of a living domain if it has holes.              *)
StopInjecting(g) ==
  /\ At(g, "inject")
  /\ run[g].attack >= run[g].quota \/ ~Listed(run[g].target) \/ Holes
  /\ Goto(g, "recover")
  /\ UNCHANGED <<hostVars, log, forkFails>>

(* The guest the heart beat goes to is the one at ip_addr. *)
Verdicts(g) == IsGuestDead(run[g].target, run[g].ip /\ Answers(g))

CheckGuest(g) ==
  /\ At(g, "check")
  /\ \E v \in Verdicts(g) :
       run' = [run EXCEPT ![g].rc = v, ![g].dead = (v # 0),
                          ![g].pc = IF v = 0 THEN "inject" ELSE "recover"]
  /\ UNCHANGED <<hostVars, log, forkFails>>

(* The slip of a run that forgets to unpause. *)
RecoverPaused(g) ==
  /\ At(g, "recover")
  /\ Goto(g, IF run[g].pause THEN "recheck" ELSE "destroy")
  /\ UNCHANGED <<hostVars, log, forkFails>>

(* Labels create_guest_again and re_destroy; the quick algorithm goes       *)
(* straight on, the other one unpauses, sleeps and looks at the guest.      *)
Recover(g) ==
  /\ At(g, "recover")
  /\ IF run[g].pause
     THEN SetPaused(DomId(g), FALSE) /\ Goto(g, "recheck")
     ELSE UNCHANGED hostVars /\ Goto(g, "destroy")
  /\ UNCHANGED <<log, forkFails>>

Recheck(g) ==
  /\ At(g, "recheck")
  /\ \E v \in Verdicts(g) :
       run' = [run EXCEPT ![g].rc = v, ![g].dead = @ \/ v # 0, ![g].pc = "destroy"]
  /\ UNCHANGED <<hostVars, log, forkFails>>

(* A heart beat written to a connection the guest has reset raises SIGPIPE, *)
(* which nothing catches: the process is gone.                              *)
DiesOfSigpipe(g) ==
  /\ run[g].pc \in {"check", "recheck"}
  /\ run[g].ip /\ Named(g) # {} /\ InfoOf(run[g].target) # {}
  /\ run' = [run EXCEPT ![g] = NoRun]
  /\ UNCHANGED <<hostVars, log, forkFails>>

ForkFails(g) ==
  /\ run[g].pc \in {"destroy", "restore"}
  /\ forkFails < MaxForkFails
  /\ forkFails' = forkFails + 1
  /\ Goto(g, "recover")
  /\ UNCHANGED <<hostVars, log>>

DestroyDomain(g) ==
  /\ At(g, "destroy")
  /\ XmDestroy(g)
  /\ Goto(g, "confirm")
  /\ UNCHANGED <<log, forkFails>>

(* info.running = 1 sends the run back to re_destroy. *)
ReDestroy(g) ==
  /\ At(g, "confirm")
  /\ \E e \in InfoOf(run[g].target) : MayRun(e)
  /\ Goto(g, "recover")
  /\ UNCHANGED <<hostVars, log, forkFails>>

(* The slip of a run that waits until the domain is gone. *)
DestroyedWhenGone(g) ==
  /\ At(g, "confirm")
  /\ ~Present(run[g].target)
  /\ Goto(g, "record")
  /\ UNCHANGED <<hostVars, log, forkFails>>

Destroyed(g) ==
  /\ At(g, "confirm")
  /\ Goto(g, "record")
  /\ UNCHANGED <<hostVars, log, forkFails>>

(* The slip of a log that takes every initialised run for a death. *)
LogsEveryRun(g) == run[g].init

LogsDeath(g) == (run[g].init /\ run[g].rc # 0) \/ run[g].dead

(* cleanup and the line of the log. *)
Record(g) ==
  /\ At(g, "record")
  /\ log' = IF LogsDeath(g)
            THEN [log EXCEPT ![g] = Append(@, [dom   |-> run[g].target,
                                               count |-> run[g].attack])]
            ELSE log
  /\ run' = [run EXCEPT ![g].cleaned = TRUE, ![g].pc = "restore"]
  /\ UNCHANGED <<hostVars, forkFails>>

(* A second xa_destroy frees what is free already, which may abort. *)
AbortsInCleanup(g) ==
  /\ At(g, "record")
  /\ run[g].cleaned
  /\ run' = [run EXCEPT ![g] = NoRun]
  /\ UNCHANGED <<hostVars, log, forkFails>>

(* The slip of taking fork's result the wrong way round. *)
RestoresAgain(g) ==
  /\ At(g, "restore")
  /\ XmRestore(g)
  /\ Goto(g, "recover")
  /\ UNCHANGED <<log, forkFails>>

RestoreDomain(g) ==
  /\ At(g, "restore")
  /\ XmRestore(g)
  /\ run' = [run EXCEPT ![g] = NoRun]
  /\ UNCHANGED <<log, forkFails>>

RunStep(g) ==
  \/ XaInit(g) \/ XaInitFails(g) \/ PauseDomain(g)
  \/ InjectBit(g) \/ StopInjecting(g) \/ CheckGuest(g)
  \/ Recover(g) \/ Recheck(g) \/ DiesOfSigpipe(g) \/ ForkFails(g)
  \/ DestroyDomain(g) \/ ReDestroy(g) \/ Destroyed(g)
  \/ Record(g) \/ AbortsInCleanup(g) \/ RestoreDomain(g)
=============================================================================
