-------------------------- MODULE TestRandomAccess --------------------------
(***************************************************************************)
(* test_random_access.out, the injector before experiment_once.out, under  *)
(* one experiment_for_parallel.sh per guest: a process that cannot         *)
(* initialise restores the guest and tries the next domain id.             *)
(***************************************************************************)
EXTENDS XenHost, Sequences

CONSTANTS
  ATTACABLE_BYTES,  \* the flips after which a guest is given up
  Addrs,            \* the addresses rand() may draw outside the VGA hole
  Experiments,      \* ex_count of each guest's driver
  MaxForkFails,     \* bound: how often fork() may fail, over all processes
  MaxInits          \* bound: how often a process may try to initialise

ASSUME AccessAssumption ==
  /\ Experiments \in [Guests -> Nat]
  /\ {ATTACABLE_BYTES, MaxForkFails, MaxInits} \subseteq Nat
  /\ MaxInits > 0

VARIABLES
  proc,       \* the process of each guest
  drv,        \* the shell variables of each guest's driver
  log,        \* ./experiment_<guest>.log
  forkFails

accessVars == <<proc, drv, log, forkFails>>
vars == <<hostVars, accessVars>>

EX_COUNT == 1
Junk == -1        \* an uninitialised attack_count or rc
Hogehoge == -1    \* the initial dom_id_past, which no id equals

(* inits: the calls of init; dom_id is incremented in each of them.         *)
Off ==
  [pc |-> "off", dom_id |-> 0, inits |-> 0, ex_count |-> 0, init |-> FALSE,
   attack |-> Junk, seen |-> {}, rc |-> Junk]

Process ==
  [pc : {"off", "init", "inject", "check", "destroy", "confirm", "record", "restore"},
   dom_id : Nat, inits : 0..MaxInits, ex_count : {-1, 0}, init : BOOLEAN,
   attack : Nat \cup {Junk}, seen : SUBSET Addrs, rc : {0, 1, 2, Junk}]

Driver == [pc : {"boot", "list", "wait", "done", "stopped"},
           past : Nat \cup {Hogehoge}, count : Nat]

TypeOK ==
  /\ HostTypeOK
  /\ proc \in [Guests -> Process]
  /\ drv \in [Guests -> Driver] /\ \A g \in Guests : drv[g].count <= Experiments[g]
  /\ log \in [Guests -> Seq([dom : Nat, count : Nat \cup {Junk}])]
  /\ forkFails \in 0..MaxForkFails

Init ==
  /\ HostInit
  /\ proc = [g \in Guests |-> Off]
  /\ drv = [g \in Guests |-> [pc |-> "boot", past |-> Hogehoge, count |-> 0]]
  /\ log = [g \in Guests |-> <<>>]
  /\ forkFails = 0

At(g, label) == proc[g].pc = label
Goto(g, label) == proc' = [proc EXCEPT ![g].pc = label]

(* The domain of the last call of init. *)
Target(g) == proc[g].dom_id - 1

XaInit(g) ==
  /\ At(g, "init")
  /\ proc[g].inits < MaxInits
  /\ Listed(proc[g].dom_id)
  /\ proc' = [proc EXCEPT ![g].pc = "inject", ![g].init = TRUE, ![g].attack = 0,
                          ![g].rc = 0, ![g].dom_id = @ + 1, ![g].inits = @ + 1]
  /\ UNCHANGED <<hostVars, drv, log, forkFails>>

(* ex_count, an unsigned 0, wraps around: the loop will try once more. *)
XaInitFails(g) ==
  /\ At(g, "init")
  /\ proc[g].inits < MaxInits
  /\ ~Listed(proc[g].dom_id)
  /\ proc' = [proc EXCEPT ![g].pc = "destroy", ![g].init = FALSE, ![g].ex_count = @ - 1,
                          ![g].dom_id = @ + 1, ![g].inits = @ + 1]
  /\ UNCHANGED <<hostVars, drv, log, forkFails>>

(* An address hit before is not followed by a check of the guest. *)
InjectBit(g) ==
  /\ At(g, "inject")
  /\ proc[g].attack < ATTACABLE_BYTES
  /\ Listed(Target(g))
  /\ Flip(Target(g))
  /\ \E a \in Addrs :
       proc' = [proc EXCEPT ![g].attack = @ + 1, ![g].seen = @ \cup {a},
                  ![g].pc = IF a \in proc[g].seen THEN "inject" ELSE "check"]
  /\ UNCHANGED <<drv, log, forkFails>>

(* All bytes are attacked, or a page cannot be mapped, which may be any. *)
StopInjecting(g) ==
  /\ At(g, "inject")
  /\ Goto(g, "destroy")
  /\ UNCHANGED <<hostVars, drv, log, forkFails>>

Verdicts(g) == IsGuestDead(Target(g), Answers(g))

CheckGuest(g) ==
  /\ At(g, "check")
  /\ \E rc \in Verdicts(g) :
       proc' = [proc EXCEPT ![g].rc = rc, ![g].pc = IF rc = 0 THEN "inject" ELSE "destroy"]
  /\ UNCHANGED <<hostVars, drv, log, forkFails>>

(* SIGPIPE of a heart beat to a guest that has reset the connection. *)
DiesOfSigpipe(g) ==
  /\ At(g, "check")
  /\ Named(g) # {} /\ InfoOf(Target(g)) # {}
  /\ proc' = [proc EXCEPT ![g] = Off]
  /\ UNCHANGED <<hostVars, drv, log, forkFails>>

ForkFails(g) ==
  /\ proc[g].pc \in {"destroy", "restore"}
  /\ forkFails < MaxForkFails
  /\ forkFails' = forkFails + 1
  /\ Goto(g, "destroy")
  /\ UNCHANGED <<hostVars, drv, log>>

DestroyDomain(g) ==
  /\ At(g, "destroy")
  /\ XmDestroy(g)
  /\ Goto(g, "confirm")
  /\ UNCHANGED <<drv, log, forkFails>>

(* info.running = 1 sends the process back to re_destroy. *)
ReDestroy(g) ==
  /\ At(g, "confirm")
  /\ \E e \in InfoOf(Target(g)) : MayRun(e)
  /\ Goto(g, "destroy")
  /\ UNCHANGED <<hostVars, drv, log, forkFails>>

Destroyed(g) ==
  /\ At(g, "confirm")
  /\ Goto(g, "record")
  /\ UNCHANGED <<hostVars, drv, log, forkFails>>

(* The slips of a log that asks for one half of the condition only. *)
LogsEveryRun(g) == proc[g].init

LogsEveryCode(g) == proc[g].rc # 0

LogsDeath(g) == proc[g].init /\ proc[g].rc # 0

Record(g) ==
  /\ At(g, "record")
  /\ log' = IF LogsDeath(g)
            THEN [log EXCEPT ![g] = Append(@, [dom |-> Target(g), count |-> proc[g].attack])]
            ELSE log
  /\ Goto(g, "restore")
  /\ UNCHANGED <<hostVars, drv, forkFails>>

(* After a failed init ex_count has come back to 0 only: the next id's turn. *)
RestoreDomain(g) ==
  /\ At(g, "restore")
  /\ XmRestore(g)
  /\ \/ /\ proc[g].ex_count + 1 < EX_COUNT
        /\ proc' = [proc EXCEPT ![g].pc = "init", ![g].ex_count = @ + 1, ![g].seen = {}]
     \/ /\ proc[g].ex_count + 1 >= EX_COUNT
        /\ proc' = [proc EXCEPT ![g] = Off]
  /\ UNCHANGED <<drv, log, forkFails>>

ProcessStep(g) ==
  \/ XaInit(g) \/ XaInitFails(g) \/ InjectBit(g) \/ StopInjecting(g) \/ CheckGuest(g)
  \/ DiesOfSigpipe(g) \/ ForkFails(g) \/ DestroyDomain(g) \/ ReDestroy(g)
  \/ Destroyed(g) \/ Record(g) \/ RestoreDomain(g)

-----------------------------------------------------------------------------
(* experiment_for_parallel.sh <g>, whose lookup of the id is taken as exact *)
(* (Campaign models grep, which is not).                                    *)
Boot(g) ==
  /\ drv[g].pc = "boot"
  /\ XmRestore(g)
  /\ drv' = [drv EXCEPT ![g].pc = "list"]
  /\ UNCHANGED <<proc, log, forkFails>>

Ids(g) == IF Named(g) = {} THEN {0} ELSE Named(g)

(* The slip of counting from 0 to ex_count. *)
ListingOneMore(g) == drv[g].pc = "list" /\ drv[g].count <= Experiments[g]

Listing(g) == drv[g].pc = "list" /\ drv[g].count < Experiments[g]

(* Without an id the process prints its usage and is gone. *)
Launch(g) ==
  /\ Listing(g)
  /\ \E d \in Ids(g) :
       /\ drv[g].past # d
       /\ drv' = [drv EXCEPT ![g].past = d, ![g].count = @ + 1,
                             ![g].pc = IF d = 0 THEN "list" ELSE "wait"]
       /\ proc' = [proc EXCEPT ![g] =
                     IF d = 0 THEN Off ELSE [Off EXCEPT !.pc = "init", !.dom_id = d]]
  /\ UNCHANGED <<hostVars, log, forkFails>>

StopDriver(g) ==
  /\ Listing(g)
  /\ drv[g].past \in Ids(g)
  /\ drv' = [drv EXCEPT ![g].pc = "stopped"]
  /\ UNCHANGED <<hostVars, proc, log, forkFails>>

Return(g) ==
  /\ drv[g].pc = "wait"
  /\ At(g, "off")
  /\ drv' = [drv EXCEPT ![g].pc = "list"]
  /\ UNCHANGED <<hostVars, proc, log, forkFails>>

Finish(g) ==
  /\ drv[g].pc = "list"
  /\ drv[g].count = Experiments[g]
  /\ drv' = [drv EXCEPT ![g].pc = "done"]
  /\ UNCHANGED <<hostVars, proc, log, forkFails>>

DriverStep(g) == Boot(g) \/ Launch(g) \/ StopDriver(g) \/ Return(g) \/ Finish(g)

Next ==
  \/ \E g \in Guests : ProcessStep(g) \/ DriverStep(g)
  \/ HostStep /\ UNCHANGED accessVars

Spec == Init /\ [][Next]_vars

-----------------------------------------------------------------------------
(* A logged number counts flips the process has really made in the domain   *)
(* it stands for, and at least one: whatever was retried before, the count  *)
(* of an attempt that failed never gets into the log.                       *)
(* test_random_access.c:84-95 and 155-160.                                  *)
CountIsReal ==
  \A g \in Guests : \A i \in 1..Len(log[g]) :
    LET line == log[g][i]
    IN  line.dom \in DomIds /\ line.count \in 1..dom[line.dom].flips

(* No line about a domain of the process's own guest stands for one that    *)
(* was alive when it was destroyed: the condition of the log tells a death  *)
(* from an exhausted memory and from a failed init, also when the run was   *)
(* retried or has attacked another guest (test_random_access.c:86-91, 156). *)
NoSurvivorLogged ==
  \A g \in Guests : \A i \in 1..Len(log[g]) :
    LET d == log[g][i].dom
    IN  d \in DomIds /\ dom[d].owner = g => dom[d].left # "up"

(* A statement of the source that the code does not keep. *)

(* "we can assume that domain ID of new domain is same as dom_id": where    *)
(* the process goes on, the next init takes the domain just restored        *)
(* (test_random_access.c:161-162).                                          *)
NewIdIsDomId ==
  [][\A g \in Guests :
       At(g, "restore") /\ proc'[g].pc = "init" /\ nextId' # nextId
         => proc'[g].dom_id = nextId]_vars
=============================================================================
