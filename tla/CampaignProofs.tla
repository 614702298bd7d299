--------------------------- MODULE CampaignProofs ---------------------------
(***************************************************************************)
(* Theorems about Campaign, for every set of guests, every quota and every *)
(* number of runs: types, the number of lines, what a logged number means, *)
(* and that the campaign implements InjectionLedger.                       *)
(***************************************************************************)
EXTENDS Campaign, TLAPS

-----------------------------------------------------------------------------
(* The host's operations keep its variables in their types. *)

LEMMA XmRestoreType ==
  ASSUME HostTypeOK, NEW g \in Guests, XmRestore(g)
  PROVE  HostTypeOK'
<1>1. CASE UNCHANGED hostVars
  BY <1>1 DEF HostTypeOK, hostVars
<1>2. CASE /\ nextId <= MaxDom
           /\ dom' = [dom EXCEPT ![nextId] = [NoDomain EXCEPT !.owner = g, !.life = "up"]]
           /\ nextId' = nextId + 1
  <2>1. [NoDomain EXCEPT !.owner = g, !.life = "up"] \in Domain
    BY DEF NoDomain, Domain, Life
  <2>2. nextId' \in 1..(MaxDom + 1)
    BY <1>2, HostAssumption DEF HostTypeOK
  <2>3. QED
    BY <1>2, <2>1, <2>2 DEF HostTypeOK
<1>3. QED
  BY <1>1, <1>2 DEF XmRestore

LEMMA XmDestroyType ==
  ASSUME HostTypeOK, NEW g \in Guests, XmDestroy(g)
  PROVE  HostTypeOK'
<1>1. CASE UNCHANGED hostVars
  BY <1>1 DEF HostTypeOK, hostVars
<1>2. CASE XmDestroyed(g)
  <2>1. PICK d \in Named(g) :
          dom' = [dom EXCEPT ![d].life = "dying", ![d].paused = FALSE,
                             ![d].left = dom[d].life]
    BY <1>2 DEF XmDestroyed
  <2>2. d \in DomIds
    BY DEF Named
  <2>3. dom' \in [DomIds -> Domain]
    <3>1. dom[d] \in Domain /\ dom \in [DomIds -> Domain]
      BY <2>2 DEF HostTypeOK
    <3>2. [dom[d] EXCEPT !.life = "dying", !.paused = FALSE, !.left = dom[d].life] \in Domain
      BY <3>1 DEF Domain, Life
    <3>3. QED
      BY <2>1, <2>2, <3>1, <3>2
  <2>4. QED
    BY <1>2, <2>3 DEF HostTypeOK, XmDestroyed
<1>3. QED
  BY <1>1, <1>2 DEF XmDestroy

LEMMA SetPausedType ==
  ASSUME HostTypeOK, NEW d, NEW b \in BOOLEAN, SetPaused(d, b)
  PROVE  HostTypeOK'
BY DEF HostTypeOK, SetPaused, Listed, Domain, Life, DomIds

LEMMA FlipType ==
  ASSUME HostTypeOK, NEW d \in DomIds, Flip(d)
  PROVE  HostTypeOK'
BY DEF HostTypeOK, Flip, Domain, Life, DomIds

LEMMA HostStepType ==
  ASSUME HostTypeOK, HostStep
  PROVE  HostTypeOK'
BY DEF HostTypeOK, HostStep, GuestHangs, GuestCrashes, Reap, Domain, Life, DomIds

-----------------------------------------------------------------------------
(* A step of a run keeps the types of the run's variables. *)

LEMMA VerdictsType ==
  ASSUME NEW g \in Guests
  PROVE  Verdicts(g) \subseteq {0, 1, 2}
BY DEF Verdicts, IsGuestDead

LEMMA GotoType ==
  ASSUME RunTypeOK, NEW g \in Guests,
         NEW label \in {"inject", "recover", "recheck", "destroy", "confirm", "record"},
         Goto(g, label)
  PROVE  run' \in [Guests -> Run]
<1>1. run[g] \in Run
  BY DEF RunTypeOK
<1>2. [run[g] EXCEPT !.pc = label] \in Run
  BY <1>1 DEF Run
<1>3. QED
  BY <1>2 DEF Goto, RunTypeOK

(* Every action but Record changes run[g] only, to a record of the type.    *)
LEMMA RunStepType ==
  ASSUME RunTypeOK, HostTypeOK, NEW g \in Guests, RunStep(g)
  PROVE  RunTypeOK'
<1> DEFINE r == run[g]
<1>0. /\ r \in Run
      /\ run \in [Guests -> Run]
  BY DEF RunTypeOK
<1>1. NoRun \in Run
  BY DEF NoRun, Run, Junk
<1>2. CASE XaInit(g)
  BY <1>0, <1>2 DEF XaInit, RunTypeOK, Run
<1>3. CASE XaInitFails(g)
  BY <1>0, <1>3 DEF XaInitFails, Goto, RunTypeOK, Run
<1>4. CASE PauseDomain(g)
  BY <1>0, <1>4 DEF PauseDomain, Goto, RunTypeOK, Run
<1>5. CASE InjectBit(g)
  <2>1. PICK a \in Addrs :
          run' = [run EXCEPT ![g].attack = @ + 1, ![g].seen = @ \cup {a},
                    ![g].pc = IF r.pause \/ a \in r.seen THEN "inject" ELSE "check"]
    BY <1>5 DEF InjectBit
  <2>2. r.attack + 1 \in Nat \cup {Junk}
    BY <1>0 DEF Run, Junk
  <2>3. r.seen \cup {a} \in SUBSET Addrs
    BY <1>0 DEF Run
  <2>4. run' \in [Guests -> Run]
    BY <1>0, <2>1, <2>2, <2>3 DEF Run
  <2>5. QED
    BY <1>5, <2>4 DEF InjectBit, RunTypeOK
<1>6. CASE StopInjecting(g)
  BY <1>0, <1>6 DEF StopInjecting, Goto, RunTypeOK, Run
<1>7. CASE CheckGuest(g)
  <2>1. PICK v \in {0, 1, 2} :
          run' = [run EXCEPT ![g].rc = v, ![g].dead = (v # 0),
                             ![g].pc = IF v = 0 THEN "inject" ELSE "recover"]
    BY <1>7, VerdictsType DEF CheckGuest
  <2>2. CASE v = 0
    BY <1>0, <1>7, <2>1, <2>2 DEF CheckGuest, RunTypeOK, Run
  <2>3. CASE v # 0
    BY <1>0, <1>7, <2>1, <2>3 DEF CheckGuest, RunTypeOK, Run
  <2>4. QED
    BY <2>2, <2>3
<1>8. CASE Recover(g)
  <2>1. run' \in [Guests -> Run]
    BY <1>8, GotoType DEF Recover
  <2>2. QED
    BY <1>8, <2>1 DEF Recover, RunTypeOK
<1>9. CASE Recheck(g)
  <2>1. PICK v \in {0, 1, 2} :
          run' = [run EXCEPT ![g].rc = v, ![g].dead = @ \/ v # 0, ![g].pc = "destroy"]
    BY <1>9, VerdictsType DEF Recheck
  <2>2. run' \in [Guests -> Run]
    BY <1>0, <2>1 DEF Run
  <2>3. QED
    BY <1>9, <2>2 DEF Recheck, RunTypeOK
<1>10. CASE DiesOfSigpipe(g)
  BY <1>0, <1>1, <1>10 DEF DiesOfSigpipe, RunTypeOK
<1>11. CASE ForkFails(g)
  <2>1. run' \in [Guests -> Run]
    BY <1>11, GotoType DEF ForkFails
  <2>2. forkFails' \in 0..MaxForkFails
    BY <1>11, RunAssumption DEF ForkFails, RunTypeOK
  <2>3. QED
    BY <1>11, <2>1, <2>2 DEF ForkFails, RunTypeOK
<1>12. CASE DestroyDomain(g)
  BY <1>0, <1>12 DEF DestroyDomain, Goto, RunTypeOK, Run
<1>13. CASE ReDestroy(g)
  BY <1>0, <1>13 DEF ReDestroy, Goto, RunTypeOK, Run
<1>14. CASE Destroyed(g)
  BY <1>0, <1>14 DEF Destroyed, Goto, RunTypeOK, Run
<1>15. CASE Record(g)
  <2>1. [dom |-> r.target, count |-> r.attack] \in Line
    BY <1>0 DEF Run, Line
  <2>2. Append(log[g], [dom |-> r.target, count |-> r.attack]) \in Seq(Line)
    BY <2>1 DEF RunTypeOK
  <2>3. log' \in [Guests -> Seq(Line)]
    BY <1>15, <2>2 DEF Record, RunTypeOK
  <2>4. run' \in [Guests -> Run]
    BY <1>0, <1>15 DEF Record, Run
  <2>5. QED
    BY <1>15, <2>3, <2>4 DEF Record, RunTypeOK
<1>16. CASE AbortsInCleanup(g)
  BY <1>0, <1>1, <1>16 DEF AbortsInCleanup, RunTypeOK
<1>17. CASE RestoreDomain(g)
  BY <1>0, <1>1, <1>17 DEF RestoreDomain, RunTypeOK
<1>18. QED
  BY <1>2, <1>3, <1>4, <1>5, <1>6, <1>7, <1>8, <1>9, <1>10, <1>11, <1>12,
     <1>13, <1>14, <1>15, <1>16, <1>17 DEF RunStep

(* What a step of a run asks of the host keeps the host's types. *)
LEMMA RunStepHostType ==
  ASSUME RunTypeOK, HostTypeOK, NEW g \in Guests, RunStep(g)
  PROVE  HostTypeOK'
<1>1. CASE UNCHANGED hostVars
  BY <1>1 DEF HostTypeOK, hostVars
<1>2. CASE PauseDomain(g) \/ Recover(g)
  BY <1>1, <1>2, SetPausedType DEF PauseDomain, Recover
<1>3. CASE InjectBit(g)
  BY <1>3, FlipType DEF InjectBit, Listed
<1>4. CASE XmDestroy(g)
  BY <1>4, XmDestroyType
<1>5. CASE XmRestore(g)
  BY <1>5, XmRestoreType
<1>6. QED
  <2>1. \/ UNCHANGED hostVars
        \/ PauseDomain(g) \/ Recover(g)
        \/ InjectBit(g) \/ XmDestroy(g) \/ XmRestore(g)
    BY DEF RunStep, XaInit, XaInitFails, StopInjecting, CheckGuest, Recheck,
           DiesOfSigpipe, ForkFails, DestroyDomain, ReDestroy, Destroyed, Record,
           AbortsInCleanup, RestoreDomain
  <2>2. QED
    BY <1>1, <1>2, <1>3, <1>4, <1>5, <2>1

-----------------------------------------------------------------------------
(* A step of a driver keeps every type. *)

LEMMA QuotaType ==
  ASSUME NEW g \in Guests, drv[g] \in Driver
  PROVE  Quota(g) \in Nat
<1>1. /\ drv[g].launched \in Nat
      /\ RunsPerSlice \in Nat \ {0}
      /\ Slide \in Nat
  BY CampaignAssumption DEF Driver, Total
<1>2. \A a \in Nat, b \in Nat \ {0} : a \div b \in Nat
  OBVIOUS
<1>3. \A a \in Nat, b \in Nat : a * (1 + b) \in Nat
  OBVIOUS
<1>4. QED
  BY <1>1, <1>2, <1>3 DEF Quota

LEMMA LaunchType ==
  ASSUME TypeOK, NEW g \in Guests, NEW id \in Nat, NEW process \in Run,
         NEW label \in {"wait", "list"}, Listing(g), Launch(g, id, process, label)
  PROVE  TypeOK'
<1>1. drv[g].launched + 1 \in 0..Total
  BY CampaignAssumption DEF Listing, TypeOK, Driver, Total
<1>2. drv' \in [Guests -> Driver]
  BY <1>1 DEF TypeOK, Driver, Launch
<1>3. RunTypeOK'
  BY DEF Launch, TypeOK, RunTypeOK
<1>4. HostTypeOK'
  BY DEF Launch, TypeOK, HostTypeOK, hostVars
<1>5. QED
  BY <1>2, <1>3, <1>4 DEF TypeOK

LEMMA DriverStepType ==
  ASSUME TypeOK, NEW g \in Guests, DriverStep(g)
  PROVE  TypeOK'
<1>0. /\ drv \in [Guests -> Driver]
      /\ HostTypeOK /\ RunTypeOK
      /\ Quota(g) \in Nat
  BY QuotaType DEF TypeOK
<1>1. CASE Boot(g)
  <2>1. HostTypeOK'
    BY <1>0, <1>1, XmRestoreType DEF Boot
  <2>2. QED
    BY <1>0, <1>1, <2>1 DEF Boot, TypeOK, RunTypeOK, runVars, Driver
<1>2. CASE LaunchListed(g)
  <2> DEFINE process(d) == [NoRun EXCEPT !.pc = "init", !.target = d, !.ip = TRUE,
                              !.pause = (Algorithm[g] = "with_pause"), !.quota = Quota(g)]
  <2>1. PICK d \in DomIds : Launch(g, d, process(d), "wait")
    BY <1>2 DEF LaunchListed
  <2>2. process(d) \in Run
    <3>1. ASSUME NEW p \in BOOLEAN, NEW q \in Nat
          PROVE  [NoRun EXCEPT !.pc = "init", !.target = d, !.ip = TRUE,
                    !.pause = p, !.quota = q] \in Run
      <4>1. d \in Nat
        BY HostAssumption DEF DomIds
      <4>2. QED
        BY ONLY <4>1, p \in BOOLEAN, q \in Nat DEF NoRun, Run, Junk
    <3>2. (Algorithm[g] = "with_pause") \in BOOLEAN
      OBVIOUS
    <3>3. QED
      BY ONLY <1>0, <3>1, <3>2, Zenon
  <2>3. d \in Nat /\ Listing(g)
    BY <1>2, HostAssumption DEF DomIds, LaunchListed
  <2>4. QED
    BY <2>1, <2>2, <2>3, LaunchType
<1>3. CASE LaunchUnlisted(g)
  <2>1. /\ NoRun \in Run
        /\ [NoRun EXCEPT !.pc = "init", !.target = Octet, !.quota = WaitSecs] \in Run
    BY CampaignAssumption DEF NoRun, Run, Junk
  <2>2. NoId \in Nat /\ Listing(g)
    BY <1>3 DEF NoId, LaunchUnlisted
  <2>3. QED
    BY <1>3, <2>1, <2>2, LaunchType DEF LaunchUnlisted
<1>4. CASE StopDriver(g)
  BY <1>0, <1>4 DEF StopDriver, TypeOK, RunTypeOK, HostTypeOK, runVars, hostVars, Driver
<1>5. CASE Return(g)
  BY <1>0, <1>5 DEF Return, TypeOK, RunTypeOK, HostTypeOK, runVars, hostVars, Driver
<1>6. CASE Finish(g)
  BY <1>0, <1>6 DEF Finish, TypeOK, RunTypeOK, HostTypeOK, runVars, hostVars, Driver
<1>7. QED
  BY <1>1, <1>2, <1>3, <1>4, <1>5, <1>6 DEF DriverStep

-----------------------------------------------------------------------------
(* The type invariant. *)

LEMMA InitType == Init => TypeOK
<1>1. NoDomain \in Domain
  BY DEF NoDomain, Domain, Life
<1>2. NoRun \in Run
  BY DEF NoRun, Run, Junk
<1>3. 0 \in 0..Total
  BY CampaignAssumption DEF Total
<1>4. QED
  BY <1>1, <1>2, <1>3, HostAssumption, RunAssumption
     DEF Init, HostInit, RunInit, TypeOK, HostTypeOK, RunTypeOK, Driver

LEMMA NextType == TypeOK /\ [Next]_vars => TypeOK'
<1> SUFFICES ASSUME TypeOK, [Next]_vars PROVE TypeOK'
  OBVIOUS
<1>1. ASSUME NEW g \in Guests, RunStep(g), UNCHANGED drv PROVE TypeOK'
  BY <1>1, RunStepType, RunStepHostType DEF TypeOK
<1>2. ASSUME NEW g \in Guests, DriverStep(g) PROVE TypeOK'
  BY <1>2, DriverStepType
<1>3. CASE HostStep /\ UNCHANGED <<runVars, drv>>
  BY <1>3, HostStepType DEF TypeOK, RunTypeOK, runVars
<1>4. CASE UNCHANGED vars
  BY <1>4 DEF TypeOK, RunTypeOK, HostTypeOK, vars, runVars, hostVars
<1>5. QED
  BY <1>1, <1>2, <1>3, <1>4 DEF Next, AllEnded

(* Every variable keeps its type, whatever the guests, quotas and failures. *)
THEOREM TypeCorrect == Spec => []TypeOK
<1>1. Init => TypeOK
  BY InitType
<1>2. TypeOK /\ [Next]_vars => TypeOK'
  BY NextType
<1>3. QED
  BY <1>1, <1>2, PTL DEF Spec

-----------------------------------------------------------------------------
(* The log has a line at most for each run and each failed fork.  A run that *)
(* is on its way to the log owes it a line; only a failed fork can bring a   *)
(* run that has written its line back, and a driver whose process lives does *)
(* not start another.                                                       *)

Owed(r) == IF r.pc \in {"off", "restore"} THEN 0 ELSE 1

Lines(l) == Len(l)

OneProcess == \A g \in Guests : drv[g].pc # "wait" => At(g, "off")

LinesOwed == \A g \in Guests : Lines(log[g]) + Owed(run[g]) <= drv[g].launched + forkFails

LinesInv == TypeOK /\ OneProcess /\ LinesOwed

LEMMA InitLines == Init => LinesInv
<1> SUFFICES ASSUME Init PROVE LinesInv
  OBVIOUS
<1>1. \A g \in Guests : /\ log[g] = <<>> /\ run[g].pc = "off"
                        /\ drv[g].launched = 0 /\ forkFails = 0
  BY DEF Init, RunInit, NoRun
<1>2. OneProcess
  BY <1>1 DEF OneProcess, At
<1>3. \A g \in Guests : Owed(run[g]) = 0 /\ Lines(log[g]) = 0
  BY <1>1 DEF Owed, Lines
<1>4. LinesOwed
  BY <1>1, <1>3 DEF LinesOwed
<1>5. QED
  BY <1>2, <1>4, InitType DEF LinesInv

(* A step of g's run leaves the other runs and logs alone, takes place only *)
(* while the process lives, and pays a line only from what is owed.         *)
LEMMA RunStepLines ==
  ASSUME LinesInv, NEW g \in Guests, RunStep(g)
  PROVE  /\ run[g].pc # "off"
         /\ \A h \in Guests \ {g} : run'[h] = run[h] /\ log'[h] = log[h]
         /\ forkFails' >= forkFails
         /\ Lines(log'[g]) + Owed(run'[g]) + forkFails <= Lines(log[g]) + Owed(run[g]) + forkFails'
<1>0. /\ run \in [Guests -> Run] /\ log \in [Guests -> Seq(Line)]
      /\ forkFails \in Nat /\ Lines(log[g]) \in Nat
  BY RunAssumption DEF LinesInv, TypeOK, RunTypeOK, Lines
<1>1. CASE Record(g)
  <2>1. /\ run[g].pc = "record" /\ run'[g].pc = "restore"
        /\ \A h \in Guests \ {g} : run'[h] = run[h] /\ log'[h] = log[h]
    BY <1>0, <1>1 DEF Record, At, Run
  <2>2. Lines(log'[g]) <= Lines(log[g]) + 1
    BY <1>0, <1>1 DEF Record, Lines
  <2>3. Lines(log'[g]) \in Nat
    BY <1>0, <1>1 DEF Record, Lines
  <2>4. QED
    BY <1>0, <1>1, <2>1, <2>2, <2>3 DEF Record, Owed
<1>2. CASE ForkFails(g)
  BY <1>0, <1>2 DEF ForkFails, Goto, Owed, Run
<1>3. ASSUME run[g].pc \notin {"off", "restore"} \/ (run[g].pc = "restore" /\ run'[g].pc = "off"),
             UNCHANGED <<log, forkFails>>, \A h \in Guests \ {g} : run'[h] = run[h]
      PROVE  /\ run[g].pc # "off"
             /\ \A h \in Guests \ {g} : run'[h] = run[h] /\ log'[h] = log[h]
             /\ forkFails' >= forkFails
             /\ Lines(log'[g]) + Owed(run'[g]) + forkFails <= Lines(log[g]) + Owed(run[g]) + forkFails'
  BY <1>0, <1>3 DEF Owed
<1>4. CASE XaInit(g) \/ XaInitFails(g) \/ PauseDomain(g) \/ StopInjecting(g)
  BY <1>0, <1>3, <1>4 DEF XaInit, XaInitFails, PauseDomain, StopInjecting, At, Goto
<1>5. CASE InjectBit(g) \/ CheckGuest(g) \/ Recheck(g)
  BY <1>0, <1>3, <1>5 DEF InjectBit, CheckGuest, Recheck, At
<1>6. CASE Recover(g) \/ DestroyDomain(g) \/ ReDestroy(g) \/ Destroyed(g)
  BY <1>0, <1>3, <1>6 DEF Recover, DestroyDomain, ReDestroy, Destroyed, At, Goto
<1>7. CASE DiesOfSigpipe(g) \/ AbortsInCleanup(g) \/ RestoreDomain(g)
  BY <1>0, <1>3, <1>7 DEF DiesOfSigpipe, AbortsInCleanup, RestoreDomain, At, NoRun
<1>8. QED
  BY <1>1, <1>2, <1>4, <1>5, <1>6, <1>7 DEF RunStep

LEMMA NextLines == LinesInv /\ [Next]_vars => LinesInv'
<1> SUFFICES ASSUME LinesInv, [Next]_vars PROVE LinesInv'
  OBVIOUS
<1>0. /\ TypeOK'
      /\ run \in [Guests -> Run] /\ drv \in [Guests -> Driver]
      /\ forkFails \in Nat /\ forkFails' \in Nat
      /\ \A g \in Guests : /\ Lines(log[g]) \in Nat /\ Lines(log'[g]) \in Nat
                           /\ drv[g].launched \in Nat /\ drv'[g].launched \in Nat
  BY NextType, RunAssumption, CampaignAssumption
     DEF LinesInv, TypeOK, RunTypeOK, Driver, Total, Lines
<1>1. ASSUME NEW g \in Guests, RunStep(g), UNCHANGED drv
      PROVE  OneProcess' /\ LinesOwed'
  <2>1. /\ run[g].pc # "off"
        /\ \A h \in Guests \ {g} : run'[h] = run[h] /\ log'[h] = log[h]
        /\ forkFails' >= forkFails
        /\ Lines(log'[g]) + Owed(run'[g]) + forkFails <= Lines(log[g]) + Owed(run[g]) + forkFails'
    BY <1>1, RunStepLines
  <2>2. OneProcess'
    BY <1>1, <2>1 DEF LinesInv, OneProcess, At
  <2>3. Lines(log'[g]) + Owed(run'[g]) <= drv'[g].launched + forkFails'
    <3>1. Owed(run[g]) \in 0..1 /\ Owed(run'[g]) \in 0..1
      BY DEF Owed
    <3>2. Lines(log[g]) + Owed(run[g]) <= drv[g].launched + forkFails
      BY DEF LinesInv, LinesOwed
    <3>3. /\ Lines(log[g]) \in Nat /\ Lines(log'[g]) \in Nat
          /\ drv[g].launched \in Nat /\ drv'[g].launched = drv[g].launched
          /\ forkFails \in Nat /\ forkFails' \in Nat
      BY <1>0, <1>1
    <3>4. Lines(log'[g]) + Owed(run'[g]) + forkFails <= Lines(log[g]) + Owed(run[g]) + forkFails'
      BY <2>1
    <3>5. QED
      BY <3>1, <3>2, <3>3, <3>4
  <2>4. \A h \in Guests \ {g} : Lines(log'[h]) + Owed(run'[h]) <= drv'[h].launched + forkFails'
    <3>1. \A h \in Guests \ {g} : Owed(run'[h]) = Owed(run[h]) /\ Owed(run[h]) \in 0..1
      BY <2>1 DEF Owed
    <3>2. \A h \in Guests : Lines(log[h]) + Owed(run[h]) <= drv[h].launched + forkFails
      BY DEF LinesInv, LinesOwed
    <3>3. TAKE h \in Guests \ {g}
    <3>4. /\ log'[h] = log[h] /\ Owed(run'[h]) = Owed(run[h]) /\ Owed(run[h]) \in 0..1
          /\ drv'[h] = drv[h] /\ forkFails' >= forkFails
          /\ Lines(log[h]) + Owed(run[h]) <= drv[h].launched + forkFails
          /\ Lines(log[h]) \in Nat /\ drv[h].launched \in Nat
      BY <1>0, <1>1, <2>1, <3>1, <3>2
    <3>5. QED
      BY <1>0, <3>4
  <2>5. QED
    BY <2>2, <2>3, <2>4 DEF LinesOwed
<1>2. ASSUME NEW g \in Guests, DriverStep(g)
      PROVE  OneProcess' /\ LinesOwed'
  <2>1. /\ \A h \in Guests \ {g} : drv'[h] = drv[h] /\ run'[h] = run[h]
        /\ UNCHANGED <<log, forkFails>>
    BY <1>0, <1>2 DEF DriverStep, Boot, LaunchListed, LaunchUnlisted, StopDriver,
                      Return, Finish, Launch, runVars
  <2>2. CASE LaunchListed(g) \/ LaunchUnlisted(g)
    <3>1. /\ drv[g].pc = "list"
          /\ run[g].pc = "off"
          /\ drv'[g].launched = drv[g].launched + 1
          /\ drv'[g].pc # "wait" => run'[g].pc = "off"
      <4>1. CASE LaunchListed(g)
        BY <1>0, <4>1 DEF LaunchListed, Listing, Launch, LinesInv, OneProcess, At, Driver
      <4>2. CASE LaunchUnlisted(g)
        BY <1>0, <4>2 DEF LaunchUnlisted, Listing, Launch, LinesInv, OneProcess, At,
                          Driver, NoRun
      <4>3. QED
        BY <2>2, <4>1, <4>2
    <3>2. OneProcess'
      BY <2>1, <3>1 DEF LinesInv, OneProcess, At
    <3>3. \A h \in Guests \ {g} : Owed(run'[h]) = Owed(run[h])
      BY <2>1 DEF Owed
    <3>4. Owed(run[g]) = 0 /\ Owed(run'[g]) \in 0..1
      BY <3>1 DEF Owed
    <3>5. ASSUME NEW h \in Guests
          PROVE  Lines(log'[h]) + Owed(run'[h]) <= drv'[h].launched + forkFails'
      <4>1. Lines(log[h]) + Owed(run[h]) <= drv[h].launched + forkFails
        BY DEF LinesInv, LinesOwed
      <4>2. CASE h = g
        BY <1>0, <2>1, <3>1, <3>4, <4>1, <4>2
      <4>3. CASE h # g
        BY <1>0, <2>1, <3>3, <4>1, <4>3
      <4>4. QED
        BY <4>2, <4>3
    <3>6. QED
      BY <3>2, <3>5 DEF LinesOwed
  <2>3. CASE Boot(g) \/ StopDriver(g) \/ Return(g) \/ Finish(g)
    <3>1. /\ UNCHANGED run
          /\ drv'[g].launched = drv[g].launched
          /\ run[g].pc = "off"
      BY <1>0, <2>3 DEF Boot, StopDriver, Return, Finish, Listing, runVars, LinesInv,
                        OneProcess, At, Driver
    <3>2. QED
      BY <1>0, <2>1, <3>1 DEF LinesInv, OneProcess, LinesOwed, At, Owed
  <2>4. QED
    BY <1>2, <2>2, <2>3 DEF DriverStep
<1>3. ASSUME UNCHANGED <<runVars, drv>>
      PROVE  OneProcess' /\ LinesOwed'
  BY <1>3 DEF LinesInv, OneProcess, LinesOwed, At, Owed, runVars
<1>4. \/ \E g \in Guests : RunStep(g) /\ UNCHANGED drv
      \/ \E g \in Guests : DriverStep(g)
      \/ UNCHANGED <<runVars, drv>>
  BY DEF Next, AllEnded, vars
<1>5. OneProcess' /\ LinesOwed'
  BY <1>1, <1>2, <1>3, <1>4
<1>6. QED
  BY <1>0, <1>5 DEF LinesInv

(* A log of n lines shows at least n runs, but for those that came back to  *)
(* it after a fork failed (experiment_once.c:138-167).                      *)
THEOREM LinesPerRunHolds == Spec => []LinesPerRun
<1>1. LinesInv => LinesPerRun
  <2> SUFFICES ASSUME LinesInv, NEW g \in Guests
               PROVE  Lines(log[g]) <= drv[g].launched + forkFails
    BY DEF LinesPerRun, Lines
  <2>1. /\ Lines(log[g]) \in Nat /\ drv[g].launched \in Nat /\ forkFails \in Nat
    BY RunAssumption, CampaignAssumption DEF LinesInv, TypeOK, RunTypeOK, Driver, Total, Lines
  <2>2. Lines(log[g]) + Owed(run[g]) <= drv[g].launched + forkFails
    BY DEF LinesInv, LinesOwed
  <2>3. Owed(run[g]) \in 0..1
    BY DEF Owed
  <2>4. QED
    BY <2>1, <2>2, <2>3
<1>2. QED
  BY <1>1, InitLines, NextLines, PTL DEF Spec

-----------------------------------------------------------------------------
(* What a logged number means, where the guests' names do not contain each *)
(* other and no address is taken for a domain id: FreshVictim and          *)
(* CountIsTotalDamage.                                                     *)

(* The two preconditions.  The drivers are started with names such as       *)
(* centos0 and winxp; and either none of them runs with_pause, or the host's *)
(* ids stay below the first number of the addresses.                        *)
OwnNames == Contains = {<<g, g>> : g \in Guests}

AddressIsNoId ==
  (\E g \in Guests : Algorithm[g] = "with_pause") => Octet \notin DomIds

-----------------------------------------------------------------------------
(* The inductive invariant. *)

LinesIn(l) == {l[i] : i \in 1..Len(l)}

(* Ids the host has not allocated yet belong to nobody. *)
HostFresh == \A d \in DomIds : d >= nextId => dom[d] = NoDomain

(* A run attacks a domain of its guest, the one its driver remembers. *)
TargetIsPast ==
  \A g \in Guests : run[g].target \in DomIds =>
    drv[g].past = run[g].target /\ dom[run[g].target].owner = g

(* Of the domains that received a flip, a guest has one left at most, and   *)
(* its driver remembers it.                                                 *)
UsedIsPast ==
  \A d \in DomIds, g \in Guests :
    Listed(d) /\ dom[d].owner = g /\ dom[d].flips > 0 => drv[g].past = d

(* So with the domains the log tells of. *)
LoggedIsPast ==
  \A g \in Guests : \A l \in LinesIn(log[g]) : l.dom \in DomIds =>
    dom[l.dom].owner = g /\ (Listed(l.dom) => drv[g].past = l.dom)

(* Places of a run before its line, those after the initialisation first.   *)
Injecting == {"pause", "inject", "check"}
Early == Injecting \cup {"init"}

(* A run that may still inject attacks a domain the log does not tell of.   *)
EarlyIsUnlogged ==
  \A g \in Guests : run[g].pc \in Early =>
    \A l \in LinesIn(log[g]) : l.dom \in DomIds => l.dom # run[g].target

(* attack_count counts the flips of the domain, from its first one on.      *)
CountFits ==
  \A g \in Guests :
    /\ run[g].attack # Junk =>
         run[g].target \in DomIds /\ run[g].attack = dom[run[g].target].flips
    /\ run[g].pc \in Injecting => run[g].attack # Junk
    /\ run[g].pc = "init" /\ run[g].target \in DomIds => dom[run[g].target].flips = 0

LinesAreWhole ==
  \A g \in Guests : \A l \in LinesIn(log[g]) :
    l.count # Junk => l.dom \in DomIds /\ l.count = dom[l.dom].flips

DamageInv ==
  /\ TypeOK /\ HostFresh /\ TargetIsPast /\ UsedIsPast
  /\ LoggedIsPast /\ EarlyIsUnlogged /\ CountFits /\ LinesAreWhole

-----------------------------------------------------------------------------
(* Calm steps: no flip, no start of a run, no line. *)

(* The host neither changes a domain's flips nor gives a known domain       *)
(* another owner or its name back.                                          *)
HostKept ==
  /\ \A d \in DomIds : dom'[d].flips = dom[d].flips
  /\ \A d \in DomIds : d < nextId =>
       dom'[d].owner = dom[d].owner /\ (Listed(d)' => Listed(d))
  /\ HostFresh'

(* r goes on as s: with the same target and count, and never back.          *)
GoesOn(r, s) ==
  \/ s = NoRun
  \/ /\ s.target = r.target
     /\ s.attack = r.attack
     /\ s.pc = "init" => r.pc = "init"
     /\ s.pc \in Injecting => r.pc \in Injecting

RunsKept == \A g \in Guests : GoesOn(run[g], run'[g])

PastKept == \A g \in Guests : drv'[g].past = drv[g].past

LEMMA XmRestoreKept ==
  ASSUME TypeOK, HostFresh, NEW g \in Guests, XmRestore(g)
  PROVE  HostKept
<1>0. /\ dom \in [DomIds -> Domain] /\ nextId \in 1..(MaxDom + 1)
      /\ MaxDom \in Nat /\ DomIds = 1..MaxDom
  BY HostAssumption DEF TypeOK, HostTypeOK, DomIds
<1>1. CASE UNCHANGED hostVars
  BY <1>1 DEF HostKept, HostFresh, Listed, hostVars
<1>2. CASE /\ nextId <= MaxDom
           /\ dom' = [dom EXCEPT ![nextId] = [NoDomain EXCEPT !.owner = g, !.life = "up"]]
           /\ nextId' = nextId + 1
  <2>1. /\ nextId \in DomIds
        /\ dom[nextId] = NoDomain
        /\ dom'[nextId].flips = 0
        /\ \A d \in DomIds : d # nextId => dom'[d] = dom[d]
    BY <1>0, <1>2 DEF HostFresh, NoDomain
  <2>2. NoDomain.flips = 0
    BY DEF NoDomain
  <2>3. HostFresh'
    BY <1>0, <1>2, <2>1 DEF HostFresh
  <2>4. QED
    BY <1>0, <2>1, <2>2, <2>3 DEF HostKept, Listed
<1>3. QED
  BY <1>1, <1>2 DEF XmRestore

LEMMA XmDestroyKept ==
  ASSUME TypeOK, HostFresh, NEW g \in Guests, XmDestroy(g)
  PROVE  HostKept
<1>0. dom \in [DomIds -> Domain] /\ NoDomain.life = "gone"
  BY DEF TypeOK, HostTypeOK, NoDomain
<1>1. CASE UNCHANGED hostVars
  BY <1>1 DEF HostKept, HostFresh, Listed, hostVars
<1>2. CASE XmDestroyed(g)
  <2>1. PICK d \in Named(g) :
          dom' = [dom EXCEPT ![d].life = "dying", ![d].paused = FALSE,
                             ![d].left = dom[d].life]
    BY <1>2 DEF XmDestroyed
  <2>2. d \in DomIds /\ Listed(d) /\ dom[d] # NoDomain
    BY <1>0 DEF Named, Listed
  <2>3. HostFresh'
    BY <1>0, <1>2, <2>1, <2>2 DEF HostFresh, XmDestroyed
  <2>4. QED
    BY <1>0, <2>1, <2>2, <2>3 DEF HostKept, Listed, Domain
<1>3. QED
  BY <1>1, <1>2 DEF XmDestroy

LEMMA SetPausedKept ==
  ASSUME TypeOK, HostFresh, NEW d, NEW b \in BOOLEAN, SetPaused(d, b)
  PROVE  HostKept
<1>0. dom \in [DomIds -> Domain] /\ NoDomain.life = "gone"
  BY DEF TypeOK, HostTypeOK, NoDomain
<1>1. CASE ~Listed(d)
  BY <1>1 DEF SetPaused, HostKept, HostFresh, Listed
<1>2. CASE Listed(d)
  <2>1. d \in DomIds /\ dom[d] # NoDomain /\ dom' = [dom EXCEPT ![d].paused = b]
    BY <1>0, <1>2 DEF Listed, SetPaused
  <2>2. HostFresh'
    BY <1>0, <2>1 DEF HostFresh, SetPaused
  <2>3. QED
    BY <1>0, <2>1, <2>2 DEF HostKept, Listed, Domain
<1>3. QED
  BY <1>1, <1>2

LEMMA HostStepKept ==
  ASSUME TypeOK, HostFresh, HostStep
  PROVE  HostKept
<1>0. dom \in [DomIds -> Domain] /\ NoDomain.life = "gone"
  BY DEF TypeOK, HostTypeOK, NoDomain
<1>1. PICK d \in DomIds : GuestHangs(d) \/ GuestCrashes(d) \/ Reap(d)
  BY DEF HostStep
<1>2. dom[d] # NoDomain /\ nextId' = nextId
  BY <1>0, <1>1 DEF GuestHangs, GuestCrashes, Reap
<1>3. HostFresh'
  BY <1>0, <1>1, <1>2 DEF HostFresh, GuestHangs, GuestCrashes, Reap
<1>4. QED
  BY <1>0, <1>1, <1>3 DEF HostKept, Listed, Domain, GuestHangs, GuestCrashes, Reap

(* A calm step keeps the invariant. *)
LEMMA CalmStep ==
  ASSUME DamageInv, TypeOK', HostKept, RunsKept, PastKept, UNCHANGED log
  PROVE  DamageInv'
<1>0. /\ dom \in [DomIds -> Domain] /\ dom' \in [DomIds -> Domain]
      /\ nextId \in Int /\ DomIds \subseteq Nat
      /\ NoRun.target \notin DomIds /\ NoRun.attack = Junk /\ NoRun.pc = "off"
      /\ NoDomain.owner = NoGuest /\ NoDomain.flips = 0 /\ NoGuest \notin Guests
  BY HostAssumption DEF DamageInv, TypeOK, HostTypeOK, DomIds, NoRun, NoDomain
<1>1. \A d \in DomIds : dom[d].owner \in Guests \/ dom[d].flips > 0 => d < nextId
  BY <1>0 DEF DamageInv, HostFresh
<1>2. TargetIsPast'
  <2> SUFFICES ASSUME NEW g \in Guests, run'[g].target \in DomIds
               PROVE  drv'[g].past = run'[g].target /\ dom'[run'[g].target].owner = g
    BY DEF TargetIsPast
  <2>1. run'[g].target = run[g].target
    BY <1>0 DEF RunsKept, GoesOn
  <2>2. drv[g].past = run[g].target /\ dom[run[g].target].owner = g
    BY <2>1 DEF DamageInv, TargetIsPast
  <2>3. run[g].target < nextId
    BY <1>1, <2>1, <2>2
  <2>4. QED
    BY <2>1, <2>2, <2>3 DEF HostKept, PastKept
<1>3. UsedIsPast'
  BY <1>0, <1>1 DEF DamageInv, UsedIsPast, HostKept, PastKept
<1>4. LoggedIsPast'
  BY <1>0, <1>1 DEF DamageInv, LoggedIsPast, HostKept, PastKept
<1>5. EarlyIsUnlogged'
  BY <1>0 DEF DamageInv, EarlyIsUnlogged, RunsKept, GoesOn, Early, Injecting
<1>6. CountFits'
  <2> SUFFICES ASSUME NEW g \in Guests
               PROVE  /\ run'[g].attack # Junk =>
                           run'[g].target \in DomIds /\ run'[g].attack = dom'[run'[g].target].flips
                      /\ run'[g].pc \in Injecting => run'[g].attack # Junk
                      /\ run'[g].pc = "init" /\ run'[g].target \in DomIds =>
                           dom'[run'[g].target].flips = 0
    BY DEF CountFits
  <2>1. CASE run'[g] = NoRun
    BY <1>0, <2>1 DEF Injecting
  <2>2. CASE run'[g] # NoRun
    <3>1. /\ run'[g].target = run[g].target
          /\ run'[g].attack = run[g].attack
          /\ run'[g].pc = "init" => run[g].pc = "init"
          /\ run'[g].pc \in Injecting => run[g].pc \in Injecting
      BY <2>2 DEF RunsKept, GoesOn
    <3>2. QED
      BY <3>1 DEF DamageInv, CountFits, HostKept
  <2>3. QED
    BY <2>1, <2>2
<1>7. LinesAreWhole'
  BY DEF DamageInv, LinesAreWhole, HostKept
<1>8. QED
  BY <1>2, <1>3, <1>4, <1>5, <1>6, <1>7 DEF DamageInv, HostKept

LEMMA HostUnchangedKept ==
  ASSUME HostFresh, UNCHANGED hostVars
  PROVE  HostKept
BY DEF HostKept, HostFresh, Listed, hostVars

-----------------------------------------------------------------------------
(* The steps of a run. *)

(* Only run[g] changes, and to a record it may go on as. *)
LEMMA OneRunKept ==
  ASSUME TypeOK, NEW g \in Guests, NEW s, GoesOn(run[g], s), run' = [run EXCEPT ![g] = s]
  PROVE  RunsKept
BY DEF TypeOK, RunTypeOK, RunsKept, GoesOn

(* A jump that does not lead back into the injection. *)
LEMMA GotoKept ==
  ASSUME TypeOK, NEW g \in Guests, NEW label, Goto(g, label), label # "init",
         label \in Injecting => run[g].pc \in Injecting
  PROVE  RunsKept
<1>1. run[g] \in Run
  BY DEF TypeOK, RunTypeOK
<1>2. GoesOn(run[g], [run[g] EXCEPT !.pc = label])
  BY <1>1 DEF GoesOn, Run
<1>3. run' = [run EXCEPT ![g] = [run[g] EXCEPT !.pc = label]]
  BY DEF Goto
<1>4. QED
  BY <1>2, <1>3, OneRunKept

LEMMA RunStepCalm ==
  ASSUME DamageInv, NEW g \in Guests, RunStep(g), UNCHANGED drv,
         ~XaInit(g), ~InjectBit(g), ~Record(g)
  PROVE  HostKept /\ RunsKept /\ PastKept /\ UNCHANGED log
<1>0. TypeOK /\ HostFresh /\ run[g] \in Run /\ PastKept
  BY DEF DamageInv, TypeOK, RunTypeOK, PastKept
<1>1. CASE XaInitFails(g) \/ StopInjecting(g) \/ ReDestroy(g) \/ Destroyed(g)
  BY <1>0, <1>1, GotoKept, HostUnchangedKept
     DEF XaInitFails, StopInjecting, ReDestroy, Destroyed, Injecting
<1>2. CASE ForkFails(g)
  BY <1>0, <1>2, GotoKept, HostUnchangedKept DEF ForkFails, Injecting
<1>3. CASE PauseDomain(g)
  BY <1>0, <1>3, GotoKept, SetPausedKept DEF PauseDomain, Injecting, At
<1>4. CASE Recover(g)
  BY <1>0, <1>4, GotoKept, SetPausedKept, HostUnchangedKept DEF Recover, Injecting
<1>5. CASE DestroyDomain(g)
  BY <1>0, <1>5, GotoKept, XmDestroyKept DEF DestroyDomain, Injecting
<1>6. CASE CheckGuest(g)
  <2>1. PICK v \in Verdicts(g) :
          run' = [run EXCEPT ![g].rc = v, ![g].dead = (v # 0),
                             ![g].pc = IF v = 0 THEN "inject" ELSE "recover"]
    BY <1>6 DEF CheckGuest
  <2> DEFINE s == [run[g] EXCEPT !.rc = v, !.dead = (v # 0),
                                 !.pc = IF v = 0 THEN "inject" ELSE "recover"]
  <2>2. GoesOn(run[g], s)
    BY <1>0, <1>6 DEF GoesOn, Run, CheckGuest, At, Injecting
  <2>3. run' = [run EXCEPT ![g] = s]
    BY <2>1
  <2>4. RunsKept
    BY ONLY <1>0, <2>2, <2>3, OneRunKept
  <2>5. QED
    BY <1>0, <1>6, <2>4, HostUnchangedKept DEF CheckGuest
<1>7. CASE Recheck(g)
  <2>1. PICK v \in Verdicts(g) :
          run' = [run EXCEPT ![g].rc = v, ![g].dead = @ \/ v # 0, ![g].pc = "destroy"]
    BY <1>7 DEF Recheck
  <2> DEFINE s == [run[g] EXCEPT !.rc = v, !.dead = @ \/ v # 0, !.pc = "destroy"]
  <2>2. GoesOn(run[g], s)
    BY <1>0 DEF GoesOn, Run, Injecting
  <2>3. run' = [run EXCEPT ![g] = s]
    BY <2>1
  <2>4. RunsKept
    BY ONLY <1>0, <2>2, <2>3, OneRunKept
  <2>5. QED
    BY <1>0, <1>7, <2>4, HostUnchangedKept DEF Recheck
<1>8. CASE DiesOfSigpipe(g) \/ AbortsInCleanup(g)
  BY <1>0, <1>8, OneRunKept, HostUnchangedKept DEF DiesOfSigpipe, AbortsInCleanup, GoesOn
<1>9. CASE RestoreDomain(g)
  BY <1>0, <1>9, OneRunKept, XmRestoreKept DEF RestoreDomain, GoesOn
<1>10. QED
  BY <1>1, <1>2, <1>3, <1>4, <1>5, <1>6, <1>7, <1>8, <1>9 DEF RunStep

(* A run that is initialised starts to count on an intact domain. *)
LEMMA XaInitDamage ==
  ASSUME DamageInv, TypeOK', NEW g \in Guests, XaInit(g), UNCHANGED drv
  PROVE  DamageInv'
<1>0. /\ run \in [Guests -> Run] /\ run[g] \in Run
      /\ run[g].pc = "init" /\ run[g].target \in DomIds
      /\ UNCHANGED <<dom, nextId, log, drv>>
  BY DEF DamageInv, TypeOK, RunTypeOK, XaInit, At, Listed, hostVars
<1>1. /\ \A h \in Guests : run'[h].target = run[h].target
      /\ \A h \in Guests \ {g} : run'[h] = run[h]
      /\ run'[g].attack = 0
      /\ run'[g].pc \in Injecting
  BY <1>0 DEF XaInit, Run, Injecting
<1>2. HostFresh' /\ TargetIsPast' /\ UsedIsPast' /\ LoggedIsPast' /\ LinesAreWhole'
  BY <1>0, <1>1 DEF DamageInv, HostFresh, TargetIsPast, UsedIsPast, LoggedIsPast,
                    LinesAreWhole, Listed
<1>3. EarlyIsUnlogged'
  BY <1>0, <1>1 DEF DamageInv, EarlyIsUnlogged, Early
<1>4. CountFits'
  BY <1>0, <1>1 DEF DamageInv, CountFits, Injecting, Junk
<1>5. QED
  BY <1>2, <1>3, <1>4 DEF DamageInv

(* A flip and its count: no other run and no line is about this domain. *)
LEMMA InjectBitDamage ==
  ASSUME DamageInv, TypeOK', NEW g \in Guests, InjectBit(g), UNCHANGED drv
  PROVE  DamageInv'
<1> DEFINE t == run[g].target
<1>0. /\ run \in [Guests -> Run] /\ run[g] \in Run /\ dom \in [DomIds -> Domain]
      /\ run[g].pc = "inject" /\ t \in DomIds /\ Listed(t)
      /\ UNCHANGED <<nextId, log, drv>>
      /\ dom' = [dom EXCEPT ![t].flips = @ + 1]
  BY DEF DamageInv, TypeOK, RunTypeOK, HostTypeOK, InjectBit, At, Listed, Flip
<1>1. /\ \A h \in Guests : run'[h].target = run[h].target
      /\ \A h \in Guests \ {g} : run'[h] = run[h]
      /\ run'[g].attack = run[g].attack + 1
      /\ run'[g].pc \in Injecting
  BY <1>0 DEF InjectBit, Run, Injecting
<1>2. /\ \A d \in DomIds : dom'[d].owner = dom[d].owner /\ dom'[d].life = dom[d].life
      /\ \A d \in DomIds \ {t} : dom'[d] = dom[d]
      /\ dom'[t].flips = dom[t].flips + 1
      /\ dom[t].flips \in Nat
  BY <1>0 DEF Domain
<1>3. drv[g].past = t /\ dom[t].owner = g
  BY <1>0 DEF DamageInv, TargetIsPast
<1>4. HostFresh'
  <2>1. NoDomain.life = "gone"
    BY DEF NoDomain
  <2>2. dom[t] # NoDomain
    BY <1>0, <2>1 DEF Listed
  <2>3. QED
    BY <1>0, <1>2, <2>2 DEF DamageInv, HostFresh
<1>5. TargetIsPast'
  BY <1>0, <1>1, <1>2 DEF DamageInv, TargetIsPast
<1>6. UsedIsPast'
  BY <1>0, <1>2, <1>3 DEF DamageInv, UsedIsPast, Listed
<1>7. LoggedIsPast'
  BY <1>0, <1>2 DEF DamageInv, LoggedIsPast, Listed
<1>8. EarlyIsUnlogged'
  BY <1>0, <1>1 DEF DamageInv, EarlyIsUnlogged, Early, Injecting
<1>9. CountFits'
  <2>1. run[g].attack # Junk /\ run[g].attack = dom[t].flips
    BY <1>0 DEF DamageInv, CountFits, Injecting
  <2>2. \A h \in Guests \ {g} : run[h].target \in DomIds => run[h].target # t
    BY <1>3 DEF DamageInv, TargetIsPast
  <2>3. run'[g].attack # Junk /\ run'[g].attack = dom'[t].flips
    BY <1>1, <1>2, <2>1 DEF Junk
  <2> SUFFICES ASSUME NEW h \in Guests
               PROVE  /\ run'[h].attack # Junk =>
                           run'[h].target \in DomIds /\ run'[h].attack = dom'[run'[h].target].flips
                      /\ run'[h].pc \in Injecting => run'[h].attack # Junk
                      /\ run'[h].pc = "init" /\ run'[h].target \in DomIds =>
                           dom'[run'[h].target].flips = 0
    BY DEF CountFits
  <2>4. CASE h = g
    BY <1>0, <1>1, <2>3, <2>4 DEF Injecting
  <2>5. CASE h # g
    BY <1>1, <1>2, <2>2, <2>5 DEF DamageInv, CountFits
  <2>6. QED
    BY <2>4, <2>5
<1>10. LinesAreWhole'
  <2>1. \A h \in Guests : \A l \in LinesIn(log[h]) : l.dom \in DomIds => l.dom # t
    BY <1>0, <1>3 DEF DamageInv, EarlyIsUnlogged, LoggedIsPast, Early, Injecting
  <2>2. QED
    BY <1>0, <1>2, <2>1 DEF DamageInv, LinesAreWhole
<1>11. QED
  BY <1>4, <1>5, <1>6, <1>7, <1>8, <1>9, <1>10 DEF DamageInv

LEMMA LinesInAppend ==
  ASSUME NEW S, NEW l \in Seq(S), NEW e \in S
  PROVE  LinesIn(Append(l, e)) = LinesIn(l) \cup {e}
BY DEF LinesIn

(* A line is whole when it is written, and the run no longer injects. *)
LEMMA RecordDamage ==
  ASSUME DamageInv, TypeOK', NEW g \in Guests, Record(g), UNCHANGED drv
  PROVE  DamageInv'
<1> DEFINE line == [dom |-> run[g].target, count |-> run[g].attack]
<1>0. /\ run \in [Guests -> Run] /\ run[g] \in Run /\ log \in [Guests -> Seq(Line)]
      /\ run[g].pc = "record" /\ line \in Line
      /\ UNCHANGED <<dom, nextId, drv>>
  BY DEF DamageInv, TypeOK, RunTypeOK, Record, At, hostVars, Run, Line
<1>1. RunsKept
  <2>1. GoesOn(run[g], [run[g] EXCEPT !.cleaned = TRUE, !.pc = "restore"])
    BY <1>0 DEF GoesOn, Run, Injecting
  <2>2. run' = [run EXCEPT ![g] = [run[g] EXCEPT !.cleaned = TRUE, !.pc = "restore"]]
    BY DEF Record
  <2>3. QED
    BY <2>1, <2>2, OneRunKept DEF DamageInv
<1>2. CASE UNCHANGED log
  BY <1>0, <1>1, <1>2, HostUnchangedKept, CalmStep DEF DamageInv, PastKept, hostVars
<1>3. CASE log' = [log EXCEPT ![g] = Append(@, line)]
  <2>1. /\ LinesIn(log'[g]) = LinesIn(log[g]) \cup {line}
        /\ \A h \in Guests \ {g} : LinesIn(log'[h]) = LinesIn(log[h])
    BY <1>0, <1>3, LinesInAppend
  <2>2. /\ \A h \in Guests : run'[h].target = run[h].target /\ run'[h].attack = run[h].attack
        /\ \A h \in Guests \ {g} : run'[h] = run[h]
        /\ run'[g].pc = "restore"
    BY <1>0 DEF Record, Run
  <2>3. HostFresh' /\ TargetIsPast' /\ UsedIsPast'
    BY <1>0, <2>2 DEF DamageInv, HostFresh, TargetIsPast, UsedIsPast, Listed
  <2>4. LoggedIsPast'
    <3>1. line.dom \in DomIds => dom[line.dom].owner = g /\ drv[g].past = line.dom
      BY DEF DamageInv, TargetIsPast
    <3>2. QED
      BY <1>0, <2>1, <3>1 DEF DamageInv, LoggedIsPast, Listed
  <2>5. EarlyIsUnlogged'
    BY <2>1, <2>2 DEF DamageInv, EarlyIsUnlogged, Early, Injecting
  <2>6. CountFits'
    BY <1>0, <2>2 DEF DamageInv, CountFits, Injecting
  <2>7. LinesAreWhole'
    <3>1. line.count # Junk => line.dom \in DomIds /\ line.count = dom[line.dom].flips
      BY DEF DamageInv, CountFits
    <3>2. QED
      BY <1>0, <2>1, <3>1 DEF DamageInv, LinesAreWhole
  <2>8. QED
    BY <2>3, <2>4, <2>5, <2>6, <2>7 DEF DamageInv
<1>4. QED
  BY <1>2, <1>3 DEF Record

-----------------------------------------------------------------------------
(* The steps of a driver. *)

(* What a driver finds is its guest's. *)
LEMMA FoundOwn ==
  ASSUME OwnNames, NEW g \in Guests, NEW d \in DomIds
  PROVE  d \in Found(g) <=> Listed(d) /\ dom[d].owner = g
BY DEF OwnNames, Found

(* A driver starts a run on the only domain its guest has, one that no run   *)
(* was started on before, or on none.                                       *)
LEMMA LaunchDamage ==
  ASSUME DamageInv, TypeOK', NEW g \in Guests, NEW id, NEW process, NEW label,
         Launch(g, id, process, label),
         process.attack = Junk, process.pc \notin Injecting,
         process.target \in DomIds =>
           /\ process.target = id /\ dom[id].owner = g /\ dom[id].flips = 0
           /\ \A l \in LinesIn(log[g]) : l.dom # id,
         \A d \in DomIds : Listed(d) /\ dom[d].owner = g => d = id
  PROVE  DamageInv'
<1>0. /\ run \in [Guests -> Run] /\ drv \in [Guests -> Driver]
      /\ UNCHANGED <<dom, nextId, log>>
  BY DEF DamageInv, TypeOK, RunTypeOK, Launch, hostVars
<1>1. /\ run'[g] = process
      /\ \A h \in Guests \ {g} : run'[h] = run[h] /\ drv'[h] = drv[h]
      /\ drv'[g].past = id
  BY <1>0 DEF Launch, Driver
<1>2. HostFresh' /\ LinesAreWhole'
  BY <1>0 DEF DamageInv, HostFresh, LinesAreWhole
<1>3. TargetIsPast'
  BY <1>0, <1>1 DEF DamageInv, TargetIsPast
<1>4. UsedIsPast'
  BY <1>0, <1>1 DEF DamageInv, UsedIsPast, Listed
<1>5. LoggedIsPast'
  BY <1>0, <1>1 DEF DamageInv, LoggedIsPast, Listed
<1>6. EarlyIsUnlogged'
  BY <1>0, <1>1 DEF DamageInv, EarlyIsUnlogged
<1>7. CountFits'
  BY <1>0, <1>1 DEF DamageInv, CountFits
<1>8. QED
  BY <1>2, <1>3, <1>4, <1>5, <1>6, <1>7 DEF DamageInv

LEMMA DriverStepDamage ==
  ASSUME OwnNames, AddressIsNoId, DamageInv, TypeOK', NEW g \in Guests, DriverStep(g)
  PROVE  DamageInv'
<1>0. TypeOK /\ HostFresh /\ drv \in [Guests -> Driver]
  BY DEF DamageInv, TypeOK
<1>1. CASE Boot(g)
  BY <1>0, <1>1, XmRestoreKept, CalmStep DEF Boot, RunsKept, PastKept, GoesOn, runVars, Driver
<1>2. CASE StopDriver(g) \/ Return(g) \/ Finish(g)
  BY <1>0, <1>2, HostUnchangedKept, CalmStep
     DEF StopDriver, Return, Finish, RunsKept, PastKept, GoesOn, runVars, Driver
<1>3. CASE LaunchListed(g)
  <2> DEFINE process(d) == [NoRun EXCEPT !.pc = "init", !.target = d, !.ip = TRUE,
                              !.pause = (Algorithm[g] = "with_pause"), !.quota = Quota(g)]
  <2>1. PICK d \in DomIds :
          Found(g) = {d} /\ Replaced(g, d) /\ Launch(g, d, process(d), "wait")
    BY <1>3 DEF LaunchListed
  <2>2. /\ Listed(d) /\ dom[d].owner = g /\ drv[g].past # d
        /\ \A e \in DomIds : Listed(e) /\ dom[e].owner = g => e = d
    BY <2>1, FoundOwn DEF Replaced
  <2>3. dom[d].flips = 0
    <3>1. dom[d].flips \in Nat /\ ~(dom[d].flips > 0)
      BY <1>0, <2>2 DEF DamageInv, UsedIsPast, TypeOK, HostTypeOK, Domain
    <3>2. QED
      BY <3>1
  <2>4. \A l \in LinesIn(log[g]) : l.dom # d
    BY <2>2 DEF DamageInv, LoggedIsPast
  <2>5. /\ process(d).attack = Junk /\ process(d).target = d
        /\ process(d).pc \notin Injecting
    BY DEF NoRun, Injecting
  <2> HIDE DEF process
  <2>6. QED
    BY <2>1, <2>2, <2>3, <2>4, <2>5, LaunchDamage
<1>4. CASE LaunchUnlisted(g)
  <2>1. \A d \in DomIds : ~(Listed(d) /\ dom[d].owner = g)
    BY <1>4, FoundOwn DEF LaunchUnlisted
  <2> DEFINE shifted == [NoRun EXCEPT !.pc = "init", !.target = Octet, !.quota = WaitSecs]
  <2>2. /\ shifted.attack = Junk /\ shifted.target = Octet /\ shifted.pc \notin Injecting
        /\ NoRun.attack = Junk /\ NoRun.target = 0 /\ NoRun.pc \notin Injecting
    BY DEF NoRun, Injecting
  <2>3. 0 \notin DomIds
    BY DEF DomIds
  <2>4. \/ Octet \notin DomIds /\ Launch(g, NoId, shifted, "wait")
        \/ Launch(g, NoId, NoRun, "list")
    BY <1>4 DEF LaunchUnlisted, AddressIsNoId
  <2> HIDE DEF shifted
  <2>5. QED
    BY <2>1, <2>2, <2>3, <2>4, LaunchDamage
<1>5. QED
  BY <1>1, <1>2, <1>3, <1>4 DEF DriverStep

-----------------------------------------------------------------------------
(* The invariant and what follows from it. *)

LEMMA InitDamage == Init => DamageInv
<1> SUFFICES ASSUME Init PROVE DamageInv
  OBVIOUS
<1>1. /\ \A d \in DomIds : dom[d] = NoDomain
      /\ \A g \in Guests : /\ log[g] = <<>> /\ run[g].pc = "off"
                           /\ run[g].target \notin DomIds /\ run[g].attack = Junk
  BY DEF Init, HostInit, RunInit, NoRun, DomIds
<1>2. \A g \in Guests : LinesIn(log[g]) = {}
  BY <1>1 DEF LinesIn
<1>3. NoDomain.flips = 0
  BY DEF NoDomain
<1>4. HostFresh /\ TargetIsPast /\ UsedIsPast
  BY <1>1, <1>3 DEF HostFresh, TargetIsPast, UsedIsPast
<1>5. LoggedIsPast /\ EarlyIsUnlogged /\ LinesAreWhole
  BY <1>2 DEF LoggedIsPast, EarlyIsUnlogged, LinesAreWhole
<1>6. CountFits
  BY <1>1 DEF CountFits, Injecting
<1>7. QED
  BY <1>4, <1>5, <1>6, InitType DEF DamageInv

LEMMA NextDamage ==
  ASSUME OwnNames, AddressIsNoId, DamageInv, [Next]_vars
  PROVE  DamageInv'
<1>0. TypeOK' /\ HostFresh /\ TypeOK
  BY NextType DEF DamageInv
<1>1. ASSUME NEW g \in Guests, RunStep(g), UNCHANGED drv PROVE DamageInv'
  <2>1. CASE XaInit(g)
    BY <1>0, <1>1, <2>1, XaInitDamage
  <2>2. CASE InjectBit(g)
    BY <1>0, <1>1, <2>2, InjectBitDamage
  <2>3. CASE Record(g)
    BY <1>0, <1>1, <2>3, RecordDamage
  <2>4. CASE ~XaInit(g) /\ ~InjectBit(g) /\ ~Record(g)
    BY <1>0, <1>1, <2>4, RunStepCalm, CalmStep
  <2>5. QED
    BY <2>1, <2>2, <2>3, <2>4
<1>2. ASSUME NEW g \in Guests, DriverStep(g) PROVE DamageInv'
  BY <1>0, <1>2, DriverStepDamage
<1>3. CASE HostStep /\ UNCHANGED <<runVars, drv>>
  BY <1>0, <1>3, HostStepKept, CalmStep DEF RunsKept, PastKept, GoesOn, runVars
<1>4. CASE UNCHANGED vars
  BY <1>0, <1>4, HostUnchangedKept, CalmStep DEF RunsKept, PastKept, GoesOn, vars, runVars
<1>5. QED
  BY <1>1, <1>2, <1>3, <1>4 DEF Next, AllEnded

(* A logged number is the whole damage of a domain that was intact before    *)
(* the run, whatever xm, fork, the guests and the other drivers do          *)
(* (experiment_once.c:155-160).                                             *)
THEOREM CountIsTotalDamageHolds ==
  ASSUME OwnNames, AddressIsNoId
  PROVE  Spec => []CountIsTotalDamage
<1>1. DamageInv => CountIsTotalDamage
  BY DEF DamageInv, LinesAreWhole, LinesIn, CountIsTotalDamage
<1>2. DamageInv /\ [Next]_vars => DamageInv'
  BY NextDamage
<1>3. QED
  BY <1>1, <1>2, InitDamage, PTL DEF Spec

(* A step never takes a flip back, so a domain that is intact after a launch *)
(* was so before it.                                                        *)
LEMMA FlipsGrow ==
  ASSUME DamageInv, [Next]_vars, NEW d \in DomIds, dom'[d].flips = 0
  PROVE  dom[d].flips = 0
<1>0. TypeOK /\ HostFresh
  BY DEF DamageInv
<1>1. CASE HostKept
  BY <1>1 DEF HostKept
<1>2. CASE \E g \in Guests : InjectBit(g)
  <2>1. PICK g \in Guests : InjectBit(g)
    BY <1>2
  <2>2. /\ dom \in [DomIds -> Domain] /\ dom[d].flips \in Nat
        /\ dom' = [dom EXCEPT ![run[g].target].flips = @ + 1]
    BY <1>0, <2>1 DEF TypeOK, HostTypeOK, Domain, InjectBit, Flip
  <2>3. QED
    BY <2>2 DEF Domain
<1>3. ASSUME NEW g \in Guests, RunStep(g), UNCHANGED drv, ~InjectBit(g)
      PROVE  HostKept
  <2>1. CASE XaInit(g) \/ Record(g)
    BY <1>0, <2>1, HostUnchangedKept DEF XaInit, Record
  <2>2. CASE ~XaInit(g) /\ ~Record(g)
    BY <1>3, <2>2, RunStepCalm
  <2>3. QED
    BY <2>1, <2>2
<1>4. ASSUME NEW g \in Guests, DriverStep(g)
      PROVE  HostKept
  <2>1. XmRestore(g) \/ UNCHANGED hostVars
    BY <1>4 DEF DriverStep, Boot, LaunchListed, LaunchUnlisted, StopDriver, Return,
                Finish, Launch
  <2>2. QED
    BY <1>0, <2>1, XmRestoreKept, HostUnchangedKept
<1>5. CASE HostStep \/ UNCHANGED hostVars
  BY <1>0, <1>1, <1>5, HostStepKept, HostUnchangedKept
<1>6. QED
  BY <1>1, <1>2, <1>3, <1>4, <1>5 DEF Next, AllEnded, vars

(* A run starts on a domain no run has touched                              *)
(* (experiment_for_parallel_flex.sh:29-34, dom_id_past).                    *)
THEOREM FreshVictimHolds ==
  ASSUME OwnNames, AddressIsNoId
  PROVE  Spec => FreshVictim
<1>1. DamageInv /\ [Next]_vars => DamageInv'
  BY NextDamage
<1>2. DamageInv /\ [Next]_vars =>
        [\A g \in Guests :
           At(g, "off") /\ run'[g].pc = "init" /\ run'[g].target \in DomIds
             => dom[run'[g].target].flips = 0]_vars
  <2> SUFFICES ASSUME DamageInv, [Next]_vars, NEW g \in Guests,
                      run'[g].pc = "init", run'[g].target \in DomIds
               PROVE  dom[run'[g].target].flips = 0
    OBVIOUS
  <2>1. dom'[run'[g].target].flips = 0
    BY <1>1 DEF DamageInv, CountFits
  <2>2. QED
    BY <2>1, FlipsGrow
<1>3. QED
  BY <1>1, <1>2, InitDamage, PTL DEF Spec, FreshVictim

-----------------------------------------------------------------------------
(* Campaign implements InjectionLedger, under the same two conditions.     *)

(* The inductive invariant, on top of DamageInv: the domains a run may hit  *)
(* are the latest of their guests.                                          *)

IsLatest(g, d) == \A e \in DomIds : dom[e].owner = g => e <= d

KnownIsOwned == \A d \in DomIds : d < nextId => dom[d].owner # NoGuest

ListedIsLatest == \A d \in DomIds : Listed(d) => IsLatest(dom[d].owner, d)

TargetIsLatest ==
  \A g \in Guests : run[g].target \in DomIds => IsLatest(g, run[g].target)

BootHasNoTarget ==
  \A g \in Guests : drv[g].pc = "boot" => run[g].target \notin DomIds

LatestInv ==
  DamageInv /\ KnownIsOwned /\ ListedIsLatest /\ TargetIsLatest /\ BootHasNoTarget

-----------------------------------------------------------------------------
(* What a step does to the host, as the ledger sees it. *)

(* No owner, no flip and no new name. *)
Quiet ==
  /\ \A d \in DomIds : /\ dom'[d].owner = dom[d].owner
                       /\ dom'[d].flips = dom[d].flips
                       /\ Listed(d)' => Listed(d)
  /\ nextId' = nextId

Restores(g) ==
  /\ Named(g) = {}
  /\ nextId <= MaxDom
  /\ dom' = [dom EXCEPT ![nextId] = [NoDomain EXCEPT !.owner = g, !.life = "up"]]
  /\ nextId' = nextId + 1

LEMMA UnchangedQuiet ==
  ASSUME UNCHANGED hostVars
  PROVE  Quiet
BY DEF Quiet, Listed, hostVars

LEMMA XmDestroyQuiet ==
  ASSUME TypeOK, NEW g \in Guests, XmDestroy(g)
  PROVE  Quiet
<1>1. CASE UNCHANGED hostVars
  BY <1>1, UnchangedQuiet
<1>2. CASE XmDestroyed(g)
  <2>1. PICK d \in Named(g) :
          dom' = [dom EXCEPT ![d].life = "dying", ![d].paused = FALSE,
                             ![d].left = dom[d].life]
    BY <1>2 DEF XmDestroyed
  <2>2. d \in DomIds /\ dom \in [DomIds -> Domain]
    BY DEF Named, TypeOK, HostTypeOK
  <2>3. nextId' = nextId
    BY <1>2 DEF XmDestroyed
  <2>4. QED
    BY <2>1, <2>2, <2>3 DEF Quiet, Listed, Domain
<1>3. QED
  BY <1>1, <1>2 DEF XmDestroy

LEMMA SetPausedQuiet ==
  ASSUME TypeOK, NEW d, NEW b \in BOOLEAN, SetPaused(d, b)
  PROVE  Quiet
<1>1. dom \in [DomIds -> Domain]
  BY DEF TypeOK, HostTypeOK
<1>2. QED
  BY <1>1 DEF SetPaused, Quiet, Listed, Domain

LEMMA HostStepQuiet ==
  ASSUME TypeOK, HostStep
  PROVE  Quiet
<1>1. dom \in [DomIds -> Domain]
  BY DEF TypeOK, HostTypeOK
<1>2. QED
  BY <1>1 DEF HostStep, GuestHangs, GuestCrashes, Reap, Quiet, Listed, Domain

(* A step of a run is quiet, restores its guest as its last act, or flips. *)
LEMMA RunStepHost ==
  ASSUME TypeOK, NEW g \in Guests, RunStep(g), ~InjectBit(g)
  PROVE  Quiet \/ (Restores(g) /\ RestoreDomain(g))
<1>1. CASE UNCHANGED hostVars
  BY <1>1, UnchangedQuiet
<1>2. CASE PauseDomain(g) \/ Recover(g)
  BY <1>1, <1>2, SetPausedQuiet DEF PauseDomain, Recover
<1>3. CASE XmDestroy(g)
  BY <1>3, XmDestroyQuiet
<1>4. CASE RestoreDomain(g)
  BY <1>1, <1>4 DEF RestoreDomain, XmRestore, Restores
<1>5. QED
  <2>1. \/ UNCHANGED hostVars
        \/ PauseDomain(g) \/ Recover(g) \/ XmDestroy(g) \/ RestoreDomain(g)
    BY DEF RunStep, XaInit, XaInitFails, StopInjecting, CheckGuest, Recheck,
           DiesOfSigpipe, ForkFails, DestroyDomain, ReDestroy, Destroyed, Record,
           AbortsInCleanup
  <2>2. QED
    BY <1>1, <1>2, <1>3, <1>4, <2>1

(* Targets stay, or a run starts on a listed domain of its guest. *)
TargetsMove ==
  \A g \in Guests :
    \/ run'[g].target = run[g].target
    \/ run'[g].target \notin DomIds
    \/ Listed(run'[g].target) /\ dom[run'[g].target].owner = g

BootsKept ==
  \A g \in Guests : drv'[g].pc = "boot" =>
    /\ drv[g].pc = "boot"
    /\ run'[g].target = run[g].target \/ run'[g].target \notin DomIds

LEMMA RunStepTargets ==
  ASSUME DamageInv, NEW g \in Guests, RunStep(g), UNCHANGED drv
  PROVE  TargetsMove /\ BootsKept
<1>1. NoRun.target \notin DomIds /\ run \in [Guests -> Run]
  BY DEF NoRun, DomIds, DamageInv, TypeOK, RunTypeOK
<1>2. CASE XaInit(g)
  BY <1>1, <1>2 DEF XaInit, TargetsMove, BootsKept, Run
<1>3. CASE InjectBit(g)
  BY <1>1, <1>3 DEF InjectBit, TargetsMove, BootsKept, Run
<1>4. CASE Record(g)
  BY <1>1, <1>4 DEF Record, TargetsMove, BootsKept, Run
<1>5. CASE ~XaInit(g) /\ ~InjectBit(g) /\ ~Record(g)
  <2>1. RunsKept
    BY <1>5, RunStepCalm
  <2>2. QED
    BY <1>1, <2>1 DEF RunsKept, GoesOn, TargetsMove, BootsKept
<1>6. QED
  BY <1>2, <1>3, <1>4, <1>5

LEMMA LaunchTargets ==
  ASSUME DamageInv, NEW g \in Guests, NEW id, NEW process, NEW label \in {"wait", "list"},
         Launch(g, id, process, label),
         \/ process.target \notin DomIds
         \/ Listed(process.target) /\ dom[process.target].owner = g
  PROVE  TargetsMove /\ BootsKept
<1>1. run \in [Guests -> Run] /\ drv \in [Guests -> Driver]
  BY DEF DamageInv, TypeOK, RunTypeOK
<1>2. /\ run'[g] = process /\ drv'[g].pc = label
      /\ \A h \in Guests \ {g} : run'[h] = run[h] /\ drv'[h] = drv[h]
  BY <1>1 DEF Launch, Driver
<1>3. QED
  BY <1>2 DEF TargetsMove, BootsKept

LEMMA DriverStepTargets ==
  ASSUME OwnNames, AddressIsNoId, DamageInv, NEW g \in Guests, DriverStep(g)
  PROVE  TargetsMove /\ BootsKept
<1>0. drv \in [Guests -> Driver]
  BY DEF DamageInv, TypeOK
<1>1. CASE Boot(g) \/ StopDriver(g) \/ Return(g) \/ Finish(g)
  BY <1>0, <1>1 DEF Boot, StopDriver, Return, Finish, runVars, TargetsMove, BootsKept, Driver
<1>2. CASE LaunchListed(g)
  <2> DEFINE process(d) == [NoRun EXCEPT !.pc = "init", !.target = d, !.ip = TRUE,
                              !.pause = (Algorithm[g] = "with_pause"), !.quota = Quota(g)]
  <2>1. PICK d \in DomIds : Found(g) = {d} /\ Launch(g, d, process(d), "wait")
    BY <1>2 DEF LaunchListed
  <2>2. Listed(d) /\ dom[d].owner = g
    BY <2>1, FoundOwn
  <2>3. process(d).target = d
    BY DEF NoRun
  <2> HIDE DEF process
  <2>4. QED
    BY <2>1, <2>2, <2>3, LaunchTargets
<1>3. CASE LaunchUnlisted(g)
  <2> DEFINE shifted == [NoRun EXCEPT !.pc = "init", !.target = Octet, !.quota = WaitSecs]
  <2>1. shifted.target = Octet /\ NoRun.target \notin DomIds
    BY DEF NoRun, DomIds
  <2>2. \/ Octet \notin DomIds /\ Launch(g, NoId, shifted, "wait")
        \/ Launch(g, NoId, NoRun, "list")
    BY <1>3 DEF LaunchUnlisted, AddressIsNoId
  <2> HIDE DEF shifted
  <2>3. QED
    BY <2>1, <2>2, LaunchTargets
<1>4. QED
  BY <1>1, <1>2, <1>3 DEF DriverStep

LEMMA DriverStepHost ==
  ASSUME NEW g \in Guests, DriverStep(g)
  PROVE  Quiet \/ (Restores(g) /\ Boot(g))
<1>1. UNCHANGED hostVars \/ (Boot(g) /\ Restores(g))
  BY DEF DriverStep, Boot, LaunchListed, LaunchUnlisted, StopDriver, Return, Finish,
         Launch, XmRestore, Restores
<1>2. QED
  BY <1>1, UnchangedQuiet

-----------------------------------------------------------------------------
(* The invariant. *)

OwnersKept ==
  /\ \A d \in DomIds : dom'[d].owner = dom[d].owner /\ (Listed(d)' => Listed(d))
  /\ nextId' = nextId

LEMMA OwnersKeptLatest ==
  ASSUME LatestInv, DamageInv', OwnersKept, TargetsMove, BootsKept
  PROVE  LatestInv'
<1>1. KnownIsOwned'
  BY DEF LatestInv, KnownIsOwned, OwnersKept
<1>3. ListedIsLatest'
  <2> SUFFICES ASSUME NEW d \in DomIds, Listed(d)', NEW e \in DomIds,
                      dom'[e].owner = dom'[d].owner
               PROVE  e <= d
    BY DEF ListedIsLatest, IsLatest
  <2>1. Listed(d) /\ dom'[d].owner = dom[d].owner
    BY DEF OwnersKept
  <2>2. IsLatest(dom[d].owner, d)
    BY <2>1 DEF LatestInv, ListedIsLatest
  <2>3. QED
    BY <2>1, <2>2 DEF IsLatest, OwnersKept
<1>4. TargetIsLatest'
  <2> SUFFICES ASSUME NEW g \in Guests, run'[g].target \in DomIds, NEW e \in DomIds,
                      dom'[e].owner = g
               PROVE  e <= run'[g].target
    BY DEF TargetIsLatest, IsLatest
  <2>1. IsLatest(g, run'[g].target)
    BY DEF TargetsMove, LatestInv, TargetIsLatest, ListedIsLatest
  <2>2. QED
    BY <2>1 DEF IsLatest, OwnersKept
<1>5. BootHasNoTarget'
  BY DEF LatestInv, BootHasNoTarget, BootsKept
<1>6. QED
  BY <1>1, <1>3, <1>4, <1>5 DEF LatestInv

(* The restored guest had no listed domain and has no run with a target. *)
LEMMA RestoresLatest ==
  ASSUME LatestInv, DamageInv', NEW g \in Guests, Restores(g), BootsKept,
         run'[g].target \notin DomIds,
         \A h \in Guests \ {g} : run'[h].target = run[h].target
  PROVE  LatestInv'
<1>0. /\ dom \in [DomIds -> Domain] /\ nextId \in DomIds /\ DomIds \subseteq Nat
      /\ NoGuest \notin Guests /\ HostFresh
      /\ NoDomain.owner = NoGuest
  BY HostAssumption
     DEF LatestInv, DamageInv, TypeOK, HostTypeOK, Restores, DomIds, NoDomain
<1>1. /\ dom'[nextId].owner = g
      /\ \A d \in DomIds \ {nextId} : dom'[d] = dom[d]
  BY <1>0 DEF Restores, NoDomain
<1>2. KnownIsOwned'
  BY <1>0, <1>1 DEF LatestInv, KnownIsOwned, Restores
<1>3. \A d \in DomIds : d > nextId => dom[d].owner = NoGuest
  BY <1>0 DEF HostFresh
<1>4. ListedIsLatest'
  <2> SUFFICES ASSUME NEW d \in DomIds, Listed(d)', NEW e \in DomIds,
                      dom'[e].owner = dom'[d].owner
               PROVE  e <= d
    BY DEF ListedIsLatest, IsLatest
  <2>1. CASE d = nextId
    BY <1>0, <1>1, <1>3, <2>1
  <2>2. CASE d # nextId
    <3>1. Listed(d) /\ dom'[d] = dom[d]
      BY <1>1, <2>2 DEF Listed
    <3>2. dom[d].owner # g
      BY <3>1 DEF Restores, Named
    <3>3. e # nextId /\ dom[e].owner = dom[d].owner
      BY <1>1, <3>1, <3>2
    <3>4. QED
      BY <3>1, <3>3 DEF LatestInv, ListedIsLatest, IsLatest
  <2>3. QED
    BY <2>1, <2>2
<1>5. TargetIsLatest'
  <2> SUFFICES ASSUME NEW h \in Guests, run'[h].target \in DomIds, NEW e \in DomIds,
                      dom'[e].owner = h
               PROVE  e <= run'[h].target
    BY DEF TargetIsLatest, IsLatest
  <2>1. h # g /\ run'[h].target = run[h].target
    OBVIOUS
  <2>2. dom[e].owner = h
    BY <1>1, <2>1
  <2>3. QED
    BY <2>1, <2>2 DEF LatestInv, TargetIsLatest, IsLatest
<1>6. BootHasNoTarget'
  BY DEF LatestInv, BootHasNoTarget, BootsKept
<1>7. QED
  BY <1>2, <1>4, <1>5, <1>6 DEF LatestInv

(* The kinds of a step: what it does to the host, the logs and the targets. *)
StepKind ==
  \/ /\ Quiet
     /\ UNCHANGED log \/ \E g \in Guests : Record(g) /\ UNCHANGED hostVars
  \/ \E g \in Guests :
       /\ Restores(g) /\ UNCHANGED log
       /\ run'[g].target \notin DomIds
       /\ \A h \in Guests \ {g} : run'[h].target = run[h].target
  \/ \E g \in Guests : InjectBit(g)

LEMMA NextKind ==
  ASSUME OwnNames, AddressIsNoId, LatestInv, [Next]_vars
  PROVE  StepKind /\ TargetsMove /\ BootsKept
<1>0. /\ DamageInv /\ TypeOK /\ run \in [Guests -> Run]
      /\ NoRun.target \notin DomIds
  BY DEF LatestInv, DamageInv, TypeOK, RunTypeOK, NoRun, DomIds
<1>1. ASSUME NEW g \in Guests, RunStep(g), UNCHANGED drv
      PROVE  StepKind /\ TargetsMove /\ BootsKept
  <2>1. TargetsMove /\ BootsKept
    BY <1>0, <1>1, RunStepTargets
  <2>2. CASE InjectBit(g)
    BY <2>1, <2>2 DEF StepKind
  <2>3. CASE Record(g)
    BY <2>1, <2>3, UnchangedQuiet DEF StepKind, Record
  <2>4. CASE ~InjectBit(g) /\ ~Record(g)
    <3>1. UNCHANGED log
      BY <1>1, <2>4 DEF RunStep, XaInit, XaInitFails, PauseDomain, StopInjecting, CheckGuest,
             Recover, Recheck, DiesOfSigpipe, ForkFails, DestroyDomain, ReDestroy, Destroyed,
             AbortsInCleanup, RestoreDomain
    <3>2. CASE Quiet
      BY <2>1, <3>1, <3>2 DEF StepKind
    <3>3. CASE Restores(g) /\ RestoreDomain(g)
      <4>1. run' = [run EXCEPT ![g] = NoRun]
        BY <3>3 DEF RestoreDomain
      <4>2. run'[g] = NoRun /\ \A h \in Guests \ {g} : run'[h] = run[h]
        BY <1>0, <4>1
      <4>3. QED
        BY <1>0, <2>1, <3>1, <3>3, <4>2 DEF StepKind
    <3>4. QED
      BY <1>0, <1>1, <2>4, <3>2, <3>3, RunStepHost
  <2>5. QED
    BY <2>2, <2>3, <2>4
<1>2. ASSUME NEW g \in Guests, DriverStep(g)
      PROVE  StepKind /\ TargetsMove /\ BootsKept
  <2>1. TargetsMove /\ BootsKept
    BY <1>0, <1>2, DriverStepTargets
  <2>2. UNCHANGED log
    BY <1>2 DEF DriverStep, Boot, LaunchListed, LaunchUnlisted, StopDriver, Return, Finish,
                Launch, runVars
  <2>3. CASE Quiet
    BY <2>1, <2>2, <2>3 DEF StepKind
  <2>4. CASE Restores(g) /\ Boot(g)
    <3>1. run' = run /\ drv[g].pc = "boot"
      BY <2>4 DEF Boot, runVars
    <3>2. QED
      BY <2>1, <2>2, <2>4, <3>1 DEF StepKind, LatestInv, BootHasNoTarget
  <2>5. QED
    BY <1>2, <2>3, <2>4, DriverStepHost
<1>3. CASE (HostStep \/ UNCHANGED hostVars) /\ UNCHANGED <<runVars, drv>>
  <2>1. Quiet
    BY <1>0, <1>3, HostStepQuiet, UnchangedQuiet
  <2>2. QED
    BY <1>3, <2>1 DEF StepKind, TargetsMove, BootsKept, runVars
<1>4. QED
  BY <1>1, <1>2, <1>3 DEF Next, AllEnded, vars

LEMMA NextLatest ==
  ASSUME OwnNames, AddressIsNoId, LatestInv, [Next]_vars
  PROVE  LatestInv'
<1>1. DamageInv'
  BY NextDamage DEF LatestInv
<1>2. StepKind /\ TargetsMove /\ BootsKept
  BY NextKind
<1>3. CASE Quiet
  BY <1>1, <1>2, <1>3, OwnersKeptLatest DEF Quiet, OwnersKept
<1>4. CASE \E g \in Guests : InjectBit(g)
  <2>1. PICK g \in Guests : InjectBit(g)
    BY <1>4
  <2>2. /\ run[g].target \in DomIds /\ dom \in [DomIds -> Domain]
        /\ dom' = [dom EXCEPT ![run[g].target].flips = @ + 1] /\ nextId' = nextId
    BY <2>1 DEF InjectBit, Flip, Listed, LatestInv, DamageInv, TypeOK, HostTypeOK
  <2>3. OwnersKept
    BY <2>2 DEF OwnersKept, Listed, Domain
  <2>4. QED
    BY <1>1, <1>2, <2>3, OwnersKeptLatest
<1>5. QED
  BY <1>1, <1>2, <1>3, <1>4, RestoresLatest DEF StepKind

LEMMA InitLatest == Init => LatestInv
<1> SUFFICES ASSUME Init PROVE LatestInv
  OBVIOUS
<1>1. /\ DamageInv /\ nextId = 1
      /\ \A d \in DomIds : dom[d] = NoDomain
      /\ \A g \in Guests : run[g] = NoRun
  BY InitDamage DEF Init, HostInit, RunInit
<1>2. NoDomain.life = "gone" /\ NoRun.target \notin DomIds
  BY DEF NoDomain, NoRun, DomIds
<1>3. QED
  BY <1>1, <1>2
     DEF LatestInv, KnownIsOwned, ListedIsLatest, TargetIsLatest, BootHasNoTarget, Listed, DomIds

-----------------------------------------------------------------------------
(* The refinement. *)

Owners == [d \in DomIds |-> dom[d].owner]

Damages == [d \in DomIds |-> dom[d].flips]

Told(g, l) == [guest |-> g, dom |-> l.dom, count |-> l.count]

LEMMA EntriesAreTold ==
  ASSUME log \in [Guests -> Seq(Line)]
  PROVE  \A x : x \in Entries <=>
           \E g \in Guests : \E l \in LinesIn(log[g]) : l.count # Junk /\ x = Told(g, l)
<1>1. \A g \in Guests : Range(log[g]) = LinesIn(log[g])
  BY DEF Range, LinesIn
<1>2. QED
  BY <1>1 DEF Entries, Told

LEMMA QuietSame ==
  ASSUME Quiet
  PROVE  Owners' = Owners /\ Damages' = Damages
BY DEF Quiet, Owners, Damages

LEMMA LinesAppended ==
  ASSUME NEW s \in Seq(Line), NEW l \in Line
  PROVE  LinesIn(Append(s, l)) = LinesIn(s) \cup {l}
<1>1. /\ Len(Append(s, l)) = Len(s) + 1 /\ Len(s) \in Nat
      /\ Append(s, l)[Len(s) + 1] = l
      /\ \A i \in 1..Len(s) : Append(s, l)[i] = s[i]
  OBVIOUS
<1>2. 1..(Len(s) + 1) = (1..Len(s)) \cup {Len(s) + 1}
  BY <1>1
<1>3. QED
  BY <1>1, <1>2 DEF LinesIn

(* The line of a run becomes an entry, unless its count is junk. *)
LEMMA RecordEntries ==
  ASSUME TypeOK, NEW g \in Guests, Record(g)
  PROVE  \/ Entries' = Entries
         \/ /\ run[g].attack # Junk
            /\ Entries' = Entries \cup {[guest |-> g, dom   |-> run[g].target,
                                                     count |-> run[g].attack]}
<1> DEFINE line == [dom |-> run[g].target, count |-> run[g].attack]
<1>0. log \in [Guests -> Seq(Line)] /\ run[g] \in Run
  BY DEF TypeOK, RunTypeOK
<1>1. CASE log' = log
  BY <1>1 DEF Entries
<1>2. CASE log' = [log EXCEPT ![g] = Append(@, line)]
  <2>1. line \in Line
    BY <1>0 DEF Run, Line
  <2>2. log[g] \in Seq(Line)
    BY <1>0
  <2>3. log'[g] = Append(log[g], line) /\ \A h \in Guests \ {g} : log'[h] = log[h]
    BY <1>0, <1>2
  <2>4. LinesIn(log'[g]) = LinesIn(log[g]) \cup {line}
    BY <2>1, <2>2, <2>3, LinesAppended
  <2>5. log' \in [Guests -> Seq(Line)]
    <3>1. Append(log[g], line) \in Seq(Line)
      BY <2>1, <2>2
    <3>2. QED
      BY <1>0, <1>2, <3>1
  <2>6. \A x : x \in Entries' <=>
          \E h \in Guests : \E l \in LinesIn(log'[h]) : l.count # Junk /\ x = Told(h, l)
    <3>1. \A h \in Guests : Range(log'[h]) = LinesIn(log'[h])
      BY <2>5 DEF Range, LinesIn
    <3>2. QED
      BY <3>1 DEF Entries, Told
  <2>7. \A x : x \in Entries' <=>
          x \in Entries \/ (line.count # Junk /\ x = Told(g, line))
    <3>1. \A x : x \in Entries <=>
            \E h \in Guests : \E l \in LinesIn(log[h]) : l.count # Junk /\ x = Told(h, l)
      BY <1>0, EntriesAreTold
    <3>2. \A h \in Guests : LinesIn(log'[h]) =
            LinesIn(log[h]) \cup (IF h = g THEN {line} ELSE {})
      BY <2>3, <2>4
    <3> HIDE DEF line
    <3>3. QED
      BY <2>6, <3>1, <3>2
  <2>8. QED
    BY <2>7 DEF Told
<1>3. QED
  BY <1>1, <1>2 DEF Record

LEMMA RestoreImplements ==
  ASSUME LatestInv, NEW g \in Guests, Restores(g), UNCHANGED log
  PROVE  Ledger!Restore
<1>1. /\ dom \in [DomIds -> Domain] /\ nextId \in DomIds /\ NoGuest \notin Guests
      /\ MaxDom \in Nat
  BY HostAssumption DEF LatestInv, DamageInv, TypeOK, HostTypeOK, Restores, DomIds
<1>2. \A e \in DomIds : Owners[e] # NoGuest <=> e < nextId
  BY <1>1 DEF Owners, LatestInv, KnownIsOwned, DamageInv, HostFresh, NoDomain, DomIds
<1>3. /\ dom'[nextId].owner = g /\ dom'[nextId].flips = 0 /\ dom[nextId].flips = 0
      /\ \A d \in DomIds \ {nextId} : dom'[d] = dom[d]
  <2>1. nextId >= nextId
    BY <1>1 DEF DomIds
  <2>2. dom[nextId] = NoDomain
    BY <1>1, <2>1 DEF LatestInv, DamageInv, HostFresh
  <2>3. QED
    BY <1>1, <2>2 DEF Restores, NoDomain
<1>4. Owners' = [Owners EXCEPT ![nextId] = g]
  BY <1>1, <1>3 DEF Owners
<1>5. Damages' = Damages
  BY <1>1, <1>3 DEF Damages
<1>6. Entries' = Entries
  BY DEF Entries
<1>7. QED
  BY <1>1, <1>2, <1>4, <1>5, <1>6 DEF Ledger!Restore, Owners, Damages

(* The target of a run is the latest domain of its guest. *)
LEMMA TargetLatest ==
  ASSUME LatestInv, NEW g \in Guests, run[g].target \in DomIds
  PROVE  Owners[run[g].target] = g /\ Ledger!Latest(run[g].target)
<1>1. dom[run[g].target].owner = g /\ NoGuest \notin Guests
  BY HostAssumption DEF LatestInv, DamageInv, TargetIsPast
<1>2. \A e \in DomIds : dom[e].owner = g => e <= run[g].target
  BY DEF LatestInv, TargetIsLatest, IsLatest
<1>3. QED
  BY <1>1, <1>2 DEF Ledger!Latest, Owners

LEMMA HitImplements ==
  ASSUME LatestInv, NEW g \in Guests, InjectBit(g)
  PROVE  Ledger!Hit
<1> DEFINE d == run[g].target
<1>1. /\ d \in DomIds /\ Listed(d) /\ dom \in [DomIds -> Domain]
      /\ dom' = [dom EXCEPT ![d].flips = @ + 1]
      /\ UNCHANGED log /\ run[g].pc = "inject" /\ log \in [Guests -> Seq(Line)]
  BY DEF InjectBit, Flip, Listed, At, LatestInv, DamageInv, TypeOK, HostTypeOK, RunTypeOK
<1>2. Owners' = Owners /\ Damages' = [Damages EXCEPT ![d] = @ + 1]
  BY <1>1 DEF Owners, Damages, Domain
<1>3. Entries' = Entries
  BY <1>1 DEF Entries
<1>4. Ledger!Latest(d) /\ dom[d].owner = g
  BY <1>1, TargetLatest DEF LatestInv, DamageInv, TargetIsPast
<1>5. ~Ledger!Closed(d)
  <2> SUFFICES ASSUME NEW h \in Guests, NEW l \in LinesIn(log[h]), l.dom = d
               PROVE  FALSE
    BY <1>1, EntriesAreTold DEF Ledger!Closed, Told
  <2>1. dom[l.dom].owner = h
    BY <1>1 DEF LatestInv, DamageInv, LoggedIsPast
  <2>2. h = g
    BY <1>4, <2>1
  <2>3. QED
    BY <1>1, <2>2 DEF LatestInv, DamageInv, EarlyIsUnlogged, Early, Injecting
<1>6. QED
  BY <1>1, <1>2, <1>3, <1>4, <1>5 DEF Ledger!Hit, Owners, Damages

LEMMA RecordImplements ==
  ASSUME LatestInv, NEW g \in Guests, Record(g), Quiet
  PROVE  Ledger!Enter \/ UNCHANGED Ledger!vars
<1>1. Owners' = Owners /\ Damages' = Damages
  BY QuietSame
<1>2. CASE Entries' = Entries
  BY <1>1, <1>2 DEF Ledger!vars, Owners, Damages
<1>3. CASE Entries' # Entries
  <2>1. /\ run[g].attack # Junk
        /\ Entries' = Entries \cup {[guest |-> g, dom   |-> run[g].target,
                                                 count |-> run[g].attack]}
    BY <1>3, RecordEntries DEF LatestInv, DamageInv
  <2>2. run[g].target \in DomIds /\ run[g].attack = dom[run[g].target].flips
    BY <2>1 DEF LatestInv, DamageInv, CountFits
  <2>3. Ledger!Latest(run[g].target) /\ Owners[run[g].target] = g
    BY <2>2, TargetLatest
  <2>4. Entries' = Entries \cup {Ledger!Entry(run[g].target)}
    BY <2>1, <2>2, <2>3 DEF Ledger!Entry, Owners
  <2>5. Entries' \ Entries # {}
    BY <1>3, <2>1
  <2>6. QED
    BY <1>1, <2>2, <2>3, <2>4, <2>5 DEF Ledger!Enter, Owners, Damages
<1>4. QED
  BY <1>2, <1>3

LEMMA InitImplements == Init => Ledger!Init
<1> SUFFICES ASSUME Init PROVE Ledger!Init
  OBVIOUS
<1>1. /\ \A d \in DomIds : dom[d] = NoDomain
      /\ log = [g \in Guests |-> << >>]
  BY DEF Init, HostInit, RunInit
<1>2. Owners = [d \in DomIds |-> NoGuest] /\ Damages = [d \in DomIds |-> 0]
  BY <1>1 DEF Owners, Damages, NoDomain
<1>3. Entries = {}
  <2>1. \A g \in Guests : Range(log[g]) = {}
    BY <1>1 DEF Range
  <2>2. QED
    BY <2>1 DEF Entries
<1>4. QED
  BY <1>2, <1>3 DEF Ledger!Init, Owners, Damages

LEMMA NextImplements ==
  ASSUME OwnNames, AddressIsNoId, LatestInv, [Next]_vars
  PROVE  [Ledger!Next]_(Ledger!vars)
<1>1. StepKind
  BY NextKind
<1>2. CASE Quiet /\ UNCHANGED log
  <2>1. Owners' = Owners /\ Damages' = Damages
    BY <1>2, QuietSame
  <2>2. Entries' = Entries
    BY <1>2 DEF Entries
  <2>3. QED
    BY <2>1, <2>2 DEF Ledger!vars, Owners, Damages
<1>3. CASE Quiet /\ \E g \in Guests : Record(g)
  BY <1>3, RecordImplements DEF Ledger!Next
<1>4. CASE \E g \in Guests : Restores(g) /\ UNCHANGED log
  BY <1>4, RestoreImplements DEF Ledger!Next
<1>5. CASE \E g \in Guests : InjectBit(g)
  BY <1>5, HitImplements DEF Ledger!Next
<1>6. QED
  BY <1>1, <1>2, <1>3, <1>4, <1>5 DEF StepKind

(* A driver never goes back to a domain its log tells of, nor to one that   *)
(* was replaced, and every count it writes is all its domain received: the  *)
(* campaign implements the ledger, with any number of guests, runs and      *)
(* domains (experiment_once.c:80-160,                                       *)
(* experiment_for_parallel_flex.sh:29-34).                                  *)
THEOREM KeepsLedgerHolds ==
  ASSUME OwnNames, AddressIsNoId
  PROVE  Spec => KeepsLedger
<1>1. Init => LatestInv
  BY InitLatest
<1>2. LatestInv /\ [Next]_vars => LatestInv'
  BY NextLatest
<1>3. Init => Ledger!Init
  BY InitImplements
<1>4. LatestInv /\ [Next]_vars => [Ledger!Next]_(Ledger!vars)
  BY NextImplements
<1>5. QED
  BY <1>1, <1>2, <1>3, <1>4, PTL DEF Spec, KeepsLedger, Ledger!Spec
=============================================================================
