------------------------ MODULE CampaignGuestProofs ------------------------
(***************************************************************************)
(* What becomes of the guests of a campaign, proved: every pause is taken  *)
(* back by the run that made it, in any instance; and where all drivers    *)
(* run the quick algorithm and a guest that is up answers in time, no line *)
(* of a log is about a guest that was up when it was destroyed.            *)
(***************************************************************************)
EXTENDS CampaignProofs

-----------------------------------------------------------------------------
(* Pauses. *)

Pauser(g, d) == run[g].pause /\ DomId(g) = d /\ run[g].pc \in {"inject", "recover"}

PausedIsListed == \A d \in DomIds : dom[d].paused => Listed(d)

PauseIsMeant == \A g \in Guests : run[g].pc = "pause" => run[g].pause

PauseInv == LinesInv /\ PauseIsMeant /\ PausedIsListed /\ PausedHasPauser

(* No pause begins or goes to another life of its domain. *)
PausesKept ==
  \A d \in DomIds : dom'[d].paused => dom[d].paused /\ (Listed(d) => Listed(d)')

PausersKept == \A g \in Guests : \A d \in DomIds : Pauser(g, d) => Pauser(g, d)'

LEMMA PausesKeptInv ==
  ASSUME PauseInv, LinesInv', PauseIsMeant', PausesKept, PausersKept
  PROVE  PauseInv'
<1>1. PausedIsListed'
  BY DEF PauseInv, PausedIsListed, PausesKept
<1>2. PausedHasPauser'
  <2> SUFFICES ASSUME NEW d \in DomIds, dom'[d].paused
               PROVE  \E g \in Guests : Pauser(g, d)'
    BY DEF PausedHasPauser, Pauser
  <2>1. PICK g \in Guests : Pauser(g, d)
    BY DEF PauseInv, PausedHasPauser, PausesKept, Pauser
  <2>2. QED
    BY <2>1 DEF PausersKept
<1>3. QED
  BY <1>1, <1>2 DEF PauseInv

LEMMA XmRestorePauses ==
  ASSUME PauseInv, NEW g \in Guests, XmRestore(g)
  PROVE  PausesKept
<1>0. dom \in [DomIds -> Domain] /\ nextId \in Nat
  BY DEF PauseInv, LinesInv, TypeOK, HostTypeOK
<1>1. CASE UNCHANGED hostVars
  BY <1>1 DEF hostVars, PausesKept, Listed
<1>2. CASE dom' = [dom EXCEPT ![nextId] = [NoDomain EXCEPT !.owner = g, !.life = "up"]]
  <2>1. [NoDomain EXCEPT !.owner = g, !.life = "up"].paused = FALSE
    BY DEF NoDomain
  <2>2. QED
    BY <1>0, <1>2, <2>1 DEF PausesKept, Listed
<1>3. QED
  BY <1>1, <1>2 DEF XmRestore

LEMMA XmDestroyPauses ==
  ASSUME PauseInv, NEW g \in Guests, XmDestroy(g)
  PROVE  PausesKept
<1>0. dom \in [DomIds -> Domain]
  BY DEF PauseInv, LinesInv, TypeOK, HostTypeOK
<1>1. CASE UNCHANGED hostVars
  BY <1>1 DEF hostVars, PausesKept, Listed
<1>2. CASE XmDestroyed(g)
  <2>1. PICK d \in Named(g) :
          dom' = [dom EXCEPT ![d].life = "dying", ![d].paused = FALSE,
                             ![d].left = dom[d].life]
    BY <1>2 DEF XmDestroyed
  <2>2. d \in DomIds /\ dom'[d].paused = FALSE /\ \A e \in DomIds \ {d} : dom'[e] = dom[e]
    BY <1>0, <2>1 DEF Named, Domain
  <2>3. QED
    BY <2>2 DEF PausesKept, Listed
<1>3. QED
  BY <1>1, <1>2 DEF XmDestroy

LEMMA HostStepPauses ==
  ASSUME PauseInv, HostStep
  PROVE  PausesKept
<1>0. dom \in [DomIds -> Domain]
  BY DEF PauseInv, LinesInv, TypeOK, HostTypeOK
<1>1. PICK d \in DomIds : GuestHangs(d) \/ GuestCrashes(d) \/ Reap(d)
  BY DEF HostStep
<1>2. dom'[d].paused = FALSE /\ \A e \in DomIds \ {d} : dom'[e] = dom[e]
  <2>1. dom[d].paused \in BOOLEAN
    BY <1>0 DEF Domain
  <2>2. QED
    BY <1>0, <1>1, <2>1 DEF GuestHangs, GuestCrashes, Reap, Domain
<1>3. QED
  BY <1>2 DEF PausesKept, Listed

(* A run that goes from a place where it owes no unpause keeps all pausers. *)
LEMMA OtherPausersKept ==
  ASSUME NEW g \in Guests, \A h \in Guests \ {g} : run'[h] = run[h],
         \A d \in DomIds : Pauser(g, d) => Pauser(g, d)'
  PROVE  PausersKept
BY DEF PausersKept, Pauser, DomId

LEMMA RunStepMeant ==
  ASSUME PauseInv, NEW g \in Guests, RunStep(g)
  PROVE  PauseIsMeant'
<1>0. run \in [Guests -> Run] /\ \A h \in Guests : run[h].pc = "pause" => run[h].pause
  BY DEF PauseInv, LinesInv, TypeOK, RunTypeOK, PauseIsMeant
<1>1. run'[g].pc = "pause" => run'[g].pause
  <2>1. CASE XaInit(g)
    BY <1>0, <2>1 DEF XaInit, Run
  <2>2. CASE InjectBit(g)
    <3>1. PICK a \in Addrs :
            run' = [run EXCEPT ![g].attack = @ + 1, ![g].seen = @ \cup {a},
                 ![g].pc = IF run[g].pause \/ a \in run[g].seen THEN "inject" ELSE "check"]
      BY <2>2 DEF InjectBit
    <3>2. run'[g].pc \in {"inject", "check"}
      BY <1>0, <3>1 DEF Run
    <3>3. QED
      BY <3>2
  <2>3. CASE CheckGuest(g)
    <3>1. PICK v \in Verdicts(g) :
            run' = [run EXCEPT ![g].rc = v, ![g].dead = (v # 0),
                               ![g].pc = IF v = 0 THEN "inject" ELSE "recover"]
      BY <2>3 DEF CheckGuest
    <3>2. run'[g].pc \in {"inject", "recover"}
      BY <1>0, <3>1 DEF Run
    <3>3. QED
      BY <3>2
  <2>4. CASE Recheck(g)
    BY <1>0, <2>4 DEF Recheck, Run
  <2>5. CASE Record(g)
    BY <1>0, <2>5 DEF Record, Run
  <2>6. CASE DiesOfSigpipe(g) \/ AbortsInCleanup(g) \/ RestoreDomain(g)
    BY <1>0, <2>6 DEF DiesOfSigpipe, AbortsInCleanup, RestoreDomain, NoRun
  <2>7. CASE \E label \in {"inject", "recover", "recheck", "destroy", "confirm", "record"} :
               Goto(g, label)
    BY <1>0, <2>7 DEF Goto, Run
  <2>8. QED
    BY <2>1, <2>2, <2>3, <2>4, <2>5, <2>6, <2>7
       DEF RunStep, XaInitFails, PauseDomain, StopInjecting, Recover, ForkFails,
           DestroyDomain, ReDestroy, Destroyed
<1>2. \A h \in Guests \ {g} : run'[h] = run[h]
  BY RunStepLines DEF PauseInv
<1>3. QED
  BY <1>0, <1>1, <1>2 DEF PauseIsMeant

LEMMA PauseDomainPause ==
  ASSUME PauseInv, NEW g \in Guests, PauseDomain(g), LinesInv', PauseIsMeant'
  PROVE  PauseInv'
<1>0. /\ run \in [Guests -> Run] /\ dom \in [DomIds -> Domain]
      /\ run[g].pause
      /\ run[g].pc = "pause" /\ run' = [run EXCEPT ![g].pc = "inject"]
      /\ dom' = IF Listed(DomId(g)) THEN [dom EXCEPT ![DomId(g)].paused = TRUE] ELSE dom
  BY DEF PauseInv, LinesInv, TypeOK, HostTypeOK, RunTypeOK, PauseIsMeant,
         PauseDomain, SetPaused, Goto, At
<1>1. /\ \A h \in Guests \ {g} : run'[h] = run[h]
      /\ run'[g].pc = "inject" /\ run'[g].pause /\ run'[g].target = run[g].target
  BY <1>0 DEF Run
<1>2. \A d \in DomIds : /\ dom'[d].life = dom[d].life
                        /\ dom'[d].paused => dom[d].paused \/ (d = DomId(g) /\ Listed(d))
  BY <1>0 DEF Domain, Listed
<1>3. PausedIsListed'
  BY <1>2 DEF PauseInv, PausedIsListed, Listed
<1>4. PausedHasPauser'
  <2> SUFFICES ASSUME NEW d \in DomIds, dom'[d].paused
               PROVE  \E h \in Guests : Pauser(h, d)'
    BY DEF PausedHasPauser, Pauser
  <2>1. CASE d = DomId(g)
    BY <1>1, <2>1 DEF Pauser, DomId
  <2>2. CASE d # DomId(g)
    <3>1. PICK h \in Guests : Pauser(h, d)
      BY <1>2, <2>2 DEF PauseInv, PausedHasPauser, Pauser
    <3>2. h # g
      BY <1>0, <3>1 DEF Pauser
    <3>3. QED
      BY <1>1, <3>1, <3>2 DEF Pauser, DomId
  <2>3. QED
    BY <2>1, <2>2
<1>5. QED
  BY <1>3, <1>4 DEF PauseInv

(* The unpause finds its domain, if that is still paused. *)
LEMMA RecoverPause ==
  ASSUME PauseInv, NEW g \in Guests, Recover(g), run[g].pause, LinesInv', PauseIsMeant'
  PROVE  PauseInv'
<1>0. /\ run \in [Guests -> Run] /\ dom \in [DomIds -> Domain]
      /\ run' = [run EXCEPT ![g].pc = "recheck"]
      /\ dom' = IF Listed(DomId(g)) THEN [dom EXCEPT ![DomId(g)].paused = FALSE] ELSE dom
  BY DEF PauseInv, LinesInv, TypeOK, HostTypeOK, RunTypeOK, Recover, SetPaused, Goto
<1>1. \A h \in Guests \ {g} : run'[h] = run[h]
  BY <1>0
<1>2. \A d \in DomIds : /\ dom'[d].life = dom[d].life
                        /\ dom'[d].paused => dom[d].paused
                        /\ d = DomId(g) => ~dom'[d].paused
  BY <1>0 DEF Domain, PauseInv, PausedIsListed
<1>3. PausedIsListed'
  BY <1>2 DEF PauseInv, PausedIsListed, Listed
<1>4. PausedHasPauser'
  <2> SUFFICES ASSUME NEW d \in DomIds, dom'[d].paused
               PROVE  \E h \in Guests : Pauser(h, d)'
    BY DEF PausedHasPauser, Pauser
  <2>1. PICK h \in Guests : Pauser(h, d)
    BY <1>2 DEF PauseInv, PausedHasPauser, Pauser
  <2>2. h # g
    BY <1>2, <2>1 DEF Pauser
  <2>3. QED
    BY <1>1, <2>1, <2>2 DEF Pauser, DomId
<1>5. QED
  BY <1>3, <1>4 DEF PauseInv

LEMMA RunStepPauses ==
  ASSUME PauseInv, NEW g \in Guests, RunStep(g), ~PauseDomain(g),
         ~(Recover(g) /\ run[g].pause)
  PROVE  PausesKept /\ PausersKept
<1>0. /\ run \in [Guests -> Run] /\ dom \in [DomIds -> Domain]
      /\ run[g].pause \in BOOLEAN
  BY DEF PauseInv, LinesInv, TypeOK, HostTypeOK, RunTypeOK, Run
<1>1. PausesKept
  <2>1. CASE UNCHANGED hostVars
    BY <2>1 DEF hostVars, PausesKept, Listed
  <2>2. CASE XmDestroy(g)
    BY <2>2, XmDestroyPauses
  <2>3. CASE XmRestore(g)
    BY <2>3, XmRestorePauses
  <2>4. CASE Flip(run[g].target)
    BY <1>0, <2>4 DEF Flip, PausesKept, Listed, Domain
  <2>5. UNCHANGED hostVars \/ XmDestroy(g) \/ XmRestore(g) \/ Flip(run[g].target)
    BY <1>0 DEF RunStep, XaInit, XaInitFails, InjectBit, StopInjecting, CheckGuest, Recover,
                Recheck, DiesOfSigpipe, ForkFails, DestroyDomain, ReDestroy, Destroyed,
                Record, AbortsInCleanup, RestoreDomain
  <2>6. QED
    BY <2>1, <2>2, <2>3, <2>4, <2>5
<1>2. CASE InjectBit(g) \/ StopInjecting(g)
  <2>1. /\ \A h \in Guests \ {g} : run'[h] = run[h]
        /\ run[g].pause => run'[g].pc \in {"inject", "recover"}
        /\ run'[g].pause = run[g].pause /\ run'[g].target = run[g].target
    <3>1. CASE InjectBit(g)
      <4>1. PICK a \in Addrs :
              run' = [run EXCEPT ![g].attack = @ + 1, ![g].seen = @ \cup {a},
                 ![g].pc = IF run[g].pause \/ a \in run[g].seen THEN "inject" ELSE "check"]
        BY <3>1 DEF InjectBit
      <4>2. QED
        BY <1>0, <4>1 DEF Run
    <3>2. CASE StopInjecting(g)
      BY <1>0, <3>2 DEF StopInjecting, Goto, Run
    <3>3. QED
      BY <1>2, <3>1, <3>2
  <2>2. \A d \in DomIds : Pauser(g, d) => Pauser(g, d)'
    BY <2>1 DEF Pauser, DomId
  <2>3. QED
    BY <1>1, <2>1, <2>2, OtherPausersKept
<1>3. CASE ~InjectBit(g) /\ ~StopInjecting(g)
  <2>1. run[g].pc \in {"inject", "recover"} => ~run[g].pause
    BY <1>3 DEF RunStep, XaInit, XaInitFails, CheckGuest, Recover, Recheck, DiesOfSigpipe,
                ForkFails, DestroyDomain, ReDestroy, Destroyed, Record, AbortsInCleanup,
                RestoreDomain, At
  <2>2. \A h \in Guests \ {g} : run'[h] = run[h]
    BY RunStepLines DEF PauseInv
  <2>3. QED
    BY <1>1, <2>1, <2>2, OtherPausersKept DEF Pauser
<1>4. QED
  BY <1>2, <1>3

LEMMA DriverStepPauses ==
  ASSUME PauseInv, NEW g \in Guests, DriverStep(g)
  PROVE  PauseIsMeant' /\ PausesKept /\ PausersKept
<1>0. /\ run \in [Guests -> Run] /\ dom \in [DomIds -> Domain]
      /\ \A h \in Guests : run[h].pc = "pause" => run[h].pause
  BY DEF PauseInv, LinesInv, TypeOK, HostTypeOK, RunTypeOK, PauseIsMeant
<1>1. CASE UNCHANGED run
  <2>1. UNCHANGED hostVars \/ XmRestore(g)
    BY DEF DriverStep, Boot, LaunchListed, LaunchUnlisted, StopDriver, Return, Finish, Launch
  <2>2. PausesKept
    BY <2>1, XmRestorePauses DEF hostVars, PausesKept, Listed
  <2>3. QED
    BY <1>0, <1>1, <2>2 DEF PauseIsMeant, PausersKept, Pauser, DomId
<1>2. CASE LaunchListed(g) \/ LaunchUnlisted(g)
  <2>1. /\ drv[g].pc = "list" /\ UNCHANGED hostVars
        /\ run'[g].pc \in {"init", "off"}
        /\ \A h \in Guests \ {g} : run'[h] = run[h]
    <3> DEFINE p(d) == [NoRun EXCEPT !.pc = "init", !.target = d, !.ip = TRUE,
                          !.pause = (Algorithm[g] = "with_pause"), !.quota = Quota(g)]
               q == [NoRun EXCEPT !.pc = "init", !.target = Octet, !.quota = WaitSecs]
    <3>1. NoRun.pc = "off" /\ q.pc = "init" /\ \A d : p(d).pc = "init"
      BY DEF NoRun
    <3>2. drv[g].pc = "list"
      BY <1>2 DEF LaunchListed, LaunchUnlisted, Listing
    <3>3. \E process : process.pc \in {"init", "off"} /\ \E id, label : Launch(g, id, process, label)
      <4>1. CASE LaunchListed(g)
        <5>1. PICK d \in DomIds : Launch(g, d, p(d), "wait")
          BY <4>1 DEF LaunchListed
        <5> HIDE DEF p
        <5>2. QED
          BY <3>1, <5>1
      <4>2. CASE LaunchUnlisted(g)
        <5>1. Launch(g, NoId, q, "wait") \/ Launch(g, NoId, NoRun, "list")
          BY <4>2 DEF LaunchUnlisted
        <5> HIDE DEF q
        <5>2. QED
          BY <3>1, <5>1
      <4>3. QED
        BY <1>2, <4>1, <4>2
    <3>4. PICK process, id, label :
            process.pc \in {"init", "off"} /\ Launch(g, id, process, label)
      BY <3>3
    <3>5. run' = [run EXCEPT ![g] = process] /\ UNCHANGED hostVars
      BY <3>4 DEF Launch
    <3> HIDE DEF p, q
    <3>6. run'[g] = process /\ \A h \in Guests \ {g} : run'[h] = run[h]
      BY <1>0, <3>5
    <3>7. QED
      BY <3>2, <3>4, <3>5, <3>6
  <2>3. run[g].pc = "off"
    BY <2>1 DEF PauseInv, LinesInv, OneProcess, At
  <2>4. PauseIsMeant'
    BY <1>0, <2>1 DEF PauseIsMeant
  <2>5. PausersKept
    BY <2>1, <2>3, OtherPausersKept DEF Pauser
  <2>6. QED
    BY <2>1, <2>4, <2>5 DEF hostVars, PausesKept, Listed
<1>3. QED
  BY <1>1, <1>2 DEF DriverStep, Boot, StopDriver, Return, Finish, runVars

LEMMA NextPause ==
  ASSUME PauseInv, [Next]_vars
  PROVE  PauseInv'
<1>0. LinesInv'
  BY NextLines DEF PauseInv
<1>1. ASSUME NEW g \in Guests, RunStep(g), UNCHANGED drv
      PROVE  PauseInv'
  <2>1. PauseIsMeant'
    BY <1>1, RunStepMeant
  <2>2. CASE PauseDomain(g)
    BY <1>0, <2>1, <2>2, PauseDomainPause
  <2>3. CASE Recover(g) /\ run[g].pause
    BY <1>0, <2>1, <2>3, RecoverPause
  <2>4. CASE ~PauseDomain(g) /\ ~(Recover(g) /\ run[g].pause)
    BY <1>0, <1>1, <2>1, <2>4, RunStepPauses, PausesKeptInv
  <2>5. QED
    BY <2>2, <2>3, <2>4
<1>2. ASSUME NEW g \in Guests, DriverStep(g)
      PROVE  PauseInv'
  BY <1>0, <1>2, DriverStepPauses, PausesKeptInv
<1>3. CASE (HostStep \/ UNCHANGED hostVars) /\ UNCHANGED <<runVars, drv>>
  <2>1. PausesKept
    BY <1>3, HostStepPauses DEF hostVars, PausesKept, Listed
  <2>2. PauseIsMeant' /\ PausersKept
    BY <1>3 DEF runVars, PauseInv, PauseIsMeant, PausersKept, Pauser, DomId
  <2>3. QED
    BY <1>0, <2>1, <2>2, PausesKeptInv
<1>4. QED
  BY <1>1, <1>2, <1>3 DEF Next, AllEnded, vars

LEMMA InitPause == Init => PauseInv
<1> SUFFICES ASSUME Init PROVE PauseInv
  OBVIOUS
<1>1. /\ LinesInv
      /\ \A d \in DomIds : dom[d] = NoDomain
      /\ \A g \in Guests : run[g] = NoRun
  BY InitLines DEF Init, HostInit, RunInit
<1>2. NoDomain.paused = FALSE /\ NoRun.pc = "off"
  BY DEF NoDomain, NoRun
<1>3. QED
  BY <1>1, <1>2 DEF PauseInv, PauseIsMeant, PausedIsListed, PausedHasPauser

(* A paused domain has a run that paused it and will unpause it, whatever   *)
(* names the guests have, however many runs attack and pause each other's   *)
(* domains, and wherever fork fails (experiment_once.c:72-126).             *)
THEOREM PausedHasPauserHolds == Spec => []PausedHasPauser
<1>1. Init => PauseInv
  BY InitPause
<1>2. PauseInv /\ [Next]_vars => PauseInv'
  BY NextPause
<1>3. PauseInv => PausedHasPauser
  BY DEF PauseInv
<1>4. QED
  BY <1>1, <1>2, <1>3, PTL DEF Spec

-----------------------------------------------------------------------------
(* Verdicts of the quick algorithm: the inductive invariant. *)

AllSimple == \A g \in Guests : Algorithm[g] = "simple"

(* A domain that is not up and was not when it was destroyed: for good.     *)
Settled(d) == dom[d].owner # NoGuest /\ dom[d].life # "up" /\ dom[d].left # "up"

NobodyPauses ==
  /\ \A g \in Guests : run[g].pause = FALSE /\ run[g].pc \notin {"pause", "recheck"}
  /\ \A d \in DomIds : dom[d].paused = FALSE

ListedWasLeft == \A d \in DomIds : Listed(d) => dom[d].left = "gone"

(* A run asks its own guest's address for a heart beat. *)
AsksItsGuest == \A g \in Guests : run[g].target \in DomIds => run[g].ip

(* Nobody but the run destroys the domain it attacks. *)
VictimWasLeft ==
  \A g \in Guests : run[g].pc \in Injecting => dom[run[g].target].left = "gone"

VerdictIsTrue ==
  \A g \in Guests : LogsDeath(g) => run[g].target \in DomIds /\ Settled(run[g].target)

LoggedIsSettled ==
  \A g \in Guests : \A l \in LinesIn(log[g]) : l.dom \in DomIds => Settled(l.dom)

SurvivorInv ==
  /\ DamageInv /\ NobodyPauses /\ ListedWasLeft /\ AsksItsGuest
  /\ VictimWasLeft /\ VerdictIsTrue /\ LoggedIsSettled

-----------------------------------------------------------------------------
(* What the host does to the domains. *)

HostSteady ==
  \A d \in DomIds :
    /\ dom'[d].paused = FALSE
    /\ Settled(d) => Settled(d)'
    /\ Listed(d)' => dom'[d].left = "gone"

LeftKept(g) == \A d \in DomIds : dom[d].owner # g => dom'[d].left = dom[d].left

LEMMA HostUnchangedSteady ==
  ASSUME SurvivorInv, UNCHANGED hostVars
  PROVE  HostSteady /\ \A g : LeftKept(g)
BY DEF SurvivorInv, NobodyPauses, ListedWasLeft, HostSteady, LeftKept, Settled, Listed, hostVars

LEMMA XmRestoreSteady ==
  ASSUME SurvivorInv, NEW h \in Guests, XmRestore(h)
  PROVE  HostSteady /\ \A g : LeftKept(g)
<1>0. dom \in [DomIds -> Domain] /\ nextId \in Nat /\ HostFresh
  BY HostAssumption DEF SurvivorInv, DamageInv, TypeOK, HostTypeOK
<1>1. CASE UNCHANGED hostVars
  BY <1>1, HostUnchangedSteady
<1>2. CASE dom' = [dom EXCEPT ![nextId] = [NoDomain EXCEPT !.owner = h, !.life = "up"]]
  <2> DEFINE new == [NoDomain EXCEPT !.owner = h, !.life = "up"]
  <2>1. /\ new.paused = FALSE /\ new.left = "gone"
        /\ NoDomain.owner = NoGuest /\ NoDomain.left = "gone"
    BY DEF NoDomain
  <2>2. nextId \in DomIds => dom[nextId] = NoDomain
    BY <1>0 DEF HostFresh
  <2> HIDE DEF new
  <2>3. \A d \in DomIds : dom'[d] = IF d = nextId THEN new ELSE dom[d]
    BY <1>0, <1>2 DEF new
  <2>4. QED
    BY <2>1, <2>2, <2>3
       DEF SurvivorInv, NobodyPauses, ListedWasLeft, HostSteady, LeftKept, Settled, Listed
<1>3. QED
  BY <1>1, <1>2 DEF XmRestore

LEMMA XmDestroySteady ==
  ASSUME SurvivorInv, NEW g \in Guests, XmDestroy(g)
  PROVE  HostSteady /\ LeftKept(g)
<1>0. dom \in [DomIds -> Domain]
  BY DEF SurvivorInv, DamageInv, TypeOK, HostTypeOK
<1>1. CASE UNCHANGED hostVars
  BY <1>1, HostUnchangedSteady
<1>2. CASE XmDestroyed(g)
  <2>1. PICK d \in Named(g) :
          dom' = [dom EXCEPT ![d].life = "dying", ![d].paused = FALSE,
                             ![d].left = dom[d].life]
    BY <1>2 DEF XmDestroyed
  <2>2. /\ d \in DomIds /\ dom[d].owner = g
        /\ \A e \in DomIds \ {d} : dom'[e] = dom[e]
        /\ dom'[d].paused = FALSE /\ dom'[d].life = "dying"
        /\ dom'[d].left = dom[d].life /\ dom'[d].owner = dom[d].owner
    BY <1>0, <2>1 DEF Named, Domain
  <2>3. QED
    BY <2>2
       DEF SurvivorInv, NobodyPauses, ListedWasLeft, HostSteady, LeftKept, Settled, Listed
<1>3. QED
  BY <1>1, <1>2 DEF XmDestroy

LEMMA FlipSteady ==
  ASSUME SurvivorInv, NEW d, Flip(d)
  PROVE  HostSteady /\ \A g : LeftKept(g)
<1>1. \A e \in DomIds : /\ dom'[e].paused = dom[e].paused /\ dom'[e].life = dom[e].life
                        /\ dom'[e].left = dom[e].left /\ dom'[e].owner = dom[e].owner
  BY DEF SurvivorInv, DamageInv, TypeOK, HostTypeOK, Flip, Domain
<1>2. QED
  BY <1>1 DEF SurvivorInv, NobodyPauses, ListedWasLeft, HostSteady, LeftKept, Settled, Listed

LEMMA HostStepSteady ==
  ASSUME SurvivorInv, HostStep
  PROVE  HostSteady /\ \A g : LeftKept(g)
<1>0. dom \in [DomIds -> Domain]
  BY DEF SurvivorInv, DamageInv, TypeOK, HostTypeOK
<1>1. PICK d \in DomIds : GuestHangs(d) \/ GuestCrashes(d) \/ Reap(d)
  BY DEF HostStep
<1>2. /\ \A e \in DomIds \ {d} : dom'[e] = dom[e]
      /\ dom'[d].paused = FALSE /\ dom'[d].left = dom[d].left
      /\ dom'[d].owner = dom[d].owner
      /\ dom'[d].life # "up" /\ (Listed(d)' => Listed(d))
  BY <1>0, <1>1 DEF GuestHangs, GuestCrashes, Reap, Domain, Listed,
                    SurvivorInv, NobodyPauses
<1>3. QED
  BY <1>2 DEF SurvivorInv, NobodyPauses, ListedWasLeft, HostSteady, LeftKept, Settled, Listed

-----------------------------------------------------------------------------
(* Steps that give no verdict and write no line. *)

(* r goes on as s and holds what r held. *)
HoldsOn(r, s) ==
  \/ s = NoRun
  \/ /\ s.target = r.target /\ s.ip = r.ip /\ s.pause = r.pause
     /\ s.init = r.init /\ s.rc = r.rc /\ s.dead = r.dead
     /\ s.pc \notin {"pause", "recheck"}
     /\ s.pc \in Injecting => r.pc \in Injecting

RunsHoldOn == \A g \in Guests : HoldsOn(run[g], run'[g])

LEMMA NoRunHolds ==
  /\ NoRun.pause = FALSE /\ NoRun.pc = "off" /\ NoRun.pc \notin Injecting
  /\ NoRun.target \notin DomIds /\ NoRun.init = FALSE /\ NoRun.dead = FALSE
BY HostAssumption DEF NoRun, DomIds, Injecting

LEMMA SteadyStep ==
  ASSUME SurvivorInv, DamageInv', HostSteady, RunsHoldOn, UNCHANGED log, VictimWasLeft'
  PROVE  SurvivorInv'
<1>1. NobodyPauses'
  BY NoRunHolds DEF SurvivorInv, NobodyPauses, HostSteady, RunsHoldOn, HoldsOn
<1>2. ListedWasLeft'
  BY DEF ListedWasLeft, HostSteady
<1>3. AsksItsGuest'
  BY NoRunHolds DEF SurvivorInv, AsksItsGuest, RunsHoldOn, HoldsOn
<1>4. VerdictIsTrue'
  BY NoRunHolds DEF SurvivorInv, VerdictIsTrue, LogsDeath, RunsHoldOn, HoldsOn, HostSteady
<1>5. LoggedIsSettled'
  BY DEF SurvivorInv, LoggedIsSettled, HostSteady
<1>6. QED
  BY <1>1, <1>2, <1>3, <1>4, <1>5 DEF SurvivorInv

(* The domain a run attacks is its guest's, so only this run destroys it.   *)
LEMMA VictimKept ==
  ASSUME SurvivorInv, DamageInv', NEW g \in Guests, LeftKept(g), RunsHoldOn,
         run'[g].pc \in Injecting => \A h : LeftKept(h)
  PROVE  VictimWasLeft'
<1> SUFFICES ASSUME NEW h \in Guests, run'[h].pc \in Injecting
             PROVE  dom'[run'[h].target].left = "gone"
  BY DEF VictimWasLeft
<1>1. run[h].pc \in Injecting /\ run'[h].target = run[h].target
  BY NoRunHolds DEF RunsHoldOn, HoldsOn
<1>2. run[h].target \in DomIds /\ dom[run[h].target].owner = h
  BY <1>1 DEF SurvivorInv, DamageInv, CountFits, TargetIsPast
<1>3. dom[run[h].target].left = "gone"
  BY <1>1 DEF SurvivorInv, VictimWasLeft
<1>4. dom'[run[h].target].left = dom[run[h].target].left
  <2>1. CASE h = g
    <3>1. LeftKept(NoGuest)
      BY <2>1
    <3>2. dom[run[h].target].owner # NoGuest
      BY <1>2, HostAssumption
    <3>3. QED
      BY <1>2, <3>1, <3>2 DEF LeftKept
  <2>2. CASE h # g
    BY <1>2, <2>2 DEF LeftKept
  <2>3. QED
    BY <2>1, <2>2
<1>5. QED
  BY <1>1, <1>3, <1>4

LEMMA OneRunHoldsOn ==
  ASSUME SurvivorInv, NEW g \in Guests, NEW s, HoldsOn(run[g], s),
         run' = [run EXCEPT ![g] = s]
  PROVE  RunsHoldOn /\ run'[g] = s
<1>1. run \in [Guests -> Run]
  BY DEF SurvivorInv, DamageInv, TypeOK, RunTypeOK
<1>2. \A h \in Guests : h # g => HoldsOn(run[h], run[h])
  BY DEF HoldsOn, SurvivorInv, NobodyPauses
<1>3. run'[g] = s /\ \A h \in Guests : h # g => run'[h] = run[h]
  BY <1>1
<1>4. QED
  BY <1>2, <1>3 DEF RunsHoldOn

LEMMA GotoHoldsOn ==
  ASSUME SurvivorInv, NEW g \in Guests,
         NEW label \in {"recover", "destroy", "confirm", "record"}, Goto(g, label)
  PROVE  RunsHoldOn /\ run'[g].pc \notin Injecting
<1> DEFINE s == [run[g] EXCEPT !.pc = label]
<1>1. run[g] \in Run
  BY DEF SurvivorInv, DamageInv, TypeOK, RunTypeOK
<1>2. HoldsOn(run[g], s) /\ s.pc \notin Injecting
  BY <1>1 DEF HoldsOn, Run, Injecting
<1>3. run' = [run EXCEPT ![g] = s]
  BY DEF Goto
<1> HIDE DEF s
<1>4. QED
  BY <1>2, <1>3, OneRunHoldsOn

LEMMA NoRunHoldsOn ==
  ASSUME SurvivorInv, NEW g \in Guests, run' = [run EXCEPT ![g] = NoRun]
  PROVE  RunsHoldOn /\ run'[g].pc \notin Injecting
<1>1. HoldsOn(run[g], NoRun)
  BY DEF HoldsOn
<1>2. QED
  BY <1>1, OneRunHoldsOn, NoRunHolds

-----------------------------------------------------------------------------
(* The steps of a run. *)

LEMMA XaInitSurvivor ==
  ASSUME SurvivorInv, DamageInv', NEW g \in Guests, XaInit(g)
  PROVE  SurvivorInv'
<1>0. /\ run \in [Guests -> Run] /\ run[g] \in Run
      /\ Listed(run[g].target) /\ run[g].target \in DomIds
      /\ UNCHANGED <<dom, nextId, log>>
      /\ run[g].pause = FALSE
  BY DEF SurvivorInv, DamageInv, TypeOK, RunTypeOK, XaInit, Listed, hostVars, NobodyPauses
<1>1. /\ \A h \in Guests \ {g} : run'[h] = run[h]
      /\ run'[g].target = run[g].target /\ run'[g].ip = run[g].ip
      /\ run'[g].pause = FALSE /\ run'[g].pc = "inject"
      /\ run'[g].rc = 0 /\ run'[g].dead = run[g].dead
  BY <1>0 DEF XaInit, Run
<1>2. NobodyPauses'
  BY <1>0, <1>1 DEF SurvivorInv, NobodyPauses
<1>3. ListedWasLeft' /\ AsksItsGuest' /\ LoggedIsSettled'
  BY <1>0, <1>1
     DEF SurvivorInv, ListedWasLeft, AsksItsGuest, LoggedIsSettled, Listed, Settled
<1>4. VictimWasLeft'
  BY <1>0, <1>1 DEF SurvivorInv, VictimWasLeft, ListedWasLeft
<1>5. VerdictIsTrue'
  BY <1>0, <1>1 DEF SurvivorInv, VerdictIsTrue, LogsDeath, Settled
<1>6. QED
  BY <1>2, <1>3, <1>4, <1>5 DEF SurvivorInv

(* The quick verdict: 0 if the attacked domain is up.                       *)
LEMMA VerdictOfUp ==
  ASSUME SurvivorInv, Prompt = TRUE, NEW g \in Guests, run[g].target \in DomIds,
         dom[run[g].target].life = "up"
  PROVE  Verdicts(g) = {0}
<1> DEFINE t == run[g].target
<1>1. /\ t \in DomIds /\ t \in Int /\ DomIds \subseteq Int
      /\ Present(t) /\ Listed(t) /\ dom[t].paused = FALSE /\ dom[t].owner = g /\ run[g].ip
  BY DEF DomIds, Present, Listed, SurvivorInv, NobodyPauses, AsksItsGuest,
         DamageInv, TargetIsPast
<1>2. InfoOf(t) = {t}
  <2>1. t \in InfoOf(t)
    BY <1>1 DEF InfoOf
  <2>2. ASSUME NEW e \in InfoOf(t)
        PROVE  e = t
    BY <1>1, <2>2 DEF InfoOf
  <2>3. QED
    BY <2>1, <2>2
<1>3. Answers(g)
  BY <1>1 DEF Answers, Named
<1>4. QED
  BY <1>1, <1>2, <1>3 DEF Verdicts, IsGuestDead

LEMMA CheckGuestSurvivor ==
  ASSUME SurvivorInv, DamageInv', Prompt = TRUE, NEW g \in Guests, CheckGuest(g)
  PROVE  SurvivorInv'
<1>0. /\ run \in [Guests -> Run] /\ run[g] \in Run
      /\ run[g].pc = "check" /\ run[g].pause = FALSE
      /\ UNCHANGED <<dom, nextId, log>>
  BY DEF SurvivorInv, DamageInv, TypeOK, RunTypeOK, CheckGuest, At, hostVars, NobodyPauses
<1>1. /\ run[g].target \in DomIds /\ dom[run[g].target].owner = g
      /\ dom[run[g].target].left = "gone"
  BY <1>0 DEF SurvivorInv, DamageInv, CountFits, TargetIsPast, VictimWasLeft, Injecting
<1>2. PICK v \in Verdicts(g) :
        run' = [run EXCEPT ![g].rc = v, ![g].dead = (v # 0),
                           ![g].pc = IF v = 0 THEN "inject" ELSE "recover"]
  BY DEF CheckGuest
<1>3. /\ \A h \in Guests \ {g} : run'[h] = run[h]
      /\ run'[g].target = run[g].target /\ run'[g].ip = run[g].ip
      /\ run'[g].pause = FALSE /\ run'[g].pc \in {"inject", "recover"}
      /\ run'[g].rc = v /\ run'[g].dead = (v # 0)
  BY <1>0, <1>2 DEF Run
<1>4. v # 0 => Settled(run[g].target)
  BY <1>1, VerdictOfUp, HostAssumption DEF Settled
<1>5. NobodyPauses'
  BY <1>0, <1>3 DEF SurvivorInv, NobodyPauses
<1>6. ListedWasLeft' /\ AsksItsGuest' /\ LoggedIsSettled'
  BY <1>0, <1>3
     DEF SurvivorInv, ListedWasLeft, AsksItsGuest, LoggedIsSettled, Listed, Settled
<1>7. VictimWasLeft'
  BY <1>0, <1>1, <1>3 DEF SurvivorInv, VictimWasLeft
<1>8. VerdictIsTrue'
  <2> SUFFICES ASSUME NEW h \in Guests, LogsDeath(h)'
               PROVE  (run[h].target \in DomIds /\ Settled(run[h].target))'
    BY DEF VerdictIsTrue
  <2>1. CASE h = g
    BY <1>0, <1>1, <1>3, <1>4, <2>1 DEF LogsDeath, Settled
  <2>2. CASE h # g
    BY <1>0, <1>3, <2>2 DEF SurvivorInv, VerdictIsTrue, LogsDeath, Settled
  <2>3. QED
    BY <2>1, <2>2
<1>9. QED
  BY <1>5, <1>6, <1>7, <1>8 DEF SurvivorInv

LEMMA RecordSurvivor ==
  ASSUME SurvivorInv, DamageInv', NEW g \in Guests, Record(g)
  PROVE  SurvivorInv'
<1> DEFINE line == [dom |-> run[g].target, count |-> run[g].attack]
           s == [run[g] EXCEPT !.cleaned = TRUE, !.pc = "restore"]
<1>0. /\ run[g] \in Run /\ log \in [Guests -> Seq(Line)] /\ line \in Line
      /\ UNCHANGED hostVars
  BY DEF SurvivorInv, DamageInv, TypeOK, RunTypeOK, Record, Run, Line
<1>1. RunsHoldOn /\ run'[g].pc \notin Injecting
  <2>1. HoldsOn(run[g], s) /\ s.pc \notin Injecting
    BY <1>0 DEF HoldsOn, Run, Injecting
  <2>2. run' = [run EXCEPT ![g] = s]
    BY DEF Record
  <2> HIDE DEF s
  <2>3. QED
    BY <2>1, <2>2, OneRunHoldsOn
<1>2. HostSteady /\ VictimWasLeft'
  BY <1>0, <1>1, HostUnchangedSteady, VictimKept
<1>3. CASE UNCHANGED log
  BY <1>1, <1>2, <1>3, SteadyStep
<1>4. CASE LogsDeath(g) /\ log' = [log EXCEPT ![g] = Append(@, line)]
  <2>1. NobodyPauses'
    BY <1>1, NoRunHolds, <1>2 DEF SurvivorInv, NobodyPauses, HostSteady, RunsHoldOn, HoldsOn
  <2>2. ListedWasLeft' /\ AsksItsGuest'
    BY <1>1, <1>2, NoRunHolds
       DEF SurvivorInv, ListedWasLeft, HostSteady, AsksItsGuest, RunsHoldOn, HoldsOn
  <2>3. VerdictIsTrue'
    BY <1>1, <1>2, NoRunHolds
       DEF SurvivorInv, VerdictIsTrue, LogsDeath, RunsHoldOn, HoldsOn, HostSteady
  <2>4. LoggedIsSettled'
    <3>1. /\ LinesIn(log'[g]) = LinesIn(log[g]) \cup {line}
          /\ \A h \in Guests \ {g} : LinesIn(log'[h]) = LinesIn(log[h])
      BY <1>0, <1>4, LinesInAppend
    <3>2. Settled(line.dom)
      BY <1>4 DEF SurvivorInv, VerdictIsTrue
    <3> HIDE DEF line
    <3>3. QED
      BY <1>2, <3>1, <3>2 DEF SurvivorInv, LoggedIsSettled, HostSteady
  <2>5. QED
    BY <1>2, <2>1, <2>2, <2>3, <2>4 DEF SurvivorInv
<1>5. QED
  BY <1>3, <1>4 DEF Record

LEMMA RunStepSurvivor ==
  ASSUME SurvivorInv, DamageInv', Prompt = TRUE, NEW g \in Guests, RunStep(g)
  PROVE  SurvivorInv'
<1>0. /\ run[g] \in Run /\ run[g].pause = FALSE
      /\ run[g].pc # "pause" /\ run[g].pc # "recheck"
  BY DEF SurvivorInv, DamageInv, TypeOK, RunTypeOK, NobodyPauses
<1>1. CASE XaInit(g)
  BY <1>1, XaInitSurvivor
<1>2. CASE CheckGuest(g)
  BY <1>2, CheckGuestSurvivor
<1>3. CASE Record(g)
  BY <1>3, RecordSurvivor
<1>4. CASE InjectBit(g)
  <2>1. PICK a \in Addrs :
          run' = [run EXCEPT ![g].attack = @ + 1, ![g].seen = @ \cup {a},
                   ![g].pc = IF run[g].pause \/ a \in run[g].seen THEN "inject" ELSE "check"]
    BY <1>4 DEF InjectBit
  <2> DEFINE s == [run[g] EXCEPT !.attack = @ + 1, !.seen = @ \cup {a},
                   !.pc = IF run[g].pause \/ a \in run[g].seen THEN "inject" ELSE "check"]
  <2>2. HoldsOn(run[g], s)
    BY <1>0, <1>4 DEF HoldsOn, Run, Injecting, InjectBit, At
  <2>3. run' = [run EXCEPT ![g] = s]
    BY <2>1
  <2> HIDE DEF s
  <2>4. RunsHoldOn
    BY <2>2, <2>3, OneRunHoldsOn
  <2>5. HostSteady /\ \A h : LeftKept(h)
    BY <1>4, FlipSteady DEF InjectBit
  <2>6. QED
    BY <1>4, <2>4, <2>5, VictimKept, SteadyStep DEF InjectBit
<1>5. CASE XaInitFails(g) \/ StopInjecting(g) \/ ForkFails(g) \/ ReDestroy(g) \/ Destroyed(g)
           \/ Recover(g)
  <2>1. UNCHANGED hostVars /\ UNCHANGED log
    BY <1>0, <1>5 DEF XaInitFails, StopInjecting, ForkFails, ReDestroy, Destroyed, Recover
  <2>2. \E label \in {"recover", "destroy", "confirm", "record"} : Goto(g, label)
    BY <1>0, <1>5 DEF XaInitFails, StopInjecting, ForkFails, ReDestroy, Destroyed, Recover
  <2>3. RunsHoldOn /\ run'[g].pc \notin Injecting
    BY <2>2, GotoHoldsOn
  <2>4. QED
    BY <2>1, <2>3, HostUnchangedSteady, VictimKept, SteadyStep
<1>6. CASE DestroyDomain(g)
  <2>1. XmDestroy(g) /\ Goto(g, "confirm") /\ UNCHANGED log
    BY <1>6 DEF DestroyDomain
  <2>2. RunsHoldOn /\ run'[g].pc \notin Injecting
    BY <2>1, GotoHoldsOn
  <2>3. QED
    BY <2>1, <2>2, XmDestroySteady, VictimKept, SteadyStep
<1>7. CASE DiesOfSigpipe(g) \/ AbortsInCleanup(g) \/ RestoreDomain(g)
  <2>1. /\ run' = [run EXCEPT ![g] = NoRun] /\ UNCHANGED log
        /\ UNCHANGED hostVars \/ XmRestore(g)
    BY <1>7 DEF DiesOfSigpipe, AbortsInCleanup, RestoreDomain
  <2>2. RunsHoldOn /\ run'[g].pc \notin Injecting
    BY <2>1, NoRunHoldsOn
  <2>3. QED
    BY <2>1, <2>2, HostUnchangedSteady, XmRestoreSteady, VictimKept, SteadyStep
<1>8. QED
  BY <1>0, <1>1, <1>2, <1>3, <1>4, <1>5, <1>6, <1>7 DEF RunStep, PauseDomain, Recheck, At

-----------------------------------------------------------------------------
(* The steps of a driver, and the theorem. *)

(* A launch of the quick algorithm: with the guest's address, or gone.      *)
LEMMA LaunchSurvivor ==
  ASSUME SurvivorInv, DamageInv', AllSimple, NEW g \in Guests,
         LaunchListed(g) \/ LaunchUnlisted(g)
  PROVE  SurvivorInv'
<1> DEFINE p(d) == [NoRun EXCEPT !.pc = "init", !.target = d, !.ip = TRUE,
                      !.pause = (Algorithm[g] = "with_pause"), !.quota = Quota(g)]
<1>1. \A d : /\ p(d).pc = "init" /\ p(d).ip
             /\ p(d).pause = FALSE /\ p(d).init = FALSE /\ p(d).dead = FALSE
  <2>1. Algorithm[g] # "with_pause"
    BY DEF AllSimple
  <2>2. QED
    BY <2>1 DEF NoRun
<1>2. \E process, id, label :
        /\ Launch(g, id, process, label)
        /\ process.pause = FALSE /\ process.pc \in {"init", "off"}
        /\ process.init = FALSE /\ process.dead = FALSE
        /\ process.target \in DomIds => process.ip
  <2>1. CASE LaunchListed(g)
    <3>1. PICK d \in DomIds : Launch(g, d, p(d), "wait")
      BY <2>1 DEF LaunchListed
    <3> HIDE DEF p
    <3>2. QED
      BY <1>1, <3>1
  <2>2. CASE LaunchUnlisted(g)
    <3>1. Launch(g, NoId, NoRun, "list")
      BY <2>2 DEF LaunchUnlisted, AllSimple
    <3>2. QED
      BY <3>1, NoRunHolds
  <2>3. QED
    BY <2>1, <2>2
<1>3. PICK process, id, label :
        /\ Launch(g, id, process, label)
        /\ process.pause = FALSE /\ process.pc \in {"init", "off"}
        /\ process.init = FALSE /\ process.dead = FALSE
        /\ process.target \in DomIds => process.ip
  BY <1>2
<1>4. /\ run'[g] = process /\ \A h \in Guests \ {g} : run'[h] = run[h]
      /\ UNCHANGED hostVars /\ UNCHANGED log
  BY <1>3 DEF Launch, SurvivorInv, DamageInv, TypeOK, RunTypeOK
<1>5. NobodyPauses'
  BY <1>3, <1>4 DEF SurvivorInv, NobodyPauses, hostVars
<1>6. ListedWasLeft' /\ AsksItsGuest' /\ LoggedIsSettled'
  BY <1>3, <1>4
     DEF SurvivorInv, ListedWasLeft, AsksItsGuest, LoggedIsSettled, Listed, Settled, hostVars
<1>7. VictimWasLeft'
  BY <1>3, <1>4 DEF SurvivorInv, VictimWasLeft, Injecting, hostVars
<1>8. VerdictIsTrue'
  BY <1>3, <1>4 DEF SurvivorInv, VerdictIsTrue, LogsDeath, Settled, hostVars
<1>9. QED
  BY <1>5, <1>6, <1>7, <1>8 DEF SurvivorInv

LEMMA OthersSurvivor ==
  ASSUME SurvivorInv, DamageInv', UNCHANGED runVars,
         HostSteady, \A g : LeftKept(g)
  PROVE  SurvivorInv'
<1>1. RunsHoldOn /\ UNCHANGED log
  BY DEF runVars, RunsHoldOn, HoldsOn, SurvivorInv, NobodyPauses
<1>2. VictimWasLeft'
  <2> SUFFICES ASSUME NEW g \in Guests, run[g].pc \in Injecting
               PROVE  dom'[run[g].target].left = "gone"
    BY DEF runVars, VictimWasLeft
  <2>1. VictimWasLeft'
    BY <1>1, VictimKept
  <2>2. QED
    BY <2>1 DEF VictimWasLeft, runVars
<1>3. QED
  BY <1>1, <1>2, SteadyStep

LEMMA NextSurvivor ==
  ASSUME OwnNames, AllSimple, Prompt = TRUE, SurvivorInv, [Next]_vars
  PROVE  SurvivorInv'
<1>0. DamageInv'
  BY NextDamage DEF SurvivorInv, AllSimple, AddressIsNoId
<1>1. CASE \E g \in Guests : RunStep(g)
  BY <1>0, <1>1, RunStepSurvivor
<1>2. CASE \E g \in Guests : LaunchListed(g) \/ LaunchUnlisted(g)
  BY <1>0, <1>2, LaunchSurvivor
<1>3. ASSUME NEW g \in Guests, Boot(g) \/ StopDriver(g) \/ Return(g) \/ Finish(g)
      PROVE  SurvivorInv'
  BY <1>0, <1>3, XmRestoreSteady, HostUnchangedSteady, OthersSurvivor
     DEF Boot, StopDriver, Return, Finish
<1>4. CASE HostStep /\ UNCHANGED runVars
  BY <1>0, <1>4, HostStepSteady, OthersSurvivor
<1>5. CASE UNCHANGED vars
  BY <1>0, <1>5, HostUnchangedSteady, OthersSurvivor DEF vars
<1>6. QED
  BY <1>1, <1>2, <1>3, <1>4, <1>5 DEF Next, DriverStep, AllEnded

LEMMA InitSurvivor == Init => SurvivorInv
<1> SUFFICES ASSUME Init PROVE SurvivorInv
  OBVIOUS
<1>1. /\ \A d \in DomIds : dom[d] = NoDomain
      /\ \A g \in Guests : run[g] = NoRun /\ log[g] = <<>>
      /\ DamageInv
  BY InitDamage DEF Init, HostInit, RunInit
<1>2. /\ NoDomain.paused = FALSE /\ NoDomain.left = "gone"
      /\ \A g \in Guests : LinesIn(log[g]) = {}
  BY <1>1 DEF NoDomain, LinesIn
<1>3. QED
  BY <1>1, <1>2, NoRunHolds
     DEF SurvivorInv, NobodyPauses, ListedWasLeft, AsksItsGuest, VictimWasLeft,
         VerdictIsTrue, LoggedIsSettled, LogsDeath

(* No line stands for a guest that was up when the run destroyed it, though  *)
(* destroys fail, runs die and are repeated, and the process may look at     *)
(* another domain's state in place of its own (experiment_once.c:97-160).    *)
THEOREM NoSurvivorLoggedHolds ==
  ASSUME OwnNames, AllSimple, Prompt = TRUE
  PROVE  Spec => []NoSurvivorLogged
<1>1. SurvivorInv => NoSurvivorLogged
  BY DEF SurvivorInv, LoggedIsSettled, LinesIn, Settled, NoSurvivorLogged
<1>2. SurvivorInv /\ [Next]_vars => SurvivorInv'
  BY NextSurvivor
<1>3. QED
  BY <1>1, <1>2, InitSurvivor, PTL DEF Spec
=============================================================================
