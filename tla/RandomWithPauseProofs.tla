----------------------- MODULE RandomWithPauseProofs -----------------------
(***************************************************************************)
(* Theorems about the old pausing program, for every number of processes,  *)
(* slices, bits and repetitions, and every first domain.                   *)
(***************************************************************************)
EXTENDS RandomWithPause, TLAPS

(* ex_count is -1 between a failed init and the end of its experiment only. *)
CountFits == At("init") => proc.ex_count >= 0

(* Only a domain that exists is paused and injected into. *)
AimIsReal == At("pause") => Target \in DomIds

PausedIsListed == \A d \in DomIds : dom[d].paused => Listed(d)

(* In the first process bits are flipped in ascending order of the domains: *)
(* the next experiment is about an id beyond all that were hit.             *)
FlipsBehind ==
  /\ count = 0 => At("off") /\ \A d \in DomIds : dom[d].flips = 0
  /\ count = 1 /\ ~At("off") => \A d \in DomIds : dom[d].flips > 0 => d < proc.dom_id

PauseInv ==
  /\ TypeOK /\ CountFits /\ AimIsReal /\ PausedIsListed /\ FlipsBehind
  /\ InjectsIntoPausedGuest /\ OnlyTargetPaused /\ SliceStartsFresh

LEMMA Constants ==
  /\ GUEST_NAME \in Guests /\ FirstDom \in DomIds /\ FirstDom \in Nat
  /\ Slices \in Nat /\ EX_COUNT \in Nat /\ EX_COUNT > 0
  /\ Runs \in Nat /\ MaxForkFails \in Nat
BY PauseAssumption DEF DomIds

-----------------------------------------------------------------------------
(* The host, when no bit is flipped and nothing is paused. *)

HostCalm ==
  /\ HostTypeOK'
  /\ \A d \in DomIds : /\ dom'[d].flips > 0 => dom[d].flips > 0
                       /\ dom'[d].paused => dom[d].paused /\ Listed(d)'

LEMMA HostUnchangedCalm ==
  ASSUME HostTypeOK, PausedIsListed, UNCHANGED hostVars
  PROVE  HostCalm
BY DEF HostTypeOK, PausedIsListed, HostCalm, Listed, hostVars

LEMMA XmRestoreCalm ==
  ASSUME HostTypeOK, PausedIsListed, NEW g \in Guests, XmRestore(g)
  PROVE  HostCalm
<1>1. CASE UNCHANGED hostVars
  BY <1>1, HostUnchangedCalm
<1>2. CASE /\ nextId <= MaxDom
           /\ dom' = [dom EXCEPT ![nextId] = [NoDomain EXCEPT !.owner = g, !.life = "up"]]
           /\ nextId' = nextId + 1
  <2> DEFINE new == [NoDomain EXCEPT !.owner = g, !.life = "up"]
  <2>1. new \in Domain /\ new.flips = 0 /\ new.paused = FALSE
    BY DEF NoDomain, Domain, Life
  <2>2. nextId' \in 1..(MaxDom + 1)
    BY <1>2, HostAssumption DEF HostTypeOK
  <2> HIDE DEF new
  <2>3. \A d \in DomIds : dom'[d] = IF d = nextId THEN new ELSE dom[d]
    BY <1>2 DEF HostTypeOK, new
  <2>4. dom' \in [DomIds -> Domain]
    BY <1>2, <2>1 DEF HostTypeOK, new
  <2>5. QED
    BY <2>1, <2>2, <2>3, <2>4 DEF HostTypeOK, PausedIsListed, HostCalm, Listed
<1>3. QED
  BY <1>1, <1>2 DEF XmRestore

LEMMA XmDestroyCalm ==
  ASSUME HostTypeOK, PausedIsListed, NEW g \in Guests, XmDestroy(g)
  PROVE  HostCalm
<1>1. CASE UNCHANGED hostVars
  BY <1>1, HostUnchangedCalm
<1>2. CASE XmDestroyed(g)
  <2>1. PICK d \in Named(g) :
          dom' = [dom EXCEPT ![d].life = "dying", ![d].paused = FALSE,
                             ![d].left = dom[d].life]
    BY <1>2 DEF XmDestroyed
  <2>2. d \in DomIds /\ dom[d] \in Domain
    BY DEF Named, HostTypeOK
  <2>3. HostTypeOK'
    <3>1. [dom[d] EXCEPT !.life = "dying", !.paused = FALSE, !.left = dom[d].life] \in Domain
      BY <2>2 DEF Domain, Life
    <3>2. QED
      BY <1>2, <2>1, <2>2, <3>1 DEF HostTypeOK, XmDestroyed
  <2>4. QED
    BY <2>1, <2>2, <2>3 DEF HostTypeOK, PausedIsListed, HostCalm, Listed, Domain
<1>3. QED
  BY <1>1, <1>2 DEF XmDestroy

LEMMA HostStepCalm ==
  ASSUME HostTypeOK, PausedIsListed, HostStep
  PROVE  /\ HostCalm
         /\ \A d \in DomIds :
              Listed(d)' => Listed(d) /\ (dom[d].paused => dom'[d].paused)
<1>1. PICK d \in DomIds : GuestHangs(d) \/ GuestCrashes(d) \/ Reap(d)
  BY DEF HostStep
<1>2. /\ \A e \in DomIds \ {d} : dom'[e] = dom[e]
      /\ dom'[d].flips = dom[d].flips /\ dom'[d].paused = FALSE
      /\ Listed(d)' => Listed(d) /\ ~dom[d].paused
  BY <1>1 DEF GuestHangs, GuestCrashes, Reap, HostTypeOK, Domain, Listed
<1>3. HostTypeOK'
  BY <1>1 DEF GuestHangs, GuestCrashes, Reap, HostTypeOK, Domain, Life
<1>4. QED
  BY <1>2, <1>3 DEF PausedIsListed, HostCalm, Listed

-----------------------------------------------------------------------------
(* The steps of the process. *)

(* A step of the process after which it neither injects nor unpauses, taken *)
(* where it owes no unpause.                                                *)
LEMMA CalmStep ==
  ASSUME PauseInv, HostCalm, TypeOK', CountFits', AimIsReal', FlipsBehind', SliceStartsFresh',
         proc.pc \notin {"inject", "unpause"}, proc'.pc \notin {"inject", "unpause"}
  PROVE  PauseInv'
<1>1. \A d \in DomIds : dom'[d].paused = FALSE
  BY DEF PauseInv, TypeOK, HostTypeOK, HostCalm, Domain, OnlyTargetPaused
<1>2. QED
  BY <1>1 DEF PauseInv, PausedIsListed, InjectsIntoPausedGuest, OnlyTargetPaused, At

LEMMA NextSliceType ==
  ASSUME TypeOK
  PROVE  /\ NextSlice \in Process
         /\ NextSlice.pc \in {"init", "off"} /\ NextSlice.ex_count = 0
         /\ NextSlice.pc = "init" => NextSlice.dom_id = proc.dom_id
<1>1. proc \in Process /\ Off \in Process /\ Off.pc = "off" /\ Off.ex_count = 0
  BY Constants DEF TypeOK, Off, Process
<1>2. proc.slice < Slices => proc.slice + 1 \in 1..(Slices + 1)
  BY <1>1, Constants DEF Process
<1>3. 0 \in -1..EX_COUNT
  BY Constants
<1>4. QED
  BY <1>1, <1>2, <1>3 DEF NextSlice, Process

LEMMA StartPause ==
  ASSUME PauseInv, Start
  PROVE  PauseInv'
<1>1. TypeOK /\ TypeOK'
  <2>1. count \in 0..Runs /\ count < Runs /\ FirstDom + count \in Nat /\ count' \in 0..Runs
    BY Constants DEF PauseInv, TypeOK, Start
  <2>2. proc' \in Process
    <3>1. Off \in Process
      BY Constants DEF Off, Process
    <3>2. QED
      BY <2>1, <3>1 DEF Start, Process
  <2>3. QED
    BY <2>1, <2>2 DEF PauseInv, TypeOK, Start, hostVars, HostTypeOK
<1>2. /\ proc.pc = "off" /\ proc'.pc = "init" /\ proc'.ex_count = 0
      /\ count' = count + 1 /\ UNCHANGED hostVars
  BY DEF Start, Off, At
<1>3. FlipsBehind'
  BY <1>1, <1>2 DEF PauseInv, FlipsBehind, TypeOK, hostVars, At
<1>4. HostCalm
  BY <1>1, <1>2, HostUnchangedCalm DEF TypeOK, PauseInv
<1>5. CountFits' /\ AimIsReal' /\ SliceStartsFresh'
  BY <1>2 DEF CountFits, AimIsReal, SliceStartsFresh, At
<1>6. QED
  BY <1>1, <1>2, <1>3, <1>4, <1>5, CalmStep

LEMMA XaInitPause ==
  ASSUME PauseInv, XaInit
  PROVE  PauseInv'
<1>1. /\ TypeOK /\ UNCHANGED <<dom, nextId, count, forkFails>>
      /\ proc.pc = "init" /\ proc.dom_id \in Nat /\ Listed(proc.dom_id)
  BY DEF PauseInv, TypeOK, XaInit, hostVars, At, Process
<1>2. /\ proc' \in Process /\ proc'.pc = "pause" /\ proc'.dom_id = proc.dom_id + 1
  <2>1. proc \in Process /\ proc.dom_id + 1 \in Nat
    BY <1>1 DEF TypeOK
  <2>2. QED
    BY <2>1 DEF XaInit, Process
<1>3. TypeOK'
  BY <1>1, <1>2 DEF TypeOK, HostTypeOK
<1>4. FlipsBehind' /\ CountFits' /\ AimIsReal' /\ SliceStartsFresh'
  <2>1. \A d \in DomIds : d \in Int
    BY DEF DomIds
  <2>2. \A d \in DomIds : dom[d].flips \in Nat
    BY <1>1 DEF TypeOK, HostTypeOK, Domain
  <2>3. proc'.dom_id - 1 = proc.dom_id /\ proc.dom_id \in DomIds
    BY <1>1, <1>2 DEF Listed
  <2>4. FlipsBehind' /\ CountFits' /\ AimIsReal'
    BY <1>1, <1>2, <2>1, <2>3 DEF PauseInv, FlipsBehind, CountFits, AimIsReal, Target, At
  <2>5. SliceStartsFresh'
    BY <1>1, <1>2, <2>1, <2>2, <2>3
       DEF PauseInv, FlipsBehind, SliceStartsFresh, Target, At
  <2>6. QED
    BY <2>4, <2>5
<1>5. HostCalm
  BY <1>1, HostUnchangedCalm DEF PauseInv, TypeOK, hostVars
<1>6. QED
  BY <1>1, <1>2, <1>3, <1>4, <1>5, CalmStep

LEMMA PauseDomainPause ==
  ASSUME PauseInv, PauseDomain
  PROVE  PauseInv'
<1>1. /\ TypeOK /\ UNCHANGED <<nextId, count, forkFails>>
      /\ proc.pc = "pause" /\ proc' = [proc EXCEPT !.pc = "inject"]
      /\ dom' = IF Listed(Target) THEN [dom EXCEPT ![Target].paused = TRUE] ELSE dom
  BY DEF PauseInv, TypeOK, PauseDomain, SetPaused, Goto, At
<1>2. proc' \in Process /\ proc'.pc = "inject" /\ proc'.dom_id = proc.dom_id
  BY <1>1 DEF TypeOK, Process
<1>3. HostTypeOK'
  BY <1>1 DEF TypeOK, HostTypeOK, Listed, Domain
<1>4. /\ \A d \in DomIds : /\ dom'[d].flips = dom[d].flips
                           /\ Listed(d)' = Listed(d)
                           /\ d # Target => dom'[d].paused = dom[d].paused
      /\ \A d \in DomIds : d = Target =>
           dom'[d].paused = (Listed(d) \/ dom[d].paused)
      /\ Target' = Target
  BY <1>1, <1>2 DEF TypeOK, HostTypeOK, Listed, Domain, Target
<1>5. TypeOK' /\ CountFits' /\ AimIsReal' /\ FlipsBehind' /\ SliceStartsFresh'
  BY <1>1, <1>2, <1>3, <1>4
     DEF TypeOK, PauseInv, CountFits, AimIsReal, FlipsBehind, SliceStartsFresh, At
<1>6. PausedIsListed' /\ InjectsIntoPausedGuest' /\ OnlyTargetPaused'
  <2>1. \A d \in DomIds : dom[d].paused = FALSE
    BY <1>1 DEF PauseInv, OnlyTargetPaused, TypeOK, HostTypeOK, Domain
  <2>2. Listed(Target)' => Target \in DomIds
    BY <1>4 DEF Listed
  <2>3. QED
    BY <1>2, <1>4, <2>1, <2>2
       DEF PausedIsListed, InjectsIntoPausedGuest, OnlyTargetPaused, At
<1>7. QED
  BY <1>5, <1>6 DEF PauseInv

LEMMA InjectBitPause ==
  ASSUME PauseInv, InjectBit
  PROVE  PauseInv'
<1>1. /\ TypeOK /\ UNCHANGED <<nextId, count, forkFails>>
      /\ proc.pc = "inject"
  BY DEF PauseInv, TypeOK, InjectBit, Flip, hostVars, At
<1>2. /\ proc' \in Process /\ proc'.pc = "inject" /\ proc'.dom_id = proc.dom_id
      /\ proc.dom_id \in Nat
  <2>1. proc \in Process /\ proc.injected + 1 \in Nat /\ proc.attack + 1 \in Nat
    BY <1>1 DEF TypeOK, Process
  <2>2. \/ proc' = [proc EXCEPT !.injected = @ + 1, !.attack = @ + 1]
        \/ proc' = [proc EXCEPT !.injected = @ + 1]
    BY DEF InjectBit
  <2>3. QED
    BY <1>1, <2>1, <2>2 DEF Process
<1>3. /\ HostTypeOK'
      /\ \A d \in DomIds : /\ dom'[d].paused = dom[d].paused
                           /\ dom'[d].life = dom[d].life
                           /\ d # Target => dom'[d].flips = dom[d].flips
  <2>1. CASE UNCHANGED hostVars
    BY <1>1, <2>1 DEF TypeOK, HostTypeOK, hostVars
  <2>2. CASE Listed(Target) /\ Flip(Target)
    BY <1>1, <2>2 DEF TypeOK, HostTypeOK, Flip, Listed, Domain
  <2>3. QED
    BY <2>1, <2>2 DEF InjectBit
<1>4. TypeOK' /\ CountFits' /\ AimIsReal' /\ SliceStartsFresh'
  BY <1>1, <1>2, <1>3 DEF TypeOK, CountFits, AimIsReal, SliceStartsFresh, At
<1>5. FlipsBehind'
  BY <1>1, <1>2, <1>3 DEF PauseInv, FlipsBehind, Target, At, DomIds
<1>6. PausedIsListed' /\ InjectsIntoPausedGuest' /\ OnlyTargetPaused'
  BY <1>1, <1>2, <1>3
     DEF PauseInv, PausedIsListed, InjectsIntoPausedGuest, OnlyTargetPaused, Listed, Target, At
<1>7. QED
  BY <1>4, <1>5, <1>6 DEF PauseInv

LEMMA StopInjectingPause ==
  ASSUME PauseInv, StopInjecting
  PROVE  PauseInv'
<1>1. /\ TypeOK /\ UNCHANGED <<dom, nextId, count, forkFails>>
      /\ proc.pc = "inject" /\ proc' = [proc EXCEPT !.pc = "unpause"]
  BY DEF PauseInv, TypeOK, StopInjecting, Goto, hostVars, At
<1>2. proc' \in Process /\ proc'.pc = "unpause" /\ proc'.dom_id = proc.dom_id
  BY <1>1 DEF TypeOK, Process
<1>3. QED
  BY <1>1, <1>2
     DEF PauseInv, TypeOK, HostTypeOK, CountFits, AimIsReal, FlipsBehind, SliceStartsFresh,
         PausedIsListed, InjectsIntoPausedGuest, OnlyTargetPaused, Listed, Target, At

LEMMA UnpauseDomainPause ==
  ASSUME PauseInv, UnpauseDomain
  PROVE  PauseInv'
<1>1. /\ TypeOK /\ UNCHANGED <<nextId, count, forkFails>>
      /\ proc.pc = "unpause" /\ proc' = [proc EXCEPT !.pc = "check"]
      /\ dom' = IF Listed(Target) THEN [dom EXCEPT ![Target].paused = FALSE] ELSE dom
  BY DEF PauseInv, TypeOK, UnpauseDomain, SetPaused, Goto, At
<1>2. proc' \in Process /\ proc'.pc = "check" /\ proc'.dom_id = proc.dom_id
  BY <1>1 DEF TypeOK, Process
<1>3. /\ HostTypeOK'
      /\ \A d \in DomIds : /\ dom'[d].flips = dom[d].flips
                           /\ dom'[d].paused => dom[d].paused
                           /\ d = Target /\ Listed(d) => dom'[d].paused = FALSE
  BY <1>1 DEF TypeOK, HostTypeOK, Listed, Domain
<1>4. \A d \in DomIds : ~dom'[d].paused
  BY <1>3 DEF PauseInv, PausedIsListed, OnlyTargetPaused
<1>5. QED
  BY <1>1, <1>2, <1>3, <1>4
     DEF PauseInv, TypeOK, CountFits, AimIsReal, FlipsBehind, SliceStartsFresh,
         PausedIsListed, InjectsIntoPausedGuest, OnlyTargetPaused, At

(* The other steps: the process goes on with the same id, or with the next  *)
(* after a failed init, or ends.                                            *)
LEMMA GoesOnPause ==
  ASSUME PauseInv, HostCalm, proc' \in Process, UNCHANGED count,
         forkFails' \in 0..MaxForkFails, ~At("off"), ~At("inject"), ~At("unpause"),
         proc'.pc \in {"init", "check", "destroy", "restore", "off"},
         proc'.pc = "init" => proc'.ex_count >= 0,
         proc'.pc # "off" => proc'.dom_id >= proc.dom_id
  PROVE  PauseInv'
<1>1. /\ TypeOK /\ proc.dom_id \in Nat /\ proc'.dom_id \in Nat
      /\ \A d \in DomIds : d \in Nat
  BY DEF PauseInv, TypeOK, Process, DomIds
<1>2. TypeOK'
  BY <1>1 DEF TypeOK, HostCalm
<1>3. CountFits' /\ AimIsReal' /\ SliceStartsFresh'
  BY DEF CountFits, AimIsReal, SliceStartsFresh, At
<1>4. FlipsBehind'
  <2>1. count # 0
    BY DEF PauseInv, FlipsBehind
  <2>2. QED
    BY <1>1, <2>1 DEF PauseInv, FlipsBehind, HostCalm, At
<1>5. QED
  BY <1>2, <1>3, <1>4, CalmStep DEF At

LEMMA OtherStepPause ==
  ASSUME PauseInv,
         XaInitFails \/ CheckGuest \/ Dies \/ ForkFails \/ DestroyDomain \/ RestoreDomain
  PROVE  PauseInv'
<1>0. /\ TypeOK /\ HostTypeOK /\ PausedIsListed /\ proc \in Process
      /\ GUEST_NAME \in Guests /\ forkFails \in 0..MaxForkFails
      /\ EX_COUNT \in Nat /\ MaxForkFails \in Nat
  BY Constants DEF PauseInv, TypeOK
<1>1. CASE XaInitFails
  <2>1. proc.ex_count \in 0..EX_COUNT /\ proc.ex_count - 1 \in -1..EX_COUNT
    BY <1>0, <1>1 DEF XaInitFails, PauseInv, CountFits, Process
  <2>2. /\ proc' \in Process /\ proc'.pc = "check" /\ proc'.dom_id = proc.dom_id + 1
        /\ UNCHANGED hostVars /\ proc.dom_id \in Nat /\ proc.pc = "init"
        /\ UNCHANGED <<count, forkFails>>
    <3>1. proc.dom_id \in Nat /\ proc.dom_id + 1 \in Nat
      BY <1>0 DEF Process
    <3>2. proc' = [proc EXCEPT !.pc = "check", !.dom_id = @ + 1, !.ex_count = @ - 1]
      BY <1>1 DEF XaInitFails
    <3>3. proc' \in Process /\ proc'.pc = "check" /\ proc'.dom_id = proc.dom_id + 1
      BY <1>0, <2>1, <3>1, <3>2 DEF Process
    <3>4. QED
      BY <1>1, <3>1, <3>3 DEF XaInitFails, At
  <2>3. QED
    BY <1>0, <2>2, HostUnchangedCalm, GoesOnPause DEF At
<1>2. CASE CheckGuest
  <2>1. /\ proc.pc = "check" /\ UNCHANGED hostVars /\ UNCHANGED <<count, forkFails>>
        /\ \/ proc' = NextSlice
           \/ proc' = [proc EXCEPT !.pc = "destroy", !.cleaned = TRUE]
    BY <1>2 DEF CheckGuest, At
  <2>2. /\ proc' \in Process /\ proc'.pc \in {"init", "off", "destroy"}
        /\ proc'.pc = "init" => proc'.ex_count >= 0
        /\ proc'.pc # "off" => proc'.dom_id >= proc.dom_id
    <3>1. CASE proc' = NextSlice
      BY <1>0, <3>1, NextSliceType DEF Process
    <3>2. CASE proc' = [proc EXCEPT !.pc = "destroy", !.cleaned = TRUE]
      <4>1. proc' \in Process /\ proc'.pc = "destroy" /\ proc'.dom_id = proc.dom_id
        BY <1>0, <3>2 DEF Process
      <4>2. QED
        BY <4>1 DEF Process
    <3>3. QED
      BY <2>1, <3>1, <3>2
  <2>3. QED
    BY <1>0, <2>1, <2>2, HostUnchangedCalm, GoesOnPause DEF At
<1>3. CASE Dies
  <2>1. /\ proc.pc = "check" /\ UNCHANGED hostVars /\ UNCHANGED <<count, forkFails>>
        /\ proc' = Off
    BY <1>3 DEF Dies, At
  <2>2. Off \in Process /\ Off.pc = "off"
    BY PauseAssumption DEF Off, Process
  <2>3. QED
    BY <1>0, <2>1, <2>2, HostUnchangedCalm, GoesOnPause DEF At
<1>4. CASE ForkFails
  <2>1. /\ proc.pc \in {"destroy", "restore"} /\ UNCHANGED hostVars
        /\ UNCHANGED count /\ forkFails' \in 0..MaxForkFails
        /\ proc' = [proc EXCEPT !.pc = "check"]
    BY <1>0, <1>4 DEF ForkFails, Goto
  <2>2. proc' \in Process /\ proc'.pc = "check" /\ proc'.dom_id >= proc.dom_id
    BY <1>0, <2>1 DEF Process
  <2>3. QED
    BY <1>0, <2>1, <2>2, HostUnchangedCalm, GoesOnPause DEF At
<1>5. CASE DestroyDomain
  <2>1. /\ proc.pc = "destroy" /\ XmDestroy(GUEST_NAME)
        /\ UNCHANGED <<count, forkFails>>
        /\ proc' = [proc EXCEPT !.pc = "restore"]
    BY <1>5 DEF DestroyDomain, Goto, At
  <2>2. proc' \in Process /\ proc'.pc = "restore" /\ proc'.dom_id >= proc.dom_id
    BY <1>0, <2>1 DEF Process
  <2>3. QED
    BY <1>0, <2>1, <2>2, XmDestroyCalm, GoesOnPause DEF At
<1>6. CASE RestoreDomain
  <2>1. /\ proc.pc = "restore" /\ XmRestore(GUEST_NAME)
        /\ UNCHANGED <<count, forkFails>>
        /\ \/ /\ proc.ex_count + 2 < EX_COUNT
              /\ proc' = [proc EXCEPT !.pc = "init", !.ex_count = @ + 2, !.init = FALSE,
                                      !.cleaned = FALSE]
           \/ proc' = NextSlice
    BY <1>6 DEF RestoreDomain, At
  <2>2. /\ proc' \in Process /\ proc'.pc \in {"init", "off"}
        /\ proc'.pc = "init" => proc'.ex_count >= 0
        /\ proc'.pc # "off" => proc'.dom_id >= proc.dom_id
    <3>1. CASE proc' = NextSlice
      BY <1>0, <3>1, NextSliceType DEF Process
    <3>2. CASE /\ proc.ex_count + 2 < EX_COUNT
               /\ proc' = [proc EXCEPT !.pc = "init", !.ex_count = @ + 2, !.init = FALSE,
                                       !.cleaned = FALSE]
      <4>1. proc.ex_count + 2 \in -1..EX_COUNT /\ proc.ex_count + 2 >= 0
        BY <1>0, <3>2 DEF Process
      <4>2. /\ proc' \in Process /\ proc'.pc = "init" /\ proc'.dom_id = proc.dom_id
            /\ proc'.ex_count = proc.ex_count + 2
        BY <1>0, <3>2, <4>1 DEF Process
      <4>3. QED
        BY <4>1, <4>2 DEF Process
    <3>3. QED
      BY <2>1, <3>1, <3>2
  <2>3. QED
    BY <1>0, <2>1, <2>2, XmRestoreCalm, GoesOnPause DEF At
<1>7. QED
  BY <1>1, <1>2, <1>3, <1>4, <1>5, <1>6

-----------------------------------------------------------------------------
(* The theorems. *)

LEMMA HostStepPause ==
  ASSUME PauseInv, HostStep \/ UNCHANGED hostVars, UNCHANGED pauseVars
  PROVE  PauseInv'
<1>1. /\ TypeOK /\ HostTypeOK /\ PausedIsListed
      /\ UNCHANGED <<proc, count, forkFails>>
  BY DEF PauseInv, TypeOK, pauseVars
<1>2. /\ HostCalm
      /\ \A d \in DomIds : Listed(d)' => Listed(d) /\ (dom[d].paused => dom'[d].paused)
  BY <1>1, HostStepCalm, HostUnchangedCalm DEF hostVars, Listed
<1>3. \A d \in DomIds : dom[d].flips \in Nat /\ dom'[d].flips \in Nat
  BY <1>1, <1>2 DEF HostTypeOK, HostCalm, Domain
<1>4. TypeOK' /\ CountFits' /\ AimIsReal' /\ PausedIsListed' /\ FlipsBehind'
  BY <1>1, <1>2, <1>3
     DEF PauseInv, TypeOK, CountFits, AimIsReal, Target, PausedIsListed, FlipsBehind, HostCalm, At
<1>5. InjectsIntoPausedGuest' /\ OnlyTargetPaused'
  BY <1>1, <1>2
     DEF PauseInv, InjectsIntoPausedGuest, OnlyTargetPaused, HostCalm, Target, At, Listed
<1>6. SliceStartsFresh'
  <2> SUFFICES ASSUME count = 1, proc.pc = "pause"
               PROVE  dom'[Target].flips = 0
    BY <1>1 DEF SliceStartsFresh, Target, At
  <2>1. Target \in DomIds /\ dom[Target].flips = 0
    BY DEF PauseInv, AimIsReal, SliceStartsFresh, At
  <2>2. QED
    BY <1>2, <1>3, <2>1 DEF HostCalm
<1>7. QED
  BY <1>4, <1>5, <1>6 DEF PauseInv

LEMMA NextPause == PauseInv /\ [Next]_vars => PauseInv'
BY StartPause, XaInitPause, PauseDomainPause, InjectBitPause, StopInjectingPause,
   UnpauseDomainPause, OtherStepPause, HostStepPause
   DEF Next, ProcessStep, vars, pauseVars

LEMMA InitPause == Init => PauseInv
<1> SUFFICES ASSUME Init PROVE PauseInv
  OBVIOUS
<1>1. Off \in Process /\ Off.pc = "off"
  BY Constants DEF Off, Process
<1>2. /\ NoDomain \in Domain /\ NoDomain.flips = 0 /\ NoDomain.paused = FALSE
      /\ [NoDomain EXCEPT !.owner = GUEST_NAME, !.life = "up"] \in Domain
      /\ [NoDomain EXCEPT !.owner = GUEST_NAME, !.life = "up"].flips = 0
      /\ [NoDomain EXCEPT !.owner = GUEST_NAME, !.life = "up"].paused = FALSE
  BY Constants DEF NoDomain, Domain, Life
<1>3. /\ dom \in [DomIds -> Domain]
      /\ \A d \in DomIds : dom[d].flips = 0 /\ dom[d].paused = FALSE
  BY <1>2 DEF Init
<1>4. nextId \in 1..(MaxDom + 1)
  BY Constants, HostAssumption DEF Init, DomIds
<1>5. TypeOK
  BY <1>1, <1>3, <1>4, Constants DEF Init, TypeOK, HostTypeOK
<1>6. QED
  BY <1>1, <1>3, <1>5
     DEF Init, PauseInv, CountFits, AimIsReal, PausedIsListed, FlipsBehind,
         InjectsIntoPausedGuest, OnlyTargetPaused, SliceStartsFresh, At

LEMMA AlwaysPause == Spec => []PauseInv
BY InitPause, NextPause, PTL DEF Spec

(* The variables keep their types; the count that is decremented for a      *)
(* retry never falls below -1 (random_with_pause.c:67-81).                  *)
THEOREM TypeCorrect == Spec => []TypeOK
BY AlwaysPause, PTL DEF PauseInv

(* Bits are flipped in a guest that does not run, for any number of bits    *)
(* (random_with_pause.c:83-114).                                            *)
THEOREM InjectsIntoPausedGuestHolds == Spec => []InjectsIntoPausedGuest
BY AlwaysPause, PTL DEF PauseInv

(* Every pause is taken back before the process looks at the guest, ends or *)
(* jumps (random_with_pause.c:116-138).                                     *)
THEOREM OnlyTargetPausedHolds == Spec => []OnlyTargetPaused
BY AlwaysPause, PTL DEF PauseInv

(* However many slices the first process has and whatever fails in them, no *)
(* slice starts on a domain that one before it damaged: ids only grow       *)
(* (random_with_pause.c:60-138).                                            *)
THEOREM SliceStartsFreshHolds == Spec => []SliceStartsFresh
BY AlwaysPause, PTL DEF PauseInv
=============================================================================
