------------------------ MODULE FromHeadAccessProofs ------------------------
(***************************************************************************)
(* Theorems about the page injector, for any memory, any number of         *)
(* experiments and every first domain.                                     *)
(***************************************************************************)
EXTENDS FromHeadAccess, TLAPS

Dead(d) == dom[d].life \in {"crashed", "dying", "gone"}

(* Ids the host has not allocated yet belong to nobody. *)
HostFresh == \A d \in DomIds : d >= nextId => dom[d] = NoDomain

Attacking == proc.pc \in {"inject", "check"}

(* The program is one id ahead of its target at most, and has room for one  *)
(* experiment more until its sleep is over.                                 *)
AimIsKnown ==
  /\ proc.dom_id \in 1..nextId
  /\ Attacking => Target \in DomIds
  /\ Attacking \/ At("sleep") => proc.ex_count < EX_COUNT

(* No domain is hit before its turn, and of the target's flips each is      *)
(* counted.                                                                 *)
FlipsCounted ==
  /\ \A d \in DomIds : d >= proc.dom_id => dom[d].flips = 0
  /\ Attacking => dom[Target].flips <= proc.attack

(* The log tells of domains behind the target only. *)
LinesBehind ==
  \A i \in 1..Len(log) :
    /\ log[i].dom \in DomIds /\ log[i].dom < proc.dom_id
    /\ Attacking => log[i].dom < Target

HeadInv ==
  /\ TypeOK /\ HostFresh /\ AimIsKnown /\ FlipsCounted /\ LinesBehind
  /\ NoLivingGuestLogged /\ LinesCoverDamage

LEMMA Constants ==
  /\ GUEST \in Guests /\ Pages \in Nat /\ EX_COUNT \in Nat /\ MaxDom \in Nat
  /\ \A d \in DomIds : d \in Nat /\ d >= 1
BY HeadAssumption, HostAssumption DEF DomIds

-----------------------------------------------------------------------------
(* The host, when no page is inverted: known domains keep their flips, and  *)
(* the dead stay dead.                                                      *)

HostKept ==
  /\ HostTypeOK' /\ HostFresh' /\ nextId <= nextId'
  /\ \A d \in DomIds : dom'[d].flips = dom[d].flips
  /\ \A d \in DomIds : d < nextId /\ Dead(d) => Dead(d)'

LEMMA UnchangedKept ==
  ASSUME HostTypeOK, HostFresh, UNCHANGED hostVars
  PROVE  HostKept
BY Constants DEF HostTypeOK, HostFresh, HostKept, Dead, hostVars

LEMMA XmRestoreKept ==
  ASSUME HostTypeOK, HostFresh, NEW g \in Guests, XmRestore(g)
  PROVE  HostKept
<1>1. CASE UNCHANGED hostVars
  BY <1>1, UnchangedKept
<1>2. CASE /\ nextId <= MaxDom
           /\ dom' = [dom EXCEPT ![nextId] = [NoDomain EXCEPT !.owner = g, !.life = "up"]]
           /\ nextId' = nextId + 1
  <2> DEFINE new == [NoDomain EXCEPT !.owner = g, !.life = "up"]
  <2>1. new \in Domain /\ new.flips = 0 /\ NoDomain.flips = 0
    BY DEF NoDomain, Domain, Life
  <2>2. nextId' \in 1..(MaxDom + 1) /\ nextId \in DomIds /\ nextId <= nextId'
    BY <1>2, Constants DEF HostTypeOK, DomIds
  <2>3. dom' = [dom EXCEPT ![nextId] = new]
    BY <1>2
  <2> HIDE DEF new
  <2>4. \A d \in DomIds : dom'[d] = IF d = nextId THEN new ELSE dom[d]
    BY <2>3 DEF HostTypeOK
  <2>5. HostTypeOK'
    BY <2>1, <2>2, <2>3 DEF HostTypeOK
  <2>6. \A d \in DomIds : dom'[d].flips = dom[d].flips
    BY <2>1, <2>2, <2>4 DEF HostTypeOK, HostFresh
  <2>7. HostFresh'
    BY <1>2, <2>2, <2>4, Constants DEF HostTypeOK, HostFresh
  <2>8. QED
    BY <2>2, <2>4, <2>5, <2>6, <2>7 DEF HostKept, HostTypeOK, Dead
<1>3. QED
  BY <1>1, <1>2 DEF XmRestore

LEMMA HostStepKept ==
  ASSUME HostTypeOK, HostFresh, HostStep
  PROVE  HostKept
<1>1. PICK d \in DomIds : GuestHangs(d) \/ GuestCrashes(d) \/ Reap(d)
  BY DEF HostStep
<1>2. HostTypeOK' /\ nextId' = nextId
  BY <1>1 DEF GuestHangs, GuestCrashes, Reap, HostTypeOK, Domain, Life
<1>3. /\ \A e \in DomIds \ {d} : dom'[e] = dom[e]
      /\ dom'[d].flips = dom[d].flips
      /\ Dead(d) => Dead(d)'
      /\ dom[d].life # "gone"
  BY <1>1 DEF GuestHangs, GuestCrashes, Reap, HostTypeOK, Domain, Dead
<1>4. HostFresh'
  <2>1. NoDomain.life = "gone"
    BY DEF NoDomain
  <2>2. QED
    BY <1>2, <1>3, <2>1 DEF HostFresh
<1>5. QED
  BY <1>2, <1>3, <1>4, Constants DEF HostKept, HostTypeOK, Dead

-----------------------------------------------------------------------------
(* The steps of the program. *)

(* A step that neither starts an attack, inverts a page nor writes a line. *)
LEMMA CalmStep ==
  ASSUME HeadInv, HostKept, UNCHANGED log, proc' \in Process, proc'.dom_id = proc.dom_id,
         Attacking' => Attacking /\ proc'.attack = proc.attack,
         (Attacking \/ At("sleep"))' => (Attacking \/ At("sleep")) /\ proc'.ex_count = proc.ex_count
  PROVE  HeadInv'
<1>1. TypeOK /\ Target' = Target /\ proc.dom_id \in Nat /\ nextId \in Nat /\ nextId' \in Nat
      /\ nextId <= nextId'
  BY DEF HeadInv, TypeOK, HostTypeOK, Target, Process, HostKept
<1>2. TypeOK' /\ HostFresh'
  BY <1>1 DEF TypeOK, HostKept
<1>3. AimIsKnown'
  BY <1>1 DEF HeadInv, AimIsKnown
<1>4. FlipsCounted'
  BY <1>1 DEF HeadInv, FlipsCounted, AimIsKnown, HostKept
<1>5. LinesBehind'
  BY <1>1 DEF HeadInv, LinesBehind
<1>6. LinesCoverDamage'
  BY DEF HeadInv, LinesCoverDamage, HostKept
<1>7. NoLivingGuestLogged'
  <2> SUFFICES ASSUME NEW i \in 1..Len(log), log[i].dom \in DomIds
               PROVE  dom'[log[i].dom].life \in {"crashed", "dying", "gone"}
    BY DEF NoLivingGuestLogged
  <2>1. log[i].dom < nextId
    BY <1>1, Constants DEF HeadInv, AimIsKnown, LinesBehind
  <2>2. QED
    BY <2>1 DEF HeadInv, NoLivingGuestLogged, HostKept, Dead
<1>8. QED
  BY <1>2, <1>3, <1>4, <1>5, <1>6, <1>7 DEF HeadInv

LEMMA QuietStepHead ==
  ASSUME HeadInv,
         InitFails \/ LastExperimentDone \/ EndOfMemory \/ GuestLives \/ DiesWithoutLog
           \/ NextExperiment
  PROVE  HeadInv'
<1>1. /\ UNCHANGED log /\ HostKept /\ proc \in Process
      /\ (Attacking \/ At("sleep") => proc.ex_count < EX_COUNT)
  BY UnchangedKept DEF HeadInv, TypeOK, AimIsKnown, InitFails, LastExperimentDone, EndOfMemory,
     GuestLives, DiesWithoutLog, NextExperiment
<1>2. CASE InitFails \/ LastExperimentDone \/ DiesWithoutLog
  <2>1. proc' = [proc EXCEPT !.pc = "exited"]
    BY <1>2 DEF InitFails, LastExperimentDone, DiesWithoutLog
  <2>2. proc' \in Process /\ proc'.pc = "exited" /\ proc'.dom_id = proc.dom_id
    BY <1>1, <2>1 DEF Process
  <2>3. QED
    BY <1>1, <2>2, CalmStep DEF Attacking, At
<1>3. CASE GuestLives
  <2>1. /\ proc' \in Process /\ proc.pc = "check" /\ proc'.dom_id = proc.dom_id
        /\ proc'.attack = proc.attack /\ proc'.ex_count = proc.ex_count
    BY <1>1, <1>3 DEF GuestLives, Process, At
  <2>2. QED
    BY <1>1, <2>1, CalmStep DEF Attacking, At
<1>4. CASE EndOfMemory \/ NextExperiment
  <2>1. proc' = [proc EXCEPT !.pc = "init", !.ex_count = @ + 1] /\ proc.ex_count < EX_COUNT
    BY <1>1, <1>4 DEF EndOfMemory, NextExperiment, Attacking, At
  <2>2. proc.ex_count + 1 \in 0..EX_COUNT
    BY <1>1, <2>1, Constants DEF Process
  <2>3. proc' \in Process /\ proc'.pc = "init" /\ proc'.dom_id = proc.dom_id
    BY <1>1, <2>1, <2>2 DEF Process
  <2>4. QED
    BY <1>1, <2>3, CalmStep DEF Attacking, At
<1>5. QED
  BY <1>2, <1>3, <1>4

LEMMA XaInitHead ==
  ASSUME HeadInv, XaInit
  PROVE  HeadInv'
<1>1. /\ TypeOK /\ UNCHANGED <<dom, nextId, log>> /\ proc.ex_count < EX_COUNT
      /\ proc.dom_id \in DomIds /\ dom[proc.dom_id].life # "gone" /\ nextId \in Nat
  BY DEF HeadInv, TypeOK, HostTypeOK, XaInit, hostVars, Listed
<1>2. /\ proc' \in Process /\ proc'.pc = "inject" /\ proc'.dom_id = proc.dom_id + 1
      /\ proc'.attack = 0 /\ proc'.ex_count = proc.ex_count
  <2>1. proc.dom_id + 1 \in Nat /\ 0 \in 0..Pages /\ proc \in Process
    BY <1>1, Constants DEF TypeOK
  <2>2. QED
    BY <2>1 DEF XaInit, Process
<1>3. proc.dom_id < nextId /\ proc'.dom_id - 1 = proc.dom_id
  BY <1>1, <1>2, Constants DEF HeadInv, HostFresh, NoDomain
<1>4. TypeOK' /\ HostFresh'
  BY <1>1, <1>2 DEF TypeOK, HostTypeOK, HeadInv, HostFresh
<1>5. AimIsKnown' /\ FlipsCounted'
  BY <1>1, <1>2, <1>3, Constants DEF HeadInv, AimIsKnown, FlipsCounted, Target, Attacking
<1>6. LinesBehind'
  BY <1>1, <1>2, <1>3, Constants DEF HeadInv, LinesBehind, Target
<1>7. NoLivingGuestLogged' /\ LinesCoverDamage'
  BY <1>1 DEF HeadInv, NoLivingGuestLogged, LinesCoverDamage
<1>8. QED
  BY <1>4, <1>5, <1>6, <1>7 DEF HeadInv

LEMMA InjectPageHead ==
  ASSUME HeadInv, InjectPage
  PROVE  HeadInv'
<1>1. /\ TypeOK /\ UNCHANGED <<nextId, log>> /\ proc.pc = "inject" /\ Target \in DomIds
      /\ dom[Target].flips \in Nat /\ proc.attack \in Nat /\ proc.dom_id \in Nat
  BY DEF HeadInv, TypeOK, HostTypeOK, Domain, Process, AimIsKnown, Attacking,
         InjectPage, Flip, hostVars, At
<1>2. /\ proc' \in Process /\ proc'.pc = "check" /\ proc'.dom_id = proc.dom_id
      /\ proc'.attack = proc.attack + 1 /\ proc'.ex_count = proc.ex_count
  <2>1. proc.page + 1 \in 0..Pages /\ proc.attack + 1 \in Nat /\ proc \in Process
    BY <1>1, Constants DEF TypeOK, InjectPage, Process
  <2>2. QED
    BY <2>1 DEF InjectPage, Process
<1>3. /\ HostTypeOK' /\ \A d \in DomIds \ {Target} : dom'[d] = dom[d]
      /\ dom'[Target].flips \in {dom[Target].flips, dom[Target].flips + 1}
      /\ dom'[Target].life = dom[Target].life
  <2>1. CASE UNCHANGED hostVars
    BY <1>1, <2>1 DEF TypeOK, HostTypeOK, hostVars
  <2>2. CASE Flip(Target)
    <3> DEFINE hit == [dom[Target] EXCEPT !.flips = @ + 1]
    <3>1. dom[Target] \in Domain /\ dom[Target].flips + 1 \in Nat
      BY <1>1 DEF TypeOK, HostTypeOK
    <3>2. /\ hit \in Domain /\ hit.flips = dom[Target].flips + 1
          /\ hit.life = dom[Target].life
      BY <3>1 DEF Domain
    <3>3. dom' = [dom EXCEPT ![Target] = hit] /\ UNCHANGED nextId
      BY <2>2 DEF Flip
    <3> HIDE DEF hit
    <3>4. QED
      BY <1>1, <3>2, <3>3 DEF TypeOK, HostTypeOK
  <2>3. QED
    BY <2>1, <2>2 DEF InjectPage
<1>4. Target' = Target /\ Target < proc.dom_id /\ proc.dom_id <= nextId /\ nextId \in Nat
  BY <1>1, <1>2 DEF HeadInv, AimIsKnown, Target, TypeOK, HostTypeOK
<1>5. TypeOK' /\ HostFresh'
  BY <1>1, <1>2, <1>3, <1>4, Constants DEF TypeOK, HeadInv, HostFresh
<1>6. AimIsKnown'
  BY <1>1, <1>2, <1>4 DEF HeadInv, AimIsKnown, Attacking
<1>7. FlipsCounted'
  <2>1. dom'[Target].flips <= proc.attack + 1
    BY <1>1, <1>3 DEF HeadInv, FlipsCounted, Attacking
  <2>2. QED
    BY <1>1, <1>2, <1>3, <1>4, <2>1, Constants DEF HeadInv, FlipsCounted
<1>8. \A i \in 1..Len(log) : log[i].dom \in DomIds \ {Target}
  BY <1>1, Constants DEF HeadInv, LinesBehind, Attacking
<1>9. LinesBehind' /\ NoLivingGuestLogged' /\ LinesCoverDamage'
  BY <1>1, <1>2, <1>3, <1>4, <1>8
     DEF HeadInv, LinesBehind, NoLivingGuestLogged, LinesCoverDamage, Attacking
<1>10. QED
  BY <1>5, <1>6, <1>7, <1>9 DEF HeadInv

(* libxc finds the target itself as long as the target is there. *)
LEMMA DeathIsReal ==
  ASSUME Target \in DomIds, GuestDead
  PROVE  Dead(Target)
<1>1. CASE Present(Target)
  <2>1. InfoOf(Target) = {Target}
    BY <1>1, Constants DEF InfoOf, Present
  <2>2. QED
    BY <2>1 DEF GuestDead, Dead
<1>2. CASE ~Present(Target)
  BY <1>2 DEF Present, Dead
<1>3. QED
  BY <1>1, <1>2

LEMMA LogDeathHead ==
  ASSUME HeadInv, LogDeath
  PROVE  HeadInv'
<1>1. /\ TypeOK /\ UNCHANGED <<dom, nextId>> /\ proc.pc = "check" /\ Target \in DomIds
      /\ GuestDead /\ proc \in Process /\ proc.attack \in Nat /\ proc.dom_id \in Nat
      /\ log \in Seq([dom : Nat, count : Nat])
  BY DEF HeadInv, TypeOK, AimIsKnown, Attacking, LogDeath, hostVars, At, Process
<1>2. /\ proc' \in Process /\ proc'.pc = "sleep" /\ proc'.dom_id = proc.dom_id
      /\ proc'.ex_count = proc.ex_count
  BY <1>1 DEF LogDeath, Process
<1> DEFINE new == [dom |-> Target, count |-> proc.attack]
<1>3. new \in [dom : Nat, count : Nat] /\ new.dom = Target /\ new.count = proc.attack
  BY <1>1, Constants
<1>4. log' = Append(log, new)
  BY DEF LogDeath
<1> HIDE DEF new
<1>5. /\ log' \in Seq([dom : Nat, count : Nat])
      /\ Len(log') = Len(log) + 1 /\ Len(log) \in Nat
      /\ log'[Len(log) + 1] = new
      /\ \A i \in 1..Len(log) : log'[i] = log[i]
  BY <1>1, <1>3, <1>4
<1>6. \A i \in 1..Len(log') : i \in 1..Len(log) \/ i = Len(log) + 1
  BY <1>5
<1>7. TypeOK' /\ HostFresh' /\ AimIsKnown' /\ FlipsCounted'
  BY <1>1, <1>2, <1>5
     DEF HeadInv, TypeOK, HostTypeOK, HostFresh, AimIsKnown, FlipsCounted, Attacking, At
<1>8. LinesBehind'
  <2>1. Target < proc.dom_id
    BY <1>1 DEF Target
  <2>2. QED
    BY <1>1, <1>2, <1>3, <1>5, <1>6, <2>1 DEF HeadInv, LinesBehind, Attacking
<1>9. NoLivingGuestLogged'
  <2>1. Dead(Target)
    BY <1>1, DeathIsReal
  <2>2. QED
    BY <1>1, <1>3, <1>5, <1>6, <2>1 DEF HeadInv, NoLivingGuestLogged, Dead
<1>10. LinesCoverDamage'
  <2>1. dom[Target].flips \in 0..proc.attack
    BY <1>1 DEF HeadInv, FlipsCounted, Attacking, TypeOK, HostTypeOK, Domain
  <2>2. \A i \in 1..Len(log) : log[i].dom < Target
    BY <1>1 DEF HeadInv, LinesBehind, Attacking
  <2> SUFFICES ASSUME NEW i \in 1..Len(log')
               PROVE  /\ log'[i].dom \in DomIds => dom[log'[i].dom].flips \in 0..log'[i].count
                      /\ \A j \in 1..(i - 1) : log'[j].dom < log'[i].dom
    BY <1>1 DEF LinesCoverDamage
  <2>3. CASE i \in 1..Len(log)
    <3>1. \A j \in 1..(i - 1) : j \in 1..Len(log)
      BY <1>5, <2>3
    <3>2. QED
      BY <1>5, <2>3, <3>1 DEF HeadInv, LinesCoverDamage
  <2>4. CASE i = Len(log) + 1
    <3>1. \A j \in 1..(i - 1) : j \in 1..Len(log)
      BY <1>5, <2>4
    <3>2. QED
      BY <1>3, <1>5, <2>1, <2>2, <2>4, <3>1
  <2>5. QED
    BY <1>6, <2>3, <2>4
<1>11. QED
  BY <1>7, <1>8, <1>9, <1>10 DEF HeadInv

-----------------------------------------------------------------------------
(* The theorems. *)

LEMMA HostStepHead ==
  ASSUME HeadInv, HostStep \/ XendRestarts \/ UNCHANGED hostVars, UNCHANGED headVars
  PROVE  HeadInv'
<1>1. HostKept
  BY HostStepKept, XmRestoreKept, UnchangedKept, Constants DEF HeadInv, TypeOK, XendRestarts
<1>2. QED
  BY <1>1, CalmStep DEF HeadInv, TypeOK, headVars, Attacking, At

LEMMA NextHead == HeadInv /\ [Next]_vars => HeadInv'
BY XaInitHead, InjectPageHead, LogDeathHead, QuietStepHead, HostStepHead
   DEF Next, ProcessStep, vars, headVars

LEMMA InitHead == Init => HeadInv
<1> SUFFICES ASSUME Init PROVE HeadInv
  OBVIOUS
<1> DEFINE guest == [NoDomain EXCEPT !.owner = GUEST, !.life = "up"]
<1>1. /\ NoDomain \in Domain /\ guest \in Domain /\ NoDomain.flips = 0 /\ guest.flips = 0
  BY Constants DEF NoDomain, Domain, Life
<1>2. PICK first \in DomIds, fp \in BOOLEAN :
       /\ dom = [d \in DomIds |-> IF d = first THEN guest ELSE NoDomain]
       /\ nextId = first + 1
       /\ proc = [pc |-> "init", dom_id |-> first, fp |-> fp, page |-> 0, attack |-> 0,
                  ex_count |-> 0]
  BY DEF Init
<1> HIDE DEF guest
<1>3. proc \in Process /\ proc.pc = "init" /\ proc.dom_id = first /\ first \in Nat
  BY <1>2, Constants DEF Process
<1>4. /\ dom \in [DomIds -> Domain]
      /\ \A d \in DomIds : dom[d].flips = 0 /\ (d # first => dom[d] = NoDomain)
  BY <1>1, <1>2
<1>5. nextId \in 1..(MaxDom + 1)
  BY <1>2, Constants DEF DomIds
<1>6. log = <<>> /\ Len(log) = 0
  BY DEF Init
<1>7. TypeOK
  BY <1>3, <1>4, <1>5, <1>6 DEF TypeOK, HostTypeOK
<1>8. HostFresh /\ AimIsKnown /\ FlipsCounted
  BY <1>2, <1>3, <1>4, Constants DEF HostFresh, AimIsKnown, FlipsCounted, Attacking, At
<1>9. LinesBehind /\ NoLivingGuestLogged /\ LinesCoverDamage
  BY <1>6 DEF LinesBehind, NoLivingGuestLogged, LinesCoverDamage
<1>10. QED
  BY <1>7, <1>8, <1>9 DEF HeadInv

LEMMA AlwaysHead == Spec => []HeadInv
BY InitHead, NextHead, PTL DEF Spec

(* The variables keep their types; addr never passes the end of the memory, *)
(* and ex_count never the number of experiments (from_head_access.c:36-62). *)
THEOREM TypeCorrect == Spec => []TypeOK
BY AlwaysHead, PTL DEF HeadInv

(* However slow xend is, and though the state may be another domain's, a    *)
(* line stands for a guest that is dead, and stays so                       *)
(* (from_head_access.c:53-58 and 129-138).                                  *)
THEOREM NoLivingGuestLoggedHolds == Spec => []NoLivingGuestLogged
BY AlwaysHead, PTL DEF HeadInv

(* Whatever injections fail unnoticed, a line counts all the pages its      *)
(* domain lost or ever will lose, and no domain has two lines               *)
(* (from_head_access.c:45-58).                                              *)
THEOREM LinesCoverDamageHolds == Spec => []LinesCoverDamage
BY AlwaysHead, PTL DEF HeadInv
=============================================================================
