----------------------- MODULE TestRandomAccessProofs -----------------------
(***************************************************************************)
(* Theorems about the old parallel program, for every set of guests, any   *)
(* number of experiments, retries and failing forks.                       *)
(***************************************************************************)
EXTENDS TestRandomAccess, TLAPS

-----------------------------------------------------------------------------
(* The inductive invariant. *)

(* Ids the host has not allocated yet belong to nobody. *)
HostFresh == \A d \in DomIds : d >= nextId => dom[d] = NoDomain

NobodyPauses == \A d \in DomIds : dom[d].paused = FALSE

(* Whoever still has its name was not destroyed. *)
ListedIsWhole == \A d \in DomIds : Listed(d) => dom[d].left = "gone"

HostInv == HostTypeOK /\ HostFresh /\ NobodyPauses /\ ListedIsWhole

(* d is not up and was not when it was destroyed.  No step takes that back. *)
Settled(d) == dom[d].life # "up" /\ dom[d].left # "up"

Injecting(g) == proc[g].pc \in {"inject", "check"}

(* init stands for a target and a count that are real; a retry begins with  *)
(* init = FALSE, whatever rc and attack_count are left over.                *)
InitIsEarned(g) ==
  /\ proc[g].init =>
       /\ Target(g) \in DomIds /\ Target(g) < nextId
       /\ proc[g].attack \in 0..dom[Target(g)].flips
       /\ proc[g].rc # 0 \/ At(g, "check") => proc[g].attack >= 1
  /\ Injecting(g) => proc[g].init /\ proc[g].rc = 0
  /\ At(g, "init") => ~proc[g].init /\ proc[g].ex_count = 0
  /\ proc[g].ex_count = -1 => ~proc[g].init

(* Nobody else destroys the process's own victim, and a verdict stays true. *)
VerdictStands(g) ==
  proc[g].init /\ dom[Target(g)].owner = g =>
    /\ Injecting(g) => dom[Target(g)].left # "up"
    /\ Prompt /\ proc[g].rc # 0 => Settled(Target(g))

LinesStand(g) ==
  \A i \in 1..Len(log[g]) :
    /\ log[g][i].dom \in DomIds /\ log[g][i].dom < nextId
    /\ log[g][i].count \in 1..dom[log[g][i].dom].flips
    /\ Prompt /\ dom[log[g][i].dom].owner = g => Settled(log[g][i].dom)

GuestInv(g) == InitIsEarned(g) /\ VerdictStands(g) /\ LinesStand(g)

AccessInv == TypeOK /\ HostInv /\ \A g \in Guests : GuestInv(g)

LEMMA Constants ==
  /\ MaxDom \in Nat /\ MaxForkFails \in Nat /\ MaxInits \in Nat /\ MaxInits > 0
  /\ Experiments \in [Guests -> Nat]
  /\ \A d \in DomIds : d \in Nat /\ d >= 1
BY AccessAssumption, HostAssumption DEF DomIds

LEMMA OffType == Off \in Process /\ Off.pc = "off" /\ Off.init = FALSE /\ Off.ex_count = 0
BY Constants DEF Off, Process, Junk

-----------------------------------------------------------------------------
(* The host.  Known domains keep their owners, lose no flip, and do not get *)
(* better; only g takes the life of a domain of g.                          *)

HostGoesOn ==
  /\ HostInv' /\ nextId <= nextId'
  /\ \A d \in DomIds : d < nextId =>
       /\ dom'[d].owner = dom[d].owner
       /\ dom'[d].flips >= dom[d].flips
       /\ Settled(d) => Settled(d)'

LeftKept(d) == d < nextId => dom'[d].left = dom[d].left

OthersLeft(g) == \A d \in DomIds : dom[d].owner # g => LeftKept(d)

LEMMA UnchangedGoesOn ==
  ASSUME HostInv, UNCHANGED hostVars
  PROVE  HostGoesOn /\ \A d \in DomIds : LeftKept(d)
<1>1. \A d \in DomIds : dom[d].flips \in Nat
  BY DEF HostInv, HostTypeOK, Domain
<1>2. HostInv'
  BY DEF HostInv, HostTypeOK, HostFresh, NobodyPauses, ListedIsWhole, Listed, hostVars
<1>3. nextId \in Nat
  BY Constants DEF HostInv, HostTypeOK
<1>4. QED
  BY <1>1, <1>2, <1>3 DEF HostGoesOn, LeftKept, Settled, hostVars

LEMMA XmRestoreGoesOn ==
  ASSUME HostInv, NEW g \in Guests, XmRestore(g)
  PROVE  HostGoesOn /\ \A d \in DomIds : LeftKept(d)
<1>1. CASE UNCHANGED hostVars
  BY <1>1, UnchangedGoesOn
<1>2. CASE /\ nextId <= MaxDom
           /\ dom' = [dom EXCEPT ![nextId] = [NoDomain EXCEPT !.owner = g, !.life = "up"]]
           /\ nextId' = nextId + 1
  <2> DEFINE new == [NoDomain EXCEPT !.owner = g, !.life = "up"]
  <2>1. new \in Domain /\ new.paused = FALSE /\ new.left = "gone"
    BY DEF NoDomain, Domain, Life
  <2>2. nextId' \in 1..(MaxDom + 1) /\ nextId \in DomIds /\ nextId' = nextId + 1
    BY <1>2, Constants DEF HostInv, HostTypeOK, DomIds
  <2>3. dom' = [dom EXCEPT ![nextId] = new]
    BY <1>2
  <2> HIDE DEF new
  <2>4. \A d \in DomIds : dom'[d] = IF d = nextId THEN new ELSE dom[d]
    BY <2>3 DEF HostInv, HostTypeOK
  <2>5. HostTypeOK'
    BY <2>1, <2>2, <2>3 DEF HostInv, HostTypeOK
  <2>6. HostFresh'
    BY <2>2, <2>4, Constants DEF HostInv, HostFresh
  <2>7. NobodyPauses' /\ ListedIsWhole'
    BY <2>1, <2>4 DEF HostInv, NobodyPauses, ListedIsWhole, Listed
  <2>8. \A d \in DomIds : d < nextId => dom'[d] = dom[d] /\ dom[d].flips \in Nat
    BY <2>2, <2>4, Constants DEF HostInv, HostTypeOK, Domain
  <2>9. QED
    BY <2>2, <2>5, <2>6, <2>7, <2>8, Constants DEF HostInv, HostGoesOn, LeftKept, Settled
<1>3. QED
  BY <1>1, <1>2 DEF XmRestore

(* A step that changes one domain, and neither names it nor unnames others. *)
OneChanges(d) ==
  /\ dom' \in [DomIds -> Domain] /\ nextId' = nextId
  /\ d < nextId
  /\ \A e \in DomIds \ {d} : dom'[e] = dom[e]
  /\ dom'[d].owner = dom[d].owner /\ dom'[d].flips >= dom[d].flips
  /\ dom'[d].paused = FALSE
  /\ Settled(d) => Settled(d)'
  /\ Listed(d)' => Listed(d) /\ dom'[d].left = dom[d].left

LEMMA OneChangesGoesOn ==
  ASSUME HostInv, NEW d \in DomIds, OneChanges(d)
  PROVE  HostGoesOn /\ \A e \in DomIds \ {d} : LeftKept(e)
<1>1. nextId \in Nat /\ \A e \in DomIds : dom[e].flips \in Nat
  BY Constants DEF HostInv, HostTypeOK, Domain
<1>2. HostTypeOK' /\ HostFresh'
  BY <1>1, Constants DEF HostInv, HostTypeOK, HostFresh, OneChanges
<1>3. NobodyPauses' /\ ListedIsWhole'
  BY DEF HostInv, NobodyPauses, ListedIsWhole, OneChanges, Listed
<1>4. QED
  BY <1>1, <1>2, <1>3 DEF HostInv, HostGoesOn, LeftKept, OneChanges, Settled

(* Whoever lives is known. *)
LEMMA LivingIsKnown ==
  ASSUME HostInv, NEW d \in DomIds, dom[d].life # "gone"
  PROVE  d < nextId
<1>1. NoDomain.life = "gone"
  BY DEF NoDomain
<1>2. QED
  BY <1>1, Constants DEF HostInv, HostFresh, HostTypeOK

LEMMA XmDestroyGoesOn ==
  ASSUME HostInv, NEW g \in Guests, XmDestroy(g)
  PROVE  HostGoesOn /\ OthersLeft(g)
<1>1. CASE UNCHANGED hostVars
  BY <1>1, UnchangedGoesOn DEF OthersLeft
<1>2. CASE XmDestroyed(g)
  <2>1. PICK d \in Named(g) :
          dom' = [dom EXCEPT ![d].life = "dying", ![d].paused = FALSE,
                             ![d].left = dom[d].life]
    BY <1>2 DEF XmDestroyed
  <2>2. d \in DomIds /\ Listed(d) /\ dom[d] \in Domain /\ dom[d].owner = g
        /\ dom \in [DomIds -> Domain] /\ nextId' = nextId
    BY <1>2 DEF Named, HostInv, HostTypeOK, XmDestroyed
  <2> DEFINE dying == [dom[d] EXCEPT !.life = "dying", !.paused = FALSE, !.left = dom[d].life]
  <2>3. /\ dying \in Domain /\ dying.owner = dom[d].owner /\ dying.flips = dom[d].flips
        /\ dying.paused = FALSE /\ dying.life = "dying" /\ dying.left = dom[d].life
    BY <2>2 DEF Domain, Life
  <2>4. dom' = [dom EXCEPT ![d] = dying]
    BY <2>1, <2>2
  <2> HIDE DEF dying
  <2>5. dom'[d] = dying /\ \A e \in DomIds \ {d} : dom'[e] = dom[e]
    BY <2>2, <2>4
  <2>6. d < nextId
    BY <2>2, LivingIsKnown DEF Listed
  <2>7. dom[d].flips \in Nat
    BY <2>2 DEF Domain
  <2>8. OneChanges(d)
    BY <2>2, <2>3, <2>4, <2>5, <2>6, <2>7 DEF OneChanges, Settled, Listed
  <2>9. QED
    BY <2>2, <2>8, OneChangesGoesOn DEF OthersLeft
<1>3. QED
  BY <1>1, <1>2 DEF XmDestroy

LEMMA FlipGoesOn ==
  ASSUME HostInv, NEW d \in DomIds, Listed(d), Flip(d)
  PROVE  /\ HostGoesOn /\ \A e \in DomIds : LeftKept(e)
         /\ dom'[d].flips = dom[d].flips + 1
<1> DEFINE hit == [dom[d] EXCEPT !.flips = @ + 1]
<1>1. dom[d] \in Domain /\ dom[d].flips \in Nat /\ dom[d].flips + 1 \in Nat
  BY DEF HostInv, HostTypeOK, Domain
<1>2. /\ hit \in Domain /\ hit.flips = dom[d].flips + 1 /\ hit.owner = dom[d].owner
      /\ hit.life = dom[d].life /\ hit.left = dom[d].left /\ hit.paused = dom[d].paused
  BY <1>1 DEF Domain
<1>3. dom' = [dom EXCEPT ![d] = hit] /\ nextId' = nextId /\ dom \in [DomIds -> Domain]
  BY DEF Flip, HostInv, HostTypeOK
<1> HIDE DEF hit
<1>4. dom'[d] = hit /\ \A e \in DomIds \ {d} : dom'[e] = dom[e]
  BY <1>3
<1>5. d < nextId
  BY LivingIsKnown DEF Listed
<1>6. OneChanges(d)
  BY <1>1, <1>2, <1>3, <1>4, <1>5 DEF OneChanges, HostInv, NobodyPauses, Settled, Listed
<1>7. QED
  BY <1>2, <1>4, <1>6, OneChangesGoesOn DEF LeftKept

LEMMA HostStepGoesOn ==
  ASSUME HostInv, HostStep
  PROVE  HostGoesOn /\ \A d \in DomIds : LeftKept(d)
<1>1. PICK d \in DomIds : GuestHangs(d) \/ GuestCrashes(d) \/ Reap(d)
  BY DEF HostStep
<1>2. dom \in [DomIds -> Domain] /\ dom[d] \in Domain /\ dom[d].flips \in Nat
  BY DEF HostInv, HostTypeOK, Domain
<1>3. /\ dom' \in [DomIds -> Domain] /\ nextId' = nextId
      /\ \A e \in DomIds \ {d} : dom'[e] = dom[e]
      /\ dom'[d].owner = dom[d].owner /\ dom'[d].flips = dom[d].flips
      /\ dom'[d].paused = FALSE /\ dom'[d].life # "up" /\ dom'[d].left = dom[d].left
      /\ Listed(d)' => Listed(d)
  BY <1>1, <1>2 DEF GuestHangs, GuestCrashes, Reap, Domain, Life, Listed
<1>4. d < nextId
  <2>1. dom[d].life # "gone"
    BY <1>1 DEF GuestHangs, GuestCrashes, Reap
  <2>2. QED
    BY <2>1, LivingIsKnown
<1>5. OneChanges(d)
  BY <1>2, <1>3, <1>4 DEF OneChanges, Settled
<1>6. QED
  BY <1>3, <1>5, OneChangesGoesOn DEF LeftKept

-----------------------------------------------------------------------------
(* Guests whose process the step is not about. *)

LEMMA LinesKept ==
  ASSUME AccessInv, HostGoesOn, NEW g \in Guests, UNCHANGED log[g]
  PROVE  LinesStand(g)'
<1> SUFFICES ASSUME NEW i \in 1..Len(log[g])
             PROVE  /\ log[g][i].dom \in DomIds /\ log[g][i].dom < nextId'
                    /\ log[g][i].count \in 1..dom'[log[g][i].dom].flips
                    /\ Prompt /\ dom'[log[g][i].dom].owner = g =>
                         /\ dom'[log[g][i].dom].life # "up"
                         /\ dom'[log[g][i].dom].left # "up"
  BY DEF LinesStand, Settled
<1>1. /\ log[g][i].dom \in DomIds /\ log[g][i].dom < nextId
      /\ log[g][i].count \in 1..dom[log[g][i].dom].flips
      /\ Prompt /\ dom[log[g][i].dom].owner = g => Settled(log[g][i].dom)
  BY DEF AccessInv, GuestInv, LinesStand
<1>2. PICK d \in DomIds : d = log[g][i].dom
  BY <1>1
<1>3. /\ nextId \in Nat /\ nextId' \in Nat /\ nextId <= nextId'
      /\ dom[d].flips \in Nat /\ dom'[d].flips \in Nat
  BY Constants DEF AccessInv, HostGoesOn, HostInv, HostTypeOK, Domain
<1>4. /\ dom'[d].owner = dom[d].owner /\ dom'[d].flips >= dom[d].flips
      /\ Settled(d) => Settled(d)'
  BY <1>1, <1>2 DEF HostGoesOn
<1>5. QED
  BY <1>1, <1>2, <1>3, <1>4, Constants DEF Settled

(* The process goes on after a step of the host, with the same target and   *)
(* count, and with no new claim.                                            *)
LEMMA ClaimsKept ==
  ASSUME AccessInv, HostGoesOn, NEW g \in Guests,
         proc'[g].init = proc[g].init, proc'[g].dom_id = proc[g].dom_id,
         proc'[g].attack = proc[g].attack, proc'[g].rc = proc[g].rc,
         proc'[g].ex_count = proc[g].ex_count,
         proc'[g].pc \in {"inject", "check", "init"} => proc'[g].pc = proc[g].pc,
         Injecting(g)' => \A d \in DomIds : dom[d].owner = g => LeftKept(d)
  PROVE  InitIsEarned(g)' /\ VerdictStands(g)'
<1>1. InitIsEarned(g) /\ VerdictStands(g) /\ Target(g)' = Target(g)
  BY DEF AccessInv, GuestInv, Target
<1>2. CASE ~proc[g].init
  BY <1>1, <1>2 DEF InitIsEarned, VerdictStands, Injecting, At
<1>3. CASE proc[g].init
  <2>1. PICK d \in DomIds : d = Target(g)
    BY <1>1, <1>3 DEF InitIsEarned
  <2>2. /\ nextId \in Nat /\ nextId' \in Nat /\ nextId <= nextId' /\ d < nextId
        /\ dom[d].flips \in Nat /\ dom'[d].flips \in Nat
    BY <1>1, <1>3, <2>1, Constants
       DEF InitIsEarned, AccessInv, HostGoesOn, HostInv, HostTypeOK, Domain
  <2>3. /\ dom'[d].owner = dom[d].owner /\ dom'[d].flips >= dom[d].flips
        /\ Settled(d) => Settled(d)'
    BY <2>2 DEF HostGoesOn
  <2>4. InitIsEarned(g)'
    BY <1>1, <1>3, <2>1, <2>2, <2>3, Constants DEF InitIsEarned, Injecting, At
  <2>5. VerdictStands(g)'
    BY <1>1, <1>3, <2>1, <2>2, <2>3 DEF VerdictStands, Injecting, LeftKept, Settled
  <2>6. QED
    BY <2>4, <2>5
<1>4. QED
  BY <1>2, <1>3, <1>1 DEF AccessInv, TypeOK, Process

LEMMA OtherGuestKept ==
  ASSUME AccessInv, HostGoesOn, NEW g \in Guests, UNCHANGED <<proc[g], log[g]>>,
         \A d \in DomIds : dom[d].owner = g => LeftKept(d)
  PROVE  GuestInv(g)'
BY LinesKept, ClaimsKept DEF GuestInv

LEMMA StepOf ==
  ASSUME AccessInv, NEW g \in Guests, HostGoesOn, OthersLeft(g), TypeOK', GuestInv(g)',
         \A h \in Guests \ {g} : UNCHANGED <<proc[h], log[h]>>
  PROVE  AccessInv'
<1>1. ASSUME NEW h \in Guests, h # g
      PROVE  GuestInv(h)'
  BY <1>1, OtherGuestKept DEF OthersLeft
<1>2. QED
  BY <1>1 DEF AccessInv, HostGoesOn

-----------------------------------------------------------------------------
(* Steps of the process g. *)

(* A step of g that writes no line.                                         *)
LEMMA ProcessMoves ==
  ASSUME AccessInv, NEW g \in Guests, HostGoesOn, OthersLeft(g), UNCHANGED <<drv, log>>,
         forkFails' \in 0..MaxForkFails, proc' \in [Guests -> Process],
         \A h \in Guests \ {g} : UNCHANGED proc[h],
         InitIsEarned(g)' /\ VerdictStands(g)'
  PROVE  AccessInv'
<1>1. TypeOK'
  BY DEF AccessInv, TypeOK, HostGoesOn, HostInv
<1>2. LinesStand(g)'
  BY LinesKept
<1>3. QED
  BY <1>1, <1>2, StepOf DEF GuestInv

(* A step to a place behind the injection. *)
LEMMA GotoMoves ==
  ASSUME AccessInv, NEW g \in Guests, HostGoesOn, OthersLeft(g), UNCHANGED <<drv, log>>,
         forkFails' \in 0..MaxForkFails,
         NEW label \in {"destroy", "confirm", "record"}, Goto(g, label)
  PROVE  AccessInv'
<1>1. proc \in [Guests -> Process] /\ proc' = [proc EXCEPT ![g].pc = label]
  BY DEF AccessInv, TypeOK, Goto
<1> DEFINE p == [proc[g] EXCEPT !.pc = label]
<1>2. /\ p \in Process /\ p.pc = label /\ p.init = proc[g].init /\ p.dom_id = proc[g].dom_id
      /\ p.attack = proc[g].attack /\ p.rc = proc[g].rc /\ p.ex_count = proc[g].ex_count
  BY <1>1 DEF Process
<1>3. proc' = [proc EXCEPT ![g] = p]
  BY <1>1
<1> HIDE DEF p
<1>4. /\ proc' \in [Guests -> Process] /\ proc'[g] = p
      /\ \A h \in Guests \ {g} : UNCHANGED proc[h]
  BY <1>1, <1>2, <1>3
<1>5. ~Injecting(g)'
  BY <1>2, <1>4 DEF Injecting
<1>6. InitIsEarned(g)' /\ VerdictStands(g)'
  BY <1>2, <1>4, <1>5, ClaimsKept
<1>7. QED
  BY <1>4, <1>6, ProcessMoves

LEMMA GotoStepAccess ==
  ASSUME AccessInv, NEW g \in Guests,
         StopInjecting(g) \/ ForkFails(g) \/ DestroyDomain(g) \/ ReDestroy(g) \/ Destroyed(g)
  PROVE  AccessInv'
<1>1. HostGoesOn /\ OthersLeft(g)
  BY UnchangedGoesOn, XmDestroyGoesOn
     DEF AccessInv, OthersLeft, StopInjecting, ForkFails, DestroyDomain, ReDestroy, Destroyed
<1>2. forkFails' \in 0..MaxForkFails
  BY Constants DEF AccessInv, TypeOK, StopInjecting, ForkFails, DestroyDomain, ReDestroy, Destroyed
<1>3. /\ UNCHANGED <<drv, log>>
      /\ \E label \in {"destroy", "confirm", "record"} : Goto(g, label)
  BY DEF StopInjecting, ForkFails, DestroyDomain, ReDestroy, Destroyed
<1>4. QED
  BY <1>1, <1>2, <1>3, GotoMoves

LEMMA XaInitAccess ==
  ASSUME AccessInv, NEW g \in Guests, XaInit(g)
  PROVE  AccessInv'
<1>1. /\ proc \in [Guests -> Process] /\ proc[g] \in Process /\ HostInv
      /\ proc[g].dom_id \in DomIds /\ Listed(proc[g].dom_id)
      /\ proc[g].ex_count = 0
      /\ proc[g].inits + 1 \in 0..MaxInits /\ proc[g].dom_id + 1 \in Nat
  BY Constants DEF AccessInv, TypeOK, GuestInv, InitIsEarned, XaInit, Listed, Process
<1> DEFINE p == [proc[g] EXCEPT !.pc = "inject", !.init = TRUE, !.attack = 0, !.rc = 0,
                                !.dom_id = @ + 1, !.inits = @ + 1]
<1>2. /\ p \in Process /\ p.pc = "inject" /\ p.init = TRUE /\ p.attack = 0 /\ p.rc = 0
      /\ p.dom_id = proc[g].dom_id + 1 /\ p.ex_count = 0
  BY <1>1 DEF Process
<1>3. proc' = [proc EXCEPT ![g] = p]
  BY <1>1 DEF XaInit
<1> HIDE DEF p
<1>4. /\ proc' \in [Guests -> Process] /\ proc'[g] = p
      /\ \A h \in Guests \ {g} : UNCHANGED proc[h]
  BY <1>1, <1>2, <1>3
<1>5. UNCHANGED <<dom, nextId, drv, log, forkFails>>
  BY DEF XaInit, hostVars
<1>6. HostGoesOn /\ OthersLeft(g)
  BY <1>1, <1>5, UnchangedGoesOn DEF OthersLeft, hostVars
<1>7. PICK d \in DomIds : d = proc[g].dom_id
  BY <1>1
<1>8. /\ Target(g)' = d /\ d < nextId /\ dom[d].flips \in Nat /\ dom[d].left = "gone"
  <2>1. Target(g)' = d
    BY <1>2, <1>4, <1>7, Constants DEF Target
  <2>2. d < nextId
    BY <1>1, <1>7, LivingIsKnown DEF Listed
  <2>3. QED
    BY <1>1, <1>7, <2>1, <2>2 DEF HostInv, HostTypeOK, Domain, ListedIsWhole
<1>9. InitIsEarned(g)' /\ VerdictStands(g)'
  BY <1>2, <1>4, <1>5, <1>8 DEF InitIsEarned, VerdictStands, Injecting, At
<1>10. QED
  BY <1>4, <1>5, <1>6, <1>9, ProcessMoves DEF AccessInv, TypeOK

(* A process that claims nothing, at the start or after a failed init. *)
LEMMA NoClaim ==
  ASSUME AccessInv, NEW g \in Guests, HostGoesOn, OthersLeft(g), UNCHANGED <<log, forkFails>>,
         NEW p \in Process, ~p.init, p.pc \notin {"inject", "check"},
         p.pc = "init" => p.ex_count = 0, proc' = [proc EXCEPT ![g] = p],
         drv' \in [Guests -> Driver], \A h \in Guests : drv'[h].count <= Experiments[h]
  PROVE  AccessInv'
<1>1. /\ proc' \in [Guests -> Process] /\ proc'[g] = p
      /\ \A h \in Guests \ {g} : UNCHANGED proc[h]
  BY DEF AccessInv, TypeOK
<1>2. TypeOK'
  BY <1>1 DEF AccessInv, TypeOK, HostGoesOn, HostInv
<1>3. InitIsEarned(g)' /\ VerdictStands(g)'
  BY <1>1 DEF InitIsEarned, VerdictStands, Injecting, At
<1>4. LinesStand(g)'
  BY LinesKept
<1>5. QED
  BY <1>1, <1>2, <1>3, <1>4, StepOf DEF GuestInv

LEMMA XaInitFailsAccess ==
  ASSUME AccessInv, NEW g \in Guests, XaInitFails(g)
  PROVE  AccessInv'
<1>1. /\ proc \in [Guests -> Process] /\ proc[g] \in Process
      /\ proc[g].ex_count = 0 /\ proc[g].inits + 1 \in 0..MaxInits
      /\ proc[g].dom_id + 1 \in Nat
  BY Constants DEF AccessInv, TypeOK, GuestInv, InitIsEarned, XaInitFails, Process
<1> DEFINE p == [proc[g] EXCEPT !.pc = "destroy", !.init = FALSE, !.ex_count = @ - 1,
                                !.dom_id = @ + 1, !.inits = @ + 1]
<1>2. p \in Process /\ p.pc = "destroy" /\ ~p.init
  <2>1. proc[g].ex_count - 1 \in {-1, 0}
    BY <1>1
  <2>2. QED
    BY <1>1, <2>1 DEF Process
<1>3. proc' = [proc EXCEPT ![g] = p]
  BY <1>1 DEF XaInitFails
<1> HIDE DEF p
<1>4. HostGoesOn /\ OthersLeft(g) /\ UNCHANGED <<drv, log, forkFails>>
  BY UnchangedGoesOn DEF AccessInv, XaInitFails, OthersLeft
<1>5. QED
  BY <1>2, <1>3, <1>4, NoClaim DEF AccessInv, TypeOK

LEMMA InjectBitAccess ==
  ASSUME AccessInv, NEW g \in Guests, InjectBit(g)
  PROVE  AccessInv'
<1>1. /\ proc \in [Guests -> Process] /\ proc[g] \in Process /\ HostInv
      /\ proc[g].init = TRUE /\ proc[g].rc = 0 /\ proc[g].ex_count # -1
      /\ InitIsEarned(g) /\ VerdictStands(g) /\ Injecting(g)
  BY DEF AccessInv, TypeOK, GuestInv, InitIsEarned, InjectBit, Injecting, At, Process
<1>2. PICK a \in Addrs :
        proc' = [proc EXCEPT ![g].attack = @ + 1, ![g].seen = @ \cup {a},
                  ![g].pc = IF a \in proc[g].seen THEN "inject" ELSE "check"]
  BY DEF InjectBit
<1>3. PICK d \in DomIds : d = Target(g)
  BY <1>1 DEF InitIsEarned
<1>4. /\ HostGoesOn /\ (\A e \in DomIds : LeftKept(e))
      /\ dom'[d].flips = dom[d].flips + 1
      /\ UNCHANGED <<drv, log, forkFails>>
  BY <1>1, <1>3, FlipGoesOn DEF InjectBit
<1>5. /\ d < nextId /\ d < nextId' /\ dom[d].flips \in Nat
      /\ proc[g].attack \in 0..dom[d].flips
  <2>1. nextId \in Nat /\ nextId' \in Nat /\ nextId <= nextId'
    BY <1>4, Constants DEF AccessInv, HostGoesOn, HostInv, HostTypeOK
  <2>2. QED
    BY <1>1, <1>3, <2>1, Constants DEF InitIsEarned, HostInv, HostTypeOK, Domain
<1> DEFINE p == [proc[g] EXCEPT !.attack = @ + 1, !.seen = @ \cup {a},
                   !.pc = IF a \in proc[g].seen THEN "inject" ELSE "check"]
<1>6. /\ p \in Process /\ p.pc \in {"inject", "check"} /\ p.init = TRUE /\ p.rc = 0
      /\ p.dom_id = proc[g].dom_id /\ p.ex_count = proc[g].ex_count
      /\ p.attack = proc[g].attack + 1
  <2>1. proc[g].attack + 1 \in Nat
    BY <1>5
  <2>2. QED
    BY <1>1, <2>1 DEF Process
<1>7. proc' = [proc EXCEPT ![g] = p]
  BY <1>1, <1>2
<1> HIDE DEF p
<1>8. /\ proc' \in [Guests -> Process] /\ proc'[g] = p
      /\ \A h \in Guests \ {g} : UNCHANGED proc[h]
  BY <1>1, <1>6, <1>7
<1>9. Target(g)' = d
  BY <1>3, <1>6, <1>8 DEF Target
<1>10. InitIsEarned(g)'
  BY <1>1, <1>4, <1>5, <1>6, <1>8, <1>9 DEF InitIsEarned, Injecting, At
<1>11. VerdictStands(g)'
  <2>1. dom'[d].owner = dom[d].owner /\ dom'[d].left = dom[d].left
    BY <1>4, <1>5 DEF HostGoesOn, LeftKept
  <2>2. QED
    BY <1>1, <1>3, <1>6, <1>8, <1>9, <2>1 DEF VerdictStands
<1>12. QED
  BY <1>4, <1>8, <1>10, <1>11, ProcessMoves DEF AccessInv, TypeOK, OthersLeft

(* The heart of NoSurvivorLogged: where an answering guest answers in time, *)
(* a verdict is about a guest that is lost.                                 *)
LEMMA VerdictOfUp ==
  ASSUME AccessInv, Prompt, NEW g \in Guests, NEW rc \in Verdicts(g), rc # 0,
         Target(g) \in DomIds, dom[Target(g)].owner = g
  PROVE  dom[Target(g)].life # "up"
<1> SUFFICES ASSUME dom[Target(g)].life = "up" PROVE FALSE
  OBVIOUS
<1>1. InfoOf(Target(g)) = {Target(g)}
  BY Constants DEF InfoOf, Present
<1>2. Answers(g)
  BY DEF Answers, Named, Listed, AccessInv, HostInv, NobodyPauses
<1>3. rc = 0
  BY <1>1, <1>2 DEF Verdicts, IsGuestDead
<1>4. QED
  BY <1>3

LEMMA CheckGuestAccess ==
  ASSUME AccessInv, NEW g \in Guests, CheckGuest(g)
  PROVE  AccessInv'
<1>1. /\ proc \in [Guests -> Process] /\ proc[g] \in Process /\ HostInv
      /\ proc[g].init = TRUE /\ proc[g].ex_count # -1 /\ proc[g].attack >= 1
      /\ InitIsEarned(g) /\ VerdictStands(g) /\ Injecting(g)
  BY DEF AccessInv, TypeOK, GuestInv, InitIsEarned, CheckGuest, Injecting, At
<1>2. PICK rc \in Verdicts(g) :
        proc' = [proc EXCEPT ![g].rc = rc, ![g].pc = IF rc = 0 THEN "inject" ELSE "destroy"]
  BY DEF CheckGuest
<1>3. rc \in {0, 1, 2}
  BY DEF Verdicts, IsGuestDead
<1> DEFINE p == [proc[g] EXCEPT !.rc = rc, !.pc = IF rc = 0 THEN "inject" ELSE "destroy"]
<1>4. /\ p \in Process /\ p.rc = rc /\ p.pc = IF rc = 0 THEN "inject" ELSE "destroy"
      /\ p.dom_id = proc[g].dom_id /\ p.ex_count = proc[g].ex_count
      /\ p.attack = proc[g].attack /\ p.init = TRUE
  BY <1>1, <1>3 DEF Process
<1>5. proc' = [proc EXCEPT ![g] = p]
  BY <1>1, <1>2
<1> HIDE DEF p
<1>6. /\ proc' \in [Guests -> Process] /\ proc'[g] = p
      /\ \A h \in Guests \ {g} : UNCHANGED proc[h]
  BY <1>1, <1>4, <1>5
<1>7. /\ UNCHANGED <<dom, nextId, drv, log, forkFails>>
      /\ HostGoesOn /\ OthersLeft(g)
  BY <1>1, UnchangedGoesOn DEF CheckGuest, OthersLeft, hostVars
<1>8. Target(g)' = Target(g) /\ Target(g) \in DomIds
  BY <1>1, <1>4, <1>6 DEF Target, InitIsEarned
<1>9. InitIsEarned(g)'
  BY <1>1, <1>4, <1>6, <1>7, <1>8 DEF InitIsEarned, Injecting, At
<1>10. VerdictStands(g)'
  <2>1. Prompt /\ rc # 0 /\ dom[Target(g)].owner = g => dom[Target(g)].life # "up"
    BY <1>8, VerdictOfUp
  <2>2. QED
    BY <1>1, <1>4, <1>6, <1>7, <1>8, <2>1 DEF VerdictStands, Settled
<1>11. QED
  BY <1>6, <1>7, <1>9, <1>10, ProcessMoves DEF AccessInv, TypeOK

LEMMA DiesOfSigpipeAccess ==
  ASSUME AccessInv, NEW g \in Guests, DiesOfSigpipe(g)
  PROVE  AccessInv'
<1>1. /\ HostGoesOn /\ OthersLeft(g) /\ UNCHANGED <<drv, log, forkFails>>
      /\ proc' = [proc EXCEPT ![g] = Off]
  BY UnchangedGoesOn DEF AccessInv, DiesOfSigpipe, OthersLeft
<1>2. QED
  BY <1>1, OffType, NoClaim DEF AccessInv, TypeOK

LEMMA RecordAccess ==
  ASSUME AccessInv, NEW g \in Guests, Record(g)
  PROVE  AccessInv'
<1>1. /\ proc \in [Guests -> Process] /\ proc[g] \in Process /\ HostInv
      /\ log \in [Guests -> Seq([dom : Nat, count : Nat \cup {Junk}])]
      /\ InitIsEarned(g) /\ VerdictStands(g) /\ LinesStand(g)
      /\ proc' = [proc EXCEPT ![g].pc = "restore"]
      /\ UNCHANGED <<dom, nextId, drv, forkFails>>
  BY DEF AccessInv, TypeOK, GuestInv, Record, Goto, hostVars
<1>2. HostGoesOn /\ \A d \in DomIds : LeftKept(d)
  BY <1>1, UnchangedGoesOn DEF hostVars
<1> DEFINE p == [proc[g] EXCEPT !.pc = "restore"]
<1>3. /\ p \in Process /\ p.pc = "restore" /\ p.init = proc[g].init
      /\ p.dom_id = proc[g].dom_id /\ p.attack = proc[g].attack /\ p.rc = proc[g].rc
      /\ p.ex_count = proc[g].ex_count
  BY <1>1 DEF Process
<1>4. proc' = [proc EXCEPT ![g] = p]
  BY <1>1
<1> HIDE DEF p
<1>5. /\ proc' \in [Guests -> Process] /\ proc'[g] = p
      /\ \A h \in Guests \ {g} : UNCHANGED proc[h]
  BY <1>1, <1>3, <1>4
<1>6. InitIsEarned(g)' /\ VerdictStands(g)'
  BY <1>2, <1>3, <1>5, ClaimsKept
<1>7. CASE ~LogsDeath(g)
  <2>1. UNCHANGED log
    BY <1>7 DEF Record
  <2>2. QED
    BY <1>1, <1>2, <1>5, <1>6, <2>1, ProcessMoves DEF AccessInv, TypeOK, OthersLeft
<1>8. CASE LogsDeath(g)
  <2> DEFINE new == [dom |-> Target(g), count |-> proc[g].attack]
             s == log[g]
  <2>1. /\ Target(g) \in DomIds /\ Target(g) < nextId
        /\ proc[g].attack \in 1..dom[Target(g)].flips
        /\ Prompt /\ dom[Target(g)].owner = g => Settled(Target(g))
    <3>1. Target(g) \in DomIds
      BY <1>1, <1>8 DEF LogsDeath, InitIsEarned
    <3>2. dom[Target(g)].flips \in Nat
      BY <1>1, <3>1 DEF HostInv, HostTypeOK, Domain
    <3>3. QED
      BY <1>1, <1>8, <3>1, <3>2 DEF LogsDeath, InitIsEarned, VerdictStands
  <2>2. /\ new \in [dom : Nat, count : Nat \cup {Junk}]
        /\ new.dom = Target(g) /\ new.count = proc[g].attack
    <3>1. Target(g) \in Nat /\ proc[g].attack \in Nat \cup {Junk}
      BY <1>1, <2>1, Constants DEF Process
    <3>2. QED
      BY <3>1
  <2>3. log' = [log EXCEPT ![g] = Append(s, new)]
    BY <1>8 DEF Record
  <2>4. s \in Seq([dom : Nat, count : Nat \cup {Junk}])
    BY <1>1
  <2> HIDE DEF new, s
  <2>5. /\ Append(s, new) \in Seq([dom : Nat, count : Nat \cup {Junk}])
        /\ Len(Append(s, new)) = Len(s) + 1 /\ Len(s) \in Nat
        /\ Append(s, new)[Len(s) + 1] = new
        /\ \A i \in 1..Len(s) : Append(s, new)[i] = s[i]
    BY <2>2, <2>4
  <2>6. /\ log'[g] = Append(s, new) /\ \A h \in Guests \ {g} : log'[h] = log[h]
        /\ log' \in [Guests -> Seq([dom : Nat, count : Nat \cup {Junk}])]
    BY <1>1, <2>3, <2>5
  <2>7. TypeOK'
    BY <1>1, <1>5, <2>6 DEF AccessInv, TypeOK, HostTypeOK
  <2>8. LinesStand(g)'
    <3> SUFFICES ASSUME NEW i \in 1..Len(log'[g])
                 PROVE  /\ log'[g][i].dom \in DomIds /\ log'[g][i].dom < nextId
                        /\ log'[g][i].count \in 1..dom[log'[g][i].dom].flips
                        /\ Prompt /\ dom[log'[g][i].dom].owner = g => Settled(log'[g][i].dom)
      BY <1>1 DEF LinesStand, Settled
    <3>1. CASE i \in 1..Len(s)
      BY <1>1, <2>5, <2>6, <3>1 DEF LinesStand, s
    <3>2. CASE i = Len(s) + 1
      BY <2>1, <2>2, <2>5, <2>6, <3>2
    <3>3. QED
      BY <2>5, <2>6, <3>1, <3>2
  <2>9. QED
    BY <1>2, <1>5, <1>6, <2>6, <2>7, <2>8, StepOf DEF GuestInv, OthersLeft
<1>9. QED
  BY <1>7, <1>8

LEMMA RestoreDomainAccess ==
  ASSUME AccessInv, NEW g \in Guests, RestoreDomain(g)
  PROVE  AccessInv'
<1>1. /\ HostGoesOn /\ OthersLeft(g) /\ UNCHANGED <<drv, log, forkFails>>
      /\ proc \in [Guests -> Process] /\ proc[g] \in Process /\ InitIsEarned(g)
  BY XmRestoreGoesOn DEF AccessInv, TypeOK, GuestInv, RestoreDomain, OthersLeft
<1>2. CASE proc[g].ex_count + 1 < EX_COUNT
  <2>1. proc[g].ex_count = -1 /\ proc[g].ex_count + 1 = 0 /\ ~proc[g].init
    BY <1>1, <1>2 DEF InitIsEarned, EX_COUNT, Process
  <2> DEFINE p == [proc[g] EXCEPT !.pc = "init", !.ex_count = @ + 1, !.seen = {}]
  <2>2. p \in Process /\ p.pc = "init" /\ ~p.init /\ p.ex_count = 0
    BY <1>1, <2>1 DEF Process
  <2>3. proc' = [proc EXCEPT ![g] = p]
    <3>1. proc' = [proc EXCEPT ![g].pc = "init", ![g].ex_count = @ + 1, ![g].seen = {}]
      BY <1>2, <2>1 DEF RestoreDomain, EX_COUNT
    <3>2. QED
      BY <1>1, <3>1
  <2> HIDE DEF p
  <2>4. QED
    BY <1>1, <2>2, <2>3, NoClaim DEF AccessInv, TypeOK
<1>3. CASE ~(proc[g].ex_count + 1 < EX_COUNT)
  <2>1. proc' = [proc EXCEPT ![g] = Off]
    BY <1>1, <1>3 DEF RestoreDomain, EX_COUNT, Process
  <2>2. QED
    BY <1>1, <2>1, OffType, NoClaim DEF AccessInv, TypeOK
<1>4. QED
  BY <1>2, <1>3

-----------------------------------------------------------------------------
(* Steps of the driver of g. *)

LEMMA DriverStepAccess ==
  ASSUME AccessInv, NEW g \in Guests, DriverStep(g)
  PROVE  AccessInv'
<1>1. /\ HostGoesOn /\ (\A d \in DomIds : LeftKept(d)) /\ UNCHANGED <<log, forkFails>>
  BY UnchangedGoesOn, XmRestoreGoesOn
     DEF AccessInv, DriverStep, Boot, Launch, StopDriver, Return, Finish
<1>2. /\ drv \in [Guests -> Driver] /\ drv[g] \in Driver /\ drv[g].count \in Nat
      /\ Experiments[g] \in Nat /\ \A h \in Guests : drv[h].count <= Experiments[h]
  BY Constants DEF AccessInv, TypeOK, Driver
<1>3. CASE Launch(g)
  <2>1. PICK d \in Ids(g) :
          /\ drv' = [drv EXCEPT ![g].past = d, ![g].count = @ + 1,
                                ![g].pc = IF d = 0 THEN "list" ELSE "wait"]
          /\ proc' = [proc EXCEPT ![g] =
                        IF d = 0 THEN Off ELSE [Off EXCEPT !.pc = "init", !.dom_id = d]]
    BY <1>3 DEF Launch
  <2>2. d \in Nat
    BY Constants DEF Ids, Named
  <2> DEFINE p == IF d = 0 THEN Off ELSE [Off EXCEPT !.pc = "init", !.dom_id = d]
             w == [drv[g] EXCEPT !.past = d, !.count = @ + 1,
                                 !.pc = IF d = 0 THEN "list" ELSE "wait"]
  <2>3. p \in Process /\ ~p.init /\ p.pc \in {"off", "init"} /\ p.ex_count = 0
    BY <2>2, OffType DEF Process
  <2>4. w \in Driver /\ w.count = drv[g].count + 1
    <3>1. drv[g].count + 1 \in Nat
      BY <1>2
    <3>2. QED
      BY <1>2, <2>2, <3>1 DEF Driver
  <2>5. proc' = [proc EXCEPT ![g] = p] /\ drv' = [drv EXCEPT ![g] = w]
    BY <1>2, <2>1
  <2>6. drv[g].count + 1 <= Experiments[g]
    BY <1>2, <1>3 DEF Launch, Listing
  <2> HIDE DEF p, w
  <2>7. drv' \in [Guests -> Driver] /\ \A h \in Guests : drv'[h].count <= Experiments[h]
    BY <1>2, <2>4, <2>5, <2>6
  <2>8. QED
    BY <1>1, <2>3, <2>5, <2>7, NoClaim DEF OthersLeft
<1>4. CASE ~Launch(g)
  <2>1. /\ UNCHANGED proc
        /\ \E label \in {"list", "stopped", "done"} : drv' = [drv EXCEPT ![g].pc = label]
    BY <1>4 DEF DriverStep, Boot, StopDriver, Return, Finish
  <2>2. drv' \in [Guests -> Driver] /\ \A h \in Guests : drv'[h].count = drv[h].count
    BY <1>2, <2>1 DEF Driver
  <2>3. TypeOK'
    BY <1>1, <1>2, <2>1, <2>2 DEF AccessInv, TypeOK, HostGoesOn, HostInv
  <2>4. \A h \in Guests : GuestInv(h)'
    BY <1>1, <2>1, OtherGuestKept
  <2>5. QED
    BY <1>1, <2>3, <2>4 DEF AccessInv, HostGoesOn
<1>5. QED
  BY <1>3, <1>4

-----------------------------------------------------------------------------
(* The theorems. *)

LEMMA HostStepAccess ==
  ASSUME AccessInv, HostStep \/ UNCHANGED hostVars, UNCHANGED accessVars
  PROVE  AccessInv'
<1>1. HostGoesOn /\ \A d \in DomIds : LeftKept(d)
  BY HostStepGoesOn, UnchangedGoesOn DEF AccessInv
<1>2. TypeOK'
  BY <1>1 DEF AccessInv, TypeOK, HostGoesOn, HostInv, accessVars
<1>3. \A h \in Guests : GuestInv(h)'
  BY <1>1, OtherGuestKept DEF accessVars
<1>4. QED
  BY <1>1, <1>2, <1>3 DEF AccessInv, HostGoesOn

LEMMA NextAccess == AccessInv /\ [Next]_vars => AccessInv'
BY GotoStepAccess, XaInitAccess, XaInitFailsAccess, InjectBitAccess, CheckGuestAccess,
   DiesOfSigpipeAccess, RecordAccess, RestoreDomainAccess, DriverStepAccess, HostStepAccess
   DEF Next, ProcessStep, vars, accessVars

LEMMA InitAccess == Init => AccessInv
<1> SUFFICES ASSUME Init PROVE AccessInv
  OBVIOUS
<1>1. /\ NoDomain \in Domain /\ NoDomain.paused = FALSE /\ NoDomain.left = "gone"
  BY DEF NoDomain, Domain, Life
<1>2. HostInv
  BY <1>1, Constants
     DEF Init, HostInit, HostInv, HostTypeOK, HostFresh, NobodyPauses, ListedIsWhole
<1>3. /\ [pc |-> "boot", past |-> Hogehoge, count |-> 0] \in Driver
      /\ 0 \in 0..MaxForkFails
  BY Constants DEF Driver
<1>4. TypeOK
  BY <1>2, <1>3, OffType, Constants DEF Init, TypeOK, HostInv
<1>5. ASSUME NEW g \in Guests
      PROVE  GuestInv(g)
  <2>1. proc[g] = Off /\ log[g] = <<>>
    BY DEF Init
  <2>2. LinesStand(g)
    BY <2>1 DEF LinesStand
  <2>3. QED
    BY <2>1, <2>2, OffType DEF GuestInv, InitIsEarned, VerdictStands, Injecting, At
<1>6. QED
  BY <1>2, <1>4, <1>5 DEF AccessInv

LEMMA AlwaysAccess == Spec => []AccessInv
BY InitAccess, NextAccess, PTL DEF Spec

(* The variables keep their types; the unsigned ex_count that wraps around  *)
(* comes back to 0 before it is used again (test_random_access.c:60-95).    *)
THEOREM TypeCorrect == Spec => []TypeOK
BY AlwaysAccess, PTL DEF AccessInv

(* A count is one or more real flips of the domain it stands for, whichever *)
(* guest's that is and however often the process has retried                *)
(* (test_random_access.c:84-95 and 155-160).                                *)
THEOREM CountIsRealHolds == Spec => []CountIsReal
<1>1. AccessInv => CountIsReal
  BY DEF AccessInv, GuestInv, LinesStand, CountIsReal
<1>2. QED
  BY <1>1, AlwaysAccess, PTL

(* Where an answering guest answers in time, no domain of the process's own *)
(* guest that the log tells of was up when it was destroyed                 *)
(* (test_random_access.c:86-91 and 156).                                    *)
THEOREM NoSurvivorLoggedHolds ==
  ASSUME Prompt
  PROVE  Spec => []NoSurvivorLogged
<1>1. AccessInv => NoSurvivorLogged
  BY DEF AccessInv, GuestInv, LinesStand, NoSurvivorLogged, Settled
<1>2. QED
  BY <1>1, AlwaysAccess, PTL
=============================================================================
