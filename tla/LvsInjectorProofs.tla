-------------------------- MODULE LvsInjectorProofs --------------------------
(***************************************************************************)
(* The timed injector, for every size of memory and pages, every number of *)
(* bits and every timetable.                                               *)
(***************************************************************************)
EXTENDS LvsInjector, FiniteSetTheorems, TLAPS

(* What the first conjunct of CountCoversFlips rests on: the bits of the    *)
(* round under way are the ones attack_count does not tell yet.             *)
RoundFits ==
  /\ flips <= attack_count + i
  /\ pc \in {"init", "inject"} => i < bits_per_once
  /\ pc \in {"init", "sleep", "done"} => i = 0
  /\ pc = "init" => attack_count = 0
  /\ pc \in {"inject", "count"} => attack_count < inject_bits
  /\ attack_count < inject_bits + bits_per_once

DamageFits ==
  /\ IsFiniteSet(damage)
  /\ Cardinality(damage) <= flips
  /\ (flips - Cardinality(damage)) % 2 = 0

(* What FreshRoundsPaced rests on: time_count is one wait for each rest, so *)
(* that the rest to come ends no earlier than all before it together.       *)
Timetable ==
  /\ IsFiniteSet(ht)
  /\ time_count = wait_sec_between_inject * Rested
  /\ FreshRoundsPaced

LvsInv == TypeOK /\ RoundFits /\ DamageFits /\ VgaIntact /\ Timetable

-----------------------------------------------------------------------------
(* Addresses and pages. *)

LEMMA DivMod ==
  ASSUME NEW a \in Nat, NEW p \in Nat, p > 0
  PROVE  /\ a \div p \in Nat /\ a % p \in 0..(p - 1)
         /\ a = p * (a \div p) + (a % p)
<1>1. a \div p \in Int /\ a \div p >= 0
  OBVIOUS
<1>2. a % p \in 0..(p - 1)
  OBVIOUS
<1>3. a = p * (a \div p) + (a % p)
  OBVIOUS
<1>4. QED
  BY <1>1, <1>2, <1>3

(* The first byte of a page is not past its other bytes, and not in the VGA *)
(* area unless they are, as the area ends with a page.                      *)
LEMMA FirstByteOutside ==
  ASSUME NEW a \in Addrs, ~HitsVga(a)
  PROVE  FirstByte(a) \in Addrs /\ ~HitsVga(FirstByte(a))
<1> DEFINE q == a \div PageSize
           o == a % PageSize
           e == VgaEnd \div PageSize
<1>1. /\ a \in Nat /\ PageSize \in Nat /\ PageSize > 0 /\ MEMORY_SIZE \in Nat
      /\ VgaFirst \in Nat /\ VgaEnd \in Nat /\ VgaEnd % PageSize = 0
  BY LvsAssumption DEF Addrs
<1>2. q \in Nat /\ o \in 0..(PageSize - 1) /\ a = PageSize * q + o
  BY <1>1, DivMod
<1>3. e \in Nat /\ VgaEnd = PageSize * e
  BY <1>1, DivMod
<1> HIDE DEF q, o, e
<1>4. PageSize * q \in Nat /\ PageSize * q <= a /\ a < PageSize * q + PageSize
  <2>1. \A x, y \in Nat : x * y \in Nat
    OBVIOUS
  <2>2. PageSize * q \in Nat
    BY <1>1, <1>2, <2>1
  <2>3. QED
    BY <1>1, <1>2, <2>2
<1>5. FirstByte(a) = PageSize * q
  BY DEF FirstByte, q
<1>6. CASE a < VgaFirst
  BY <1>1, <1>4, <1>5, <1>6 DEF HitsVga, Addrs
<1>7. CASE VgaEnd <= a
  <2>1. PageSize * e < PageSize * (q + 1)
    BY <1>1, <1>2, <1>3, <1>4, <1>7
  <2>2. e < q + 1
    BY <1>1, <1>2, <1>3, <2>1
  <2>3. PageSize * e <= PageSize * q
    BY <1>1, <1>2, <1>3, <2>2
  <2>4. QED
    BY <1>1, <1>3, <1>4, <1>5, <2>3 DEF HitsVga, Addrs
<1>8. QED
  BY <1>1, <1>6, <1>7 DEF HitsVga

(* A flip puts one more bit wrong or one right. *)
LEMMA FlipDamage ==
  ASSUME DamageFits, flips \in Nat, NEW a, NEW digit, Flip(a, digit), flips' = flips + 1
  PROVE  DamageFits'
<1> DEFINE bit == <<FirstByte(a), digit>>
<1>1. IsFiniteSet(damage) /\ Cardinality(damage) \in Nat
  BY FS_CardinalityType DEF DamageFits
<1>2. damage' = (damage \ {bit}) \cup ({bit} \ damage)
  BY DEF Flip, SymDiff
<1> HIDE DEF bit
<1>3. CASE bit \in damage
  <2>1. damage' = damage \ {bit}
    BY <1>2, <1>3
  <2>2. IsFiniteSet(damage') /\ Cardinality(damage') = Cardinality(damage) - 1
    BY <1>1, <1>3, <2>1, FS_RemoveElement
  <2>3. QED
    BY <1>1, <2>2 DEF DamageFits
<1>4. CASE bit \notin damage
  <2>1. damage' = damage \cup {bit}
    BY <1>2, <1>4
  <2>2. IsFiniteSet(damage') /\ Cardinality(damage') = Cardinality(damage) + 1
    BY <1>1, <1>4, <2>1, FS_AddElement
  <2>3. QED
    BY <1>1, <2>2 DEF DamageFits
<1>5. QED
  BY <1>3, <1>4

-----------------------------------------------------------------------------
(* Rounds and their rests. *)

(* A step that neither touches the hash table nor begins or ends a rest     *)
(* leaves the timetable, unless the clock goes back.                        *)
LEMMA RestGoesOn ==
  ASSUME TypeOK, Timetable, UNCHANGED <<ht, time_count>>,
         elapsed' \in Nat, elapsed <= elapsed', pc = "sleep" <=> pc' = "sleep"
  PROVE  Timetable'
<1>1. Cardinality(ht) \in Nat /\ elapsed \in Nat /\ wait_sec_between_inject \in Nat
  BY FS_CardinalityType, LvsAssumption DEF TypeOK, Timetable
<1>2. Rested' = Rested /\ Rested \in Int
  BY <1>1 DEF Rested
<1>3. wait_sec_between_inject * (Rested - 1) \in Int
  BY <1>1, <1>2
<1>4. FreshRoundsPaced'
  BY <1>1, <1>2, <1>3 DEF Timetable, FreshRoundsPaced
<1>5. QED
  BY <1>2, <1>4 DEF Timetable

(* A fresh address makes a rest, which is not over yet; an address of the   *)
(* hash table makes none.                                                   *)
LEMMA CountRoundRests ==
  ASSUME TypeOK, Timetable, CountRound
  PROVE  Timetable'
<1>1. CASE addr \in ht
  BY <1>1, RestGoesOn DEF CountRound, NextRound, TypeOK
<1>2. CASE addr \notin ht
  <2>1. IsFiniteSet(ht') /\ Cardinality(ht') = Cardinality(ht) + 1
    BY <1>2, FS_AddElement DEF CountRound, Timetable
  <2>2. Cardinality(ht) \in Nat
    BY FS_CardinalityType DEF Timetable
  <2>3. Rested' = Rested
    BY <1>2, <2>1, <2>2 DEF CountRound, Rested
  <2>4. QED
    BY <2>1, <2>3 DEF CountRound, Timetable, FreshRoundsPaced
<1>3. QED
  BY <1>1, <1>2

(* The end of a rest: all waits until now have passed, and one is added.    *)
LEMMA WakeRests ==
  ASSUME TypeOK, Timetable, Wake
  PROVE  Timetable'
<1>1. Cardinality(ht) \in Nat /\ elapsed \in Nat /\ wait_sec_between_inject \in Nat
  BY FS_CardinalityType, LvsAssumption DEF TypeOK, Timetable
<1>2. pc = "sleep" /\ pc' # "sleep" /\ UNCHANGED <<ht, elapsed>>
  BY DEF Wake, NextRound
<1>3. Rested \in Int /\ Rested' = Rested + 1
  BY <1>1, <1>2 DEF Rested
<1>4. time_count' = wait_sec_between_inject * Rested'
  BY <1>1, <1>3 DEF Wake, Timetable
<1>5. wait_sec_between_inject * Rested <= elapsed'
  BY <1>1, <1>2, <1>3 DEF Wake, Time, Timetable
<1>6. Rested' - 1 = Rested
  BY <1>3
<1>7. FreshRoundsPaced'
  BY <1>5, <1>6 DEF FreshRoundsPaced
<1>8. QED
  BY <1>2, <1>4, <1>7 DEF Timetable

-----------------------------------------------------------------------------
(* The invariant. *)

LEMMA InitLvs == Init => LvsInv
<1> SUFFICES ASSUME Init PROVE LvsInv
  OBVIOUS
<1>1. IsFiniteSet({}) /\ Cardinality({}) = 0
  BY FS_EmptySet
<1>2. Rested = 0
  BY <1>1 DEF Init, Rested
<1>3. Timetable
  BY <1>1, <1>2, LvsAssumption DEF Init, Timetable, FreshRoundsPaced
<1>4. QED
  BY <1>1, <1>3, LvsAssumption
     DEF Init, LvsInv, TypeOK, RoundFits, DamageFits, VgaIntact

LEMMA InjectBitLvs ==
  ASSUME LvsInv, InjectBit
  PROVE  LvsInv'
<1>1. PICK digit \in Digits : Flip(addr', digit)
  BY DEF InjectBit
<1>2. addr' \in Addrs /\ ~HitsVga(addr')
  BY DEF InjectBit, Turn
<1>3. FirstByte(addr') \in Addrs /\ ~HitsVga(FirstByte(addr'))
  BY <1>2, FirstByteOutside
<1>4. damage' \subseteq damage \cup {<<FirstByte(addr'), digit>>}
  BY <1>1 DEF Flip, SymDiff
<1>5. DamageFits'
  BY <1>1, FlipDamage DEF LvsInv, TypeOK, InjectBit
<1>6. VgaIntact'
  BY <1>3, <1>4 DEF LvsInv, VgaIntact, HitsVga
<1>7. damage' \subseteq Addrs \X Digits
  BY <1>3, <1>4 DEF LvsInv, TypeOK
<1>8. Timetable'
  BY RestGoesOn DEF LvsInv, TypeOK, InjectBit, Turn
<1>9. QED
  BY <1>5, <1>6, <1>7, <1>8, LvsAssumption
     DEF LvsInv, TypeOK, RoundFits, InjectBit, Turn, LastBit

LEMMA NextLvs ==
  ASSUME LvsInv, [Next]_vars
  PROVE  LvsInv'
<1> USE LvsAssumption DEF LvsInv, TypeOK
<1>1. CASE XaInit
  <2>1. UNCHANGED <<i, attack_count, flips, damage, ht, time_count, elapsed>>
    BY <1>1 DEF XaInit
  <2>2. Timetable'
    BY <1>1, <2>1, RestGoesOn DEF XaInit
  <2>3. DamageFits' /\ VgaIntact'
    BY <2>1 DEF DamageFits, VgaIntact, HitsVga
  <2>4. attack_count = 0 /\ i = 0
    BY <1>1 DEF XaInit, RoundFits
  <2>5. TypeOK' /\ RoundFits'
    BY <1>1, <2>1, <2>4 DEF XaInit, RoundFits
  <2>6. QED
    BY <2>2, <2>5, <2>3
<1>2. CASE PassVga \/ InjectFails
  <2>1. UNCHANGED <<flips, damage, ht, time_count, elapsed>>
    BY <1>2 DEF PassVga, InjectFails, Turn
  <2>2. Timetable'
    BY <1>2, <2>1, RestGoesOn DEF PassVga, InjectFails, Turn
  <2>3. DamageFits' /\ VgaIntact'
    BY <2>1 DEF DamageFits, VgaIntact, HitsVga
  <2>4. TypeOK' /\ RoundFits'
    BY <1>2 DEF PassVga, InjectFails, Turn, LastBit, RoundFits
  <2>5. QED
    BY <2>3, <2>4, <2>2
<1>3. CASE InjectBit
  BY <1>3, InjectBitLvs
<1>4. CASE CountRound
  <2>1. UNCHANGED <<flips, damage>>
    BY <1>4 DEF CountRound
  <2>2. DamageFits' /\ VgaIntact' /\ Timetable'
    BY <1>4, <2>1, CountRoundRests DEF DamageFits, VgaIntact, HitsVga
  <2>3. attack_count' = attack_count + bits_per_once /\ i' = 0
    BY <1>4 DEF CountRound, NextRound, RoundBits
  <2>4. RoundFits'
    BY <1>4, <2>1, <2>3 DEF CountRound, NextRound, RoundFits
  <2>5. TypeOK'
    BY <1>4, <2>3 DEF CountRound, NextRound
  <2>6. QED
    BY <2>2, <2>4, <2>5
<1>5. CASE Wake
  <2>1. Timetable'
    BY <1>5, WakeRests
  <2>2. QED
    BY <1>5, <2>1 DEF Wake, NextRound, RoundFits, DamageFits, VgaIntact, HitsVga
<1>6. CASE Finish \/ Tick \/ GuestGone \/ UNCHANGED vars
  <2>1. UNCHANGED <<i, attack_count, flips, damage, ht, time_count>>
    BY <1>6 DEF Finish, Tick, GuestGone, vars
  <2>2. DamageFits' /\ VgaIntact'
    BY <2>1 DEF DamageFits, VgaIntact, HitsVga
  <2>3. RoundFits'
    BY <1>6, <2>1 DEF Finish, Tick, GuestGone, vars, RoundFits
  <2>4. Timetable'
    BY <1>6, <2>1, RestGoesOn DEF Finish, Tick, GuestGone, vars
  <2>5. TypeOK'
    <3>1. CASE Tick
      <4>1. MaxElapsed \in Nat /\ elapsed' \in 0..MaxElapsed
        BY <3>1 DEF Tick
      <4>2. QED
        BY <3>1, <4>1 DEF Tick
    <3>2. CASE Finish \/ GuestGone \/ UNCHANGED vars
      BY <3>2 DEF Finish, GuestGone, vars
    <3>3. QED
      BY <1>6, <3>1, <3>2
  <2>6. QED
    BY <2>2, <2>3, <2>5, <2>4
<1>7. QED
  BY <1>1, <1>2, <1>3, <1>4, <1>5, <1>6 DEF Next, ProcessStep

LEMMA AlwaysLvs == Spec => []LvsInv
<1>1. Init => LvsInv
  BY InitLvs
<1>2. LvsInv /\ [Next]_vars => LvsInv'
  BY NextLvs
<1>3. QED
  BY <1>1, <1>2, PTL DEF Spec

(* The variables of the timed injector keep their types, for any memory.    *)
THEOREM TypeCorrect == Spec => []TypeOK
BY AlwaysLvs, PTL DEF LvsInv

(* A fresh address is paid for with a wait, at any speed of the process     *)
(* and for any number of rounds that go on without a rest                   *)
(* (experiment_once_lvs.c:111-126).                                         *)
THEOREM FreshRoundsPacedHolds == Spec => []FreshRoundsPaced
BY AlwaysLvs, PTL DEF LvsInv, Timetable

(* attack_count is a bound of the flips and of the damage, for any number   *)
(* of bits and any sequence of addresses (experiment_once_lvs.c:87-118).    *)
THEOREM CountCoversFlipsHolds == Spec => []CountCoversFlips
<1>1. LvsInv => CountCoversFlips
  BY DEF LvsInv, RoundFits, DamageFits, CountCoversFlips
<1>2. QED
  BY <1>1, AlwaysLvs, PTL

(* No bit of the VGA area is flipped, on condition that the area ends where *)
(* a page ends (experiment_once_lvs.c:92-98, experiment_base.c:47-53).      *)
THEOREM VgaIntactHolds == Spec => []VgaIntact
BY AlwaysLvs, PTL DEF LvsInv
=============================================================================
