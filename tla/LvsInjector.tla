----------------------------- MODULE LvsInjector -----------------------------
(***************************************************************************)
(* experiment_once_lvs.c: rounds of bits_per_once bit flips, spread over   *)
(* time by a clock, until attack_count has reached inject_bits.            *)
(* check_overhead.c is the same program under another name, but for its    *)
(* usage text, and does the same.                                          *)
(***************************************************************************)
EXTENDS Integers, FiniteSetsExt

CONSTANTS
  MEMORY_SIZE,
  PageSize,                 \* page_size of libxenaccess
  VgaFirst, VgaEnd,         \* the VGA area and the first address after it
  Digits,                   \* the places of the bits in a byte
  inject_bits,
  bits_per_once,
  wait_sec_between_inject,
  MaxElapsed                \* bound: the time the clock may reach

ASSUME LvsAssumption ==
  /\ {MEMORY_SIZE, PageSize} \subseteq Nat \ {0}
  /\ {VgaFirst, VgaEnd} \subseteq Nat
  /\ VgaEnd % PageSize = 0
  /\ IsFiniteSet(Digits)
  /\ {inject_bits, wait_sec_between_inject, MaxElapsed} \subseteq Nat
  /\ bits_per_once \in Nat \ {0}

VARIABLES
  pc,             \* the place in main
  i,              \* the bits of this round so far
  addr,           \* the address drawn last
  attack_count,
  flips,          \* how many bits were really flipped
  damage,         \* the bits of the guest's memory that are wrong by that
  ht,             \* the addresses in the hash table
  time_count,     \* when the next round may go on
  elapsed,        \* get_sec() - start_sec, in seconds
  mapped          \* the guest's pages can be mapped

vars == <<pc, i, addr, attack_count, flips, damage, ht, time_count, elapsed, mapped>>

Addrs == 0..(MEMORY_SIZE - 1)

TypeOK ==
  /\ pc \in {"init", "inject", "count", "sleep", "done", "exited"}
  /\ i \in 0..bits_per_once
  /\ addr \in Addrs
  /\ damage \subseteq Addrs \X Digits
  /\ {attack_count, flips, time_count} \subseteq Nat
  /\ ht \subseteq Addrs
  /\ elapsed \in 0..MaxElapsed
  /\ mapped \in BOOLEAN

(* addr is uninitialised. *)
Init ==
  /\ pc = "init" /\ mapped \in BOOLEAN /\ addr \in Addrs
  /\ i = 0 /\ attack_count = 0 /\ flips = 0 /\ damage = {} /\ ht = {}
  /\ time_count = 0 /\ elapsed = 0

XaInit ==
  /\ pc = "init"
  /\ pc' = IF ~mapped THEN "exited" ELSE IF inject_bits > 0 THEN "inject" ELSE "done"
  /\ UNCHANGED <<i, addr, attack_count, flips, damage, ht, time_count, elapsed, mapped>>

(* The slip of leaving the last address of the area open to attack. *)
HitsVgaButLast(a) == VgaFirst <= a /\ a + 1 < VgaEnd

HitsVga(a) == VgaFirst <= a /\ a < VgaEnd

(* xa_access_physical_address maps the page of addr; where in it addr lies, *)
(* it says in offset, which inject_bit does not look at.                    *)
FirstByte(a) == PageSize * (a \div PageSize)

(* The slip of |= for ^=. *)
Spoil(a, digit) == damage' = damage \cup {<<FirstByte(a), digit>>}

(* A second flip of a bit puts it right again. *)
Flip(a, digit) == damage' = SymDiff(damage, {<<FirstByte(a), digit>>})

(* The slip of i <= bits_per_once. *)
PastLastBit == i = bits_per_once

LastBit == i + 1 = bits_per_once

Turn == /\ pc = "inject"
        /\ addr' \in Addrs
        /\ i' = i + 1
        /\ UNCHANGED <<attack_count, ht, time_count, elapsed, mapped>>

(* An address in the VGA area uses up a turn of the for loop. *)
PassVga ==
  /\ Turn
  /\ HitsVga(addr')
  /\ pc' = IF LastBit THEN "count" ELSE "inject"
  /\ UNCHANGED <<flips, damage>>

InjectBit ==
  /\ Turn
  /\ ~HitsVga(addr') /\ mapped
  /\ \E digit \in Digits : Flip(addr', digit)
  /\ flips' = flips + 1
  /\ pc' = IF LastBit THEN "count" ELSE "inject"

(* A page that cannot be mapped ends the for loop only.  One page of a      *)
(* living guest may be such, and all are once its domain is gone.           *)
InjectFails ==
  /\ Turn
  /\ ~HitsVga(addr')
  /\ pc' = "count"
  /\ UNCHANGED <<flips, damage>>

(* The while loop's condition, with the round's bits added. *)
NextRound ==
  /\ i' = 0
  /\ pc' = IF attack_count' < inject_bits THEN "inject" ELSE "done"

(* The slip of adding up after the look into the hash table. *)
RoundIfFresh == IF addr \in ht THEN 0 ELSE bits_per_once

RoundBits == bits_per_once

(* The whole round is added, whatever became of it; an address of the hash  *)
(* table goes on to the next round at once.                                 *)
CountRound ==
  /\ pc = "count"
  /\ attack_count' = attack_count + RoundBits
  /\ \/ addr \in ht /\ NextRound /\ UNCHANGED ht
     \/ addr \notin ht /\ ht' = ht \cup {addr} /\ pc' = "sleep" /\ i' = 0
  /\ UNCHANGED <<addr, flips, damage, time_count, elapsed, mapped>>

(* The slip of waiting for wait_sec_between_inject where time_count is      *)
(* meant, which only keeps the second round from starting at once.          *)
TimeOfOneRound == elapsed >= wait_sec_between_inject

Time == elapsed >= time_count

Wake ==
  /\ pc = "sleep"
  /\ Time
  /\ time_count' = time_count + wait_sec_between_inject
  /\ UNCHANGED attack_count
  /\ NextRound
  /\ UNCHANGED <<addr, flips, damage, ht, elapsed, mapped>>

(* cleanup and the ends of log and hash table.  rc and is_dead are what     *)
(* they were set to before the loop, so nothing is written to the log.      *)
Finish ==
  /\ pc = "done"
  /\ pc' = "exited"
  /\ UNCHANGED <<i, addr, attack_count, flips, damage, ht, time_count, elapsed, mapped>>

(* The clock counts from start_sec, the end of the initialisation.          *)
Running == pc \notin {"init", "exited"}

(* A second passes; the process may have slept through it (it may be off    *)
(* its CPU for any time).                                                   *)
Tick ==
  /\ Running
  /\ elapsed < MaxElapsed
  /\ elapsed' = elapsed + 1
  /\ UNCHANGED <<pc, i, addr, attack_count, flips, damage, ht, time_count, mapped>>

(* The guest's domain goes away. *)
GuestGone ==
  /\ Running /\ mapped
  /\ mapped' = FALSE
  /\ UNCHANGED <<pc, i, addr, attack_count, flips, damage, ht, time_count, elapsed>>

ProcessStep ==
  \/ XaInit \/ PassVga \/ InjectBit \/ InjectFails
  \/ CountRound \/ Wake \/ Finish

Next == ProcessStep \/ Tick \/ GuestGone

Spec == Init /\ [][Next]_vars

-----------------------------------------------------------------------------

(* The rounds that have rested: each fresh address makes one rest.          *)
Rested == Cardinality(ht) - (IF pc = "sleep" THEN 1 ELSE 0)

(* The pace the code keeps: n rounds with a fresh last address take n - 1   *)
(* waits of wall clock time, however late the process woke up in between    *)
(* and however many rounds went on without a rest.  It is less than line    *)
(* 120 announces, "at least, sleep over wait_sec ... sec": a round that     *)
(* ends with an address of the hash table does not wait for the next one    *)
(* (experiment_once_lvs.c:111-126).                                         *)
FreshRoundsPaced == wait_sec_between_inject * (Rested - 1) <= elapsed

(* attack_count is what the result is drawn over: it is never less than the *)
(* bits really flipped and passes inject_bits by less than one round.  Of   *)
(* the flips an even number has been undone by others, since each of them   *)
(* hits the first byte of its page and the hash table knows addresses only  *)
(* (experiment_once_lvs.c:87-118, experiment_base.c:43-57).                 *)
CountCoversFlips ==
  /\ flips <= attack_count + i
  /\ attack_count < inject_bits + bits_per_once
  /\ Cardinality(damage) <= flips
  /\ (flips - Cardinality(damage)) % 2 = 0

(* The VGA area is never hit, though the program looks at the address drawn *)
(* and the bit is flipped elsewhere in its page                             *)
(* (experiment_once_lvs.c:92-98, experiment_base.c:47-53).                  *)
VgaIntact == \A bit \in damage : ~HitsVga(bit[1])

(* The program comes to its end.                                            *)
Ends == <>(pc = "exited")

FairSpec == Spec /\ WF_vars(ProcessStep) /\ WF_vars(Tick)
=============================================================================
