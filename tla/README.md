# Verification of the fault injectors

`inject/` holds a set of small programs that flip bits in the memory of Xen guests, decide
whether the guest died of it, and log how many flips that took. A campaign runs for days,
with one driver script per guest and all guests on one host. Its only result is a log of
numbers, so what matters is that each number means what it is taken to mean. This directory
holds TLA+ models of the programs that produce the numbers, TLC configurations that check
them on small instances, and proofs checked by TLAPS.

## The system

| component | source | state | operations |
|---|---|---|---|
| driver | `experiment_for_parallel_flex.sh` | `dom_id_past`, loop counters | boot the guest, look its id up, start a run, stop |
| run | `experiment_once.c` | `dom_id`, `attack_count`, `rc`, `is_init`, `is_dead`, the hash table | init, pause, inject, check, unpause, destroy, log, restore; jumps to `create_guest_again` and `re_destroy` |
| base library | `experiment_base.c` | the child process of a fork | `init`, `inject_bit`, `is_guest_dead`, `cleanup`, destroy, restore |
| heart beat | `experiment_base.c`, `tcp_util.c` | descriptors, the connection | connect, send, receive with timeouts, close |
| timed injector | `experiment_once_lvs.c` | `attack_count`, `time_count`, hash table, the guest's memory | rounds of flips against a clock |
| request analyzer | `document_req/request_analyzer.rb` | three counters and `current_thread_count` under a mutex | a thread per request, one log line per second |
| old pausing campaign | `random_with_pause.c`, `experiment.sh` | `dom_id`, `current_bits`, `ex_count` | slices of bits, a process per start id |
| old parallel campaign | `test_random_access.c`, `experiment_for_parallel.sh`, `experiment_master.sh` | as the run and the driver | a failed init is retried with the next id |
| page injector | `from_head_access.c`, `file_util.c` | `dom_id`, `addr`, `attack_count`, `fp` | invert page after page until the guest dies, go on with the next id |
| host (external) | Xen, `xm`, libxc, the guests | the domains | restore, destroy, pause, getinfo; guests hang, crash, go |

How they interact: a driver starts one run at a time and waits for it. Runs and drivers of
different guests share nothing but the host. The host is a lot, though: domain ids come from
one counter, `xc_domain_getinfo(id)` describes the first domain whose id is *at least* `id`,
`xm` looks a domain up by its name, and the exit status of `xm` is never looked at. The
request analyzer and the timed injector run side by side without talking to each other.

What is hard to get right, and to test:

- every step of a run is a call to the host, and between two of them guests crash, domains
  go and other runs act (`NoSurvivorLogged`, `PausedHasPauser`);
- a failed `fork` jumps back over steps already taken (`LinesPerRun`);
- a failed `xm` is not noticed; only `dom_id_past` keeps a driver from attacking the same
  domain twice (`FreshVictim`, `CountIsTotalDamage`, `KeepsLedger`);
- two backward jumps depend on the host, one of them on the other guests' domains too
  (`EndsUnlessMisled`);
- the timed injector waits for a clock that runs on while it is late, and some rounds skip
  their wait (`FreshRoundsPaced`);
- the older programs compute the next domain id (`SliceStartsFresh`, `NewIdIsDomId`);
- the verdict on a guest is made of ten calls, each with its own way of failing
  (`KeepsPromise`, `Returns`, `LeakBound`, `NeverOutOfFds`);
- the byte that is hit is not the one at the address that was drawn and looked up
  (`CountCoversFlips`, `VgaIntact`);
- the page injector counts on xend to restart the guest in time (`LinesCoverDamage`,
  `ProgramEnds`);
- the analyzer's main loop logs and resets counters that threads are changing (`Accounting`,
  `KeepsTally`, `ThreadCount`, `AllReported`).

`PROJECT.json` lists every hazard at its line, with the properties that are about it; where
no property is, a note says why.

## The modules

| module | models | composed from |
|---|---|---|
| `XenHost` | the host: domains, ids, `xm`, libxc, what guests do by themselves; and the calls of `experiment_base.c` into it | |
| `ExperimentOnce` | one run per guest | extends `XenHost` |
| `Campaign` | one driver per guest over the runs; the properties of a campaign; implements `InjectionLedger` | extends `ExperimentOnce`, instantiates `InjectionLedger` |
| `InjectionLedger` | what a campaign promises: each entry closes the book on one domain | |
| `MCCampaign` | values of constants and symmetry for TLC | extends `Campaign` |
| `CampaignProofs` | types, the number of lines, what a logged number means, and that `Campaign` implements `InjectionLedger`, proved | extends `Campaign` |
| `CampaignGuestProofs` | pauses are taken back, and no living guest is logged, proved | extends `CampaignProofs` |
| `GuestCheck` | what the experiments expect of `is_guest_dead` | |
| `Heartbeat` | `is_guest_dead` and `tcp_util.c` call by call; implements `GuestCheck` | instantiates `GuestCheck` |
| `HeartbeatProofs` | descriptors and the refinement, proved | extends `Heartbeat` |
| `RequestTally` | what `request.log` promises | |
| `RequestAnalyzer`, `RequestAnalyzerProofs` | the analyzer, which implements `RequestTally`; and theorems about it | instantiates `RequestTally` |
| `LvsInjector`, `LvsInjectorProofs` | the timed injector over the guest's memory, and theorems about it | |
| `RandomWithPause`, `RandomWithPauseProofs` | the old pausing program and `experiment.sh`, and theorems about it | extends `XenHost` |
| `TestRandomAccess`, `TestRandomAccessProofs`, `MCTestRandomAccess` | the old parallel program and its driver; theorems about it; values for TLC | extends `XenHost` |
| `FromHeadAccess`, `FromHeadAccessProofs` | the page injector and xend, and theorems about it | extends `XenHost` |

`PROJECT.json`, `map`, gives the lines of every definition.

### XenHost

`dom` maps each id ever allocated to a record that stays after the domain's death: owner,
life, paused, and two fields the programs cannot see: `flips`, the bits the domain received,
and `left`, the life `xm destroy` ended. Both exist so that a property can compare a log
line with what really happened. `up` guests answer the heart beat, `hung` ones do not,
`crashed` and `dying` ones are seen by `xc_domain_getinfo`, `gone` ones by nobody. `Named`
is what `xm` finds, `InfoOf` what libxc finds; they disagree on a dying domain. A guest may
hang or crash at any moment it is not paused; whether a flip was the cause is not modelled,
since no program can tell.

`XmRestore` and `XmDestroy` may do nothing: they stand for fork, exec and wait, and the
callers only see whether fork worked. `IsGuestDead` gives the verdicts the function may
return. The constant `Prompt` says whether an answering guest always answers in time;
without it verdict 2 may come of any living guest. One step is enough for the ten calls of
`Heartbeat`: verdict 0 or 1 is given for the moment at which the guest answered or
`xc_domain_getinfo` looked, and a guest that crashes between the two calls and so fails the
heart beat is one that hung first and crashed after the verdict.

### ExperimentOnce and Campaign

`run[g].pc` names the next call of guest `g`'s process; a process is `off` when it has
exited. All between two calls is local. The labels of the code are in `pc`:
`create_guest_again` and `re_destroy` are both `recover`. Fidelity worth knowing about:

- `dom_id++` is in the call of `init`: pause and unpause go to `DomId = target + 1`.
- `attack_count` and `rc` are uninitialised until `init` has worked (`Junk`).
- An address hit before goes on without a check of the guest (`seen`). A draw in the VGA
  hole changes nothing and is a stuttering step.
- `is_guest_dead` is one step here; `Heartbeat` splits it.
- A page that cannot be mapped ends the injection. `Holes` says whether a living guest has
  such pages: then `StopInjecting` may come at any time. The proofs hold either way; the
  passing runs of the campaign leave holes out, as they multiply the states and only make a
  quota end early, and `survivor` has them. The other injectors' models always have them.
- a SIGPIPE in the heart beat, and a second `xa_destroy`, may end the process.
- the log is a sequence of records; the file has `count` only, `dom` tells the properties
  whose count it is.

In `Campaign`, `Contains` is the relation `grep` works with, and `LaunchUnlisted` is what `[
-n $dom_id_new ]` makes of an empty id: the arguments move one place to the front, so that a
with_pause run takes the first octet of the ip address for a domain id (`Octet`) and the
wait for the number of bits (`WaitSecs`).

`InjectionLedger` says what this is for: a guest is restored into one domain after the
other, only the latest is ever hit, and never again once the ledger has an entry about it;
an entry tells all the hits of its domain. `Campaign` implements it with `owner` and
`damage` taken from `dom`, and `ledger` the set of all lines of all logs (`Entries`). Lines
with an uninitialised count are left out, and a line written twice is one entry. Everything
else a campaign does - looking up, pausing, destroying, failing - is a stutter of the
ledger.

### Heartbeat

One action per library call, with the number of descriptors taken or given back. `reply` is
what came back, `seen` the lives the guest has had since the call began; `reliable`, fixed
at the start, says whether the network and the process are free of failures. `GuestCheck`
promises that the verdict fits the guest as it was at some moment between question and
answer: 0 if it was up then, 1 if it was lost, 2 if it was not well, or if the network or
the process may fail. `Heartbeat` implements it with the refinement `asked <- pc is inside
the call`.

### RequestAnalyzer

`main` and `stage` say where the main loop and each thread are. Every block under the mutex
is one action but the main loop's, which is two, `Puts` and `Reset`, so that the mutex has
something to protect.

`RequestTally` says what the log is for: three sets of requests grow, a request is never
both a page and an error, and a line brings the sums of all three columns to the sizes the
sets have at one and the same moment. `RequestAnalyzer` implements it with `counted` the
sets of threads that have passed their counters (`CountedIn`) and `told` the sums of what
has been written (`reported`). A line is written at `Puts`; the reset after it, `Enter`,
`Leave` and the request itself are stutters. A thread that counted between `Puts` and
`Reset`, or a counter that is not reset, would break it.

### LvsInjector

One action for each turn of the `for` loop (`PassVga`, `InjectBit`, `InjectFails`), for the
rest of the `while` loop and for the wake-up; the clock ticks whenever it likes. The guest's
memory is there: `damage` is the set of bits that are wrong, as pairs of an address and a
place in the byte. `inject_bit` maps the page of the address it is given and flips a bit of
the page's first byte (`FirstByte`), a flip of a wrong bit puts it right (`Flip` is a
symmetric difference), and both the VGA area and the hash table go by the address that was
drawn.

A round ends in one of two ways: with a fresh address it rests until `time_count` and adds
one wait to it, with an address of the hash table it goes on at once. Each fresh address is
therefore one rest, and `Rested` counts the rests that are over. `FreshRoundsPaced` bounds
them by the time that has really passed: a program that never waits, or always waits for the
same moment, would break it. What line 120 of the code announces, a wait for every round, is more
and is not kept.

`check_overhead.c` is a copy of `experiment_once_lvs.c` with another usage line, which the
Makefile does not build; it does the same.

### RandomWithPause, TestRandomAccess, FromHeadAccess

The older programs compute the guest's next id instead of asking for it. They share
`XenHost`; each has its own way of going wrong when the ids do not fit:
`random_with_pause.c` leaves a dead guest where it is and spends the other slices on ids
that do not exist; `test_random_access.c` tries the next id, which may be another guest's;
`from_head_access.c` restores nothing and leaves it to xend (`XendRestarts`, at any time or
never) to have the guest under the next id when its sleep is over. `fp` says whether its log
could be opened; nobody looks, and the first death ends the process if not.

## The runs

Passing runs:

| run | configuration | shows |
|---|---|---|
| `simple_two` | 2 quick drivers, 2 runs each, 3 ids, symmetric | between two drivers on one host: the campaign implements its ledger (`KeepsLedger`), a run starts on an intact domain (`FreshVictim`), and no survivor is logged (`NoSurvivorLogged`) |
| `pause_one` | 1 with_pause driver, 3 slices, 4 ids, 1 failing fork, late answers, fairness | counts are whole although arguments may be shifted, each run starts on an intact domain, no line is repeated without cause; alone on the host the driver ends (`EndsUnlessMisled`), over both backward jumps |
| `pause_two` | 2 with_pause drivers, 1 run each, 3 ids, one name inside the other, fairness | runs that attack and pause each other's domains leave none paused (`PausedHasPauser`); a driver ends unless the other guest's domain misleads its run again and again (`EndsUnlessMisled`) |
| `guest_check` | 3 retries, 9 descriptors, a reliable network or not, fairness | `Heartbeat` implements `GuestCheck`, returns, and never fails for want of a descriptor it leaked |
| `requests` | 3 threads, limit 2, the log up to 2 periods late, fairness | each request is counted once, in the right columns, and gets into the log; each line belongs to one moment (`KeepsTally`) |
| `lvs_rounds` | 5 bits in rounds of 2, 3 pages of 2 bytes, the middle one the VGA area, 2 bits in a byte, 6 s, fairness | pace (`FreshRoundsPaced`), count and damage (`CountCoversFlips`), `VgaIntact`, end |
| `slices` | 2 processes of 2 slices, a failing fork, late answers, fairness | the old pausing program pauses the right domain, leaves none paused, starts each slice on an intact one, and ends |
| `access` | 1 guest with 2 experiments beside one that only runs, 2 addresses, a failing fork, 3 inits | the old parallel program's lines count real flips, and no domain of its own guest was alive when it was destroyed |
| `pages` | 3 experiments of 3 pages, any first id of 4, the log opened or not, fairness | the page injector logs no living guest, counts no domain twice or short, and ends |

The bounds. `MaxDom` is 4 ids (3 with two drivers: both boots and one restore). Ids
are scarce so that a host that cannot restore is part of every instance; a restore may do
nothing anyway, so the limit adds no behaviour that would not be there without it, and the
proofs of `CountIsTotalDamage` and `FreshVictim` need no limit at all. Two guests are enough
for any pair of them to meet; every property of a campaign is about one line, one domain and
the runs that touch it. One address that is hit again takes both branches of the hash table,
in `pause_one`, where the quota grows from one bit to three (`Slide`). `simple_two` and
`pause_two` have a quota of one bit per run, so a hit address is always new there; their
properties are about who hits whom, not about the hash table, and the proofs hold for every
quota. Three runs (`pause_one`) are the fewest in which a domain attacked two runs ago,
which `dom_id_past` has forgotten, could be met again; two let a surviving domain and a
fresh one follow each other. One failing fork (`MaxForkFails`) in `pause_one`
reaches each jump. `access` has 3 ids: the guest's
own, the other guest's next to it, and one to be restored into, so that a retry may hit
each. `pages` has an id for each of its experiments and one more. `Octet` is 172, the first
number of the addresses in `inject/`, and no domain id. Three pages are one before, one
inside and one behind the VGA area; two bytes a page make the drawn address and the one that
is hit differ, and five bits let three flips meet in one byte. Three threads over a limit of
two, with a log up to two periods late (`MaxDue`), let a thread be inside the mutex, one
wait for it and one be created. `MaxElapsed` reaches past the last rest of `LvsInjector`.
`MaxFds` in `Heartbeat` is `Base + MaxRetries + 2`, the smallest number for which the
theorem holds. `MaxInits` (`TestRandomAccess`) caps a retry that may go on for ever; a
capped process simply stands still, and so may the drivers when all have ended, hence
`CHECK_DEADLOCK FALSE` there. `Heartbeat` stops when the process is killed or has used its
retries, and `LvsInjector` when it is done. All other runs check for deadlock: their
programs' ends are explicit steps that change nothing.

Fairness. `pause_one`, `pause_two`: the shell and a process are never stopped for good (weak fairness),
and `xm destroy` does not fail for ever (strong fairness of its working half; without it
`re_destroy` is an endless loop by design). `fork` fails finitely often, as `MaxForkFails`
bounds it: each failure jumps to `create_guest_again`, and a fork that fails for ever holds
a run there for ever. Nothing is assumed of the guests, of `xm restore` or of `ReDestroy`'s
alternative. That is why the property has its escape: the look after a destroy takes the
first domain from the victim's id on, and another guest's domain that is on a CPU each time
it looks (`Misled`) sends the run back to `re_destroy` for ever; TLC shows that behaviour
in `pause_two` for the plain statement that every driver ends. `EndsUnlessMisled` says that this is the
only way. `guest_check`: the process runs on, and an echo
server of a guest that is up answers; a hung guest owes nothing, which is why the timeouts
matter. `requests`: the interpreter runs every thread, and a thread that asks for the mutex
again and again gets it; a request ends by its two timeouts. `lvs_rounds`, `slices`: the
process runs on and, in the first, the clock does. `pages`: the process runs on; nothing is
assumed of xend.

### What the code does not keep

Three runs expect a violation: each shows a statement of the sources the code contradicts.
TLC's trace is the argument.

| run | statement | what happens |
|---|---|---|
| `survivor` | `experiment_once.c:159` "guest dead" | `dom_id++` in the call of `init` makes a run pause the domain after its victim; that one is then logged as dead |
| `unlisted` | `experiment_for_parallel_flex.sh:43` "can't find dom_id" | the unquoted `[ -n $dom_id_new ]` is true for an empty id: a driver without an id goes on |
| `foreign` | `test_random_access.c:161` "we can assume that domain ID of new domain is same as dom_id" | a guest started in between has that id; the retried `init` takes hold of it |

Part of the models, without a run of their own, and worth knowing to who reads the results:

- the retry of `test_random_access.c` (line 89) may attack, and log the death of, another
  guest's domain (`foreign`); the properties of `access` are about the process's own guest
  for that reason;
- `inject_bit` always flips in the first byte of the page, so that two addresses may be one
  byte and a later flip may undo an earlier one;
- `from_head_access.c` may look at a restarted guest in place of the one it killed: the
  death then goes unnoticed until the pages are used up;
- with_pause never pauses its victim, and the retry of `init` looks at the wrong id for the
  same `dom_id++` (`experiment_once.c:67`);
- `grep centos` finds `centos2` too (`experiment_for_parallel_flex.sh:29`); with such names
  counts are mixed;
- with with_pause a late answer logs a living guest; a run whose `init` failed may log an
  uninitialised count, or log twice;
- the analyzer may create more threads than its limit, as they count themselves only when
  they run, and a line of `request.log` may cover two periods;
- `random_with_pause.c` never logs a death: the `break` at line 122 comes before the
  `fprintf` that line 124 announces; and experiment.sh starts its second process one id
  after the first one's start, wherever that ended, so that "we can assume that domain ID of
  new domain is same as dom_id" (line 142) fails there;
- the timed injector does not wait after a round that ended with an address of the hash
  table (`continue` at line 115), though line 120 says "at least, sleep over
  wait_sec_between_inject sec";
- the timed injector flips whole rounds, whatever `inject_bits` says, and its first round
  waits for nothing;
- `experiment_for_parallel.sh` compares with the id a process was started with, so that a
  domain damaged by a retry may be handed out again.

## What is proved

The proofs hold for every value of the constants that satisfies the modules' `ASSUME`s.

- `CampaignProofs!TypeCorrect`: `Spec => []TypeOK`. `TypeOK` is inductive by itself; the
  only non-trivial point is that `launched` stays within its range.
- `CampaignProofs!LinesPerRunHolds`: `Spec => []LinesPerRun`. Not inductive: it needs that a
  driver that is not waiting has no process (`OneProcess`), and that a line is owed only by
  a run between its start and its log (`LinesOwed`: lines written plus the one still owed
  are at most runs plus failed forks).
- `CampaignProofs!CountIsTotalDamageHolds` and `!FreshVictimHolds`, under two conditions:
  `OwnNames` (no guest's name contains another's) and `AddressIsNoId` (if a driver runs
  with_pause, the first number of an ip address is no domain id). Both are needed: without
  the first two drivers share a domain, without the second a shifted argument is taken for
  one. The inductive
  invariant `DamageInv` says that ids from `nextId` on are untouched (`HostFresh`), a run's
  target is its driver's `past` and its guest's own (`TargetIsPast`), a listed domain of a
  guest that received a flip is that driver's `past` (`UsedIsPast`), and so is a listed one
  the log tells of (`LoggedIsPast`), a run that may still inject has no line yet about its
  target (`EarlyIsUnlogged`), and `attack_count` is what the domain received (`CountFits`).
  So when a driver finds an id that is not `past`, that domain is intact and unlogged. Most
  steps are calm - no flip, start or line - and one lemma (`CalmStep`) deals with them;
  `XaInit`, `InjectBit`, `Record` and the launches have their own.
- `CampaignProofs!KeepsLedgerHolds`: `Spec => KeepsLedger` under the same two
  conditions: the whole campaign is a refinement of `InjectionLedger`. On top of `DamageInv`
  it needs that ids below `nextId` have an owner (`KnownIsOwned`), and that a listed domain
  and a run's target are the latest of their guests (`ListedIsLatest`, `TargetIsLatest`); a
  driver that has not booted has no target (`BootHasNoTarget`). A step is then of one of
  four kinds: it restores a guest (`Restores`, the ledger's `Restore`), flips a bit (`Hit`),
  writes a line (`Enter`, or a stutter if the line repeats an entry), or is `Quiet`, which
  the ledger does not see.
- `CampaignGuestProofs!PausedHasPauserHolds`: `Spec => []PausedHasPauser`, with no condition
  on names. Inductive with: a paused domain is listed (`PausedIsListed`), so that the
  unpause reaches it; a process about to pause is a with_pause one (`PauseIsMeant`), so that
  it will unpause; and a driver that starts a process has none (`OneProcess`), so that no
  pauser is overwritten.
- `CampaignGuestProofs!NoSurvivorLoggedHolds`: `Spec => []NoSurvivorLogged`, under
  `OwnNames`, when all drivers are quick (`AllSimple`) and `Prompt`. The last two are needed:
  run `survivor` shows the with_pause case, and a late answer makes a living guest dead.
  `AddressIsNoId` holds by itself then, as a quick driver never shifts an address into the
  place of an id.
  `SurvivorInv` adds to `DamageInv` that nobody pauses, that a listed domain was never
  destroyed, that a run asks its own guest (`AsksItsGuest`), that nobody but the run
  destroys its victim (`VictimWasLeft`), and that a verdict, once given, stays true: the
  victim is not up and was not when destroyed (`Settled`, which no step takes back).
  `VerdictOfUp` is the heart of it: if the victim is up, libxc finds the victim itself and
  the heart beat answers, so the verdict is 0.
- `RandomWithPauseProofs`: `TypeCorrect`, `InjectsIntoPausedGuestHolds`,
  `OnlyTargetPausedHolds`, `SliceStartsFreshHolds`, for any number of processes, slices and
  bits. One invariant for all: only a listed domain is paused (`PausedIsListed`), only an
  existing one is aimed at (`AimIsReal`), and in the first process all domains with flips
  are behind the id that comes next (`FlipsBehind`), as ids only grow.
- `TestRandomAccessProofs!TypeCorrect`, `!CountIsRealHolds` and `!NoSurvivorLoggedHolds`, for
  any set of guests and any number of experiments, retries and failing forks, with no
  condition on the ids a retry meets; the last under `Prompt`, without which a late answer
  makes a living guest dead. One invariant (`AccessInv`) for all: nobody pauses, and a
  domain that still has its name was not destroyed (`HostInv`); `init` is true only with a
  known target and a count that the target's flips cover, whatever garbage the first try
  left (`InitIsEarned`); while the process injects, its own guest was not destroyed when it
  was up, and a verdict other than 0 is about a guest that is lost for good
  (`VerdictStands`, `Settled`); and a line stays what it was when written (`LinesStand`).
  The other guests are in it because a step of one process must not spoil the claims of
  another: `HostGoesOn` says that no step takes flips, owners or `Settled` from a known
  domain, and that only `g`'s process destroys what belongs to `g`.
- `FromHeadAccessProofs!TypeCorrect`, `!NoLivingGuestLoggedHolds` and
  `!LinesCoverDamageHolds`, for any memory, any number of experiments and every first
  domain, the log opened or not. `HeadInv` says that the program is one id ahead of its
  target, which the host has at least heard of (`AimIsKnown`), that no domain is hit before
  its turn and none of the target's flips goes uncounted (`FlipsCounted`), and that the log
  is about domains behind the target only (`LinesBehind`). `DeathIsReal` is the heart of the
  first property: whatever domain libxc describes, as long as the target is there it is
  the target that is described, so that a verdict "dead" is never about a living one.
- `LvsInjectorProofs`: `TypeCorrect`, `FreshRoundsPacedHolds`, `CountCoversFlipsHolds`,
  `VgaIntactHolds`. `FreshRoundsPaced` is not inductive: it needs that `time_count` is one
  wait for each rest that is over (`Timetable`), so that the rest under way ends only when
  all the waits before it have passed. `VgaIntact` rests on the assumption `VgaEnd % PageSize = 0` (`0xc0000`
  and 4096 in the code): the first byte of a page that holds an address outside the area is
  outside too. The invariant of the count says how many bits a round in progress may have
  flipped, and that each flip changes the size of `damage` by one.
- `RequestAnalyzerProofs!TypeCorrect`, `!AccountingHolds`, `!ThreadCountHolds`,
  `!KeepsTallyHolds`. The
  invariant adds that what a thread's `doc` is and where it stands fit together, so that the
  sets counted by the properties change by exactly one element; the reset works since no
  thread is inside the mutex between `Puts` and `Reset`. The refinement of `RequestTally`
  uses the same invariant: when a line is written the counters are what the log does not
  tell yet (`LineIsWritten`), and where a thread stands tells on which side it was counted
  (`OneOutcome`).
- `HeartbeatProofs!TypeCorrect`, `!LeakBoundHolds`, `!NeverOutOfFdsHolds`: by the number of
  descriptors held at each place. The last assumes `Base + MaxRetries + 2 <= MaxFds`.
- `HeartbeatProofs!Implementation`: `Spec => KeepsPromise`, under the same assumption. It
  needs that `seen` holds the present life, and that at each place beyond `getinfo`,
  `connect` and `read` it holds a life that allows that place.

Only model-checked: every liveness property (`EndsUnlessMisled`, `CampaignEnds` of
`RandomWithPause`, `AllReported`, `Returns`, `Ends`, `ProgramEnds`), since liveness under
fairness, and ENABLED, are out of the prover's reach. Every invariant, every refinement and
every other action property that a passing run checks is also a theorem; the conditions of
those that have any are named above.

## Not modelled

- `inject_byte`, `inject_page` and `create_domain_with_xc` of `experiment_base.c`,
  `tcp_bind` and `tcp_accept`, `file_write_line`: no caller;
- `start_lvs_test.sh`, `check_time_diff.sh`, `req_doc.sh`: they start the analyzer and the
  timed injector on two machines, which share nothing but the time of day, so there is
  nothing to compose; two analyzers that write to one `request.log` would be a matter of
  byte offsets, and nothing in the sources says what the file should hold then;
- `test_memory_alloc.c` (does not compile) and the serial console loggers (no state beyond a
  file);
- stdio's buffers: a line of a log counts as written when `fprintf` returns, though a killed
  process may lose it where the code does not flush;
- `bits_per_once = 0`, with which the timed injector never ends (excluded by
  `LvsAssumption`);
- in the campaign models, which address of a domain is hit: there flips are counted only,
  the memory itself is in `LvsInjector`;
- fixed buffers for names and addresses: arguments are taken to fit.

## Plan

Done: every injector and its driver, the heart beat, the analyzer; the ledger, the guest
check and the tally as abstract specifications with proved refinements; all safety
properties the passing runs check, proved.

Left:

1. the facts about the host that four proof modules state for themselves (`HostFresh`, that
   ids only grow, that the dead stay dead) as lemmas about `XenHost`, proved once;
2. that the one-step verdict of `XenHost` covers `Heartbeat`, so that the campaign's proofs
   rest on what `Heartbeat` implements; today this is an argument (see `XenHost` above).
