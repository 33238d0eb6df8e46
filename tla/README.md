# A TLA+ development of the dnetc client

The repository is the distributed.net client (`src/dnetc-client-base`) with a
CUDA core for RC5-72 (`src/src`).  The client takes *packets* (ranges of keys,
or OGR stubs) from a buffer, has *crunchers* search them, and gives the results
back through another buffer.  What can be hard to get right in it is not the
search but what surrounds it: two threads per packet with a lock that covers
only part of what they do, results that may arrive after their packet is gone,
files that must survive a crash at any moment, and counters, thresholds and
flags that several parties read and write.

## 1. Inventory

| component | state | operations | hard behaviour |
|---|---|---|---|
| problem slots, `problem.cpp` | three copies of a packet per slot (MAIN, CORE, TEMP), flags `initialized`, `started`, a result code, a spin lock, `loaded_problems[]` | `ProblemAlloc`, `ProblemLoadState`, `ProblemRetrieveState` (with or without purge), `ProblemIsInitialized`, `ProblemRun` | a run works without the lock while the slot may be saved, purged and reloaded |
| RC5-72 run, `problem.cpp`, `hyunjin_r72*` | key counters in two 32-bit words, a reference key | `Run_RC5_72`, the core shim, the device loop | slices that are cut or rounded at the end of a packet, carries, results in the middle of a slice |
| packet supply, `probfill.cpp` | previous count, re-entrancy count, "aborted" flag, pending buffer updates | `LoadSaveProblems`, save and load of one slot, thresholds | called from the main loop and, on some platforms, from a handler in the middle of itself |
| run loop, `clirun.cpp` | one parameter block per cruncher, refill flags, suspension flags | start, run, suspend, stop of crunchers; checkpoints; mode requests; shutdown | flags raised by crunchers and cleared by the main thread; a handshake for suspension |
| record files, `buffpub.cpp`, `moo521.cpp` | a file of fixed-size records, zapped slots reused | put, get, count, zap, in two formats; no lock is taken | crash between two writes, several processes |
| buffers, `buffbase.cpp` | memory buffers, files, back-off of updates | put, get, count, import, fetch, flush, update | limits, failure of one step of an update, retry, remote files that are the local ones |
| checkpoint, `checkpt.cpp` | a file with a copy of the loaded packets | open (import), refresh, close (zap) | crash anywhere between two refreshes |
| slot table, `probman.cpp` | array of slots | allocate, free, index | partial failure of an allocation |
| mode requests, `modereq.cpp` | a word of request bits | set, clear, run | set while a request is being served |
| triggers, `triggers.cpp` | exit, restart, pause words, the pause state of the last check | raise, clear, poll files, programs and power source, signals | handlers against polling code; several reasons in one word |
| polling, `pollsys.cpp` | a table of registered procedures with a place to go on from, a list of those on hold | register, unregister, run, hold, release | a procedure that registers itself in the table being scanned; starvation |

Interaction.  The main thread runs `ClientRun`: it calls `LoadSaveProblems`,
which calls `ProblemRetrieveState`, the buffers, and `ProblemLoadState` for each
slot.  Every cruncher thread loops over `ProblemRun` of its own slot and raises
a refill flag when the packet is done.  Crunchers and main thread share the
slots, the flags of the parameter blocks, and the triggers.  The buffers are
shared with other clients through files that nothing locks, the checkpoint with
the next incarnation of the client.

## 2. Plan

In the order of importance; modules marked * are there.

1. `Problem`*, `ProblemSlot`*, `MCProblem`*, `ProblemProofs`*: the slot.
2. `Rc572`*, `Rc572Proofs`*: one packet through `Run_RC5_72` and the core, with
   narrow words for TLC and words of any width for the proofs.
3. `RecordFile`*: a record file with crashes between the writes, refined to
   `PacketStore`*; `Recovery`*: files, slots and checkpoint of a client that
   crashes and is started again.
4. `RunLoop`*: crunchers, main loop, suspension, mode requests, shutdown, with
   liveness.
5. `LoadSave`*: passes over the slots, the packet limit, abortive re-entry; it
   composes the buffers, by their outcome, with the slots and the run loop, and
   implements `PacketSupply`*.
   `BuffUpdate`*: fetch, flush, back-off, cross-saving.  Both are parts of
   `RunLoop`'s steps `Save`, `Load` and `Perform` in full.
6. `Pausing`*: triggers and polling system, with the crunchers of builds or
   runs without threads.
7. `RunLoopProofs`*, `BuffUpdateProofs`*, `RecordFileProofs`*, `RecoveryProofs`*,
   `LoadSaveProofs`*, `PausingProofs`*: the types and the safety properties of the
   other modules.
8. Left: the same for `Recovery`, whose client may crash: with a checkpoint a packet
   goes back from a slot to a buffer, and a promise of what is done once has to say
   which copy counts.

Each question is one run.  A property that is stated in a module and belongs
to no run either is proved (`PurgeNeverAhead`, the `TypeOK`s) or does *not* hold;
what does not hold is described in the section of its module under "Seen", with
the constants under which TLC shows it.

## 3. The slot

`Problem` models `ProblemRun` on one side, and `__IndividualProblemSave` with
`ProblemLoadState` on the other, for any number of slots.

| TLA+ | code |
|---|---|
| `main`, `core`, `temp` | `iprobs[PICKPROB_MAIN/CORE/TEMP]` |
| `lock` | `copy_lock`, with the thread that holds it |
| `runpc`, `result` | the cruncher's place in `ProblemRun`, and its local `last_resultcode` |
| `ldpc`, `ldslot`, `wrdata` | the main thread's place in a save and load, its slot, the record it retrieved |
| `loaded` | `loaded_problems[]` |
| `nextLoad`, `saved`, `discarded` | identity of packets and history, for the properties |

The copies in and out of MAIN are the atomicity of the model: each critical
section is at least two steps (take the lock; copy and release) and a copy into
MAIN that others could see torn is two steps.  The core and the inside of a load
run between critical sections, as in the code.  The unlocked test of
`initialized` at the entry of `ProblemRun` is a step of its own.
`ProblemIsInitialized` followed by `ProblemRetrieveState` is one step: only the
main thread changes what the first one tests.

A packet is a load number, a contest, a count of units done and a bit that says
that the key field holds a solution.  Core arithmetic is a nondeterministic
advance; statistics and tuning fields are left out.  Core errors are included,
in both forms the code has (RC5-72 marks its copy, OGR does not).

`HardStop` is the one switch.  FALSE: the main thread saves only finished
packets while crunchers run, as the main loop does.  TRUE: it may save, purge and
reload any packet while its core runs.  The code does the saving and purging on a
console shutdown (`plat/win/w32cons.cpp:48`); the reload after it is what
the comment in `ProblemRun` ("with or without a subsequent LoadState()") prepares
for, so the model keeps it.

`ProblemSlot` is the promise: an empty slot is loaded, a packet advances in
atomic steps to a result and stays, a slot is purged.

### Runs

| run | bounds | shows |
|---|---|---|
| `problem` | 2 slots, 2 contests, packets of 2 units, 2 loads, saves of finished packets | `CounterExact`, `NoResultLost`, and that every step is an atomic step of `ProblemSlot` |
| `problem_hard_stop` | 1 slot, 2 contests, 2 units, 2 loads, unconditional saves | `NoStaleResult`, `RecordCoherent`, `SavedOnce`, `ProgressKept`; under fairness a run that has a result returns (`RunReturns`) and a finished packet leaves its slot (`FinishedLeaves`) |

Two loads are enough for a stale result (the run belongs to the first, MAIN holds
the second), two units for a packet that is saved unfinished and goes on, two
contests for a counter that is decremented for the wrong one, two slots for the
confusion of two packets.

Fairness.  Each thread keeps running (weak fairness of each as a whole), the
spin lock is not denied for ever to a thread that finds it free again and again
(strong fairness of the locking steps: the critical sections are short copies and
the main thread sleeps between passes), and `LoadSaveProblems` visits every slot
in each pass (strong fairness of `Visit`).

Seen: `CoreErrorDiscards` does not hold (`FairSpec`, `Problems = {p1}`,
`Contests = {rc5}`, `Total = 1`, `MaxLoads = 1`, `HardStop = FALSE`).  After a core
error `ProblemRun` leaves MAIN as it was, so the packet is still `RESULT_WORKING`,
is not unloaded and is run again; `src/hyunjin_r72.cpp:117` says the client will abort
and `problem.cpp:1180` and `1250` say that the problem will be discarded.  `LimitEnds` of
section 8 therefore assumes that cores end with their packets.

### Proofs

`ProblemProofs` proves every safety property of the runs, and the type invariant
and `PurgeNeverAhead` besides, for any number of slots, contests, units and loads, from
`ProblemAssumption` only, and that `Problem` implements `ProblemSlot`.

The properties are not inductive: whether a result is stale depends on what the
flags meant when the run began.  The invariant `IInv` is built in layers, each
relative to those before it:

1. `TypeOK`;
2. `LockInv`: the lock is held by whom the program counters say;
3. `FlagInv`: while the main thread is loading, MAIN is not initialized; as long as
   a run's result is wanted, CORE is a later state of the packet in MAIN, which
   is still unfinished.  A purge clears `initialized`, a load clears
   `started` in TEMP, and only the run itself sets `started`: so the flags tell
   staleness although they carry no identity;
4. `DataInv`: every copy that somebody may read is coherent;
5. `IdInv`: load numbers increase, a packet is in one slot, and among the
   saved records only while its purge is due;
6. `SaveInv`: between the two critical sections of a save, a finished packet does
   not change;
7. `CounterExact` itself.

`CruncherRefines` and `LoaderRefines` map each step: the first half of a
commit is `Advance` (or a stutter, if the core did nothing), the second half of a
load's copy is `Load`, a purge is `Purge`, and everything else is invisible.

Only model-checked: the two liveness properties (fairness is out of the prover's
reach).

## 4. One RC5-72 packet

`Rc572` follows one packet through `Run_RC5_72`, the shim
`rc5_72_unit_func_hyunjin` and the host loop `hyunjin_r72_run`.  `Problem` says
*when* a run's result counts; `Rc572` says that what is counted is right.

| TLA+ | code |
|---|---|
| `work` | `contestwork.bigcrypto`: key, keysdone, iterations, check |
| `unit` | `rc5_72unitwork`: `L0` and check, byte-reversed ("mangled") |
| `refL0` | the client's own mangled cursor |
| `run` | locals of the host loop: keys asked, base key, keys done, matches |
| `rc` | the packet's result code |
| `truth` | history: what was loaded, which keys match, which were searched |

The next key to search is kept three times and advanced by three
implementations of an addition on 72 bits: `FirstL0` (load), `IncrementKey` (client) and
`HyIncrementL0` (core), each with its own carries and byte reversals.  They are
modelled with all their carries and with any number `Base` of values of a byte; a
word is four bytes, a key one byte and two words.  The cipher is left
out: which keys match is chosen when a packet is loaded, at and after its first key and not
beyond the end of the key space, where no real packet reaches although the cursors of the
model do.

A run that fails leaves the packet as it was, because it worked on a copy; that
this is so is a matter of `Problem`.  `Reload` is a save of the unfinished packet
followed by a load on the same build, `ReloadReset` by one on another build or core.

| run | bounds | shows |
|---|---|---|
| `rc572` | bytes of 2 values, so words of 16 and 512 keys, minimum 6 keys, pipeline 2, passes of 4, first keys at 0, before a carry into `mid` and `hi` (248) and before another (500), packets shorter than, equal to and longer than a word, up to two matching keys, one trouble | `CursorsAgree`, `SearchedExactly`, `ResultTrue`, `ChecksExact`, `SliceAdvances` |

The bounds keep the proportions that matter: the minimum of a slice does not
divide a word (48 and 2^32 in the code) but is a multiple of the pipeline, slices
take several passes, a packet crosses every carry and the end of the key space,
sizes need not be multiples of a word.  `Rc572Assumption` says what else is used of the
constants: a word is a whole number of pipelines, as 4 divides 2^32, and a
packet is at most `Word * (Word - 1)` keys, so that its last slice cannot wrap
`keysdone` (2^64 - 2^32 in the code, which nothing checks and no packet comes near).

`SliceAdvances` (every run that succeeds searches at least one key) is what the
end of every packet rests on, since a packet is finite; that a device which never
works again keeps its packet for ever is the observation of section 3.

Seen, with no property to suffer from it: the comment at `problem.cpp:1272` says
that no more keys are asked of the core than are left, but the code cuts a slice
only where the low word of `keysdone` would overflow, so a packet whose size is
not a multiple of 2^32 is overrun by up to a slice.

### Proofs

`Rc572Proofs` proves all five properties for every `Base`, so for bytes of 8 bits too, and
for any slices, launches, packets and matches.

The first half is about the operators.  A mangled key stands for a number (`Pos`), and so
does a plain one (`Value`); each key is nine bytes, so reversing them twice gives the key
back (`SwitchFacts`), and what the comment of `hy_increment_l0` says of the
mangled form, `K = hi + bswap(mid) * 2^8 + bswap(lo) * 2^40`, is a lemma (`PosOf`).
Each of the computations is then shown to be an addition on these numbers:

| lemma | code | adds |
|---|---|---|
| `ClientIncrements` | `__IncrementKey` | modulo the key space |
| `HyIncrements` | `hy_increment_l0` | modulo the key space |
| `LoadsFirst` | first key of `__InternalLoadState` | `keysdone`, modulo the key space |
| `ReportsKey` | the key that is reported with a find | `keysdone`, without loss |
| `Counted` | `keysdone` after a run | exactly, for what a run can return |

That every overflow test of the code is right is one lemma (`Carry`): a sum in a word is
less than one addend exactly if it is less than the other, and exactly if it
overflowed; the test `mid == 0` after adding 1 is the special case.

The second half is about stretches of keys (`Keys`), of which one joins the next
(`KeysJoin`, `HitsJoin`).  The inductive invariant adds to `SearchedExactly` and `ChecksExact`
what they mean for a packet that is in the core: `Passes`, that the host loop's base key
is `done` keys after the packet's cursor and that it has not gone beyond what was asked;
`Results`, that the keys tested are the stretch from the cursor on, that its matches are
counted and the last is kept, and that no solution among them was passed by; `Progress`, that
a packet that still works has fewer keys done than would let a slice wrap the count.
A solution lies in the packet's own stretch and so at or after its first key: the cursor cannot have
wrapped when it is found (`AtExact`), and the high byte of the reported key, the one place
where the code does not truncate, is a byte (`Found`).

One theorem has no run: `CountsNeverDiffer`.  The branch of `Run_RC5_72` that gives a run up because the
client's count and the core's differ is unreachable with this core.

## 5. A record file

`RecordFile` models `BufferPutFileRecord`, `BufferGetFileRecord` and
`BufferZapFileRecords` (`buffpub.cpp`) on one file, write by write.

| TLA+ | code |
|---|---|
| `file` | the file: its format, the count in the header (moo), its records; `Blank` is a record of zeros |
| `sticky` | `moo_output_mode` of a process |
| `pc`, `op` | the place in the operation, and its locals |
| `rc` | what the last operation returned |
| `hand`, `promised` | history: packets a client holds; those of which a put said 0 |
| `BeginPut`, `CreateMoo`, `WriteHeader`, `WritePacket` | a put: the scan for a place; the header of a new file; the count; the record |
| `GetFinds`, `WriteBlank`, `GetMisses`, `Zap` | a get: the scan; the blank; the end of a file of blanks, which is truncated |
| `Sniff`, `Crash` | a moo file was read elsewhere; the process dies |

What an operation reads it reads in its first step, because with one client nobody
else writes.  A write of one record is one step.  Disks that fail are not modelled:
the code writes through a buffer and does not look at the result of `fclose`.

`record_file` has three packets, one client and two crashes: enough for a blank
between two packets, a put into it, a crash that leaves a counted but unwritten
record, and a second crash on top of that.  It checks `PutStores` (a put that said 0 has
stored its packet, and no packet is stored twice or held and stored), `Bounded` and that the file implements `PacketStore`: a put takes place with
the write of its packet, a get with the write of its blank, and everything
else is invisible.

The module has `Clients` in the plural.  With two of them `PutStores` does
not hold: `BufferOpenFile` takes no lock (`buffpub.cpp:73`) and a
place that was found blank may not be when it is written.  `docs/readme.dos:39`
speaks of clients that share their buffers; whoever wants to see the interleaving
sets `Clients = {c1, c2}`.

### Proofs

`RecordFileProofs` proves types for any number of clients, and for one client (`Clients =
{one}`, the hypothesis of the other three theorems), any packets and any number of crashes,
`PutStores`, `Bounded` and that the file implements `PacketStore`.

`PutStores` alone says nothing of an operation under way.  The invariant `KeepInv` adds

* `FileInv`: the header never counts fewer records than there are, which is why the code can
  find the end of a moo file by it; a crash after the header leaves it one ahead;
* `OpInv`: what an operation read in its first step is still so when it writes: its place is
  blank or beyond the end, a get overwrites the packet it has read, a file
  that is truncated is blank throughout.  This is the part that needs one client: with
  another, the place may have been filled meanwhile;
* `Kept`: `PutStores` said of the records, with the packets in the client's hand.

`Bounded` needs `GrowthInv` besides: a put extends the file only when there is no blank, so the
file holds each packet once and the one that is put is not among them; the count runs ahead of
the records by one for each crash.  Its theorem assumes two packets at least, because the files
the model begins with have two places.  The refinement maps the write of a packet to the put, the
write of a blank over it to the get, and everything else to a stutter.

## 6. Recovery

`Recovery` composes the files with the slots: `ClientRun` from
`CheckpointAction(CHECKPOINT_OPEN)` to shutdown, with crashes anywhere and a
restart after each.  A file is a set of packets here, because `RecordFile` shows
that puts and gets are atomic.

| TLA+ | code |
|---|---|
| `inbuf`, `outbuf`, `ckpt`, `outside` | in-buffer, out-buffer, checkpoint; packets others will bring |
| `slots`, `hand` | packets in the slot table; the one an import has read |
| `count`, `due`, `exiting` | `load_problem_count`, `timeNextCheckpoint == 0`, the exit trigger |
| `pc`, `todo` | the place of the main thread, and the slots its loop has still to visit |
| `kept`, `lost` | history: progress last put on disk; packets that were nowhere on disk when a crash came |
| `ImportGet`, `ImportPut`, `CloseOpen` | `BufferImportFileRecords`, and the zap that follows it |
| `Fill`, `StartThreads`, `Resize` | initial load, start of threads (which may fail), `PROBFILL_RESIZETABLE` |
| `Wake`, `Save`, `Load`, `VisitsDone` | main loop, pass of `LoadSaveProblems` from the last slot to the first |
| `SkipRefresh`, `ZapCheckpoint`, `Refresh`, `Refreshed` | `CHECKPOINT_REFRESH` |
| `Unload`, `Exit` | `PROBFILL_UNLOADALL`, and the checkpoint that is zapped after it |
| `Crunch` | one run of a cruncher; a solution overwrites the key of its packet |

| run | bounds | shows |
|---|---|---|
| `recovery` | 3 packets (one with a solution), 2 slots, 2 units, moo files, 1 crash | `Conserved`, `CheckpointCovers`, `OnePlace`, `SolutionReported` |

Three packets and two slots let one packet wait while two are loaded, and let a
slot be empty before a loaded one; two units separate what a checkpoint holds from
what was done since; one crash may come in every step, the import after it
included.  A second crash adds nothing that a first one after a restart cannot do:
the state after a restart is one of the states the model begins in.  `lost`
exempts a packet that is in memory only: between its load and the next refresh,
or between the zap of a refresh and its put, the code has no copy of it.

Seen; the constants are those of `Recovery.cfg` with one change each:

* *Stock checkpoints are not recovered.*  `Conserved` does not hold with
  `Moo = FALSE`.  `clirun.cpp:1446` says "we always recover".
  `BufferImportFileRecords` opens the checkpoint with `BUFFER_FLAGS_REMOTEBUF`, for
  which `BufferOpenFile` gives up on a stock file; nothing is imported and the
  checkpoint is zapped.
* *A solution does not survive.*  `SolutionSurvives` does not hold (`Ids = {p1, p2}`).
  A packet in which the solution was found after the last pass over the slots is
  checkpointed as `RESULT_WORKING`, with the solution in its key field.  After a
  crash the search goes on from the wrong key.
* *A packet is stranded.*  `Conserved` does not hold with `EarlyFetch = TRUE`, even
  without a crash: `load_problem_count` becomes the number of packets that were
  loaded, not of the highest slot.  `LoadSave` has all of the code that matters
  for this, and the finding is its (section 8).

Not in the model: a moo put counts its record in the header before writing it
(`MOO521-FORMAT.md:24` has it the other way), and a put to a full disk returns 0
(`buffpub.cpp:456` says -1 on failure); a put that fails during an import is
followed by the zap of the checkpoint all the same (`buffbase.cpp:635`).  The first
does no harm (`record_file` has it), the others need writes that fail.

### Proofs

`RecoveryProofs` proves the four properties of the run for any packets, slots, units and
crashes.  All rest on `Shape`: a slot holds one packet at most, loops have their slots still to
visit among those in use, nothing is in a slot before the files were imported.

* `CheckpointCovers`: `Covering` follows a refresh slot by slot: the checkpoint holds the
  packets of just those slots that the refresh has passed.
* `OnePlace`: `Disjoint`, as long as no crash came.  A packet that comes from outside was
  nowhere before: `Untouched`.
* `SolutionReported`: `Sound`: a packet in which the solution lies was either found, or
  is still before it with its first key.  The last unload, which retrieves working packets,
  is the reason to say this of all places, not of the out-buffer alone.
* `Conserved`: `Safe` names the places where a copy may be, at every place of the main
  thread, and `Prefix` says that while packets are loaded the slots visited are full or
  there is nothing to load: otherwise a packet would be in a slot that the client takes
  to be unused.  The theorem assumes `Moo` and `~EarlyFetch`; it does not hold without either,
  as "Seen" has it.

## 7. Threads of the running client

`RunLoop` models `Go_mt` for any number of crunchers, the main loop of `ClientRun`,
`ModeReqRun`, and the thread of the Windows console, which sets request bits and
raises triggers when it likes.

| TLA+ | code |
|---|---|
| `suspended`, `exited`, `refill` | `is_suspended`, `hasexited`, `refillneeded` of each cruncher |
| `do_suspend`, `do_exit` | flags in the same block, set for all by `__gsc_flag_allthreads` |
| `slots` | whether the slot of a cruncher is empty, working or finished |
| `exit`, `pause`, `reqbits` | triggers, `modereq.reqbits` |
| `bits`, `word`, `restart`, `wasPaused`, `did_suspend` | locals of `ModeReqRun` and `ClientRun` |
| `cpc`, `mpc`, `todo`, `ui` | places of the threads; `ui` is a request being written by the console |
| `late`, `asked` | history: runs begun since suspension; requests not served yet |
| `Begin` to `Leave` | `Go_mt` |
| `Wake`, `Quit`, `GoOn`, `Save`, `Load`, `Visited`, `Delegate`, `ClearRefill`, `Modes`, `Handshake`, `Served` | one turn of the main loop |
| `Round`, `Perform`, `Erase`, `RoundDone` | `ModeReqRun` |
| `StopThread`, `UnloadAll` | shutdown |

Threads share plain words.  A word is read or written in one step; `|=` and `&=` are a
read and a write, unless `Locked`.  A flag is set for all crunchers in one
step, because no cruncher sees the flags of another.  A suspended cruncher sleeps:
it takes no step.  `Quit` also stands for the time limit and for running out of
work.  Of the requests there are benchmarks (which stand for tests too),
configuration, fetch and flush; the others are served only from the command line or
differ in nothing.  So is the restart request, whose bit `ModeReqRun` itself clears at its
beginning (`modereq.cpp:181`, one more read and write of the word of bits), and its early return on a
machine without a detected processor (`modereq.cpp:172`).  `StopThread` assumes that a thread has begun by the time the
client stops: `hasexited` is 1 before that (`clirun.cpp:856`), and a thread that has
not begun would not be waited for.

| run | bounds | shows |
|---|---|---|
| `run_loop` | 2 crunchers, one request of the console | `CoreHasPacket`, `OneRunLate`, `SuspensionExact` |
| `run_loop_live` | 1 cruncher, two requests | `RefillServed`, `ExitEnds` under fairness |

Crunchers interact only through the main thread, so that two show what any number
does; for liveness one cruncher is enough, because each waits for the main thread
alone, and the two requests allow one to arrive while another is served.

Fairness: each cruncher and the main thread keep running.  The main thread's
sleep is fair only while an alarm is up (`Wake /\ Alarm`): with a fair timer
`RefillServed` would hold even if flags were lost, because the loop wakes
every five seconds.  The console's thread and the user owe nothing.

`OneRunLate` is weaker than what one might hope.  A cruncher tests `do_suspend`,
then clears `is_suspended` (`clirun.cpp:415` and `450`); in between the main
thread may find all crunchers suspended and begin a benchmark.  That it is never more
than this one run is what is checked.  A benchmark asked for while a fetch is
served is picked up by the next round of the same `ModeReqRun`, and so
without any suspension.

Seen: `modereq.h:67` says that bits "can be set/cleared while active".
`RequestsKept` does not hold even with atomic bit operations (`NThreads = 1`,
`Menu = {{"fetch"}, {"flush"}}`, `Locked = TRUE`, `MaxAsks = 2`): when a fetch has been
served, the bits of fetch *and* flush are cleared (`modereq.cpp:261`), also a
flush that was set while the fetch was under way.

### Proofs

`RunLoopProofs` proves types and the three safety properties for any number of crunchers, any
menu of requests, and whether or not `|=` and `&=` are one step.  Three invariants, each inductive
relative to `TypeOK`:

* `StopInv` for `CoreHasPacket`: a cruncher reports `hasexited` exactly when it has not begun or
  has left its loop, and the main thread goes on past it only then; so all have left
  when it unloads the slots.
* `LateInv` for `OneRunLate`: while `do_suspend` is not set no run is late, and a cruncher that
  has begun a late one will see `do_suspend` before the next.
* `SuspendInv` for `SuspensionExact`: a mode request holds crunchers suspended only if no
  pause did already, and only from the handshake until the main loop is back.

## 8. The packet supply

`LoadSave` models `LoadSaveProblems` with its two halves,
`__IndividualProblemSave` and `__IndividualProblemLoad`, and everybody who calls it:
the initial load, the resize after threads failed to start, the main loop, the
unload at the end, and the hard stop of the Windows console, which comes from
another thread at any moment and knows neither the client nor the number of slots.

| TLA+ | code |
|---|---|
| `slot` | the packet of each slot, at work or done |
| `limit`, `memory` | `client->blockcount`, `client->nodiskbuffers` |
| `inb`, `outb`, `others` | in-buffer, out-buffer, packets an update can bring or other clients hold |
| `sent`, `gone` | history: packets flushed; packets that a failed put or a refused load has lost |
| `done` | `BlocksDone` of the summary data |
| `prev`, `abortive` | the statics `previous_load_problem_count`, `abortive_action` |
| `pass` | locals of a pass: its mode, the slots it has still to visit, its counts |
| `main`, `count` | the place of the main thread, `load_problem_count` of `ClientRun` |
| `requests`, `exiting` | request bits that a pass posts, the exit trigger |
| `VisitNothing`, `VisitSaves`, `VisitDiscards` | `__IndividualProblemSave`: nothing to do; put and purge; a put that failed |
| `LoadPacket`, `LoadFetched`, `LoadRandom`, `LoadStopped`, `LoadNone` | `__IndividualProblemLoad`: from the in-buffer; after an update that fetched some; a random packet, since it did not; none, since the exit request came during the update; none, since it came before or the buffers are run down |
| `BufferUpdate`, `StillPending` | the outcome of an update in the middle of a pass, which may flush too; the updates that are then still to be asked for |
| `UnloadEnds`, `PassEnds` | the end of a pass in its two forms; the second may raise the exit trigger |
| `InitialLoad`, `StartCrunchers`, `Refresh`, `LeaveLoop`, `UnloadAll` | the callers in `ClientRun` |
| `HardStop` | `WM_ENDSESSION`, `LoadSaveProblems(0,0,0)` |

A visit of a slot is one step (that it is more than one for the cruncher of the
slot is `Problem`'s matter), a load another; between them crunchers finish, other clients
use the buffer, and the hard stop may come.  Of a client with several projects
one is modelled, enabled, and with random packets.  `nonewblocks` and `getbuff_errs`
are 0 for ever (nothing sets them; the test at `clirun.cpp:1852` is dead), and so
they are in the model.  A packet that `LoadState` refuses (`Bad`) is corrupted or a
dummy.  A core that fails leaves its packet at work (section 3), so that for a pass it is a core that
has not ended yet; the test of a pass for a packet with a core error (`probfill.cpp:482`) is never reached
with one.  When no cruncher can be started, all that was loaded is unloaded at once, and the
unload at the end has no slot left to visit.  After `WM_ENDSESSION` the main thread takes no step, as the comment in
`w32cons.cpp:4801` has it.

| run | bounds | shows |
|---|---|---|
| `load_save` | 2 slots; 2 packets, one of them a test packet, one refused; 3 random packets; limits -1, 0 and 2; memory and disk; other clients between the passes; one put or one thread that fails | `Conserved`, `HardStopSaves`, `StopsWhenDone`, `ImplementsSupply`, from which `LimitKept` follows; under fairness `LimitEnds` |
| `load_save_shared` | 2 slots, 2 packets, limit -1 and so no random ones; other clients at any time | `Conserved` violated |

`PacketSupply` is what all this is for, without slots, passes and threads: packets are away,
waiting, at work, finished, reported, sent or lost, and go from one to another of these
by `Exchange`, `Take`, `End`, `Report`, `PutBack`, `Lose` and `Close`.  `ImplementsSupply` maps
the sets to the buffers and to the packets of the slots in each state (`In`).  Beyond
`Conserved`, which compares places, it says which way packets go: a result is reported once,
by the slot that finished it, and never worked on again; a packet that is not finished goes back
and is not reported; a slot is given a packet just fetched, or made, only when none is waiting, and takes one
only while the limit leaves room.  That guard of `Take` is `LimitKept`, step by
step, and forbids the load of a packet that is refused as well; the run therefore checks
`ImplementsSupply` alone.

It is a promise of the passes, with updates by their outcome.  A client whose out-buffer is a
Moo! file does not keep it through a flush: that reads results as work and cross-saves them into the in-buffer
(section 9).

Other clients take packets out of a shared in-buffer file and put them back.  In the middle of a
pass they make `StopsWhenDone` false as well, harmlessly: the client has looked into the
in-buffer before.

Two slots are enough for a slot that the pass has yet to come to, for one that is
empty before one that is not, and for a thread that fails to start while another
did; a limit of 2 with 3 random packets lets it be exceeded.  `LimitEnds` rests on the weak
fairness of the thread of the run loop (`Pass`, `RunLoop`) and of each core (`Finish`): it ends
with its packet, after however many failed runs.  The second is an assumption about the device, not the
code: a core that fails for ever keeps its packet, and the client never reaches its limit.

Finding, *a packet is stranded*: on a shared in-buffer the first slot may find it empty and the
second may not.  `clirun.cpp:1572` takes the number of loaded packets for the number of
slots in use.  The packet of the other slot gets no cruncher and is in no later pass,
nor in the unload.  Random packets hide this, because then no slot stays empty.  A client that is asked to
exit while the update for its first slot fetches packets does the same without any other client:
`probfill.cpp:714` leaves that slot empty, and the next one loads a packet that was fetched.
`Disturbed` is the constant that lets both happen; with limits -1 only, as the run has them, TLC shows
the first, and with `Limits = {0}` the second, which is shorter.

Seen: a hard stop during a pass of the main thread sets `abortive_action` first and finds the
re-entrancy count at 1 afterwards (`probfill.cpp:939` and `943`), so it saves nothing
and forbids every later save; `HardStopSaves` exempts it.  A fetch is asked for when the
in-buffer holds fewer than `count - prob_i` packets where the comment says "less than number
of crunchers".  A put that fails is logged as "discarded" and the packet purged
(`probfill.cpp:488`); `Conserved` counts it in `gone`.  Test packets count toward the limit
only in the pass that saves them.

### Proofs

`LoadSaveProofs` proves types and all safety properties, for any slots, packets, limits and
faults.  `LimitKept` and `ImplementsSupply` need no hypothesis; the others need other clients to leave the in-buffer
alone during a pass, and no exit request while the first pass updates the buffers
(`~Disturbed`).  Without that `load_save_shared` shows `Conserved` to fail, and with its constants so do `HardStopSaves` and `StopsWhenDone`: a packet is
in a slot beyond `load_problem_count`.

The properties speak of slots and buffers between passes; the invariants have to say what is so
in the middle of one, and a pass is a list of slots, upwards the first time and downwards later.

1. `Path`: the slots a pass has still to visit are an interval that begins where it is;
   `Control`: which pass goes on when the main thread is where, with which counts.
2. `FirstLoad`: the first pass fills the slots from 0 without a gap, or stops for good (an
   empty in-buffer, the limit).  This is where `Disturbed` breaks it, but for a client
   with a limit that has not been told to exit (`Calm`): it makes random packets, and so leaves
   no gap.  That is all `LimitKept` needs, since after the exit request nothing but the pass
   that is going on can load.
3. `Where`: which slots may be in use: those below the count of the run loop between passes,
   those still to be visited in an unload.  `HardStopSaves` is a consequence.
4. `Places`: each packet is in one place; with `Where`, `Conserved`.
5. `Counts`: `pass.empty` is the number of slots found empty so far and `pass.total` at least what was done.
   The test of the limit counts slots it has not come to as full, hence `LimitKept`.
6. `Results` and `RunDown` for `StopsWhenDone`: what counts as done is in the out-buffer or was
   sent; a slot left empty by a client without a limit means that the in-buffer is empty.
7. `ImplementsSupply`: by `Places` a packet is in one slot, so that clearing it takes the packet out
   of one of the sets of `PacketSupply` and changes no other (`SlotCleared`, `SlotLoaded`,
   `SlotEnds`); by `Counts` there is room when a packet is loaded (`RoomForPacket`).  One lemma
   per half of a pass, one for the ends of cores, one for what moves packets past the slots.

## 9. Updates of the buffers

`BuffUpdate` models `BufferUpdate`, `BufferFetchFile`, `BufferFlushFile`,
`BufferCheckIfUpdateNeeded` and the put and get of local buffers, in memory or on
disk, with the cross-saving of `GetBufferRecord`.  Remote buffers are files: the
network (`BufferNetUpdate`) is a stub that never succeeds.

| TLA+ | code |
|---|---|
| `setup` | `nodiskbuffers`, `connectoften`, `blockcount < 0`, and whether remote and local in-buffer are one file |
| `inb`, `outb`, `rin`, `rout` | the four buffers; `void`: remote files without a record, which have no format |
| `cap` | `maxcount` of a buffer in memory, which grows and never shrinks; of the in-file the count in its header, which includes blank records and is what a put returns |
| `mooMode` | the sticky `moo_output_mode` |
| `upd` | locals of an update and of its loops: what was asked for, what was moved, warnings, errors |
| `failed`, `delay`, `wait` | `last_buffupd_failed_time`, `buffupd_retry_delay`, what is left of it |
| `away`, `gone`, `dropped` | packets at work or with others; history: packets lost since they could not be put back, and since they could not be cross-saved |
| `UpdateBegin`, `UpdateEnd`, `Tick` | `BufferUpdate` around its loops, with the back-off; time |
| `FetchStop`, `FetchGetFails`, `FetchGetEmpty`, `FetchPacket`, `FetchPutFails` | one turn of the fetch loop, by its outcome |
| `FlushStop`, `FlushCrossSaves`, `FlushPacket`, `FlushPutFails` | one turn of the flush loop; `FlushCrossSaves` is the whole loop of `GetBufferRecord`, each of whose reads and writes may fail |
| `Take`, `TakeNone`, `Return`, `Supply` | slots and other clients use the local buffers, of which one with only blank records is truncated; somebody fills the remote one |

A turn of a loop takes a packet out of one buffer and puts it into another; both
are one step, because whether others see the state in between is the matter of
`RecordFile`.  A packet counts for one stats unit; the error code -123 (which nothing
returns) is left out; delays are 1, 2 for 30, ... 3600 seconds.

| run | bounds | shows |
|---|---|---|
| `buff_update` | 3 packets, threshold 3, files of 2 at most, memory buffers that grow by 1 up to 2, one cruncher, two reads or writes that fail, all configurations, any distribution of the packets | `Conserved`, `DelayRight`, `Measured`; under fairness `UpdateEnds`, `Restocked` |

The limit is below the threshold and both are below or at the number of packets, so that a fetch must stop by
itself and the limit must cut the threshold.  Buffers do get full: files with 2 packets, and buffers in
memory when a second packet has come, for ever.  Each write is a fault of its own, so that two
faults tell a failed put, after which the packet is back, from a put and a put-back that
fail, and let one or two packets of a cross-save be lost.  Fairness: the loops go on (`Update`),
time passes (`Tick`), and the main loop asks again as long as work is missing
(`Ask`, strong: users may ask for something else at the moment a delay ends, but not for ever).

Seen.  `ErrorMeansFault` does not hold (constants of `BuffUpdate.cfg`): the comment at
`buffbase.cpp:816` says of a remote buffer that is empty or missing "move on", but
such a file is never opened (`buffpub.cpp:78`), counts as an error, and keeps the
update from flushing.  An update of which nothing was needed counts as a failure and doubles
the delay, and for a client with `runbuffers` that is every update.  A buffer in memory is full
when the *room* it has taken reaches the maximum (`buffbase.cpp:533`), whatever it holds; since
that room never shrinks, an empty buffer then stays full and is never filled again.  `Restocked` exempts
it, and does not hold without `~Full`.  With the constants of the client fetches do not lead there
(`MemoryNeverFull`); packets that the unload puts back are not more than were taken out.
A packet that `GetBufferRecord` cross-saves has been blanked in the out-buffer; when
writing it to the in-buffer fails, once, it is lost (`buffbase.cpp:432`), where fetch and flush put
packets back.
Results that a flush reads from a moo out-buffer carry `RESULT_WORKING`
(`buffpub.cpp:281`), so that they are cross-saved into the in-buffer (`buffbase.cpp:405`)
and come back as work.

### Proofs

`BuffUpdateProofs` proves types and the three safety properties for any packets, thresholds,
delays and faults.  `TypeOK` and `DelayRight` are inductive as they stand.  `Conserved` counts the
places of a packet; the inductive form is `Apart`: the places are disjoint and together hold
all packets (the remote and the local in-buffer may be one), and a packet is given up only
for two faults, or dropped by a cross-save for one; in memory nothing is dropped, and a flush to a file
without a format gives a packet up for the one fault of putting it back.  `Measured` is an action property and follows from `TypeOK` and `Apart`: each
turn of the fetch loop looks at the in-buffer again.

## 10. Pausing, and crunchers without threads

`Pausing` models a Unix client that runs its crunchers as polled procedures
(`numcpu=0`, or threads cannot be made): `CheckExitRequestTrigger`, `CheckPauseRequestTrigger`,
the signal handler, the run loop's use of them, and `RegPolledProcedure`,
`__RunPollingLoop`, `EnqueuePolledProcedure` and `RegQueuedPolledProcedures`.

| TLA+ | code |
|---|---|
| `trig`, `exit` | the bits of `pausetrig.trigger` and `exittrig.trigger` |
| `last`, `lastapp` | whether `pausetrig.laststate` is 0; `lastactivep` |
| `rmw` | the word that `\|=` or `&=` has loaded and not yet stored |
| `paused`, `suspend` | `wasPaused`; `do_suspend` of all crunchers |
| `runlist`, `nextrun`, `held` | table of procedures, `nextrun[0]`, `pollsysdatapaused` |
| `world` | flag files, power source, running programs |
| `pc`, `polled`, `crunched` | place of the run loop; history of the current sleep |
| `CallGoMt`, `Awake` | one call of a cruncher during the sleep; its end |
| `PollExit`, `TimeToQuit`, `PollApps`, `PollBattery`, `PollFile`, `Compare`, `FlagThreads` | the run loop from its sleep to the next |
| `PauseSignal`, `UnpauseSignal`, `ExitSignal` | `CliSignalHandler` |

Of `laststate` only whether it is 0 matters.  The second look at the exit trigger
inside `CheckPauseRequestTrigger` is taken as the one before it; the change from one
program to another is one step; a cruncher that runs as a procedure has priority 0 and no interval.
The pause for a defragmentation (Windows), the CPU temperature, the ini-file change and
the restart are left out.  Signals come while the run loop sleeps (`Signals =
"asleep"`), which is where it nearly always is, or between any two instructions (`"anytime"`).

| run | bounds | shows |
|---|---|---|
| `pausing` | 2 crunchers, 2 programs, a table that grows by 2 entries, signals while asleep | `OnePlace`; under fairness `Resumes`, `Pauses`, `ExitObeyed` |
| `pausing_held` | 1 cruncher, signals at any time | `Resumes` violated |

Two crunchers are needed for a scan that begins at the wrong entry, two programs for
one that ends while another runs.  Fairness: the run loop and its sleep go on, and time
passes, so that each flag file is looked for again and again (strong fairness of the two looks: the
run loop comes by, and `nextcheck` is reached, infinitely often).

Finding, *a cruncher stays on hold*: procedures on hold are released when a check finds that the
trigger has become 0 since the last one (`triggers.cpp:1094`).  A pause signal that arrives after
the comparison suspends the crunchers at once; if it is withdrawn before the next comparison,
the crunchers are no longer suspended, but the one on hold is in no table.  It works again
only after another pause.  The same run would show signals that are lost between the load and the
store of a word (`triggers.cpp:104`).

### Proofs

`PausingProofs` proves types and `OnePlace` for any numbers of crunchers and programs, any piece
the table grows by, and signals at any time.  The invariant `Placed` is about tables: a cruncher
occurs in the table or on hold, once.  The steps are short; the work is in what
`RegPolledProcedure` does to a table with blank entries that it may have to extend, and in
registering all that were on hold one after the other, for which the proof counts them through
(`RegistersAll`, `RegisteredPlaces`).  `Loaded` says of a trigger that is between its load
and its store that it and the bits to be added are bits of that trigger.

## 11. What is proved, what is only checked

Proved, for every value of the constants but for the hypotheses named:

| module | proved | hypotheses |
|---|---|---|
| `Problem` | types, `NoStaleResult`, `RecordCoherent`, `SavedOnce`, `CounterExact`, `NoResultLost`, `ProgressKept`, `PurgeNeverAhead`; implements `ProblemSlot` | for `NoResultLost`, saves of finished packets only (`~HardStop`) |
| `RecordFile` | types; `PutStores`, `Bounded`; implements `PacketStore` | for all but types, one client; for `Bounded`, two packets |
| `Recovery` | types, `CheckpointCovers`, `OnePlace`, `SolutionReported`; `Conserved` | for `Conserved`, moo files and no packets that arrive during the initial load |
| `Rc572` | types, `CursorsAgree`, `SearchedExactly`, `ResultTrue`, `ChecksExact`, `SliceAdvances`; the two counts never differ | |
| `RunLoop` | types, `CoreHasPacket`, `OneRunLate`, `SuspensionExact` | |
| `LoadSave` | types, `HardStopSaves`, `Conserved`, `LimitKept`, `StopsWhenDone`; implements `PacketSupply` | for `HardStopSaves`, `Conserved` and `StopsWhenDone`, other clients use the in-buffer between passes only, and no exit request while the first pass updates the buffers (`~Disturbed`) |
| `BuffUpdate` | types, `DelayRight`, `Conserved`, `Measured`; a buffer in memory never counts as full | for the last, a limit and a number of crunchers a step of growth below the maximum |
| `Pausing` | types, `OnePlace` | |

Each invariant a theorem rests on was model-checked with the constants of its
module's run before it was proved.

The library's theorems of induction take operators, which the provers cannot instantiate.
What is proved by induction is therefore proved from a fact without one: `WFMin` and
`NatLessThanWellFounded` give a set of naturals its least element.  From that come the first and the last of a
set of numbers (`MinOfPlaces` and `MaxOfPlaces` in `RecordFileProofs`, `RecoveryProofs` and `Rc572Proofs`) and,
in `PausingProofs`, induction for a *set* of numbers (`SetInduction`: if a set has 0
and with n also n + 1, it has all).

Only model-checked:

* liveness: `RunReturns` and `FinishedLeaves` (`Problem`), `RefillServed` and `ExitEnds`
  (`RunLoop`), `LimitEnds` (`LoadSave`), `UpdateEnds` and `Restocked` (`BuffUpdate`), `Resumes`,
  `Pauses` and `ExitObeyed` (`Pausing`).  Fairness is out of the prover's reach;
* the two findings, which are counterexamples.

## 12. Not modelled, and why

The models translate what the client decides.  That is a small part of the repository's
183 000 lines of C and C++, and most of the rest cannot be modelled faithfully at any
useful level:

* 76 000 lines of `ogr`, nine tenths of them tables of numbers (`ogrng_dat.cpp`, `ogr_dat.cpp`), and
  13 000 of `rc5-72`: cores of many vendors and processors, pure computation
  behind the interface that `Problem` models; the build for CUDA uses none of the
  RC5-72 ones.  The arithmetic of the kernel of `hyunjin_r72_cuda.cu` is
  a choice of matching keys in `Rc572`.
* 44 000 lines of `plat`: windows, dialogs, services, drivers and CPU detection of some
  twenty systems.  What enters the protocol is modelled where it enters: the hard stop and
  the menu of the console.
* the network (`netbase.cpp`, `netconn.cpp`, 6 000 lines): nothing calls it with
  success, since `BufferNetUpdate` is a stub.
* command line, configuration, menus, console, mail and log, CPU detection and
  selection, benchmarks and self-tests: input, output and tables.
* `probman.cpp`: an array that is allocated before and freed after everything else.

Of the 11 700 lines of the files that carry the client's logic (`problem`, `probfill`,
`clirun`, `buffbase`, `buffpub`, `checkpt`, `triggers`, `pollsys`, `modereq`), the models map about
4 400.  The others are variants for other systems, logging, statistics and time
slices, other contests than RC5-72, and thresholds in time units.
