# A TLA+ verification of frf-fuzz

frf-fuzz is a coverage- and structure-guided fuzzer: one coordinator process
drives crash-only worker processes over pipes, admits interesting candidates
to a content-addressed corpus, follows how the target's signals drift, and
turns lineages that end in a failure into falsifiable "precedents" it then
probes.  This directory models the parts of it whose correctness depends on
order, failure and bookkeeping, checks them with TLC and proves the main
properties with TLAPS.

Paths below are relative to the repository root (`src/...` is its crate).

## The system: components, state, operations

| Component | State it keeps | Operations | Hard behaviour |
|---|---|---|---|
| Crash ledger (`src/execute/crash_ledger.rs`) | two slots (magic, seq, coordinate, CRC) and an echo region in a shared mapping | `commit_raw`, `commit_echo`, `latest_raw`, `echo` | the writer dies between any two stores |
| Campaign loop (`src/execute/coordinator.rs`, `worker_process.rs`) | pending orders, workers, startup-death counts, executions, interrupt flag | dispatch, poll, `handle_worker_death`, heartbeat, checks, shutdown, checkpoint | deaths, signals and frames at any instant; one thread polling many lanes; error exits |
| Worker (`src/target_runtime/worker.rs`) | current order, local baseline, compare hits, signal tracker | frame loop, `execute_batch`, `window_execute`, watchdog alarm | dies in or between executions |
| Order scheduling (`src/scheduler/`) | WRR counters, `next_index`, amplify and probe queues, feature deltas | `pick_class`, `plan_*`, `build_order` | starvation, stale queue entries, deltas that miss busy lanes |
| Results and corpus (`coordinator.rs::process_result`, `src/corpus/`) | corpus index, features, admission sequence, lineages | admit, rebuild, minimize | crash between the objects of one admission |
| Precedents (`src/precedent/`) | revisions, probe queue, in-flight keys | match, enqueue, probe, record, admit | repeated and contradicting outcomes, leaked in-flight keys |
| Object store (`src/store/`) | objects, refs, temporary files | `put`, `set_ref`, `fsck` | crash between write and rename, two writers |
| Residual structure (`src/dsfb/`) | regime observers, morphology accumulators | `feed`, `push`, bank scoring | hysteresis, saturation |
| Signals, coverage and compare runtime (`src/target_runtime/`, `src/observe/`) | counters, compare ring, signal vector | callbacks, scan, snapshot | ring overflow |
| Mutation engine (`src/mutation/`) | none (pure) | `apply` | determinism |
| Wire and encodings (`src/execute/protocol.rs`, `src/canon.rs`, `src/id.rs`, the codecs of every record) | none | encode, decode, seal, open | an encoder and its decoder disagree about a bound or a field |
| Tapes and boundary witnesses (`src/tape/`, `src/boundary/`) | objects | replay, minimize, compare revisions | budgets, targets that are not deterministic |
| FRF and Gemel bridges (`src/frf_bridge.rs`, `src/gemel_bridge.rs`) | records, claims, the shared fixture | verify, compile, publish | kills between records, two processes, an oracle edited meanwhile |
| SIMD and GPU (`src/simd/`, `src/gpu/`) | none (pure) | clear, scan, compare, merge | chunk borders and tails |
| Experiments, CLI, reports | files, reports | drive and print | mostly data conversion |

How they interact: the coordinator writes work orders to a worker's stdin and
reads frames a reader thread forwards from its stdout over a channel; the
worker writes the ledger file the coordinator maps and reads after its death;
the coordinator writes objects and refs to the store, from which a later
campaign rebuilds its index.

What makes each part correct:
- ledger: whatever died when, the reader finds the newest complete commit and
  never a mix;
- campaign: pending orders match what is in the pipes, no result is lost,
  every lane has work and is served, an interrupt stops it, every exit leaves a
  checkpoint;
- worker: while the target runs, the ledger and the echo identify exactly this
  execution; a death becomes a finding about exactly the execution that caused
  it; a result tells of the order's executions and of nothing else;
- precedents and residual structure: every outcome counts once, every episode
  is stored once and is what the samples were, a shape remembered of a crash is
  recognised when it comes again;
- court and Gemel: what is recorded as verified was captured on the finding's
  own input, and every claim is backed by a record that is there;
- encodings and kernels: the decoder reads what the encoder wrote and refuses
  everything else; the vector operation is the scalar one.

## Modules

| Module | Models | Checked by |
|---|---|---|
| `CommitRegister` | abstract: what a ledger promises its reader | as a property of `CrashLedger` |
| `CrashLedger` | `crash_ledger.rs`, store by store | `MC_Storage` |
| `DurableStore` | abstract: what put and set_ref promise | as a property of `ObjectStore` |
| `ObjectStore` | `put`, `set_ref` and `fsck`, one file operation at a time, with kills and power failures | `MC_Storage` |
| `Campaign` | the loop of `run_campaign` with its workers and pipes | `MC_Campaign` |
| `WorkerLane` | one lane's execution stages and the attribution of its deaths, over `CommitRegister` | `MC_WorkerLane` |
| `FeatureSync` | corpus index, deltas of the orders, the workers' baselines and their results | `MC_Exchange` |
| `WorkerBatch` | calibration, the windows, ring, hits, drift, batch summary and discoveries of one worker | `MC_Exchange` |
| `Wire`, `Payloads`, `Codecs` | the writers and readers of bytes; the layout of every payload, as written and as read; one payload on its way | `MC_Exchange` |
| `Kernels` | the vector operations, scalar and AVX2, and the coverage counters | `MC_Exchange` |
| `Mutation` | the sixteen mutators | `MC_Exchange` |
| `PrecedentBank` | revisions of precedents, the probe queue, in-flight keys and probe outcomes, with restarts | `MC_PrecedentBank` |
| `LineageShapes` | the accumulator of a lineage, the precursor of a crash, the match of a live shape | `MC_PrecedentBank` |
| `Admission` | seeding, the puts of an admission, kills between them, `rebuild` | `MC_Admission` |
| `Scheduler` | class, parent and indices of each order; the amplify and probe queues; the checkpoint | `MC_Scheduler` |
| `RegimeObserver` | what `feed` makes of the samples of one signal, as operators | through `RegimeEpisodes` |
| `RegimeEpisodes` | the observer of one signal of one lineage and its stored episodes, over campaigns and kills | `MC_RegimeEpisodes` |
| `StructuralEpisodes` | the structural substrate of one root, its verdicts and episodes, over campaigns and kills | `MC_RegimeEpisodes` |
| `Court` | a finding's replay, verification, claims and publication; the commands on stored findings | `MC_Court` |
| `Minimization` | `boundary`, `tmin`, `cmin` and the replay of the tapes they leave | `MC_Court` |
| `StorageProofs` | theorems about `CrashLedger` and `ObjectStore` | tlapm |
| `ExecutionProofs` | theorems about `Campaign` and `WorkerLane` | tlapm |
| `PrecedentBankProofs` | theorems about `PrecedentBank` and `LineageShapes` | tlapm |
| `RegimeProofs` | theorems about `RegimeEpisodes` and `StructuralEpisodes` | tlapm |
| `ExchangeProofs` | theorems about `FeatureSync`, `WorkerBatch`, `Mutation` and `Kernels` | tlapm |
| `CourtProofs` | theorems about `Court` and `Minimization` | tlapm |
| `AdmissionProofs`, `SchedulerProofs` | theorems about the module of that name | tlapm |

**CrashLedger.** A commit is `BeginCommit` (slot and sequence number are
computed) and one `StorePart` per field.  The code argues that only "CRC last"
matters and that even a reordered CRC is harmless; the model takes it at its
word and lets the five stores land in any order, with `Die` between any two.
The checksum is modelled as the body it was computed from (CRC-32 without
collisions, the residual risk the code documents).  `LatestRaw` is the reader's
scan.  The refinement maps the ledger to `CommitRegister`: a commit takes
effect at the store after which the target slot reads as the new commit.

**Campaign.** `phase` and `at` are the coordinator's program counter; the
dispatch loop, the poll loop and the checks are one action per lane or event.
`inbox` and `outbox` are the pipes (with the event channel) as frame sequences.
The content of an order is abstracted away; what is kept is that a frame on a
lane with a pending order is decoded as its result whatever its kind, that Eof
comes after the last frame, that every `?` is an exit without checkpoint, and
that the poll starts at lane 0 after each event.  `handle_worker_death` is one
action: between its steps other processes only append to their own pipes, which
commutes with it.  Deaths are not bounded.  A campaign with a limit ends only if
results get through: a death adds no execution, so `CampaignEnds` excludes the
campaigns in which the worker of lane 0, the one lane every poll begins with, dies
for ever (see the observations).

**WorkerLane.** The program counter `pc` walks through mutate, commit, echo
length, echo bytes, window.  The ledger is an instance of `CommitRegister`:
`StorageProofs!LedgerImplementsRegister` justifies using the atomic register
instead of the slots.  The candidate is a free choice; `Reconstructed` is exact
when the code calls the mutation engine with the arguments the worker used, and
free when it does not (another order's parent, or compare hits that are gone).
`made` and `cause` are history variables.

**PrecedentBank.** `revs` is what the store holds under each id, `current` the
current revision of each family in memory, `queue` and `inflight` the probe
queue and its keys, `pend` the order of each lane.  Ids are numbers in the order
the store lists them; a new one is a free choice, as it is a hash.  `Judged` is
the evaluation of a probe's batch summary.  Which family a morphology matches is
a free choice here and `LineageShapes` in detail.

**LineageShapes.** `Observations` are the signal vectors of entries; `Residual` of
parent and child is folded into the accumulator, whose shapes `choose_precursor`
looks through when the lineage crashes and `matches` compares a live shape with.
Parents are free: the code folds every entry of the same root and mutator in the
order of admission, siblings included.  `PersistedShapeIsRecognised` is claimed
of lineages in which each entry descends from the one before, and between whose
kept shapes lie at most `LeadMax` generations of other mutators (`Gradual`); see
the observations for the others.

**ObjectStore.** A process runs one operation at a time; each of its file
operations is an action, so a kill or a power failure falls between any two.
What a power failure leaves of a file that was not synced, of a rename whose
directory was not, or of a directory made since the last one, is a free choice: the
parent of an object's `<2-hex>` directory, and of `refs/`, is never fsynced, so a
directory takes all that is in it along unless it has outlived a power failure
before.  The fsync of the directory itself is best effort and may fail without put
noticing.  `DurableStore` is what the two operations promise for all that: only a
power failure removes an object, and none of those it keeps, which are the objects
that outlived one before and those put, with their fsyncs, into a directory that
had.  (A put that finds the object there writes nothing and promises nothing
more.)  A store starts empty, its directories new or old.  `FsckFails` is the command over objects and refs;
`FsckPasses` says that an object is there whole or not at all, and that kills alone
never leave what the command reports.  The temporary name of a put is a counter of the
process without its id, so two processes share their names: the run has one process,
and the hazard is an observation below.  What two processes can spoil is which bytes
stand under an id; that the ids stay is proved for any number of them.

**Admission.** The store's operations are atomic here (`ObjectStore` justifies
it for one process), and kills fall between the puts of one admission.
`Reason` is the decision over coverage features, state features and structural
identities; a morphology is abstracted to the sequence of edges it was computed
from, over one signal axis.  `Start` is `rebuild` and `End` the graceful exit; the
folds over the corpus in admission order are those of the code.

**FeatureSync.** One event per pass of the loop: `Dispatch` gives every idle
lane the deltas and clears them; `Process` or `HandleDeath` is the event.  A
discovery is the set of features of one execution.  `dropped` is a history
variable: what a worker suppresses although nobody keeps it, because its result
had no room for it or its input was in the corpus already.

**WorkerBatch.** One worker from its constructor to the results of its orders:
registration of the counter arrays, `CalibrateWindow` (repeated until the
footprint is stable), then per order the mutations with the hits the execution
before left, the window, the scan of ring, counters and signals, the drift
tracker, the summary and the discoveries.  What the target does in a window (the
compares it pushes, the edges and signals it touches) is free, and so is what the
window's own code compares before and after it (`Around`): its edges are masked by
the footprint, its comparisons are not, so `ReportsItsOwn` claims of the events only
that they are this window's.

**Wire, Payloads, Codecs.** A payload is a sequence of units, one per number,
and a layout a sequence of fields; each function of the code that writes or reads is
one layout, so the encoder and the decoder of a record are two independent
translations of two functions.  A batch summary may hold the sum of a signal no
execution touched, which is not written.  `Codecs` sends every record of a few sizes
through them: whole, cut short, extended, or with one unit changed.  Ids are
injective and a checksum notices every change; the widths of numbers are left out.
`RoundTrip` names the four values an encoder sends and its decoder refuses
(`OneSided`) and what of an accepted value is not told (`Part`); everything else
comes back as it was sent.

**Kernels.** A byte is the set of its bits.  Each operation stands there twice, as
the scalar code does it and (`Fast...`) as AVX2 does it by chunks and a tail; chunk
borders, empty buffers and tails are those of the code with a smaller `Width`.
The counter arrays are registered, cleared and scanned with them.

**Mutation.** Each mutator is the set of outcomes its draws allow for a parent,
an index and a context; `Byte` is small and positions count from zero.  A slice
outside its buffer is the outcome `Panic`, which `MutantsSound` excludes.

**Scheduler.** Dispatch fills the idle lanes in their order, then one event is
handled, as in `run_campaign`.  `slot` is the round robin's counter modulo
`Period`, a multiple of every sum of weights: the u64 counter of the code gives
the same choices until it wraps.  The class Discriminate is never available,
since no admission declares a confuser.  `waited`, `used`, `repeated` and
`killed` are history variables.

**RegimeEpisodes.** An entry is the value of the signal, or `Still` if the
parent had the same: the coordinator feeds the observer with moved axes only.
`Replay` is one round of `rebuild`'s loop and writes at once, since a kill
within the round leaves the same as one before it.  `Admit` and `WriteEpisode` are
the two puts of an admission.  The values are free, because an entry's parent may
lie outside the lineage.  `closed` is a history variable.  Left out are the
extreme residual of an episode (nothing decides by it) and `reset`, which no code
calls.

**StructuralEpisodes.** `edges` are the admitted edges of one root, each a function
from the axes it moved to the value and the policy state DSFB's chain gives
there; `substrate` is what the coordinator has in memory, `owed` what an
admission has derived and not yet put, `spans` the stored episodes, `running`
the campaign.  Calibration is counted, not computed; the chain is deterministic,
so a replay finds the same policies.  `StructureKept` derives the episodes from all
edges by a definition of their own (when an axis reviews, when none does) and
compares.  `followed` and `unstored` are history variables: the edges a campaign
with the channel followed, and what a kill kept from being put.

**Court.** A campaign and a command share the store; `at` and `job` are what each
is about to do and with what.  An object is its own id, so a record holds what it
names.  `frf` is the court library seen from its calls: it runs the admitted
bytes on the fixture file that is staged.  The oracle may be edited once between
two steps; `Exclusive` says whether one process at a time
uses the fixture, and only then the properties hold (see the observations).

**Minimization.** `dies` is the set of inputs that kill the target.  Each step is
one call of the predicate within the budget; the passes over a pair, the
sweeps over one input and the greedy cover of the corpus are those of the code, and
the tapes they leave are replayed by `ReplayTape`.

## Runs and bounds

Where two or more modules share a run, its MC module lets one part run at a time
while the others stay in their initial states: their state spaces add up and do
not multiply, and none shares state with another.

Passing runs:
- `storage`: the ledger with two coordinates and four commits per writer; both
  slots are written twice, so every part of a slot can be new, one commit old or
  empty, and a fifth commit repeats the third with other numbers.  The store with two
  objects and one ref, one process restarted after a kill or a power failure
  between any two file operations, before and after the same object was written.
- `campaign`: two lanes, a limit of three results or none, any number of deaths, one
  Ctrl-C (to the coordinator or to the whole process group), and heartbeats while
  fewer than three frames are in a lane's pipes.  Two lanes suffice for one to be
  busy, dead or queued while the other is served; three frames for an order and two
  heartbeats to be under way, so that a reply meets the next order.  In
  `exit_without_checkpoint` there are no heartbeats.
- `worker_lane`: orders of two executions, so a death meets the first and a
  later index, the same and the next order; two kills reach every stage in two
  incarnations of the worker.
- `precedent_bank`: two roots, two lanes, four revisions, two admissions, one
  restart.  Two probes of one family can be out at once and their outcomes meet
  in either order; two revisions can share an `updated_seq` and be reloaded.
  Of a lineage six entries and one of another mutator: three generations lie far
  enough before a crash to be chosen, and a shape may last through some only.
- `admission`: two seeds, one of them twice, three further inputs and two
  campaigns, each with the residual channel or without: a lineage of three
  generations, an entry that is news only by structure, and a second campaign
  that resumes what a kill left.
- `scheduler`: two lanes, one seed and two entries to admit on either side of it
  in id order, two families, an amplify queue of two, four orders, any number of
  campaigns.  The slot a campaign starts at is free, so four orders meet every
  slot with every set of classes; two lanes amplify one key at once.
- `regime_episodes`: steps of one to three units against thresholds of one and
  two, dwells of one, a cap of three samples, eight entries, two campaigns.  Eight
  entries are the fewest that hold two episodes; both reasons to close occur,
  and the distance is the tightest that holds; `Settling` is the least that
  `SettlingAssumption` allows here, four samples in which the largest residual decays
  and five of dwells.  Of the structural
  substrate five edges over two axes, calibrated by one window of two, in two
  campaigns: an episode opens, closes and opens again with the other axis still
  calibrating.
- `court`: two inputs and two oracles, of which one disagrees on one input only;
  two starts, one kill, one edit.  Pairs of inputs of up to two bytes and single
  inputs of up to three with budgets of none, six and twenty runs, so that each pass
  is cut and completes; every corpus of three entries over three features.
- `exchange`: two lanes, two features and orders of two executions with room for
  one discovery and one death: truncation, refusal and death meet a feature the
  other lane reports at the same time.  Two orders of three executions of one
  worker, with a ring of two and room for one hit: both overflow.  Every
  payload with none, one and two elements in its lists.  Every buffer of up to four
  bytes with chunks of two, so none, one and two whole chunks with and without
  tail.  Every mutator on every input of up to four bytes of one bit.

Runs that show a disagreement between the code and what it says of itself (one
property each; the quotations are in PROJECT.json):
- `exit_without_checkpoint`: Ctrl-C can end the campaign without a checkpoint.
- `max_run`: the summary's `max_run` is the last run of a batch, not the longest.
- `registration_ignored`: a refused counter array is latched as an error nobody
  looks at, and the worker starts.

Fairness (`Campaign!FairSpec`): weak fairness of the coordinator, one thread
whose waits are bounded by `AWAIT_POLL`, and of each worker, whose executions
end by returning or by the one-shot alarm.  Nothing is assumed of deaths,
signals or heartbeats.  Deadlock is checked in every run; the stuttering steps
`Rest` are the states in which the program has ended or a bound is reached.

## Proofs

Each module that is proved about has one inductive invariant, checked by TLC
before it was proved; the one of `RegimeEpisodes` quantifies over functions, so TLC
checked its consequences only.  `PreviousStaysReadable`, `DamageOnlyInFirstCommit`,
`TornNeverWins`, `LatestAdvancesByOne`, `EveryLaneHasWork`, `MetasAppend`,
`DeltasAreAdmitted`, `MemoryIsReplay` and the type invariants are proved and no run
of their own checks them.

`StorageProofs`
- Ledger: between commits both slots are settled and hold neighbouring sequence
  numbers; during a commit the other slot holds the predecessor, and each part of
  the target is the new one or is at least two commits old, so checksum and body
  agree only when all are old or all are new.  From it: type correctness,
  `TornNeverWins`, `PreviousStaysReadable`, `DamageOnlyInFirstCommit`,
  `LatestAdvancesByOne` and the refinement of `CommitRegister`, for every set of
  coordinates and every `MaxSeq`.
- Store: a temporary file is linked under no id until its rename, a published file
  is not written again, and what a reference names was put before.  From it
  `FsckPasses`, for one process (`\A p, q \in Procs : p = q`), because the temporary
  names of two processes are the same (see the observations).
- Store, with any number of processes (`SharedInv`): a rename takes only temporary names
  away, a name is published before its directory is fsynced, one that lasts is
  there, what is published or being put has its directory, and what is kept is in
  one no power failure takes.  From it type correctness and, step by step, the refinement of `DurableStore`.

`ExecutionProofs`
- Campaign: the lanes below the dispatch cursor are pending and therefore all
  are in the poll.  From it `EveryLaneHasWork`, and two facts about the code's dead
  branches for any number of lanes: `startup_deaths` never leaves 0, and a heartbeat
  reply always ends the campaign.  The balance of a lane (orders in its pipe, the one
  its worker holds, and the answers that wait, are together one if it is pending,
  else none) gives `PendingIsInFlight`, and with it `NoResultDropped`: when
  Eof is read, nothing that answers an order is left in the pipe.  What can be
  proved of the two liveness properties, for any number of lanes, deaths and
  heartbeats: a campaign with a limit, or interrupted, has fuel (`Rounds`: the
  results wanting and the dead lanes; `Leg`: the way to the next event; `Living`
  workers; the `Chores` of each; compared part by part) that is made of naturals
  (`FuelIsFinite`).  Every step lowers it, worker's, environment's or coordinator's,
  save a look at a silent lane, a heartbeat, which adds chores but no round, and
  before an interrupt a death, which adds exactly one round, for no code counts it
  (`CampaignBurnsFuel`); and a lane that is alive and silent in the poll has an order
  or a heartbeat to work on (`NobodyWaitsInVain`).  So a campaign handles at most one
  event more than there are results wanting and deaths, and once interrupted one;
  and the polls cannot go on for ever unless a worker that can step never does, which
  fairness excludes.
- WorkerLane: each stage hands the next what it wrote.  From it
  `CommittedBeforeWindow`, `DeathInWindowAttributed` and `NoStaleBlame`, for every set
  of inputs, batch size and number of kills.

`AdmissionProofs`
- Sequence numbers are 0..n-1 without a gap, every meta is linked, and each stage of
  an admission in progress has what its next put will link.  From it `LinksResolve`
  and `MetasAppend`.
- A new entry is the last in the order and its parent is there, so the
  replay of every older entry stays what it was and the new one appends to its
  lineage; memory is what a rebuild would find, but for the one entry that has its
  meta and not yet its morphology.  The position of an entry in the order is
  its sequence number because as many numbers lie below it (a bijection of finite
  sets), and where a lineage begins is a least number.  From it `StartsClean` and
  `RebuildMatchesLive`, for any inputs, features and campaigns.  An accumulator keeps
  its type along every prefix of a lineage (by the least prefix without one), so the
  types of the store and the memory hold too.

`CourtProofs`
- Court: every record is sound from the moment it is begun (its run is of
  the version it names and, with the fixture to itself, of its own input; a
  verdict rests on a receipt and a divergence), each job carries what its next step
  puts, each boundary has what it claims, and the store only grows.  From it
  `SkippedIsCovered`, `ClaimsBacked` and `LinksClosed` for any two processes,
  and `VerifiedOnOwnInput` and `RunsConverge` under `Exclusive`, without which TLC
  refutes them.
- Minimization: the pair is one of opposite outcomes, and every move before the
  sweep's position makes no pair unless the budget is spent; a move that is made
  lowers the distance, because the two sums over the bytes are equal up to the moved
  byte and keep their order after it (by a least number).  Before the position of
  `tmin`'s pass no byte can go, unless one went in that pass, which is then followed
  by another.  While a feature of the corpus is uncovered an entry gains something,
  so there is a best one (least numbers of gain, size and id), and each choice
  covers one more.  From it `MinimizedKeeps`, for any inputs, targets, budgets and
  corpora.

`ExchangeProofs`
- FeatureSync: `SuppressedIsReported` and `DeltasAreAdmitted` are inductive
  together, since a baseline only grows by what an order or an execution brings.
  Its types say that a result never outgrows its room.
- WorkerBatch: after n pushes the ring holds the last `RingLen` events, event j in
  slot j mod `RingLen`, whatever was in it; the two copies of a snapshot
  put them in order again, the target's and the window's own.  That needs numbers less than n apart to differ mod n,
  and a least-number induction over the pushes; the footprint is the window around
  the target once calibration has ended, and a window leaves no more hits than
  one record holds.  From it each discovery tells of the execution with its index:
  `Reconstructs` and `ReportsItsOwn`.
- Mutation: each mutator yields inputs for an input, because its blocks lie inside
  their buffers, inserts are cut at the bound, a flipped bit stays below the byte's
  power of two, and the bytes of an integer's value are again its window (a least
  number over its bytes); no substitution done means no byte changed.  From it
  `MutantsSound`, for any bounds, parents, entries, compare hits and draws.
- Kernels: every offset is in exactly one chunk or in the tail, and the chunks are in
  order.  A count is a sum of ones, a sum over a buffer is the sum of its pieces'
  sums (`SumChunks`), pieces computed byte by byte join to the whole (`LanewiseIs`), the
  first and the last difference are those of the first and the last chunk with one
  (`FirstByChunks`, `LastByChunks`), ascending lists of pieces join to the ascending
  list of the whole (`AscJoin`), and what was recorded so far is the first `cap` of what
  was found so far (`RecordIs`); an offset and the first of its group share their bit of
  the mask.  Hence `SameAsScalar`.  A scan of all arrays lists, array by array, the
  entries of each (`Listed`) and reports the first `cap`; the list is as long as the set
  is large because it repeats nothing, so `ScanConsumes`.  Both for any width, group
  that divides it, buffers and room.

`SchedulerProofs`: each class has a home slot that is its own whatever other
classes have work (0 for Explore, the weight of Explore for Amplify, the last
slot of the period for Falsify), so the orders since that slot bound its wait;
the next index of a parent is beyond all that were sent, in memory or, between
campaigns, in the checkpoint.  From it: `EveryClassServed`,
`IndicesNotRepeated`, `FrontiersAreAdmitted`, for any weights and corpus.  The amplify
queue is finite and never outgrows its cap (`QueuesAreBounded`): a drift adds one key at
most, and then there is a last one to drop, the one with the fewest after it, since
priority and key order the queue totally; a child that climbs replaces its parent.

`RegimeProofs`
- Observer: its state bounds from below how many samples passed since the last
  close; the fold over the entries is a function `h` the invariant asserts to exist
  and each admission prolongs by one, memory is `h` at the entry it has got to, and
  all episodes are among those `h` yields; an episode that closed in any campaign
  closed after all those before it.  From it: `NoEpisodeLost`, `EpisodesDisjoint`,
  `EpisodesApart`, and that the observer in memory is the one a replay of the whole store
  would end with (`MemoryIsReplay`).  Along `h`, by a least number, the deviation is the last sample
  minus the nominal, the nominal is the entry the last episode closed at or the
  first sample, and the open episode is that of the reference definition as far as
  it goes; hence `EpisodesTrue`.  The smoothed residual stays within `Scale` squared
  times the spread of the values, because what a sample takes off there is at least
  what it adds; without movement its bound loses its own quotient by `Scale`, on both
  sides of zero although the shift rounds down, and below the drift threshold each
  further sample brings a run or a dwell one closer to its end (`Rank`), from a drift
  through an episode and its recovery to Stable.  Hence `FlatSettles`, the claim of
  regime.rs:130-134 that the fixed point does not stick, with the number of samples
  it takes: those of the decay, then `MaxDwell + 2 * DriftDwell`.  All for any
  thresholds and values.
- Substrate: for every prefix of the edges that was replayed or admitted, each
  axis's stream is where the axis's own moves lead (calibrating with exactly those,
  or evaluated with the verdict it got last), and the open episode is the longest
  span that ends there; the store holds each edge's verdicts and each span, but for
  what the admission in progress owes and what was left unstored.  The calibrating push
  is unique because the prefix that first varies is (a least number).  From it
  `StructureKept`, for any axes, policies, windows and campaigns.

`PrecedentBankProofs`
- Bank: what memory names is in the store and of the family it is named for, a
  queue holds one probe per root, and no revision is from the future; a new
  revision continues the current one of its family, found at a restart because a
  least element of a set of naturals exists.  From it: `OneProbePerKey`,
  `EveryOutcomeCounted`, `StatusFollowsHistory`, for any roots, profiles, lanes, ids
  and bounds, and any law of evaluation over the four outcomes.
- Shapes: the history is a run of kept shapes, deeper and deeper where each entry
  descends from the one before, and a precedent remembers the history it was chosen
  from; the choice exists as a least number, and the last repetition in range of
  the chosen shape as another.  From it `PersistedShapeIsRecognised`.

Induction: no prover takes the library's induction theorems, so where one is
needed it is a least number (`LeastNumber`, `Least`, `Smallest`): a set of naturals that is not
empty has a least element, proved from well-foundedness by contradiction.

Assumptions: the named ASSUMEs of the modules (constants are naturals, model
values differ from records and from stages, the target's edges are not those of the
window around it, a vector holds whole groups; the drift threshold is not 0, as in
the one configuration the code has, and the values of a signal have a smallest and a
greatest, as those of a u64 do), evaluated by TLC in the runs; and the two hypotheses named above: one process on an
object store, for `FsckPasses`, and one on a court.

Only model-checked: liveness (`CampaignEnds`, `InterruptHonoured`; fairness and ENABLED
are out of this prover's reach, so the last step, from the fuel to the end, is TLC's) and
what the encoders and decoders compute (`RoundTrip`, `Exact`): layouts nest, so `Lay`
and `GetAll` are RECURSIVE operators, which the provers do not take.

## Observations

Seen while modelling, and not turned into runs of their own.

Campaign and worker:
- the reply to a heartbeat is decoded as a work result and ends the campaign
  (theorem `HeartbeatReplyAborts`); the wait for a worker's hello has no timeout;
- `startup_deaths` never leaves 0 (theorem `StartupDeathsNeverCounted`), although
  the coordinator documents a limit of them (coordinator.rs:67-68, 2095);
- the poll restarts at lane 0 after each event, so only the first lane is sure
  to be served;
- a campaign with `--max-execs` whose orders all end in deaths never ends:
  `handle_worker_death` adds nothing to the executions (coordinator.rs:2047-2235),
  and the limit of startup deaths does not apply after a hello;
- a worker that dies between two executions is blamed on the last one it
  completed, one that dies between the two copies of the echo on a mix of a new
  coordinate and older bytes, and only the replay tells; an empty candidate that
  crashes is recorded nowhere; a hang is recorded as a crash, and
  `FindingKind::Timeout` is never produced (docs/ARCHITECTURE.md:235-237);
- the ledger's first commit, torn, reports damage and ends the campaign;
- an execution that touches more than 65536 counters makes `encode_discovery`
  refuse, the worker exit, and a crash be recorded that was none;
- an empty footprint is taken for stable after one calibration window, and
  `footprint_calibrate` (sancov.rs:381-407) compares its third scan with itself;
- "the captured range is exactly the target's events" (worker.rs:644-646) holds only
  as far as the compiler leaves no integer comparison between `cmp::reset`
  (worker.rs:626) and `cmp::snapshot` (652): those of the window's own code, which
  cmp.rs:8-15 says cannot be excluded, are in the ring too, ahead of the target's and
  behind them, take room among the events and hits of a discovery, and are offered
  to the compare mutators, those of the calibration windows included;
- `max_run` (worker.rs:503) also decides which drifts are kept
  (coordinator.rs:1285) and whether a probe's minimal run was reached
  (probe.rs:232);
- the drift tracker skips lost signals while `sum_abs_delta` counts them
  (signals.rs:508); `encode_batch_summary` (work_order.rs:427-434) does not send the
  sum of a signal no execution touched, though the summary is to carry "the full
  observation stream" (signals.rs:462-465): a probe whose axis falls silent reads
  as one without movement, and supports `MovementAbates` (probe.rs:248-249).

Orders, deltas and scheduling:
- deltas are cleared after each dispatch, so a feature admitted while a lane is
  busy is never sent to it, though `WorkOrder::new_features` is documented as
  everything admitted since the last order; a truncated result's features stay
  suppressed in its worker;
- an order may exceed the megabyte a frame holds (protocol.rs:95-104), which ends
  the campaign at `send_order` (coordinator.rs:841), against work_order.rs:20;
- the dictionary's growth is counted against all its tokens, the user's too, so
  with n user tokens discovered ones are merged up to n late (coordinator.rs:1256),
  and the merge starts from the order's dictionary, which may be older;
- the boost of an advanced amplify frontier is one magnitude bucket and loses to
  a drift two buckets higher; a lineage that ended in a finding is amplified on
  when its frontier moved, or another lane reports its drift, meanwhile;
- after a campaign dies without its checkpoint its index spaces start anew.

Mutation:
- `changed` is set by byte_flip, block_overwrite, splice, the dictionary and the
  influence mutator even when no byte changed, and the worker executes
  candidates that are not changed (worker.rs:583-587), against mutation/mod.rs:248;
- add_sub draws from -35 to +34, not to +35 (integer.rs:51, 62); a block's position
  never reaches the last place it would fit;
- the generator's refill counts up the word that holds the generation, so block 1
  of generation g is block 0 of g+1 (prng.rs:107-110, 328).

Encodings:
- several encoders lack a check their decoder has (the count of an order with an
  override, features of an override, class of a precedent, policy of an episode:
  `OneSided`); work_order.rs:8-10 says they agree;
- `decode_signal_schema` panics on a payload of one byte (observe/signals.rs:48);
- the checksum bytes documented in the frame header are never filled, the CRC
  trails; a checkpoint with bytes after its end is accepted, and one of another
  version read as empty.

Precedents and residual structure:
- revisions with equal `updated_seq` are told apart by hash when the bank is
  reloaded, so a contradiction can be forgotten; the cap of the bank counts
  revisions and not families; the in-flight key of a probe whose worker dies
  with nothing attributable is not released;
- a probe whose family is contradicted while it is queued is dispatched all the
  same, although `Contradicted` is documented as never scheduled again: only
  enqueueing looks at the status;
- a match is documented as "not yet at the terminal depth" (matching.rs:5-8), but
  only a depth 16 beyond the profile's is refused;
- the precursor's "persisted at least one further generation" looks at the next
  admission of the same root and mutator, which may be a sibling; an entry as deep
  as the last is accepted unpersisted; eight shapes too close to the crash fill
  the history and no precedent is written;
- a kept shape more than `MATCH_LEAD_MAX` generations after the one before, the rest
  being other mutators', is beyond the lead of the precursor when it is first seen:
  the precedent never matches (with `LeadMax` = 1 the run refutes
  `PersistedShapeIsRecognised` without `Gradual`, and passes with it);
- the exact cumulative deltas of a shape (morphology.rs:340) add up the edges of
  siblings and skip those of other mutators;
- `peak_ordinal` is documented as the edge of the highest policy
  (debug_bridge.rs:311-312) but is the last active one (:914); an axis whose last
  move left it in Review keeps an episode open until it moves again;
- in the fuzz bank (`fuzz_bank.rs`, not modelled): ScheduleSensitivity counts an axis
  that is both co-active and in review twice; AbruptBehavioralSlew's "single-edge
  jump" reads the cumulative magnitude; PersistentBehavioralDrift can be named with
  nothing sustained; `dominant_dir == Oscillatory(3)` never holds;
- `rebuild` persists regime episodes, although its comment says nothing is
  persisted; it does not persist structural verdicts and episodes, whose objects
  its comment takes for written although a kill or a campaign without the residual
  channel may have prevented them (coordinator.rs:551-554); it does not restore
  `last_class` and `last_verdict_axis`;
- an observer is fed with moved axes only, so `FlatSettles` holds of a signal
  whose samples it gets and an episode stays open while the axis does not move;
  with the lineage's entries drawn from anywhere under the root, the smoothed
  residual follows admission order and not ancestry;
- a `max_dwell` of 1 gives episodes of two samples.

Store and corpus:
- the first object of a new `<2-hex>` directory can vanish with the power after
  `put` returned, because nobody fsyncs `objects/blake3` (object.rs:70-72), and so can
  any object whose directory could not be fsynced (object.rs:81-84 drop the error);
  the same holds of the first ref.  No document promises more than "dir fsync where
  supported" (store/mod.rs:18-19);
- `put` returns early when the object exists, without syncing the directory its
  rename went to; a ref can survive a power failure its object does not;
- two processes write through one temporary path (object.rs:114, 157, 165, against
  store/mod.rs:46-47), and there is no lock on a store;
- a campaign killed while seeding never admits its remaining seeds; a tape
  whose put a kill prevented is never written; `MAX_CORPUS_ENTRIES`
  (corpus/mod.rs:29-31) is never enforced.

Court and commands:
- two processes share `fixture.bin` (frf_bridge.rs:9-13), so a court may run on the
  other's input; with a relative --root and a pinned directory it is refused;
- any error of `recv` counts as a death, in `verify` as in `classify_and_replay`;
- publishing is not idempotent (its records hold the time); a kill between the
  verification record and the boundary leaves a finding that is never published;
  `verified_inputs` is extended before the court runs;
- `boundary` whose budget ends while it classifies returns an error and loses
  everything, though minimize.rs:19 says the search runs until then; its error
  message offers `--left`, which does not exist; `tmin` stores its result even
  when the input never reproduced.

## Not modelled, and what could follow

Left out for good: byte widths of encodings, the generator behind the mutators'
draws, DSFB's own chain (sign, grammar, policy; an external library), the GPU
back end (it plans and falls back to the CPU), the experiment driver, argument
parsing, printing, building the target, and the external FRF and Gemel libraries.
The gates of the fuzz bank (`dsfb/fuzz_bank.rs`) are one long comparison of a signature
with thresholds; a model of them would be their transliteration.

What could follow: two processes on one object store (`Court` with `Exclusive`
false is one), the properties above that are only model-checked as theorems, and the
store's own steps below `Admission` instead of atomic puts.
