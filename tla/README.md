# Splitbrain: verification project

Splitbrain starts a small key-value store as real processes, puts a faulty TCP
proxy in front of each and between each pair, drives register operations at it
while a nemesis changes the faults, records what every client was told, and
decides with a Wing-Gong search whether that history is linearizable. Its
worth rests on two things: that a verdict is never wrong, and that the apparatus
around the store (clock, recorder, identifiers, proxies, supervisor) never makes
a correct store look broken or hides a broken one. This directory models both,
checks them with TLC on small instances, and proves every safety property the
passing runs check with TLAPS, for all instances.
Paths below are relative to `src/`; every definition that stands for code is
mapped to its lines in `PROJECT.json`.

## 1. Inventory of the system

| Part | State it keeps | Operations | Talks to |
|---|---|---|---|
| register models, `internal/model` | the register's value | `Step`, `Init` | the checker |
| history, `internal/history` | a slice of operations with invocation and completion times | `Validate`, `SortByInvoke`, `Keys`, `ByKey`, `DropFailed`, JSONL | recorder writes, checker reads |
| per-key search, `internal/checker/checker.go` | entry list, placed set, model state, cache, stack, deepest refusal, budgets | `searchKey` = probe + `searchFull` | model, history |
| minimiser, `checker.go` | interval of instants | bisection of truncations, each a search | per-key search |
| key pool, `checker.go` | shared counter, one result slot per key | `Check`, `CheckKey`, `searchAll` | per-key search on goroutines |
| brute force, `checker/brute.go` | none | permutations | the tests' reference |
| single store, `internal/kv/single.go` | a map under a lock | `Apply` | wrapped by the forwarding store |
| forwarding store, `kv/forward.go` | role, data, promotion flag, failure count, threshold, cache | `Apply`, `Configure`, `forwardSucceeded/Failed` | leader over HTTP via `kv/client.go` |
| gossip store, `kv/quorum.go` | map of stamped entries, mode, current fan-out and its queues | `Apply`, `/replicate`, `Configure`, `Close` | peers over HTTP |
| server, `kv/server.go` | listener, stop watching | `Run`, `Shutdown` | stdin of its parent, the store |
| client, `kv/client.go` | none | `Send`, `Do`: answer, definite failure or unknown | servers, recorder |
| clock, `internal/clock` | epoch, measured granularity | `Nanos`, `Completion` | harness |
| fault link, `internal/faultnet/link.go` | fault, listener, socket table, wait group, counters | `Set`, `Close`, accept, handle, pump | clients and servers through it |
| schedules, `faultnet/schedule.go`, `harness/topology.go` | a timeline of events | generators, topology cuts | nemesis |
| nemesis, `faultnet/nemesis.go` | links, events applied | `Run`, `Heal` | links |
| campaign run, `harness/harness.go` | operation count, identifiers, recorder | `BuildSchedule`, `Run`: client loops, quiescent reads | all of the above |
| cluster, `internal/cluster` | processes and their pipes | `Start`, health, `Configure`, `Close`, kill | child processes |
| campaign, `internal/campaign` | none | `Once`: start, run, check, stop | cluster, harness, checker |
| command line, `cmd/splitbrain` | a tally, the files it writes, an exit status | `run`, `check`, `sweep`, `schedule` | campaign, checker, history files |
| node binaries, report, tools | none of interest | flags, HTML, demo | not modelled |

**How they interact.** Within a process: goroutines over a mutex (stores, link),
an atomic counter (key pool, operation cap), channels (fan-out queues) and
contexts (nemesis, harness). Between processes: HTTP through links that may
drop, delay, reset or refuse, `/configure` requests, and a pipe on stdin whose
end means "stop".

**What is hard here.** A request that times out may take effect later; a role
is read under a lock and used after it; a send may race the closing of its
queue; a teardown may race a connection being registered; the nemesis may be
cancelled between two events of one instant; a clock step may put two events at
one instant or in the wrong order; a search may be stopped anywhere by one of
three limits; any start-up step may fail and every process may crash or hang,
seed after seed; a file may be torn, or leave out what its verdict would rest on.
`hazards` in `PROJECT.json` lists each with its line and the properties that
would catch it going wrong.

## 2. Modules

**The checker**

* `RegisterModel`: the two models' `Step` as `Fits` and `After`.
* `History`: operations, the real-time order `Precedes` (with the code's rule
  for zero-width operations), sorting, splitting, `Validate`.
* `Linearizability`: the definition itself, as an order that replays and
  respects real time; nothing in it comes from the search.
* `LinearizationSearch`: the abstract search, which places a legal operation,
  takes operations back, or concludes. It never says a history passes
  without a whole legal order in hand, nor refuses one that has an order.
* `WingGong`: `searchKey` in detail. The entry list is two pointer functions
  behind a sentinel; `Lift` and `Unlift` are the code's splices in its order;
  the loop's guards come in the code's order (list empty, visits, time, memory,
  entry). The probe's tail and its fall-back to the full search are actions.
  `Search` is its refinement to `LinearizationSearch` (the stack of frames is
  the witness). The bitset is a set, a cache key the pair it stands for.
* `BruteForce`: the reference, as a recursive function; `CrossCheck` puts it
  beside the search, on the same histories, as the differential tests do.
* `Minimise`: the bisection over instants; a probe is a search's verdict, which
  may be "unknown". Its actions are those of whoever asked for it.
* `Check`: `Check` and the pool: goroutines take keys from a counter, write one
  slot each and are waited for, and the worst result's first key is reported.

**The stores**

* `AtomicStore`: what a consistent store promises: each operation takes effect
  at most once, at an instant after it was issued; "ok" reports what happened
  then, "fail" says never, "info" says nothing.
* `ForwardStore`: a leader, followers, one handler goroutine per operation and
  node; each action is one stretch under the node's lock. A request may be
  delayed for ever, or picked up after its sender has given up. `Atomic` is its
  refinement to `AtomicStore`, where the answers a node gave on its own are
  counted as no answer at all. Three history variables say what each forward
  left the leader's register at and which earlier ones it began after, so that
  the follower's cache can be compared with what it may lag behind by.
* `QuorumStore`: the last-writer-wins store with its fan-outs. `Apply`, the
  enqueue or broadcast that follows outside the lock, each worker, each post,
  and the separate critical sections of `Configure` and `Close` are actions.
  Any number of `/configure` requests may be under way at one node, each by an
  `Admins` of its own: between its two sections another may replace the fan-out,
  or close the store.
* `RecordedStore`: `AtomicStore` seen through the coarse clock and the recorder.

**The network and the campaign**

* `Link`: a link's accept goroutines, handlers and pumps with `Set` and `Close`
  racing them, down to the read, look, hold and write of one chunk.
* `Timeline`: the schedule generators and the topology's cuts, phase by phase,
  each draw a choice.
* `Harness` extends `Timeline`: it refuses or accepts what it is asked for, lays
  the schedule out and either prints it (`splitbrain schedule`) or lives through
  it: the nemesis event by event, the client loops, the deadline, the main
  goroutine with its final reads.
* `Cluster`: `campaign.Once` over `cluster.Start`/`Configure`/`Close`, and each
  process's `kv.Run`, with crashes, hangs and the supervisor's own death.

**The command line**

* `ExitStatus`: what `-expect` means, and the status each kind of error ends in.
* `Sweep` extends `Cluster` and `ExitStatus`: the range of seeds, one experiment
  after another with processes of its own, the tally, `-stop-on-mismatch` and
  the status at the end.
* `HistoryFile`: a history on disk. A line is a record of optional fields, since
  absent and zero differ; `ToWire`, `Lacks` and `ToOp` are `toWire`, `complete`
  and `toOp`, and `LoadFile` refuses what `Load` does.
* `CommandLine` extends `Minimise`, `HistoryFile` and `ExitStatus`: `run` judges
  what it recorded, cuts a violation down, writes the history and the
  counterexample, either of which may be torn; `check` then loads one of them,
  or a file written by hand, and judges it. A history is judged as `Check` judges
  it: each key's slice by a search of its own, the worst verdict taken, and the
  first key with it in sorted order reported and cut down.

**Instances and proofs.** `MCWingGong`, `MCCommandLine`, `MCCheck`,
`MCForwardStore`, `MCQuorumStore`, `MCRecordedStore`, `MCLink`, `MCHarness` and
`MCSweep` give the constants values. `LinearizabilityProofs` is the library of
lemmas about histories and their orders. `WingGongProofs` (with the abstract
search's and the reference's), `CheckProofs` (with the recorder's),
`CommandLineProofs` (with the minimiser's and the files'), `ForwardStoreProofs`,
`QuorumStoreProofs`, `LinkProofs` and `HarnessProofs` (with the cluster's and the
sweep's) hold the theorems.

**Composition.** `RecordedStore` instances `AtomicStore`, so
`ForwardStore => AtomicStore` (`LeaderIsAtomic`) and `NeverConvicted`
(`ConsistentStoreNeverConvicted`) together say that a leader's history, recorded
by this apparatus, is never convicted; both are proved. `WingGong` and `BruteForce` are both judged by
`Linearizability`; `Minimise`, `CommandLine` and `Check` use `searchKey` as the
exact-or-unknown verdict that `WalkVerdictExact` proves `WingGong` to be, for
every history, option and expiry. `Sweep` runs the whole of `Cluster` once per
seed, `Harness` the timeline it has just laid out, and `CommandLine` joins
minimiser, files and statuses. `Harness` treats a link as the fault it is in,
which is what `Link` shows `Set` to bring about.

## 3. What the runs show

* `wing_gong_exact`: all well-formed histories of up to three operations of
  ten kinds, and up to four of the most contentious, at times 0..2. The
  verdict is exact (`VerdictExact`), and so is the brute-force reference's
  (`ReferenceExact`); after any sequence of lifts and unlifts the list is what a
  fresh build would give (`ListIntact`); the stack replays to the current state
  (`FramesReplay`); the walk is a search (`ImplementsSearch`).
* `wing_gong_limits`: every combination of a visit limit, a cache limit and a
  deadline, each absent or tiny, with the probe's share cut to one visit per
  operation and histories the read/write model may refuse even in the probe's
  tail. A limit yields unknown and never a wrong answer, and nothing else does
  (`VerdictExact`); a refusal comes with an operation really refused
  (`CulpritRefused`), and every search ends (`Terminates`).
* `command_files`: any history of two operations, every refused one of three
  contentious ones, by two clients in any layout, and histories of two keys,
  either, both or neither of which is a violation, under a budget that may leave
  any search or probe undecided. `Bracketed`: what the bisection rules out linearizes and
  what remains does not, also at instants never probed, and the interval halves;
  `CounterexampleStands`: the truncation reported and written is a valid
  violation of the same history, with nothing left to cut unless a probe gave up;
  `RecheckAgrees`: what a run that came to an end wrote is read back as the same
  history and verdict, so a torn file never passes for a concluded one;
  `BlanksMeanNothing`: of two lines, on one key or two, with any of their fields
  or the key itself left out, none is accepted where the verdict rests on what is
  not there. An absent key is read as the empty string, which `complete` does not
  miss and `Validate` refuses (history.go:446): without that rule the property
  fails, as it does without `complete`'s for a compare-and-swap.
* `check_pool`: up to four operations on two keys at many times, and every mix
  of absent, fine, refused and failed-only keys on three, with one goroutine or
  four, with and without a budget, one goroutine per key at most.
  `WholeHistoryJudged`: splitting by key equals judging the whole across keys;
  `ScheduleFree` and `NothingHidden`: the report is that of a single goroutine,
  and a key that ran out never covers a violation found elsewhere.
* `forward_configure`: a leader and a follower, two operations, three requests,
  promotion after two failures, and `/configure` switching promotion, threshold
  and leader under requests in flight. `FailNeverApplied`: what a client was told
  failed is never applied, however late a request arrives;
  `StaleOnlyByOverlap`: a cached register holds what the leader's held after a
  forward no later one began after, so only overlapping requests make it stale;
  `PromotedByStreak`: the last forward to end decides the role;
  `ImplementsAtomicStore`.
* `recorded_verdict`: three operations of three processes, an atomic store, a
  clock step of two instants, three steps long. `NeverConvicted`: the recorded
  history is always linearizable.
* `recorded_valid` (violation): the disagreement of section 7.
* `quorum_replicate`: two nodes started alike in either mode, and any three
  requests among a write, a compare-and-swap and two `/configure`s of node 1,
  which give it its peer or take it away; queues of one, posts lost, late,
  answered or given up on, and the node closed at any point.
  `ConvergesUnlessLost`: a node holds the newest it has had, and a quiet node the
  newest anybody has had, unless that very update was dropped, lost or kept from
  it, so that a drop costs no other peer and no newer update; `SyncReaches`: a synchronous write whose posts
  were answered is everywhere; `ClosedQueuesOnlyDrain`: nothing is sent on a
  closed channel; `NothingLeftRunning` and `EverythingReturns`: of two
  `/configure`s at once each retires the fan-out it replaced and no other, and
  `Close` and every write end, leaving no worker.
* `link_faults`: one connection, two chunks each way, three changes among all
  faults, and `Close` at any point. `CutIsComplete`: under Reset or Refuse no
  client is proxied and no byte written; `DropLeaksOne`; `WholeUnlessHarmed`: a
  stream no fault harmed is whole and in order; `CloseJoinsAll`, `CloseEnds`.
* `harness_run`: every timeline of each generator over one to three nodes is
  laid out; one that cuts a pair, one of a single node and the blips of a pair
  are run by two clients with a cap of one or two operations and a deadline that
  may strike between any two events. `EndsWhole`: ordered, inside the run, healed
  at the end; `SomeServe`: a cut leaves a node on either side that some client
  still reaches; `FinalReadsUndisturbed`: they happen on a whole network, with
  no other load and everything begun recorded; `ProcessesAreSequential`: no
  identifier is reused or misattributed; `RunReturns`.
* `sweep_seeds`: two seeds of three processes, one seed, or a range that is none,
  with any failure, crash, hang and the supervisor's death, under every kind of
  expectation. `NoneLeftBehind`: no seed leaves a process to the next;
  `NoOrphans`: the processes of a dead supervisor stop by themselves unless they
  hang; `SweepEnds`; `TallyIsTrue` and `ExitIsVerdict`: the last line and the
  status are what the seeds came to.
* `sweep_typo` (violation): the disagreement of section 7.

Every property is paired with a mutation of the code's model that breaks it
(`mutants` in `PROJECT.json`; the mutated operators sit next to the originals).
Most runs set `CHECK_DEADLOCK FALSE`, because one behaviour is one search,
campaign or shutdown, and these end.

## 4. Bounds, and why they are enough

* Search: three operations already give nested backtracking, ties of every
  kind and a probe with a tail; four reach a cache hit below a backtrack.
  Two values tell a wrong order from a right one.
* `Pending` is a number above every time used (the code's largest integer).
  `DeadlineCheckEvery` is 2 where the code uses a large power of two, so that
  the deadline is both looked at and not; `IndeterminateLastVisits` is made
  1 in `wing_gong_limits` so that the probe runs out, and the code's 32 in
  `wing_gong_exact`.
* Pool: three keys and up to four goroutines include fewer, as many and more
  goroutines than keys.
* Stores: two operations make every race of two handlers, since a handler meets
  only its own and one other in each property. They do not reach everything a
  handler may do: at a threshold of two a promotion uses both, so an operation
  that finds its node already promoted, or takes its promotion back
  (forward.go:106-116), is covered by the theorem `StreakPromotes` alone. One register,
  because locks are per store and keys independent; queues of one reach the
  full queue with a second update. Two `Admins` and `MaxRequests` 3 let two
  `/configure`s overlap with an update, or two updates with one. Clocks read a
  single instant, the hardest case for stamps.
* Files: sorted histories with the first operation by client 1; two keys are
  enough for one to hide or outrank the other; two lines are enough for a line to
  decide the verdict of the other, on its key or on another, and two fields left
  out for each pair that `complete` looks at together. `scale` is doubled by
  every search of the history, to measure that the interval halves; `ScaleCap`,
  64, is above any interval a bisection starts with here.
* `Limits`, the reference's size limit, is 2 and the longest history there is,
  so that it both declines and decides.
* `MaxNow` is two and a half clock steps, `MaxSets` three changes of fault,
  `maxOps` one or two.
* Sweep: two seeds show what the first leaves to the second; three processes
  have a first, a middle and a last to fail.
* Timelines are in units of an abstract length chosen so that an eighth of a
  run is two units; the seed becomes a choice of every draw. The timelines that
  are run are one phase long: the nemesis treats phases alike, and every order of
  one phase's events with the clients, the deadline and the final reads is there.

## 5. Fairness

`WingGong`: weak fairness of the search's own step; the passing of the deadline
is never assumed. `QuorumStore`: request handlers, workers, configuration and
shutdown are scheduled, and a post ends because the client it is made with
bounds it by a timeout (client.go:294); nothing is assumed of the wire.
`Link`: goroutines are scheduled, a dial and a hold end, a pump whose socket has
been closed notices; peers owe nothing, so reading is unfair. `Harness`: the
time limit arrives, the nemesis and each client are scheduled and an operation
ends by its timeout; a generator draws until it is done. `Sweep`: the command,
the experiment and each live process are scheduled and the kernel carries out a
kill; nothing is assumed of what a start, a health check or a run comes to, and a
hung process does nothing. `ForwardStore`, `Check`, `RecordedStore` and
`CommandLine` are checked for safety only.

## 6. What is proved

For all values of the constants, under the assumptions the modules name:

* of histories: `PendingAssumption`; `HistoriesAssumption` of `WingGong`
  (histories that `Validate` accepts and `ByKey` has split, with no operation
  invoked at `math.MaxInt64` itself, which history_test.go:378 takes to be later
  than any timestamp) and of `Check` (any histories, valid or not, of known keys,
  with the same exception); `CommandAssumption` (a run records a valid history,
  of any keys, in which no time is past `math.MaxInt64`; the files written by hand
  are sequences of lines; the order of the keys is a sequence);
* of the store and its recorder: `RequestsAssumption`, `ConfigAssumption`,
  `ModelAssumption`, `ClockAssumption` and `RecorderAssumption` (requests the
  models judge, thresholds, a granularity of at least one, that `None` is no answer,
  and that no run lasts until `math.MaxInt64`);
* and `OptionsAssumption`, `ProbeAssumption`, `QuorumAssumption`,
  `LinkAssumption`, `TimelineAssumption`, `HarnessAssumption`, `CheckAssumption`,
  `ClusterAssumption` and `SweepAssumption`, which give the constants their types
  and say that `None` is none of the values it stands beside.

Each strengthened invariant was checked by TLC on its run's instance before it
was proved, but for three that speak of orders of any length and of histories
that are nowhere in the state, which TLC cannot enumerate: `Faithful`,
`Splitting` with its merged order, and `Commands`. For those TLC checked the
properties they were made for.

Several of these results are by nature inductions over data: what a recursive
function computes, that orders of different keys can be merged, that a
sorted history is a permutation. They are proved without an induction
theorem, by taking the least number for which the claim fails
(`LinearizabilityProofs` states once that a non-empty set of naturals has one).

**The search**

* `SearchHoldsLegalWitness`, `SearchPassHasWitness`: with `SearchInv` (types, a
  legal witness, and that a pass has everything placed), every search that
  keeps to `LinearizationSearch` has frames that replay, place nothing twice and
  respect real time, and says "linearizable" only with a full linearization.
  `SearchInv` is needed because acceptance alone does not remember legality.
* `WalkTypes`, `WalkFramesReplay`: `WalkInv` joins the types to `FramesReplay`
  and `StackInScope` (what is on the stack is in the running search's scope),
  without which unlifting might touch an entry the list does not have.
* `WalkListIntact`: `Linked` says that bitset, stack and list agree: the list
  holds, in order, the entries of what is left in scope, and each lifted
  operation remembers the neighbours it had when it was lifted. An unlift then
  puts back exactly what was there, since lifts are undone last first.
* `WalkVerdictExact`, the checker's central claim. A pass is right because the
  cursor has passed nothing but calls, so that what is placed precedes nothing
  left, and a whole stack is a linearization. A refusal is right by `Exhausted`:
  every choice before the cursor, and before each frame of the stack, leads
  nowhere, and a cached configuration that can still be completed is one the stack
  itself passes through; with an empty stack nothing is left to try. An unknown
  needs a limit, or a deadline, that the caller has set.
* `WalkCulpritRefused`: `CulpritInv` says that until the first refusal is
  recorded nothing has been taken back, and the cursor is at the front of its
  list, so a search cannot refuse without one; and that a recorded one is refused
  by the state it is reported with.
* `WalkImplementsSearch`: `WingGong` implements `LinearizationSearch`, step by
  step: a lift is a placement of a minimal operation, an unlift a retraction, the
  fall-back from the probe a restart, and everything else a stutter.

* `WalkHoldsLegalWitness` joins the two: what the walk has on its stack, the
  probe's tail included, always begins a linearization, and a pass leaves a
  whole one behind.
* `ReferenceIsExact`: the brute force is right about every history of any
  length. `Rest` says what its recursion decides, that what is left to place has
  an order from here on; it begins with an operation the recursion may place
  next, or anything that may be placed next begins one (`RestBegins` and its
  converse). If recursion and `Rest` differed anywhere, they would differ where
  fewest operations are left, and there they do not.

**The whole check**

* `CheckTypes`, `KeysSearchedOnce`, `ReportHidesNothing`: for any number of keys
  and goroutines. The inductive invariant `Searching` has `Given` (the call
  before it starts), `Underway` (the shapes of the shared counter, jobs and
  slots) and `Ledger`: every key below the counter is written or held by exactly
  one goroutine, and a goroutine is back only when the counter is past the end,
  so that a report made when all are back has read every slot.
* `AnswerIsScheduleFree`: `SlotsTrue` adds that a written slot holds its own
  key's verdict, so the report is the one a single goroutine would have made.

* `SplittingByKeyIsExact`: judging each key by itself, at any parallelism, is
  judging the whole. `Splitting` says that the pool's slots are the keys' own
  operations of the history given. An order of the whole, restricted to a key, is
  one of that key. The other way, each operation is given a point: the latest
  invocation up to it in its own key's order, which lies within the operation.
  All of them in the order of their points, at one point those without width
  first, keep every key's own order and real time (`TogetherOrders`); only two
  operations without width at one instant could stand in each other's way.
* `ConsistentStoreNeverConvicted`: whatever a store that keeps the promise of
  `AtomicStore` has done, what the recorder holds is linearizable, register by
  register, however coarse the clock. `Faithful` has `Shapes`, `Honest` (what
  each outcome says of an operation), `Complete` (the recorder holds each
  operation that has ended, once) and `InLine`: the operations that took effect
  on a register, in the order they did, replay to its value, and none was
  completed before one in front of it was invoked. An effect goes to the end of
  that line, where only operations still open can follow; the line, with those
  that never took effect left out, is the recorded history's linearization.

**The stores**

* `ForwardTypes` and `FailureIsDefinite`: `FailNeverApplied` for any number of
  nodes, operations and configurations. It is not inductive; `SealInv`
  strengthens it: requests travel one hop, what was applied has replied ok, the
  leader never declines, and a node that declines has not forwarded.
* `CacheStaleOnlyByOverlap`: `StaleOnlyByOverlap` likewise. Its strengthening
  says which forwards have been heard of, that each leaves behind what the leader
  held, and that of those a node has heard one is newest, which needs that what
  a forward began after is transitive.
* `StreakPromotes`: an action property. `Counted` says that the failure count is
  the length of the run of failures the streak ends with, whatever `/configure`
  does to the threshold meanwhile.
* `LeaderIsAtomic`: `ForwardStore` implements `AtomicStore`. `AnswerInv` adds to
  `SealInv` that an ok answer is either the leader's own reply, relayed, or one
  the node gave from its copy; the abstract effect is the leader's `ApplyLocal`,
  and every other step is the client's issue or return, or a stutter.
* `FanoutsAllStop`, by `TidyInv` = `Shapes`, `Handled`, `Retired`: each fan-out
  but the newest is in the hands of exactly one `/configure` that retires it, and
  the newest of `Close` once the store is closed, whatever overlaps; how far each
  has come agrees with what the fan-out says of itself.
* `ClosedQueuesDrain`: an action property of the same invariant: a fan-out that
  is marked closed only ever loses what is queued.
* `GossipConverges`: `Origin` (every entry about was stamped by the node it
  names, which has had it), `Distinct` (no node stamps two alike), `Newest` (a
  node holds the newest it has had) and `Delivered`: what a node stamped is at
  every other node, posted to it, queued for it, about to be queued, or one of
  the updates lost to that node. A quiet node to which the newest update of all
  was not lost therefore has it, and nothing it has is newer.
* `AnsweredSyncReaches`: `Answered` says that of a write reported to have reached
  its peers, each peer no longer waited for has taken it.

**The network and the campaign**

* `CloseWaitsForAll`: `LinkInv` relates each connection's sockets to how far its
  handler is, has every registered socket in the map and pumps busy only while
  their handler proxies; `Counted` says the wait group is the number of accept
  goroutines, of connections served and of those proxied. At zero nothing is left.
* `CutReachesAll`: `CutInv`: once a cut has been applied nobody is proxied, and a
  pump with a chunk still in hand has lost both its sockets.
* `BlackholeLeaksOne`: `LeakInv`: under Drop a direction has let one chunk pass,
  or holds one, never both, because a pump looks at the fault before each chunk.
* `UnharmedIsWhole`: `WholeInv`: what an unharmed direction has written is all it
  has read, in order, but for the one chunk it holds.
* `ScheduleEndsWhole`, `BothSidesServe`: `Planned` says of what has been laid
  out that it is in order, ends by `LastInstant`, and has every group that takes
  links down followed at once by one that heals them. What is down at an instant
  is then what the last group up to it took down (`DownTogether`), a cut, a
  partition or one link, and for each of these the property is a fact about sets
  of nodes. That each side is served also needs that a run was accepted.
* `FinalReadsAreQuiet`, `IdentifiersAreSequential`: `CampaignInv` = `Shapes`,
  `Waited` (what the main goroutine has waited for, place by place),
  `Identities` (an identifier in use belongs to one loop and is given up after an
  indeterminate outcome) and `Reading` (the main goroutine's own).
* `OnceLeavesNoneBehind` and `OnceRunsOnWholeCluster`: for any number of
  processes, by `Stopping` = types, `Progress` (how far the supervisor has come
  bounds what it has appended) and `Accounted` (each process launched is either
  appended, the current one, or gone). The second says an experiment only runs
  on a cluster that is whole, and a return without error means all were
  configured.
* `SweepLeavesNoneBehind`, `ExitStatusIsVerdict`, `TallyCountsEachSeed`: the same
  over any range of seeds, whose processes each begin afresh, and that the tally
  counts each seed once and the exit status follows from the tally. The invariant
  ties the number of verdicts to the seed being run and each counter to the set
  of seeds it counts.

**The commands**

All four rest on `Commands` = `Cutting` (the minimiser's own), `OnDisk` (types),
`Recording` (what a run has in memory and on disk, place by place) and `Checking`
(that what a check judges is what its file reads as, and what a run that ended
with a verdict left behind).

* `BinarySearchIsEntitled`: `Bracketed` for any history and any number of
  instants. A truncation of a truncation at a later instant is the truncation at
  the earlier one, and an order of the later one, cut to what had begun, is an
  order of the earlier: an operation of unknown outcome may be kept or left out,
  and one completed by then is in both (`EarlierTruncation`). So linearizability
  is lost once and for all, and what a probe finds decides every instant on its
  side; halving is arithmetic.
* `CounterexamplesReproduce`: the cut history is valid (`CutIsValid`), a
  violation, cut from the history judged, and has nothing left to cut unless a
  probe was undecided.
* `SavingKeepsTheVerdict`: `Load` of `Save` is the same history up to its layout
  (`SavedReads`), a verdict does not depend on the layout (`SortShows`,
  `ShowsTakes`: a rearrangement of a history has the orders of that history), and
  cutting at an earlier instant what was cut at a later one is cutting it at the
  earlier one alone (`CutTwice`), so a counterexample read back is cut no further.
* `BlanksAreNotLookedAt`: a line of an accepted file has its key, by `Validate`;
  filling in a field it leaves out gives a line that reads as an operation the
  models and the real-time order cannot tell from it, of the same key
  (`FillingReads`), so every key's slice shows the same operations (`ExactShown`)
  and no verdict could have rested on the field.

A verdict here is that of all the keys: whatever the searches of the single keys
come to, the worst of them is the truth or "unknown", and the key reported is a
violation of its own (`ConclusionIs`, from `SliceIs` and `SliceShows`, which say
what is left of one key).

**Only model-checked.** Liveness, which is out of the prover's reach under any
fairness: `Terminates`, `EverythingReturns`, `CloseEnds`, `RunReturns`,
`NoOrphans`, `SweepEnds`. The two runs of section 7 show a violation, so there is
nothing to prove.

## 7. Where code and documents disagree

With a standing run:

* `recorded_valid`: `Clock.Completion` widens a completion by the granularity but
  the same process's next invocation is read as it is (clock.go:78), so one
  process's recorded operations can overlap, and history.go:126-127 says they
  cannot. The verdict is unaffected (`NeverConvicted`), but the history fails
  `Validate`.
* `sweep_typo`: a sweep counts the refusal of a misspelt `-expect` as a mismatch
  (main.go:495, 684), so it runs every seed and exits 1, which main.go:43-45
  keeps for a verdict that was not the one expected; `run` exits 2.

Met while modelling, without a standing run:

* the probe's tail spends transitions after the last look at the ceiling
  (checker.go:675), so a pass may exceed `MaxVisits` (62-63), by at most one
  per unreturned operation;
* a minimised report's culprit is the operation invoked last (checker.go:352),
  not always "the operation the search could not place" (report.go:206);
* a promoted node's write may also have been applied by the leader
  (forward.go:109), rather than being "simply lost" (41-42);
* a plain follower's cache can be filled after promotion was switched off by a
  handler that had already read the old role (forward.go:115, against 154-155);
* quiet gossip nodes may disagree for ever once an update was dropped
  (quorum.go:359, against 45-46);
* `Close` does not wait for a fan-out that a concurrent `Configure` is retiring
  (quorum.go:230, against server.go:72);
* a refused `Configure` has already changed the mode (quorum.go:194, against
  179-180);
* a connection cut between registration and the handler's look at the fault is
  counted twice (link.go:434, against 359-361);
* clients past the check overshoot `MaxOps` (harness.go:337, against 46);
* with `Quiesce` zero the final reads are not made at all (harness.go:373), where
  83-88 says they are made "immediately" and main.go:213-214 that they "start at
  once";
* `-stop-on-mismatch` also stops a sweep at a seed that was merely undecided
  (main.go:503-506, against 454).

## 8. What is not modelled, and simplifications

The syntax of JSON and of flags, the HTML report, the node binaries (a call of
`kv.Run`, which `Cluster` models), building them, draining their stderr, the
measurement of the clock's granularity and the raw platform clocks, the
workload's operation mix, most defaults and option checks, and the demo and
mutation tools. A report renders what the modelled parts produce and keeps no
state; the clock's probing and the platform calls are outside what a model of
this code can say. `ForwardStore` never tells the leader to follow, as the
harness never does. `WholeHistoryJudged` leaves out two instantaneous operations
at one instant on different keys, which history.go:426-429 lets be on purpose. In
`Link` the half-close a pump sends on ends its direction and is not followed
into the peer. In `Cluster` a signal is a crash, and the reaping of a process
that failed to start is left to the system. In `Harness` the events of one
instant come in any order rather than by name, the record of applied events is
their number, `maxOps` zero (no cap) is not run, and `faultnet.Partition`, which
no command reaches, is left out. `TimelineAssumption` asks for one node at least:
`schedule -nodes 0` is not refused and panics (topology.go:260). `Minimise` probes
the instant after the last one as a number, which in the code would wrap
around for an operation invoked at `math.MaxInt64` itself (checker.go:845); the
run has no such time. In `Link` an accept goroutine may fail at any moment and leave its
listener open, as in the code, and nothing is then accepted from it.

## 9. Plan

Done in order of importance: the search and its refinement, the forwarding store
and the recording apparatus, the pool and the minimiser, the gossip store with
concurrent configuration, the link, the harness with its schedules, the cluster,
the sweep over it, the commands with their files; and a proof of every safety
property. Next:

1. Model: a composition of `Harness` with `Link`, where the nemesis's `Set` is
   the link's two steps; the workload's mix with what each client believes; a
   write to disk that is reordered with the exit.
2. Prove: one theorem over the composition of forwarding leader, recorder,
   pool and search, of which `LeaderIsAtomic`, `ConsistentStoreNeverConvicted`,
   `SplittingByKeyIsExact` and `WalkVerdictExact` are the steps.
