# Formal model of ukabu-trackerd

This directory holds TLA+ models of the Go daemon `ukabu-trackerd`
(`src/go-daemon`). The daemon receives authentication failures and successes
from the nginx front-end over a Unix socket. It counts strikes per
(address, domain) and blocks an address with ipset/iptables once the count
reaches 3. The modules are checked with TLC and proved with TLAPS.

## 1. The system and its parts

| Part | Source | What it does | Model |
|---|---|---|---|
| Strike Tracker | `pkg/strikes/tracker.go` | In-memory map `strikes[ip:domain]` under `mu`. `RecordFailure` (excuse the first timeout, count, block at 3), `RecordSuccess`, `blockIP`, `CleanupExpired`, and `loadStrikes` at start | `Tracker.tla`, modelled |
| Persistent Store | SQLite tables `strikes` and `blocked_ips` (tracker.go) | The map and the active blocks, written through on every change and reloaded at start | `Tracker.tla` (`strikeRows`, `blockRows`), modelled |
| Blocklist Manager | `pkg/ipset/manager.go` | The permanent set and the sharded temporary sets `ukabu-temporary_i` (20000 addresses each), with the cursor `nextTempSet`; `LoadBlacklist` at start | `Blocklist.tla`, `TrackerStartup.tla`, modelled |
| Firewall Driver | `pkg/ipset/firewall.go` | Detects the backend and runs `ipset`, `iptables` and `nft` | `Firewall.tla` (both backends), refining `FirewallSpec.tla`; abstracted in `Blocklist.tla`; modelled |
| Domain policy | `pkg/config/config.go` | Per-domain lockout and first-timeout excusal, with defaults | constants and policy operators of `Tracker.tla` |
| Sweeper and lifecycle | `main.go` | Starts the manager, loads the blacklist, starts the tracker. A 60 s ticker calls `CleanupExpired`. On a signal: cancel, `Stop`, exit | `Tracker.tla`, `TrackerStartup.tla`, `TrackerReboot.tla`, `Intake.tla` (shutdown), modelled |
| Intake Server | `pkg/socket/server.go` | Accept loop, one goroutine per connection, newline-delimited JSON, calls into the tracker; `Stop` | `Intake.tla`, modelled |
| Metrics | `pkg/metrics/prometheus.go` | Read-only HTTP scrape | not modelled (section 5) |
| Logger, CLI flags | `main.go` | I/O | not modelled |

How the parts interact:
- Every intake handler and the sweeper call the tracker. The tracker holds its
  lock for the whole call, and it calls the manager and the store from inside
  that lock.
- The kernel sets outlive the daemon: `CreateIPSet -exist` keeps their members.
- The manager's slice of shards does not outlive the daemon. After a restart it
  is `[temporary_0]` again.
- The store outlives the daemon. `loadStrikes` reloads only unexpired strike rows.
- Nothing ever reads `blocked_ips` back at start. Only the sweeper reads it.
- `LoadBlacklist` runs between `Initialize` and `NewTracker` at every start and
  adds the file's addresses to the sets, without rows.
- The socket server, the sweeper and the metrics server are goroutines of
  `main`. A signal cancels the context; `Stop` closes the listener and waits
  for the handlers.

## 2. Modules and correspondence with the code

- `Blocklist.tla`: the manager and the kernel.
  - State: `kernel[s]` is the set's membership. `created` is the sets that
    exist. `rules` is the sets that a DROP rule refers to. `nTemp` is
    `len(temporarySets)` and `nextTempSet` is the cursor. Shard `i` stands for
    `ukabu-temporary_i`, and the slice is always the shard names in order, so
    its length is enough.
  - `InitializeManager` models `Initialize`. `AvailableTemporarySet` models
    `GetAvailableTemporarySet` and `createTemporarySet`, as the set of every
    outcome the code can produce, tool failures included.
  - `AddIPOutcomes` models `AddIPToSet`. A full hash set or a missing set fails.
- `Tracker.tla` (EXTENDS Blocklist): the tracker, the store, the clock and restarts.
  - State: `index` is `t.strikes`. `strikeRows` and `blockRows` are the tables.
    `now` is minutes. `reply` is the answer of the step just taken.
  - Actions:
    - `RecordFailure` is the whole handler. It includes `saveStrike` and, at
      count ≥ 3, `BlockIP` (`blockIP`: choose the set, `AddIP`, then
      `INSERT OR REPLACE` into blocked_ips).
    - `RecordSuccess`.
    - `CleanupExpired`: both loops of the sweeper. A strikes DELETE and a
      RemoveIP may fail. The blocked_ips DELETE always fails: it runs on a
      second pooled connection while the SELECT cursor holds SQLite's read
      lock, so it cannot commit (see section 5).
    - `Restart`: `Initialize`, then `NewTracker`/`loadStrikes`.
    - `Tick`: time passes.
  - The policy operators:
    - `LoadedLockout` is config.Load's replacement of 0 by the default.
    - `FailureLockout` and `FailureExcuse` are RecordFailure's fallback for
      unknown domains.
    - `BlockLockout` is blockIP's lookup, which has no fallback.
  - The store and the tools fail nondeterministically when `StoreFaults` or
    `KernelFaults` is TRUE. A failed statement or command leaves its state unchanged.
- `MCTracker.tla`: model values and small constant definitions for TLC.
- `TrackerProofs.tla`, `TrackerStoreProofs.tla`, `TrackerStartupProofs.tla`,
  `TrackerRebootProofs.tla`: the TLAPS proofs of the tracker (section 4).
- `TrackerStartup.tla` (EXTENDS Tracker): a non-empty blacklist file.
  `Blacklist` is the file's parsed lines. `LoadEntry` is one iteration of
  `LoadBlacklist`'s loop (lockout 0: the permanent set; otherwise
  `GetAvailableTemporarySet`; then `AddIP`, error ignored). Nothing else runs
  while `loadPos` is inside the file, as in `main`, where the tracker and the
  socket do not exist yet. `Restart` starts the load again. Tracker alone is
  the case of an absent or empty file.
- `TrackerReboot.tla` (EXTENDS Tracker): `HostReboot`, the host restarting.
  The kernel is emptied, then the daemon starts as in `Restart`.
- `Intake.tla`: the socket server and the shutdown of `main`.
  - State: `mainPc` (running, cancelled, waiting, returning, exited),
    `acceptPc` (the accept loop's place), `wg` (the WaitGroup counter),
    `stage[c]` per connection (none, backlog, accepted, open, closed,
    refused), the client's lines `sent[c]` and its hang-up `eof[c]`, and the
    handler's `read[c]` (lines scanned), `hold[c]` (a request read and not yet
    answered) and `resp[c]` (the requests answered, in order).
  - A line is a kind: `Valid` or `Malformed` (both requests, answered with a
    result or with "invalid JSON"), `Empty` (skipped) or `Oversized` (over
    the scanner's 64 KiB limit). The tracker call inside `handleMessage` is
    one atomic tracker step (section 2 above), here just "answered".
  - Actions: clients `Connect`, `Send`, `HangUp`; the accept loop `LoopTop`
    (ctx check), `Accept`, `AcceptError`, `Spawn` (`wg.Add`, `go`); the
    handler `ScanLine`, `Respond` (`handleMessage`, `sendResponse`),
    `EndOfStream` and `Finish` (deferred `Done` and `Close`); main's
    `Signal` (cancel), `CloseListener`, `WaitReturns` (`wg.Wait`), `Exit`.
    A connection still in the backlog when the listener closes is refused.
- `IntakeProofs.tla`: the TLAPS proofs of the intake.
- `FirewallSpec.tla`: what the driver promises (design 4.1): `exists`,
  `members`, `dropping` (the sets whose members are dropped), the last call
  and its result. A failed call may have done part of its work.
- `Firewall.tla`: the driver. `Backend` is `NewFirewallManager`'s choice
  (nftables whenever `nft list tables` works). `ipsets`/`ipMembers` are the
  ipsets, `iptRules` the INPUT chain's DROP rules (the ipset each matches, in
  order), `nftTable`, `nftSets` and `nftRules` the table inet ukabu, its sets
  and its input chain. Each action is one driver function with all its tool
  invocations; any of them may fail when `ToolFaults` is TRUE. The install
  loops are folds over the argument list (`IptOutcomes`, `NftOutcomes`) of
  the loop bodies (`IptStep`: `-C`, then `-I` on a failed check, stop at the
  first error; `NftStep`: `add set`, `add rule`, errors ignored). `Reboot`
  empties the kernel. The callers are the environment: any call, any
  arguments from `InstallArg`, in any order.
  - Refinement: `Abstract == INSTANCE FirewallSpec WITH exists <- ipsets,
    members <- ipMembers, dropping <- MatchedIpsets, ...` and
    `DriverRefinesSpec == Abstract!Spec`. `MatchedIpsets` is the ipsets some
    iptables rule matches; an nft rule `@name` matches the nft set `name` of
    the table, never an ipset, so on nftables it is empty.
- `FirewallProofs.tla`: the TLAPS proofs of the driver (section 4).
- `MCFirewall.tla`, `MCTrackerStartup.tla`, `MCTrackerReboot.tla`,
  `MCIntake.tla`: model values for TLC.

Each handler is one atomic step, because it runs entirely under `tracker.mu`.
The manager's own mutex is nested inside that lock, so it adds no interleaving.
Data abstracted away:
- timestamps other than `expires_at`;
- reason strings (only "timeout or not" matters);
- the permanent set's maxelem (never reached).

## 3. Runs

### Tracker runs

These runs use `MCTracker.tla` (and its extensions `MCTrackerStartup.tla`
and `MCTrackerReboot.tla`). The base constants are:
- one or two addresses and one or two domains;
- `Cap = 1`, so a shard fills with one address;
- `MaxShards = 3`;
- a lockout of 1 minute;
- `MaxTime = 3` minutes;
- at most 4 strikes per key.

With these bounds the following all happen:
- a spill into a new shard;
- a re-targeted existing shard after a restart;
- the failed creation of a shard;
- expiry of both strikes and blocks;
- an excused timeout followed by a block.

| Run | Expect | Shows |
|---|---|---|
| `tracker_core` | pass | With tool failures, restarts, and a blacklist file of a temporary and a permanent line loaded at every start (`MCTrackerStartup`, `StartupSpec`): every unexpired blocked_ips row names a set holding its address (`BlockRowBacked`). The cursor always indexes the slice (`ShardIndexInRange`). The strikes table mirrors the map (`StrikeStoreConsistent`). |
| `unknown_domain_permanent` | violation | A domain absent from the config is blocked permanently although the default lockout is 1 (tracker.go:232). |
| `zero_lockout_overridden` | violation | A domain configured with lockout 0 is blocked temporarily (config.go:68). |
| `blocked_reply_after_restart` | violation | No failures are injected. After a restart a spill re-targets the full `temporary_1`, AddIP fails, and the client is told "blocked". |
| `spill_orphan` | violation | A blocked address fails again after its shard filled. It is added to the next shard and the row is overwritten, so the old shard keeps it forever (`TemporaryBlocksLifted`). |
| `host_reboot_unbacked` | violation | No failures. After a host reboot a live blocked_ips row names an empty set: startup does not replay blocked_ips (`BlockRowBacked`). |

### Intake runs (`MCIntake.tla`)

Two connections (one for the violations), at most 2 lines per connection,
and the line kinds each run needs. Two connections are enough for a
handler to run while another is accepted, refused or closing. Two lines are
enough to answer one request while the next is read. The signal can arrive
at any point.

| Run | Expect | Shows |
|---|---|---|
| `intake_protocol` | pass | Under `FairSpec`. `WaitGroupAccounting`: `wg` equals the number of running handlers. `AnsweredInOrder`: the answers on a connection are its requests in order, each once. The one read and not yet answered is `hold`, and a closed connection has all of them answered. `ShutdownWhenClientsHangUp`: once every connected client has hung up for good, a cancelled daemon exits. |
| `intake_exit_race` | violation | `ExitDrainsHandlers`. The loop accepts a connection; before its `wg.Add` the signal arrives, `Stop` closes the listener and `wg.Wait` returns at 0; main exits with an accepted connection. A connection accepted after the cancel, by a loop already past the ctx check, is missed the same way. |
| `intake_shutdown_hang` | violation | `ShutdownCompletes`. A client that never hangs up keeps its handler in `Scan`, so `wg.Wait` never returns. |
| `intake_oversized_line` | violation | `AnsweredInOrder`. An oversized line ends the handler, and the request after it is never answered. |

### Firewall runs (`MCFirewall.tla`)

Three sets (permanent, temporary_0 and temporary_1), one address, and the
two argument lists the manager passes: `<<permanent, temporary_0>>` from
Initialize and `<<temporary_1>>` for a new shard. At most 4 rules. With
these bounds an install can be repeated, done before its sets exist, or
stopped half-way.

| Run | Expect | Shows |
|---|---|---|
| `firewall_iptables` | pass | Reliable tools, iptables backend. A repeated install never duplicates a rule (`RulesNotDuplicated`). Every step is a step of `FirewallSpec` (`DriverRefinesSpec`). |
| `firewall_nft_unenforced` | violation | With `nft` available, install returns nil, yet no set is dropping: the rule matches an empty nft set, not the ipset. |

Checked beyond the runs above, with the same modules:
- `DriverRefinesSpec` also holds in `MCFirewall` with `ToolFaults = TRUE`.
  A nil from install means every named set is dropped; an error means a
  prefix of them is.
- On nftables, `RulesNotDuplicated` fails at the second install of a set,
  which appends a second identical rule.
- `TemporaryBlocksLifted` fails under `StartupFairSpec` with a one-line
  temporary blacklist (`MCBlacklistTemp`). The line lands in a shard without
  a row, and nothing ever lifts it.
- `StrikeRowsEventuallyReaped` fails once failures stop and the daemon
  restarts after a strike's expiry. The row is neither loaded nor ever
  deleted (tracker.go:105).

Every property of a passing run has a mutant in `PROJECT.json`. A mutant is a
plausible bug in the mapped code that TLC must catch. The bugs are:
- no `temporary_0` at Initialize;
- a cursor not reset after a failed creation;
- a row inserted although AddIP failed;
- RecordSuccess forgetting the row;
- a missing `wg.Done` and a doubled one;
- an answer that does not clear the pending request;
- an `ipset add` into a missing set;
- an `iptables -I` without the `-C` check;
- an `-I` failure that is ignored;
- a handler that returns only after answering every line, blank ones included.

### Fairness

- Tracker: `WF` on `CleanupExpired` and `Tick` (the liveness runs use
  `FairSpec`). The ticker fires every 60 s for as long as the daemon runs,
  and the sweep takes the same lock as the handlers, which are finite.
  `StartupFairSpec` adds `WF` on `LoadEntry`: the loop is running code.
- Intake: `WF` on every step of the daemon's goroutines (the accept loop,
  each handler, and main after the signal). The Go runtime schedules every
  runnable goroutine.
- Nothing is assumed fair about clients, the signal or restarts: they come
  from outside.

## 4. Proofs

### `TrackerProofs.tla`

The inductive invariant is `IInv == TypeOK /\ ShardIndexInRange`. `TypeOK`
alone is not inductive: typing `AvailableTemporarySet`'s result needs
`kernel[nextTempSet]` to be defined, that is `nextTempSet < nTemp ≤ MaxShards`.
The cursor bound in turn needs the types. The proof has one step per action,
and it uses the lemmas `OutcomeType` (every outcome of the manager is
well-typed and keeps the cursor inside the new slice) and `NewStrikeType`.

- `TypeOKHolds`: `Spec => []TypeOK`.
- `CursorInRange`: `Spec => []ShardIndexInRange`. This is the absence of the
  index-out-of-range panic at manager.go:105 and 129, for every `Cap` and
  `MaxShards`.
- `RowsBackedByKernel`: `Spec => []BlockRowBacked`, from `IInv`. BlockIP
  inserts only after a successful add. The sweeper deletes no row (its
  DELETE fails, section 5), and removes addresses only of expired rows,
  which stay expired, since time only grows.

The assumptions are `BlocklistAssumption` and `TrackerAssumption`: the bounds
are positive naturals, the lockouts are naturals, and the sentinels lie outside Nat.

### `IntakeProofs.tla`

These proofs hold for any finite set of connections and any line bound
(`IntakeAssumption`).

- `IntakeTypeOK` and `WaitGroupBalanced` (`Spec => []WaitGroupAccounting`).
  - Inductive invariant: `TypeOK /\ WaitGroupAccounting`.
  - The counter needs its type, and `TypeOK` needs the counter: `Finish`
    decrements `wg`, which stays a natural only because an open handler
    counts one.
  - `Spawn` and `Finish` change the set of open connections by exactly
    their own connection (`OpenSetKept`, `SpawnIInv`, `FinishIInv`).
- `AnswersExactlyOnce` (`Spec => []AnsweredInOrder`). It assumes no line is
  `Oversized`; the `intake_oversized_line` run shows why.
  - Inductive invariant: the previous one, plus `ScanInv` (what `hold` and
    `read` can be for each stage), plus the property itself.
  - It is stated per connection as `ConnOK(c)`.
  - Frame lemmas (`ConnFrame`, `ConnStageFrame`, `OthersFrame`) show that a
    step of one connection leaves every other connection's `ConnOK`
    untouched.
  - Then one lemma per action of the connection itself: `SendConn`,
    `ScanLineConn`, `RespondConn`, `EndOfStreamConn`.

### `TrackerStoreProofs.tla`

The theorem assumes `~StoreFaults`. With store faults a failed
`saveStrike` is only logged (tracker.go:298), the table lags behind the
index, and the property is false: that is the error policy, not a gap in
the proof.

- `StoreMirrorsIndex`: `Spec => []StrikeStoreConsistent`. It is inductive
  relative to `TypeOK` (`NextStoreConsistent`, one case per action). For
  `Restart` the argument is per key: a loadable row becomes the record, and
  an unloadable one has expired, since its `exp` is a natural ≤ `now`.

### `TrackerStartupProofs.tla`

The same results for `StartupSpec`, the spec of the `tracker_core` run
(`StartupTypeCorrect`, `StartupRowsBacked`, `StartupStoreMirrorsIndex`). `StartupStep` shows that each step is a step
of `Next` or one `LoadEntry`. The earlier step lemmas then cover the
first case. `LoadEntryEffect` covers the second: the load only adds to
kernel sets, through the same outcomes as blockIP (`OutcomeType`), and
leaves the tracker's variables alone. The inductive invariant adds
`loadPos ∈ Nat \ {0}`. It also needs `BlacklistAssumption`: every line
is an address with a natural lockout.

### `TrackerRebootProofs.tla`

`RebootTypeCorrect` (`[]IInv`). Under `~StoreFaults` it also proves
`RebootStoreMirrorsIndex`. These hold
across host reboots, because a reboot rebuilds the index from the
surviving file exactly as a restart does. `BlockRowBacked` is the one
invariant a reboot breaks, which is the `host_reboot_unbacked` finding.

### `FirewallProofs.tla`

- `DriverTypeCorrect`: `Spec => []TypeOK`. It holds for both backends,
  with or without tool faults.
- `IptRulesNotDuplicated`: `Spec => []RulesNotDuplicated`. It assumes the
  iptables backend and reliable tools. On nftables, `add rule` is not
  idempotent and TLC finds duplicates. With tool faults a failed `-C` is
  followed by an `-I` of a rule that already exists.
- `IptDriverRefinesSpec`: `Spec => DriverRefinesSpec`. It assumes the
  iptables backend and allows tool faults. The refinement mapping is the
  one in `Firewall.tla`, with the call's argument list mapped to its range
  (`AbsCall`).
  - `InstallRefines` shows a successful install makes every listed set
    matched.
  - It also shows a failed install adds only listed sets: `done` is
    `Range(rules) ∩ Range(S)`.
  - On nftables the theorem is false (`firewall_nft_unenforced`).

The install loops are recursive functions defined in a `LET`. The prover
sees such a function as a `CHOOSE`, so the proof first shows that a function
satisfying the defining equation exists (`IptFoldExists`, `NftFoldExists`).
The argument takes a least length at which no such function exists
(`LeastNat`, from `WFMin` over `<` on Nat) and extends the function for the
length below it by one entry. The loop invariants (`IptLoopInv`: types,
which rules are present, no duplicates) are proved by the same
least-counterexample argument. The fold's result is then characterised
for any argument list, with no induction on an operator parameter.

### Only model-checked

- `ShutdownWhenClientsHangUp`, the one liveness property of a passing run.
  TLAPS here does not reason about fairness or ENABLED, so it is checked
  only by TLC (`intake_protocol`).
- The properties of the violation runs (`BlockKindFollowsPolicy`,
  `BlockedReplyMeansBlocked`, `TemporaryBlocksLifted`, `ExitDrainsHandlers`,
  `ShutdownCompletes`, `AnsweredInOrder` with oversized lines,
  `DriverRefinesSpec` on nftables, `BlockRowBacked` across reboots). Each is
  false of the code, and each finding gives the counterexample.
- The reverse case for the driver: `IptDriverRefinesSpec` covers
  `ToolFaults = TRUE`, but no run checks it. `firewall_iptables` checks the
  refinement only with reliable tools.

## 5. Not modelled, and why

First, one behaviour of the code that the model fixes rather than leaves
open. `CleanupExpired` deletes each expired blocked_ips row inside
`for rows.Next()` (tracker.go:333), while the SELECT's cursor is open. The
database is a `*sql.DB` with no pool limit and no WAL (tracker.go:42). The
DELETE therefore runs on a second connection, and in SQLite's default
rollback-journal mode it cannot commit while the cursor holds its read
lock. The driver's busy handler waits out its timeout, the statement fails,
and the error is not checked. In the model that DELETE never succeeds, and
expired rows stay. The design promises the opposite: a block record is
destroyed when the sweeper sees it has expired (spec.md, Block record;
scenario 5). It also says that no connection pool is needed (4.3). What
the model cannot show is the cost in time. Every sweep selects every
expired row ever written, waits on each, and does so holding `tracker.mu`,
during which no request is answered.

- The metrics endpoint. It only reads. The design places it out of scope
  and records that its counters are never incremented. Its one hazard is
  the unlocked `range m.temporarySets` (manager.go:207) racing the append
  in `GetAvailableTemporarySet`. What that data race can produce depends on
  how the Go runtime tears a slice header, which is below these models.
- The logger: it is I/O.
- The JSON decoding of the config, the blacklist file and the messages.
  Lines are kinds; blank and malformed blacklist lines are left out of
  `Blacklist`.
- The whitelist and search-engine sets: created, but never written by the
  daemon.
- `FlushIPSet` and `DestroyIPSet`: never called. `ListIPSet` and
  `GetIPSetSize` only read; their result is the size test of
  `AvailableTemporarySet`.
- Startup failures that end the process (`log.Fatalf`): they leave no
  daemon state.
- The link from Firewall to Tracker is one of abstraction. Blocklist's
  `kernel`, `created` and `rules` are Firewall's `ipMembers`, `ipsets` and
  the iptables backend's `MatchedIpsets`. The composition is not checked as
  one model.

## 6. Plan for the next sittings

1. An abstract per-key strike counter, with `Tracker` shown to refine it
   (`INSTANCE ... WITH`).
2. Proofs about the composed models once item 1 and item 3 exist (the
   refinement of the strike counter, step by step).
3. Compose `Intake` with `Tracker` (a handler's tracker call as a step
   between `ScanLine` and `Respond`), so that the exit race is checked
   against the store.
