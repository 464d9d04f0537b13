# TLA+ models of the s2n-tls Rust bindings

This directory holds TLA+ specifications of the stateful parts of
`src/bindings/rust/extended/s2n-tls/src/config.rs`, the TLC configurations that
model-check them, TLAPS proofs about the config's reference count and the
Builder, and a model of the `compare` command of `tools/junit-snapshot`.
`PROJECT.json` is the machine-readable index: components, runs, mutants, the
definition-to-source map, hazards and theorems.

## The system

The repository's `src/` holds five Rust files:

| File | What it does | Modelled |
|---|---|---|
| `bindings/rust/extended/s2n-tls/src/config.rs` | `Builder` and `Config`, the safe wrapper around the C `s2n_config` | yes, in four modules |
| `tools/junit-snapshot/src/main.rs` | CLI that snapshots JUnit XML results and compares against a baseline | the `compare` command |
| `tests/snapshot/src/main.rs`, `tests/snapshot/tests/snap.rs` | XML tree dumper, placeholder test | no: pure I/O |
| `codebuild/utils/src/main.rs` | one AWS SDK request | no: pure I/O |

`config.rs` has three parts that interact.

1. **The shared handle.** A `Config` is a pointer to a C `s2n_config`. The
   config's context slot holds a boxed `Context`, whose `refcount: AtomicUsize`
   counts the `Config` values.
   - `Config::clone` does `fetch_add(Relaxed)`.
   - `Drop for Config` does `fetch_sub(Release)`. If the returned count is 1, it
     runs an `Acquire` fence, frees the `Context` box, then calls
     `s2n_config_free`.
   - Any thread may clone or drop a `Config`.
2. **The staging phase.** `Builder` owns the only `Config` while the
   application configures it. Its setters call the C library and record state
   in the `Context` through `context_mut()`:
   - the certificate chains the C side borrows (`application_owned_certs`);
   - the callback handlers;
   - the `enable_ocsp` and `load_system_certs` flags.

   `build` hands the `Config` out. If loading the system trust store fails,
   `build` drops the Builder.
3. **Connection initializers.** `ConnectionInitializer for (A, B)` runs two
   initializers. Their futures are combined in a `ConcurrentConnectionFuture`,
   which the connection polls before the handshake.

Part 2 depends on part 1 for its exclusivity claim: the Builder's `Config` is
the only reference. Part 1 frees the `Context` that part 2 filled in. Part 3's
hooks are stored in the same `Context`.

## Modules

| Module | Models | State | Actions |
|---|---|---|---|
| `ConfigRefcount` | `Builder::new`, `Builder::build`, `Clone`/`Drop for Config` | `hstate` (each `Config` value: none/builder/live/releasing/dropped), `obs` (what its `fetch_sub` returned), `refcount`, `ctx`, `cfg` (unallocated/alive/freed), `frees` | `New`, `Build`, `Clone`, `DropStart` (the `fetch_sub`), `DropReturn` (the `count != 1` return), `DropFree`, `Terminated` |
| `SharedHandle` | the abstract contract of the shared handle | `owners`, `resource` | `Create`, `Share`, `Release`, `Free` |
| `ConfigRefcountProofs` | the theorems about `ConfigRefcount`, and the refinement mapping to `SharedHandle` | | |
| `ConfigBuilder` | the Builder setters that change Context or C-config state, and `build` | `appHeld` (chains the application still references), `owned` (`application_owned_certs`), `cStore`, `cDefaults` (chains the C config borrowed), `enableOcsp`, `cStatus`, `handler`, `cCallback`, `ticketsOn`, `loadSystemCerts`, `phase` | `LoadChain`, `SetDefaultChains`, `EnableOcsp`, `SetOcspData`, `TrustLocation`, `WithSystemCerts`, `EnableSessionTickets`, `SetCallback`, `Build`, `AppDropChain` |
| `ConfigBuilderProofs` | the theorems about `ConfigBuilder` | | |
| `BuilderSettings` | the setters that change the C config in several calls or check input first | `alpn`, `asked` (the list the application asked for), `ticketsOn`, `keys`, `opts`, `trust`, `certs`, `last` (the setter last called and its result) | `SetApplicationProtocolPreference`, `AppendApplicationProtocolPreference`, `EnableSessionTickets`, `AddSessionTicketKey`, `SetTicketOption`, `TrustPem`, `WipeTrustStore`, `LoadPem` |
| `BuilderSettingsProofs` | the theorems about `BuilderSettings` | | |
| `JunitCompare` | the `Commands::Compare` arm of junit-snapshot's `main` | `baseline`, `current` (parsed results), `ran`, `report` (the counters and `has_differences`) | `RunCompare` |
| `ConnectionInitializerProofs` | the theorems about `ConnectionInitializer`, and the refinement mapping to `InitializerJoin` | | |
| `InitializerJoin` | the abstract contract of composed initializers | `phase` (running/ok/err), `result` (each initializer: unknown/ok/err) | `Settle` |
| `JunitCompareProofs` | the theorems about `JunitCompare` | | |
| `ConnectionInitializer` | `initialize_connection` of the pair and `ConcurrentConnectionFuture::poll` | `stage`, `invoked`, `slot` (the `Option` per future), `inner` (what each future last answered), `polls` | `InitializeConnection`, `Poll`, `Finished` |
| `MC_*` | model values and bounds for TLC | | |

### How the modules correspond to the code

- **`ConfigRefcount`**
  - `Drop` is split at the one point where another thread can interleave: after
    the `fetch_sub`, before the branch on its result.
  - The counter wraps modulo `UsizeModulus`, as `AtomicUsize` does in a release
    build, where the `debug_assert` is absent.
  - A dropped `Config` value may be reused by a later `Clone`, so four values
    cover an unbounded run of clones and drops.
- **`ConfigBuilder`**
  - The C library is the environment: each `s2n_config_*` call may succeed or
    fail.
  - When `s2n_config_add_cert_chain_and_key_to_store` fails, the bindings
    cannot know whether C kept the chain pointer. `retained` is therefore a free
    choice whenever the call failed.
  - Passing a chain by value may or may not leave the application holding a
    clone.
  - The application may drop its own chain references at any time. This is
    `AppDropChain`, modelled from the certificate module's contract, which lives
    outside `src/`.
- **`BuilderSettings`**
  - `set_application_protocol_preference` is one action: the reset, then one
    append per protocol until the first failure, which is returned. An append
    fails either in C or on the `usize -> u32` conversion of the protocol's
    length (`AppendOutcome`; the protocols of `LongProtocols` are those of
    2^32 bytes or more), the latter with `INVALID_INPUT` before C is called.
    A failure half way, `INVALID_INPUT` included, leaves a prefix of the new
    list in C.
  - `append_application_protocol_preference` is the same single append.
  - `add_session_ticket_key` refuses a key whose length is no `u32`, an
    `intro_time` before the epoch and a key shorter than 16 bytes with
    `INVALID_INPUT`, then enables tickets, then adds the key. The `u32` limit
    is the constant `U32Limit` (2^32), which the run scales down to 17 so that
    TLC's integers can hold it. The conversion of the key name's length is
    left out: it fails the same way, before any C call.
  - A PEM with an interior NUL byte is refused by `CString::new` before C is
    called (`trust_pem`, `load_pem`).
  - The five ticket-key option setters are one action over a set of options.
- **`JunitCompare`**
  - Names are sequences of characters, so `format!("{}::{}")` is
    concatenation and `split("::")` is modelled by what it does (`SplitSep`).
    `SplitSep` is a recursive function over `Seq(STRING)`, not a RECURSIVE
    operator, so that the prover can reason about the module.
  - The baseline map keeps the last case inserted under each key, as
    `HashMap::insert` does.
  - A test case keeps only whether it carries failure, error and skipped.
    Messages, timing and the printed report are left out.
- **`ConnectionInitializer`**
  - One poll of the combined future is one step: the loop never yields inside.
  - Each future answers Pending, Ready(Ok) or Ready(Err) freely, within a bound
    of `MaxPolls` polls.

## Runs

| Run | Module / cfg | Properties | Distinct states |
|---|---|---|---|
| refcount_safety | `MC_ConfigRefcount` / `ConfigRefcount_safety.cfg` | NoUseAfterFree, FreedAtMostOnce | about 580 (with symmetry) |
| refcount_liveness | `MC_ConfigRefcount` / `ConfigRefcount_liveness.cfg` | NoLeak | about 9,000 |
| refcount_inductive | `MC_ConfigRefcountProofs` / `ConfigRefcount_inductive.cfg` | RefInv | about 580 |
| builder_ownership | `MC_ConfigBuilder` / `ConfigBuilder_safety.cfg` | NoDanglingChain, OcspMatchesRequest, BInv | about 1.2 million |
| refcount_refinement | `MC_ConfigRefcountProofs` / `ConfigRefcount_refinement.cfg` | AbstractSpec | about 9,000 |
| builder_settings | `MC_BuilderSettings` / `BuilderSettings.cfg` | AlpnMatchesRequest, RejectedInputChangesNothing | about 9,700 |
| junit_compare | `MC_JunitCompare` / `JunitCompare.cfg` | ReportExact | about 988,000 |
| junit_missing (violation) | `MC_JunitCompare` / `JunitCompare_missing.cfg` | NoSilentlyMissingTest | violated |
| initializer_combinator | `ConnectionInitializer` / `ConnectionInitializer.cfg` | CompleteOnlyIfAllSucceeded, NoPollAfterReady | about 120 |
| initializer_inductive | `ConnectionInitializerProofs` / `ConnectionInitializer_inductive.cfg` | IInv | about 120 |
| initializer_refinement | `ConnectionInitializerProofs` / `ConnectionInitializer_refinement.cfg` | JoinSpec | about 240 (three initializers) |

What the properties say:

- **NoUseAfterFree.** Every `Config` value that can still reach the `Context`
  finds it and the C config allocated. This covers the Builder's value, every
  live one, and one in `Drop` about to free.
- **FreedAtMostOnce.** `s2n_config_free` runs at most once.
- **NoLeak.** Once no holder is left, the config is eventually freed.
- **NoDanglingChain.** Every chain the C config borrowed is still live memory.
  This holds through failed C calls and through the application dropping its
  own chains.
- **OcspMatchesRequest.** OCSP stapling is on exactly when `enable_ocsp` (or
  `set_ocsp_data`) succeeded. This holds in either order with `trust_location`,
  whose C call turns OCSP on as a side effect.
- **AbstractSpec.** The refcounted life cycle implements `SharedHandle` under
  `owners <- Holders`, `resource <- cfg`. Every step is an abstract step or a
  stutter, and an unowned config is eventually freed.
- **AlpnMatchesRequest.** After `set_application_protocol_preference`
  returned Ok, C offers exactly the protocols passed, whatever list it held.
- **RejectedInputChangesNothing.** An action property: a setter other than
  `set_application_protocol_preference` that returns `INVALID_INPUT` has
  changed nothing in the C config, because it checks its input before its
  first C call (before enabling tickets, in `add_session_ticket_key`).
  `set_application_protocol_preference` is left out on purpose: it resets the
  list and appends before it meets a protocol too long for a `u32`, so its
  `INVALID_INPUT` leaves a prefix of the request, and nothing documents
  otherwise.
- **ReportExact.** When the baseline has no duplicate and every name is
  *splittable* (`NamesSplittable`: it contains no `::`, a suite name does not
  end with `:` and a test name does not begin with `:`), every key splits
  back into its suite and test, `compare` fails exactly when the set of
  (suite, test, status) differs, and its missing count is the number of
  baseline tests absent now. The condition is the exact one: names without
  `::` are not enough, since suite `a:` and test `b` give the key `a:::b`,
  which splits into `a` and `:b`.
- **NoSilentlyMissingTest** (expected violation). "All tests match the
  baseline" implies every baseline test is still present.
- **CompleteOnlyIfAllSucceeded.** The handshake may start only after every
  initializer was called and every future it returned completed with Ok.
- **NoPollAfterReady.** An action property: no future is polled after it
  answered Ready.
- **JoinSpec.** The combinator implements `InitializerJoin`. Each
  initializer's outcome, once known, is never revised. The phase fails as
  soon as one initializer failed, and completes only when all succeeded. The
  run uses three initializers, so that an Err can stop a poll loop between
  an Ok and a Pending.

Every property has a mutant in `PROJECT.json`, a plausible bug in the mapped
code that TLC finds violates it:

| Property | Mutant |
|---|---|
| NoUseAfterFree, RefInv | a clone without `fetch_add` |
| FreedAtMostOnce | the `count != 1` return dropped |
| NoLeak | the return tested against 0 |
| NoDanglingChain | a chain kept only on success |
| OcspMatchesRequest | `trust_location` always resets OCSP |
| NoPollAfterReady | an Ok slot not emptied |
| CompleteOnlyIfAllSucceeded | a Pending answer ignored |
| BInv | a chain kept only on success |
| AbstractSpec | the `count != 1` return dropped |
| AlpnMatchesRequest | the list not reset before appending |
| RejectedInputChangesNothing | tickets enabled before the input checks |
| ReportExact | the missing-test loop left out |
| JoinSpec | an Ok slot not emptied (the future is polled again and its outcome revised) |

### Finding

`junit_missing` fails, and this is a bug in `tools/junit-snapshot/src/main.rs`.
The missing-test check at line 218 only considers keys that `split("::")` into
exactly two parts. Rust test names are paths such as `tests::foo`, so the key
`suite::tests::foo` has three parts. When such a test disappears from the
current results, it is not counted, and the command prints "All tests match
the baseline." and exits successfully. TLC's trace is a baseline with suite `a`
holding test `b::b`, and an empty current result.

### Bounds and why they suffice

- **Refcount: four `Config` values, `UsizeModulus = 8`.** Four values give a
  Builder plus three clones, or two values in `Drop` at once while others clone.
  Every interleaving of a clone with the last two drops is reachable, and that
  is where a counting bug shows. The modulus is above the largest count, as the
  assumption `UsizeAssumption` requires.
- **Builder: two chains, two callback categories, two handlers,
  `CHAINS_MAX_COUNT = 4`, `MaxOwned = 5`.** Default-chain sequences of length
  up to 5 reach the over-limit refusal. Two chains let one be borrowed while the
  other is dropped.
- **BuilderSettings: two protocols, `MaxAlpn = 2`, key lengths 15 and 16.**
  A list of two lets a reset, a partial append and a longer old list all
  occur. 15 and 16 sit on both sides of the length check.
- **JunitCompare: up to two suites of one case each.** Suite names `a` and
  `a:`, case names `b`, `:b` and `b::b`. These include a name containing the
  separator, and names whose join produces `:::`, where the split is ambiguous.
  Case kinds cover pass, failure and skipped.
- **Initializer: `N = 2` (the tuple impl), `MaxPolls = 5`.** Both futures can be
  pending for several passes, so Ok, Err and Pending interleave in every order
  across passes.

### Fairness

- **`ConfigRefcount`** assumes weak fairness only for `DropReturn` and
  `DropFree`. After its `fetch_sub`, the rest of `Drop` is straight-line code of
  the same thread, so it cannot be postponed for ever.
- **`SharedHandle`** assumes weak fairness of `Free`. It is implied, under the
  mapping, by the fairness of `DropFree`.
- **No other step is fair.** Whether the application ever clones, drops or
  builds is its own choice. `NoLeak` is stated accordingly: from the point where
  no holder is left.
- **`ConfigBuilder` and `ConnectionInitializer`** have no fairness and are
  checked only for safety. The initializer's progress depends on wakers outside
  `src/`.

## Proofs (TLAPS)

`ConfigRefcountProofs` proves, for every finite non-empty set of `Config`
values and every modulus larger than their number:

- **`TypeCorrect`**: `Spec => []TypeOK`.
- **`RefInvariant`**: `Spec => []RefInv`.
- **`RefcountSafety`**: `Spec => [](NoUseAfterFree /\ FreedAtMostOnce)`.
- **`FreedOnce`**: the second conjunct on its own, as a corollary.

The safety properties are not inductive on their own. A `Clone` step is safe
only because the counter cannot be 0 while a live value exists. `RefInv`
strengthens them with these facts:

- the counter equals the number of holders;
- the Context and the C config share one memory state;
- `frees` is 1 exactly when freed;
- nobody exists before `Builder::new`;
- a holder or a last releaser implies the memory is alive;
- a last releaser implies no holders, and there is at most one last releaser;
- a Builder is the only holder.

Because the counter equals a cardinality below the modulus, neither the
increment nor the decrement ever wraps. The lemmas `DecrementNoWrap` and
`IncrementNoWrap` record this. The step proof has one lemma per action.
`RefInv` is also checked by TLC (run `refcount_inductive`) as the first test of
the strengthening.

`ConfigRefcountProofs` also proves **`Refinement`**:
`Spec => AH!SafeSpec`, where `AH` is `SharedHandle` instantiated with
`owners <- Holders`, `resource <- cfg`. Initial states map to initial states
(`RefineInit`). Every step, under `RefInv`, maps to an abstract step or a
stutter (`RefineStep`):

| Concrete step | Abstract step |
|---|---|
| `New` | `Create` |
| `Clone` | `Share` |
| `DropStart` | `Release` |
| `Build` | a stutter, or `Release` if the Builder was dropped |
| `DropReturn`, `Terminated` | stutters |
| `DropFree` | `Free` |

`ConfigBuilderProofs` proves, for every set of chains and every limit:

- **`BuilderInvariant`**: `Spec => []BInv`.
- **`BuilderSafety`**: `Spec => [](NoDanglingChain /\ OcspMatchesRequest)`.
- **`OcspAsRequested`**: `Spec => []OcspMatchesRequest`, its corollary.

`BInv` adds two facts to the type invariant:

- everything the C config borrowed is in the Range of `application_owned_certs`;
- `enable_ocsp` succeeded only where OCSP is supported.

`NoDanglingChain` alone is not inductive. A dropped application reference is
harmless only because the Context still owns the chain.

`BuilderSettingsProofs` proves:

- **`AlpnCorrect`**: `Spec => [](TypeOK /\ AlpnMatchesRequest)`. The step of
  `set_application_protocol_preference` with every append done gives
  `SubSeq(ps, 1, Len(ps)) = ps`.
- **`InputCheckedFirst`**: `Spec => RejectedInputChangesNothing`, one case per
  action and no invariant. The step of `set_application_protocol_preference`
  is excluded by the property's own antecedent (its `op`).

`ConnectionInitializerProofs` proves, for every number `N` of initializers
and every poll bound:

- **`InitializerInvariant`**: `Spec => []IInv`.
- **`InitializerSafety`**: `Spec => []CompleteOnlyIfAllSucceeded`.
- **`PollOnlyPending`**: `Spec => NoPollAfterReady`, the action property.

`CompleteOnlyIfAllSucceeded` is not inductive. A `Poll` step that finds no
future pending moves to "ok". That is right only because of facts `IInv`
records, in the polling and ok stages:

- a slot is Some exactly when its future last answered Pending;
- an empty slot's future answered Ok or never existed;
- every hook was invoked;
- a Some slot has been polled fewer than `MaxPolls` times, which keeps `polls`
  in its type;
- in "ok" every slot is empty;
- before `initialize_connection`, nothing has been touched;
- while polling, some slot is still Some;
- in "err", some invoked initializer answered Err.

TLC checks `IInv` first (run `initializer_inductive`). The same invariant gives
the action property: `Poll` advances only slots that are still Some, and those
futures are pending.

Both steps go through the lemma `UpToNoErr`. If no hook visited before the
first Err answered Err, then the loop visited every hook. Its proof needs the
least failing hook. That comes from `WFMin` and `NatLessThanWellFounded` of
`WellFoundedInduction` (lemma `NatSetHasMin`), not from an induction theorem
with an operator parameter, which the provers cannot instantiate.

`ConnectionInitializerProofs` also proves **`JoinRefinement`**:
`Spec => JoinSpec`, where `AJ` is `InitializerJoin` instantiated with
`result <- Reported` and `phase <- JoinPhase`. `Reported` says, per
initializer: unknown before it was called or while its future is pending;
err if it or its future failed; ok otherwise. `JoinPhase` is running in the
start and polling stages. The argument has three parts:

- `PhaseFromReported`: under `IInv`, the stage is the phase the reported
  outcomes determine. This is why the last two conjuncts of `IInv` are
  there.
- `ReportedStable`: under `IInv`, no step changes an outcome already
  reported. `initialize_connection` runs before any outcome is known, and a
  poll reaches only Some slots, whose futures are pending.
- `JoinStep`: every `InitializeConnection` or `Poll` is a `Settle` of the
  initializers whose outcome it revealed, and `Finished` is a stutter.

`JunitCompareProofs` proves **`CompareExactOnRoundTrip`**:
`Spec => []ExactWhenKeysRoundTrip`, for every set of names and kinds and
every bound on suites and cases. `ExactWhenKeysRoundTrip` says that when the
baseline has no duplicate and every key splits back into its suite and test
(`KeysRoundTrip`), the report matches the reference
(`ReportMatchesReference`). It is not the run's `ReportExact`: which names
round-trip is about what `SplitSep` computes, which the provers cannot
establish (see below). What the theorem does establish, for results of any
size, is that nothing else in `compare` errs: the two maps, the last-wins
insertion and the three counts. The invariant `JInv` says the report is
`Compare(baseline, current)` once compare has run; it is inductive at once.
The work is in the lemma `CompareExact` about `Compare` itself, from which
three lemmas follow:

- `KeyMatchesTest`: two keys are equal exactly when their tests are.
- `BaselineMapAt`: with `UniqueTests`, a baseline test has one entry
  (`UniqueEntry`, from `FS_Surjection`). So `baseline_test_map` holds that
  entry's status, whichever entry the last-wins choice picks.
- For the count: `k |-> SplitSep[k]` is a bijection from the missing keys to
  the baseline tests the current results lack, so the cardinalities agree
  (`FS_Bijection`).

**Only model-checked:**

- `NoLeak` and the fairness part of `AbstractSpec`, because they are liveness
  and TLAPS does not prove liveness;
- `NoSilentlyMissingTest`, which is violated: its counterexample is a finding,
  not a theorem;
- which names round-trip through `format!` and `split("::")`. `ReportExact`
  concludes `KeysRoundTrip` from `NamesSplittable`, and TLC checks this on
  the names of `MC_JunitCompare`: `a`, `b` and `b:` are splittable, `a:`,
  `:b` and `b::b` are not. For every string it would need the unfolding of
  the recursive function `SplitSep`, whose existence on `Seq(STRING)` is a
  well-founded induction the provers cannot instantiate.

## What is not modelled, and why

- **Memory ordering.** The `Relaxed`/`Release`/`Acquire` fence discipline is not
  modelled: atomics are sequentially consistent steps. TLA+ interleavings
  cannot express weak memory.
- **`Config::from_raw` and the callback trampolines.** They are used by
  connection code outside `src/`. The trampolines read a `Context` slot and
  change no state of this code.
- **The remaining single-call setters.** These are cipher policy, alert
  behaviour, dhparams, client auth, key log, chain depth, send buffer, the
  custom x509 extension and the certificate authorities. Each is one C call
  with no Rust-side state, of the same shape as `SetTicketOption`.
- **The ordering in `Drop` at config.rs:166.** The Context, which owns the
  chains, is freed before `s2n_config_free`. This is safe only if the C free
  does not read the chains. That is C code outside this repository.
- **junit-snapshot `init`, `capture` and `accept`, the snapshot dumper and the
  CodeBuild utility.** These are file and network I/O; `accept` is a
  placeholder.
- **Nested initializer tuples.** Not modelled yet.

## Plan for later work

1. Compose `ConfigBuilder` with `ConfigRefcount`, so that `build` hands the
   Builder's handle to the shared life cycle.
2. Model nested initializer tuples, and show that a nested tuple still
   implements `InitializerJoin`.
