# oxicrypt in TLA+

A verification development kept beside the oxicrypt sources: TLA+ modules that
model the program, TLC configurations that model-check them on small instances, and
TLAPS proofs of what holds for every instance. Paths below are relative to `src/`;
`crates/x` stands for `crates/oxicrypt-x`.

1. Inventory  2. Modules  3. What the runs check  4. What is proved
5. Abstractions  6. Not modelled  7. Where the code and its documentation part
8. Met while modelling  9. Plan

## 1. Inventory

oxicrypt is a FIPS 140-3 cryptographic module in Rust: some thirty algorithm crates
around a module boundary, a C interface and bindings, an entropy source, and two
harnesses that talk to NIST's servers.

| component | state it keeps | operations | what makes it correct |
|---|---|---|---|
| module boundary, `crates/module` | one atomic `STATE` word (state and owning thread id), one atomic `PROFILE` byte | `initialize*`, the gates `require_operational` and `require_allowed`, the guard `require_self_test_started`, `enter_error_state` | one run of the self-tests per process, services only after all of them passed and only within the profile, a failure is final and every caller is told the truth |
| C interface `crates/ffi`, bindings `oxicrypt`: initialisation | none of their own | `oxi_init` with its fast path, `Module::init` with its second look | all callers are told the same, and a `Module` belongs to the profile it was asked for |
| integrity test, `crates/integrity` | pass flags of two CASTs, latched status, detail, key fingerprint | the CASTs, the boot test, the direct test | an operational module runs the image that was signed; primitives are tested before they test |
| image and slot, `crates/imageread`, `integrity/{slot,acquire,elf,verify}.rs` | none between calls | locate the signed slot, hash the image as it was on disk, find the key | a signed image verifies at any load address, an altered one does not |
| DRBGs, `crates/drbg` | Key and V (V and C), reseed counter, instantiated flag | instantiate, reseed, generate, uninstantiate, health test | no output from a state that was not completed, the reseed ceiling, prediction and backtracking resistance |
| entropy, `crates/entropy` | pipeline state, RCT and APT counters; a 32-byte buffer in the `rand_core` adapter; the files of a collection | start-up and on-demand batteries, sample, conditioned block, fill; `collect` | a failing source is always noticed, output is fresh, a poisoned pipeline gives nothing out; what is listed as complete is whole |
| RSA handles, `crates/rsa` | key material, with or without CRT components | constructors with their pairwise test, generation, signatures, decryption | a handle exists only of material its test exercised; no faulty CRT half leaves the module |
| ECDSA, Ed25519, ECDH, DH handles | a scalar and a point | as for RSA | as for RSA; bounded retries; the arithmetic is exact |
| AES, hashes, MACs, KDFs, ML-KEM, ML-DSA, SLH-DSA, LMS and XMSS verification | none that outlives a call | one-shot and streaming functions | inverse operations undo each other, any way of feeding gives the same, boundaries of words and blocks |
| estimators, `crates/maxwell` | none | batch statistics over a file | agreement with the definitions of SP 800-90B |
| C interface: services | handles | some three hundred wrappers | nothing is written unless the call succeeds; no refusal of the module is taken for another |
| ACVP harness | token, a directory per vector set | fetch, compute, submit, refresh, resubmit; a handler per algorithm | what was computed is never lost, nor graded as something else; a defect of one test does not spoil the set |
| ESV harness | a session directory with an append-only log; tokens | register, upload, certify; replay on resumption | nothing done on the server goes unnoticed after a crash |
| command line tool `oxi`, signing tools, xtask, scripts, benches, vectors | none the program keeps | one operation a process; build, sign, generate | not part of the state between calls |

How they interact: every algorithm call first asks the module boundary (`STATE`, then
`PROFILE`), and its internals ask again through the guard at each pass, so a call in
one thread meets `enter_error_state` of another at any of those points. Initialisation
runs self-tests supplied by the algorithm and integrity crates as callbacks, on the
initialising thread; they may call the module again, unwind, fail, or wait for a pool
of worker threads. The DRBGs feed key generation and the entropy pipeline seeds
them through its caller. The harnesses are processes of their own that may die, or lose
their connection or their token, between any two steps.

The hard behaviours, each at its line, are the `hazards` of `PROJECT.json`, and the state
of each component's model is in its `components`.

## 2. Modules

`ModuleLifecycle` is the abstract specification of the boundary: `PowerOff`, then `SelfTest`
owned by an id, then `Operational`, `IntegrityUnverified` or `Error`, and the profile
in force, which changes only together with the phase. `ModuleState` is shown to implement
it. `IntegrityBoot` composes with it: its boundary is an `INSTANCE` of `ModuleLifecycle`
whose steps interleave with its own. The other stateful modules keep of the boundary
whether it admits the caller, with a step that shuts it between any two of theirs.

Machines (`VARIABLES`, one action per atomic access or step):

| module | models | how |
|---|---|---|
| `ModuleState` | `crates/module/src/lib.rs` | `word` is `STATE`, `policy` is `PROFILE`. `CallInitialize`, `WinClaim`/`LoseClaim`, `PassEntry`/`FailEntry`/`UnwindEntry`/`Reenter`, `PublishProfile`, `Commit`, `RollBackProfile` and `DropGuard` are `initialize_as` in order, `SpinOnce` and `AnswerLoser` its losers' loop; `PassGate`, `PassProfile`, `EnterInternal` are the gates and the guard. Threads come and go and their ids are reused |
| `FfiInit` | `oxi_init`, `Module::init` | over `ModuleState`: a frame per thread around its call of `initialize` |
| `IntegrityBoot` | `crates/integrity/src/lib.rs`, `verify.rs` | the boot thread runs the entries of its group in order, other threads call CASTs and tests directly; the image is one of six kinds |
| `Drbg` | `ctr.rs`, `hash.rs`, `hmac.rs`, `health.rs` of `crates/drbg` | an operation is the list of its guarded passes; each writes a half of the state, or a block of output, from named inputs. Values are stamps: fresh when computed, equal when the code would compute the same |
| `RsaHandle` | `crates/rsa/src/{lib,keygen,oaep}.rs` | an operation is the list of its steps (`Steps`); keys are right or wrong, consistent or not; a fault may strike the arithmetic |
| `EcdsaHandle` | the handles of `crates/{ecdsa,eddsa,ecdh,dh}` | an operation is the list of its guarded steps (`Plan`), with bounded retries, faults and refusals |
| `HealthTests`, `EntropyPipeline`, `EntropyRng` | `crates/entropy/src/{health,pipeline,conditioner,source,rand_core_compat}.rs` | RCT and APT as incremental machines and as predicates on a whole sequence; the pipeline; the buffered generator over it. Samples are known by their place in the source's sequence |
| `RawCollection` | `crates/entropy/src/collection.rs` | the command over two boundaries: files, manifest, checkpoint; death within any write |
| `EsvSession` | `esv-harness/src/session.rs` | the log as the operating system shows it (`log`, `torn`), what is on the disk (`synced`, `directory`, `entry`), the call in progress; `Crash`, `PowerLoss` and `FileSystemFails` fall between any two steps |
| `EsvExchange` | `esv-harness/src/{login,datafiles,http}.rs` | one token with its age, renewals, the 30-second window of one-time codes, a poll; time in units of 10 s |
| `AcvpSession` | `acvp-harness/src/{transport,session}.rs` | `demo-run` and `resubmit` over both transports, the server's side of each submit, the directory of each vector set |
| `SweepPool` | `crates/slh-dsa/src/sweep.rs` | the pool of a parallel sweep while global workers wait for the self-tests |

Pure algorithms (operators over bounded inputs, compared with a reference definition):

| module | models |
|---|---|
| `ServiceProfile` | every service, the CNSA tables and the LMS block |
| `LibraryCalls` | the public calls of the algorithm crates as gates, checks, guarded computations and writes |
| `FfiCalls` | the services of the C interface as null checks, slices, calls and copies out, and the maps of errors to statuses |
| `RsaArith`, `WeierstrassCurve`, `EdwardsCurve` | Montgomery arithmetic, prime search, inverse, CRT; fields, points, ladders, scalars, encodings, limb by limb at reduced widths |
| `HashStreams`, `KeyDerivation`, `BlockModes` | buffering and framing around an ideal compression function; KDFs over a PRF that may be refused at any call; modes over an ideal cipher |
| `MlKem`, `MlDsa`, `SlhDsa`, `StatefulHash` | the lattice schemes with their real moduli at a small ring; WOTS, FORS and hypertrees; verification and routing of LMS and XMSS |
| `ImageVerification` | the signed entry table, the extent of an ELF image and its relocations, signing, loading at a slide and the test |
| `RawCollector`, `EsvReplay` | annotation of raw samples; the fold of a submission log |
| `Estimators` | predictors, dictionaries, tuples, permutation and chi-square counts |
| `AcvpHandlers` | what each handler asks of a group and its tests and how it answers; registry, capabilities and the loop over groups |
| `ByteStrings` | byte strings, shared |

`MCModuleState`, `MCBootAndHandle` (`IntegrityBoot` and `RsaHandle`), `MCGenerators` (`EntropyRng` and `Drbg`), `MCSessionTools`
(`EsvSession`, `AcvpSession`, `RawCollection`) and `MCAlgorithms` (the rest) instantiate them
for TLC. The last four hold several machines that share no state in the code either; a
behaviour runs one of them and the others stay as they begin. The modules named `...Proofs` hold
the theorems (section 4), apart from the machines they are about.

Operators named `X_Something` with the comment "Fault:" are plausible bugs of
`X`. Nothing uses them; put in the place of `X` they show which property notices.

## 3. What the runs check

| run | distinct states | question |
|---|---|---|
| `module_state` | 198,044 | do threads that race initialisation, re-enter it from a self-test, unwind, pass the gates and latch `Error` ever break a promise; do `oxi_init` and `Module::init` tell all callers the same; does every initialisation return? |
| `boot_and_handle` | 139,046 | does the module ever open over a wrong image, use an untested primitive or report a wrong status, whatever the order of the group and whoever else calls; can a fault or an inconsistent key get past the pairwise test of an RSA handle or out of its signature? |
| `generators` | 5,695,041 | what do all sequences of calls on a DRBG promise, with the module shut between any two passes; is a failing source noticed exactly when it should be, and is output ever stale or served twice? |
| `session_tools` | 3,970,507 | after any death, loss of power or lost reply, does the directory still say what the server did, and is nothing lost, submitted for ever or listed as complete when it is not? |
| `algorithms` | 116,117 | do the tables, gates, arithmetic, schemes, modes, framings, wrappers, images, estimators and handlers agree with their definitions over bounded inputs; do sweeps and polls end? |
| `rsa_pss`, `collection_tripped`, `collection_stale`, `esv_durable`, `acvp_timeout`, `ed25519_decode`, `profile_drbg` | up to 276,000 | a documented claim that the code does not keep (section 7) |

The properties of `algorithms` that compare an operator with a definition are action
properties of the step that asks the question, so a counterexample names its input.

**Bounds, and why they are enough.**
`module_state`: two threads are a winner and a loser, or one and the one that latches
`Error` or is handed an id that was given back; a third only repeats a role, and the
proofs are for any number. One entry in a group is first, middle and last. Three ids, one of
which the owner field cannot hold; two profiles, one of them refusing a service.
`boot_and_handle`: seven groups (in order, with another test behind, listed twice, out of
order, a CAST missing, the verifier called before the entry, none of it listed), three
threads, all six images; for the handle a fault in the test and one in the use, or two in one call
(`MaxFaults` = 2; proved for any number).
`generators`: requests of up to two blocks (`MaxBlocks`) show the order within a request, a
reseed interval of 2 (`RESEED_INTERVAL`, 2^48 in the code) puts requests below, at and
above the ceiling, two entropy inputs (`MaxEntropy`) a reseed behind an instantiation. An RCT
of 3, an APT of 2 in a window of 3 and batteries of 3 let each test fail alone, together,
across the end of a window and in a battery; nine samples (`MaxDrawn`) reach past two
batteries and into a block after them; blocks of two samples and two bytes, fills of up to
three bytes (`MaxFill`) end within, at and behind a block.
`session_tools`: ESV: three operations and captures in any order (`MaxCalls`), two of them
documents of one type whose outcomes look alike, and three faults (`MaxFaults`): one in a
call, one in its retry, one after it; deaths and failed calls, or losses of power. ACVP: two
vector sets share a token and a tunnel, two fetches and two polls for each, one resubmit and
one death or failed write anywhere (`MaxMishaps`). Collection: five commands (`MaxRuns`) of three plans
over each other with no failure, and of each two plans that share the directories with one or two deaths or
failures (`MCScenarios`): of different kinds, two characterizations of two and of three samples, two
certifications of different claims. What the last two can lead to is excepted by name in `CompletedIsWhole`
(`Confused`: only boundaries that were skipped, only where a plan of the same kind shares the path) and is
the finding `collection_stale`, a session of the two characterizations with one failure.
`algorithms`: constants as in `MCAlgorithms.cfg` and the `INSTANCE`s of `MCAlgorithms`,
chosen so that each carry, borrow, wrap, retry, full dictionary and boundary of a block
occurs; each module says beside a constant what the code has in its place. `LibraryCalls`: every
service under four profiles with every bad argument and every failing step, loops two
rounds long. `FfiCalls`: every service with every null, short or refused argument and every
failing inner call. The handlers: two groups of up to two tests with single defects and
refusals, every registered capability, all pairs of registered names. `EsvExchange`: 8 units of
life and a margin of 4 for 180 s and 120 s, four polls for 240, one pending answer for 20, one
transient failure for 3. Estimators: binary samples up to nine, ternary up to six,
150 noise strings of 14 and periodic words; windows 2, 3, 4, a lag of 3 and a dictionary of 3 and 5
entries, which fill.

**Symmetry.** Threads in `MCBootAndHandle` and sample values in `MCGenerators` are
interchangeable: no definition orders or names them. No run with a liveness property uses any.

**Fairness.** `FfiFairness`: `WF` of a thread's steps inside an initialisation and around it; the
code has no blocking call there, the self-tests are finite and the system schedules its
threads. `SweepFairness`: `WF` of the workers' steps, as rayon's threads run what is queued.
`ExchangeFairness`: a request is answered or times out (the transport has a time limit), and a wait ends.
Nothing is assumed of what an application does.

**Deadlock** is checked in `module_state`, `boot_and_handle`, `generators` and `rsa_pss`. In
`session_tools` the bounds on calls and faults let a tool come to rest, and in `algorithms` an
answered question is the end of its behaviour.

## 4. What is proved

Each theorem holds for every value of the constants under the `ASSUME`s of the modules it
extends. They ask for what types alone say and what the code's constants satisfy: an APT
cutoff within its window and cutoffs above 1 (`HealthAssumption`), non-empty groups
(`BootAssumption`), a default profile among the profiles, ids that can be recorded among the
system's (`ModuleAssumption`), at least one vector set (`AcvpAssumption`), sweeps that have parts
(`SweepAssumption`). Some say more and are named here:

- `PowerAlone` (`SessionToolsProofs`): where the power can fail nothing else does. Without it the
  claim is false, which the run `esv_durable` shows.
- `ExchangeAssumption` (`EsvExchange`): the renewal margin, tunable in the code, does not exceed a
  token's life, and the retries of a post outlast the window of a one-time code.
- `Bounds` (`DrbgProofs`): the reseed interval and the longest request are numbers, the interval at
  least 1; `MaxFaults \in Nat` in `RsaHandleProofs`.

In every module the argument is an inductive invariant that TLC checked on a small instance
before it was proved, one lemma per conjunct (or per group of actions), one step per action.

**`ModuleStateProofs`** (`crates/module`, `oxi_init`, `Module::init`), for any number of threads, ids,
profiles, services and entries. The properties are not inductive alone: that only the owner
settles a `SelfTest` word needs distinct ids of live threads, and that a thread between its claim
and its settlement finds its own id in the word or `Error`; that the profile in force belongs to
the opening needs what each program point of the winner knows of `STATE` and `PROFILE`; that
answers stay true needs what a waiting thread has seen. `IInv` is `TypeOK`, `ThreadInv`,
`WordInv`, `OpenInv`, `SeenInv`, `AnswerInv`. From it: `SelfTestOwned`, `OpenedOnlyByTests`,
`ServiceProfile`, `DefaultAfterFailure`, `AnswersStand`; the action properties `ForwardOnly`,
`InternalGuard`, `UnwindGuardIsIdle`; and the refinement `ImplementsLifecycle`, each step of the
threads being a step of `ModuleLifecycle` or none. `ModuleInvariant` carries all of it over to a
program behind the C interface; `FInv` adds that an open module stays open there and where a thread
inside `oxi_init` stands, which gives `CallersTold`: callers all hear the same.

**`IntegrityBootProofs`**, for any group of entries in any order, any image, any number of threads.
`IInv` adds to the types where the boot thread is in its group (`PlaceInv`), what the boundary
has to do with it (`BoundaryInv`), which CAST has passed when (`CastInv`), what a test in progress may
find (`OutcomeInv`), and that the record is of a test that ran (`RecordInv`), through the list behind
it (`ListInv`). From it `VerifiedBeforeOpening` (an operational module verified the signed image, with
tested primitives) and `StatusTrue` (the status and its detail are true of the image).

**`DrbgProofs`**, for all mechanisms, any interval, requests of any length and any number of entropy
inputs. An operation is a script of passes that a refusal may cut anywhere, so its promises hang on
what the rest of the script is still to write. `SeedingWrites` and `GenerationSeals` say that of all
scripts there are: a seeding writes both halves, and after each block of output its origins are
still to be overwritten; `TailOf` runs a script down. `IInv` has six parts: the types, the call
(`CallInv`), the guard under which halves that no operation settled were written (`BoundaryInv`), the
counter (`CounterInv`), the age of the halves (`SeedInv`) and of the output (`OutputInv`). From it
`RefusalLeavesNothing`, `IntervalIsExact`, and the action properties `SeedIsTheLatest` and
`OriginsAreGone` (backtracking resistance).

**`RsaHandleProofs`**, for any number of faults. `IInv` relates the step a call is at to what its key,
its value and its half-exponentiations can be (`CallInv`, `ValueInv`, `HalfInv`), over the lemma
`OneExponentiation`. From it `HandlesTested`, `HalfCongruenceNeverOut`, `OutputsVerify`.

**`EntropyProofs`**, for any set of sample values, cutoffs, window, start-up length and block. The
health tests keep a few counters; `MonitorStep` shows that they trip on exactly the sequences of
which SP 800-90B's definitions over the whole sequence say so. `PInv` relates the pipeline to all it has
drawn (`MonitorInv`: what each monitor heard; `OutInv`: what is on its way out; `PrefixInv`: the
start-up samples), `RngInv` adds the block in the buffer and the last byte served. From them
`SourceIsJudged`, `OutputIsNew`, `TailOnly`, and the action property `NoByteTwice`.

**`SessionToolsProofs`** has the three tools that keep a session on disk.

*The ESV log*, for any operations, targets, calls and resumptions. `LogStaysReadable` holds
under all faults, from `LineInv`. Under `PowerAlone`, `EntryInv` and `SyncedInv` (which directory entries
and lines are on the disk at each step) give `ReturnedStaysOnFile`; `AccountsInv` gives
`EffectsAreKnown`: it says of every prefix of the log that a loss of power can leave, for each
target, how its outcomes and open intents compare with the server's effects, and `Places`,
`AccountStep`, `DoneIs` and `OneDone` count how a record appended changes that.

*The ACVP client*, for any number of vector sets, polls, deaths and failed writes. What its files say is not
inductive alone: that a `PENDING` can be replayed depends on which files exist when (`FilesInv`), that
a given-up set has its answers on what `demo-run` still owes of it (`PromiseInv`), that a verdict is true on
what the server has when it is polled (`AcceptedInv`), and the three or four submits on how often each path
can have been taken where the process is (`PostsInv`, `RenewedInv`), all of them on which command is
where (`StageInv`). `AcvpInv` gives `FilesTellTruth`, `RetriesEnd`, and the action property
`AnswersStayOnFile`.

*The collection*, for any plans, runs, restart rounds, failures and deaths. `CollectInv` says that a
directory holds files of one kind of plan (`KindInv`), how far the data set in hand is (`ProgressInv`), and
of the checkpoint and the manifest, which are written behind the files, what may be relied on: that a
listed data set of a `Safe` plan, one that no other plan can be taken for, is never written over where
a command can fail; and where none can, that everything not in hand is a whole data set of some plan
(`ListedInv`, `ManifestInv`, `LowerInv`). From it `CollectionsAreWhole`, of all scenarios: the exception is
in the property, for what is skipped when its plan is `Confused`, and what is collected by the command itself is
whole without exception. The attempt to prove it without one is what led to `collection_stale`.

**`AlgorithmProofs`** has four parts.

*Handles, requests, sweeps.* `HandlesPaired`, for any number of faults, candidates and nonces (a handle
in a caller's hands passed its pairwise test, which is ahead in the plan until then), and
`HonestServed`, for any life, window, margin and number of polls (an honest server's answer is never given
up, from what `WindowInv`, `TokenInv` and `ClockInv` say of the time that is left). `PoolsAreApart` is the
safety half of the end of sweeps, for any number of workers, threads and parts of a sweep: while threads of the
global pool wait in `initialize` one thread runs the self-tests (`TesterInv`), and a sweep it is in
is not in the pool they block (`PoolInv`). That the sweep and the wait then end is left to TLC.

*Rounding and hints of ML-DSA*, for the real q and every coefficient, where the run `algorithms` tries
the neighbourhood of the edges. `ReductionExact` and `Power2RoundExact` are of one coefficient.
`Decompose32` and `Decompose88` follow the approximate division of `decompose` through its rounding, which
gives `DecomposeExact`; `HintStep` and `HintsRecovered` say where a residue lies that is shifted by less than a
bin, and `VerifierFindsTheBin` puts them behind the signer's norm checks. Its hypothesis `LowParts` says that
GAMMA2 is one of the two values in the code. What it leaves to TLC is that the verifier's A z - c t1 2^D is
the residue it starts from, which is the linearity of the transforms. `MaskCountersDiffer` is of the counters
of the masks.

*Addresses of SLH-DSA.* `AdrsIs` works out the six words of each use of an address through the setters that
make it, from the buffer the caller hands on, and `AddressesTellApart` compares them after the compression of
SHA-2, for a layer below 256 and any other index. The run asks this of the secrets of a reduced tree.

*Calls of the algorithm crates.* The run finds of every call in `LibraryCalls` that it asks whether the
module serves, or within the library whether the self-tests have begun, before anything else but the routing
of a key (`AsksFirst`), and zeroes its output on failure or writes it last (`WritesLast`), with two rounds for
every loop. The theorems say that this order is all it takes, for calls
of any length, such as derivations of any number of blocks: `AskingFirstRefuses` (outside service nothing
but `NotOperational`, whatever the arguments) and `FailuresLeaveNothing` (no part of an output stays,
and a module that failed on the way is not told as a bad argument). Both go by `FollowedToRefusal`: a call
ends at its first refused step.

**Composition.** `ModuleState` is shown to implement `ModuleLifecycle` (`ImplementsLifecycle`); the components
around it take `ModuleLifecycle` for their module, and the theorem `KeepsLifecycle` of each of `IntegrityBootProofs`,
`DrbgProofs`, `RsaHandleProofs` and `EntropyProofs` says that none of its steps takes the module elsewhere. So what
is proved of a component is of one inside the module, whatever the others do to the lifecycle
in the meantime. `BehindTheGenerator` does the same between `EntropyRng` and `EntropyPipeline`: an
adapter that drew from the pipeline in a way of its own would break it.

**With TLC only.** Liveness (`InitReturns` and the ends of sweeps, polls and calls), which needs `ENABLED`
and fairness. The other comparisons of `algorithms`: they are of what recursive definitions and folds compute
(`Estimators`, exponentiation, transforms, the modes), of powers of two, of which the provers know nothing, or
computed over finite tables. The violation runs. Every safety property of the other passing runs is a theorem.

## 5. Abstractions

- Primitives are ideal where their outputs are fixed by published vectors: a DRBG value is a
  stamp; an RSA representative is right, right modulo one prime, or wrong; a conditioned block is
  the sequence of samples that went into it; the AES cipher, the compression functions and the
  Keccak permutation are parameters. Algorithms of our own sizes (`RsaArith`, the curves, the
  lattice schemes, the trees) compute with the code's steps on small numbers.
- Memory is sequentially consistent. `STATE` is written by exchanges and read with acquire, so
  its order is total; `PROFILE` is stored before the exchange that publishes it.
- `IntegrityBoot` takes a thread's identity for its id, which `SelfTestHasRunner` justifies.
- `EsvSession` has one process. A power loss keeps any prefix of the lines not synced and perhaps
  a part of the next; a sync that fails may be made good by a later one; a tail that was cut off
  does not come back. `AcvpSession` and `RawCollection` know deaths and failed writes but no
  losses of power: they sync nothing.
- `FfiCalls` tells lengths apart as none, too short and enough. `handle::consume` is called
  nowhere outside tests, so the state within a handle is always there; conversions behind a slice
  of checked length cannot fail.
- In `AcvpHandlers` a Monte Carlo test is one step, and a DRBG use's own entropy field is named
  `otherEntropy`.
- ML-DSA's hint rejections for ct0 do not happen at the model's size. In the images, a refusal for
  policy alone cannot be told from one for the content, and segments that share a page are
  apart. Two-valued samples other than {0, 1} are left out of `Estimators`, since the code never maps
  them (section 8).

## 6. Not modelled

The notes of `components` in `PROJECT.json` say for each component what is left out. In short:
the jitter source and the timers (they are the environment of the pipeline); the parameters
`EntropyPipeline::new` derives from a claim; the AES cipher, the compression functions and the
accelerated backends, which known answers fix; the layout of bytes in image headers, and the Mach-O
and PE routes; formulas in floating point; the compression, collision, Markov and restart
estimates; wiping, apart from what `RsaHandle`, `Drbg`, `EntropyRng` and `KeyDerivation` say of it;
payloads of ESV requests; what a Monte Carlo test computes; the bindings' one-line operations,
`oxi`, and everything that only builds, signs, tests or generates.

## 7. Where the code and its documentation part

Each is the counterexample of a run and listed under `findings`.

- `rsa_pss`: `sign_pss_sha256` of a 2048-bit handle never takes the CRT path, so not the check that
  the handle's documentation promises, and uses an exponent that the pairwise test of a CRT handle
  did not exercise.
- `collection_tripped`: a certification capture with a tripped health test is marked done, and the
  next identical command skips it and reports it fit for submission.
- `collection_stale`: a characterization that the checkpoint lists is found complete by the length of its file
  alone, and a listing outlives the file. A longer capture cut short at that length, or one of that length that
  died before its metadata, is skipped as complete, with the other's samples or metadata and an old
  manifest; the comment there says a stale file "must NOT be accepted".
- `esv_durable`: a process that dies between making the session directory or `events.jsonl` and
  syncing the entry leaves it unsynced for good; later appends return `Ok` and a power loss takes them all.
- `acvp_timeout`: a verdict that does not come within the polls is recorded as `POLL_TIMEOUT`, which
  the list of errors does not hold, and the command exits well.
- `profile_drbg`: key generators and signers take an `HmacDrbgSha256` only, which no CNSA profile
  lets be made, while the services that need one are permitted.
- `ed25519_decode`: `reduce` can leave a limb at 2^51, `to_bytes` then loses the carry, and `decompress`
  refuses encodings of points of the curve.

## 8. Met while modelling

Not worth a run, or not a claim of the documentation.

*Boundary and integrity test.* `admit` loads the state twice (`integrity/src/lib.rs:554`), so a thread
outside the boot can run the test when `Error` falls between; it cannot pass. `run_admitted`
latches `Error` before `boot_test` records the status. `DETAIL` and `LAST_STATUS` are filled
independently (`:712`, `:942`): a group that lists the entry twice can have the status of one run and the
detail of the other. A losing call may be told `AlreadyFailed` although the winner succeeded, when `Error` is
latched before the loser looks (`module/src/lib.rs:787`, doc `:634`). `enter_error_state` overwrites
`IntegrityUnverified` and `PowerOff` alike; its doc (`:813`) names failures of pairwise tests among its
callers, but none calls it. A losing `Commit` leaves another profile visible for one step. The KDFs all
ask for `Hkdf*` services (`kdf/src/lib.rs:192-202`): PBKDF2 and KBKDF over any hash, and HKDF over SHA-3, are
served under `Cnsa2`; the `Pbkdf2` and `Kbkdf` services are asked for by nobody, nor are those of the AES
modes. `verify_any` of LMS refuses an unroutable key before any gate.

*Handles.* The pairwise test of ECDH cannot see a negated point; DH-3072 generation has none. HKDF's
`from_prk` answers `OutputTooLong` for a PRK of wrong length; PBKDF2 asserts on zero iterations.

*Arithmetic and modes.* `keygen`'s test of (p-1) mod e equals a gcd only for prime e. ML-KEM's
`Poly::reduce` documents a range that `barrett_reduce` does not give for negatives; early returns of its
decapsulation do not wipe. The doc of `modes.rs` (13-15) says CTR increments 32 bits, the code increments
128; GCM has no length limit, so `inc32` can wrap. A second `finalize` of an `Hmac` runs on an unkeyed inner
hash. SP 800-108 fixed data is injective only for labels without a zero byte. The bound on a coefficient in
ML-DSA's verification exceeds 32 bits in the worst case. The doc of `p256_point.rs` (280-287) gives a
probability for sums that never happen for a canonical scalar.

*Entropy.* `sample` does not ask the module state; a battery that loses its source leaves the old
monitor in force, whose windows then bridge the samples it consumed. On resumption a certification
checks nothing on disk, so of two claims at the same path the one listed first is skipped over the files of the
other; a crash in `mark_done` loses all marks and everything is collected again. Without any failure, a
capture of another length in between lets a tripped capture of a listed length be skipped, although the
comment (741-743) says it "must NOT be hash-skipped". In `maxwell`, covariance and excursion use raw byte
values, so they are not invariant under the mapping that `permutation.rs` (29-34) says all 19 statistics are
under; the non-IID branch of `iid_gate.rs` folds the -1.0 of an estimate that could not run into the
minimum.

*Harnesses.* `heal_torn_tail` says a torn record was never submitted, but an outcome is appended after its
submission (`session.rs:858-861`); `load_state` flags an intent that another follows for good
(`:600`, `:1095`). An ESV request fails when a merely proactive renewal fails although the token is still
valid; a poll aborts on a JSON 401 or 403 of an expired token. ACVP's RSA `sigVer` handlers read any refusal
as `testPassed: false` (`rsa.rs:288-308`); the AES Monte Carlo handler answers only the first test of a
group; a GCM `tagLen` below 128 can never verify and one above would index out of range (only 128 is
advertised); a KAS validation with an invalid peer key aborts the whole set; RSA OAEP and the `XOF` forms of KMAC,
TupleHash and ParallelHash register no capability.

*Self-tests.* The AES AEAD and key-wrap tests have no tampered case; RSA, ML-KEM, ML-DSA, SLH-DSA, LMS and XOF
test one parameter set of a family.

*Images.* `slot.rs` accepts a hole whose length is not a multiple of 8 behind a plain extent, so one
extent has several spellings although "canonical form" promises one (harmless, as it is signed).

## 9. Plan

1. Lemmas that need no induction: the calls of `FfiCalls`, of any number of arguments, as those of
   `LibraryCalls`; the order of the extents of `ImageVerification`.
2. The model has room to grow in the services of `crates/ffi`, the streaming functions of
   `crates/xof` and the signing tools' parser (`tools/oxicrypt-integrity-sign/src/elf.rs`).
