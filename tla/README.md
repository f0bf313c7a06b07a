# Verification of dyrectorio: TLA+ models, TLC runs and TLAPS proofs

This directory holds the formal development kept beside the dyrectorio sources
(`src/`). It models the code, not the design note `spec.md`. The code is read
line by line, and `spec.md` is used only for the properties the code is
expected to have. `PROJECT.json` lists every component, run, mutant, mapped
definition (with the source lines it translates), finding, hazard and theorem.

## 1. The system and its parts

| Part | Source | What it does | State it changes |
|---|---|---|---|
| Stack runner (`dyo up` / `dyo down`) | `src/golang/pkg/cli/runner.go` | Starts the fixed stack (traefik, two postgres, kratos-migrate, kratos, crux-migrate, crux, crux-ui, mailslurper) in a fixed order and stops it again | Containers on the Docker daemon; the file `/etc/traefik/dynamic.yml` inside traefik |
| Image reference | `src/unnamed/part_002` 21-112 | `URIFromString`, `String`, `StringNoTag`, `setDefaults` | The `URI` record. `String` writes the defaults back into it |
| Registry helpers and pull | `src/unnamed/part_002` 114-241 | Registry URL, lookup by reference, `Exists`, `Pull` with a throttled progress log | Local image store |
| Template service | `src/unnamed/part_001` | Creates the missing registries, then a project, then its version and images, from a template | Registry, project, version and image tables |
| Container config merge | `src/unnamed/part_000` (test only) | Merges base config with an instance config into a concrete config | None (a pure function) |
| Config property groups | `src/web/crux/src/app/container/container.const.ts` | The common, crane-only and dagent-only config property names, and their union | None |
| Version image patch merge | `src/web/crux-ui/.../versions/version-images-section.tsx` 35-42 | `mergeImagePatch`: applies a `PatchVersionImage` to the image the version page holds | The page's image (React state) |
| Node containers list | `src/web/crux-ui/src/components/nodes/node-containers-list.tsx` | One page of a node's filtered containers, with restart/start, stop and delete buttons per row | Calls on the page state's actions |

How the parts interact:
- Only the runner talks to a shared, external actor: the Docker daemon, which other clients also use.
- The template service runs inside the crux backend. Several requests can run concurrently against one database.
- The other parts are pure functions or UI code.

The hard behaviours are all in the runner and the template service:
- Every Docker call can fail, and every failure is `log.Fatal`. That leaves a partially started or partially removed stack.
- Containers can die, or be removed by someone else, between the CLI's lookup of a name and its use.
- The operator can change the Disabled flags in the settings file between `up` and `down`.
- `up` waits for each migration job with no timeout, and ignores its exit code.
- The template service runs check-then-create on registries with no transaction, and creates project → version → images as separate steps.

## 2. Modules

### Runner.tla: the stack runner (`ProcessCommand`, `StartContainers`, `StopContainers`, `TraefikConfiguration`, `GetContainerID`, `CleanupContainer`)

**State**

| Variable | Models |
|---|---|
| `status[c]` | What the Docker daemon holds under name `c`: `absent`, `created`, `running`, `exited` or `failed` |
| `traefikConf` | Whether the routing file was copied into the current traefik container |
| `disabled[f]` | The `Disabled` flags of `Crux` (which guards crux-migrate and crux) and `CruxUI` in the settings |
| `cmd` | The CLI process: `idle`, or running `up` or `down` |
| `step` | The position in the code's fixed plan: `UpPlan` is the statement order of `StartContainers`, `DownPlan` that of `StopContainers` |
| `phase` | The Docker call the process is inside |
| `last` | How the last command ended: `up_ok`, `down_ok`, or the error that `log.Fatal` reported |
| `faults` | Counts environment faults up to the bound `MaxFaults` |

**Actions**

| Action | What it models |
|---|---|
| `Invoke` | A run of the CLI |
| `EditSettings` | The operator editing a flag between commands |
| `UpSkip` | A component skipped by its `if !…Disabled` (runner.go:117, 130) |
| `UpCreate` | `Create()`, which fails on a name conflict |
| `UpStart` | `Start()` / `StartWaitUntilExit()` |
| `UpWait` | The wait of `StartWaitUntilExit` until the job has exited. runner.go:106 and 119 assign its result to `_` and test only `err`, so a non-zero exit code does not stop `up`; a job that is gone makes the wait fail |
| `UpConfig` | `TraefikConfiguration` (runner.go:188-237) |
| `DownSkip` | The guarded blocks of `StopContainers` |
| `DownLookup` | `GetContainerID`, which returns `""` when the name is absent |
| `DownStop` and `DownRemove` | The two Docker calls of `CleanupContainer`. Each fails when the container has gone |
| `RuntimeError` | Any Docker call failing before its effect |

Every error path is `Fatal`. It ends the process at once (`cmd' = "idle"`) with no rollback, because that is what `log.Fatal` does.

The environment has three actions:
- `MigrationExits`: a migration job ends with exit code 0 or not.
- `ServiceDies`: a running service dies.
- `ExternalRemove`: some other client removes a container.

The last two happen only when `EnvFaults` is set, and at most `MaxFaults` times.

**Data abstractions**
- Container IDs are names, because the stack's names are fixed and unique. The ambiguous-name branch of `GetContainerID` is therefore unreachable and is not modelled.
- The traefik template contents, ports and the network are left out.

`MCRunner.tla` is the module the runs check. `RunnerProofs.tla` holds the theorems.

### Stack.tla: what `dyo up` and `dyo down` promise

`Stack` is the abstract specification of the runner, seen from outside the process. It knows which containers exist (`present`), the command in progress (`cmd`), the Disabled flags, and how the last command ended (`outcome`). It does not know run states, Traefik's routing file or the individual Docker calls.

| Action | Promise |
|---|---|
| `Begin` | The operator starts `up` or `down` |
| `Configure` | The flags change between commands |
| `Create(c)` | `up` creates an enabled container only once every enabled container before it in the start order exists |
| `Remove(c)` | `down` removes an enabled container. The last removal may also end the command |
| `Return(o)` | The command ends. `up_ok` requires every enabled container to exist, `down_ok` requires none of them to exist, and `error` is always allowed |

Its `Spec` adds weak fairness on `Return`: every command ends.

`Runner` maps onto `Stack` through `Abs == INSTANCE Stack WITH ...`:
- `present` is the set of managed names whose status is not `absent`;
- the start order is `UpPlan`;
- `outcome` is `last`, with every `log.Fatal` outcome mapped to `error`.

The property `StackRefined == Abs!Spec` is checked in run runner_main. Under this mapping:
- `UpCreate` is `Create`;
- `DownRemove` is `Remove`;
- a `Fatal` step is `Return("error")`;
- the final `NextContainer` is the normal `Return`;
- every other step (start, wait, configure, stop, a migration exiting) is a stutter.

The refinement holds only when `EnvFaults` is off. A container that someone else removes is a removal that `Stack` does not allow.

### ImageURI.tla: image reference parsing and formatting (part_002 21-112)

**Strings.** A string is a sequence over the alphabet `{a, /, :}`.
- `Split` is `strings.Split`: the pieces between the separators.
- `JoinV` is `util.JoinV`. That code is not under `src/`, so it is modelled from spec.md 4.1: the parts with the separator between them.
- `DefaultHost` (`"d/l"`, with a slash like `docker.io/library`) and `DefaultTag` stand for the defaults.

**`URIFromString`** keeps the code's order:
1. `EmptyError`;
2. no colon (`InvalidURIError`);
3. more than two pieces (`MultiColonRegistryURIError`);
4. otherwise, when the part before the colon holds a `/`, its last segment is the name and the rest, joined, the host.

Each of these is an early return, so the model writes them as a chain of `IF ... ELSE IF`, not as a `CASE`. The guards overlap: the empty string also splits into one piece, and a string with several colons may also hold a `/`. A TLA+ `CASE` with overlapping guards picks any true arm, not the first one.

`ParseCorrect` is the conjunction of three named parts:
- `ParseErrors`: the error is decided by the number of colons;
- `NameWithoutSlash`: a successful parse has no `/` in its name;
- `Reassembles`: a successful parse, put back together, is the input.

**`setDefaults`** returns the URI with its defaults filled in. `String` and `StringNoTag` do the `Sprintf`.

**State and actions.** The state is what a caller holds: `raw` (its input), `parsed` (the result), `uri` (the `*URI` it keeps), `out` (the last formatted string) and `fmt`. The actions are the three calls:
- `CallURIFromString`;
- `CallString`;
- `CallStringNoTag`.

The two format calls replace `uri` by `setDefaults(uri)`, as the Go methods do on their receiver.

Every input of at most 6 characters is an initial state, so every invariant is checked on every such input.

### ImagePull.tla: Pull, Exists, GetImageByReference (part_002 134-241)

**State**
- `stream`: the messages the daemon has yet to deliver. Each is a progress message with or without `progressDetail`, and the stream ends in EOF or in something the decoder cannot read.
- `clock`: in half seconds.
- `lastLog` and `logs`: the progress lines written, with `-1` for the zero `time.Time`.
- `local`: the number of local images matching the reference.

**Actions**

| Action | What it models |
|---|---|
| `StartPull` | `ImagePull`, which may fail before the loop |
| `Decode` | One loop iteration: EOF ends with `nil`; a decode error is logged and returned; a message writes a line when `time.Since(lastLog) > 1s` |
| `Tick` | Time passing |
| `CallExists`, `CallGetImageByReference` | The two reads of the local store, with their count classification. `GetImageByReference` answers every count but one with "found more than 1 image", zero included (part_002:147-151); the run reaches it, and no property states it, as only the wording of an error is wrong |
| `OtherClient` | Another client changing the store |

### TemplateService.tla: importing a project from a template (part_001 38-87, 137-230)

Each request of `Requests` is a sequence of awaits, as a program counter `pc`:

| Step | Action |
|---|---|
| registry `findMany` | `FindRegistries` |
| `Promise.all` of `createRegistry` | `RegistrySettles` / `RegistryFails` per promise, then `RegistriesCreated` |
| `createProject` | `CreateProject` |
| version `findFirst` | `FindVersion` |
| `createVersion` | `CreateVersion` |
| registry `findMany` | `LookupRegistries` |
| `.find(...).id` and `$transaction(images)` | `CreateImages` |

The database state is:
- `regs`: the number of team registries per name;
- `project`, `versions`, `images` per request.

How failures are modelled:
- **Promise.all** rejects on the first rejected promise. The other promises run on, and their registries land.
- **A refused registry name.** Whether the database refuses a second registry of one name is schema, which is outside `src/`. The variable `unique` is chosen in the initial state and never changes, so one run covers both schemas.
- **`createProject`** (outside `src/`) may or may not give a versionless project its default version.
- **Faults.** Any await may reject (`AwaitRejects`), and another user may delete a registry (`RegistryDeleted`). Together these happen at most `MaxFaults` times.
- **Left out.** `mapTemplateConfig`, `idify` and the template file are data shaping and are not modelled.

### ImagePatch.tla: config property groups and `mergeImagePatch`

The three lists of `container.const.ts` are sequences of strings under their source names; `ContainerConfigProperty` is the set of their entries.

A JavaScript object is a function from its possible keys to a value or to `Absent` (the key is not an own property). A key explicitly set to `undefined` holds the value `Undefined`, one of `Vals`, because the spread operator copies it like any other value. Property values (a port list, a routing object) are opaque: the merge copies them whole.

| Definition | Code |
|---|---|
| `Spread(a, b)` | `{...a, ...b}`: every own key of `b` overrides |
| `AsObject(x)` | spreading `undefined` (or a missing `config`) copies nothing |
| `mergeImagePatch(o, p)` | lines 35-42: the patch's fields over the image's, then `config` rebuilt from both configs |

The module has no state and no run: its three results are theorems (section 4).
- `Reference(o, p)` is the key-by-key reading of spec.md 4.2 (absent keeps, present wins, the config merged property by property).
- `EditsSurvive(o, p1, p2)`: after two patches in turn, whatever the first set and the second left absent is still there. A merge written as a plain `{...oldImage, ...newImage}` (the operator `mergeImagePatchShallow`) breaks it: the second patch's `config` replaces the first one's.

The patch replaces a property value whole (a patch carrying `ports` replaces the port list). This differs from the keyed merge of ConfigMerger in spec.md 4.2, which is the backend's. The editor sends whole property values, so this is not taken as a divergence.

### NodeContainers.tla: the container list of the node page

The component renders from props it does not own. The page state (`use-node-details-state`), the `Paginator` and the predicates `containerIsRestartable`, `containerIsStartable` and `containerIsStopable` (`@app/models`) are not in the sample. So:
- the filtered list, the container states, the target states and the pagination are variables that environment steps (`Report`, `Filter`, `SetTarget`, `SetPagination`) change to any value of their type;
- the three predicates are the constant sets `Restartable`, `Startable`, `Stopable`.

| Definition | Code |
|---|---|
| `Slice`, `Rows` | `containers.slice(pageNumber * pageSize, pageNumber * pageSize + pageSize)` (114-117) |
| `Buttons(c)` | `itemBuilder` (34-91): the loading indicator while `containerTargetStates[name]` is set, else restart if restartable, otherwise start (disabled unless startable), stop (disabled unless stopable), delete |
| `Click(op, i)` | a click on an enabled button of row `i` of the current page, recorded in `last` |
| `DefaultPagination` | `{pageNumber: 0, pageSize: 10}` (123-126), the initial pagination |

Left out: the column layout, the header classes, `imageName`, `containerPortsToString` and `utcDateToLocale` (formatting only).

### Planned modules (next sittings, in this order)

1. **ConfigMerge**: the merge of spec.md 4.2, marked `spec_modelled` because the code is not under `src/`. It is checked against the three expectations of the test in `part_000`. The test's override expectation (a full instance replaces every collection) disagrees with the spec's keyed merge, and will be a violation run.
2. **More proofs**: `Reassembles` and `RoundTrip` of ImageURI, should a prover able to instantiate the library's induction theorems become available.

## 3. Runs

The runner runs are of `MCRunner` and check the whole stack of 9 containers. The others are of `MCImageURI`, `MCImagePull`, `MCTemplateService` and `MCNodeContainers`.

| Run | cfg | Expect | Checks | What it shows |
|---|---|---|---|---|
| runner_main | Runner.cfg | pass | `TypeOK`, `MigrationFinishedFirst`, `ProxyConfiguredFirst`, `Termination`, `StackRefined` | Any sequence of up/down commands and flag edits, and a Docker failure at any step, never creates kratos or crux before its migration job has run to an exit, never creates a container before traefik is configured, and never leaves a command running forever. Seen through which containers exist, every behaviour is one of `Stack` |
| runner_faults | RunnerFaults.cfg | pass | `CleanDown`, `Termination` | With up to two containers dying or removed behind the CLI's back, a `down` that exits normally leaves every managed name absent |
| runner_migration_gate | RunnerMigrationGate.cfg | violation | `MigrationGate` | kratos-migrate exits non-zero and `up` goes on to create kratos: the exit code is discarded, against spec.md 4.4 |
| runner_reverse | RunnerReverse.cfg | violation | `StrictReverseTeardown` | `StopContainers` removes kratos-migrate before kratos, and crux-postgres before kratos-postgres. That is not the strict reverse of the start order |
| runner_stale_lookup | RunnerStaleLookup.cfg | violation | `DownNotFoundIsNoError` | A container that disappears between `GetContainerID` and `ContainerStop` aborts `down` with a not-found error |
| runner_settings | RunnerSettings.cfg | violation | `CleanDown` | Disabling crux between `up` and `down` makes `down` return normally while crux and crux-migrate still exist |
| imageuri_main | ImageURI.cfg | pass | `ParseCorrect`, `RoundTrip`, `TypeOK` | On all 1,093 inputs of up to 6 characters: the error is decided by the number of colons; a successful parse put back together is the input, with no `/` in the name; parse then `String`/`StringNoTag` gives back any valid `repo/name:tag`, with or without its tag, however often the URI is formatted |
| imageuri_empty_name | ImageURINameNonEmpty.cfg | violation | `NameNonEmpty` | `":"`, `":t"` and `"h/:t"` parse to a URI with an empty name, against spec.md 3 |
| imageuri_format_mutates | ImageURIFormatPure.cfg | violation | `FormatPure` | `String()` writes the default host and tag into its receiver, against spec.md 4.1 ("defaulting never mutates the input") |
| node_containers | NodeContainers.cfg | pass | `PagesPartition` | Whatever list, container states, target states and pagination the page state hands the list, every container is on exactly one page for page sizes 1, 2 and 10, and the rows of a page are consecutive in the list |
| imagepull_main | ImagePull.cfg | pass | `LogThrottled`, `PullEnds` | Two progress lines of one pull are always more than a second apart, whatever mix of messages arrives, and a pull whose stream ends (EOF or an undecodable message) returns |
| template_main | Template.cfg | pass | `TypeOK`, `DoneComplete` | Two concurrent imports, with up to two rejected awaits or registry deletions, whether or not registry names are unique: no project gets a second version, and a successful import has its version and all its images |

**Bounds.** The container set is the real one: 9 names, in the code's order. The environment's faults are bounded by `MaxFaults = 2`. That is enough for:
- a fault between the lookup and the stop of one container, together with a second fault elsewhere;
- a service dying and then being removed.

Each pass run of the runner takes seconds (about 46 000 and 99 000 distinct states).

The other modules have these bounds:
- **ImageURI.** Inputs of up to 6 characters are the shortest that hold the interesting shapes: a host with an empty segment (`"/a:a"`), a tag with a slash (`"a:a/a"`), the port case (`"a:/a:a"`) and the empty names.
- **NodeContainers.** Three containers (symmetric model values), two states (running, exited), page sizes 1, 2 and the default 10, and page numbers up to 3. With three rows, size 2 leaves a short last page and size 1 a page past the end, which is where a slice bound that is one off shows. 69 030 distinct states, 8 seconds.
- **ImagePull.** Streams have up to 4 messages over 3 seconds in half-second ticks. That lets a line be due, not due, and due again within one pull, through both branches of the logger.
- **TemplateService.**
  - There are two requests, so the registry race and the interleaving of two imports happen.
  - There are two registries and two images, one per registry, so a deletion can hit one image's registry and not the other.
  - `MaxFaults = 2` allows a deletion and a rejection in one behaviour.

  The service and ImagePull may stop, because their requests are finite and the clock is bounded. Their cfgs therefore set `CHECK_DEADLOCK FALSE`.

**Fairness.** `WF_vars(CliStep)` says that a running CLI process keeps executing its own code. No step of it waits on anything but the Docker call it is in. `WF_vars(MigrationExits(c))` says that a started migration job eventually exits. The code does not guarantee this, because `StartWaitUntilExit` has no timeout. `Termination` therefore holds only under that assumption, which the hazard list records.

Nothing else is fair:
- The operator is never forced to act.
- Docker is never forced to fail.

ImagePull assumes `WF_vars(Decode)`: the daemon keeps sending until its stream ends. The code does not guarantee it (Pull passes on the caller's `ctx` and sets no timeout of its own), so `PullEnds` shows only that the loop itself always exits, on EOF and on a decode error alike; a stalled daemon is excluded by the assumption.

TemplateService defines a fairness condition (a request whose await resolved runs on, and every `createRegistry` promise settles), but no liveness property is checked against it yet.

**Mutants.** Each property of a pass run is broken by a plausible bug in the mapped code (see `PROJECT.json`):

| Mutant | Property it breaks |
|---|---|
| Walking one step past the end of the plan | `TypeOK` |
| Starting a migration job with `Start()`, not waiting for its exit | `MigrationFinishedFirst` |
| Skipping `TraefikConfiguration` | `ProxyConfiguredFirst` |
| Probing only running containers on `down` | `CleanDown`, `StackRefined` |
| A lookup that never advances | `Termination` |
| URIFromString without its `/` branch | ImageURI `TypeOK` |
| URIFromString without the no-colon check | `ParseCorrect` |
| setDefaults replacing any host | `RoundTrip` |
| The status-only log branch not updating `lastLog` | `LogThrottled` |
| Going on after a decode error instead of breaking | `PullEnds` |
| Creating a version although one was found | TemplateService `TypeOK` |
| Never creating the missing version | `DoneComplete` |
| The page slice ending one row short | `PagesPartition` |

## 4. What is proved (RunnerProofs, RunnerRefinement, RunnerGateProofs, TemplateProofs, ImagePullProofs, NodeContainersProofs, ImageURIProofs, ImagePatch)

The proofs cover every value of the constants `EnvFaults`, `MaxFaults \in Nat` and `SettingsEditable`, under the assumption `ConstAssumption`.

- `TypeCorrect: Spec => []TypeOK`. `TypeOK` is inductive by itself. The argument is one case per action, with the lemma `PlansInManaged` showing that every plan entry is a managed name.
- `CleanDownHolds: ~SettingsEditable => (Spec => []CleanDown)`. `CleanDown` is not inductive: a `down` that ends normally must know that everything before its last step is already gone. The strengthening is `IInv == TypeOK /\ DisabledAbsent /\ DownProgress /\ CleanDown`, where:
  - `DisabledAbsent`: a container whose flag is set is absent. This holds because `up` skips it and the flags never change.
  - `DownProgress`: during `down`, every container before `step` in `DownPlan` is absent.

  `IInv` was first checked with TLC as an invariant under the runner_faults settings. Its proof rests on two lemmas:
  - `OnlyCreateAdds`: no step but `UpCreate` makes an absent name present.
  - `DownPlanCovers`: every managed name occurs in `DownPlan`.

  The assumption `~SettingsEditable` is necessary: run runner_settings shows the property fails without it.

**RunnerRefinement.** `RefinesStack: ~EnvFaults => (Spec => Abs!Safety)` proves the safety part of `StackRefined` for every setting of `SettingsEditable` and `MaxFaults`. `Abs!Safety` is `Abs!Init /\ [][Abs!Next]_Abs!vars`.

The step argument needs more than the type: `Create(c)` requires the enabled containers before `c` to exist, and `up_ok` requires all of them. The invariant is `RInv == TypeOK /\ UpProgress /\ DownProgressEnabled`:
- `UpProgress`: during `up`, every enabled container before `step` in `UpPlan` exists, and so does the current one after a successful `Create`.
- `DownProgressEnabled`: during `down`, no enabled container before `step` in `DownPlan` exists, and the container being stopped or removed is enabled.

`RInv` was checked with TLC as an invariant under the runner_main settings before it was proved. `RInvHolds: ~EnvFaults => (Spec => []RInv)` has one lemma per conjunct. Those lemmas rest on two facts:
- `OnlyRemoveDrops`: without faults, only `DownRemove` makes a container disappear.
- `OnlyCreateAdds` (from RunnerProofs): only `UpCreate` makes one appear.

The step lemma `StepRefines` is split into `UpStepRefines` and `DownStepRefines`. Four helper lemmas do the common work:
- `FatalIsError`: a fatal step is `Return("error")`.
- `AbsStutter`: a step that keeps presence is a stutter.
- `UpNext` and `DownNext`: `NextContainer` is a stutter, or after the last container the normal return. `UpDone` and `DownDone` show the normal return is allowed, using `UpPlanCovers` and `DownPlanCovers`.

`BeforeIsPrefix` shows that `Before` of the k-th container is the first k - 1 containers of `UpPlan`. It needs `UpPlanInjective`.

**ImagePatch.** These theorems hold for every set of fields and values, under `PatchAssumption` (undefined is a value, `Absent` is not, and neither is an object), which is a hypothesis of each theorem:
- `PropertiesListedOnce`: no property is listed twice in `ALL_CONFIG_PROPERTIES`, so the three groups are disjoint. SMT decides it on the literal lists.
- `MergeIsReference`: `mergeImagePatch(o, p) = Reference(o, p)`. The argument splits on whether the patch's `config` is an object.
- `EditsSurviveHolds`: two patches in turn lose nothing of the first that the second leaves absent. It rests on the lemma `MergeType` (a merged image is again a `VersionImage`) and on `MergeIsReference` applied to both steps.

No run checks these on a small instance: the project's runs are spent on the stateful components.

**RunnerGateProofs.** `MigrationFinishedFirstHolds: ~EnvFaults => (Spec => MigrationFinishedFirst)` and `ProxyConfiguredFirstHolds: ~EnvFaults => (Spec => ProxyConfiguredFirst)` prove the two ordering gates of `StartContainers` (runner.go:83-131) for every `MaxFaults` and `SettingsEditable`. Both are action properties about the one step that creates a container, `UpCreate`. That step has to know something about the past, so the proofs rest on `GInvHolds: ~EnvFaults => (Spec => []GInv)`, where `GInv == TypeOK /\ UpShape /\ ConfiguredAfterTraefik /\ MigrationsDone`:
- `UpShape`: during `up`, the config phase is only ever Traefik's and the wait phase only a migration job's.
- `ConfiguredAfterTraefik`: once `up` is past Traefik (`step > 1`), Traefik holds its routing file.
- `MigrationsDone`: every enabled migration job that `up` has passed has run to an exit (`exited` or `failed`), and is still stopped.

`MigrationGate`, the stronger statement that the exit was with code zero, is false of the code (runner_migration_gate), so it has no theorem.

`GInv` was checked with TLC under the runner_main settings before it was proved. The lemmas are:
- `FlagsOfPlan` and `PlanPositions`: where Traefik and the migration jobs sit in `UpPlan`, and that a migration job is disabled exactly when its service is.
- `CreatedIsCurrent`: a container that appears is `UpPlan[step]`, created by `UpCreate`.
- One step lemma per conjunct.

The hypothesis `~EnvFaults` is needed, not a convenience. `ExternalRemove` of Traefik after it was configured clears `traefikConf`, and `up` then goes on to create the next container. A removed migration job is no longer stopped when its service is created. runner_main checks the gates with `EnvFaults = FALSE`, for the same reason.

**TemplateProofs.** `TemplateTypeCorrect` and `DoneCompleteHolds` hold for every number of requests, template registries and images, and every `MaxFaults`. Both properties hold request by request, because nothing another request, a registry deletion or a rejected await does touches a request's own project, version and images. The inductive invariant is `TInv == TypeOK /\ \A r : Progress(r)`. `Progress(r)` says what request `r` holds at each `pc`:
- a project from `findVersion` on;
- no version yet at `createVersion`, since `findFirst` found none;
- exactly one version from `lookup` on;
- the images exactly when done.

The step proof `TInvStep` has one case per action. `CreateImages` is split on whether some image's registry is missing (the throw of `find(...).id`).

**ImagePullProofs.** `LogThrottledHolds: Spec => []LogThrottled` holds for every stream length and every `MaxTime`. `LogThrottled` compares consecutive lines, but the decode loop compares the clock with `lastLog`. The invariant `PInv` joins the two with `LastLogIsLastLine`: while a pull has written lines, `lastLog` is the time of the last one. The lemma `AppendThrottled` shows that appending a line more than a second after the last one keeps the sequence throttled.

**NodeContainersProofs.** `PagesPartition` does not depend on the history: it holds in every state whose list has distinct names and whose page size is positive. So:
- the lemma `NodeTypeCorrect: Spec => []TypeOK` is proved first (`TypeOK` is inductive; its list and page-size facts come from the ranges of the environment steps).
- `PartitionOfType` then shows `TypeOK => PagesPartition`.
- `PagesPartitionHolds` follows.

The argument works on `Slice` (Array.prototype.slice):
- `SliceFacts`: the length of a slice, and that its j-th row is entry `lo + j`.
- `OnSlice`: for a list of distinct names, the slice from `lo` to `lo + sz` holds entry `i` exactly when `lo < i <= lo + sz`.
- `OnePage`: the pages holding entry `i` are exactly `{(i - 1) \div sz}`, so there is one of them.
- `SliceConsecutive`: consecutive rows are consecutive entries.

**ImageURIProofs.** `ParseErrorsHolds: Spec => []ParseErrors` and `NameWithoutSlashHolds: Spec => []NameWithoutSlash` hold for every `MaxLen` and every alphabet that holds `/` and `:`, not only for the six-character inputs over `{a, /, :}` that TLC enumerates. Their invariant, the lemma `UInvHolds`, only says that the input is a string of the alphabet and that `parsed` is `URIFromString(raw)`: the substance is in the lemmas about the operators. The rest is about the operators, for every string `s`:
- `Rank(s, c, x)` counts the separators at or before position `x`. `RankFacts` shows it is strictly monotone on the separators, with values in `1..k`, where `k` is the number of separators.
- `RankOnto` concludes that rank is an injection of the separators into `1..k`, and so a bijection (`FS_Injection`). `Split`'s `CHOOSE` of "the separator of rank j" therefore always has a witness (`CutFacts`).
- `SplitFacts`: `Split(s, c)` has exactly `k + 1` pieces, and none of them holds `c`.
- `ParseFacts` follows the `IF` chain. The number of colons decides the error, because `Len(Split(s, ":")) = ColonCount(s) + 1`. The name is a piece of a split at `/`, so it has no `/`.

What these lemmas do not need is what each piece contains. That is also what stops the proof at `Reassembles`.

**Left to TLC only:**
- `Termination`, `PullEnds` and the fairness part of `StackRefined` (liveness under fairness). TLAPS does not reason about `ENABLED` and fairness here.
- `CleanDown` when settings are editable: it fails, as runner_settings shows.
- ImageURI's `TypeOK`, the `Reassembles` part of `ParseCorrect`, and `RoundTrip`.
  - `TypeOK` types the host, which the recursive function `JoinV` puts back together.
  - `Reassembles` and `RoundTrip` say that joining the pieces of `Split` gives back the string.
  - Each needs induction over the data: that `JoinV`'s function exists and is typed, and that the pieces concatenate back to the input. The installed provers cannot do this, because the library's induction theorems (`SmallestNatural`, `RecursiveFcnOfNat`) take an operator parameter, and no backend instantiates one. A trial use of `SmallestNatural` with a defined predicate is not proved.
  - They stay bounded TLC checks over every input of up to six characters.
- The violation runs.

TLAPS cannot reason about `RECURSIVE` operators either. That is why ImageURI writes `JoinV` as a recursive function, and why no module with a theorem reaches a `RECURSIVE` declaration.

## 5. Not modelled, and why

- **`CheckAndUpdatePorts` and `SaveSettings`**: their code is not under `src/`.
- **`EnsureNetworkExists`** (runner.go 294-336): nothing under `src/` calls it, so which command runs it and whether two runs can overlap is not in the sample.
- **`GetRegistryURL` and `GetRegistryURLProto`**: these only choose between two strings.
- **Pull against a stalled daemon or a cancelled context**: Pull passes the caller's `ctx` to `ImagePull` and sets no timeout of its own, so whether a stall ends depends on the caller; the fairness of `Decode` assumes the stream ends.
- **`mapTemplateConfig`, `idify` and `getImageStream`** of TemplateService: data reshaping and file access.
- **`VersionImagesSection`** (version-images-section.tsx 14-31): it only picks the tile view, the list view or the no-items heading.
- **The node page state, the `Paginator` and the container-state predicates**: not in the sample. NodeContainers lets them change arbitrarily, so whether a target state is ever cleared, and whether the page number is moved back when the list shrinks (node-containers-list.tsx:114 then shows an empty page), cannot be checked.
- **Registry hosts with a port**: `URIFromString` counts every colon, so `localhost:5000/app:1` fails with `MultiColonRegistryURIError`. spec.md 4.1 limits the rule to colons after the final path segment. No run states the spec's rule; the classification by colon count that causes this is what `ParseErrors` states and `ParseErrorsHolds` proves for inputs of every length.
- **Client-side failures after a daemon-side effect** (a `Create` that times out but created the container) are not a separate action: the state they leave is the one where the call succeeds and the next call fails, which `RuntimeError` already reaches.
