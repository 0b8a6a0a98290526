# A verification development for NetEngine

NetEngine builds a self-contained "world" on one host: networks, DNS, a
certificate authority, identity providers, registries, autonomous network
domains (ANDs), mail, storage and applications, each in Docker containers, from
one YAML specification. `netengine up` executes ten numbered phases, keeps what it
knows in a JSON state file, and leaves background workers running: queue
consumers, a dead-letter replayer, monitoring.
`netengine drift watch`, `reload` and an HTTP API act on the same state.

This directory holds TLA+ models of the parts of that program whose difficulty is
order, failure and concurrency, TLC configurations for small instances, and
proofs that TLAPS checks for every value of the constants. The models are written
from the code below `src/netengine/`; `PROJECT.json` names for every definition the lines
it stands for. Paths below are relative to `src/netengine/` unless they start with
`docs/`, `tests/` or `migrations/`.

    tlc -workers 2 -config boot_real.cfg MCBootstrap      # one run
    tlapm BootstrapProofs.tla                             # one proof module

## 1. Inventory

### 1.1 Components, their state and their operations

| component | state it keeps | operations |
| --- | --- | --- |
| orchestrator (`core/orchestrator.py`, `core/phase_graph.py`) | the runtime state in memory, the supervisor, the drift controller | `execute_phases`: skip, check prerequisites, execute, healthcheck, flag, save; `start_drift_detection` |
| phase handlers (`handlers/substrate.py`, `dns.py`, `phase_pki.py`, `app_handler.py`, `phases/*.py`) | none of their own; they write outputs into the runtime state and create Docker resources | `should_skip`, `execute`, `healthcheck` of phases 0, 1 (with 2), 3 to 9 |
| runtime state (`core/state.py`) | one JSON file, replaced atomically; a copy in each process | `load`, `save`, discarding flags without outputs, `sync_to_supabase` in the background |
| supervisor (`core/consumer_supervisor.py`) | `consumers`, `tasks`, `_statuses` | `register`, `register_disabled`, `start_all`, `stop_all`, restart with back-off |
| queues (`core/pgmq_client.py`, `events/*.py`) | pgmq tables: a primary and a dead-letter queue per topic | `emit_event`, `send`, `receive`, `delete`, `read_by_id`, `archive_to_dlq` |
| consumers (in `phases/phase_registries.py`, `phase_ands.py`, `phase_services.py`, `phase_inworld_identity.py`) | the message at hand | receive, handle, delete, or archive to the dead letters |
| dead-letter worker (`workers/dlq_worker.py`) | the message at hand | `replay_once` |
| domain registry (`handlers/domain_registry_handler.py`) | tables `domains`, `address_leases` | `register_domain`, `allocate_address`, the release of a lease in `_teardown_and` |
| drift controller (`core/drift_controller.py`) | `drift_states`, `current_drift_phases` | one round: check, heal, re-heal dependents, save |
| AND lifecycle (`phases/phase_ands.py`, `handlers/gateway_handler.py`) | bridges, gateway rules, leases, `ands_output` | provision, repair, reconcile, tear down |
| DNS zones (`handlers/dns.py`) | zone texts in memory, zone files and Corefile on disk, what CoreDNS has loaded | setup of the zones, add a record, add and remove a reverse zone, sign, reload |
| organizations (`handlers/world_registry_handler.py`) | table `world_registry` | admit, update, remove, each with an event |
| in-world identity (`phases/phase_inworld_identity.py`, `handlers/oidc_handler.py`) | a Keycloak with a realm and a client per organization | phase 6, consumer of `org.admitted` |
| world services (`phases/phase_services.py`, `handlers/mail_handler.py`, `minio_handler.py`) | mail and storage containers, mail records, buckets, `world_services_output` | phase 8, consumer of `org.admitted` |
| applications (`handlers/app_handler.py`) | a container, a certificate, a client and rows of `app_deployments` per application | `deploy_app`, of phase 9 and of the API |
| spec reload (`core/reload.py`) | the spec in the state file | diff, refusals, ordered application, record |
| certificates (`workers/pki_cert_rotation_worker.py`, `handlers/pki_handler.py`) | step-ca; issued certificates, DNSSEC keys and the rotation policy in the state file | bootstrap of the CA, issue, renew |
| migrations (`db/migrations.py`, `core/migrations.py`, `utils/migrations.py`, `utils/migration_service.py`) | a ledger each in the database | apply, status, readiness |
| operator API (`api/routes.py`) | a loaded copy per request | status, import, teardown, edits of the spec, organizations, apps, replay of dead letters |
| command line (`cli/main.py`) | none | `up`, `down`, `import`, `reload`, `drift watch`, `migrate`, `setup local`, and read-only commands |
| monitoring, logs, diagnostics, spec parsing, redaction | external services, or none | one request each, or pure functions |

### 1.2 How they interact

* **Calls.** `up` loads the state, builds the orchestrator and runs the phases one
  after the other in one coroutine; phases register workers with the supervisor;
  afterwards `start_all` makes each a task of the same asyncio loop. The drift
  controller calls the same handlers again, `reload` those of changed sections.
* **Shared file.** `up`, `drift watch`, `reload`, the API and the rotation worker each load
  the whole state file into their own copy and write the whole file back. The
  replacement of the file is atomic; nothing locks it.
* **Messages.** Handlers emit events into pgmq queues; consumers in the `up` process
  take them out, and on failure put them back or into the dead letters.
* **Shared tables.** All callers of `allocate_address`, in any process, meet in
  the table `address_leases`, whose constraints are the only guard. Sessions that
  apply migrations meet in the schema and in their ledgers.
* **Docker.** Containers and networks with fixed names outlive every process.

### 1.3 What is hard, and what makes each part correct

* *Crash and resume of a bootstrap.* A run can end between any two steps, with
  outputs, flags, container ids and containers in any of the orders in which the
  code writes them. Correct is: the file never claims what is not there, a run
  never undoes progress, is never stopped by its own prerequisites, and
  re-running ends in a booted world.
* *Tasks that crash, sleep and are cancelled.* Correct is: a crashed worker comes
  back, and `stop_all` ends with no worker alive.
* *Queues.* A message is in two places, or none, while it is moved. Correct is:
  events are neither lost nor doubled beyond the faults that happened, retried a
  bounded number of times, dead-lettered only then; and the queue drains.
* *Allocation without a lock.* Correct is: no two ANDs with one subnet, a lease
  that can be relied on, an honest "exhausted", and an end to every call.
* *Healing while things break.* Correct is: every drifted phase gets its attempt,
  healing spreads forward only, a round ends, and in the end all that can be
  healed is and the file says what is not.
* *A text read before an await and written after it; a server that reads when it is
  told.* Correct is: a record whose call has ended is kept and in the end served.
* *Whole-file saves of old copies.* Correct is: what must not change does not, a
  certificate is renewed in time whichever check or round was overwritten, and
  success is reported of what is there.
* *One SQL file, four ledgers, processes that end between the SQL and its row.*
  Correct is: migrations stay in order, what is recorded is true, and a migration
  is not executed twice by who recorded it.
* *Redelivered events over names that exist.* Correct is: what the state file or a
  row says of an organization or an application is there, an acknowledgement is
  of something saved, and every message comes to an end.

`PROJECT.json` lists each hazard at its line, with the properties that cover it.

## 2. The modules

| module | models | extended by |
| --- | --- | --- |
| `PhaseLadder` | abstract: durable outputs appear phase by phase and go all together | instantiated in `Bootstrap` |
| `Bootstrap` | `up`, `down`, `import` on the state file and Docker | `MCBootstrap`, `BootstrapProofs` |
| `Supervisor` | `ConsumerSupervisor` in one process | `OperatorProofs` |
| `EventLife` | abstract: an event moves from stage to stage and stays where it ends | instantiated in `EventQueue` |
| `EventQueue` | a queue, its dead letters, a consumer, both replayers | `EventQueueProofs` |
| `SubnetTenancy` | abstract: who rents a subnet, and who lives in it | instantiated in `AddressPool`, `AndLifecycle`; `AndLifecycleProofs` |
| `AddressPool` | concurrent calls of `allocate_address`, and teardown | `MCAddressPool`, `AndLifecycleProofs` |
| `DriftController` | the rounds of `drift watch` | `MCDriftController`, `OperatorProofs` |
| `AndLifecycle` | ANDs provisioned, repaired, changed and torn down | `MCAndLifecycle`, `AndLifecycleProofs` |
| `ZoneRecords` | phases 1 and 2, changes of zones, CoreDNS | `MCZoneRecords`, `ZoneRecordsProofs` |
| `Certificates` | phase 3, the rotation worker where there is one, everybody else who saves | `MCCertificates`, `CertificatesProofs` |
| `Migrations` | the four functions that apply migrations, `setup local` | `MCMigrations`, `MigrationsProofs` |
| `Admissions` | the world registry and the loop of the two consumers of `org.admitted` | `InworldIdentity` |
| `InworldIdentity` | phase 6 under the orchestrator, its consumer | `WorldServices` |
| `WorldServices` | phases 8 and 9, the second consumer, others who save copies of the state; composes the two above | `MCWorldServices`, `WorldServicesProofs` |
| `Operator` | `reload` and the other writers of the state file of a world that runs | `MCOperator`, `OperatorProofs` |

Every module has the operators named "Defect" in a comment beside the definition
they would replace: plausible bugs, each of which makes one property fail. They
take no part in the specifications. The modules of the workers (`Supervisor`,
`AddressPool`, `DriftController`) have names of their own for `Init`, `Next`, `Spec` and the like,
so that one module of proofs can extend them beside another component.

### Bootstrap

State. `disk` is the content of the state file and `mem` is `orchestrator.runtime_state`;
both are records of the fields that are set and of the phases flagged in
`phase_completed`. What a field contains is not modelled, because the control flow only
asks whether it is there. `pc`, `at`, `upTo` and `mock` say where the running process is and
how it was called; `resources` are the phases whose named Docker resource exists;
`active` are the phases that registered their workers in this process. `apps` says whether the
world has an application: then a real phase 9 always raises, as phase 3 does without a CA
and phase 7 over a lease that a failed attempt left (`Hopeless`; section 6 says why). The
resource of phase 7 stands for the leases of its ANDs, the others for containers and networks.

Actions. `Up` is the load with the save of the spec that follows on a first run.
`SkipPhase` and `BeginPhase` are the head of the loop of `execute_phases`: a skip is
flagged in memory only; missing prerequisites end the run without a save; under
`--mock` phases 4 to 9 record an output and are saved. `Launch`, `RecordContainer` and
`Provision` are the three parts of `execute` between which other state can be seen: the
Docker call, the save of the container's id (phases 3 and 4), and the rest, with
each phase's own way of flagging and saving. `HealthcheckPasses` is the second flag
and the orchestrator's save. `LaunchFault`, `ProvisionFault` and `HealthcheckFails` lead into
the `except` branch (`Fail`), which saves. `Crash` is the end of the process at any
point; `Down` removes some of the resources and the file; `RemoveStale` is the
operator's `docker rm` of something the file does not say is in use. He removes no lease.

External: Docker refuses a name in use; a killed process loses its memory only.

### Supervisor

State is that of the class: `consumers`, `state` and `restarts` of `_statuses`, `task` for
each asyncio task ("inside" its consumer, in the "backoff" sleep, or "ended"), the
local `delay`; `cancelled` are the tasks on which `cancel()` was called and that have not
run since; `unstopped` is what the loop of `stop_all` has not come to. One action is what
a task does between two awaits. `Absorbing` are workers whose coroutine returns when
cancelled, as `MonitoringService.start` does; `Healers` are workers that execute phases
again and so register workers in a process that is already serving.

### EventQueue

`queue` and `dlq` are sets of messages with ids; `held` is the message in the hands of the
consumer. `archive_to_dlq` is split where it awaits: read and delete (`Withdraw`), then
send with a higher count (`Resend`). `pop` says whether `pgmq.pop` removes the message,
as the one does that the migration installs, or leaves it until `delete`, for which
the client is written; it is chosen at the start, and the run looks at both. `Poison` are events whose
handling always fails; a `Fault` is a failed call, a `crash` a failed send or the end of
the process while it holds a message. `LivesOnce` is the implementation of `EventLife`: `Stage`
reads off where an event is, whatever queue or hand its message is in. There a dead letter may
come back to its queue, as a resolved one is meant to; what is handled, lost or dropped may not.

### AddressPool

Callers are open calls, in any process, of `allocate_address`; every database call is
one step. `leases` is the table with its primary key and unique constraint
(`migrations/001_initial.sql:29-34`), `granted` what was returned for an AND that lives. An
upsert may fail before or after it took effect (`TryFails`, `Abandon`). `Serialised` says
that calls for one AND do not overlap, which the program guarantees within a
process: phase 7 and the consumer await each AND before the next. `freed` remembers
for each call what was given up after it read the leases: only that excuses a call that
reports an exhausted pool. `GrantsTenancy` is the implementation of `SubnetTenancy`: an AND rents
what its row says and lives in what was returned for it.

### DriftController

`pc` is where the coroutine is; `unchecked`, `todo` and `unscanned` are what the three loops have
still to look at; `current` and `shown` are the result of the last round in memory and
in the file. Every healthcheck and every execution is a step of its own, because
it awaits; `Break` may happen between any two. A healthcheck that raises answers
`FALSE`. `Stubborn` are phases whose execution always fails.

### AndLifecycle

`and` has for each AND its row in `address_leases`, its bridge, the gateway's attachment and
rules, the features set up, and its entry in `ands_instances` in memory (`known`) and in
the file (`saved`). `job` is phase 7's `execute` or `reconcile`, which `TakeNext` leads from
instance to instance; `Admit` is the consumer, which works beside it. `_provision_and` is
split at every call that a later failure cleans up after (`Allocate` to `SetupBgp`), each
with the failure of that step; an update, a repair and the features of a
provisioning are one step that may stop in between, because nothing cleans up
after them. A call that fails may have had its effect. `allocate_address` appears as what
AddressPool shows of it: an AND gets the lease it has, or the first free subnet. With the lease
it has `_provision_and` goes no further: what asyncpg returns for it, an `IPv4Network`, cannot
be encoded in the request to Docker, while a fresh one is a string.
`harmed` and `stale` are history variables: the ANDs of which the code itself
leaves something half done (a second failure during a clean-up, a repair or a
teardown that fails, a crash), and those whose teardown a crash made the file
forget. The safety properties except these and say nothing of them until a repair
(`harmed`) or a new provisioning (`stale`) puts them right. `Stray` is a speaker that the entry
of the AND does not name: an update of the profile starts it before it writes the
entry, and may fail in between. A later teardown goes by the entry, detaches the
gateway and can never remove the bridge; `AllOrNothing` and `Blocked` name such ANDs.
`KeepsTenancy` is the implementation of `SubnetTenancy`: an AND rents its lease and lives in the
subnet of its bridge, and the ANDs in `stale` are lost. So the two modules, one with every
database call as a step and one with allocation as a single step, are bound to the same
promise about subnets.

### ZoneRecords

`mem` is `dns_output["zone_files"]`, `disk` the zone files, `core` the Corefile and `server` what
CoreDNS has loaded of them: it reads everything when it starts and on `SIGUSR1`
(`usr1`), and polls a file only for a changed serial. `setup` is `execute` of phases 1 and 2
with one step per file, the container and the queries of the verification;
`SetupFails` is an exception at any of them. A call of `add_zone_record` (`call`) is cut where it
awaits: the text is computed from what it read (`Begin`), stored whole (`Merge`), written
(`Flush`), signalled (`Signal`) or, where the context has no client of Docker, not.
`RemoveReverse` has no await, `enable_dnssec` three steps.
`NextWorld` is DELETE `/world`, which leaves this container running and its zones in
place, with a new setup; `down` removes both, and what follows is a first world again.
A zone text is its serial and the records that calls added.

### Certificates

`file` is the state file, `mem` the orchestrator's state, `copy` the rotation worker's, which
lives from `Load` to `SaveRound`, and `held` the copy of a reload, a request or a drift watch, loaded
(`LoadCopy`) and saved (`SaveCopy`) whenever it likes. `SaveState` writes a whole copy over the file and
remembers in `dropped` the certificates a save made the file forget. A round goes from type
to type and certificate to certificate; an attempt that fails counts as a check. `phase` is
`execute` of phase 3 up to the Corefile; without a CA in the state it never passes
`GenerateCa`. `Persist` registers the worker only with `client`: whether the context has a client of
the queues when phase 3 runs. In `netengine up` it has none, because phase 5 makes it, so that
there is no worker (6); a program that hands the orchestrator a context with a client has one. Both are in the
run. The module is about one process, in which phase 3 is executed: a worker
registered in a later execution, after `start_all`, is never started. Time is in hours, and a
round that is due is over before the next hour: a round takes minutes and the event loop
runs it.

### Migrations

`disk` has the version of each file, `schema` the version whose statements were executed
last, `ledger` the rows of each of the four functions' tables; two of them have a table
of one name with different columns (`layout`). A session looks at a file, executes it,
and records it, in one transaction or in two steps, after it has taken all rows
and checksums at its start (`Snapshot`) or file by file. `Crash` ends a session anywhere,
`Edit` changes a file, `Setup` is the end of `setup local` with its readiness check, which
creates the ledger it looks for.

### Admissions, InworldIdentity, WorldServices

`Admissions` has the registry with the two queues it tells, which nobody reads (`unread`),
and the two queues that are read, to which nobody in the program sends (`Send`, which
`Senders` allows or not), and the loop around a message: receive, archive, acknowledge.
`InworldIdentity` adds the orchestrator (`pc`, `mem`, `file`), containers, realms and clients.
`SpecOrgs` are the organizations of the registry, for which phase 8 makes records and buckets,
and `UserOrgs` those of `identity_inworld.org_users`, for which phase 6 makes realms and clients.
`WorldServices` adds phases 8 and 9, mail records and buckets. Phase 9 with an application always
raises (`DeployApps`). `Holders` are all others that save the state: requests of the API, reloads, a
drift watch, the rotation worker. Each has in `copy` what it loaded, however long ago, and may save
it over the file whenever it likes; `undone` remembers the results this took out of the file. `world` says
what is enabled.

### Operator

`file`, the copy of `drift watch` and those of the reloads under way (`call`) are whole states:
a world, its spec, the ANDs on record. A spec is its lifecycle (for the immutable
fields), its PKI section, its ANDs, and one section for all the others. `BeginReload` is load,
diff, refusals and what is applied before the ANDs; `Provision` is phase 7 from AND to AND;
`Halt` an exception, after which the new spec is recorded if anything was applied;
`FinishReload` the success. All other actions load and save without an await, except
`Iterate`, which saves the copy the watch has had since its start. `unserved` is a history
variable: the worlds of which the code itself may leave ANDs on record that have no
bridge.

## 3. Plan

Done in this order: Bootstrap with PhaseLadder, Supervisor, EventQueue, AddressPool,
DriftController, AndLifecycle, ZoneRecords, Certificates, Migrations, Admissions with
InworldIdentity and WorldServices, Operator; then the proofs about Bootstrap, Supervisor,
AddressPool, DriftController, Operator, EventQueue (with EventLife), AndLifecycle,
Certificates, Migrations, ZoneRecords and WorldServices, so that every safety property
of the passing runs is proved; then SubnetTenancy with its two implementations. What is left,
most important first:

1. The gateway portal and the peering of worlds (`handlers/gateway_portal_handler.py`),
   and the internet policy of the gateway.
2. The copies of the state in `Operator` beside the phases of a bootstrap under way: today
   a world is set up there in one step.
3. An abstract specification of the state file that Bootstrap, Operator and Certificates
   implement together: what a save of an old copy may take back.

## 4. Runs

Runs that must pass:

| run | question and instance |
| --- | --- |
| `boot_real` | Is the state file a sound base for the next run, and does re-running `up` end in a booted world? `--phase` 2, 5 or 9, with and without `--mock`, from nothing or from four bundles, with and without an application; two faults (a crash, failed call or kill at any step) and one `down` |
| `sup_stop` | Do crashed workers come back and does stopping end? Three workers: one that absorbs its cancellation, one ordinary, the drift controller; two crashes each; base 40 and cap 60, so that the second delay is capped |
| `queue_retry` | What becomes of events, with either pop, and does one that was handled, lost or dropped stay so? Two ordinary ones, a poisonous one and one dead already; three tries, two faults, two crashes or failed sends |
| `pool_serial` | Are subnets unique, leases reliable and never exchanged? Two ANDs, three calls, overlapping pools, two failed database calls |
| `drift_heal` | Is all healed that can be? Four phases, one of which cannot be healed; three breakages, two faults |
| `and_life` | Are ANDs whole, apart, never moved to another subnet, and in the end what the spec says? Two instances and an admitted organization with two subnets between them, one profile with an optional and one with a required speaker; one failure, loss or crash and one change of the spec |
| `zones_serve` | Is what was written kept and served? Four zones, one of them signed; two calls of `add_zone_record` on any of them, removals of the reverse zone, two worlds one after the other, with and without mock; one failed setup or stop of CoreDNS |
| `certs_rotate` | Are certificates renewed in time? Two certificates of two types, lifetime 3, warning 2, interval 1, keys that live 3; with and without a client of the queues; another holder who puts an older copy back; one fault, one time with the policy off |
| `migrate_all` | Is the database what the ledgers say? Two files with up to three versions, one broken at first, one that may not run twice and may have statements no transaction allows; two sessions of any of the four kinds, three starts, one crash |
| `orgs_serve` | Is what is recorded or acknowledged there, whoever saves, and does the world come up? One organization of the spec and one admitted later; a world with mail, one with storage, one with applications; one other holder of the state; one failed call at any step, one crash or removed container; two tries per message |
| `reload_serve` | May copies be saved late? Two overlapping reloads over five specs that differ in lifecycle, PKI, other sections and ANDs; two worlds, two edits (or teardowns, or starts of the watch), one failed step of phase 7 |

What they show: the invariants and the temporal properties of the modules, each
with a comment at its definition that says what it means for the code.

One run must find a violation, of a statement of the documentation that the code
does not keep:

| run | statement | what the code does |
| --- | --- | --- |
| `orgs_admitted` | "New org admitted via POST /api/v1/orgs gets OIDC client created automatically in the in-world realm" (docs/netengines-mvp-roadmap-v1.html:640) | the registry tells `oidc_provisioning` and `and_provisioning`, which nothing reads; nothing sends to the queues the consumers read |

### Bounds

All bounds are on the environment: how many faults, crashes, breakages, edits and
commands happen. Two faults are what it takes for a failure to meet the
leftovers of an earlier failure. Phases are never bounded: all nine handlers are
in `boot_real`. Four phases in `drift_heal` are the least for which a phase healed as a
dependent could come up as a dependent of a second drifted phase beside one that
cannot be healed. Two ANDs and three subnets' worth of contention suffice for a
call whose every candidate is taken; the theorems of 5 need no bound. In `and_life`
three ANDs compete for two subnets, and one failure suffices for a failure of a
clean-up, which a failing step chooses with it, or for a lease that is kept. In `zones_serve` two calls are the least
that overlap, and a second world is what meets the CoreDNS of the first. In
`certs_rotate` `Warning >= (MaxFaults + 1) * Interval` is an assumption: with fewer checks left before
the expiry than failures nothing could hold; three hours are one lifetime, so that
a certificate issued in the first hour has to be renewed once. In `migrate_all` a third
start is needed for a session that finds what two others left. In `orgs_serve` one crash
after one failure reaches every redelivery over names that exist; tries are two,
so that the last one comes; one holder suffices, since what it loaded may be of any age when it
saves. In `reload_serve` the second world is what a late save of the
first one's copy meets. There `SuccessServed` excepts worlds that were imported or torn down
and those with a reload that halted: section 6 says what the code does then.

### Fairness

* `Bootstrap`: weak fairness of `Step`, since the coroutine goes on while the process
  lives; strong fairness of "`up` again", the operator's (or service manager's)
  retry, which crashes interrupt again and again; and of the removal of stale
  containers, without which the code does not recover (6). `EventuallyBootedWithCa` is about worlds
  imported with their CA, in which no failed phase 7 leaves a lease for good; a world with an
  application has all its phases but a real phase 9.
* `Supervisor`: the asyncio loop runs every ready task; nothing is assumed of
  crashes or of the operator.
* `EventQueue`, `DriftController`: one coroutine each, kept running by the supervisor.
* `AddressPool`: the database answers every call (its properties are safety and do not need it).
* `AndLifecycle`: a job goes on; reconcile is run again and again (a hypothesis: only
  tests call it today). Nobody removes anything by hand. What is never reconciled is
  named in `Blocked`: first of all an AND that kept its lease when its provisioning failed.
* `ZoneRecords`: the event loop and its threads run, CoreDNS handles its signals.
* `WorldServices`: the orchestrator and the two consumers go on while their process lives, and
  somebody starts `up` again when it has ended, as in Bootstrap. `ComesUp` is about worlds without applications in which at last no
  process starts over the containers or clients that a phase left whose output is not on
  record: over these it raises for ever.
* `Certificates`, `Migrations`, `Operator`: none, their properties are safety; that a due round
  comes before the next hour is a guard of `Tick`.

`CHECK_DEADLOCK FALSE` stands where the system really comes to rest: a stopped
process, an empty queue, callers that ask no more, healing whose breakages are
used up, the end of the bounded time, sessions or edits that are used up.

## 5. Theorems

All are proved for every value of the constants that satisfies the module's named
assumptions. Some are about properties that no run lists any more, because the
proof says it all.

* `BootstrapProofs`. The inductive invariant `IInv` adds to the properties what makes them
  stable: in the file and in memory, a flag implies its outputs (`Backed`), outputs form
  a ladder (`LadderIn`), `pki_bootstrapped` implies `pki_output` (`PkiFlagged`), the id of the
  step-ca container implies the container (`CaKnown`); during a run memory is ahead of
  the file by the outputs of one phase at most (`InRun`), and each `pc` allows certain phases
  only (`AtPhase`). From it follow `CompletedLadder`, `NeverBlocked`, `RecordedCaExists`, `FinishedDurable`,
  the action properties `ProgressKept` and `NeverRedone`, and that the specification implements
  `PhaseLadder` (`ClimbsLadder`).
* `OperatorProofs`, of Supervisor. Types (with the cap of the back-off), `StatusReadable`,
  `StatusTrue`, `AllEndedAtStop`. What is needed beyond them: a task that `stop_all` has passed is
  cancelled, awaited or ended.
* `AndLifecycleProofs`, of AddressPool. `UniqueSubnet` and `GrantMatchesLease` for any number of callers,
  ANDs and subnets, lost answers and crashes, from `Serialised`, which is a hypothesis of those
  two theorems and of the refinement below. The invariant relates an open call past its
  look-up to an AND to which nothing was granted. `ExhaustedTruly` needs no hypothesis: each
  candidate of a call is still to be tried, leased, or was given up since it read
  (`Accounted`).
* `EventQueueProofs`. `TypeOK`, `SingleCopy`, `RetriesCounted`, `LossesCounted`, `UnresolvedKept`, and that the
  specification implements `EventLife` (`LivesOnce`: a dead letter may come back, nothing
  else that ended), all of them for both kinds of pop. The
  invariant says where the one message of an event may be (`Single`: in the primary
  queue, the dead letters or, once it is `Out` of both, in hand), that its retry count and
  the number of times it was received differ by what failed without a count (`Counted`),
  and that a message about to be acknowledged was handled (`Honest`). `LossesCounted` alone is not
  inductive: where pop removes messages, an event is as good as lost when its handling
  fails, before the message is dropped. `AtRisk` counts these too, and each action moves
  at most one event into it, together with a fault or a crash.
* `OperatorProofs`, of DriftController. `DriftedTried`, `HealsLaterOnly`, `HealedOnce`. The invariant says of
  every stage which phases are tried, in hand or still to be taken (`NoneForgotten`), and
  that whatever is done or to be done comes after a drifted phase (`Spreads`).
* `AndLifecycleProofs`, of AndLifecycle. `TypeOK`, `SubnetsApart` and `AllOrNothing` for any number of instances,
  organizations, pools and failures. The invariant has five parts beside the types: a
  subnet is in one row and in one bridge (`Unique`); bridge and entry agree with the lease
  (`Backed`); what there is of an AND at each step of the work on it (`Progress`, by `Reached`); what a job
  has still to do (`Recorded`); and that an AND nothing has harmed is whole, or that the step it
  is at will make it so (`Sane`). Every action works on one AND, so one lemma (`Local`) says
  what it owes: a state that is right at the next place, and no subnet that another
  AND has. The proof found what the bounds of the run had not shown, the stray speaker
  of 2 and 6.
* `AndLifecycleProofs`, of SubnetTenancy. What the abstract module allows keeps tenants `Apart`
  (`TenantsApart`), and both AndLifecycle (`SubnetsKept`) and AddressPool with `Serialised` (`LeasesKept`)
  implement it. The invariants carry most of a step: `Unique` and `Backed` after it say that
  what is rented or moved into is free. What is left to show of each action is that it
  leaves the other ANDs alone and creates a bridge only where none was (`Alone`), or, in
  AddressPool, that a row is written only for an AND that holds nothing (`NothingGranted`).
  Without `Serialised` TLC finds the step that breaks it.
* `CertificatesProofs`. `TypeOK`, `NeverAhead` and `NoneExpires`. `NeverAhead` needs little more than itself for
  all copies that will be saved (`Behind`). `NoneExpires`, which
  speaks of processes that run the worker, is an argument about deadlines:
  `InTime(expiry, failed, d)` says that a certificate outlasts the check at `d` and as many more
  as may still fail, because every failure costs one `Interval` of the `Warning`. `Renewed` says
  it of every certificate at the next round, and of every copy at the check that
  follows the last one it records (`Lasting`), because a copy that is saved late brings an
  older `last` back with it. Needed beside it: what a copy tracks is in the file or
  was dropped (`Known`), rounds are on time (`Timely`), with a client of the queues the
  worker is there before there is a certificate to renew, without one never (`Registered`), keys are counted by rounds and failures (`Generated`). The
  assumption `Warning >= (MaxFaults + 1) * Interval` is used for `NoneExpires` only.
* `OperatorProofs`, of Operator. `TypeOK`, `ImmutableKept`, `PersistentPkiKept` and `SuccessServed` for any number of
  overlapping reloads, ANDs and specs. The properties are not inductive, because a
  reload saves a spec that it compared with an older file: the invariant says of
  *every* copy there is that what it says is true of its world (`CopyOK`), of a reload
  that it was not refused against its own copy, and that the ANDs it has behind it
  have bridges and are on record there (`CallOK`). All steps only let the history of a
  world grow (`Ages`), under which a copy, however old, stays right (`CopyAges`): that is
  the argument why late saves do no harm to these properties. Each action then has a
  lemma of its own, and `Kept` and `Stepped` say what it has to show.

* `MigrationsProofs`. `TypeOK`, `InOrder`, `RecordedWhole` and `OnceByRun` for any number of files, versions and
  sessions of the four kinds, whatever files raise and however often a process ends.
  `InOrder` is about the schema, but what a session does next it decides by rows, some of them
  read long ago: so every row that says "applied" must be of an executed file, in the
  ledgers and in what a session took from them (`Backed`), and a session has left no
  file behind it unexecuted (`Progress`). `OnceByRun` holds only while no two sessions were open, and
  then because `run_migrations` is at a file only if the file is not on record, and has on record
  what it executed (`Alone`).
* `ZoneRecordsProofs`. `TypeOK`, `KeptAlone` and `CompletedServes` for any zones, keys, values, calls and worlds.
  `KeptAlone` rests on `Clean`: without overlap and failures memory has the records asked for,
  the disk what is in memory but for the zone whose call is under way, and that call holds
  exactly the text it read with its own record in it, also across its awaits. `CompletedServes`
  rests on an order (`FilesFirst`): in a first world the files come before the Corefile, that
  before the container, and a text the signer holds is complete. `Serialled` is needed
  because a text without a serial would be taken for an absent zone, `Staged` because a zone is
  worked on only in a world that is up.
* `WorldServicesProofs`, with its parts Admissions and InworldIdentity. `TypeOK` (with: a consumer has one
  message at most in hand), `OutputComplete` and `AckedDurable` for any organizations, holders of copies,
  failures and crashes. `OutputComplete` speaks of the file, but the file is written from the
  memory of the process and from whatever copies others have loaded: the invariant says
  of all of them that their outputs tell the truth (`Truthful`), and of a phase under way that
  what it is through with is made (`Made`). For `AckedDurable`, what is acknowledged or about to be
  is in the file and in the memory of the process, from which it is saved again, or somebody
  undid it (`Durable`); needed is that no state has results without the output of phase 8,
  or the phase would overwrite them.

Every safety property of a passing run is stated by one of these theorems. The
liveness properties are only model-checked, since fairness and `ENABLED` are out of the prover's
reach: `EventuallyBootedWithCa`, `RestartedAfterCrash`, `StopTerminates`, `Drains`, `Converges` of DriftController and of
AndLifecycle, `ShownTruly`, `FlushedServed`, `Consumed` and `ComesUp`. So is `AdmittedGetsClient`, which does not hold.
In `PROJECT.json` the theorems of types of a module whose run does not list its type
invariant have no property: there the proof replaces the check.

## 6. Divergences observed while modelling

Beside the one of section 4, these follow from the code and have no run of their
own.

Bootstrap and drift:

* "`netengine up` runs ten numbered phases" (docs/operator-guide.md:27): without a CA in
  the state, phase 3 formats undefined names (`handlers/pki_handler.py:99`) and raises in
  every run, so that a world from nothing never gets further.
* A world with an application never finishes a real phase 9: `deploy_app` first writes a row with
  columns `app_deployments` does not have, and NULL where it demands a container id
  (`handlers/app_handler.py:140`; migrations/001_initial.sql:160), and past that would hand
  docker-py a `healthcheck_path`, which it rejects (`app_handler.py:231`;
  `handlers/docker_handler.py:109`).
* With the id of the step-ca container on record a CA that died is not started again.
* "interrupted runs can resume where they left off" (README.md:166): a run that skips
  phase 5 registers neither the WHOIS server nor the DNS consumer
  (`phases/phase_registries.py:92`).
* Phases 4 and 6 to 9 create a container or network under a fixed name without
  looking for it. A run that ends between the creation and the end of the phase
  makes every later run fail until somebody removes it, although "The runtime
  state file is written after each phase so interrupted runs can resume."
  (docs/state-and-backups.md:7). Hence the operator who removes stale containers in the fairness
  of `boot_real`.
* Phases 3, 4 and 5 flag themselves and save before the orchestrator's healthcheck, and
  the others are skipped on their recorded output: a phase whose healthcheck failed is
  "already done" in the next run.
* A skipped phase is flagged in memory only; a run whose last phases were skipped ends
  with the file still showing them incomplete.
* `_trigger_self_healing` executes a drifted phase a second time when it has already
  been healed as a dependent of an earlier one; `max_drift_retries` is never read.

Workers and queues:

* "Stop all consumers gracefully." (`core/consumer_supervisor.py:106`): the supervisor restarts
  a monitoring worker that swallowed its cancellation (`monitoring/service.py:57`), and
  `stop_all` waits for it for ever. `StopTerminates` says so of worlds without one.
* "After N retries, messages move to DLQ" (docs/decisions.md:78): `receive` has popped the
  message, so `archive_to_dlq` does not find it and returns; an event whose handling
  fails is gone.
* With the pop the migration installs, the replay worker removes the unresolved
  dead letters it says it leaves (`workers/dlq_worker.py:52`), and a resolved one never
  gets back, although the worker "will move an event back to its primary queue"
  (`workers/dlq_worker.py:20`): `_decode` leaves `emitted_at` a string, on which the real `send` fails
  (`tests/test_background_workers.py:90` mocks it). The API's replay fails on the
  frozen envelope after the pop.
* Two overlapping calls of `allocate_address` for one AND, in two processes: the second
  replaces the lease the first has returned, and the next AND is given that subnet.

ANDs:

* A provisioning that fails after its lease can never be repeated. The next one takes the lease
  that is there (`handlers/domain_registry_handler.py:55`), which asyncpg returns as an
  `IPv4Network` because the column is a CIDR (migrations/001_initial.sql:31), and hands it to
  docker-py (`phase_ands.py:234`, `docker_handler.py:153`), which cannot encode it. `down` and
  DELETE `/world` keep the leases, so that the same holds of the ANDs of the next world
  with these names. Hence the exceptions in `EventuallyBootedWithCa` and `Converges`.
* `core/reload.py:185` says "All handlers are expected to be idempotent.": executing phase 7
  again always fails on the bridge of its first instance, so that a reload which
  adds an AND to a world that has one always halts.
* A required BGP speaker that fails leaves bridge, gateway and rules behind
  (`phase_ands.py:324`), and an AND that has one can be neither repaired nor updated
  again: `setup_bgp` cannot start a container that is there. An update that fails after the speaker
  has started (`phase_ands.py:447`) leaves one that the entry does not name; the teardown of
  such an AND fails in every reconcile. `bgp: disabled`
  (`spec/models.py:470`) is no different from `optional`: only `None` is asked for.
* A teardown whose bridge is gone raises in every reconcile, before any other
  instance has its turn. It leaves the DNS record, and an update the old reverse
  zone. ANDs of admitted organizations are never recorded, so nothing repairs or
  removes them.
* POST, PUT and DELETE `/ands` only touch the table `and_instances` and `ands_output["instances"]`,
  which the next `execute` overwrites.

DNS:

* Overlapping calls of `add_zone_record` on one zone lose records, in memory or on disk:
  the text is read before an await and stored after it. Nothing serialises the
  consumers that call it. `KeptAlone` is about calls that do not overlap.
* Reverse zones are written to disk and never get a stanza in the Corefile.
* The healthcheck of phases 1 and 2 asks nobody (`handlers/dns.py:151`), although its
  docstring says "responding".
* A spec whose root zone is disabled raises a `KeyError` in every setup.
* A setup over a CoreDNS that runs, as the one of the world before does after DELETE `/world`
  (`api/routes.py:244` removes `netengines_*`, and it is `netengine_coredns`), neither restarts nor
  signals it: TLDs of the new Corefile are not served until some record is added. Hence
  `worlds = 1` in `CompletedServes`. `netengine down` does remove it.
* A call whose context has no client of Docker, as that of a reload
  (`core/reload.py:239`), writes the zone file and signals nobody (`dns.py:959`): what it wrote is
  served when CoreDNS is signalled for another call or notices the serial. `FlushedServed` is
  about calls that come to the signal.

Certificates:

* `netengine up` has no rotation worker, and certificates expire: phase 3 registers it only if the
  context has a client of the queues (`handlers/phase_pki.py:204`), the orchestrator starts with none
  (`core/orchestrator.py:76`), and it is phase 5 that makes one
  (`phases/phase_registries.py:26`). A resumed run skips phase 3 and has none either, and one that
  healing registers after `start_all` is never started. `NoneExpires` is about a process that
  was given the client beforehand.
* Rotated certificates are recorded and never installed anywhere; rotated DNSSEC keys
  never reach the Corefile or CoreDNS, and a second phase 3 generates keys that the
  Corefile, which has a block already, does not name.
* A save of an older copy drops certificates from the file, which are then never
  renewed (`dropped`); `NoneExpires` excepts those.
* `update_rotation_policy` says "picked up next iteration" (`api/routes.py:796`): the next save of
  another copy, of the watch or the orchestrator, takes it back.

Migrations:

* The four functions share no ledger. `setup local` refuses to go on unless the ledger it did
  not fill is filled (`cli/main.py:762`; README.md:57). A second `migrate` group
  shadows the one with `migrate up`.
* Overlapping `run_migrations` may record an applied migration as failed.

Organizations, services, applications:

* The healthcheck of phase 8 with storage asks Docker for a container id that
  `deploy_minio` does not return, and fails; the next run skips the phase, and its
  consumer never starts. The healthcheck of phase 6 fails in a world without
  organizations.
* A redelivered `org.admitted` finds its client, which Keycloak refuses to create
  again: the event ends in the dead letters although all was provisioned.
* The OIDC secret that is stored is not the one Keycloak generated, the table
  `oidc_credentials` does not exist, and DKIM private keys are not kept.
* `restart_app`, `update_app` and `teardown_app` have no callers.
* The results of the consumers are kept in `world_services_output` of the state file, over which
  requests of the API, reloads, a drift watch (which keeps the copy of its start) and the
  rotation worker save whole older states: an acknowledged organization may be gone
  from it (`undone`).
* A phase 6 or 8 that fails after its first container or client, or whose output an older state
  takes out of the file, finds its own container or client in every later attempt and
  raises (`handlers/oidc_handler.py:126`, `handlers/docker_handler.py:72`). `ComesUp` excepts it.

Operators:

* A reload that halts after an entry was applied records the whole new spec: the
  same reload again says "No changes detected" and succeeds.
* No change of the registries or of in-world identity is ever "added" or "removed" to
  `compute_diff`, so removing an organization from a persistent world is not
  refused (README.md:263), and organizations a reload adds are never admitted.
* `metadata.name` is not immutable, though docs/spec-reference.md:33 says so.
* A reload, or the watch, that saves late brings the state of a world back that was
  torn down meanwhile.
* The API's import saves what it imported and then, over it, the state it had loaded
  with parts of that in it: `ands_instances` stay those of the old world. An export lacks
  outputs that an import needs. A teardown leaves `netengine_gateway` running, which keeps the
  bridges of all ANDs in use.

## 7. Not modelled

Contents: zone texts beyond records and serials, realms, gateway rules, mail
accounts, the sections of the spec. Parsing and validation of the spec, redaction,
diagnostics, the wizard, metrics and logging are sequential or read-only.
`SelfHealingStrategy`, `ANDHandler` and parts of `AppHandler` have no callers. The mirror of the state in
Supabase is written and never read back. The single requests of service handlers
to Docker, Keycloak, step-ca, MinIO or the mail server appear only as a step that
succeeds or fails; of Keycloak it is assumed that its answers to creations can be read. Reload and
drift watch execute phases 6 and 8 again as a second orchestrator, and a process that restarts
finds a rotation policy and certificates of the one before: neither is in WorldServices or
Certificates. The gateway portal and the peering of worlds are left for later,
see section 3.
