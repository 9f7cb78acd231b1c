# Verification of the ICE health checks

This directory holds a TLA+ development of the ICE support package: the health
checks, the file tracker, the log collection and the machinery they run on
(`src/HealthChecks`, `src/Installer`). It models the parts of the program whose
behaviour is decided by the order of things: threads that share a cache, locks
taken in two steps, operations that depend on the outcomes of others,
connections that break and are made again, an installer or a collection of logs
that is killed between two commands and started again on what it left. Every definition is translated from the Python source; the field
`map` of `PROJECT.json` gives the file and the lines of each one.

Contents:

1. [The system](#1-the-system): components, state, operations, interactions
2. [The modules](#2-the-modules): how their state and actions correspond to the code
3. [The runs](#3-the-runs): what TLC checks, on which instances, and why they are enough
4. [Fairness](#4-fairness)
5. [The proofs](#5-the-proofs): what holds for every value of the constants, and why
6. [What the code does otherwise](#6-what-the-code-does-otherwise): the findings
7. [What is not modelled](#7-what-is-not-modelled)
8. [The plan](#8-the-plan)
9. [Running the checks](#9-running-the-checks)

Paths below are relative to `src/HealthChecks` unless they begin with `Installer`.

## 1. The system

### 1.1 Components

| component | state it keeps | operations | module |
|---|---|---|---|
| Main programs (`mains/`) | cluster, flows, time-out handler | for each cluster: build and connect the host executors, run the flows, clean up | part of `LazyDataLoader`, `HostExecutor` |
| Host executors (`tools/ExecutionModule/HostExecutorsFactory/`) | `_client`, `is_connected`, `_threadLock`, `running_timeout_exceeded` | connect in rounds, `execute_cmd`, reconnect and retry, close at exit | `HostExecutor` |
| Many-to-one data collectors (`HealthCheckCommon/parallel_runner.py`, `operations.py`) | `ParallelRunner.data_collector_db`, `DataCollector.threadLock` | `run_data_collector`, `collect_all_data`, `run_DataCollector_many_to_one`, clear after a flow | `DataCollectorCache` |
| Lazy data loader (`tools/lazy_global_data_loader.py`) | `LazyDataLoader.my_data_db`, `threadLock` | `get_common_data`, `_load_data`, `clean_lazy` | `LazyDataLoader` |
| System operation runner (`HealthCheckCommon/parallel_runner.py`, `operations.py`) | `_is_passed` of each instance, reports of the printer | `run_SystemOperator_on_all_host`, `DynamicPrerequisiteFulfillness`, `run_validation_on_one_host` | `SystemOperationFlow` |
| File tracker (`flows_of_sys_operations/FileTracker/`) | snapshots on the hosts, `diff.json` and its backups, lock file, `data_store` | collect differences, write them, update the snapshots, lock | `FileTracker` |
| Local commands (`tools/popen_utils.py`) | one process, one timer | run, kill at the time-out | as the outcomes of a command in `HostExecutor` |
| Selection of hosts and roles (the factories) | list of executors, their roles | read an inventory, give single roles to connected hosts | no |
| Log and telemetry collectors (`flows_of_sys_operations/sys_data_collector/`) | archives on the hosts, the manager and the final host; `data_store` | create, append, zip, copy, pack, clean, move | `LogCollector` |
| Generator of log scenarios | none | write lists of paths | no |
| Installer (`Installer/`) | package, back-up, daily job, container image, keys | install, uninstall, roll back, recreate and remove keys, load images | `Installer` |
| Results and their printing (`printer.py`, `tools/UI`) | result dictionaries | collect, filter secrets, print as json, html, tables | as `reports` and `answers` |
| Commands of an operator (`operations.py`, `file_utils.py`) | outputs of one host | `run_cmd` and helpers over it | no |
| Validation flows (`flows/`) | none of their own | some 31,000 lines of checks: run commands, parse, compare | no |
| Vendored libraries, tests | | | no |

### 1.2 How they interact

```
 main program ──► for each cluster ──► host executor factory ──► HostExecutor.connect_ssh_client
      │                  │                                             ▲      ▲
      │                  ▼                                             │      │ exit functions
      │           flow of validations          flow of system operations      │ (atexit)
      │                  │ one thread per host         │ one thread per host  │
      │                  ▼                             ▼                      │
      │           run_validation_on_one_host ◄── DynamicPrerequisiteFulfillness
      │              │            │                                           │
      │              │            └──► lazy_global_data_loader ─┐             │
      │              └──► run_data_collector                    │             │
      │                       │ one thread per source host      │             │
      │                       ▼                                 ▼             │
      │              data_collector_db ──► HostExecutor.execute_cmd ──► remote host
      └── SIGALRM after 24 hours ─────────────────────────────────────────────┘
```

* The runner takes the operations of a flow one after the other. For each it
  starts a thread per host it concerns and joins them all
  (`parallel_runner.py:141-162`); only log and tracker operations that say so
  run serially, in the main thread.
* A validation thread may call `run_data_collector`, which starts a thread per
  source host and joins them. Many validators, one on each target host, ask for
  the same data of a few *single-type* hosts (manager, undercloud, ...), so
  those collections go through a cache that all threads share.
* Any thread may call a function decorated with `lazy_global_data_loader`, whose
  result is kept until the cluster is done (`base_main.py`, a `finally` clause).
* Every command on a remote host goes through `execute_cmd` of its executor,
  which holds the lock of that executor until the exit status has arrived.
* System operations leave `_is_passed` behind, from which the runner decides
  where later operations of the flow run.
* The collection of logs is a flow of ten system operations. What one of them
  leaves, on a host or on the manager, is what the next one works on, if the
  runner lets it run; the user is told of an archive at the end.
* The installer is a program of its own. It leaves the package that the main
  programs run from, the daily job that starts the file tracker, and a back-up of
  the package before it.
* After 24 hours a SIGALRM handler sets a flag and exits, upon which the exit
  functions close the connections, while threads may still be making new ones.

### 1.3 What is hard, and what correctness means

* **Double-checked locking**, twice: `data_collector_db` and `my_data_db` are
  looked at without the lock, then again with it. An entry of the first is
  published by three assignments, so a reader without the lock may see a part of
  it; the second looks up the wrong key under the lock. *Correct*: data is
  collected once, everybody gets the same whole answer, nobody gets the answer
  of another flow or cluster, and nobody waits for ever.
* **Decisions on outcomes of others.** An operation that fails, raises, returns
  `None` or is skipped on some hosts decides where the next ones run. *Correct*:
  nothing runs behind a failed prerequisite; what is there for failures does run;
  outcomes are final when they are looked at; each run leaves one report.
* **Connections.** Threads share an executor; a connection may drop, be made
  again and be closed by the time-out, in any order. *Correct*: a connection is
  used by one thread at a time and never replaced under it; none made after the
  time-out is used; none is left open; a call ends.
* **Crashes and partial failure** of the file tracker: what it tracks changes at
  any time, any command may fail and the process may be killed between the
  report of a change and the update of its snapshot. *Correct*: no change is lost
  between two runs; none is reported twice but for what the tracker forgets with a
  crash, with a lock that is not set or is removed, or with a writer that raised
  when its text was on disk; none stays unnoticed.
* **Crashes and partial failure** of the installer and of the collection of logs:
  each is a list of commands, of which some are checked and some are not, any of
  which may fail, time out or be cut short; the next run starts from what was left. *Correct*: an
  installation that says so is whole; a rollback brings back what was there; the last whole copy of
  a package is not given up; the archive that is announced has all hosts, and logs
  of an earlier collection only in the two ways by which the code lets them in
  (a host that another one decides for, and the directory of the csv files of telemetry).

`PROJECT.json` lists the hazards one by one, each at its line with the
properties that guard it, or the reason why none does.

## 2. The modules

Each component has its files: the specification `X.tla`, an instance `MCX.tla`
with one `.cfg` for each run, and `XProofs.tla` (for the tracker also
`FileTrackerReportProofs.tla`). `ManyToOneCollect.tla`, `SharedLazyData.tla` and
`SerialFlow.tla` are the abstract specifications that `DataCollectorCache`,
`LazyDataLoader` and `SystemOperationFlow` implement; `DynamicPrerequisite.tla` has
what the last two of these share, the decision where an operation runs. Operators called
"Mutant" in their comment are variations of the action after them, the way a
likely bug would change it; the specifications do not use them. Each property
has one, listed under `mutants`, that TLC shows it to reject. *History*
variables record what happened for the sake of the properties; no action has
one in its guard.

### 2.1 DataCollectorCache, ManyToOneCollect

| model | code |
|---|---|
| `cache` | `data_collector_db[collector, arguments][host]`; each field holds the number of the load that wrote it, 0 for a missing key |
| `Filled`, `Torn` | `is_current_data_collector_db_empty` and its assertion |
| `lock` | `DataCollector.threadLock`, one for all collector classes |
| `StartOperation`, `EndFlow` | `run_validation_flows_on_all_host`, which clears the cache after the last operation |
| `CollectAllData`, `Collected` | `collect_all_data`: start and join a thread per connected host; raise if all failed and the class has `handle_error` |
| `Check` ... `Read` | `run_DataCollector_many_to_one`: check, lock, check again, collect, the three assignments, assert, read |

Every access to the shared dictionary is a step of its own: the check without
the lock, the publication of data, of the commands and of the log. A worker whose
assertion fails is `"died"`: its thread ends with no answer and no exception
recorded for its host.

`ManyToOneCollect` says what callers rely on in four short actions: an entry is
loaded when there is none, a reply repeats what is there, the end of a flow
forgets. The refinement mapping takes the value of an entry to be its data or
exception, so an entry counts as loaded with the first of the three assignments.

### 2.2 LazyDataLoader, SharedLazyData

| model | code |
|---|---|
| `db` | `my_data_db[class][function]` |
| `Check`, `Acquire`, `Recheck`, `Load`, `Release`, `Read` | `get_common_data` and `_load_data`, with the `finally` clause |
| `Recheck` | `data_name not in cls.my_data_db`: looks for the function among the *classes*, translated as it stands |
| `EndCluster` | `clean_lazy` in the loop over the clusters |

A value is numbered by the load it comes from, so that "the same answer" means
the same run of the function. An exception is kept as a value, and raised to later
callers within `LazyDataLoaderPreviousLoadProblem`, which the runner unwraps.

`SharedLazyData` says what is left of "one time loading" (finding 2): on a cluster an item is
loaded, perhaps several times, within one operation; a call is told what the item holds by
then, or the exception of a load it made itself; that exception reaches its call before
anything else is loaded; the end of the cluster forgets. The refinement mapping shows the
database as it is and takes for `raised` the exception the holder of the lock is about to raise.

### 2.3 SystemOperationFlow, DynamicPrerequisite, SerialFlow

| model | code |
|---|---|
| `Flow` | the operators of a flow with their class attributes: prerequisite, on which hosts, multiple hosts, pass if any, run if failed, in parallel |
| `rank` | the order of the host executors, which is that of a Python dictionary: any order |
| `passed`, `report` | `_is_passed` and what the printer got |
| `Select` | `run_SystemOperator_on_all_host`: `DynamicPrerequisiteFulfillness` for each host |
| `PassedOnOneHost`, `PassedOnMultipleHosts` (`DynamicPrerequisite`) | its two modes |
| `RunSystemOperation` ... `RaiseException` | `run_validation_on_one_host`; in debug mode exceptions are raised instead of reported |

An operation returns `True`, `False`, nothing, something else, or raises.

`SerialFlow` has one action: the next operation takes place at once, on exactly the
hosts that the outcomes before it select, and leaves on each an outcome with the
report that belongs to it. Threads, serial runs and the time between an outcome and its report are
gone; the refinement mapping shows an operation's outcomes when it is over (`Seen`).

### 2.4 HostExecutor

| model | code |
|---|---|
| `StartRound`, `EndRounds`, `ReconnectByPassword`, `RunFlows` | the factory's three rounds, the prompt for a password, the start of the flows |
| `conn` | where `connect_ssh_client` is: connecting, registering the exit function, checking the time-out flag |
| `client` | the transport behind `_client`: connecting, active, ended by the other side, closed |
| `TimeoutHandler`, `CloseConnection`, `Exit` | the SIGALRM handler and the exit functions, interleaved with all else |
| `Acquire` ... `ExitStatus` | `execute_cmd` and `_run_cmd_with_retry`: three attempts, a new connection before each retry |

The remote side (paramiko and the host) is external: a transport may end at any
moment (`Drop`), output may never come (`RemoteStep` has no fairness).

### 2.5 FileTracker

| model | code |
|---|---|
| `live` | what the tracked file, folder, resource or command is at present: changed by `Edit` at any time |
| `snap`, `gen` | the snapshot of an item on its host, and its generation |
| `diff`, `archive` | `diff.json`, a sequence of runs, and its rotated backups |
| `locked` | the lock file that stops later runs |
| `Start`, `CollectDiffs`, `NextCollector` | `FileTrackerStarter` and the four collectors, one after the other, each on all hosts in parallel |
| `WriterFails` ... `WriteInFile` | `DiffsWriter`: size check, rotation, opening (which truncates), writing |
| `WriterPasses`, `WriteRaises` | mode and owner of `diff.json` and the log are done and the writer passes; or a command of the writer raises, before the text is on disk or after, and no snapshot is updated |
| `CollectFails`, `Kept` | a collector raises: what it put in `data_store` before stays, which is a part of the commands, or all resources |
| `UpdateSnapshot`, `UpdateFails`, `UpdateEnds` | `SnapshotsUpdater`, folders last; it sets the lock file when it fails |
| `Crash`, `Unlock` | the process is killed; someone removes the lock file |

Two readings matter. The new snapshot is made from `live` at the update, not
from what was compared; the model does so too. And `data_store` is a class
attribute emptied by `FileTrackerStarter`, not at the end of a run.
Contents are members of a small set; the size of `diff.json` is counted in changes.
`slips` counts what the tracker has no memory of: crashes, lock files that could
not be made or were removed, and writers that raised when the text was on disk. After
each of them the next run finds, and reports, the same changes again.

### 2.6 Installer

| model | code |
|---|---|
| `disk` | what is on the manager: the package with its version file (`ice`), `icerc`, the daily job, the back-up of these three, the image of the container, the key on the undercloud, the containers of the profiler, the old key |
| `todo`, `ActionsLists`, `NextAction` | `Action.get_actions_list_from_args` and the loop of `run_and_get_result` |
| `Start`, `Refused` | `validate_ice_version_is_newer_than_existing`, with the answer of the user |
| `CreateShareDir` ... `CopyIcerc` | `install`, `back_up_previous_version`, `delete_ice_files`, `copy_ice_files`, a command each |
| `FindBackUp` ... `RestoreIcerc` | `restore_from_backup` |
| `CreateCronJob`, `DeleteCronJob` | the daily job of the file tracker |
| `UnloadContainer`, `LoadContainer`, `LoadDocker` | the image of the tool and the containers of the profiler |
| `CreateKey`, `RemoveOldKey` | `create_key` and `remove_old_ice_key` |
| `Kill` | the run ends at a command or between two |

How a command may end is said once: `Checked` (a failure ends the action),
`Unchecked` (a failure is not looked at), `Misled` (a test wrongly finds nothing and the
run goes on as if that were so: `remove_old_ice_key` then skips the whole block and
succeeds, a back-up is made again), `Tested` (a checked command after such a test). `Midway` is what it leaves when it is cut short, which is half a package
for a copy or a removal, with the version file of the old or of the new one, or none. `slipped` records that a
command nobody looks at was cut short or a test was wrong, `before` what the last complete back-up was made of. `SaveCron` has also the outage that keeps the look at the
versions from reading the one of the back-up and from finding its file, which counts as one fault.

A command that timed out is taken to be over. On CBIS it runs behind `ssh`, of which only the
local end is killed (`PopenTimeOut.py:31-45`): that the remote command goes on into the next
run is not modelled.

### 2.7 LogCollector

It composes with 2.3: `R == INSTANCE SystemOperationFlow WITH Flow <- CollectorFlow`,
the ten operations of the flow with their class attributes. Each action is one of `R`'s
(`Returns` runs the operation of that name on a host with that outcome) together with what the
operation does to the files, so prerequisites, joins and outcomes are the runner's.

| model | code |
|---|---|
| `tar`, `gz` | the archive of a host on the host, as the logs of which runs it has |
| `telemetry`, `sar` | whether telemetry is collected instead of logs; the csv files in `working_dir/sar` of a host, which is never emptied |
| `AppendLogsFilesToTar`, `AppendSarFilesToTar` | the second operation of the one flow and of the other |
| `data_store` | the name under which the archive goes, `.tar` or `.tar.gz` |
| `copied`, `collector` | the archives of the hosts, and the one of all hosts, in `working_dir` of the manager |
| `final`, `path` | the archive in the final folder; which of the two is announced |
| `CreateTarFile` ... `PrintFinalFilesLocation` | `run_system_operation` of the ten operations |
| `NewRun` | the process starts again, after the end or when it was killed at any point |

## 3. The runs

`expect: pass` runs hold; a run with `expect: violation` shows one statement of
the repository that the code does not keep (section 6). States are distinct
states found by TLC.

| run | states | instance | properties |
|---|---|---|---|
| `collector_cache` | 71,504 | 2 validators, 1 source host (connected or not), 2 requests of which one has `handle_error`, 2 operations, 1 collector call per validator and operation, 2 flows | `TypeOK` `LoadedOnce` `OneAnswer` `WholeAnswer` `FreshAnswer` `CollectOnce` `FlowsEnd` |
| `collector_cache_torn` | | 2 validators, 1 host, 1 request, 1 flow of one operation | `NoWorkerDies`: violated |
| `lazy_loader` | 48,127 | 2 threads, 2 functions of a class, 2 operations, 2 clusters, 1 call per thread and operation | `TypeOK` `LoadedInOneOperation` `SettledAnswer` `FreshAnswer` `SharedData` `CallsReturn` |
| `lazy_loader_once` | | the same | `LoadedOnce`: violated |
| `system_operations` | 129,114 | 3 hosts of which one is the single controller, 5 operations, all host orders, debug mode on and off | `TypeOK` `EveryRunReported` `PrerequisitePassed` `RunsIfFailed` `OneAfterTheOther` `FlowEnds` |
| `system_operations_host` | | the same | `DependsOnThisHost`: violated |
| `host_executor` | 154,334 | 2 hosts, 2 threads, 2 commands in all, the code's own 3 rounds and 3 attempts | `TypeOK` `ClientNotShared` `NoLateCommand` `ClosedAtExit` `UnreachableStays` `CallEnds` |
| `file_tracker` | 463,786 | a file and a folder on a node, a resource and a command on the manager, 2 contents, a limit of 1 change, 1 backup, 2 edits, 2 faults | `TypeOK` `ReportedOnce` `ReportedBeforeReplaced` `NoReportWhileLocked` `DifferencesFollowed` |
| `file_tracker_no_diff` | | the same without faults | `NoDiffNoChanges`: violated |
| `installer` | 1,934,446 | an undercloud of an old CBIS with all it can have, and a bare manager of NCS; 2 versions, 3 runs, 2 faults | `TypeOK` `InstalledIsWhole` `RollbackRestores` `ImageOfPackage` `OldKeyTraceless` `LastCopyKept` `NewerKept` |
| `installer_torn` | | the same with 1 fault | `SparedBackUpIsWhole`: violated |
| `log_collector` | 346,380 | an undercloud and a compute node that are collected, and the hypervisor with the final folder; logs or telemetry; 2 runs, 1 fault | `TypeOK` `OldLogsTraced` `CollectedIsDelivered` |

What they show:

* **collector_cache**: whatever the interleaving of two validations, a collector
  runs once per flow, arguments and host; both validations are told the same, in
  all fields, also when it was an exception; no answer is left over from another
  flow; joining collectors while the lock is held elsewhere never blocks for
  ever; and each step is one of `ManyToOneCollect`. All this holds *although* a
  worker may die of a torn entry: it then gets no answer rather than a wrong one.
* **lazy_loader**: an item may be loaded twice, but only within one operation
  of a cluster; from the next operation on, everybody is told the same, also when
  the load raised; the lock is always released; and each step is one of `SharedLazyData`,
  so loads never overlap.
* **system_operations**: each run of an operation has an outcome and the report
  that goes with it; no operation runs behind a prerequisite that failed, raised
  or was skipped everywhere; an operation for failures does run then; the flow ends;
  and each behaviour is one of `SerialFlow`, so nothing changes once it has been decided on.
* **host_executor**: the lock of an executor is enough to keep two threads off
  one connection although a retry replaces it; a connection made while the
  process times out is neither used nor left open; a host given up stays given
  up; a call ends unless a host owes an exit status.
* **file_tracker**: a snapshot is replaced only when the change it hides is in
  `diff.json`; a change is reported once, and once more for each crash, failed lock,
  removed lock or writer that raised with the text on disk; behind the lock file nothing is written; and, under fairness, no
  difference stays unnoticed but behind the lock, behind a broken `diff.json` or
  when a run has more than it may write. What becomes of a broken `diff.json` and of too many
  changes is therefore in the model and outside that property.
* **installer**: whatever failed before or on the way, an installation that
  reports success left the whole package; a rollback that does brought back what the
  last complete back-up was made of; the image is that of the package; nothing is left of
  an old key; the last whole copy of a package is given up only in the ways
  `LastCopyKept` lists, of which half a package in the back-up is the one of
  finding 5; on CBIS a newer version is removed only when the user agreed. Some
  cases are in the model and excepted by these properties, because nothing holds
  there: a back-up whose unchecked copy was cut short (`slipped`, in `RollbackRestores` and
  `LastCopyKept`: the next command deletes the package whose copy it was), the retry of a removal of
  the old key that finds its first file gone (`OldKeyTraceless`), a test that wrongly finds
  nothing (`slipped` again), and managers of NCS (`NewerKept`).
* **log_collector**: whatever an earlier collection left under the same names on any
  host, the archive that is announced has old logs in two cases only, which the code
  lets happen and section 6 describes: of a host whose `create_tar_file` did not pass while that of
  a single-type host in front of it did, and of a host with old csv files in
  `working_dir/sar`, for telemetry. And it misses no host whose tar was made, also when a gzip did its
  work and was reported as timed out; a copying that stopped half-way is not announced. That `CleanHosts` deletes archives that were not copied is in the
  model; nothing is announced then, and `CollectedIsDelivered` does not speak of it.

### Bounds, and why they are enough

Every bound is a constant named in its module.

* *Two threads* are what each race of the first two modules takes: one between
  two steps and one that meets what it left. A third adds waiters in the same
  places. Two operations and two flows (clusters) are needed, and enough, for
  "an earlier operation" and "an earlier flow" to exist.
* *One source host* for the cache: entries of different hosts share nothing but
  the lock, which the second request already competes for. The theorems of
  section 5 cover any number.
* *Three hosts and five operations*: one single-type host and two others, so
  that it comes before, between and after them in the orders; operations in the
  shape of the log collection (three in a chain, the last on one host for all), then one
  that needs all hosts to pass and one for failures.
* *Two commands* in all for the executors: one in progress and one that waits
  behind it or runs on the other host. Rounds and attempts have the numbers of
  the code.
* *Two edits, two faults* for the tracker: a change and a second one at the
  worst moment, a fault and another in the recovery from it. One change as limit
  makes two differences too much for one run, and rotates `diff.json` at the third
  report, which a change reported again after a crash brings about.

* *Three runs, two versions, two faults* for the installer: one that installs, one that
  meets a fault, one that starts from what is left; two faults let the
  recovery fail as well. Two sites are at the ends of what a manager may have.
* *Two collections, one fault*: one that leaves files behind and one that meets
  them. The fault is anywhere in the two; a kill is none and may come at any step.
  The manager is one of the two hosts that are collected, the final host a third.
  Of the orders of the hosts those with the final host last are visited
  (`HypIsLast`): its one operation runs nowhere else, so nothing is looked up or put in
  order among several hosts of which it is one, and the other orders give the same states.

TLC does not look for deadlocks (`CHECK_DEADLOCK FALSE`): flows, clusters, the
process and the bounded edits all come to an end, and a locked tracker waits for
a person. That nothing blocks before is what the liveness properties say. Only
`file_tracker_no_diff` uses symmetry, of the two contents: the module and the
invariant compare contents with each other and name none. The runs
with a liveness property use none.

## 4. Fairness

| module | assumed | because |
|---|---|---|
| `DataCollectorCache` | weak fairness of the main thread, of each worker and each validator | threads run to their end, commands have time-outs, and a `with` lock that is free is given to somebody; `Acquire` is enabled only while the lock is free, so a worker may be passed over, but each key of a call is loaded once, and the others are finitely many |
| `LazyDataLoader` | weak fairness of each thread | the same; the loop over clusters is free to stop |
| `SystemOperationFlow` | weak fairness of the runner and of each host's thread | operations run commands with time-outs |
| `HostExecutor` | weak fairness of the main thread, of each connection attempt and of what a thread does by itself | `connect` and the reading of output have time-outs; *no* fairness for the remote host, for drops or for the time-out of the process |
| `FileTracker` | weak fairness of the start of a run, of the runner and of each host | the run is a daily cron job; *no* fairness for crashes, failures, edits or for whoever removes the lock file |

`Installer` and `LogCollector` state no fairness: they have safety properties
only. That the flow below `LogCollector` ends is `FlowEnds` of `SystemOperationFlow`.

What a validation chooses to collect, and how often, is never forced: fairness
is on the validator's step as a whole, which may be to finish.

`CallEnds` excepts hosts that owe an exit status, because `recv_exit_status`
waits without a time-out (`HostExecutor.py:225`) and holds the lock of the
executor; that hazard itself is thus in the model and outside the property. Without that exception the property fails, and so would any statement that a
flow ends whatever its hosts do.

## 5. The proofs

TLAPS checks the theorems below for every value of the constants that meets the
assumption named in the module. The assumptions say that bounds are natural
numbers, that the values for "nobody" or "nothing" are not among the real ones, and:
for `LazyDataLoader` that functions and classes have different names (otherwise
`Recheck` could find a class); for `SystemOperationFlow` that an operation runs on some
host and that the names of a flow differ; for `FileTracker` that an item has a
host and a kind; for `Installer` that versions are pairs of numbers and that only
the undercloud of CBIS has the profiler and a recreated key; for `LogCollector`
that some host is collected.

| module | theorems | inductive invariant |
|---|---|---|
| `DataCollectorCacheProofs` | `TypeCorrect` `LoadedOnceHolds` `OneAnswerHolds` `WholeAnswerHolds` `FreshAnswerHolds`; refinement `CollectOnceHolds`; `NeverStuckHolds`; `DiesAtTheFirstLookHolds` `NoWorkerDiesHolds` | `CacheInv`, `AssertInv` |
| `LazyDataLoaderProofs` | `TypeCorrect` `LoadedInOneOperationHolds` `SettledAnswerHolds` `FreshAnswerHolds` `OneLoadAtATimeHolds`; refinement `SharedDataHolds`; `NeverStuckHolds`; `LoadedOnceHolds` | `LazyInv`, `HolderInv`, `OwnInv` |
| `SystemOperationFlowProofs` | `TypeCorrect` `EveryRunReportedHolds` `OutcomesStandHolds` `PrerequisitePassedHolds` `RunsIfFailedHolds`; refinement `OneAfterTheOtherHolds`; `NeverStuckHolds` `AdvancesHolds`; `DependsOnHostInFrontHolds` `DependsOnThisHostHolds` | `FlowInv`, `RanWhereDecided` |
| `HostExecutorProofs` | `TypeCorrect` `ClientNotSharedHolds` `NoLateCommandHolds` `ClosedAtExitHolds` `UnreachableStaysHolds`; `NoCallHangsHolds` | `ClientInv`, `TimeoutInv`, `ReachInv`, `WaitInv` |
| `FileTrackerProofs`, `FileTrackerReportProofs` | `TypeCorrect` `ReportedBeforeReplacedHolds` `NoReportWhileLockedHolds` `ReportedOnceHolds`; `NoDiffNoChangesHolds` `NoDiffOnlyByTheWriterHolds` | `TrackerInv`, `ReportInv`, `WhyNoDiff` |
| `InstallerProofs` | `TypeCorrect` and one for each property of the run `installer`; `SparedBackUpIsWholeHolds` `CopyKeptUntroubledHolds` | `Base` with `WholeInv`, `RollInv`, `ImageInv`, `KeyInv`, `CopyInv`, `NewerInv`, `IntactInv` |
| `LogCollectorProofs` | `TypeCorrect` `RunsFlow` `OldLogsTracedHolds` `CollectedIsDeliveredHolds` | `Control`, `DataInv` |

Three kinds of theorem stand next to the invariants and action properties of the runs.

*Refinements.* Each of the three abstract specifications is implemented by its module for any
number of threads, hosts, keys and operations.

*The safety half of the liveness properties.* Fairness is out of the prover's reach, but
that nobody waits for somebody who waits is not: `NeverStuckHolds` (of the cache, the loader and the runner)
and `NoCallHangsHolds` (of the executors) say that in every reachable state somebody can go
on, by the conditions of the actions, which are written out because ENABLED
is out of reach too; `AdvancesHolds` says that each step of a flow takes the runner or a
thread on and nobody back. They stand behind `FlowsEnd`, `CallsReturn`, `FlowEnds`
and `CallEnds`, and hold for instances that TLC cannot visit.

*What it takes to violate* the five properties that the code does not keep (section 6). A
counterexample shows one way; these theorems say that there is no other:

| property | holds if | otherwise |
|---|---|---|
| `NoWorkerDies` | only one validation asks for data | the thread that dies is at its unlocked first look, while one of another validation is between the assignments (`DiesAtTheFirstLookHolds`) |
| `LoadedOnce` of the loader | only one thread asks | the loads are in one operation (`LoadedInOneOperationHolds`) |
| `DependsOnThisHost` | no role has a single host | it still holds of the hosts in front of the single-type ones (`DependsOnHostInFrontHolds`) |
| `NoDiffNoChanges` | nothing failed and the changes are within the limit | the step that breaks it is a write that raised or a writer that refused (`NoDiffOnlyByTheWriterHolds`) |
| `SparedBackUpIsWhole` | no installation, uninstallation or rollback failed or was killed before | until then no installation gives up the last whole copy either (`CopyKeptUntroubledHolds`) |

The arguments:

* **CacheInv.** That a key is loaded once is not inductive: it says nothing of
  the worker that is about to load. The invariant adds that exactly the holder
  of the lock is between the second check and the last assignment (`LockInv`),
  that a worker about to collect sees an empty entry (`PhaseInv`), and that an
  entry which is not empty was loaded once and is whole, or its loader is still
  at it (`KeyInv`). A second loader would have to hold the lock too. A worker that
  passed the assertion has seen the last field, hence a whole entry, and a whole entry
  does not change; so all answers for a key are the entry itself (`AnswerInv`).
  Workers exist only while their validator joins them (`JoinInv`), so a flow cannot
  end under them and the cache is not emptied between a check and the read.
* **The refinement** (`CollectOnceHolds`). Under `CacheInv` each step of a worker is
  a step of `ManyToOneCollect` or changes nothing that it sees: the first
  assignment is `Load`, because the entry was empty (`PhaseInv`); the other two
  leave the value; the read is `Reply`, because the entry is whole by then.
* **No deadlock, and who dies, in the cache.** By `LockInv` the holder of the lock is at work between two
  checks and never at the lock, so a validator that joins always finds a worker that can go on.
  By `AssertInv` a worker that has come to the assertion finds a whole entry: it filled the entry
  or saw it whole, and a whole entry stays whole. So a worker can die only at its first,
  unlocked look, when the entry is begun and not whole. The loader of that entry then still holds the
  lock (`KeyInv`) and loads for another validator, because one validator has one worker per
  host and an entry is of one host.
* **LazyInv.** The repeated check never succeeds, so once-only loading is not
  available. What is: a thread between the first check and the load
  found the item missing *in this operation*, so no earlier operation
  loaded it (`MissInv`); an item is in the database exactly if some operation loaded it
  (`DbInv`). Hence all loads of an item fall in one operation, and an answer given in a
  later one is what the database holds for good (`AnswerInv`).
* **SharedData.** A thread has an exception of its own only while it is about to release
  the lock (`OwnInv`), and only a holder of the lock is there, so `raised` has one member at most. A load of
  the loader is one of `SharedLazyData` by `MissInv`: no other operation loaded the item.
  The release of a thread whose load raised is `Raise`; a read is `Reply`.
* **FlowInv.** How far a thread is determines what its outcome and report may be
  (`ThreadInv`), and only threads of the operation the runner is at may be
  at work (`PhaseInv`). So an outcome of an earlier operation has no thread left
  that could change it, in parallel, in serial and in debug mode alike. Where
  an operation ran is where the runner decided to run it (`RanWhereDecided`), from outcomes that
  are the same now. `RunsIfFailedHolds` assumes that only operations with
  multiple hosts ask for *all* of them to pass, which is what `operations.py:676`
  makes the default.
* **SerialFlow.** Only the end of an operation is seen: then `RanWhereDecided` and
  `ThreadInv` make what it left an ending of the abstract operation on exactly the hosts selected,
  and the selection depends on operations that are over. Every other step
  changes only what is not yet seen (`OutcomesStandHolds`, step by step).
  In serial mode the first host that is not over has its turn, so somebody always can go on.
* **ClientInv, TimeoutInv.** The thread that uses a connection holds its lock
  (`LockInv`); while the flows run, a connection is being made only for the thread that
  holds the lock and waits for it (`ConnectInv`). For the time-out: an open,
  settled connection is registered, and its exit function is still to run if the process is
  timing out (`ExitInv`); one made late is still being looked at by
  `connect_ssh_client`, or its host is no longer connected; and the
  host of a running command is connected (`RunInv`). The order of
  the code (register, *then* look at the flag; set the flag, *then* run the exit functions)
  is what makes this inductive. `ReachInv` adds that, while the flows run, only a host that was
  connected is connected again.
* **WaitInv.** The lock of an executor that is not free is held by a thread that uses the
  connection (`HolderInv`), whose host has been tried (`TriedInv`), and a client that is new has its
  connection in the making (`NewInv`). So a thread that waits for the lock waits for one
  that can go on, for a connection, whose attempt has a time-out, or for an exit status.
* **TrackerInv.** A change collected in memory is about the snapshot it was
  compared with until its update (`StoreInv`, `PendingInv`), an item has one change
  per run, and while snapshots are updated `diff.json` holds what was collected
  (`WriteInv`). The run that sets the lock is past its write, and later
  ones do not start (`LockInv`).
* **ReportInv** counts. A change whose snapshot may be compared again has one report
  less than it may have, unless the tracker is locked or an update of that snapshot is due;
  what is about to be written counts with the files it is written to (`CountInv`).
  A slip raises the bound, a new snapshot starts at none, because nothing is
  ever written about a snapshot that is yet to be taken (`OldInv`), and a
  rotation moves reports and may drop some (`RotatedReports`, by an injection).
* **WhyNoDiff.** A run that comes to its end by the update has written `diff.json` (`WriteInv`), one that
  is killed takes what it found with it, and one without changes has nothing to write;
  what is left is a fault, or more changes than the limit.
* **The installer's Base** has the types, and that the actions left are in the order of a list
  (`Ordered`), so that an installation is the first action of its
  run and nothing after it touches the package. Each property then has its own conjunct,
  which says for every command what has been done by then: `WholeInv`
  for the copy, `RollInv` for what the back-up has, and so on. A step is
  taken apart by how it ends, not by what it is (`Shape`, `Goes`, `Ends`): one command with the effect of
  the table `Effects`, a cut-short one, or none.
* **IntactInv.** What a command moves is left half-way only when it is cut short; then the action
  fails, the run is killed in it, or it is one that nobody looks at (`HalfwayIsTrouble`). Until
  that happens package and back-up are each whole or not there, and by `CopyInv` a back-up that
  has the version of a whole package is there.
* **Control, DataInv** of the collection. `RunsFlow` says that it is a behaviour of
  `SystemOperationFlow` that `NewRun` restarts: the composition adds files, and
  nothing to what the runner may do. `Control` draws from it the chain of
  prerequisites: what is being packed was copied in this run (`Chain`), and a host on which
  logs are appended or zipped created its tar, or a single-type host before it in
  the order did (`Front`, by `ChosenInFront`: the first instance on this host or a
  single-type one decides). `DataInv` follows the archives along that chain: on the
  hosts (`HostInv`), as copies on the manager (`CopyInv`), as the archive of all hosts (`PackInv`)
  and in the final folder (`FinalInv`). Each says where old logs may come from, and
  what makes that inductive is that who created its tar, and what
  `working_dir/sar` has, does not change any more by then (`Steady`).

Only model-checked: liveness (`FlowsEnd`, `CallsReturn`, `FlowEnds`, `CallEnds`,
`DifferencesFollowed`), as fairness is out of the prover's reach; of all but the last the
safety half is proved. Every invariant and every action property that a passing run checks,
and the three refinements, are proved.

## 6. What the code does otherwise

Five runs end in a counterexample that stands for a behaviour of the code:

1. **`NoWorkerDies`** (`parallel_runner.py:239`). The check made without the lock
   asserts that an entry with data has all its fields, while the loader, which has the
   lock, is still adding them. The second thread ends with an
   `AssertionError` that nothing catches: its host is in neither the
   collected data nor the collector exceptions. It takes two validators and the
   moment between two assignments.
2. **`LoadedOnce`** (`lazy_global_data_loader.py:86`). The check repeated under the
   lock looks up a function name among class names, so threads that queued for the
   lock load again, although line 2 promises "one time loading". The second
   load may raise where the first succeeded, and replaces it.
3. **`DependsOnThisHost`** (`parallel_runner.py:29-34`). `operations.py:690` says
   that an operation whose prerequisite runs on all hosts depends on "this" host. The code
   takes the first instance on this host *or on a single-type host*, in the
   order of the executors, so the outcome on a controller may decide for another host.
4. **`NoDiffNoChanges`** (`flows/Chain_of_events/chain_of_events_validations.py:93`).
   "No changes found in File Tracker runs" is said when there is no `diff.json`;
   there is none either when the changes of the runs were more than the size
   limit, which drops them all, at this run and at every later one.
5. **`SparedBackUpIsWhole`** (`Installer/PackageInstaller.py:173`). "if back up of this version
   already exist - no need to re-backup" (`:145`): what exists is judged by its
   version file. A copy that fails half-way leaves a part of the package with that
   file; the next installation backs the part up, and the one after it spares the
   back-up and deletes the whole package. A rollback then restores the part.

Two more ways in which old data is delivered, which contradict no statement of the repository
but which a user would not expect, are traced by `OldLogsTraced`:

* `parallel_runner.py:29-34` again. The collection is killed and leaves the tar of a compute
  node. In the next one `create_tar_file` fails on that node and passes on the
  undercloud, whose outcome decides for the node as well if it comes first. The logs
  are appended to the old tar (and the operation raises `KeyError`, which again
  decides nothing), the tar is zipped, copied, packed and announced.
* `sar_collector.py:95` packs the directory `working_dir/sar`, which `mkdir -p` makes and
  nothing empties: a csv file of a kind that is not collected this time, such as
  `cpu_used_by_vm`, is that of an earlier run.

`NewerKept` excepts managers of NCS. `Installer/Validations.py:82` compares the deployment type with
a boolean there, so no version is found and nobody is asked (`IceInstaller.py:122`).

## 7. What is not modelled

* **Parsing, formatting and the checks themselves.** The validation flows run
  commands, take their output apart and compare; they keep no state beyond the
  caches above. Likewise the inventory and role selection, which end before any
  thread starts, printing, html, the generator of log scenarios.
* **Local execution with a timer** (`popen_utils.py`). An executor sees an
  answer or a time-out. That a command which ends as its timer fires is reported as
  timed out, although it did its work, is a hazard outside the models.
* **Signals.** Under Python 2 a main thread blocked in `join` sees no signal; the
  model lets the handler run at any moment, or never.
* **Replaced connections.** A retry puts a new client in the place of one whose
  transport may be open. The model keeps the current one, and `ClosedAtExit` is about it.
* **`top_10_large_streams`**, a dictionary of the class changed by all threads
  without a lock.
* **File tracker**: masking of secrets, the encrypted log and its key, the
  exemption of permissions after an upgrade; two runs at once; a rotation that
  is killed half-way.
* **Installer**: the plugins, the installation on all managers by an ansible playbook,
  images pulled from a registry, `unload_docker` (in no list of actions), what it starts
  in the background, the check of arguments, a remote command that outlives its time-out.
* **Log collection**: which files are of interest and how they are cut to the
  period; which `sadf` commands there are, beyond that a csv file is new or was there before.
* **Composition.** The two locks of the caches are modelled apart. A loading
  function runs under the loader's lock and may take that of the
  collectors; no function of the repository takes them the other way round.
* **Main programs.** The clean-up between clusters is in `LazyDataLoader`; the
  results kept from flow to flow in `PreviousResults.py`, never cleared, are not.
* **Coverage.** Of the 90,000 lines of Python that are not tests 41,000 are vendored libraries
  (`psutil` in three copies, `ipaddress`, `dateutil`, `redis`), and some 31,000
  are validation flows: straight-line code over the outputs of commands, without
  state that outlives a call or an order that could go wrong. The models stand for the rest, where there is some.
* **Code not under `src/`**: paramiko, the hosts, the person at the keyboard, the
  files that are tracked. They are actions marked external.

## 8. The plan

Done, in this order: the cache of the data collectors and its abstract
specification; the lazy loader; the flows of system operations; the executors
and their connections; the file tracker; the installer; the collection of logs
on top of the flows. Each has its invariants and action properties proved; the cache, the loader and the
flows have their refinements, and each property the code breaks has the condition under which it holds.

Left, in the order of what it would add:

1. **The caches together**: loader and collectors with both locks; no circular wait
   under the order the code uses.
2. **Clusters**: the main loop with `PreviousResults` and the class
   attributes that outlive a cluster.
3. **Two runs of the tracker at once**, and a rotation that is killed half-way.

## 9. Running the checks

    tlasany DataCollectorCache.tla
    tlc -workers 2 -config MCDataCollectorCache.cfg MCDataCollectorCache
    tlapm DataCollectorCacheProofs.tla

and likewise for the other modules; the runs take seconds to three minutes each, the
proofs of the installer and of the collection some ten minutes.
