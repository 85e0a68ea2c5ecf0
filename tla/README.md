# A verification project for the Synecdoche core client

Synecdoche is a volunteer-computing client, a fork of the BOINC core client.
It runs on a volunteer's host, asks project servers for work, downloads input
files, runs science applications, uploads what they produce, and reports it.
The code is C++ under `src/client`, with a library shared with the applications
under `src/lib`; the manager (`src/clientgui`), screen saver and installers
reach the client only through GUI RPCs.

This directory holds TLA+ modules of the client's core, the TLC configurations
that check them on small instances, and TLAPS proofs that hold for every
instance.  `PROJECT.json` lists, for every definition, the source lines it
models, and for every property a mutation of the code that breaks it.

## 1. Inventory

### 1.1 One thread, many processes

The client is a single thread.  `CLIENT_STATE::poll_slow_events`
(`client/client_state.C`) is called again and again, and calls in a fixed order

    active_tasks.poll, garbage_collect, update_results, gui_http.poll,
    gui_rpcs.poll, acct_mgr_info.poll, file_xfers->poll,
    pers_file_xfers->poll, handle_pers_file_xfers,
    handle_finished_apps, possibly_schedule_cpus, enforce_schedule,
    compute_work_requests, scheduler_rpc_poll,
    write_state_file_if_needed

Between two passes `do_io_or_sleep` gives libcurl and GUI RPC connections their
turn.  The sources of nondeterminism are therefore: the outcome and the moment
of HTTP operations; the servers; the application processes, which run in
parallel with the client and exchange messages with it through shared memory;
the user's commands; the clock; and crashes, after which only
`client_state.xml` and the files on disk are left.  There are no locks and no
data races inside the client, and no message is sent from one client to
another.  What is hard is the state that outlives a pass: pointers between
objects, deferrals, counters, a schedule made earlier, messages still in a
queue, processes that have not yet exited, and what the last written state file
holds.

### 1.2 Components

| component (source in `client/`) | state | operations | hard behaviour | module |
|---|---|---|---|---|
| persistent file transfers (`pers_file_xfer.C`, `file_xfer.C`, `cs_files.C`) | `FILE_INFO` status, URL, uploaded; `PERS_FILE_XFER` retries and times; `FILE_XFER` and its HTTP operation; the two sets | create, start, poll, transient and permanent failure, backoff, giving up, suspend, abort, verification, deletion, recovery | pointers among three objects; crash between completion and save; lost answers; limits; eventual end | `FileXfer` |
| scheduler RPCs (`scheduler_op.C`, parts of `cs_scheduler.C`, `work_fetch.C`) | `SCHEDULER_OP` state, project, URL index; per project failure counts, pending flags, `min_rpc_time`, `next_rpc_time`, `rpc_seqno` | pick the next operation, master fetch, RPC, next URL, backoff, reply, abort | one operation for all projects; deferrals; sequence numbers across crashes; starvation | `SchedulerOp` |
| tasks and processes (`app.C`, `app_control.C`, `app_start.C`), results (`cs_apps.C`, `client_types.C`), garbage collection (`client_state.C`) | `RESULT` state and flags; `ACTIVE_TASK` state, message queue, counters | start, suspend, resume, quit, abort, kill, wait for exit, app_finished, report, acknowledge | processes that exit, hang or read messages at any moment; timeouts | `ActiveTasks`, implementing `ResultLife` |
| CPU schedule (`cpu_sched.C`), suspension (`cs_prefs.C`), benchmarks (`cs_benchmark.C`) | `ordered_scheduled_results`, scheduler states, the two request flags, memory sizes, suspend reason, benchmark state | make the list, enforce it, preempt, resume, start; suspend and resume all; run benchmarks | a list that is stale when used; limits that move; two authorities over the same tasks | `CpuSched` |
| state file (`cs_statefile.C`) | `client_state.xml`, the next and the previous file, the dirty flag | write, rename, read, choose | failing calls; crash between two renames | `StateFile`, implementing `StateStore` |
| slots, task state files, trickles (`app.C`, `app_control.C`, `cs_trickle.C`), start and end of the client (`client_state.C`) | slot directories, checkpoint times, trickle files, what the state file has of tasks and results | take a slot, clean it out, checkpoint, move, send and delete trickles, init, quit | three kinds of files written at different moments; crash between any two; lost answers | `Recovery`, on `StateStore` |
| GUI HTTP (`gui_http.C`), account set-up (`acct_setup.C`), account manager (`acct_mgr.C`), GUI RPC connections (`gui_rpc_server.C`), the wizards of the manager (`clientgui/*Page.cpp`) | an HTTP channel per connection, `error_num` and reply of each operation, shared reply files, `acct_mgr_info`, the state of each wizard | send, poll, time out, retry, attach, detach, connect, disconnect | several managers at once; requests refused while one is on its way; replies to requests nobody waits for | `AccountSetup` |
| HTTP (`http_curl.C`), network status (`net_stats.C`) | `HTTP_OP` states | start, progress, completion | any outcome, any time | as outcomes in `FileXfer`, `SchedulerOp`, `AccountSetup` |
| GUI RPC commands (`gui_rpc_server_ops.C`) | | commands on projects, results, transfers, benchmarks | arrive between any two passes | as actions of the modules |
| round-robin simulation, time statistics, host information, log flags, file names, platforms, security checks, graphics messages, the rest of the manager | | | floating point, I/O, user interface | §8 |

The components interact through shared objects of the one thread:
`SchedulerOp`'s replies create the results and files that `FileXfer` downloads;
`ActiveTasks` starts a result when its files are present and, when it has
finished, gives its output files to `FileXfer`; when they are uploaded the
result is ready to be reported, which `SchedulerOp` does.  `CpuSched` decides
when `ActiveTasks` starts, stops and resumes.  `Recovery` composes results,
tasks, slots, trickles and RPCs over the state file, of which it knows only the
promise of `StateStore`; `StateFile` is shown to keep that promise.  In each
module the others appear as environment: files arrive or fail in `ActiveTasks`
(which assumes what `UploadSettles` shows), an application finishes in
`FileXfer`, and a reply is received in `SchedulerOp`.

### 1.3 What makes each component correct

*File transfers.* The objects agree; the limits hold; a file counted as present
has been verified; an error ends only when the project names the file again; an
output file stays on its way until it is stored or has failed; and every
transfer ends.

*Scheduler RPCs.* The operation, its project and its HTTP operation agree, also
when the project is reset or detached; a request number is never repeated
after the server has seen a higher one; a project that failed is left alone;
no project starves; what the server asked for is done.

*Tasks.* What a process has been told agrees with what the client believes of
it; a task never has two processes; a process that was told to go is gone some
time; every result that has ended is reported.

*CPU schedule.* The executing applications keep within the CPUs and the memory
the preferences allow; no runnable result is forgotten while a CPU is idle;
what the scheduler preempted stays preempted when computing is resumed, and
nothing runs while it is suspended; benchmarks measure an idle host; a result
that is over is not run again.

*State file.* Whatever fails and whenever the client stops, the next start
reads the last state that was reported as written, or a newer one.

*Recovery.* What the server was told is finished is not computed again; a task
finds its slot, its checkpoint and its checkpoint time again; no trickle is
deleted that the server does not have.

*Account set-up.* What is reported to be in progress is being worked on; a reply
reaches the operation that waits for it; a managed project has a manager.

The hazards, each at its line and with the properties that would catch it, are
in `PROJECT.json`.

## 2. Modules

| module | lines it stands for | contents |
|---|---|---|
| `Backoff` | `calculate_exponential_backoff` | the interval the randomised backoff falls in; shared by the next two |
| `FileXfer` | file transfers | the state machine, its properties, and the mutants |
| `MCFileXfer` | | instances: three downloads and an upload of two projects |
| `FileXferProofs` | | theorems on `FileXfer` |
| `SchedulerOp` | scheduler RPCs and master fetches | the state machine, its properties, and the mutants |
| `MCSchedulerOp` | | instances with one or two projects |
| `SchedulerOpProofs` | | theorems on `SchedulerOp` |
| `ActiveTasks` | results, tasks, processes, schedule | the state machine, its properties, and the mutants |
| `MCActiveTasks` | | instances with one result |
| `ActiveTasksProofs` | | theorems on `ActiveTasks` |
| `ResultLife` | what the server relies on in the client: `RESULT`, `reset_project` | abstract specification |
| `CpuSched` | CPU scheduler, suspension, benchmarks | the state machine, its properties, and the mutants |
| `MCCpuSched` | | instances with two results |
| `LoopLemmas` | | lemmas on loops (folds over sequences) and on sums over finite sets |
| `CpuSchedProofs` | | theorems on `CpuSched` |
| `StateStore` | what the client relies on in `write_state_file` and `parse_state_file` | abstract specification |
| `StateFile` | `write_state_file`, `parse_state_file` | the system calls one by one; `StateKept` is the refinement |
| `MCStateFile` | | an instance with three states and two attempts |
| `StateFileProofs` | | the refinement, as a theorem |
| `Recovery` | tasks, slots, trickles and reports across stops and starts | extends `StateStore` |
| `MCRecovery` | | two results and two slots |
| `RecoveryProofs` | | theorems on `Recovery` |
| `AccountSetup` | GUI HTTP, account set-up, account manager, wizards | the state machine, its properties, and the mutants |
| `MCAccountSetup` | | two managers, one account manager |
| `AccountSetupProofs` | | theorems on `AccountSetup` |

A definition that carries the name of another one with a suffix (as in
`kill_task_restart_only`) is a mutant: a plausible bug in the code, used to
show that a property would notice it.  Mutants are not part of a specification.

### 2.1 `FileXfer`

A variable per field: `status`, `uploaded`, `cur` (the current URL), `pers` and
`xfer` (the two objects a file may own), `active` (`FILE_XFER_SET`), `disk` and
`srv` (how much of the file is here and at the server, and whether it is
right), `saved` (the state file) and `dirty`.  Each pass runs
`FileXferPoll` for every finished HTTP operation, `PersPoll` for every
`PERS_FILE_XFER`, `handle_pers_file_xfers` and `WriteState`; `phase` and `todo`
say where the pass is, so that a crash can come between any two of these steps.
`PersPoll` has one action for each way through `PERS_FILE_XFER::poll` and
`create_xfer`: nothing to do, the file is there already, started, could not be
started, success, permanent failure, transient failure.  Between passes come
HTTP progress and completion, GUI commands, suspension of the network, and time.
`ClearErrors` is the part of `handle_scheduler_reply` that takes back the error
of a file that the reply names again (`APP_VERSION::clear_errors`,
`WORKUNIT::clear_errors`); it comes between passes, or after
`handle_pers_file_xfers` in one.

Data abstraction: a file on disk is absent, empty, incomplete, right, or complete
with wrong contents; an HTTP operation is known by its answer; times are kept
relative to now, so that behaviours of any length have finitely many states.
`verify_file` is modelled with its exceptions, which are constants: images that
`dont_verify_images` lets pass (`Images`), files whose size is not checked
(`Unsized`), files without the signature they need (`NoSignature`), and files
with a signature (`Signed`), with an MD5 (`Hashed`), or with neither; and with its
quirk that a bad signature counts only when `show_errors` is set
(`cs_files.C:151`).  What a file called present then may hold is `Verified`.  The
proofs cover every choice of these sets; the runs have one signed file.

Not modelled: files that are uploaded but were not generated by the client; the
backoff of a whole project, which the code declares and never uses; how many
bytes a truncation removes; the reset of request times when the clock is found
to have gone backwards (`RetryTransfer` has the same effect); the loss of output
files while the client is down.

### 2.2 `SchedulerOp`

`proj` holds the fields of each `PROJECT` that `SCHEDULER_OP` reads or writes;
`opState`, `cur`, `urlIndex` and `http` are the operation; `reqSeq` is the number
in the request file and `srvSeq` the last number the server has seen.  The
actions of `Poll` are the ways through `scheduler_rpc_poll` and
`SCHEDULER_OP::poll`: start a master fetch or an RPC, or fail to; a fetched
master file, an answer, a project that is down, a failure, the next URL, no
more URLs.  A reply may bring a new host record, also to a project that has one
(`NewHost`): the number of requests then starts again, at the server too.  `User` holds the GUI commands that concern projects, and the
dropping of all deferrals when the network comes back; `UpdateProject` is also
what an account manager's request for an RPC does (`acct_mgr.C:430-433`).  `Crash` leaves the
account files (`attached`), the state file and the servers.

A tick is a minute, and `PollsPerTick` bounds the calls of `scheduler_rpc_poll`
that come before it passes: without it a polling loop might run for ever
without time, which no clock allows.  Which project of several is taken first
and how much work is asked for are free choices.  `StartOther` stands for the
three other reasons for an RPC: trickles, overdue results, work.

### 2.3 `ActiveTasks`

`job[r]` is a `RESULT` with its `ACTIVE_TASK`, its process, and the state of its
input and output files.  The functions of the code are operators from a job to
a job (`abort_task`, `handle_exited_app`, `preempt`, `kill_task`,
`report_result_error`, ...), and an action is a function of `poll_slow_events`
applied to all of them, in the order of `phase`.  The processes take steps of
their own: `ReadMsg` (at any time, or never) and `ProcExit` (with a finish file,
without one, with an error, by a signal).  Processes step only in the phases
before which the client looks at them (`Observed`); a step elsewhere commutes
with the functions in between, which read neither process nor channel.

Free choices: which results the scheduler prefers, when a checkpoint is
reached, when a limit is exceeded, when a timeout has passed, why computing is
suspended.  `EXITED` stands also for `PROCESS_WAS_SIGNALED` and
`PROCESS_EXIT_UNKNOWN`, which are handled alike.  The file transfers are
`FileXfers`, an environment step.

Not modelled: restart of the client with tasks, exit of the client, trickles,
graphics messages, heartbeats, intermediate uploads, non-CPU-intensive and file
transfer applications, process ids, slot directories, memory and CPU accounting
(restarts, exit, trickles and slots are in `Recovery`, memory and
non-CPU-intensive applications in `CpuSched`).
Suspending a project is suspending each of its results.  When an
`ACTIVE_TASK` is deleted the client no longer knows its process; the model
drops the process with it, which is why `AbortedHasExited` is stated about the
task and before the deletion.

### 2.4 `CpuSched`

`job[r]` is a `RESULT` with its `ACTIVE_TASK` as the scheduler sees them;
`plan` is `ordered_scheduled_results`, `mustSchedule` and `mustEnforce` the two
requests, `suspended` and `bench` the state of `poll_slow_events` and of the
benchmarks.  A pass is `BeginPass` (benchmarks, suspension), `Poll`, `CleanUp`
(garbage collection, `update_results`, `handle_finished_apps`), `ScheduleCpus`
or `KeepSchedule`, `EnforceSchedule` or `KeepTasks`; in a pass that comes less
than a second after the last, `Poll` and `CleanUp` return at once
(`ShortPass`).  `Decided` is `enforce_schedule` up to its last loop as a fold
over the list: a record of the tasks that shall run next, the running tasks,
CPUs in use, memory left and deadlines missed goes through the tasks beyond
`ncpus`, the list, and the tasks that are left.  `EnforceDeleted` is the use of
a deleted result, after which anything may happen.  `PartCpu` are the results
whose applications use less than one CPU, which `suspend_all` spares together
with non-CPU-intensive ones (`Unthrottled`).  Commands are not bounded.

Free choices: which tasks have used up their time slice and checkpointed, which
deadlines the round-robin simulation sees missed, the sizes of applications,
how a start ends, the preference to leave applications in memory.  In the count
of CPUs `avg_ncpus` is 1, suspending a project is suspending its results, swap space is a choice,
and the processes react at once to what they are told (`ActiveTasks` has the
messages).

### 2.5 `StateStore` and `StateFile`

`StateStore` is the promise: `acked` is the last state whose write was reported
as done, `maybe` the states whose write was begun since, and `StoreRead` gives
one of them.  `StateFile` has the three files, and one action for each system
call of `write_state_file`, which succeeds, fails and is tried again, or fails
for the last time: some failures are then ignored (`GoOn`), others end the
function (`Again`).  `FileCrash` may come between any two.  A file is absent,
incomplete, or holds a state, which is what `valid_state_file` tells apart.
What a system call has done stays done: the loss of data the operating system
had not yet written to the disk is outside the model (the code does not call
`fsync`).

### 2.6 `Recovery`

Three kinds of files with a rhythm of their own: the state file (`StateStore`;
written at the end of a pass if dirty), the slot directories (`slot`: whose
links they hold, what the application has saved, the task state file), and the
trickles (`trickle`: in the slot, in the project directory, there with `.sent`,
deleted).  `srvRes` and `srvTr` are what the server has.  The actions are the
functions of a pass that touch them, the write of the state file as begin and
end, `RpcSend` between passes, and `Stop`, `StopWriting`, `Quit`, `Start`,
`InitWrite` and `InitTasks` for the life of the client.  `StopWriting` is the end of
the client inside `write_task_state_file`: the file cannot be opened, which is an
exception nobody catches, or a crash finds it truncated and not yet written.
`Quit` takes no last messages (§6.3).  A request contains the trickle files that
can be read; `unread` remembers those it could not.  `known` is the newest
checkpoint of each result that a file of the client tells of.  That a reply
aborts results is in `ActiveTasks` and `CpuSched`.  Applications checkpoint, send trickles
and exit at the points between which the client does not look at them.  They
are assumed not to outlive the client: their library ends them when heartbeats
stop, and its lock file keeps a second copy out of the slot.

### 2.7 `AccountSetup`

`http` has a `GUI_HTTP` for every connection and one for the account manager;
`err` and `reply` are the operations of a connection, `file` the reply files,
which have one name for all connections.  `Poll` is one round of
`gui_http.poll` and `gui_rpcs.poll`: since `last_time` is a static variable of
the method, only the first channel that is not idle gets its turn.  A wizard
sends a request, polls once a second until the operation has ended or 60
seconds are over, goes on, and may be sent back by the user; each of these is a
step, and two managers take them in any order.  `handle_mgr_reply` has the ways
through `ACCT_MGR_OP::handle_reply`; an account manager may ask for anything.
If its reply cannot be opened, the code goes on with the `error_num`, the key and
the accounts it had (`Unopened`).  `SendRequest` may fail to write the request or
to start it, and so may every request of a wizard.
`client = "segv"` is an access through a bad pointer, which the code has in two
places (§6.3).  A second project, the account manager's preferences, the password
check, and restarts of the client are left out.

## 3. Runs

| run | instance | properties | result |
|---|---|---|---|
| `FileXferDownload` | one signed download, 2 URLs, 2 faults, fair | `TypeOK`, `XferConsistent`, `PresentIsVerified`, `TransferInv`, `FailureEndsByReply`, `DownloadSettles` | holds |
| `FileXferUpload` | one upload, 2 faults, fair | `UploadNotLost`, `UploadedOnlyWhenSettled`, `UploadSettles` | holds |
| `FileXferLimits` | three downloads of two projects, one per project, two in all | `LimitsRespected` | holds |
| `SchedulerOpOne` | one project, 2 URLs, 1 fault, 1 command | `TypeOK`, `OpConsistent`, `SeqnoNeverStale`, `SchedulerInv`, `FailureBacksOff` | holds |
| `SchedulerOpFair` | two projects, requested RPC times, fair | `PendingServed` | holds |
| `ActiveTasksOne` | one result, 1 forgiven exit, 1 command | `TypeOK`, `MessagesMatchState`, `OneProcess` | holds |
| `ActiveTasksLive` | one result, no forgiven exit, no command, fair | `PendingEnds`, `ResultSettles` | holds |
| `CpuSched` | two results, one of a part of a CPU, up to two CPUs | `TypeOK`, `NoneForgotten`, `SuspensionObeyed`, `BenchmarksAlone`, `LimitsKept` | holds |
| `CpuSchedStale` | two results, up to two CPUs | `FinishedNotRun` | violated, §6.1 |
| `StateFile` | three states, two attempts, any number of stops | `FileTypeOK`, `FileInv`, `StateKept` | holds |
| `Recovery` | two results, two slots, one trickle, two checkpoints, 3 events | `TypeOK`, `ReportedNeverRuns`, `SlotKept`, `CheckpointsKept`, `TricklesKept` | holds |
| `AccountSetup` | two managers, one account, one account manager, 2 attempts, fair | `TypeOK`, `InProgressIsServed`, `ManagedHasManager`, `RepliesDelivered` | holds |

What the passing runs show:

* *Transfers.* Over every order of success, failure, resumption, suspension,
  user command and crash, no `FILE_XFER` is left in the set without its owner
  or the other way round.  A download is called present only after
  `verify_file` with errors counted, even if the crash came between the last
  byte and the writing of the state file.  The error of a download is there
  until a scheduler reply clears it, and it is not cleared under a transfer that
  is at work.  Downloads end, with one exception: giving up while a second URL is
  left crashes the client (§6.2, 1), and the download begins again after the
  restart.  An output file is never lost by a
  crash, and `uploaded` is not set on the strength of a lost answer.
* *Scheduler.* The state file is always recent enough that a request made after
  a crash carries a number the server has not seen exceeded.  This rests on
  `dirty` being set by every finished operation, and on the state file being
  written in the same pass.  The failure count cannot jump over
  `master_fetch_period`, which `backoff` compares by `==`.  No project starves,
  unless another one insists (`Insists`): it has reached the cap of master fetch
  failures while `next_rpc_time` is set, so that its deferrals are dropped and it
  is found first at every poll (§6.2, 3).  `FailureBacksOff` begins anew after a
  restart or a command that drops the deferral.
* *Tasks.* The queue, which delays messages and cancels a suspend against a
  resume, never leaves a process in a state the client does not believe it to
  be in.  A task that may be started has no process any more.  The process of a
  task that was told to go ends, except after a second abort (§6.2, 4), which
  `PendingEnds` has to leave out.
* *CPU schedule.* Although CPUs, memory limit, sizes and the list change at
  different moments, an enforcement that was asked for ends within both limits.
  A CPU is left idle by mistake for at most a minute: a runnable result is
  running, in the list (which is enforced once a minute), or a new list has
  been asked for.  The exception, which the code has, is a task that did not
  fit in memory: nothing asks for a new list when the room it did not take is
  free.  While computing is suspended nothing executes but the applications that
  do not use a full CPU, which go on under every suspension if applications are
  left in memory (§6.3); the benchmarks give up rather than measure beside them.
  An application is its `task_state` here: the time a process takes to react to a
  suspension is not modelled.
* *State file.* The order delete previous, rename current, rename next never
  leaves the client without a complete file, even when each call is tried
  again and the last failure of a rename is ignored.  What makes it true is
  that a previous file is deleted only if there is a current one.
* *Recovery.* The request that reports a result leaves the host only after the
  state file says that the computation is over, because `poll_slow_events`
  ends with the write and the client exits if it fails: `SaveDoneAnyway`, a
  client that goes on, runs a reported result again.  The checkpoint time comes
  back from the task state file although checkpoints do not make the state
  file dirty, and never from a slot that has changed hands.  It is never older
  than the newest checkpoint a file of the client tells of; a task state file
  that was found truncated costs the checkpoints since the last write of the
  state file, not more.  A trickle is deleted only when the server has it, or
  when its file could not be read for the request (§6.3).
* *Account set-up.* A request that is refused because the channel is busy does
  not disturb the one that is under way; every reply is handed over although
  the channels share one time stamp, because an idle channel does not use it
  (attempts are bounded: a channel that is made busy again and again is not
  covered).

### 3.1 Bounds

All bounds are constants.  `MaxFaults`, `MaxUser` count crashes, suspensions and
commands in a behaviour: two faults let a crash follow a suspension or hit the
recovery of another crash.  `MaxRetry`, `RetryMax`, `GiveUp` are the smallest
values for which the backoff grows, saturates and is overtaken by giving up.
`MasterFetchPeriod`, `RetryCap`, `MasterFetchRetryCap` of 2 (1 for liveness) let
the counters rise, reach their limits and be reset.  `MaxSeqno` 2 distinguishes
older, equal and newer numbers.  Two URLs distinguish the first, the last and
the wrap-around.  Symmetry is used in `FileXferLimits`, between the two files of
one project, and in `Recovery`, between the slots.  Three runs use a view, which merges
states that differ only in what no later step or property reads:
`FileXferLimits` leaves out the state file, which nothing reads without crashes
(`WithoutStateFile`); `CpuSched` the old list once a new one has been asked for
(`NewListAwaited`); `Recovery` `trickle_up_pending` and what is known of results
that are over (`WhatMatters`; to check `TrickleUpPending`, leave the view out).  Transfers interact only through the limits,
which have the run of their own with three files; projects interact only
through the one operation, which has the run of its own with two projects.
Results interact only through the schedule, which is in `CpuSched`: two results
and two CPUs, or after a change of preferences one CPU, are enough for one to be preempted for
the other, for the list to be shorter than the runnable results, and for it to
be stale for one of them.  Memory sizes 0 and 1 with a limit of 0 while the user
is active and 1 while he is not make each result fit, or not, alone, together,
or after a change.  Both results are of one project and have one deadline; one
of them uses less than a CPU, so that suspensions treat them differently.
Commands are not bounded.  The instance with a non-CPU-intensive result in the
place of the second (`Results = {r1, n1}`) passes as well.
A heap of running tasks has at most two elements there, which the module
assumes.

`StateFile` needs three states for the previous, the current and the next to
differ, and two attempts for a first and a last.  It has no bound on writes or
stops.  In `Recovery` 3 events are what is needed for the arrival of two
results and a stop, for a result, a trickle and a stop, or for one result and two
stops; every stop comes between any two steps.  Two checkpoints let the state
file, the task state file and the slot differ.  Two slots let a slot be taken
over.  Slots are symmetric.  In `AccountSetup` two attempts are two wizards at a time, or one that
comes back.  With a second account manager, which may replace the first, the run
takes longer than is useful; the theorems cover any number.
`CHECK_DEADLOCK FALSE` is stated in `Recovery`, where a client that has used up
the bound on events is left stopped or running without work, and in
`AccountSetup`, where it is left with all connections closed or after the access
through a bad pointer.

### 3.2 Fairness

* `WF(PollPass)`, `WF(Poll)`, `WF(WriteState)`, `WF(Pass)`: the main loop never
  stops (`main.C` calls `poll_slow_events` for ever).
* `SF(Tick)`, `SF(HttpDone)`: between two passes the loop sleeps in `select`,
  so time goes on and libcurl, whose operations have time limits
  (`http_curl.C`), ends every operation.  Strong, because each is enabled only
  between passes.
* `SF(ResumeNetwork)`, `SF(BenchmarksDone)`, `WF(Restart)`: a suspension is not
  for ever, benchmarks end, and a client that died is started again.
* `ActiveTasks`: a pass that is not cut short happens again and again (a second
  passes between some two), a timeout that is waited for passes, and an upload
  ends (`UploadSettles`).  Nothing is assumed of applications: they may ignore
  every message.  In `ActiveTasksLive` tasks may be told to quit and abort by
  the client and the project; commands of the user are left out for size.
* `AccountSetup`: `WF(Poll)` and `WF(Tick)` for the main loop and the clock,
  `WF(HttpDone)` for libcurl's time limits, and `WF(WizTimeout)` for the 60
  seconds after which the loops of the wizard pages end.  Nothing is assumed of
  the users.
* Nothing is assumed about which answer a server gives: liveness comes from the
  code's giving up.

## 4. What is proved

TLAPS proves, for all values of the constants that satisfy the named
assumptions, the theorems below.  The assumptions are: limits are natural
numbers, minimal delays are at least one tick, lists of URLs are finite and not
empty (`FilesAssumption`, `LimitsAssumption`, `ProjectsAssumption`,
`PolicyAssumption`); an absent or an incomplete file is not a state, and there is
at least one attempt (`FileAssumption`); there are finitely many results and
slots, and sizes, deadlines and bounds are natural numbers (`TasksAssumption`,
`CpuSchedAssumption`, `RecoveryAssumption`); the store takes everything
`write_state` writes (`StoreAssumption`); accounts, account managers and
connections are not the special value `None` (`SetupAssumption`).

| module | theorem | statement |
|---|---|---|
| `FileXferProofs` | `TypeCorrect` | `Spec => []TypeOK` |
| | `TransferInvariant` | `Spec => []TransferInv` |
| | `XferConsistency` | `Spec => []XferConsistent` |
| | `PresentVerified` | `Spec => []PresentIsVerified` |
| | `FailureStays` | `Spec => FailureEndsByReply` |
| | `UploadsKept` | `Spec => []UploadNotLost` |
| | `UploadsSettled` | `Spec => UploadedOnlyWhenSettled` |
| | `TransferLimits` | `Spec => []LimitsRespected` |
| `SchedulerOpProofs` | `SchedulerInvariant` | `Spec => []SchedulerInv` |
| | `TypeCorrect` | `Spec => []TypeOK` |
| | `OpConsistency` | `Spec => []OpConsistent` |
| | `SeqnoFresh` | `Spec => []SeqnoNeverStale` |
| | `FailuresBackOff` | `Spec => FailureBacksOff` |
| `ActiveTasksProofs` | `TypeCorrect` | `Spec => []TypeOK` |
| | `MessagesInStep` | `Spec => []MessagesMatchState` |
| | `OneProcessEach` | `Spec => []OneProcess` |
| | `ResultsKept` | `Spec => ResultsAccountedFor`, that is, `ResultLife`'s specification |
| `CpuSchedProofs` | `TypeCorrect` | `Spec => []TypeOK` |
| | `SuspensionKept` | `Spec => []SuspensionObeyed` |
| | `BenchmarksUndisturbed` | `Spec => []BenchmarksAlone` |
| | `LimitsRespected` | `Spec => LimitsKept` |
| | `NoneIsForgotten` | `Spec => []NoneForgotten` |
| `StateFileProofs` | `FileTypeCorrect` | `FileSpec => []FileTypeOK` |
| | `FileInvariant` | `FileSpec => []FileInv` |
| | `FileImplementsStore` | `FileSpec => StateKept`, that is, `StateStore`'s specification |
| `RecoveryProofs` | `TypeCorrect` | `Spec => []TypeOK` |
| | `ReportedStaysOver` | `Spec => []ReportedNeverRuns` |
| | `SlotsKept` | `Spec => []SlotKept` |
| | `CheckpointTimes` | `Spec => []CheckpointsKept` |
| | `TricklesReceived` | `Spec => []TricklesKept` |
| `AccountSetupProofs` | `TypeCorrect` | `Spec => []TypeOK` |
| | `InProgressServed` | `Spec => []InProgressIsServed` |
| | `ManagedProjects` | `Spec => []ManagedHasManager` |

The bounds are constants too, so the theorems cover any number of faults,
commands, retries and sequence numbers.

**`TransferInv`.** `PresentIsVerified` alone is not inductive: after a restart
the status comes from the state file, so one must know what the state file may
say (`SavedVerified`).  A download the state file calls present, without a
transfer, is right or missing on disk; while the client runs, it is still
present in memory, or it was found missing at the start and the state file
will be written (`dirty`) before a new transfer touches the disk.  That
`check_file_existence` and the recovery mark the state dirty is what the proof
turns on.  `WorkingNotFailed` (a transfer at work belongs to a file without
error) is needed for `FailureEndsByReply`: `create_xfer` resets the status, and
may do so only because no failed file has a transfer at work; and it says that
`clear_errors`, which looks at the status alone, finds no such transfer.  `TodoActive` ties the loop
over the set to the set, for `XferConsistent`.

**`UploadInv` and the limits.** An upload is lost if a start finds its status
`FILE_PRESENT`, its file deleted and no transfer.  `SavedHolds` says that this
cannot be: what the state file has without a transfer is still on disk.  The
file is deleted when its transfer is done, so one must know that the state file
has recorded every transfer that is done (`XferRecorded`).  It has, because a
`FILE_XFER` is started by a step that sets `dirty`, its answer comes between
passes, and the state file is written at the end of each pass.  The transfers
excepted are those that end without a `FILE_XFER` (`dropped`).  For
`UploadedOnlyWhenSettled` the invariant follows the answers: a success, other
than to a size query that the data will follow, is given only when the server
holds the file (`AnswersTrue`), and `produced` comes before any transfer
(`ProducedFirst`), so that no `app_finished` replaces the status of a transfer
that is done.  `LimitsRespected` is inductive once `active` is known to be
finite: only `create_xfer` adds to it, under `start_new_file_xfer`.

**`SchedulerInv`.** `SeqnoNeverStale` needs to know that the state file holds the
number of every project but the one being talked to, unless it is about to be
written (`SavedUpToDate`); that the number in the request lies between what the
server has seen and what the project remembers (`RequestNumbered`); and that a
project that failed is deferred, has an RPC of its own time or is the current
one (`BlamedDeferred`).  The proof first describes the steps of
`scheduler_rpc_poll` by a few shapes (`PollShapes`: an operation starts, could
not start, ends, or is retried) from lemmas on `backoff`, `set_min_rpc_time`,
`master_fetched` and `handle_scheduler_reply`, and then treats each conjunct of
the invariant by shape.

**`TasksInv`.** The client treats each task by itself, so the invariant is one of
a task, and every operator from a job to a job is shown to keep it.
`MessagesMatchState` is not inductive as it stands: `msg_queue_purge` removes a
message from the middle of the queue, and the process must end in the same
state without it.  That holds because suspends and resumes alternate
(`Alternates`): each queued suspend is for a process that would be running when
it is read, each resume for one that would be stopped.

**`LifeInv` and the second refinement.** `ResultLife` has five stages: a result is
unsent, held, ready to be reported, acknowledged, dropped.  The mapping (`Life`)
reads the stage off `RESULT` alone, so tasks, processes, messages, files and the
schedule are hidden.  A dozen functions write the state and the flags of a
result, several of them of one that is over already (§6.1, §6.3).  Each is shown
to keep the result, its `ready_to_report` and its `got_server_ack` (`Reports`,
`Goes`); what is left is arrival, acknowledgement and deletion (`Ages`).
`LifeInv` adds that a result the client does not have has no task, so that
no function of the tasks brings it back, and that only a ready result is
acknowledged.  The last is what `ActiveTasks` assumes of the server: it
acknowledges what has been reported, and `handle_scheduler_reply` does not check
it.  `ResultsAccountedFor` also passes with TLC as a property of
`ActiveTasksOne`; it is not in that configuration, since the theorem says more.

**`SuspensionInv`, `ListInv`, `LimitsInv`.** `enforce_schedule` is a fold, and
what it leaves is found by a loop invariant, as for a program (`LoopInv`):
`ncpus_used` is the number of tasks chosen, the tasks not yet looked at are
among them, and `ram_left` is what the chosen ones that were looked at leave of
the memory.  `LoopLemmas` has the induction over the rounds, from the least
round at which the invariant would fail, since the library's induction
theorems cannot be used.  The proof uses of the most preemptable task only that
it is one of the running ones, so it does not rest on the order of the heap,
which `CpuSched` idealises for more than two tasks.  Between calls, a list or a
number of scheduled tasks larger than `ncpus` is there only if a new list has
been asked for (`LimitsInv`): `set_ncpus` asks for one when the number changes.

**`ForgottenInv`.** `NoneForgotten` compares a list made at one moment with tasks
that end, arrive, grow and are preempted until the next list is made.  The
invariant says in which of four conditions the scheduler is: a new list has been
asked for; the list has just been made and will be enforced in this pass
(`Fresh`: it fills the CPUs, or every runnable result is in it or too large); a
list has been enforced (`Settled`); or freed memory has been read
(`EnforceDeleted`), and nothing is said of what follows.  `Settled` says why a runnable result may wait: a task outside the list
is marked too large, or the CPUs are held, or there is none that waits.  The
CPUs that are held (`Held`) include those that members of the list will take as
soon as their memory fits, and those of tasks whose results are over (`Busy`).
The proof has two halves.

* *Between enforcements.* Every operation on a job leaves the job as it was in
  all that counts (`Waits`: scheduled and too large or not as before, and not
  newly runnable), or its action asks for a new list.  This is where each call
  of `request_schedule_cpus` in the code is needed.
* *Enforcement.* Besides `LoopInv`, the loop over the list keeps the number of
  CPUs used or claimed (`Claimed`: by the tasks chosen, by the rest of the list,
  and by what was found too large) from falling below `ncpus`, as long as no
  task outside the list is preempted for its size.  `Decision` states what the
  loops have decided and `Enacted` what then becomes of each task: one whose
  start fails asks for a new list.

**`FileInv` and the refinement.** The mapping (`Store`, an `INSTANCE ... WITH`) is
the identity on `acked`, `maybe` and `loaded`, which `StateFile` carries along.  A step of `StateFile` is a
stutter of `StateStore` except `FileBegin`, a successful `FileReplaceName`
(`StoreDone`) and `FileRead`.  For the last one must know what the files hold:
the current file, or without one the previous file, is exactly `acked`, and a
complete next file is in `maybe`.  That is `FileInv`, made inductive by what
`write_state_file` knows at each step: the state it writes is in `maybe`, from
`old` on the next file holds it, and at `keep` there is a current file.

**`RecoveryInv`.** The properties speak of the memory, but a stop replaces it by
whatever the next start reads.  The invariant has a part about the memory
(`MemoryInv`), the same about every state in the store that may be read
(`SavedInv`, for `acked` and all of `maybe`), and one that relates the two while
the main loop runs (`Follows`): an unfinished task that is on disk is in memory
too, in the same slot, so `get_free_slot` does not give the slot away; and at
the end of a pass, or while nothing is dirty, whatever may run after a start may
run now, so that a report, which leaves the host between passes, is never of a
result that a start would run again.

**`KnownInv`.** `CheckpointsKept` compares the memory with `known`, and what the
memory holds comes from two files.  A second invariant, on top of the first,
says that every state the next start may read covers what is known of an
unfinished result (`SavedKnown`): the result is runnable in it, its task has been
started, and the checkpoint is in it or in the task state file of the slot it
names.  `GetMsgs` writes only the task state file, and makes nothing dirty; it
keeps the invariant because a task with a process is on disk, with the same slot,
by the time its messages are read (`OnDisk`), and because nothing is being
written then (`StoreKnown`).

**`SetupInv`.** To `InProgressIsServed` and `ManagedHasManager` it adds what a
channel at work works for, what a wizard asks for, and that the URL and the key
of the account manager are known together.  `ManagedHasManager` needs the last:
the projects are released when the manager is left, which the code tells by its
URL, and a reply stores the URL of `ami`, which later requests overwrite.

The inductive invariants were checked with TLC on the instances of the runs
before they were proved.

Only model-checked: the liveness properties (`DownloadSettles`, `UploadSettles`,
`PendingServed`, `PendingEnds`, `ResultSettles`, `RepliesDelivered`).  They rest
on fairness, and `ENABLED` is beyond the prover.  Every invariant and every
action property that a run checks is a theorem.

## 5. How to run

    tlc -workers 2 -config FileXferDownload.cfg MCFileXfer
    tlapm FileXferProofs.tla

`PROJECT.json` names the module of every configuration.

## 6. Disagreements found

### 6.1 The stale schedule

`FinishedNotRun` (`cs_scheduler.C:655`, `cpu_sched.C:648`) is violated.
`cs_apps.C:73-75` says of the request for a new schedule when an application
has finished: "the following is critical; otherwise the result is still in the
"scheduled" list and enforce_schedule() will try to run it again."  When a
scheduler reply aborts a result that waits in the list, `handle_scheduler_reply`
asks for no new schedule.  The next `enforce_schedule` (a checkpoint of another
task is enough) takes the result from the list without looking at its state,
makes a task for it and starts the application.  `abort_unstarted_late_jobs`
does the same.  `EnforceDeleted` is reached when all results are deleted in
between: `possibly_schedule_cpus` then returns before it makes a new list, and
`get_task` reads freed memory.

### 6.2 Statements that do not hold, without a run of their own

The modules state what a comment says; adding the name to the `INVARIANTS` or
`PROPERTIES` of a configuration of the module shows the behaviour.

1. **`NoNullXfer`** (`FileXfer`; `pers_file_xfer.C:271`). `transient_failure`
   gives up on a transfer that is too old, which deletes the `FILE_XFER`, and
   does not return.  If the file has another URL, `start_xfer` then uses the
   deleted object.  The error status is lost with the client, so after the
   restart the download begins again and ends the same way: the exception in
   `DownloadSettles`.
2. **`UploadedMeansStored`** (`FileXfer`; `cs_files.C:227`).
   `handle_pers_file_xfers` treats every finished transfer of an output file as
   a success: it deletes the file, which overwrites the error status, and sets
   `uploaded`.  The failure is not reported with the result.
3. **`NextRpcDone`** (`SchedulerOp`; `work_fetch.C:97`). `set_min_rpc_time` drops
   a deferral that is longer than `next_rpc_time`.  With
   `master_fetch_retry_cap` reached, the master file is then fetched at every
   poll, the RPC at `next_rpc_time` never happens, and other projects starve (the
   exception in `PendingServed`).
4. **`AbortedHasExited`** (`ActiveTasks`, two commands; `app_control.C:621`). A
   second abort, or an abort of a task that is already quitting, sets
   `PROCESS_ABORTED` while the process runs.  `handle_finished_apps` then deletes
   the task, and nothing kills the process if it ignores its message.  It is the
   exception in `PendingEnds`.
5. **`TrickleUpPending`** (`Recovery`, two trickles of one result;
   `cs_scheduler.C:683`). `client_types.h:297` says of `trickle_up_pending` "have
   trickle up to send".  The reply clears it also when a trickle has arrived
   since the request was made; that trickle waits for another reason for an
   RPC.
6. **`AuthAsAsked`** (`AccountSetup`, two accounts). The page "Attempt to create
   the account or reterieve the authenticator" (`ProjectProcessingPage.cpp:302`)
   may go on with the authenticator of another account: the reply files have
   one name for all connections, and a wizard that comes back after its 60
   seconds may poll the end of its earlier request.

### 6.3 Further observations

*Scheduling.*

* In `earliest_deadline_result` the test of `deadlines_missed` is commented out,
  so the first loop of `schedule_cpus` takes all results by deadline; the loop
  by debt finds nothing left.  Debts, long and short term, decide nothing on the
  CPU.
* `more_preemptable` puts tasks of projects in deadline trouble, and among them
  the earlier deadlines, first in the order of preemption.
* `start` is the only place that looks at missing files, and sends any result
  with missing files back to downloading, one that has failed included.
* `resume_or_start` returns 0 before its caller can see `ERR_SHMGET`:
  `retry_shmem_time` is never set.
* `request_work_fetch("CPUs idle")` is inside a test of a log flag
  (`cpu_sched.C:793-800`).
* `suspend_tasks` passes `leave_apps_in_memory` in the place of `cpu_throttle`
  (`cs_prefs.C:183`): applications that do not use a full CPU then go on while
  computing is suspended, for whatever reason (the exception in
  `SuspensionObeyed`), and make benchmarks give up ("Failed to stop applications").
* A task preempted for its size leaves its CPU idle until the next scheduling
  period, and applications that were throttled resume before the memory limit
  is looked at again: the reasons for the exceptions in `NoneForgotten` and
  `LimitsKept`.
* A CPU may be idle for the rest of a pass although a result could use it and no
  task is too large, which is why `Busy` counts the tasks of results that are
  over.  It takes three results, one more than the run has; the proof showed it.
  A result is found too large when the list is made, and so is not in it; its
  task is kept while there is room, then preempted for a member of the list.
  Meanwhile another scheduled task has been told to quit by a suspension, and
  computing was resumed before it did; a scheduler reply aborts its result, and
  the abort of a task that is quitting declares it aborted at once (§6.2, 4).
  A pass in which `ACTIVE_TASK_SET::poll` is not due enforces the list and takes
  its CPU away; nobody asks for a new list until the next pass in which
  `handle_finished_apps` finds the task.

*State, slots.*

* The comment in `parse_state_file` says "First the regular one, then the "next"
  one." (`cs_statefile.C:85`); the code looks at the next one first.  `StateFile`
  shows that the code's order is right.
* A task that has finished and whose slot has been cleaned out comes back after
  a crash with `full_init_done`, in an empty slot or another's (`SlotKept` is
  therefore about tasks that have not ended): it fails there, or runs again
  without its links.  `ReportedNeverRuns` shows that the server has not heard
  of it.
* `exit_tasks` calls `get_msgs` to "get final checkpoint_cpu_times"
  (`app_control.C:715`), but by then `has_task_exited` or `kill_task` has made every
  task one without a process, which `get_msgs` passes over: the last checkpoints
  and trickles of an exit are lost, as after a crash.
* `write_task_state_file` truncates the file before it writes it, and a failed
  open throws an exception that ends the client.
* A trickle file that was renamed for an RPC that failed and cannot be read when
  the next request is made (`cs_trickle.C:77`) is left out of the request, and
  deleted by the acknowledgement all the same: the exception in `TricklesKept`.
* `delete_old_slot_dirs` appends the name of the init data file to the wrong
  variable (`file_names.C:219-228`).
* `ACTIVE_TASK::parse` stores the page and page-fault statistics where the
  memory statistics belong.

*Account set-up.*

* A `GUI_RPC_CONN` that is deleted while its operation is under way leaves a
  pointer in `http_ops` (`freed`).
* The attach branch of `ACCT_MGR_OP::handle_reply` writes through `pp`, which is
  `NULL` there, if the account manager sends `dont_request_more_work`.
* When the request or reply file of the account manager cannot be opened,
  `error_num` stays `ERR_IN_PROGRESS`, and `ACCT_MGR_INFO::poll` never contacts
  it again (`lost`); what `parse` returns is not used.
* Leaving an account manager while its reply is on its way is undone by the
  reply, and if the reply cannot be opened, by the reply before it: `error_num` is
  0 then, and the accounts and the key are those of the last reply.
* Leaving deletes the manager's files at once but does not make the state dirty:
  after a crash the projects are marked as managed again, without a manager.
* `do_rpc` overwrites `ami` before it knows whether the request can be sent.  If a
  request to another account manager is refused because one is on its way, the
  reply of the first is recorded with the URL of the second, and its key becomes
  the signing key for it (`acct_mgr.C:94`, `:375`).  With a second account manager
  in the instance, `info.url = info.key` is violated.
* `handle_project_attach` leaves the `error_num` of an earlier attempt when it
  refuses a request, and the wizard looks at nothing else.

*Transfers, RPCs, tasks.*

* `parse_master_file` clears `scheduler_urls` before `update_urls` compares
  (`scheduler_op.C:268`), so every fetch finds "new" URLs and re-enables RPCs,
  against the comments at `scheduler_op.C:311` and `:367`.
* The HTTP 416 branch of `transient_failure` (`pers_file_xfer.C:264-268`) is
  unreachable: `HTTP_OP` has turned 416 into `ERR_HTTP_ERROR`
  (`http_curl.C:970-977`).
* `handle_pers_file_xfers` does not set `client_state_dirty` itself when it
  creates or finishes transfers, and a failed `create_xfer` does not either
  (the reason for the exception in `UploadNotLost`).
* `msg_queue_purge` leaves `last_block` set (`app.C:664`): 180 seconds after a
  suspend is cancelled by a resume the application is killed as hung, and the
  task is restarted from its checkpoint.
* `unsuspend_all` starts a task without asking whether its result is still
  runnable; an abort while `QUIT_PENDING`, followed by the exit, puts the task
  back to `UNINITIALIZED` with exit status 0.
* `report_result_error` leaves results in state new or downloading there; they
  are reported because `ready_to_report` is set.
* `lookup_pid` (`cs_apps.C:295`) also finds tasks whose process has been waited
  for, and whose pid may have been reused.

## 7. Plan

Done: `FileXfer`, `SchedulerOp`, `ActiveTasks` with the abstract specification
of a result's life, `CpuSched`, `StateFile` with its abstract specification,
`Recovery` on top of it, `AccountSetup`; proofs of all their safety properties
and of both refinements.  Left: a property for `last_block` (only an
application that was left with an unread message for 180 seconds is killed as
hung), which does not hold now (§6.3).

## 8. Not modelled

* *Arithmetic on estimates*: how much work to ask for (`work_fetch.C`), the
  round-robin simulation (`rr_sim.cpp`), debts, time and network statistics.
  They are floating point; where a decision depends on them the modules leave
  it open.
* *Formats*: parsing and writing of XML, preferences, log flags, command line,
  file names, platforms, messages.
* *System interfaces*: host information, sandbox and security checks, shared
  memory segments, libcurl, the start of a process with its links, environment
  and priorities, everything under `#ifdef _WIN32` or `__APPLE__`.
* *Trickle-down and graphics messages, heartbeats, intermediate uploads.*
* *Garbage collection of files and application versions*: reference counts that
  are computed anew from nothing on every call.
* *The manager, screen saver, tray and installers*, which are nearly half of the
  source: windows, layout and text, drawn from what GUI RPCs return.  Their only
  protocols with the client that take several steps, the attach wizards, are
  in `AccountSetup`.  This is why the definitions cover a small part of the
  repository's lines: they are the protocols of the core client, and the rest
  is mostly data and display.
