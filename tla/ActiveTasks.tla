----------------------------- MODULE ActiveTasks -----------------------------
(***************************************************************************)
(* Results and the application processes that compute them: RESULT,        *)
(* ACTIVE_TASK, its process control queue, ACTIVE_TASK_SET::poll, and the  *)
(* functions of CLIENT_STATE that move a result from its arrival to the    *)
(* server's acknowledgement.  Unix build.                                  *)
(*                                                                         *)
(* The client runs one pass of poll_slow_events after the other (phase).   *)
(* The applications are processes of their own: they read messages, stop,  *)
(* go on, hang and exit at any moment.  File transfers are the environment *)
(* here (module FileXfer); each result has files of its own.               *)
(***************************************************************************)
EXTENDS Naturals, Sequences, FiniteSets

CONSTANTS
    Results,    \* results the scheduler may send
    NCpus,      \* ncpus; every application uses one CPU
    MaxExits,   \* exits without a checkpoint that are forgiven (100)
    MaxUser     \* bound: commands of the user and of his manager

ASSUME TasksAssumption ==
    /\ IsFiniteSet(Results)
    /\ NCpus \in Nat /\ MaxExits \in Nat /\ MaxUser \in Nat

(***************************************************************************)
(* RESULT.  "unsent" results have not arrived yet, "gone" ones have been   *)
(* deleted.  exit is 0, an error, or one of the two codes that say the     *)
(* user or the project aborted the result.                                 *)
(***************************************************************************)
Finished == {"COMPUTE_ERROR", "UPLOADING", "UPLOADED", "ABORTED"}
Result == [state : {"unsent", "gone", "NEW", "DOWNLOADING", "DOWNLOADED"}
                   \cup Finished,
           ready : BOOLEAN,                    \* ready_to_report
           ack : BOOLEAN,                      \* got_server_ack
           exit : {"ok", "err", "aborted"},    \* exit_status
           susp : BOOLEAN]                     \* suspended_via_gui
Unsent == [state |-> "unsent", ready |-> FALSE, ack |-> FALSE, exit |-> "ok",
           susp |-> FALSE]

(***************************************************************************)
(* ACTIVE_TASK and its process.  st is task_state: "none" if there is no   *)
(* ACTIVE_TASK; EXITED stands for WAS_SIGNALED and EXIT_UNKNOWN too, which *)
(* are handled alike.  pst, status and chan are the process: its state,    *)
(* how it ended (finished, exit(0) without the finish file, an error or a  *)
(* signal of its own, killed), and its process_control_request channel.    *)
(***************************************************************************)
Pending  == {"ABORT_PENDING", "QUIT_PENDING"}
Existing == {"EXECUTING", "SUSPENDED"} \cup Pending
Over     == {"EXITED", "ABORTED", "COULDNT_START"}
Messages == {"suspend", "resume", "quit", "abort", "reread"}
Task == [st : {"none", "UNINITIALIZED"} \cup Existing \cup Over,
         sched : BOOLEAN,               \* scheduler_state is SCHEDULED
         ckpt : BOOLEAN,                \* checkpoint_cpu_time > 0
         exits : 0..MaxExits,           \* premature_exit_count
         q : Seq(Messages),             \* process_control_queue.msgs
         block : BOOLEAN,               \* last_block is set
         pst : {"none", "run", "stop", "zombie"},
         status : {"done", "quit", "error", "killed"},
         chan : Messages \cup {"none"}]
NoTask == [st |-> "none", sched |-> FALSE, ckpt |-> FALSE, exits |-> 0,
           q |-> <<>>, block |-> FALSE, pst |-> "none", status |-> "quit",
           chan |-> "none"]

(***************************************************************************)
(* A job: a RESULT, its task, and the state of its input and output files. *)
(***************************************************************************)
Job == [t : Task, s : Result,
        f : {"missing", "present", "failed"},
        o : {"none", "present", "uploaded", "failed"}]
NoJob == [t |-> NoTask, s |-> Unsent, f |-> "missing", o |-> "none"]

VARIABLES
    job,          \* results and active_tasks
    scheduled,    \* ordered_scheduled_results
    mustSchedule, \* must_schedule_cpus
    mustEnforce,  \* must_enforce_cpu_schedule
    suspended,    \* tasks_suspended
    phase,        \* the next function of poll_slow_events, or "idle"
    users         \* commands of the user so far

schedVars == <<scheduled, mustSchedule, mustEnforce>>
vars == <<job, schedVars, suspended, phase, users>>

Init ==
    /\ job = [r \in Results |-> NoJob]
    /\ scheduled = {}
    /\ mustSchedule = TRUE /\ mustEnforce = TRUE
    /\ suspended = FALSE
    /\ phase = "idle" /\ users = 0

Known == {r \in Results : job[r].s.state \notin {"unsent", "gone"}}
Alive(t) == t.pst \in {"run", "stop"}
process_exists(t) == t.st \in Existing

\* RESULT::runnable.
runnable(s) == s.state = "DOWNLOADED" /\ ~s.susp

-----------------------------------------------------------------------------
(***************************************************************************)
(* MSG_QUEUE and the messages to a process, as functions of a Task t.      *)
(***************************************************************************)
msg_queue_send(t, m) ==
    IF t.q = <<>> /\ t.chan = "none"
    THEN [t EXCEPT !.chan = m, !.block = FALSE]
    ELSE [t EXCEPT !.q = Append(@, m), !.block = TRUE]

msg_queue_poll(t) ==
    IF t.q # <<>> /\ t.chan = "none"
    THEN [t EXCEPT !.chan = Head(t.q), !.q = Tail(@), !.block = FALSE] ELSE t

\* msg_queue_purge(m) would return 1.
Purges(t, m) == t.q # <<>> /\ t.q[Len(t.q)] = m
Purged(t) == [t EXCEPT !.q = SubSeq(@, 1, Len(@) - 1)]

\* Mutant of suspend: a queued <resume/> is forgotten, not answered.
suspend_purge_only(t) ==
    [IF t.q # <<>> THEN Purged(t) ELSE msg_queue_send(t, "suspend")
     EXCEPT !.st = "SUSPENDED"]

suspend(t) ==
    [IF Purges(t, "resume") THEN Purged(t) ELSE msg_queue_send(t, "suspend")
     EXCEPT !.st = "SUSPENDED"]
unsuspend(t) ==
    [IF Purges(t, "suspend") THEN Purged(t) ELSE msg_queue_send(t, "resume")
     EXCEPT !.st = "EXECUTING"]

\* ACTIVE_TASK::preempt; request_exit sets quit_time.
preempt(t, quit) ==
    IF quit /\ t.ckpt
    THEN [msg_queue_send(t, "quit") EXCEPT !.st = "QUIT_PENDING"]
    ELSE suspend(t)

\* ACTIVE_TASK::cleanup_task: the shared memory goes, and with it the channel.
\* Nothing reads the queue and the times until start resets them.
cleanup_task(t) ==
    [t EXCEPT !.q = <<>>, !.block = FALSE, !.chan = "none"]

\* Mutant of kill_task: no signal is sent when the task is to be restarted.
kill_task_restart_only(t, restart) ==
    [cleanup_task(t) EXCEPT
        !.st = IF restart THEN "UNINITIALIZED" ELSE "ABORTED",
        !.status = IF Alive(t) /\ ~restart THEN "killed" ELSE @,
        !.pst = IF Alive(t) /\ ~restart THEN "zombie" ELSE @]

\* ACTIVE_TASK::kill_task: SIGKILL; a process that has exited by itself
\* keeps its exit status until it is waited for.
kill_task(t, restart) ==
    [cleanup_task(t) EXCEPT
        !.st = IF restart THEN "UNINITIALIZED" ELSE "ABORTED",
        !.status = IF Alive(t) THEN "killed" ELSE @,
        !.pst = IF Alive(t) THEN "zombie" ELSE @]

-----------------------------------------------------------------------------
(***************************************************************************)
(* Errors, aborts and exits, as functions of a Job j or its RESULT s.      *)
(***************************************************************************)
\* CLIENT_STATE::report_result_error, once per result.
report_result_error(s) ==
    IF s.ready THEN s
    ELSE [s EXCEPT !.ready = TRUE,
                   !.state = IF @ = "DOWNLOADED" THEN "COMPUTE_ERROR" ELSE @,
                   !.exit = IF @ = "ok" /\ s.state \in
                               {"NEW", "DOWNLOADING", "DOWNLOADED", "UPLOADING"}
                            THEN "err" ELSE @]

\* ACTIVE_TASK::abort_task.  A process that was already asked to exit is
\* called aborted at once.
abort_task(j, why) ==
    [j EXCEPT
       !.t = IF @.st \in {"EXECUTING", "SUSPENDED"}
             THEN [msg_queue_send(@, "abort") EXCEPT !.st = "ABORT_PENDING"]
             ELSE [@ EXCEPT !.st = "ABORTED"],
       !.s = [report_result_error([@ EXCEPT !.exit = why])
              EXCEPT !.state = "ABORTED"]]

\* RESULT::abort_inactive.
abort_inactive(s, why) ==
    IF s.state \in Finished THEN s
    ELSE [s EXCEPT !.state = "ABORTED", !.exit = why]

\* What abort requests of the user and of the project do.
Aborted(j, why) ==
    IF j.t.st = "none" THEN [j EXCEPT !.s = abort_inactive(@, why)]
    ELSE abort_task(j, why)

\* Mutant of handle_premature_exit: one exit too many is forgiven.
handle_premature_exit_off_by_one(j) ==
    IF j.t.st = "QUIT_PENDING" THEN [j EXCEPT !.t.st = "UNINITIALIZED"]
    ELSE [j EXCEPT !.t.st = IF j.t.exits <= MaxExits THEN "UNINITIALIZED"
                            ELSE "ABORTED",
                   !.t.exits = @ + 1]

\* ACTIVE_TASK::handle_premature_exit.
handle_premature_exit(j) ==
    IF j.t.st = "QUIT_PENDING" THEN [j EXCEPT !.t.st = "UNINITIALIZED"]
    ELSE IF j.t.exits < MaxExits
    THEN [j EXCEPT !.t.st = "UNINITIALIZED", !.t.exits = @ + 1]
    ELSE [j EXCEPT !.t.st = "ABORTED",
                   !.s = [report_result_error([@ EXCEPT !.exit = "err"])
                          EXCEPT !.state = "ABORTED"]]

\* ACTIVE_TASK::handle_exited_app, by the status waitpid returned.
handle_exited_app(j) ==
    LET ok  == [j EXCEPT !.s.exit = "ok"]
        bad == [j EXCEPT !.s = report_result_error([@ EXCEPT !.exit = "err"])]
        status == j.t.status
    IN  IF j.t.st = "ABORT_PENDING" THEN [j EXCEPT !.t.st = "ABORTED"]
        ELSE CASE status = "done"   -> [ok EXCEPT !.t.st = "EXITED"]
               [] status = "quit"   -> handle_premature_exit(ok)
               [] status = "killed" -> [j EXCEPT !.t.st = "UNINITIALIZED"]
               [] status = "error"  -> [bad EXCEPT !.t.st = "EXITED"]

-----------------------------------------------------------------------------
(***************************************************************************)
(* ACTIVE_TASK::start.  how is what happens: the application is forked,    *)
(* input files turn out missing or damaged, there is no shared memory, or  *)
(* something else fails.                                                   *)
(***************************************************************************)
StartResults == {"forked", "files", "shmem", "error"}

start(j, how) ==
    LET reset == [j.t EXCEPT !.q = <<>>, !.block = FALSE]
    IN  CASE how = "files" ->
               [j EXCEPT !.f = "missing", !.s.state = "DOWNLOADING"]
          [] how = "shmem" -> [j EXCEPT !.t = reset]
          [] how = "error" ->
               [j EXCEPT !.t = [reset EXCEPT !.st = "COULDNT_START"],
                         !.s = report_result_error(@)]
          [] how = "forked" ->
               [j EXCEPT !.t = [reset EXCEPT !.st = "EXECUTING", !.pst = "run",
                                             !.chan = "none"]]

\* start checks the input files first.
CanStart(j, how) == j.f = "present" \/ how = "files"

-----------------------------------------------------------------------------
(***************************************************************************)
(* A pass begins: computing is suspended, goes on, or nothing changes.     *)
(* The functions from active_tasks.poll to handle_finished_apps are left   *)
(* out in a pass less than a second after the last one.                    *)
(***************************************************************************)
\* ACTIVE_TASK_SET::suspend_all.
suspend_all(quit) ==
    job' = [r \in Results |->
              IF job[r].t.st # "EXECUTING" THEN job[r]
              ELSE [job[r] EXCEPT !.t = preempt(@, quit)]]

\* ACTIVE_TASK_SET::unsuspend_all; the result need not be runnable.
unsuspend_all ==
    \E how \in [Results -> StartResults] :
        /\ \A r \in Results : CanStart(job[r], how[r])
        /\ job' = [r \in Results |->
                     CASE ~job[r].t.sched -> job[r]
                       [] job[r].t.sched /\ job[r].t.st = "UNINITIALIZED" ->
                            start(job[r], how[r])
                       [] job[r].t.sched /\ job[r].t.st = "SUSPENDED" ->
                            [job[r] EXCEPT !.t = unsuspend(@)]
                       [] OTHER -> job[r]]

BeginPass(first) ==
    /\ phase = "idle"
    /\ phase' = first
    /\ \/ /\ suspended' = suspended
          /\ UNCHANGED <<job, mustSchedule>>
       \/ /\ ~suspended /\ suspended' = TRUE
          /\ \E quit \in BOOLEAN : suspend_all(quit)
          /\ UNCHANGED mustSchedule
       \/ /\ suspended /\ suspended' = FALSE
          /\ unsuspend_all
          /\ mustSchedule' \in {mustSchedule, TRUE}
    /\ UNCHANGED <<scheduled, mustEnforce, users>>

FullPass  == BeginPass("poll")
ShortPass == BeginPass("schedule")

-----------------------------------------------------------------------------
(***************************************************************************)
(* ACTIVE_TASK_SET::poll.  One exited process is waited for (waitpid may   *)
(* also return a child that no task knows); messages go out; tasks over    *)
(* their limits are aborted; messages come in; late processes are killed.  *)
(***************************************************************************)
\* check_app_exited, for the task of the process; its last message may
\* report a checkpoint.
check_app_exited(j, ckpt) ==
    LET gone == handle_exited_app(
            [j EXCEPT !.t.ckpt = @ \/ (ckpt /\ process_exists(j.t))])
    IN  [gone EXCEPT !.t = [cleanup_task(@) EXCEPT !.pst = "none",
                                                   !.status = "quit"]]

\* process_control_poll; hung if last_block was set 180 seconds ago.
process_control_poll(t, hung) ==
    IF ~process_exists(t) THEN t
    ELSE IF t.block /\ hung THEN kill_task(t, TRUE) ELSE msg_queue_poll(t)

\* check_rsc_limits_exceeded.
check_rsc_limits_exceeded(j, over) ==
    IF over /\ j.t.st = "EXECUTING" THEN abort_task(j, "err") ELSE j

\* get_msgs: a checkpoint has been reached.
get_msgs(t, ckpt) ==
    IF ckpt /\ process_exists(t) THEN [t EXCEPT !.ckpt = TRUE, !.exits = 0]
    ELSE t

\* Mutant of kill_late: a task that was told to quit is given all the time.
kill_late_abort_only(t) ==
    IF t.st = "ABORT_PENDING" THEN kill_task(t, FALSE) ELSE t

\* The end of poll, for a task past ABORT_TIMEOUT or QUIT_TIMEOUT.
kill_late(t) ==
    IF t.st \in Pending THEN kill_task(t, t.st = "QUIT_PENDING") ELSE t

PollWith(exited, hung, ckpt, over, late) ==
    LET reaped == [r \in Results |->
            IF r \in exited THEN check_app_exited(job[r], r \in ckpt)
            ELSE job[r]]
        sent == [r \in Results |->
            [reaped[r] EXCEPT !.t = process_control_poll(@, r \in hung)]]
        limited == [r \in Results |->
            check_rsc_limits_exceeded(sent[r], r \in over)]
        polled == [r \in Results |->
            [limited[r] EXCEPT !.t = get_msgs(@, r \in ckpt)]]
    IN  /\ job' = [r \in Results |->
                     IF r \notin late THEN polled[r]
                     ELSE [polled[r] EXCEPT !.t = kill_late(@)]]
        /\ mustSchedule' = (mustSchedule \/ exited # {})
        /\ mustEnforce' = (mustEnforce \/ \E r \in Results :
              \/ r \in ckpt /\ process_exists(sent[r].t)
              \/ /\ process_exists(reaped[r].t)
                 /\ job'[r].t.st = "UNINITIALIZED")

Poll(late) ==
    /\ phase = "poll"
    /\ late \subseteq {r \in Results : job[r].t.st \in Pending}
    /\ \E exited \in SUBSET {r \in Results : job[r].t.pst = "zombie"},
          hung \in SUBSET {r \in Results : job[r].t.block},
          ckpt \in SUBSET Results, over \in SUBSET Results :
             /\ Cardinality(exited) <= 1
             /\ PollWith(exited, hung, ckpt, over, late)
    /\ phase' = "gc"
    /\ UNCHANGED <<scheduled, suspended, users>>

-----------------------------------------------------------------------------
(***************************************************************************)
(* Garbage collection.                                                     *)
(***************************************************************************)
\* RESULT::not_started.
not_started(j) ==
    j.s.state \notin Finished /\ ~j.s.ready /\ j.t.st = "none"

\* garbage_collect_always: first delete or stop what the server acked,
\* then report the files that failed.
garbage_collect_acked(j) ==
    CASE j.s.ack /\ j.t.st = "none" ->
           [NoJob EXCEPT !.s.state = "gone"]
      [] j.s.ack /\ j.t.st # "none" -> abort_task(j, "err")
      [] OTHER -> j

garbage_collect_failed(j) ==
    LET in  == IF j.f = "failed" THEN [j EXCEPT !.s = report_result_error(@)]
               ELSE j
        out == IF in.t.st \in {"EXECUTING", "SUSPENDED"}
               THEN abort_task(in, "err") ELSE in
    IN  IF in.o = "failed" /\ ~in.s.ready
        THEN [out EXCEPT !.s = report_result_error(@)] ELSE in

\* GarbageCollect: abort_unstarted_late_jobs, otherwise garbage_collect_always.
GarbageCollect ==
    /\ phase = "gc"
    /\ \E late \in SUBSET {r \in Known : not_started(job[r])} :
        job' = [r \in Results |->
                  IF late # {}
                  THEN IF r \notin late THEN job[r]
                       ELSE [job[r] EXCEPT !.s = abort_inactive(@, "err")]
                  ELSE IF r \notin Known THEN job[r]
                  ELSE garbage_collect_failed(garbage_collect_acked(job[r]))]
    /\ phase' = "update"
    /\ UNCHANGED <<schedVars, suspended, users>>

-----------------------------------------------------------------------------
(***************************************************************************)
(* Results advance: CLIENT_STATE::update_results.                          *)
(***************************************************************************)
is_upload_done(j) == j.o # "present"

\* Mutant of update_result: aborted results are not reported.
update_result_forgets_aborted(j, copies) ==
    CASE j.s.state = "NEW" -> [j EXCEPT !.s.state = "DOWNLOADING"]
      [] j.s.state = "DOWNLOADING" /\ j.f = "present" ->
           IF copies THEN [j EXCEPT !.s.state = "UPLOADING", !.o = "present"]
           ELSE [j EXCEPT !.s.state = "DOWNLOADED"]
      [] j.s.state = "UPLOADING" /\ is_upload_done(j) ->
           [j EXCEPT !.s.state = "UPLOADED", !.s.ready = TRUE]
      [] OTHER -> j

\* copies: the application version has no files, its results only bring
\* their input files back.
update_result(j, copies) ==
    CASE j.s.state = "NEW" -> [j EXCEPT !.s.state = "DOWNLOADING"]
      [] j.s.state = "DOWNLOADING" /\ j.f = "present" ->
           IF copies THEN [j EXCEPT !.s.state = "UPLOADING", !.o = "present"]
           ELSE [j EXCEPT !.s.state = "DOWNLOADED"]
      [] j.s.state = "UPLOADING" /\ is_upload_done(j) ->
           [j EXCEPT !.s.state = "UPLOADED", !.s.ready = TRUE]
      [] j.s.state = "ABORTED" -> [j EXCEPT !.s.ready = TRUE]
      [] OTHER -> j

\* A result that has had a task is not one that only copies files.
UpdateResults ==
    /\ phase = "update"
    /\ \E copies \in SUBSET {r \in Results : job[r].t.st = "none"} :
          job' = [r \in Results |-> update_result(job[r], r \in copies)]
    /\ mustSchedule' = (mustSchedule \/ \E r \in Results :
          /\ job[r].s.state = "DOWNLOADING"
          /\ job'[r].s.state = "DOWNLOADED")
    /\ phase' = "xfer"
    /\ UNCHANGED <<scheduled, mustEnforce, suspended, users>>

\* The file transfers of a pass (module FileXfer): input files arrive or
\* fail, output files are uploaded or given up.
WithFiles(j, f, o) == [j EXCEPT !.f = f, !.o = o]
Transferred(j) ==
    {WithFiles(j, f, o) :
        f \in IF j.f = "missing" THEN {"missing", "present", "failed"}
              ELSE {j.f},
        o \in IF j.o = "present" THEN {"present", "uploaded", "failed"}
              ELSE {j.o}}

FileXfers ==
    /\ phase = "xfer"
    /\ job' \in [Results -> UNION {Transferred(job[r]) : r \in Results}]
    /\ \A r \in Results :
          IF r \in Known THEN job'[r] \in Transferred(job[r])
          ELSE job'[r] = job[r]
    /\ phase' = "finished"
    /\ UNCHANGED <<schedVars, suspended, users>>

-----------------------------------------------------------------------------
(***************************************************************************)
(* CLIENT_STATE::handle_finished_apps and app_finished.  o is what the     *)
(* scan of the output files finds, when there is one; the task is deleted, *)
(* and with it the client's knowledge of the process.                      *)
(***************************************************************************)
Scanned(j) == j.s.exit # "aborted" /\ j.o # "uploaded"

app_finished(j, o) ==
    LET had_error == j.s.exit # "ok" \/ (Scanned(j) /\ o = "failed")
    IN  [j EXCEPT
           !.t = NoTask,
           !.o = IF Scanned(j) THEN o ELSE @,
           !.s.state = IF ~had_error THEN "UPLOADING"
                       ELSE IF j.s.exit = "aborted" THEN "ABORTED"
                       ELSE "COMPUTE_ERROR"]

HandleFinishedApps ==
    /\ phase = "finished"
    /\ LET over == {r \in Results : job[r].t.st \in Over}
       IN  /\ \E o \in [over -> {"none", "present", "failed"}] :
                 job' = [r \in Results |->
                           IF r \in over THEN app_finished(job[r], o[r])
                           ELSE job[r]]
           /\ mustSchedule' = (mustSchedule \/ over # {})
    /\ phase' = "schedule"
    /\ UNCHANGED <<scheduled, mustEnforce, suspended, users>>

-----------------------------------------------------------------------------
(***************************************************************************)
(* The CPU schedule, left alone while computing is suspended.              *)
(***************************************************************************)
\* possibly_schedule_cpus: when requested, and once per scheduling period.
\* Which results it prefers, and which fit in memory, is left open.
ScheduleCpus ==
    /\ phase = "schedule" /\ ~suspended
    /\ Known # {}
    /\ \E S \in SUBSET {r \in Results : runnable(job[r].s)} :
          Cardinality(S) <= NCpus /\ scheduled' = S
    /\ mustSchedule' = FALSE /\ mustEnforce' = TRUE
    /\ phase' = "enforce"
    /\ UNCHANGED <<job, suspended, users>>

KeepSchedule ==
    /\ phase = "schedule"
    /\ suspended \/ ~mustSchedule \/ Known = {}
    /\ phase' \in IF suspended THEN {"rpc"}
                  ELSE IF mustEnforce THEN {"enforce"} ELSE {"enforce", "rpc"}
    /\ UNCHANGED <<job, schedVars, suspended, users>>

\* The tasks make_running_task_heap finds.
Running == {r \in Results : /\ job[r].t.st # "none" /\ job[r].t.sched
                            /\ runnable(job[r].s)}

\* Which tasks enforce_schedule lets run: some of those that run, and
\* results of the list, whatever has become of them since it was made (what
\* the list may do with deleted results is the subject of CpuSched).  A
\* result without a task is not too large, so it gets any CPU left over.
Enforceable(S) ==
    /\ S \subseteq Running \cup (scheduled \cap Known)
    /\ Cardinality(S) <= NCpus
    /\ \A r \in (scheduled \cap Known) \ S :
          job[r].t.st # "none" \/ Cardinality(Running \cup S) >= NCpus

\* enforce_schedule for a task that shall run.
run_task(j, how) ==
    LET new == IF j.t.st = "none" THEN [j EXCEPT !.t.st = "UNINITIALIZED"]
               ELSE j
    IN  CASE new.t.st = "SUSPENDED" ->
               [new EXCEPT !.t = [unsuspend(@) EXCEPT !.sched = TRUE]]
          [] new.t.st = "UNINITIALIZED" /\ how = "forked" ->
               [start(new, how) EXCEPT !.t.sched = TRUE]
          [] new.t.st = "UNINITIALIZED" /\ how # "forked" -> start(new, how)
          [] OTHER -> [new EXCEPT !.t.sched = TRUE]

\* enforce_schedule for a task that shall not run; quit if applications are
\* not left in memory.
stop_task(j, quit) ==
    CASE j.t.st = "none" -> j
      [] j.t.st = "EXECUTING" \/ (j.t.st = "SUSPENDED" /\ j.t.ckpt /\ quit) ->
           [j EXCEPT !.t = [preempt(@, quit) EXCEPT !.sched = FALSE]]
      [] OTHER -> [j EXCEPT !.t.sched = FALSE]

EnforceSchedule ==
    /\ phase = "enforce"
    /\ \E S \in SUBSET Results, quit \in SUBSET Results,
          how \in [Results -> StartResults] :
        /\ Enforceable(S)
        /\ \A r \in S : CanStart(job[r], how[r])
        /\ job' = [r \in Results |-> IF r \in S THEN run_task(job[r], how[r])
                                     ELSE stop_task(job[r], r \in quit)]
        /\ mustSchedule' = (mustSchedule \/ \E r \in S :
              /\ job[r].t.st \in {"none", "UNINITIALIZED"}
              /\ how[r] # "forked")
    /\ mustEnforce' = FALSE
    /\ phase' = "rpc"
    /\ UNCHANGED <<scheduled, suspended, users>>

-----------------------------------------------------------------------------
(***************************************************************************)
(* The scheduler's reply: new results, acknowledgements of results that    *)
(* were ready to report, and results to abort, always or if they have not  *)
(* been started.                                                           *)
(***************************************************************************)
\* handle_scheduler_reply for one result.
handle_reply(j, new, ack, abort, unstarted) ==
    LET acked == [j EXCEPT !.s.state = IF new THEN "NEW" ELSE @,
                           !.s.ack = @ \/ ack]
        told  == IF abort THEN Aborted(acked, "aborted") ELSE acked
    IN  IF unstarted /\ told.t.st = "none"
        THEN [told EXCEPT !.s = abort_inactive(@, "aborted")] ELSE told

SchedulerReply ==
    /\ phase = "rpc"
    /\ \E new \in SUBSET {r \in Results : job[r].s.state = "unsent"},
          acks \in SUBSET {r \in Known : job[r].s.ready},
          aborts \in SUBSET Known, unstarted \in SUBSET Known :
        job' = [r \in Results |->
                  handle_reply(job[r], r \in new, r \in acks, r \in aborts,
                               r \in unstarted)]
    /\ phase' = "idle"
    /\ UNCHANGED <<schedVars, suspended, users>>

-----------------------------------------------------------------------------
(***************************************************************************)
(* Between the passes, commands of the user arrive.                        *)
(***************************************************************************)
Command(touched) ==
    /\ phase = "idle" /\ users < MaxUser
    /\ users' = users + 1
    /\ UNCHANGED <<suspended, phase, touched>>

\* handle_result_op.
AbortResult(r) ==
    /\ Command(<<scheduled, mustEnforce>>)
    /\ r \in Known
    /\ job' = [job EXCEPT ![r] = Aborted(@, "aborted")]
    /\ mustSchedule' = TRUE

SuspendResult(r, susp) ==
    /\ Command(<<scheduled, mustEnforce>>)
    /\ r \in Known
    /\ job' = [job EXCEPT ![r].s.susp = susp]
    /\ mustSchedule' = TRUE

\* handle_set_proxy_settings: every application is told.
SetProxy ==
    /\ Command(schedVars)
    /\ job' = [r \in Results |->
                 IF ~process_exists(job[r].t) THEN job[r]
                 ELSE [job[r] EXCEPT !.t = msg_queue_send(@, "reread")]]

\* reset_project: all tasks are ended and deleted, all results dropped.
ResetProject ==
    /\ Command(<<mustEnforce>>)
    /\ job' = [r \in Results |->
                 IF r \in Known THEN [NoJob EXCEPT !.s.state = "gone"]
                 ELSE job[r]]
    /\ scheduled' = {}
    /\ mustSchedule' = TRUE

-----------------------------------------------------------------------------
(***************************************************************************)
(* The applications, and time.  A process reads its messages also while it *)
(* is suspended, or never.                                                 *)
(***************************************************************************)
\* Between these functions of the pass the client looks at the processes;
\* what they do in between can as well happen then.
Observed == {"idle", "poll", "gc", "enforce", "rpc"}

\* What a message makes of a process.
Handled(pst, m) ==
    CASE m = "suspend" -> "stop"
      [] m = "resume" -> "run"
      [] m \in {"quit", "abort"} -> "zombie"
      [] m = "reread" -> pst

Process(r, t) ==
    /\ Alive(job[r].t) /\ phase \in Observed
    /\ job' = [job EXCEPT ![r].t = t]
    /\ UNCHANGED <<schedVars, suspended, phase, users>>

ReadMsg(r) ==
    LET t == job[r].t
    IN  /\ t.chan # "none"
        /\ Process(r, [t EXCEPT !.chan = "none",
                                !.pst = Handled(@, t.chan),
                                !.status = IF t.chan = "abort" THEN "error"
                                           ELSE "quit"])

ProcExit(r) ==
    \E status \in IF job[r].t.pst = "run"
                  THEN {"done", "quit", "error", "killed"}
                  ELSE {"killed"} :
        Process(r, [job[r].t EXCEPT !.pst = "zombie", !.status = status])

Next ==
    \/ FullPass \/ ShortPass
    \/ \E late \in SUBSET Results : Poll(late)
    \/ GarbageCollect
    \/ UpdateResults
    \/ FileXfers
    \/ HandleFinishedApps
    \/ ScheduleCpus \/ KeepSchedule
    \/ EnforceSchedule
    \/ SchedulerReply
    \/ SetProxy \/ ResetProject
    \/ \E r \in Results :
          \/ AbortResult(r)
          \/ \E susp \in BOOLEAN : SuspendResult(r, susp)
          \/ ReadMsg(r) \/ ProcExit(r)

Spec == Init /\ [][Next]_vars

(***************************************************************************)
(* Fairness: the client's loop goes on, and again and again a pass comes a *)
(* second or more after the last one (every pass ends, so this is the      *)
(* strong fairness of FullPass); timeouts pass; an upload ends one way or  *)
(* another (UploadSettles of module FileXfer).  Nothing is assumed of      *)
(* applications.                                                           *)
(***************************************************************************)
Pass == \/ \E late \in SUBSET Results : Poll(late)
        \/ GarbageCollect \/ UpdateResults \/ FileXfers
        \/ HandleFinishedApps \/ ScheduleCpus \/ KeepSchedule
        \/ EnforceSchedule \/ SchedulerReply

FairSpec ==
    /\ Spec
    /\ WF_vars(Pass) /\ []<><<FullPass>>_vars
    /\ \A r \in Results :
          /\ SF_vars(\E late \in SUBSET Results : r \in late /\ Poll(late))
          /\ SF_vars(FileXfers /\ job'[r].o # "present")

-----------------------------------------------------------------------------
(***************************************************************************)
(* Properties.                                                             *)
(***************************************************************************)
\* Every variable has its type.
TypeOK ==
    /\ job \in [Results -> Job]
    /\ scheduled \in SUBSET Results
    /\ {mustSchedule, mustEnforce, suspended} \subseteq BOOLEAN
    /\ phase \in {"idle", "poll", "gc", "update", "xfer", "finished",
                  "schedule", "enforce", "rpc"}
    /\ users \in 0..MaxUser

\* What is on its way to the process of t: the channel, then the queue.
Sent(t, i) == IF i = 0 THEN t.chan ELSE t.q[i]
Mute == {"none", "reread"}

\* Once the process of t has read the channel and n messages of the queue it
\* is in state p: the last of them that changes its state says so.
Becomes(t, n, p) ==
    \/ /\ \A i \in 0..n : Sent(t, i) \in Mute
       /\ t.pst = p
    \/ \E i \in 0..n :
         /\ Sent(t, i) \notin Mute /\ Handled(t.pst, Sent(t, i)) = p
         /\ \A k \in (i + 1)..n : Sent(t, k) \in Mute

\* When a process has read all it was sent it computes, has stopped or has
\* ended as its task's state says: MSG_QUEUE's sending, deferring, polling
\* and purging of messages never lets the two get out of step.
MessagesMatchState ==
    \A r \in Results :
        LET t == job[r].t IN
        Alive(t) =>
            /\ t.st = "EXECUTING" => Becomes(t, Len(t.q), "run")
            /\ t.st = "SUSPENDED" => Becomes(t, Len(t.q), "stop")
            /\ t.st \in Pending   => Becomes(t, Len(t.q), "zombie")

\* A task that may be started has no process left (start would fork a
\* second one into the same slot), and a process that the client believes
\* to exist has not been waited for: what is killed, waited for and
\* restarted stays in step.
OneProcess ==
    \A r \in Results :
        /\ job[r].t.st = "UNINITIALIZED" => ~Alive(job[r].t)
        /\ process_exists(job[r].t) => job[r].t.pst # "none"

\* The stage of a RESULT s.
Stage(s) ==
    CASE s.state = "unsent" -> "unsent"
      [] s.state = "gone"   -> "dropped"
      [] OTHER -> IF s.ack THEN "acked" ELSE IF s.ready THEN "ready" ELSE "held"

Life == INSTANCE ResultLife
            WITH Results <- Results,
                 life <- [r \in Results |-> Stage(job[r].s)]

\* Whatever becomes of its task and its process, and whichever function
\* gives it up, a result is dropped only after the server's acknowledgement
\* or by a reset, its report is never withdrawn, and it is not taken up
\* again when it has been dropped.
ResultsAccountedFor == Life!LifeSpec

\* A process that was told to abort or to quit is gone after a while, even
\* if it never reads the message (poll kills it) - unless it is told to
\* abort again in between: abort_task then calls the task ABORTED while its
\* process lives (app_control.C:621), and nobody kills it any more.
CalledAborted(t) == t.st = "ABORTED" /\ Alive(t)
PendingEnds ==
    \A r \in Results :
        (job[r].t.st \in Pending) ~>
            \/ job[r].t.st \notin Pending /\ ~Alive(job[r].t)
            \/ CalledAborted(job[r].t)

\* A result whose computation ended, in whatever way, becomes ready to be
\* reported, or is dropped.
ResultSettles ==
    \A r \in Results :
        (job[r].s.state \in Finished)
            ~> (job[r].s.ready \/ job[r].s.state = "gone")

\* A task is aborted only when its process has ended (common_defs.h).  It
\* does not hold for an abort of a task that is quitting or being aborted.
AbortedHasExited ==
    \A r \in Results : job[r].t.st = "ABORTED" => ~Alive(job[r].t)

=============================================================================
