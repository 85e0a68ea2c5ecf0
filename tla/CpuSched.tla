------------------------------ MODULE CpuSched ------------------------------
(***************************************************************************)
(* The CPU scheduler: schedule_cpus makes ordered_scheduled_results,       *)
(* enforce_schedule starts, resumes and preempts tasks after it, and both  *)
(* live with everything that changes underneath: results that finish, are  *)
(* aborted, acknowledged and deleted, memory that applications use, the    *)
(* number of CPUs, and computing that is suspended and resumed, for        *)
(* benchmarks too.                                                         *)
(*                                                                         *)
(* The functions of one pass of poll_slow_events are steps of their own    *)
(* (phase); the commands of the user arrive between the passes.  How a     *)
(* task talks to its process is the subject of ActiveTasks; here a process *)
(* is what its task_state says.  Durations are choices: which tasks have   *)
(* run for a scheduling period or have checkpointed, which deadlines the   *)
(* round-robin simulation sees missed.  The debts are left out, since they *)
(* decide nothing (see schedule_cpus).  ncpus_used counts one CPU for each *)
(* application: avg_ncpus matters only where suspend_all asks for it.      *)
(***************************************************************************)
EXTENDS Integers, Sequences, FiniteSets, FiniteSetsExt, SequencesExt

CONSTANTS
    Results,          \* results the schedulers may send
    Projects,
    ProjectOf,        \* the project of each result
    NonCpuIntensive,  \* projects with non_cpu_intensive
    PartCpu,          \* results whose application has avg_ncpus < 1.0
    Deadline,         \* report_deadline of each result
    MaxCpus,          \* ncpus is 1..MaxCpus, as the preferences say
    RamBusy, RamIdle, \* available_ram while the user is active, and not
    MaxRss            \* bound: memory an application uses

ASSUME CpuSchedAssumption ==
    /\ IsFiniteSet(Results) /\ NonCpuIntensive \subseteq Projects
    /\ ProjectOf \in [Results -> Projects] /\ PartCpu \subseteq Results
    /\ Deadline \in [Results -> Nat]
    /\ MaxCpus \in Nat \ {0}
    /\ {RamBusy, RamIdle, MaxRss} \subseteq Nat

(***************************************************************************)
(* A RESULT and its ACTIVE_TASK.  state: DONE stands for COMPUTE_ERROR,    *)
(* UPLOADING, UPLOADED and ABORTED, reported or not, FAILED for            *)
(* COMPUTE_ERROR because a download failed, and ACKED for got_server_ack   *)
(* in any of them; "gone" results have been deleted.                       *)
(* task: "none" if there is no ACTIVE_TASK; OVER stands for the five       *)
(* states handle_finished_apps takes as the end.                           *)
(***************************************************************************)
Job == [state : {"unsent", "DOWNLOADING", "DOWNLOADED", "DONE", "FAILED",
                 "ACKED", "gone"},
        susp : BOOLEAN,        \* suspended_via_gui, its own or its project's
        task : {"none", "UNINITIALIZED", "EXECUTING", "SUSPENDED",
                "QUIT_PENDING", "ABORT_PENDING", "OVER"},
        sched : BOOLEAN,       \* scheduler_state is CPU_SCHED_SCHEDULED
        large : BOOLEAN,       \* too_large
        rss : 0..MaxRss]       \* procinfo.working_set_size_smoothed
NoTask(j) == [j EXCEPT !.task = "none", !.sched = FALSE, !.large = FALSE,
                       !.rss = 0]
Unsent == [state |-> "unsent", susp |-> FALSE, task |-> "none",
           sched |-> FALSE, large |-> FALSE, rss |-> 0]

VARIABLES
    job,          \* results and active_tasks
    plan,         \* ordered_scheduled_results
    mustSchedule, \* must_schedule_cpus
    mustEnforce,  \* must_enforce_cpu_schedule
    ncpus,
    userActive,   \* user_active
    suspended,    \* "no" if not tasks_suspended, or last_suspend_reason
    bench,        \* benchmarks_running: "off", the first 10 seconds, later
    phase         \* how far the pass of poll_slow_events has come

flags == <<mustSchedule, mustEnforce>>
hostVars == <<ncpus, userActive, suspended, bench>>
vars == <<job, plan, flags, hostVars, phase>>

\* CLIENT_STATE::init with no results yet; the user may have suspended the
\* projects.
Init ==
    /\ \E s \in BOOLEAN : job = [r \in Results |-> [Unsent EXCEPT !.susp = s]]
    /\ plan = <<>>
    /\ mustSchedule = TRUE /\ mustEnforce = TRUE
    /\ ncpus = MaxCpus
    /\ userActive = TRUE
    /\ suspended = "no"
    /\ bench = "off"
    /\ phase = "idle"

Known == {r \in Results : job[r].state \notin {"unsent", "gone"}}
CpuIntensive == {r \in Results : ProjectOf[r] \notin NonCpuIntensive}

\* Mutant of runnable: the state is not asked.
runnable_once_sent(j) == ~j.susp

\* RESULT::runnable.
runnable(j) == j.state = "DOWNLOADED" /\ ~j.susp

\* RESULT::not_started.
not_started(j) == j.task = "none" /\ j.state \in {"DOWNLOADING", "DOWNLOADED"}

\* CLIENT_STATE::available_ram and max_available_ram.
available_ram == IF userActive THEN RamBusy ELSE RamIdle
max_available_ram == Max({RamBusy, RamIdle})

-----------------------------------------------------------------------------
(***************************************************************************)
(* Operations on one job.                                                  *)
(***************************************************************************)
\* ACTIVE_TASK::preempt; applications that have not checkpointed stay.
preempt(j, quit, ckpt) ==
    [j EXCEPT !.task = IF quit /\ ckpt THEN "QUIT_PENDING" ELSE "SUSPENDED"]

\* The result's computation is over; that the user has suspended it is
\* forgotten, since it no longer matters.
Ended(j) == [j EXCEPT !.state = IF @ \in {"ACKED", "FAILED"} THEN @ ELSE "DONE",
                      !.susp = FALSE]

\* ACTIVE_TASK::abort_task.
abort_task(j) ==
    [Ended(j) EXCEPT !.task = IF @ \in {"EXECUTING", "SUSPENDED"}
                              THEN "ABORT_PENDING" ELSE "OVER"]

\* What handle_result_op and handle_scheduler_reply do to abort a result:
\* abort_task, or RESULT::abort_inactive if there is no task.
Aborted(j) == IF j.task = "none" THEN Ended(j) ELSE abort_task(j)

(***************************************************************************)
(* ACTIVE_TASK::start: the application is forked, input files turn out     *)
(* missing and the result goes back to downloading them, there is no       *)
(* shared memory, or something else fails.  In the second and third case   *)
(* resume_or_start finds the task UNINITIALIZED still and returns 0.       *)
(***************************************************************************)
StartResults == {"forked", "files", "shmem", "error"}
start(j, how) ==
    CASE j.state \in {"DOWNLOADING", "FAILED"} \/ how = "files" ->
           [j EXCEPT !.state = "DOWNLOADING"]
      [] j.state \notin {"DOWNLOADING", "FAILED"} /\ how = "forked" ->
           [j EXCEPT !.task = "EXECUTING"]
      [] j.state \notin {"DOWNLOADING", "FAILED"} /\ how = "error" ->
           [Ended(j) EXCEPT !.task = "OVER"]
      [] OTHER -> j

-----------------------------------------------------------------------------
(***************************************************************************)
(* A pass begins: benchmarks start when they are due, and computing is     *)
(* suspended, goes on, or nothing changes.                                 *)
(***************************************************************************)
\* Applications that ACTIVE_TASK_SET::suspend_all leaves alone when it is
\* told that the CPU is throttled: they do not use a full CPU.
Unthrottled(r) == r \notin CpuIntensive \/ r \in PartCpu

\* ACTIVE_TASK_SET::suspend_all(cpu_throttle).
suspend_all(throttle, leave, ckpt) ==
    [r \in Results |->
       IF job[r].task # "EXECUTING" \/ (throttle /\ Unthrottled(r)) THEN job[r]
       ELSE preempt(job[r], ~throttle /\ ~leave, r \in ckpt)]

\* CLIENT_STATE::suspend_tasks, which passes leave_apps_in_memory on as
\* suspend_all's cpu_throttle.
suspend_tasks(reason, leave, ckpt) ==
    suspend_all(reason = "throttle" \/ leave, leave, ckpt)

\* Mutant of unsuspend_all: scheduler_state is not asked.
unsuspend_everything(how) ==
    [r \in Results |->
       CASE job[r].task = "UNINITIALIZED" -> start(job[r], how)
         [] job[r].task = "SUSPENDED" -> [job[r] EXCEPT !.task = "EXECUTING"]
         [] OTHER -> job[r]]

\* ACTIVE_TASK_SET::unsuspend_all; a failure to start is only reported.
unsuspend_all(how) ==
    [r \in Results |->
       CASE ~job[r].sched -> job[r]
         [] job[r].sched /\ job[r].task = "UNINITIALIZED" -> start(job[r], how)
         [] job[r].sched /\ job[r].task = "SUSPENDED" ->
              [job[r] EXCEPT !.task = "EXECUTING"]
         [] OTHER -> job[r]]

\* Mutant of Suspensions: benchmarks do not suspend computing.
SuspensionsOnly(b) == {"no", "throttle", "other"}

\* What check_suspend_processing may answer; benchmarks come first.
Suspensions(b) ==
    IF b # "off" THEN {"other"} ELSE {"no", "throttle", "other"}

\* cpu_benchmarks_poll, given benchmarks b and jobs j: after 10 seconds they
\* are given up if an application is executing still.
PolledBenchmarks(b, j) ==
    CASE b = "off"   -> {"off"}
      [] b # "off" /\ \E r \in Results : j[r].task = "EXECUTING" ->
           {b, "off"} \ {"late"}
      [] OTHER -> {b, "late"} \cup (IF b = "late" THEN {"off"} ELSE {})

\* The start of poll_slow_events.  In a pass less than a second after the
\* last one, the functions from active_tasks.poll to handle_finished_apps
\* return at once.
BeginPass(full) ==
    /\ phase = "idle"
    /\ \E b \in {bench} \cup (IF suspended = "no" /\ bench = "off"
                             THEN {"early"} ELSE {}) :
        /\ suspended' \in Suspensions(b)
        /\ job' \in CASE suspended = "no" /\ suspended' # "no" ->
                          {suspend_tasks(suspended', leave, ckpt) :
                              leave \in BOOLEAN, ckpt \in SUBSET Results}
                     [] suspended # "no" /\ suspended' = "no" ->
                          {unsuspend_all(how) : how \in StartResults}
                     [] OTHER -> {job}
        /\ userActive' \in BOOLEAN
        /\ mustSchedule' = (\/ mustSchedule
                            \/ userActive' # userActive
                            \/ suspended = "other" /\ suspended' = "no")
        /\ bench' \in PolledBenchmarks(b, job')
    /\ phase' = IF full THEN "poll" ELSE "cpus"
    /\ UNCHANGED <<plan, mustEnforce, ncpus>>

FullPass  == BeginPass(TRUE)
ShortPass == BeginPass(FALSE)

-----------------------------------------------------------------------------
(***************************************************************************)
(* ACTIVE_TASK_SET::poll.  What may have happened to a process since the   *)
(* last poll: it checkpointed, finished or failed, was killed or has quit, *)
(* exceeds its CPU time or disk limit, did not exit in time, or has been   *)
(* told to abort and did not read that for 180 seconds ("hung").  The kill *)
(* of another hung process and the wait that finds it dead are one event.  *)
(***************************************************************************)
Exits == {"end", "fail", "restart"}
Events(j) ==
    {"go"} \cup
    CASE j.task = "EXECUTING"     -> Exits \cup {"checkpoint", "limit"}
      [] j.task = "SUSPENDED"     -> Exits \cup {"checkpoint"}
      [] j.task = "QUIT_PENDING"  -> Exits \cup {"late"}
      [] j.task = "ABORT_PENDING" -> {"end", "hung", "late"}
      [] OTHER                    -> {}

\* check_app_exited and handle_exited_app; process_control_poll kills a hung
\* process to restart it, also that of a task being aborted.
check_app_exited(j, e) ==
    CASE e = "end"     -> [j EXCEPT !.task = "OVER"]
      [] e = "fail"    -> [Ended(j) EXCEPT !.task = "OVER"]
      [] e \in {"restart", "hung"} -> [j EXCEPT !.task = "UNINITIALIZED"]
      [] OTHER         -> j

\* get_memory_usage; if it looks (every 10 seconds), it finds nothing where
\* there is no process.
process_exists(j) == j.task \notin {"none", "UNINITIALIZED", "OVER"}
get_memory_usage(j, size) ==
    IF ~j.sched \/ size = j.rss THEN j
    ELSE [j EXCEPT !.rss = IF process_exists(j) THEN size ELSE 0]
Sizes == {s \in [Results -> 0..MaxRss] :
            \A r \in Results : job[r].sched \/ s[r] = job[r].rss}

\* check_rsc_limits_exceeded, get_msgs and the timeouts.
Limited(j, e) ==
    IF j.task = "EXECUTING" /\ (e = "limit" \/ j.rss > max_available_ram)
    THEN abort_task(j) ELSE j
Answered(j, e) ==
    IF e # "late" THEN j
    ELSE [j EXCEPT !.task = IF @ = "QUIT_PENDING" THEN "UNINITIALIZED"
                            ELSE "OVER"]

Poll ==
    /\ phase = "poll"
    /\ \E size \in Sizes :
       \E e \in {f \in [Results -> UNION {Events(job[r]) : r \in Results}] :
                  \A r \in Results : f[r] \in Events(job[r])} :
       LET limited == [r \in Results |->
             Limited(get_memory_usage(check_app_exited(job[r], e[r]), size[r]),
                     e[r])]
           executing == {r \in Results : limited[r].task = "EXECUTING"}
       IN  /\ job' = [r \in Results |-> Answered(limited[r], e[r])]
           /\ mustSchedule' =
                 (\/ mustSchedule
                  \/ \E r \in Results : e[r] \in Exits
                  \/ available_ram
                       < MapThenSumSet(LAMBDA r : limited[r].rss, executing))
           /\ mustEnforce' =
                 (\/ mustEnforce
                  \/ \E r \in Results : e[r] \in {"checkpoint", "hung"}
                  \/ \E r \in Results :
                       e[r] = "late" /\ job[r].task = "QUIT_PENDING")
    /\ phase' = "clean"
    /\ UNCHANGED <<plan, hostVars>>

-----------------------------------------------------------------------------
(***************************************************************************)
(* The functions between active_tasks.poll and the scheduler.  None of     *)
(* them asks for a schedule because it has aborted or deleted a result.    *)
(***************************************************************************)
\* garbage_collect: abort_unstarted_late_jobs, and garbage_collect_always if
\* there were none.
CollectedAcked(j) ==
    CASE j.state = "ACKED" /\ j.task = "none" -> [Unsent EXCEPT !.state = "gone"]
      [] j.state = "ACKED" /\ j.task # "none" -> abort_task(j)
      [] OTHER -> j
garbage_collect(late, failed) ==
    [r \in Results |->
       CASE r \in late -> Ended(job[r])
         [] late = {} /\ r \in failed ->
              [Ended(job[r]) EXCEPT !.state = "FAILED"]
         [] late = {} /\ r \notin failed -> CollectedAcked(job[r])
         [] OTHER -> job[r]]

\* update_results: some downloads have been completed.
Downloading(jobs) == {r \in Results : jobs[r].state = "DOWNLOADING"}
update_results(jobs, done) ==
    [r \in Results |-> IF r \in done THEN [jobs[r] EXCEPT !.state = "DOWNLOADED"]
                       ELSE jobs[r]]

\* handle_finished_apps and app_finished.
Finished(jobs) == {r \in Results : jobs[r].task = "OVER"}
handle_finished_apps(jobs) ==
    [r \in Results |-> IF r \in Finished(jobs) THEN NoTask(Ended(jobs[r]))
                       ELSE jobs[r]]

\* Mutant of RequestedBy: finished applications ask for no schedule.
RequestedByDownloads(done, finished) == done # {}

\* request_schedule_cpus for files downloaded and for finished applications.
RequestedBy(done, finished) == done # {} \/ finished # {}

CleanUp ==
    /\ phase = "clean"
    /\ \E late \in SUBSET {r \in Results : not_started(job[r])},
          failed \in SUBSET Downloading(job) :
       LET collected == garbage_collect(late, failed)
       IN  \E done \in SUBSET Downloading(collected) :
           LET updated == update_results(collected, done)
           IN  /\ job' = handle_finished_apps(updated)
               /\ mustSchedule' = (\/ mustSchedule
                                   \/ RequestedBy(done, Finished(updated)))
    /\ phase' = "cpus"
    /\ UNCHANGED <<plan, mustEnforce, hostVars>>

-----------------------------------------------------------------------------
(***************************************************************************)
(* possibly_schedule_cpus and schedule_cpus.  The loop over                *)
(* earliest_deadline_result takes the runnable results of all projects in  *)
(* the order of their deadlines, a started one first among equals, until   *)
(* the CPUs are used up.  The loop over assign_results_to_projects, by     *)
(* debt, only ever runs once that loop has marked every candidate          *)
(* already_selected, and finds nothing.                                    *)
(***************************************************************************)
EarlierDeadline(a, b) ==
    \/ Deadline[a] < Deadline[b]
    \/ Deadline[a] = Deadline[b] /\ (job[a].task # "none" \/ job[b].task = "none")
DeadlineOrders ==
    {s \in SetToSeqs({r \in CpuIntensive : runnable(job[r])}) :
       \A i \in 1..(Len(s) - 1) : EarlierDeadline(s[i], s[i + 1])}

\* One round of the loop, with schedule_if_possible.
schedule_if_possible(acc, r) ==
    CASE acc.used >= ncpus -> acc
      [] acc.used < ncpus /\ job[r].rss > acc.ram ->
           [acc EXCEPT !.large = @ \cup {r}]
      [] OTHER ->
           [acc EXCEPT !.list = Append(@, r), !.used = @ + 1,
                       !.ram = @ - job[r].rss]

Scheduling(s) ==
    FoldLeft(schedule_if_possible,
             [list |-> <<>>, used |-> 0, ram |-> available_ram, large |-> {}], s)

\* A schedule is made when requested, and once per scheduling period.
ScheduleCpus ==
    /\ phase = "cpus" /\ suspended = "no" /\ Known # {}
    /\ \E s \in DeadlineOrders :
        LET done == Scheduling(s)
        IN  /\ plan' = done.list
            /\ job' = [r \in Results |-> [job[r] EXCEPT !.large = r \in done.large]]
    /\ mustSchedule' = FALSE /\ mustEnforce' = TRUE
    /\ phase' = "enforce"
    /\ UNCHANGED hostVars

KeepSchedule ==
    /\ phase = "cpus"
    /\ suspended # "no" \/ ~mustSchedule \/ Known = {}
    /\ phase' = IF suspended # "no" THEN "idle" ELSE "enforce"
    /\ UNCHANGED <<job, plan, flags, hostVars>>

-----------------------------------------------------------------------------
(***************************************************************************)
(* enforce_schedule.  The record st holds its variables: the tasks whose   *)
(* next_scheduler_state is SCHEDULED (next), running_tasks, ncpus_used,    *)
(* ram_left, deadlines_missed, and the tasks that are too_large.  age is   *)
(* running_tasks from the one that runs the shortest to the longest time,  *)
(* ripe those that have run for a scheduling period and checkpointed in    *)
(* the last 10 seconds.  A heap of up to two tasks has its largest element *)
(* in front whatever has changed since it was made, which is assumed here. *)
(***************************************************************************)
\* The tasks make_running_task_heap finds.
Running == {r \in CpuIntensive : /\ job[r].task # "none" /\ job[r].sched
                                 /\ runnable(job[r])}

\* t1 is more preemptable than t0.
more_preemptable(t0, t1, missed, age) ==
    LET late(t) == missed[ProjectOf[t]] > 0
    IN  CASE late(t0) # late(t1) -> late(t1)
          [] late(t0) /\ late(t1) /\ Deadline[t0] # Deadline[t1] ->
               Deadline[t0] > Deadline[t1]
          [] OTHER -> \E i, k \in 1..Len(age) : i < k /\ age[i] = t1 /\ age[k] = t0

MostPreemptable(st, age) ==
    CHOOSE t \in st.running :
      \A u \in st.running \ {t} : ~more_preemptable(t, u, st.missed, age)

Preempted(st, t) ==
    [st EXCEPT !.next = @ \ {t}, !.running = @ \ {t}, !.used = @ - 1]

\* The loop that marks tasks beyond ncpus for preemption.
Trimmed(st, age) ==
    IF st.used > ncpus THEN Preempted(st, MostPreemptable(st, age)) ELSE st
WithinCpus(st0, age) == FoldLeft(LAMBDA st, t : Trimmed(st, age), st0, age)

\* A task that runs already: it goes on if it fits in memory.
KeepTask(st, r) ==
    IF job[r].rss > st.ram
    THEN [Preempted(st, r) EXCEPT !.large = @ \cup {r}]
    ELSE [st EXCEPT !.running = @ \ {r}, !.ram = @ - job[r].rss,
                    !.large = @ \ {r}]

RunTask(st, r) ==
    [st EXCEPT !.next = @ \cup {r}, !.used = @ + 1, !.ram = @ - job[r].rss,
               !.large = @ \ {r}]

\* Mutant of preempt_if_needed: nothing makes room.
preempt_nothing(st, r, age, ripe) == RunTask(st, r)

\* A result that does not run yet: it may have to preempt a task.
preempt_if_needed(st, r, age, ripe) ==
    LET need  == st.used >= ncpus /\ st.running # {}
        front == MostPreemptable(st, age)
        late  == st.missed[ProjectOf[r]] > 0
    IN  CASE ~need -> RunTask(st, r)
          [] need /\ (late \/ front \in ripe) ->
               RunTask([Preempted(st, front) EXCEPT
                          !.missed[ProjectOf[r]] = IF late THEN @ - 1 ELSE 0], r)
          [] OTHER -> [st EXCEPT !.large = @ \ {r}]

\* The loop over ordered_scheduled_results.  Nothing is asked about the
\* result but whether its task runs and fits in memory.
Consider(st, r, age, ripe) ==
    CASE r \in st.running -> KeepTask(st, r)
      [] r \notin st.running /\ job[r].rss > st.ram ->
           [st EXCEPT !.large = @ \cup {r}]
      [] OTHER -> preempt_if_needed(st, r, age, ripe)

Considered(st0, age, ripe) ==
    FoldLeft(LAMBDA st, r : Consider(st, r, age, ripe), st0, plan)

\* Tasks that go on running without being in the list have to fit as well.
KeepOther(a, st, r) ==
    CASE r \notin st.running -> a
      [] r \in st.running /\ job[r].rss > a.ram ->
           [a EXCEPT !.next = @ \ {r}, !.large = @ \cup {r}]
      [] OTHER -> [a EXCEPT !.ram = @ - job[r].rss, !.large = @ \ {r}]
KeepOthers(st, age) == FoldLeft(LAMBDA a, r : KeepOther(a, st, r), st, age)

\* All of it up to the last loop.
Decided(missed, age, ripe) ==
    LET st0 == [next |-> {r \in Results : /\ job[r].task # "none" /\ job[r].sched
                                          /\ runnable(job[r])},
                running |-> Running, used |-> Cardinality(Running),
                ram |-> available_ram, missed |-> missed,
                large |-> {r \in Results : job[r].large}]
        st1 == Considered(WithinCpus(st0, age), age, ripe)
        st2 == KeepOthers(st1, age)
    IN  [next  |-> st2.next \cup {r \in Results \ CpuIntensive :
                                    runnable(job[r])},
         large |-> st2.large]

\* The last loop, for a task that shall run; get_task made it if need be.
Starts(r) == job[r].task \in {"none", "UNINITIALIZED"}
RunsNow(j, how) ==
    CASE j.task \in {"none", "UNINITIALIZED"} ->
           LET s == start([j EXCEPT !.task = "UNINITIALIZED"], how)
           IN  [s EXCEPT !.sched = @ \/ s.task = "EXECUTING"]
      [] j.task = "SUSPENDED" -> [j EXCEPT !.task = "EXECUTING", !.sched = TRUE]
      [] OTHER -> [j EXCEPT !.sched = TRUE]

StopsNow(j, leave, low_swap, ckpt) ==
    CASE j.task = "EXECUTING" ->
           [preempt(j, ~leave \/ low_swap \/ j.large, ckpt) EXCEPT !.sched = FALSE]
      [] j.task = "SUSPENDED" /\ ckpt /\ ~leave ->
           [preempt(j, TRUE, ckpt) EXCEPT !.sched = FALSE]
      [] OTHER -> [j EXCEPT !.sched = FALSE]

Enforced(r, st, how, leave, low_swap, ckpt) ==
    LET j == [job[r] EXCEPT !.large = r \in st.large]
    IN  IF r \in st.next THEN RunsNow(j, how)
        ELSE StopsNow(j, leave, low_swap, ckpt)

\* rr_simulation, reduced to how many results of each project it saw miss
\* their deadline.
rr_simulation == {m \in [Projects -> 0..Cardinality(CpuIntensive)] :
                    \A p \in NonCpuIntensive : m[p] = 0}

Decisions ==
    {Decided(missed, age, ripe) : missed \in rr_simulation,
                                  age \in SetToSeqs(Running),
                                  ripe \in SUBSET Running}

\* The last loop: some tasks fail to start (how), some that are stopped have
\* checkpointed (ckpt).
EnforceWith(st, leave, low_swap, ckpt, failing, how) ==
    /\ job' = [r \in Results |->
                 Enforced(r, st, IF r \in failing THEN how ELSE "forked",
                          leave, low_swap, r \in ckpt)]
    /\ mustSchedule' =
          (\/ mustSchedule
           \/ \E r \in st.next : Starts(r) /\ job'[r].task # "EXECUTING")

\* When requested, and once a minute.
EnforceSchedule ==
    /\ phase = "enforce"
    /\ \A i \in 1..Len(plan) : plan[i] \in Known
    /\ \E st \in Decisions, leave \in BOOLEAN, low_swap \in BOOLEAN :
       \E ckpt \in SUBSET {r \in Results \ st.next :
                             job[r].task \in {"EXECUTING", "SUSPENDED"}},
          failing \in SUBSET {r \in st.next : Starts(r)} :
       \E how \in IF failing = {} THEN {"forked"} ELSE StartResults \ {"forked"} :
          EnforceWith(st, leave, low_swap, ckpt, failing, how)
    /\ mustEnforce' = FALSE
    /\ phase' = "idle"
    /\ UNCHANGED <<plan, hostVars>>

KeepTasks ==
    /\ phase = "enforce" /\ ~mustEnforce
    /\ phase' = "idle"
    /\ UNCHANGED <<job, plan, flags, hostVars>>

\* A deleted result in the list: get_task reads freed memory, and anything
\* may happen; the model stops here.
EnforceDeleted ==
    /\ phase = "enforce"
    /\ \E i \in 1..Len(plan) : plan[i] \notin Known
    /\ phase' = "undefined"
    /\ UNCHANGED <<job, plan, flags, hostVars>>
Undefined == phase = "undefined" /\ UNCHANGED vars

-----------------------------------------------------------------------------
(***************************************************************************)
(* The end of a pass: a scheduler's reply with new results,                *)
(* acknowledgements, and results to abort (result_abort_if_not_started     *)
(* included).  handle_scheduler_reply asks for no schedule.                *)
(***************************************************************************)
Replied(j, new, ack, abort) ==
    LET k == [j EXCEPT !.state = CASE new -> "DOWNLOADING"
                                   [] ~new /\ ack -> "ACKED"
                                   [] OTHER -> @]
    IN  IF abort THEN Aborted(k) ELSE k

SchedulerReply ==
    /\ phase = "idle"
    /\ \E new \in SUBSET {r \in Results : job[r].state = "unsent"},
          acks \in SUBSET {r \in Results : job[r].state \in {"DONE", "FAILED"}},
          aborts \in SUBSET Known :
        /\ new \cup acks \cup aborts # {}
        /\ job' = [r \in Results |-> Replied(job[r], r \in new, r \in acks,
                                             r \in aborts)]
    /\ UNCHANGED <<plan, flags, hostVars, phase>>

-----------------------------------------------------------------------------
(***************************************************************************)
(* Commands of the user and his manager, between the passes.               *)
(***************************************************************************)
Command == phase = "idle"
Requested == mustSchedule' = TRUE /\ UNCHANGED <<mustEnforce, phase>>

\* handle_result_op: suspend and resume.  Suspending a project suspends all
\* its results.
SuspendResult(r) ==
    /\ Command /\ job[r].state \in {"DOWNLOADING", "DOWNLOADED"}
    /\ job' = [job EXCEPT ![r].susp = ~@]
    /\ Requested /\ UNCHANGED <<plan, hostVars>>

AbortResult(r) ==
    /\ Command /\ r \in Known
    /\ job' = [job EXCEPT ![r] = Aborted(@)]
    /\ Requested /\ UNCHANGED <<plan, hostVars>>

\* reset_project: its tasks exit, its results are deleted, and the list is
\* emptied.
ResetProject(p) ==
    /\ Command /\ \E r \in Known : ProjectOf[r] = p
    /\ job' = [r \in Results |-> IF r \in Known /\ ProjectOf[r] = p
                                 THEN [Unsent EXCEPT !.state = "gone"]
                                 ELSE job[r]]
    /\ plan' = <<>>
    /\ Requested /\ UNCHANGED hostVars

\* read_global_prefs and set_ncpus.
ChangePrefs(n) ==
    /\ Command /\ n # ncpus /\ ncpus' = n
    /\ Requested
    /\ UNCHANGED <<job, plan, userActive, suspended, bench>>

\* handle_run_benchmarks: start_cpu_benchmarks.
RunBenchmarks ==
    /\ Command /\ bench = "off" /\ bench' = "early"
    /\ UNCHANGED <<job, plan, flags, ncpus, userActive, suspended, phase>>

Next ==
    \/ FullPass \/ ShortPass
    \/ Poll \/ CleanUp
    \/ ScheduleCpus \/ KeepSchedule
    \/ EnforceSchedule \/ KeepTasks \/ EnforceDeleted \/ Undefined
    \/ SchedulerReply
    \/ \E r \in Results : SuspendResult(r) \/ AbortResult(r)
    \/ \E p \in Projects : ResetProject(p)
    \/ \E n \in 1..MaxCpus : ChangePrefs(n)
    \/ RunBenchmarks

Spec == Init /\ [][Next]_vars

-----------------------------------------------------------------------------
(***************************************************************************)
(* Properties.                                                             *)
(***************************************************************************)
\* Every variable has its type; the list of the scheduler names no result
\* twice and no result that has not arrived.
TypeOK ==
    /\ job \in [Results -> Job]
    /\ IsInjective(plan) /\ ToSet(plan) \subseteq CpuIntensive
    /\ \A r \in ToSet(plan) : job[r].state # "unsent"
    /\ {mustSchedule, mustEnforce, userActive} \subseteq BOOLEAN
    /\ suspended \in {"no", "throttle", "other"}
    /\ ncpus \in 1..MaxCpus /\ bench \in {"off", "early", "late"}
    /\ phase \in {"idle", "poll", "clean", "cpus", "enforce", "undefined"}

Executing == {r \in CpuIntensive : job[r].task = "EXECUTING"}

\* When a pass is over, the applications that execute use no more CPUs than
\* the preferences allow, and after an enforcement that was asked for no more
\* memory than there is, as last measured: although CPUs, memory limit, sizes
\* and the list change at different moments.
Memory == MapThenSumSet(LAMBDA r : job[r].rss, Executing)
LimitsKept ==
    [][phase = "enforce" /\ phase' = "idle" =>
         /\ Cardinality(Executing') <= ncpus
         /\ mustEnforce => Memory' <= available_ram]_vars

\* The tasks that hold a CPU: scheduled ones, and those whose result is over
\* or misses files.  A task that is being aborted uses its CPU until it exits,
\* and its exit, like the end of a download, asks for a new list.
Busy == {r \in CpuIntensive : /\ job[r].task # "none"
                              /\ job[r].sched \/ job[r].state # "DOWNLOADED"}

\* When a pass is over and a CPU is idle, no result that could use it is
\* forgotten: it is in the list, and runs when the list is enforced again
\* (within a minute, not a scheduling period), or a task that is too large
\* has been denied the CPU, or a new list has been asked for.
NoneForgotten ==
    phase = "idle" /\ ~mustSchedule /\ Cardinality(Busy) < ncpus
    => \A r \in CpuIntensive :
         runnable(job[r]) => \/ job[r].sched \/ r \in ToSet(plan)
                             \/ \E x \in CpuIntensive : job[x].large /\ ~job[x].sched

\* An application executes only while its task is scheduled and computing is
\* not suspended: neither resuming everything nor enforcing the schedule
\* undoes the other.  Applications that do not use a full CPU are excepted
\* while computing is suspended, and not for throttling only: suspend_tasks
\* passes leave_apps_in_memory on as cpu_throttle (cs_prefs.C:183), so with
\* that preference no suspension, whatever its reason, stops them.
SuspensionObeyed ==
    \A r \in Results : job[r].task = "EXECUTING" =>
        job[r].sched /\ (suspended = "no" \/ Unthrottled(r))

\* Benchmarks measure while no task is EXECUTING, of any application: what a
\* suspension spares makes cpu_benchmarks_poll give up.
BenchmarksAlone ==
    bench = "late" => \A r \in Results : job[r].task # "EXECUTING"

\* A result whose computation is over is not run again: cs_apps.C calls it
\* critical that a new list is asked for.  It does not hold.
FinishedNotRun ==
    \A r \in Results :
      job[r].task = "EXECUTING" => job[r].state \in {"DOWNLOADING", "DOWNLOADED"}
=============================================================================
