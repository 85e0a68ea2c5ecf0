----------------------------- MODULE SchedulerOp -----------------------------
(***************************************************************************)
(* Scheduler RPCs and master file fetches: SCHEDULER_OP, the part of       *)
(* PROJECT it drives, and CLIENT_STATE::scheduler_rpc_poll, which picks    *)
(* the next operation.  One operation runs at a time for all projects.     *)
(*                                                                         *)
(* scheduler_rpc_poll runs once in each pass of the main loop, before the  *)
(* state file is written; HTTP completions, GUI RPCs and the passing of    *)
(* time come between passes (phase "idle").  Times are relative to now.    *)
(***************************************************************************)
EXTENDS Naturals, FiniteSets, Backoff

CONSTANTS
    Projects,             \* projects the host may be attached to
    None,                 \* no project (a NULL cur_proj)
    Urls,                 \* scheduler URLs a master file may list
    MasterFetchPeriod,    \* master_fetch_period
    RetryCap,             \* retry_cap
    MasterFetchRetryCap,  \* master_fetch_retry_cap
    MasterFetchInterval,  \* master_fetch_interval, in ticks
    RetryMin,             \* sched_retry_delay_min, in ticks
    RetryMax,             \* sched_retry_delay_max, in ticks
    MaxDelay,             \* bound: longest request_delay of a reply
    MaxNext,              \* bound: longest next_rpc_delay of a reply
    PollsPerTick,         \* bound: calls of scheduler_rpc_poll (every 5 s)
                          \*   that come before a tick (a minute) passes
    MaxSeqno,             \* bound: rpc_seqno saturates here
    MaxFaults,            \* bound: crashes and network suspensions
    MaxUser               \* bound: commands of the user, and reconnections

ASSUME ProjectsAssumption == None \notin Projects
ASSUME PolicyAssumption ==
    /\ IsFiniteSet(Urls) /\ Urls # {}
    /\ MasterFetchPeriod \in Nat \ {0} /\ RetryCap \in Nat
    /\ MasterFetchRetryCap \in Nat \ {0}
    /\ MasterFetchInterval \in Nat \ {0}
    /\ RetryMin \in Nat \ {0} /\ RetryMax \in Nat /\ RetryMin <= RetryMax
    /\ MaxDelay \in Nat /\ MaxNext \in Nat /\ PollsPerTick \in Nat
    /\ MaxSeqno \in Nat /\ MaxFaults \in Nat /\ MaxUser \in Nat

\* No deferral is longer.
LongestWait == RetryMax + MasterFetchInterval + MaxDelay

(***************************************************************************)
(* PROJECT.  wait is min_rpc_time - now (0 when past).  next is 0 for an   *)
(* unset next_rpc_time, else 1 + next_rpc_time - now: 1 means due.         *)
(***************************************************************************)
Project == [urls : SUBSET Urls,                  \* scheduler_urls
            nrpc : 0..MasterFetchPeriod,         \* nrpc_failures
            mff : 0..MasterFetchRetryCap,        \* master_fetch_failures
            master : BOOLEAN,                    \* master_url_fetch_pending
            pending : {"none", "init", "req"},   \* sched_rpc_pending
            wait : 0..LongestWait,
            next : 0..(MaxNext + 1),
            hosted : BOOLEAN,                    \* hostid is not zero
            seqno : 0..MaxSeqno,                 \* rpc_seqno
            susp : BOOLEAN]                      \* suspended_via_gui

\* CLIENT_STATE::add_project: the RPC of a new project is pending.
NewProject == [urls |-> {}, nrpc |-> 0, mff |-> 0, master |-> FALSE,
               pending |-> "init", wait |-> 0, next |-> 0, hosted |-> FALSE,
               seqno |-> 0, susp |-> FALSE]

VARIABLES
    proj,         \* PROJECT objects
    attached,     \* CLIENT_STATE.projects, which the account files list
    opState,      \* SCHEDULER_OP.state
    cur,          \* SCHEDULER_OP.cur_proj
    urlIndex,     \* SCHEDULER_OP.url_index
    http,         \* our HTTP_OP: not in the set, working, done
    reqSeq,       \* the rpc_seqno in the request file
    srvSeq,       \* the last rpc_seqno the project's server has seen
    benchmarked,  \* host_info.p_calculated
    suspended,    \* network_suspended
    phase,        \* where the pass of the main loop is
    polls,        \* calls of scheduler_rpc_poll since time last mattered
    dirty,        \* client_state_dirty
    saved,        \* projects in client_state.xml
    savedSet,     \*   and which ones are there
    up,           \* the client runs
    faults, users,
    blamed        \* history: projects that failed us since the last tick

opVars   == <<opState, cur, urlIndex, http, reqSeq>>
envVars  == <<benchmarked, suspended, up, faults, users>>
fileVars == <<saved, savedSet>>
vars     == <<proj, attached, opVars, srvSeq, envVars, phase, polls, dirty,
              fileVars, blamed>>

Idle == up /\ phase = "idle"

Init ==
    /\ proj = [p \in Projects |-> NewProject]
    /\ attached \in SUBSET Projects
    /\ opState = "idle" /\ cur = None /\ urlIndex = 0 /\ http = "none"
    /\ reqSeq = 0 /\ srvSeq = [p \in Projects |-> 0]
    /\ benchmarked = FALSE /\ suspended = FALSE
    /\ phase = "idle" /\ polls = 0
    /\ dirty = FALSE
    /\ saved = proj /\ savedSet = {}
    /\ up = TRUE /\ faults = 0 /\ users = 0
    /\ blamed = {}

-----------------------------------------------------------------------------
(***************************************************************************)
(* Decisions of the code, as functions of a PROJECT r.                     *)
(***************************************************************************)

\* PROJECT::set_min_rpc_time(now + d): dropped if the project is already
\* deferred as long, or has asked for an RPC before then.
set_min_rpc_time(r, d) ==
    IF d <= r.wait \/ (r.next > 0 /\ d > r.next - 1) THEN r
    ELSE [r EXCEPT !.wait = d]

MoreMasterFailures(r) ==
    [r EXCEPT !.mff = IF @ < MasterFetchRetryCap THEN @ + 1 ELSE @]

\* Mutant of backoff: the count of failures is not reset at the period.
backoff_without_reset(r) ==
    UNION {{set_min_rpc_time([r EXCEPT !.nrpc = n], d) :
               d \in calculate_exponential_backoff(
                       IF n > RetryCap THEN RetryCap ELSE n, RetryMin, RetryMax)} :
           n \in {r.nrpc, r.nrpc + 1}}

\* SCHEDULER_OP::backoff: the possible results.  A failure is not counted
\* while the network is known to be down.
backoff(r) ==
    IF r.mff >= MasterFetchRetryCap
    THEN {set_min_rpc_time([r EXCEPT !.master = TRUE], MasterFetchInterval)}
    ELSE LET s == IF r.nrpc = MasterFetchPeriod
                  THEN [MoreMasterFailures(r) EXCEPT !.master = TRUE,
                                                     !.wait = 0, !.nrpc = 0]
                  ELSE r
         IN  UNION {{set_min_rpc_time([s EXCEPT !.nrpc = n], d) :
                        d \in calculate_exponential_backoff(
                                IF n > RetryCap THEN RetryCap ELSE n,
                                RetryMin, RetryMax)} :
                    n \in {s.nrpc, s.nrpc + 1}}

\* start_rpc backs off, and then its caller init_op_project does.
backoff_twice(r) == UNION {backoff(s) : s \in backoff(r)}

\* parse_master_file empties scheduler_urls, update_urls compares with what
\* is left: r is the project after parsing, new the URLs found.
update_urls(r, new) ==
    LET any_new == new \ r.urls # {}
        s == [r EXCEPT !.mff = 0, !.urls = new]
    IN  IF any_new THEN [s EXCEPT !.wait = 0, !.nrpc = 0] ELSE s

\* The end of SCHEDULER_OP::poll for a master file with the URLs of new; it
\* may be impossible to open, or hold no URL.
master_fetched(r, new) ==
    LET parsed == [r EXCEPT !.master = FALSE, !.urls = {}]
    IN  IF new # {} THEN {update_urls(parsed, new)}
        ELSE backoff(MoreMasterFailures(parsed))
             \cup backoff(MoreMasterFailures([r EXCEPT !.master = FALSE]))

\* Mutant of handle_scheduler_reply: every reply restarts rpc_seqno.
handle_scheduler_reply_renumbers(r, newHost, noWork, delay, next) ==
    LET s == [r EXCEPT !.pending = "none", !.hosted = TRUE, !.seqno = 0,
                       !.next = IF next = 0 THEN 0 ELSE next + 1]
        served == IF noWork THEN backoff(s)
                  ELSE {[s EXCEPT !.nrpc = 0, !.wait = 0]}
    IN  {IF delay = 0 THEN t ELSE set_min_rpc_time(t, delay) : t \in served}

\* CLIENT_STATE::handle_scheduler_reply for a reply that can be used.  A
\* new host record (newHost: the reply has a hostid) restarts rpc_seqno,
\* also for a project that has one; a next_rpc_delay is recorded before the
\* backoff and the request_delay.  noWork: we asked and got none.
handle_scheduler_reply(r, newHost, noWork, delay, next) ==
    LET s == [r EXCEPT !.pending = "none", !.hosted = TRUE,
                       !.seqno = IF newHost THEN 0 ELSE @,
                       !.next = IF next = 0 THEN 0 ELSE next + 1]
        served == IF noWork THEN backoff(s)
                  ELSE {[s EXCEPT !.nrpc = 0, !.wait = 0]}
    IN  {IF delay = 0 THEN t ELSE set_min_rpc_time(t, delay) : t \in served}

\* Its early return when the project is down, and the backoff after it.
project_is_down(r, delay) ==
    backoff(IF delay = 0 THEN r ELSE set_min_rpc_time(r, delay))

\* Mutants of MasterPending and RpcPending: min_rpc_time is ignored.
MasterPending_at_once == {p \in attached : ~proj[p].susp /\ proj[p].master}
RpcPending_at_once == {p \in attached : proj[p].next = 1 \/ proj[p].pending # "none"}

\* PROJECT::waiting_until_min_rpc_time and the choices built on it.
Waiting(p) == proj[p].wait > 0
Due(p) == proj[p].next = 1
MasterPending ==
    {p \in attached : ~Waiting(p) /\ ~proj[p].susp /\ proj[p].master}
RpcPending ==
    {p \in attached : Due(p) \/ (~Waiting(p) /\ proj[p].pending # "none")}

-----------------------------------------------------------------------------
(***************************************************************************)
(* Between two passes.                                                     *)
(***************************************************************************)

\* HTTP_OP_SET::got_select.  A server that answers has seen the request; one
\* that does not may have seen it too.  A request without host id (its
\* rpc_seqno is 0) makes the server create a host record; a server may also
\* give a host that has one another (http "new"), whose numbers start at 0
\* (the record left behind is not followed).
HttpDone ==
    /\ Idle /\ http = "busy"
    /\ \/ /\ opState = "rpc" /\ http' \in {"ok", "fail"}
          /\ srvSeq' = [srvSeq EXCEPT ![cur] = reqSeq]
       \/ /\ opState = "rpc" /\ proj[cur].hosted /\ http' = "new"
          /\ srvSeq' = [srvSeq EXCEPT ![cur] = 0]
       \/ /\ http' = "fail" \/ (opState = "master" /\ http' = "ok")
          /\ UNCHANGED srvSeq
    /\ UNCHANGED <<proj, attached, opState, cur, urlIndex, reqSeq, envVars,
                   phase, polls, dirty, fileVars, blamed>>

Later(r) ==
    [r EXCEPT !.wait = IF @ > 0 THEN @ - 1 ELSE 0,
              !.next = IF @ > 1 THEN @ - 1 ELSE @]

\* A minute passes.  With no operation running, scheduler_rpc_poll has had
\* its calls first.
Tick ==
    /\ ~up \/ (phase = "idle"
               /\ (suspended \/ opState # "idle" \/ polls = PollsPerTick))
    /\ proj' = [p \in Projects |-> IF up THEN Later(proj[p]) ELSE proj[p]]
    /\ saved' = [p \in Projects |-> Later(saved[p])]
    /\ polls' = 0
    /\ blamed' = {}
    /\ UNCHANGED <<attached, opVars, srvSeq, envVars, phase, dirty, savedSet>>

\* cpu_benchmarks_poll: the benchmarks have been run.
BenchmarksDone ==
    /\ Idle /\ ~benchmarked
    /\ benchmarked' = TRUE
    /\ UNCHANGED <<proj, attached, opVars, srvSeq, suspended, up, faults,
                   users, phase, polls, dirty, fileVars, blamed>>

SuspendNetwork ==
    /\ Idle /\ ~suspended /\ faults < MaxFaults
    /\ suspended' = TRUE /\ faults' = faults + 1
    /\ UNCHANGED <<proj, attached, opVars, srvSeq, benchmarked, up, users,
                   phase, polls, dirty, fileVars, blamed>>

ResumeNetwork ==
    /\ Idle /\ suspended
    /\ suspended' = FALSE
    /\ UNCHANGED <<proj, attached, opVars, srvSeq, benchmarked, up, faults,
                   users, phase, polls, dirty, fileVars, blamed>>

\* A GUI RPC, or the end of a disconnection.
Command ==
    /\ Idle /\ users < MaxUser
    /\ users' = users + 1
    /\ UNCHANGED <<srvSeq, benchmarked, suspended, up, faults, phase, polls>>

\* handle_project_op "update": overrides the backoff.  The reply of an
\* account manager may ask for the same (acct_mgr.C:430-433, 502).
UpdateProject(p) ==
    /\ Command /\ p \in attached
    /\ proj' = [proj EXCEPT ![p].pending = "req", ![p].wait = 0]
    /\ blamed' = blamed \ {p}
    /\ dirty' = TRUE
    /\ UNCHANGED <<attached, opVars, fileVars>>

\* handle_project_op "suspend" and "resume".
SuspendProject(p) ==
    /\ Command /\ p \in attached
    /\ proj' = [proj EXCEPT ![p].susp = ~@]
    /\ dirty' = TRUE
    /\ UNCHANGED <<attached, opVars, fileVars, blamed>>

\* SCHEDULER_OP::abort.
Abort(p) ==
    IF cur = p
    THEN /\ opState' = "idle" /\ cur' = None /\ http' = "none"
         /\ UNCHANGED <<urlIndex, reqSeq>>
    ELSE UNCHANGED opVars

\* CLIENT_STATE::reset_project: aborts the operation, writes the state file.
ResetProject(p) ==
    /\ Command /\ p \in attached
    /\ Abort(p)
    /\ proj' = [proj EXCEPT ![p].wait = 0]
    /\ blamed' = blamed \ {p}
    /\ saved' = proj' /\ savedSet' = attached
    /\ dirty' = TRUE
    /\ UNCHANGED attached

\* Mutant of DetachProject: the operation is not aborted.
DetachProject_running(p) ==
    /\ Command /\ p \in attached
    /\ UNCHANGED opVars
    /\ attached' = attached \ {p}
    /\ proj' = [proj EXCEPT ![p] = NewProject]
    /\ blamed' = blamed \ {p}
    /\ saved' = proj' /\ savedSet' = attached'
    /\ dirty' = TRUE

\* CLIENT_STATE::detach_project: a reset, then the PROJECT is deleted.
DetachProject(p) ==
    /\ Command /\ p \in attached
    /\ Abort(p)
    /\ attached' = attached \ {p}
    /\ proj' = [proj EXCEPT ![p] = NewProject]
    /\ blamed' = blamed \ {p}
    /\ saved' = proj' /\ savedSet' = attached'
    /\ dirty' = TRUE

\* CLIENT_STATE::add_project.
AttachProject(p) ==
    /\ Command /\ p \notin attached
    /\ attached' = attached \cup {p}
    /\ proj' = [proj EXCEPT ![p] = NewProject]
    /\ dirty' = TRUE
    /\ UNCHANGED <<opVars, fileVars, blamed>>

\* NET_STATUS::network_available: back on line, all backoffs are dropped.
NetworkAvailable ==
    /\ Command
    /\ proj' = [p \in Projects |-> [proj[p] EXCEPT !.wait = 0]]
    /\ blamed' = {}
    /\ UNCHANGED <<attached, opVars, dirty, fileVars>>

-----------------------------------------------------------------------------
(***************************************************************************)
(* CLIENT_STATE::scheduler_rpc_poll.                                       *)
(***************************************************************************)

\* A call of scheduler_rpc_poll; a new min_rpc_time or next_rpc_time counts
\* from now.
Polled ==
    polls' = IF \E p \in Projects : \/ proj'[p].wait > proj[p].wait
                                   \/ proj'[p].next > proj[p].next THEN 0
             ELSE IF polls < PollsPerTick THEN polls + 1 ELSE polls

PollStep ==
    /\ up /\ ~suspended
    /\ UNCHANGED <<attached, srvSeq, envVars, fileVars>>

\* r replaces project p: the operation on it went wrong, or not.
Failed(p, r)    == proj' = [proj EXCEPT ![p] = r] /\ blamed' = blamed \cup {p}
Succeeded(p, r) == proj' = [proj EXCEPT ![p] = r] /\ blamed' = blamed \ {p}

\* SCHEDULER_OP::init_master_fetch that starts.
BeginMaster(p) ==
    /\ opState' = "master" /\ cur' = p /\ http' = "busy"
    /\ UNCHANGED <<urlIndex, reqSeq>>

\* check_master_fetch_start.
StartMaster(p) ==
    /\ PollStep /\ phase = "idle" /\ opState = "idle" /\ p \in MasterPending
    /\ BeginMaster(p)
    /\ phase' = "write"
    /\ UNCHANGED <<proj, blamed, dirty>>

\* It could not start: scheduler_rpc_poll goes on.
StartMasterFails(p) ==
    /\ PollStep /\ phase = "idle" /\ opState = "idle" /\ p \in MasterPending
    /\ \E r \in backoff(MoreMasterFailures(proj[p])) : Failed(p, r)
    /\ phase' = "rpcs"
    /\ UNCHANGED <<opVars, dirty>>

\* The rest of scheduler_rpc_poll, when no master fetch was started.
RestOfPoll ==
    /\ PollStep /\ opState = "idle"
    /\ phase = "rpcs" \/ (phase = "idle" /\ MasterPending = {})
    /\ phase' = "write"
    /\ UNCHANGED dirty

\* init_op_project on p, whose PROJECT is r.  The request file gets
\* rpc_seqno, which start_rpc then increments.
InitOpMaster(p, r) ==
    /\ r.urls = {}
    /\ BeginMaster(p)
    /\ proj' = [proj EXCEPT ![p] = r]
    /\ UNCHANGED blamed

InitOpRpc(p, r) ==
    LET seqno == IF r.hosted THEN r.seqno ELSE 0
    IN  /\ r.urls # {}
        /\ opState' = "rpc" /\ cur' = p /\ http' = "busy"
        /\ urlIndex' = 0 /\ reqSeq' = seqno
        /\ proj' = [proj EXCEPT ![p] =
              [r EXCEPT !.seqno = IF seqno < MaxSeqno THEN seqno + 1 ELSE seqno]]
        /\ UNCHANGED blamed

\* The request cannot be written, or (two backoffs) not be started.
InitOpFails(p, r) ==
    /\ \E s \in backoff(r) \cup (IF r.urls # {} THEN backoff_twice(r) ELSE {}) :
          Failed(p, s)
    /\ UNCHANGED opVars

init_op_project(p, r) ==
    InitOpMaster(p, r) \/ InitOpRpc(p, r) \/ InitOpFails(p, r)

\* next_project_sched_rpc_pending: a request of the project that has become
\* due overrides the backoff.  The vector's order is left open.
StartPending(p) ==
    /\ RestOfPoll /\ benchmarked /\ p \in RpcPending
    /\ init_op_project(p, IF Due(p)
                          THEN [proj[p] EXCEPT !.pending = "req", !.next = 0]
                          ELSE proj[p])

\* A trickle-up message, overdue results, or work to fetch.
StartOther(p) ==
    /\ RestOfPoll /\ benchmarked /\ RpcPending = {}
    /\ p \in attached /\ ~Waiting(p) /\ ~proj[p].susp
    /\ init_op_project(p, proj[p])

NothingToStart ==
    /\ RestOfPoll /\ (benchmarked => RpcPending = {})
    /\ UNCHANGED <<proj, opVars, blamed>>

-----------------------------------------------------------------------------
(***************************************************************************)
(* SCHEDULER_OP::poll.                                                     *)
(***************************************************************************)
OpDone(st) ==
    /\ PollStep /\ phase = "idle" /\ opState = st /\ http \notin {"none", "busy"}
    /\ opState' = "idle" /\ http' = "none"
    /\ UNCHANGED <<urlIndex, reqSeq>>

MasterFetched ==
    /\ OpDone("master") /\ http = "ok"
    /\ \E new \in SUBSET Urls : \E r \in master_fetched(proj[cur], new) :
          IF new = {} THEN Failed(cur, r) ELSE Succeeded(cur, r)
    /\ cur' = None /\ dirty' = TRUE /\ phase' = "write"

MasterFetchFails ==
    /\ OpDone("master") /\ http = "fail"
    /\ \E r \in backoff(MoreMasterFailures([proj[cur] EXCEPT !.master = FALSE])) :
          Failed(cur, r)
    /\ cur' = None /\ dirty' = TRUE /\ phase' = "write"

\* The reply brings a host record: the first one, or another.
NewHost == http = "new" \/ ~proj[cur].hosted

\* Mutant of Replied: the state file is not written.
Replied_unsaved ==
    /\ OpDone("rpc") /\ http \in {"ok", "new"}
    /\ \E noWork \in BOOLEAN, delay \in 0..MaxDelay, next \in 0..MaxNext :
         \E r \in handle_scheduler_reply(proj[cur], NewHost, noWork, delay, next) :
            IF noWork THEN Failed(cur, r) ELSE Succeeded(cur, r)
    /\ cur' = None /\ dirty' = dirty /\ phase' = "write"

\* A scheduler replied.
Replied ==
    /\ OpDone("rpc") /\ http \in {"ok", "new"}
    /\ \E noWork \in BOOLEAN, delay \in 0..MaxDelay, next \in 0..MaxNext :
         \E r \in handle_scheduler_reply(proj[cur], NewHost, noWork, delay, next) :
            IF noWork THEN Failed(cur, r) ELSE Succeeded(cur, r)
    /\ cur' = None /\ dirty' = TRUE /\ phase' = "write"

\* The project is down, or its reply cannot be parsed.
RepliedBadly ==
    /\ OpDone("rpc") /\ http = "ok"
    /\ \E delay \in 0..MaxDelay : \E r \in project_is_down(proj[cur], delay) :
          Failed(cur, r)
    /\ cur' = None /\ dirty' = TRUE /\ phase' = "write"

\* The RPC failed: the loop over the other schedulers begins.
RpcFails ==
    /\ OpDone("rpc") /\ http = "fail"
    /\ phase' = "retry"
    /\ UNCHANGED <<proj, cur, dirty, blamed>>

MoreUrls == urlIndex + 1 < Cardinality(proj[cur].urls)

\* start_rpc with the next URL and the same request file.
RetryStarts ==
    /\ PollStep /\ phase = "retry" /\ MoreUrls
    /\ urlIndex' = urlIndex + 1
    /\ opState' = "rpc" /\ http' = "busy"
    /\ proj' = [proj EXCEPT ![cur].seqno = IF @ < MaxSeqno THEN @ + 1 ELSE @]
    /\ phase' = "write"
    /\ UNCHANGED <<cur, reqSeq, dirty, blamed>>

RetryFails ==
    /\ PollStep /\ phase = "retry" /\ MoreUrls
    /\ urlIndex' = urlIndex + 1
    /\ \E r \in backoff(proj[cur]) : Failed(cur, r)
    /\ UNCHANGED <<opState, cur, http, reqSeq, dirty, phase>>

\* All schedulers have been tried.
RetriesOver ==
    /\ PollStep /\ phase = "retry" /\ ~MoreUrls
    /\ \E r \in backoff(proj[cur]) :
          Failed(cur, IF r.susp THEN [r EXCEPT !.pending = "none"] ELSE r)
    /\ urlIndex' = urlIndex + 1
    /\ cur' = None /\ dirty' = TRUE /\ phase' = "write"
    /\ UNCHANGED <<opState, http, reqSeq>>

-----------------------------------------------------------------------------
\* write_state_file_if_needed; other parts of the client may ask for it.
WriteState ==
    /\ up /\ phase = "write"
    /\ \/ saved' = proj /\ savedSet' = attached
       \/ ~dirty /\ UNCHANGED fileVars
    /\ dirty' = FALSE
    /\ phase' = "idle"
    /\ UNCHANGED <<proj, attached, opVars, srvSeq, envVars, polls, blamed>>

\* The client dies.  Account files, state file and servers stay.
Crash ==
    /\ up /\ faults < MaxFaults
    /\ up' = FALSE /\ faults' = faults + 1
    /\ proj' = [p \in Projects |-> NewProject]
    /\ opState' = "idle" /\ cur' = None /\ http' = "none"
    /\ urlIndex' = 0 /\ reqSeq' = 0
    /\ suspended' = FALSE /\ phase' = "idle" /\ polls' = 0 /\ dirty' = FALSE
    /\ blamed' = {}
    /\ UNCHANGED <<attached, srvSeq, benchmarked, users, fileVars>>

\* parse_account_files, then parse_state_file: a project that only has an
\* account file starts with a master fetch.
Parsed(p) ==
    IF p \in savedSet THEN saved[p] ELSE [NewProject EXCEPT !.master = TRUE]

\* CLIENT_STATE::check_clock_reset.
ClockReset(r) == [r EXCEPT !.wait = 0, !.next = IF @ > 0 THEN 1 ELSE 0]

Restart ==
    /\ ~up
    /\ up' = TRUE
    /\ \E clockReset \in BOOLEAN :
         proj' = [p \in Projects |-> IF p \notin attached THEN NewProject
                                     ELSE IF clockReset THEN ClockReset(Parsed(p))
                                     ELSE Parsed(p)]
    /\ UNCHANGED <<attached, opVars, srvSeq, benchmarked, suspended, faults,
                   users, phase, polls, dirty, fileVars, blamed>>

-----------------------------------------------------------------------------
Poll ==
    /\ \/ \E p \in Projects : \/ StartMaster(p) \/ StartMasterFails(p)
                              \/ StartPending(p) \/ StartOther(p)
       \/ NothingToStart
       \/ MasterFetched \/ MasterFetchFails
       \/ Replied \/ RepliedBadly \/ RpcFails
       \/ RetryStarts \/ RetryFails \/ RetriesOver
    /\ Polled

User ==
    \/ NetworkAvailable
    \/ \E p \in Projects : \/ UpdateProject(p) \/ SuspendProject(p)
                           \/ ResetProject(p) \/ DetachProject(p)
                           \/ AttachProject(p)

Next ==
    \/ Poll
    \/ WriteState
    \/ User
    \/ HttpDone
    \/ Tick
    \/ BenchmarksDone
    \/ SuspendNetwork \/ ResumeNetwork
    \/ Crash \/ Restart

Spec == Init /\ [][Next]_vars

\* The main loop keeps polling and gives libcurl and the clock their turn;
\* libcurl's time-outs end every HTTP operation; the benchmarks end, a
\* suspension ends some day and a dead client is started again.
Fairness ==
    /\ WF_vars(Poll) /\ WF_vars(WriteState)
    /\ SF_vars(HttpDone) /\ SF_vars(Tick)
    /\ SF_vars(BenchmarksDone) /\ SF_vars(ResumeNetwork) /\ WF_vars(Restart)

FairSpec == Spec /\ Fairness

-----------------------------------------------------------------------------
(***************************************************************************)
(* Properties.                                                             *)
(***************************************************************************)

\* Every variable has the values the code gives it; nrpc_failures, which
\* backoff compares with "==", never gets past master_fetch_period.
TypeOK ==
    /\ proj \in [Projects -> Project]
    /\ attached \subseteq Projects
    /\ opState \in {"idle", "master", "rpc"}
    /\ cur \in Projects \cup {None}
    /\ urlIndex \in Nat
    /\ http \in {"none", "busy", "ok", "new", "fail"}
    /\ reqSeq \in 0..MaxSeqno
    /\ srvSeq \in [Projects -> 0..MaxSeqno]
    /\ benchmarked \in BOOLEAN /\ suspended \in BOOLEAN
    /\ phase \in {"idle", "rpcs", "retry", "write"}
    /\ polls \in 0..PollsPerTick
    /\ dirty \in BOOLEAN
    /\ saved \in [Projects -> Project] /\ savedSet \subseteq Projects
    /\ up \in BOOLEAN
    /\ faults \in 0..MaxFaults /\ users \in 0..MaxUser
    /\ blamed \subseteq Projects

\* scheduler_op.h: in the idle state our HTTP_OP is not in the HTTP_OP_SET;
\* cur_proj is set exactly while an operation or its retry loop lasts and
\* is never a detached (deleted) project; an RPC indexes an existing URL
\* (get_scheduler_url takes url_index modulo their number).
OpConsistent ==
    /\ opState = "idle" <=> http = "none"
    /\ phase \in {"rpcs", "retry"} => opState = "idle"
    /\ cur = None <=> opState = "idle" /\ phase # "retry"
    /\ cur # None => cur \in attached
    /\ opState = "rpc" \/ phase = "retry" =>
          urlIndex < Cardinality(proj[cur].urls)

\* The rpc_seqno of a request is never below one the server has already
\* seen for this host, through retries with other schedulers and crashes at
\* any moment: the server would take the host for a copy and make a new
\* record.  The state file must be as recent as the last reply.
SeqnoNeverStale ==
    /\ opState = "rpc" /\ proj[cur].hosted => reqSeq >= srvSeq[cur]
    /\ \A p \in attached :
         /\ up /\ proj[p].hosted => proj[p].seqno >= srvSeq[p]
         /\ ~up /\ p \in savedSet /\ saved[p].hosted => saved[p].seqno >= srvSeq[p]

Starts(p) == opState = "idle" /\ phase # "retry" /\ opState' # "idle" /\ cur' = p

\* What keeps SeqnoNeverStale true: the state file holds the rpc_seqno of
\* every project but the one being talked to, unless it is about to be
\* written; for that one it holds at least the number in the request.
InRpc == opState = "rpc" \/ phase = "retry"
SavedUpToDate ==
    /\ savedSet \subseteq attached
    /\ \A p \in savedSet : saved[p].hosted =>
        /\ saved[p].seqno >= srvSeq[p]
        /\ IF InRpc /\ p = cur THEN saved[p].seqno >= reqSeq
           ELSE up /\ proj[p].hosted /\ ~(phase = "write" /\ dirty) =>
                  saved[p].seqno >= proj[p].seqno
RequestNumbered ==
    /\ InRpc => IF proj[cur].hosted
                THEN srvSeq[cur] <= reqSeq /\ reqSeq <= proj[cur].seqno
                ELSE reqSeq = 0
    /\ opState = "rpc" /\ http = "ok" => srvSeq[cur] = reqSeq
    /\ opState = "rpc" /\ http = "new" => srvSeq[cur] = 0
    /\ up => \A p \in attached : proj[p].hosted => proj[p].seqno >= srvSeq[p]

\* What keeps FailureBacksOff true: a project that failed us is deferred,
\* or has an RPC of its own time, or is being talked to.
BlamedDeferred ==
    /\ blamed \subseteq attached
    /\ \A p \in blamed : p = cur \/ proj[p].wait > 0 \/ proj[p].next > 0
DownIsQuiet ==
    ~up => opState = "idle" /\ cur = None /\ phase = "idle" /\ blamed = {}
SchedulerInv ==
    /\ TypeOK /\ OpConsistent /\ SavedUpToDate /\ RequestNumbered
    /\ BlamedDeferred /\ DownIsQuiet

\* After a failure (no scheduler answers, a bad reply or master file, no
\* work) the project is left alone for a minute at least, unless the user
\* or a reconnection clears the deferral or the project has asked for an
\* RPC itself.
FailureBacksOff ==
    [][\A p \in blamed : Starts(p) => proj[p].next > 0]_vars

\* Another project has reached the cap of master_fetch_failures with an RPC
\* of its own time in next_rpc_time: set_min_rpc_time drops the deferral of
\* its master fetch, which check_master_fetch_start then finds first in
\* every poll.
Insists(p) ==
    \E q \in attached \ {p} :
        proj[q].mff >= MasterFetchRetryCap /\ proj[q].master /\ proj[q].next > 0

\* A project with a pending scheduler RPC that is not deferred gets its
\* turn: other projects' retries, master fetches and requested RPC times do
\* not starve it - unless from some time on there is again and again one
\* that insists, which the code does not prevent (work_fetch.C:97).
PendingServed ==
    \A p \in Projects : <>[]~Insists(p) =>
        ((up /\ p \in attached /\ proj[p].pending # "none" /\ proj[p].wait = 0) ~>
            (~up \/ p \notin attached \/ proj[p].pending = "none"
             \/ proj[p].wait > 0 \/ cur = p))

\* client_types.h on next_rpc_time: "specifies a time when another scheduler
\* RPC should be done (as requested by server)".  It does not hold: see
\* set_min_rpc_time at the cap of master_fetch_failures.
NextRpcDone ==
    \A p \in Projects : (up /\ p \in attached /\ proj[p].next = 1) ~>
                            (~up \/ p \notin attached \/ proj[p].next # 1)

=============================================================================
