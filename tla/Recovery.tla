------------------------------ MODULE Recovery ------------------------------
(***************************************************************************)
(* What the client keeps on disk, and what a restart makes of it: the      *)
(* state file (by the promise of StateStore, which StateFile keeps), the   *)
(* slot directories with the checkpoints of the applications, and the      *)
(* trickle files.  The three are written at different moments of a pass of *)
(* the main loop, and the server learns of results and trickles at others. *)
(* Unix build.                                                             *)
(*                                                                         *)
(* The client crashes between any two steps.  Applications run at any      *)
(* time; they do not outlive the client (their library notices that its    *)
(* heartbeats stop, and keeps a second copy out of the slot).              *)
(***************************************************************************)
EXTENDS StateStore, Naturals, FiniteSets

CONSTANTS
    Results,      \* the results of one project, all with their input files
    Slots,        \* slot directories
    MaxCkpt,      \* bound: checkpoints of a result
    Trickles,     \* trickle-up messages: pairs of a result and a number
    MaxEvents     \* bound: new results, trickles, and stops of the client

ASSUME RecoveryAssumption ==
    /\ IsFiniteSet(Results) /\ IsFiniteSet(Slots)
    /\ Trickles \subseteq Results \X Nat
    /\ MaxCkpt \in Nat /\ MaxEvents \in Nat

(***************************************************************************)
(* RESULT and ACTIVE_TASK.  "gone": the result is not in the client's      *)
(* lists.  EXITED is any state handle_finished_apps cleans up.             *)
(***************************************************************************)
Result == [st : {"DOWNLOADED", "COMPUTE_ERROR", "UPLOADING", "UPLOADED",
                 "gone"},
           ready : BOOLEAN]                       \* ready_to_report
NoTask == [st |-> "none", slot |-> None, init |-> FALSE, ckpt |-> 0]
Task   == {NoTask} \cup
          [st : {"UNINITIALIZED", "EXECUTING", "EXITED"},
           slot : Slots,
           init : BOOLEAN,                        \* full_init_done
           ckpt : 0..MaxCkpt]                     \* checkpoint_cpu_time
Gone   == [st |-> "gone", ready |-> FALSE]

(***************************************************************************)
(* A slot directory: the result whose links it holds, the progress its     *)
(* application has saved there, and the task state file of the client      *)
(* (TASK_STATE_FILENAME, 0 when there is none).                            *)
(***************************************************************************)
Slot  == [own : Results \cup {None}, work : 0..MaxCkpt, tsf : 0..MaxCkpt]
Empty == [own |-> None, work |-> 0, tsf |-> 0]

\* What write_state writes of all this.
Snapshots == [res : [Results -> Result], task : [Results -> Task],
              pend : BOOLEAN]

\* The store takes them all.
ASSUME StoreAssumption == Snapshots \subseteq Values /\ None \notin Snapshots

VARIABLES
    res, task,    \* CLIENT_STATE.results, ACTIVE_TASK_SET.active_tasks
    pend,         \* PROJECT.trickle_up_pending
    dirty,        \* client_state_dirty
    phase,        \* where the pass of the main loop is
    slot,         \* the slot directories
    proc,         \* the processes: running, or how they have ended
    told,         \* the checkpoint in the app_status channel, 0 if none
    trickle,      \* where each trickle is: in the slot, in the project
                  \*   directory, there with .sent, deleted
    rpc,          \* the scheduler RPC
    rpcRes, rpcTr,     \* what its request reports
    srvRes, srvTr,     \* what the server has received
    events,
    up,           \* the client runs
    \* History: results whose computation has ended, the newest checkpoint of
    \* each that a file of the client tells of, and the trickles whose file
    \* the last request could not read.
    finished, known, unread

memVars  == <<res, task, pend, dirty>>
appVars  == <<slot, proc, told>>
rpcVars  == <<rpc, rpcRes, rpcTr>>
srvVars  == <<srvRes, srvTr>>
histVars == <<finished, known, unread>>
vars     == <<memVars, phase, appVars, trickle, rpcVars, srvVars, events,
              histVars, storeVars, up>>

Init ==
    /\ StoreInit /\ up = FALSE
    /\ res = [r \in Results |-> Gone] /\ task = [r \in Results |-> NoTask]
    /\ pend = FALSE /\ dirty = FALSE /\ phase = "idle"
    /\ slot = [s \in Slots |-> Empty]
    /\ proc = [r \in Results |-> "none"] /\ told = [r \in Results |-> 0]
    /\ trickle = [t \in Trickles |-> "none"]
    /\ rpc = "none" /\ rpcRes = {} /\ rpcTr = {}
    /\ srvRes = {} /\ srvTr = {}
    /\ events = 0
    /\ finished = {} /\ known = [r \in Results |-> 0] /\ unread = {}

At(p) == up /\ phase = p

-----------------------------------------------------------------------------
(***************************************************************************)
(* The applications.  They act at any time; these are the points between   *)
(* which the client neither reads nor writes anything of theirs.           *)
(***************************************************************************)
Runs(r) == proc[r] = "run"
Turn == At("idle") \/ At("msgs") \/ At("save")
Dir(r) == task[r].slot

\* The application checkpoints, and says so.
AppCheckpoint(r) ==
    /\ Turn /\ Runs(r)
    /\ slot[Dir(r)].own = r /\ slot[Dir(r)].work < MaxCkpt
    /\ slot' = [slot EXCEPT ![Dir(r)].work = @ + 1]
    /\ told' = [told EXCEPT ![r] = slot[Dir(r)].work + 1]
    /\ UNCHANGED <<memVars, phase, proc, trickle, rpcVars, srvVars, events,
                   histVars, storeVars, up>>

\* trickle_up.xml in the slot directory, and <have_new_trickle_up/>.
AppTrickle(t) ==
    LET r == t[1] IN
    /\ Turn /\ Runs(r) /\ trickle[t] = "none"
    /\ \A u \in Trickles : u[1] = r => trickle[u] # "slot"
    /\ trickle' = [trickle EXCEPT ![t] = "slot"]
    /\ events < MaxEvents /\ events' = events + 1
    /\ UNCHANGED <<memVars, phase, appVars, rpcVars, srvVars, histVars,
                   storeVars, up>>

\* It finishes, fails, or is killed.
AppExit(r) ==
    /\ Turn /\ Runs(r)
    /\ \E e \in {"done", "error", "killed"} :
         /\ e = "done" => slot[Dir(r)].own = r
         /\ proc' = [proc EXCEPT ![r] = e]
    /\ UNCHANGED <<memVars, phase, slot, told, trickle, rpcVars, srvVars,
                   events, histVars, storeVars, up>>

-----------------------------------------------------------------------------
(***************************************************************************)
(* A pass of poll_slow_events.                                             *)
(***************************************************************************)
Step(p, q) == At(p) /\ phase' = q /\ UNCHANGED <<srvVars, storeVars, up>>

\* ACTIVE_TASK::move_trickle_file; what cannot be moved is deleted.
Moved(R, where) ==
    [t \in Trickles |-> IF t[1] \in R /\ trickle[t] = "slot"
                        THEN where ELSE trickle[t]]
move_trickle_file(R) ==
    IF \E t \in Trickles : t[1] \in R /\ trickle[t] = "slot"
    THEN \/ trickle' = Moved(R, "dir") /\ pend' = TRUE
         \/ trickle' = Moved(R, "lost") /\ UNCHANGED pend
    ELSE UNCHANGED <<trickle, pend>>

\* get_app_status_msg
Status(r) == IF told[r] > 0 THEN told[r] ELSE task[r].ckpt

\* check_app_exited finds at most one exited process; handle_exited_app
\* takes its last messages, and empties the slot unless it is restarted.
CheckAppExited ==
    /\ Step("idle", "msgs")
    /\ IF \E r \in Results : proc[r] \in {"done", "error", "killed"}
       THEN \E r \in Results :
         LET restart == proc[r] = "killed"
             failed  == proc[r] = "error"
         IN
         /\ proc[r] \in {"done", "error", "killed"}
         /\ move_trickle_file({r})
         /\ task' = [task EXCEPT
              ![r].st = IF restart THEN "UNINITIALIZED" ELSE "EXITED",
              ![r].ckpt = Status(r)]
         /\ res' = IF failed
                   THEN [res EXCEPT ![r] = [st |-> "COMPUTE_ERROR",
                                            ready |-> TRUE]]
                   ELSE res
         /\ slot' = IF restart THEN slot
                    ELSE [slot EXCEPT ![Dir(r)] = Empty]
         /\ proc' = [proc EXCEPT ![r] = "none"]
         /\ told' = [told EXCEPT ![r] = 0]
         /\ finished' = IF restart THEN finished ELSE finished \cup {r}
         /\ dirty' = TRUE
       ELSE UNCHANGED <<memVars, appVars, trickle, finished>>
    /\ UNCHANGED <<rpcVars, events, known, unread>>

\* write_task_state_file, for the tasks W.
write_task_state_file(W) ==
    [s \in Slots |->
       IF \E r \in W : Dir(r) = s
       THEN [slot[s] EXCEPT !.tsf = Status(CHOOSE r \in W : Dir(r) = s)]
       ELSE slot[s]]
Checkpointed == {r \in Results : /\ task[r].st = "EXECUTING"
                                 /\ Status(r) # task[r].ckpt}

\* ACTIVE_TASK_SET::get_msgs: a new checkpoint goes to the task state file.
GetMsgs ==
    /\ Step("msgs", "finish")
    /\ LET R == {r \in Results : task[r].st = "EXECUTING"} IN
         /\ task' = [r \in Results |->
              IF r \in R THEN [task[r] EXCEPT !.ckpt = Status(r)]
              ELSE task[r]]
         /\ told' = [r \in Results |-> IF r \in R THEN 0 ELSE told[r]]
         /\ move_trickle_file(R)
    /\ slot' = write_task_state_file(Checkpointed)
    /\ known' = [r \in Results |-> IF r \in Checkpointed THEN Status(r)
                                   ELSE known[r]]
    /\ UNCHANGED <<res, dirty, proc, rpcVars, finished, unread, events>>

\* update_results, once the uploads of the results U are over (this does
\* not make the state dirty), and then handle_finished_apps.
FinishApps ==
    /\ Step("finish", "enforce")
    /\ LET R == {r \in Results : task[r].st = "EXITED"}
           Up == {r \in Results : res[r].st = "UPLOADING"}
       IN
       /\ \E U \in SUBSET Up :
            res' = [r \in Results |->
              IF r \in U THEN [st |-> "UPLOADED", ready |-> TRUE]
              ELSE IF r \in R /\ res[r].st = "DOWNLOADED"
              THEN [res[r] EXCEPT !.st = "UPLOADING"]
              ELSE res[r]]
       /\ task' = [r \in Results |-> IF r \in R THEN NoTask ELSE task[r]]
       /\ dirty' = (dirty \/ R # {})
    /\ UNCHANGED <<pend, appVars, trickle, rpcVars, histVars, events>>

\* Mutant of FreeSlots: a slot is free when no process runs in it.
FreeSlotsIdle == {s \in Slots : \A r \in Results : task[r].slot = s => ~Runs(r)}

\* get_free_slot: a slot no task uses, the first that can be emptied.
FreeSlots == {s \in Slots : \A r \in Results : task[r].slot # s}

Runnable(r) == res[r].st = "DOWNLOADED" /\ ~res[r].ready

\* enforce_schedule starts a task; ACTIVE_TASK::start makes the links in its
\* slot directory unless full_init_done says they are there.
StartTask(r) ==
    /\ At("enforce") /\ Runnable(r)
    /\ task[r].st \in {"none", "UNINITIALIZED"}
    /\ \E s \in IF task[r].st = "none" THEN FreeSlots ELSE {task[r].slot} :
         LET fresh == IF task[r].st = "none" THEN Empty ELSE slot[s] IN
         /\ slot' = [slot EXCEPT ![s] =
              IF task[r].init THEN @ ELSE [fresh EXCEPT !.own = r]]
         /\ task' = [task EXCEPT ![r] =
              [st |-> "EXECUTING", slot |-> s, init |-> TRUE,
               ckpt |-> IF @.init THEN @.ckpt ELSE 0]]
    /\ proc' = [proc EXCEPT ![r] = "run"]
    /\ told' = [told EXCEPT ![r] = 0]
    /\ dirty' = TRUE
    /\ UNCHANGED <<res, pend, phase, trickle, rpcVars, srvVars, events,
                   histVars, storeVars, up>>

\* scheduler_rpc_poll starts an RPC (module SchedulerOp says when): the
\* request has the finished results and every trickle file that can be read,
\* and read_trickle_files renames the new ones of these, as far as the system
\* lets it.
TrickleFiles == {t \in Trickles : trickle[t] \in {"dir", "sent"}}
MakeRequest ==
    /\ Step("enforce", "save")
    /\ rpc = "none"
    /\ rpc' = "made"
    /\ rpcRes' = {r \in Results : res[r].ready}
    /\ rpcTr' \in SUBSET TrickleFiles
    /\ unread' = (unread \cup TrickleFiles) \ rpcTr'
    /\ \E F \in SUBSET rpcTr' :
         trickle' = [t \in Trickles |->
           IF t \in F /\ trickle[t] = "dir" THEN "sent" ELSE trickle[t]]
    /\ UNCHANGED <<memVars, appVars, finished, known, events>>

\* Mutant of remove_trickle_files: the .sent is not looked at.
remove_all_trickles ==
    [t \in Trickles |-> IF trickle[t] \in {"dir", "sent"} THEN "deleted"
                        ELSE trickle[t]]
remove_trickle_files ==
    [t \in Trickles |-> IF trickle[t] = "sent" THEN "deleted"
                        ELSE trickle[t]]

\* The reply brings the new results N, and acknowledges what was reported.
Replied(N) ==
    [r \in Results |->
       IF r \in rpcRes THEN Gone
       ELSE IF r \in N THEN [st |-> "DOWNLOADED", ready |-> FALSE] ELSE res[r]]

\* handle_scheduler_reply: acknowledged results are deleted, and so are
\* the trickle files if the server says so; new results may come along.
HandleReply ==
    /\ Step("enforce", "save")
    /\ rpc = "replied"
    /\ rpc' = "none" /\ rpcRes' = {} /\ rpcTr' = {}
    /\ \/ trickle' = remove_trickle_files
       \/ UNCHANGED trickle
    /\ \E N \in SUBSET {r \in Results : res[r] = Gone /\ r \notin srvRes} :
         /\ events' = events + Cardinality(N) /\ events' <= MaxEvents
         /\ res' = Replied(N)
    /\ task' = [r \in Results |-> IF r \in rpcRes THEN NoTask ELSE task[r]]
    /\ pend' = FALSE /\ dirty' = TRUE
    /\ UNCHANGED <<appVars, histVars>>

\* The RPC has failed, or there is nothing to do.
RpcOver ==
    /\ Step("enforce", "save")
    /\ IF rpc = "failed" THEN rpc' = "none" /\ rpcRes' = {} /\ rpcTr' = {}
       ELSE UNCHANGED rpcVars
    /\ UNCHANGED <<memVars, appVars, trickle, histVars, events>>

-----------------------------------------------------------------------------
(***************************************************************************)
(* Saving.  ACTIVE_TASK::write leaves out nothing a restart uses, except   *)
(* that the process is gone then.                                          *)
(***************************************************************************)
\* Mutant of Saved: a task that has left the set is written as well.
SavedAll(t) == [t EXCEPT !.st = "UNINITIALIZED"]

Saved(t) == IF t.st = "none" THEN NoTask ELSE [t EXCEPT !.st = "UNINITIALIZED"]
Snapshot == [res |-> res, task |-> [r \in Results |-> Saved(task[r])],
             pend |-> pend]

Rest == <<memVars, appVars, trickle, rpcVars, srvVars, events, histVars, up>>

\* write_state_file_if_needed at the end of the pass.
Save ==
    /\ At("save")
    /\ IF dirty THEN StoreBegin(Snapshot) /\ phase' = "saving"
       ELSE phase' = "idle" /\ UNCHANGED storeVars
    /\ dirty' = FALSE
    /\ UNCHANGED <<res, task, pend, appVars, trickle, rpcVars, srvVars,
                   events, histVars, up>>

\* Mutant of SaveDone: the client goes on after a failed write.
SaveDoneAnyway ==
    /\ At("saving") /\ phase' = "idle"
    /\ StoreDone(Snapshot) \/ UNCHANGED storeVars
    /\ UNCHANGED Rest

\* The state file tells of the checkpoints of the tasks a start takes up.
Recorded == [r \in Results |-> IF Runnable(r) THEN task[r].ckpt ELSE known[r]]

\* The state is saved, and I/O may go on; otherwise the client exits (Stop).
SaveDone ==
    /\ At("saving") /\ phase' = "idle"
    /\ StoreDone(Snapshot)
    /\ known' = Recorded
    /\ UNCHANGED <<memVars, appVars, trickle, rpcVars, srvVars, events,
                   finished, unread, up>>

\* The request is sent and answered in do_io_or_sleep, if at all.
RpcSend ==
    /\ At("idle") /\ rpc = "made"
    /\ \/ /\ rpc' \in {"replied", "failed"}
          /\ srvRes' = srvRes \cup rpcRes /\ srvTr' = srvTr \cup rpcTr
       \/ rpc' = "failed" /\ UNCHANGED srvVars
    /\ UNCHANGED <<memVars, phase, appVars, trickle, rpcRes, rpcTr, events,
                   histVars, storeVars, up>>

-----------------------------------------------------------------------------
(***************************************************************************)
(* Stopping and starting.                                                  *)
(***************************************************************************)

\* The processes end with the client; what was in memory, in shared memory or
\* in an HTTP operation is lost.
Ends ==
    /\ up' = FALSE /\ phase' = "idle"
    /\ events < MaxEvents /\ events' = events + 1
    /\ res' = [r \in Results |-> Gone] /\ task' = [r \in Results |-> NoTask]
    /\ pend' = FALSE /\ dirty' = FALSE
    /\ proc' = [r \in Results |-> "none"] /\ told' = [r \in Results |-> 0]
    /\ rpc' = "none" /\ rpcRes' = {} /\ rpcTr' = {}
    /\ UNCHANGED <<srvVars, finished, unread, storeVars>>

\* A crash, an exit when the state file cannot be written, or the end of
\* quit_activities.
Stop ==
    /\ up /\ Ends
    /\ trickle' = Moved(Results, "lost")
    /\ UNCHANGED <<slot, known>>

\* What the state file says of the checkpoints of r.
InStateFile(r) == IF acked = None THEN 0 ELSE acked.task[r].ckpt

\* The client ends in get_msgs while it writes the task state file of x: the
\* file cannot be opened, which is an exception nobody catches, or a crash
\* finds it truncated and not written.  The tasks W were dealt with before.
StopWriting(x) ==
    /\ At("msgs") /\ x \in Checkpointed /\ Ends
    /\ \E W \in SUBSET (Checkpointed \ {x}), truncated \in BOOLEAN :
       LET written == write_task_state_file(W) IN
       /\ slot' = IF truncated THEN [written EXCEPT ![Dir(x)].tsf = 0]
                  ELSE written
       /\ known' = [r \in Results |->
            IF r \in W THEN Status(r)
            ELSE IF r = x /\ truncated THEN InStateFile(r) ELSE known[r]]
    /\ trickle' \in {[t \in Trickles |-> IF t \in M THEN "dir"
                                         ELSE Moved(Results, "lost")[t]] :
                     M \in SUBSET {t \in Trickles : /\ t[1] # x
                                                    /\ trickle[t] = "slot"}}

\* quit_activities: exit_tasks ends the processes, and the state is written,
\* whether it is dirty or not.  By the time exit_tasks calls get_msgs for the
\* final checkpoints, has_task_exited or kill_task has detached every task
\* from its shared memory and its task_state says that there is no process,
\* so get_msgs passes over it: the last messages are lost.
Quit ==
    /\ At("idle") \/ At("cant")
    /\ StoreBegin(Snapshot)
    /\ proc' = [r \in Results |-> "none"] /\ told' = [r \in Results |-> 0]
    /\ phase' = "quit"
    /\ UNCHANGED <<memVars, slot, trickle, rpcVars, srvVars, events, histVars, up>>

\* The last write_state_file has succeeded; if not, nobody looks (Stop).
QuitDone ==
    /\ At("quit") /\ phase' = "end"
    /\ StoreDone(Snapshot)
    /\ known' = Recorded
    /\ UNCHANGED <<memVars, appVars, trickle, rpcVars, srvVars, events,
                   finished, unread, up>>

\* ACTIVE_TASK::parse and ACTIVE_TASK_SET::parse: a task is dropped if its
\* result is not waiting to run.
Parsed(v, r) ==
    IF v.res[r].st = "DOWNLOADED" /\ ~v.res[r].ready THEN v.task[r] ELSE NoTask

\* CLIENT_STATE::init: parse_state_file, if there is a state file.
Start ==
    /\ ~up /\ up' = TRUE /\ phase' = "init"
    /\ StoreRead
    /\ IF loaded' = None
       THEN UNCHANGED <<res, task, pend>>
       ELSE /\ res' = loaded'.res
            /\ task' = [r \in Results |-> Parsed(loaded', r)]
            /\ pend' = loaded'.pend
    /\ UNCHANGED <<dirty, appVars, trickle, rpcVars, srvVars, events, histVars>>

\* A first write_state_file.
InitWrite ==
    /\ At("init") /\ phase' = "initing"
    /\ StoreBegin(Snapshot)
    /\ UNCHANGED Rest

\* Mutant of InitTasks: the task state files are not read.
InitTasksNoFile ==
    /\ At("initing")
    /\ \/ StoreDone(Snapshot) /\ phase' = "idle"
       \/ UNCHANGED storeVars /\ phase' = "cant"
    /\ dirty' = TRUE
    /\ UNCHANGED <<res, task, pend, appVars, trickle, rpcVars, srvVars, events,
                   histVars, up>>

\* ACTIVE_TASK_SET::init: read_task_state_file brings the checkpoint time up
\* to date if the file in the slot is one of this result's.  If the write
\* has failed (cant_write_state_file) the client does nothing but exit.
InitTasks ==
    /\ At("initing")
    /\ \/ StoreDone(Snapshot) /\ phase' = "idle"
       \/ UNCHANGED storeVars /\ phase' = "cant"
    /\ task' = [r \in Results |->
         IF task[r].st # "none" /\ slot[Dir(r)].own = r
            /\ slot[Dir(r)].tsf > task[r].ckpt
         THEN [task[r] EXCEPT !.ckpt = slot[Dir(r)].tsf] ELSE task[r]]
    /\ dirty' = TRUE
    /\ UNCHANGED <<res, pend, appVars, trickle, rpcVars, srvVars, events,
                   histVars, up>>

-----------------------------------------------------------------------------
Apps ==
    \/ \E r \in Results : AppCheckpoint(r) \/ AppExit(r)
    \/ \E t \in Trickles : AppTrickle(t)

Pass ==
    \/ CheckAppExited \/ GetMsgs \/ FinishApps
    \/ \E r \in Results : StartTask(r)
    \/ MakeRequest \/ HandleReply \/ RpcOver
    \/ Save \/ SaveDone

Next ==
    \/ Apps \/ Pass \/ RpcSend
    \/ Stop \/ \E r \in Results : StopWriting(r)
    \/ Quit \/ QuitDone \/ Start \/ InitWrite \/ InitTasks

Spec == Init /\ [][Next]_vars

-----------------------------------------------------------------------------
TypeOK ==
    /\ acked \in Values \cup {None} /\ loaded \in Values \cup {None}
    /\ maybe \in SUBSET Values
    /\ up \in BOOLEAN
    /\ res \in [Results -> Result] /\ task \in [Results -> Task]
    /\ pend \in BOOLEAN /\ dirty \in BOOLEAN
    /\ phase \in {"idle", "msgs", "finish", "enforce", "save", "saving",
                  "quit", "end", "init", "initing", "cant"}
    /\ slot \in [Slots -> Slot]
    /\ proc \in [Results -> {"none", "run", "done", "error", "killed"}]
    /\ told \in [Results -> 0..MaxCkpt]
    /\ trickle \in [Trickles -> {"none", "slot", "dir", "sent", "deleted",
                                 "lost"}]
    /\ rpc \in {"none", "made", "replied", "failed"}
    /\ rpcRes \in SUBSET Results /\ rpcTr \in SUBSET Trickles
    /\ srvRes \in SUBSET Results /\ srvTr \in SUBSET Trickles
    /\ events \in 0..MaxEvents /\ finished \in SUBSET Results
    /\ known \in [Results -> 0..MaxCkpt] /\ unread \in SUBSET Trickles

(***************************************************************************)
(* A result the server has a report of is never computed again: the end of *)
(* the computation is in the state file before the request that reports it *)
(* leaves the host, so no crash can bring the task back.                   *)
(***************************************************************************)
ReportedNeverRuns == \A r \in srvRes : proc[r] = "none"

(***************************************************************************)
(* A task that has not ended yet finds its own links, its application's    *)
(* checkpoints and its task state file in its slot, after any number of    *)
(* crashes: full_init_done is right for it, and no slot is given away.     *)
(***************************************************************************)
SlotKept ==
    \A r \in Results :
      up /\ task[r].init /\ r \notin finished =>
        slot[Dir(r)].own = r

(***************************************************************************)
(* The checkpoint time of such a task is never more than what its          *)
(* application has saved in the slot, and, once the task state file has    *)
(* been read, never less than the newest checkpoint the client has         *)
(* recorded, though checkpoints do not make the state file dirty.  What a  *)
(* process said last is recorded at the end of the pass, or lost if the    *)
(* client stops before; and a stop that finds a task state file truncated  *)
(* takes the task back to the checkpoint in the state file, not further.   *)
(***************************************************************************)
CheckpointsKept ==
    \A r \in Results :
      up /\ task[r].init /\ r \notin finished =>
        /\ task[r].ckpt <= slot[Dir(r)].work
        /\ phase \notin {"init", "initing"} => known[r] <= task[r].ckpt

(***************************************************************************)
(* remove_trickle_files deletes no trickle that the server has not         *)
(* received, though new ones arrive while the RPC is on its way, RPCs are  *)
(* lost, and renames fail.  One case is excepted because there the code    *)
(* does lose a trickle: a file renamed for an RPC that failed cannot be    *)
(* read when the next request is made, and read_trickle_files leaves it    *)
(* out; the acknowledgement deletes it all the same.                       *)
(***************************************************************************)
TricklesKept ==
    \A t \in Trickles : trickle[t] = "deleted" => t \in srvTr \cup unread

(***************************************************************************)
(* client_types.h says of trickle_up_pending: have trickle up to send.     *)
(* handle_scheduler_reply clears it although a trickle may have arrived    *)
(* while the RPC was on its way, and that trickle waits for another RPC.   *)
(***************************************************************************)
TrickleUpPending ==
    At("idle") /\ rpc = "none" =>
      \A t \in Trickles : trickle[t] = "dir" => pend
=============================================================================
