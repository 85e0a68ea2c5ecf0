--------------------------- MODULE RecoveryProofs ---------------------------
(***************************************************************************)
(* Proofs about Recovery, for any results, slots, trickles and bounds.     *)
(*                                                                         *)
(* The properties speak of the memory of the running client, but a crash   *)
(* replaces the memory by whatever a start reads.  The invariant therefore *)
(* has a part about the memory, a part about every saved state the next    *)
(* start may read, and one that relates the two while the main loop runs.  *)
(***************************************************************************)
EXTENDS Recovery, FiniteSetTheorems, TLAPS

\* The saved states the next start may read.
Disk == ({acked} \cup maybe) \ {None}
RunnableIn(v, r) == v.res[r].st = "DOWNLOADED" /\ ~v.res[r].ready
Started(t) == t.st # "none"
Computed(x) ==
    x.ready \/ x.st \in {"COMPUTE_ERROR", "UPLOADING", "UPLOADED"}

(***************************************************************************)
(* The memory.                                                             *)
(***************************************************************************)

\* A task that exists has its links made, and a slot of its own.
TasksWhole ==
    /\ \A r \in Results : task[r] # NoTask => Started(task[r]) /\ task[r].init
    /\ \A r, q \in Results :
         Started(task[r]) /\ Started(task[q]) /\ Dir(r) = Dir(q) => r = q

\* A process belongs to a task that executes a result that may run; there is
\* none before the tasks are initialised.
Quiet == ~up \/ phase \in {"init", "initing", "cant"}
ProcessesRun ==
    /\ \A r \in Results :
         proc[r] # "none" => task[r].st = "EXECUTING" /\ Runnable(r)
    /\ Quiet => \A r \in Results :
                  proc[r] = "none" /\ task[r].st \in {"none", "UNINITIALIZED"}
    /\ Quiet => rpcRes = {}

\* A task that has exited, or a result that is past computing, has finished.
EndedFinished ==
    \A r \in Results :
      task[r].st = "EXITED" \/ Computed(res[r]) => r \in finished

\* The message in the app_status channel tells of a checkpoint in the slot,
\* and so does the task state file.
ToldSaved ==
    /\ \A r \in Results :
         told[r] # 0 =>
           /\ proc[r] # "none"
           /\ slot[Dir(r)].own = r /\ told[r] <= slot[Dir(r)].work
           /\ r \notin finished => task[r].ckpt <= told[r]
    /\ \A s \in Slots : slot[s].tsf <= slot[s].work

\* An unfinished task has its slot, and its checkpoints are there.
MemorySlots ==
    \A r \in Results :
      Started(task[r]) /\ r \notin finished =>
        /\ slot[Dir(r)].own = r /\ task[r].ckpt <= slot[Dir(r)].work
        /\ phase \notin {"init", "initing"} => slot[Dir(r)].tsf <= task[r].ckpt

\* What a request reports is ready; what the server knows of may not run.
ReportsOver ==
    /\ \A r \in rpcRes : res[r].ready
    /\ \A r \in srvRes : ~Runnable(r)

MemoryInv ==
    TasksWhole /\ ProcessesRun /\ EndedFinished /\ ToldSaved /\ MemorySlots
      /\ ReportsOver

(***************************************************************************)
(* A saved state: what the memory would be after reading it.               *)
(***************************************************************************)
SavedWhole(v) ==
    /\ v \in Snapshots
    /\ \A r \in Results :
         v.task[r] # NoTask => v.task[r].st = "UNINITIALIZED" /\ v.task[r].init
    /\ \A r, q \in Results :
         Started(v.task[r]) /\ Started(v.task[q])
           /\ v.task[r].slot = v.task[q].slot => r = q
SavedSlots(v) ==
    \A r \in Results :
      Started(v.task[r]) /\ r \notin finished =>
        /\ slot[v.task[r].slot].own = r
        /\ v.task[r].ckpt <= slot[v.task[r].slot].work
SavedOver(v) ==
    /\ \A r \in Results : Computed(v.res[r]) => r \in finished
    /\ \A r \in srvRes : ~RunnableIn(v, r)
SavedInv(v) == SavedWhole(v) /\ SavedSlots(v) /\ SavedOver(v)

(***************************************************************************)
(* While the main loop runs, an unfinished task that is on disk is in      *)
(* memory too, in the same slot, so the slot is not given away; and at the *)
(* end of a pass, or while nothing is dirty, what may run after a start    *)
(* may run now.                                                            *)
(***************************************************************************)
Looping == up /\ phase \in {"idle", "msgs", "finish", "enforce", "save", "saving"}
Settled == up /\ phase \in {"idle", "msgs", "finish", "enforce", "save"}
              /\ (phase = "idle" \/ ~dirty)
TasksFollow(v) ==
    \A r \in Results :
      Started(v.task[r]) /\ r \notin finished =>
        Started(task[r]) /\ task[r].slot = v.task[r].slot
RunsFollow(v) == \A r \in Results : RunnableIn(v, r) => Runnable(r)
Follows(v) == (Looping => TasksFollow(v)) /\ (Settled => RunsFollow(v))

\* While an RPC is on its way the renamed trickles are the ones it carries,
\* but for those that could not be read.
SentCarried ==
    /\ rpc # "none" => \A t \in Trickles : trickle[t] = "sent" => t \in rpcTr \cup unread
    /\ rpc = "replied" => rpcTr \subseteq srvTr

RecoveryInv ==
    /\ TypeOK /\ MemoryInv
    /\ \A v \in Disk : SavedInv(v) /\ Follows(v)
    /\ SentCarried /\ TricklesKept

(***************************************************************************)
(* The checkpoints that files tell of.  A second invariant, on top of the  *)
(* first: every saved state the next start may read has them, or the task  *)
(* state file has, in the slot that saved state names.  For that, a task   *)
(* with a process must be on disk by the time its messages are read.       *)
(***************************************************************************)
Covered(t, r) ==
    Started(t) /\ (known[r] <= t.ckpt \/ known[r] <= slot[t.slot].tsf)
SavedKnown(v) ==
    \A r \in Results :
      r \notin finished /\ known[r] # 0 => Covered(v.task[r], r) /\ RunnableIn(v, r)
MemoryKnown ==
    up => \A r \in Results :
            r \notin finished /\ known[r] # 0 => Covered(task[r], r) /\ Runnable(r)
InPass == up /\ phase \in {"idle", "msgs", "finish", "enforce", "save"}
StoreKnown ==
    /\ None \notin maybe /\ (InPass => maybe = {})
    /\ acked = None => \A r \in Results : known[r] = 0
Fresh == InPass /\ (phase \in {"idle", "msgs"} \/ ~dirty)
OnDisk ==
    Fresh => \A r \in Results :
               proc[r] # "none" =>
                 /\ acked # None /\ Started(acked.task[r])
                 /\ acked.task[r].slot = task[r].slot /\ RunnableIn(acked, r)
KnownInv == StoreKnown /\ OnDisk /\ MemoryKnown /\ \A v \in Disk : SavedKnown(v)

-----------------------------------------------------------------------------
(***************************************************************************)
(* Facts about records.                                                    *)
(***************************************************************************)
LEMMA NoTaskFacts ==
    /\ NoTask \in Task /\ ~Started(NoTask) /\ NoTask.st = "none"
    /\ NoTask.init = FALSE /\ NoTask.ckpt = 0 /\ NoTask.slot = None
    /\ Gone \in Result /\ ~Gone.ready /\ Gone.st = "gone"
    /\ Empty \in Slot /\ Empty.tsf = 0 /\ Empty.work = 0
BY RecoveryAssumption DEF NoTask, Task, Started, Gone, Result, Empty, Slot

LEMMA TaskFields ==
    ASSUME NEW t \in Task
    PROVE  /\ t.st \in {"none", "UNINITIALIZED", "EXECUTING", "EXITED"}
           /\ t.ckpt \in 0..MaxCkpt /\ t.init \in BOOLEAN
           /\ Started(t) => t.slot \in Slots /\ t # NoTask
           /\ ~Started(t) => t = NoTask
<1>1. CASE t = NoTask
    <2>1. 0 \in 0..MaxCkpt
        BY RecoveryAssumption
    <2>2. QED
        BY <1>1, <2>1, NoTaskFacts
<1>2. CASE t \in [st : {"UNINITIALIZED", "EXECUTING", "EXITED"},
                  slot : Slots, init : BOOLEAN, ckpt : 0..MaxCkpt]
    BY <1>2, NoTaskFacts DEF Started
<1>3. QED
    BY <1>1, <1>2 DEF Task

LEMMA TaskCkpt ==
    ASSUME NEW t \in Task, Started(t), NEW c \in 0..MaxCkpt,
           NEW u, u = [t EXCEPT !.ckpt = c]
    PROVE  u \in Task /\ u.st = t.st /\ u.slot = t.slot /\ u.init = t.init
           /\ u.ckpt = c
<1>1. t \in [st : {"UNINITIALIZED", "EXECUTING", "EXITED"},
             slot : Slots, init : BOOLEAN, ckpt : 0..MaxCkpt]
    BY NoTaskFacts DEF Task
<1>2. QED
    BY <1>1 DEF Task

LEMMA SavedFields ==
    ASSUME NEW t \in Task
    PROVE  /\ Saved(t) \in Task
           /\ Started(t) => Saved(t).st = "UNINITIALIZED" /\ Saved(t).slot = t.slot
                            /\ Saved(t).init = t.init /\ Saved(t).ckpt = t.ckpt
           /\ ~Started(t) => Saved(t) = NoTask
<1>1. CASE Started(t)
    <2>1. t.ckpt \in 0..MaxCkpt /\ Saved(t) = [t EXCEPT !.st = "UNINITIALIZED"]
        BY <1>1, TaskFields DEF Saved, Started
    <2>2. t \in [st : {"UNINITIALIZED", "EXECUTING", "EXITED"},
                  slot : Slots, init : BOOLEAN, ckpt : 0..MaxCkpt]
        BY <1>1, NoTaskFacts DEF Task
    <2>3. /\ Saved(t) \in [st : {"UNINITIALIZED", "EXECUTING", "EXITED"},
                           slot : Slots, init : BOOLEAN, ckpt : 0..MaxCkpt]
          /\ Saved(t).st = "UNINITIALIZED" /\ Saved(t).slot = t.slot
          /\ Saved(t).init = t.init /\ Saved(t).ckpt = t.ckpt
        BY <2>1, <2>2
    <2>4. QED
        BY <1>1, <2>3 DEF Task
<1>2. CASE ~Started(t)
    BY <1>2, NoTaskFacts DEF Saved, Started
<1>3. QED
    BY <1>1, <1>2

-----------------------------------------------------------------------------
(***************************************************************************)
(* Facts about steps.                                                      *)
(***************************************************************************)

\* What the types say of one task, one slot, one saved task.
LEMMA Fields ==
    ASSUME TypeOK
    PROVE  /\ \A r \in Results :
                /\ task[r] \in Task /\ task[r].ckpt \in Nat
                /\ Started(task[r]) => Dir(r) \in Slots
                /\ told[r] \in 0..MaxCkpt /\ told[r] \in Nat
           /\ \A s \in Slots : /\ slot[s] \in Slot
                               /\ slot[s].work \in Nat /\ slot[s].tsf \in Nat
<1>1. ASSUME NEW r \in Results PROVE task[r] \in Task /\ told[r] \in 0..MaxCkpt
    BY DEF TypeOK
<1>2. ASSUME NEW r \in Results
      PROVE  task[r].ckpt \in Nat /\ (Started(task[r]) => Dir(r) \in Slots)
    BY <1>1, TaskFields, RecoveryAssumption DEF Dir
<1>3. ASSUME NEW s \in Slots
      PROVE  slot[s] \in Slot /\ slot[s].work \in Nat /\ slot[s].tsf \in Nat
    BY RecoveryAssumption DEF TypeOK, Slot
<1>4. QED
    BY <1>1, <1>2, <1>3, RecoveryAssumption

LEMMA SavedTaskFields ==
    ASSUME NEW v \in Snapshots, NEW r \in Results
    PROVE  /\ v.task[r] \in Task /\ v.task[r].ckpt \in Nat
           /\ v.task[r].ckpt \in 0..MaxCkpt
           /\ Started(v.task[r]) => v.task[r].slot \in Slots
           /\ v.res[r] \in Result
<1>1. v.task[r] \in Task /\ v.res[r] \in Result
    BY DEF Snapshots
<1>2. QED
    BY <1>1, TaskFields, RecoveryAssumption

\* A saved state stays good while the slots of its unfinished tasks keep
\* their owner and their checkpoints, and nothing more is reported.
LEMMA SavedKeeps ==
    ASSUME TypeOK, TypeOK', NEW v, SavedInv(v),
           finished \subseteq finished', srvRes' = srvRes,
           \A r \in Results :
             Started(v.task[r]) /\ r \notin finished' =>
               /\ slot'[v.task[r].slot].own = slot[v.task[r].slot].own
               /\ slot[v.task[r].slot].work <= slot'[v.task[r].slot].work
    PROVE  SavedInv(v)'
<1>1. SavedWhole(v)' /\ SavedOver(v)'
    BY DEF SavedInv, SavedWhole, SavedOver
<1>2. ASSUME NEW r \in Results, Started(v.task[r]), r \notin finished'
      PROVE  /\ slot'[v.task[r].slot].own = r
             /\ v.task[r].ckpt <= slot'[v.task[r].slot].work
    <2>1. /\ slot[v.task[r].slot].own = r
          /\ v.task[r].ckpt <= slot[v.task[r].slot].work
        BY <1>2 DEF SavedInv, SavedSlots
    <2>2. v.task[r].slot \in Slots /\ v.task[r].ckpt \in Nat
        BY <1>2, SavedTaskFields DEF SavedInv, SavedWhole
    <2>3. slot[v.task[r].slot].work \in Nat /\ slot'[v.task[r].slot].work \in Nat
        BY <2>2, RecoveryAssumption DEF TypeOK, Slot
    <2>4. QED
        BY <1>2, <2>1, <2>2, <2>3
<1>3. QED
    BY <1>1, <1>2 DEF SavedInv, SavedSlots

\* A step that leaves the tasks, the results and the slots alone.
LEMMA MemoryKeeps ==
    ASSUME MemoryInv, Quiet' => Quiet,
           phase \in {"init", "initing"} => phase' \in {"init", "initing"},
           UNCHANGED <<res, task, slot, proc, told, finished, rpcRes, srvRes>>
    PROVE  MemoryInv'
<1>1. TasksWhole' /\ EndedFinished' /\ ToldSaved' /\ ReportsOver' /\ MemorySlots'
    BY DEF MemoryInv, TasksWhole, EndedFinished, ToldSaved, ReportsOver,
           MemorySlots, Runnable, Dir
<1>2. ProcessesRun'
    BY DEF MemoryInv, ProcessesRun, Runnable
<1>3. QED
    BY <1>1, <1>2 DEF MemoryInv

LEMMA DiskKeeps ==
    ASSUME TypeOK, TypeOK', UNCHANGED <<res, task, slot, finished, srvRes>>,
           NEW v, SavedInv(v), Looping' => TasksFollow(v), Settled' => RunsFollow(v)
    PROVE  SavedInv(v)' /\ Follows(v)'
<1>1. SavedInv(v)'
    BY DEF SavedInv, SavedWhole, SavedSlots, SavedOver
<1>2. TasksFollow(v)' = TasksFollow(v) /\ RunsFollow(v)' = RunsFollow(v)
    BY DEF TasksFollow, RunsFollow, Runnable
<1>3. QED
    BY <1>1, <1>2 DEF Follows

\* What write_state writes now is as good as the memory, and follows it.
LEMMA SnapshotInv ==
    ASSUME TypeOK, MemoryInv
    PROVE  /\ Snapshot \in Snapshots /\ SavedInv(Snapshot)
           /\ TasksFollow(Snapshot) /\ RunsFollow(Snapshot)
<1>1. ASSUME NEW r \in Results
      PROVE  /\ Snapshot.task[r] = Saved(task[r]) /\ Snapshot.res[r] = res[r]
             /\ Snapshot.task[r] \in Task
             /\ Started(task[r]) =>
                  /\ Snapshot.task[r].st = "UNINITIALIZED"
                  /\ Snapshot.task[r].slot = task[r].slot
                  /\ Snapshot.task[r].init = task[r].init
                  /\ Snapshot.task[r].ckpt = task[r].ckpt
             /\ ~Started(task[r]) => Snapshot.task[r] = NoTask
    <2>1. Snapshot.task[r] = Saved(task[r]) /\ Snapshot.res[r] = res[r]
        BY DEF Snapshot
    <2>2. QED
        BY <2>1, Fields, SavedFields
<1>2. Snapshot \in Snapshots
    <2>1. [r \in Results |-> Saved(task[r])] \in [Results -> Task]
        BY Fields, SavedFields
    <2>2. QED
        BY <2>1 DEF Snapshot, Snapshots, TypeOK
<1>3. \A r \in Results : Started(Snapshot.task[r]) <=> Started(task[r])
    BY <1>1, NoTaskFacts DEF Started
<1>4. SavedWhole(Snapshot)
    <2>1. \A r \in Results : Snapshot.task[r] # NoTask => task[r].init
        BY <1>1, Fields, TaskFields DEF MemoryInv, TasksWhole
    <2>2. QED
        BY <1>1, <1>2, <1>3, <2>1 DEF SavedWhole, MemoryInv, TasksWhole, Dir
<1>5. SavedSlots(Snapshot)
    BY <1>1, <1>3 DEF SavedSlots, MemoryInv, MemorySlots, Dir
<1>6. SavedOver(Snapshot)
    BY <1>1 DEF SavedOver, MemoryInv, EndedFinished, ReportsOver, Computed,
                Runnable, RunnableIn, TypeOK
<1>7. TasksFollow(Snapshot) /\ RunsFollow(Snapshot)
    BY <1>1, <1>3 DEF TasksFollow, RunsFollow, Runnable, RunnableIn
<1>8. QED
    BY <1>2, <1>4, <1>5, <1>6, <1>7 DEF SavedInv

-----------------------------------------------------------------------------
LEMMA RecoveryInitInv == Init => RecoveryInv
<1> SUFFICES ASSUME Init PROVE RecoveryInv
    OBVIOUS
<1>1. \A r \in Results : res[r] = Gone /\ task[r] = NoTask /\ proc[r] = "none"
                         /\ told[r] = 0
    BY DEF Init
<1>2. \A s \in Slots : slot[s] = Empty
    BY DEF Init
<1>3. TypeOK
    <2>1. 0 \in 0..MaxCkpt /\ 0 \in 0..MaxEvents
        BY RecoveryAssumption
    <2>2. /\ res \in [Results -> Result] /\ task \in [Results -> Task]
          /\ slot \in [Slots -> Slot]
        BY NoTaskFacts DEF Init
    <2>3. /\ proc \in [Results -> {"none", "run", "done", "error", "killed"}]
          /\ told \in [Results -> 0..MaxCkpt]
          /\ trickle \in [Trickles -> {"none", "slot", "dir", "sent", "deleted",
                                       "lost"}]
        BY <2>1 DEF Init
    <2>4. known \in [Results -> 0..MaxCkpt] /\ unread \in SUBSET Trickles
        BY <2>1 DEF Init
    <2>5. QED
        BY <2>1, <2>2, <2>3, <2>4 DEF TypeOK, Init, StoreInit
<1>4. MemoryInv
    <2>1. TasksWhole /\ EndedFinished /\ MemorySlots /\ ReportsOver
        BY <1>1, NoTaskFacts
        DEF TasksWhole, EndedFinished, MemorySlots, ReportsOver, Computed, Init
    <2>2. ProcessesRun
        BY <1>1, NoTaskFacts DEF ProcessesRun, Init
    <2>3. ToldSaved
        BY <1>1, <1>2, NoTaskFacts DEF ToldSaved
    <2>4. QED
        BY <2>1, <2>2, <2>3 DEF MemoryInv
<1>5. Disk = {}
    BY DEF Disk, Init, StoreInit
<1>6. SentCarried /\ TricklesKept
    BY DEF SentCarried, TricklesKept, Init
<1>7. QED
    BY <1>3, <1>4, <1>5, <1>6 DEF RecoveryInv

(***************************************************************************)
(* Steps of requests and of the server, and of saving.                     *)
(***************************************************************************)
LEMMA TrickleInv ==
    ASSUME RecoveryInv, NEW t \in Trickles, AppTrickle(t)
    PROVE  RecoveryInv'
<1> USE DEF memVars, appVars, rpcVars, srvVars, histVars, storeVars
<1>1. /\ trickle' = [trickle EXCEPT ![t] = "slot"]
      /\ events < MaxEvents /\ events' = events + 1
      /\ UNCHANGED <<res, task, pend, dirty, phase, slot, proc, told, rpc,
                     rpcRes, rpcTr, srvRes, srvTr, finished,
                     known, unread, acked, maybe,
                     loaded, up>>
    BY DEF AppTrickle
<1>2. TypeOK'
    <2>1. events' \in 0..MaxEvents
        BY <1>1, RecoveryAssumption DEF RecoveryInv, TypeOK
    <2>2. trickle' \in [Trickles -> {"none", "slot", "dir", "sent", "deleted",
                                     "lost"}]
        BY <1>1 DEF RecoveryInv, TypeOK
    <2>3. QED
        BY <1>1, <2>1, <2>2 DEF RecoveryInv, TypeOK
<1>3. MemoryInv'
    BY <1>1, MemoryKeeps DEF RecoveryInv, Quiet
<1>4. \A v \in Disk' : SavedInv(v)' /\ Follows(v)'
    BY <1>1, <1>2, DiskKeeps DEF RecoveryInv, Disk, Follows, Looping, Settled
<1>5. SentCarried' /\ TricklesKept'
    BY <1>1 DEF RecoveryInv, TypeOK, SentCarried, TricklesKept
<1>6. QED
    BY <1>2, <1>3, <1>4, <1>5 DEF RecoveryInv

LEMMA RequestInv ==
    ASSUME RecoveryInv, MakeRequest
    PROVE  RecoveryInv'
<1> USE DEF memVars, appVars, rpcVars, srvVars, histVars, storeVars, Step, At
<1>1. /\ up /\ phase = "enforce" /\ phase' = "save"
      /\ rpcRes' = {r \in Results : res[r].ready}
      /\ rpcTr' \in SUBSET TrickleFiles /\ rpc' = "made"
      /\ unread' = (unread \cup TrickleFiles) \ rpcTr'
      /\ UNCHANGED <<res, task, pend, dirty, slot, proc, told, events,
                     srvRes, srvTr, finished,
                     known, acked, maybe, loaded, up>>
    BY DEF MakeRequest
<1>2. PICK F \in SUBSET rpcTr' :
        trickle' = [t \in Trickles |->
           IF t \in F /\ trickle[t] = "dir" THEN "sent" ELSE trickle[t]]
    BY DEF MakeRequest
<1>3. TypeOK'
    <2>1. trickle' \in [Trickles -> {"none", "slot", "dir", "sent", "deleted",
                                     "lost"}]
        BY <1>2 DEF RecoveryInv, TypeOK
    <2>2. QED
        BY <1>1, <2>1 DEF RecoveryInv, TypeOK, TrickleFiles
<1>4. MemoryInv'
    <2>1. TasksWhole' /\ EndedFinished' /\ ToldSaved' /\ MemorySlots'
        BY <1>1 DEF RecoveryInv, MemoryInv, TasksWhole, EndedFinished, ToldSaved,
                    MemorySlots, Dir
    <2>2. ProcessesRun' /\ ReportsOver'
        BY <1>1 DEF RecoveryInv, MemoryInv, ProcessesRun, ReportsOver, Runnable,
                    Quiet
    <2>3. QED
        BY <2>1, <2>2 DEF MemoryInv
<1>5. \A v \in Disk' : SavedInv(v)' /\ Follows(v)'
    BY <1>1, <1>3, DiskKeeps DEF RecoveryInv, Disk, Follows, Looping, Settled
<1>6. SentCarried' /\ TricklesKept'
    BY <1>1, <1>2 DEF RecoveryInv, TypeOK, SentCarried, TricklesKept, TrickleFiles
<1>7. QED
    BY <1>3, <1>4, <1>5, <1>6 DEF RecoveryInv

LEMMA RpcOverInv ==
    ASSUME RecoveryInv, RpcOver
    PROVE  RecoveryInv'
<1> USE DEF memVars, appVars, rpcVars, srvVars, histVars, storeVars, Step, At
<1>1. /\ up /\ phase = "enforce" /\ phase' = "save"
      /\ \/ rpc' = "none" /\ rpcRes' = {} /\ rpcTr' = {}
         \/ UNCHANGED <<rpc, rpcRes, rpcTr>>
      /\ UNCHANGED <<res, task, pend, dirty, slot, proc, told, events, trickle,
                     srvRes, srvTr, finished, known, unread, acked, maybe,
                     loaded, up>>
    BY DEF RpcOver
<1>2. TypeOK'
    BY <1>1 DEF RecoveryInv, TypeOK
<1>3. MemoryInv'
    <2>1. TasksWhole' /\ EndedFinished' /\ ToldSaved' /\ MemorySlots'
        BY <1>1 DEF RecoveryInv, MemoryInv, TasksWhole, EndedFinished, ToldSaved,
                    MemorySlots, Dir
    <2>2. ProcessesRun' /\ ReportsOver'
        BY <1>1 DEF RecoveryInv, MemoryInv, ProcessesRun, ReportsOver, Runnable,
                    Quiet
    <2>3. QED
        BY <2>1, <2>2 DEF MemoryInv
<1>4. \A v \in Disk' : SavedInv(v)' /\ Follows(v)'
    BY <1>1, <1>2, DiskKeeps DEF RecoveryInv, Disk, Follows, Looping, Settled
<1>5. SentCarried' /\ TricklesKept'
    BY <1>1 DEF RecoveryInv, SentCarried, TricklesKept
<1>6. QED
    BY <1>2, <1>3, <1>4, <1>5 DEF RecoveryInv

\* The server learns of finished results only: at the end of a pass the disk
\* knows that they are over, whatever state a start reads.
LEMMA RpcSendInv ==
    ASSUME RecoveryInv, RpcSend
    PROVE  RecoveryInv'
<1> USE DEF memVars, appVars, rpcVars, srvVars, histVars, storeVars, At
<1>1. /\ up /\ phase = "idle" /\ rpc = "made"
      /\ rpc' \in {"replied", "failed"}
      /\ UNCHANGED <<res, task, pend, dirty, phase, slot, proc, told, events,
                     trickle, rpcRes, rpcTr, finished,
                     known, unread, acked, maybe,
                     loaded, up>>
      /\ \/ srvRes' = srvRes \cup rpcRes /\ srvTr' = srvTr \cup rpcTr
         \/ rpc' = "failed" /\ srvRes' = srvRes /\ srvTr' = srvTr
    BY DEF RpcSend
<1>2. TypeOK'
    BY <1>1 DEF RecoveryInv, TypeOK
<1>3. MemoryInv'
    <2>1. TasksWhole' /\ EndedFinished' /\ ToldSaved' /\ MemorySlots'
        BY <1>1 DEF RecoveryInv, MemoryInv, TasksWhole, EndedFinished, ToldSaved,
                    MemorySlots, Dir
    <2>2. ProcessesRun' /\ ReportsOver'
        BY <1>1 DEF RecoveryInv, MemoryInv, ProcessesRun, ReportsOver, Runnable,
                    Quiet
    <2>3. QED
        BY <2>1, <2>2 DEF MemoryInv
<1>4. ASSUME NEW v \in Disk' PROVE SavedInv(v)' /\ Follows(v)'
    <2>1. SavedInv(v) /\ TasksFollow(v) /\ RunsFollow(v)
        BY <1>1 DEF RecoveryInv, Disk, Follows, Looping, Settled
    <2>2. \A r \in rpcRes : ~RunnableIn(v, r)
        BY <1>1, <2>1 DEF RecoveryInv, MemoryInv, ReportsOver, RunsFollow,
                          Runnable, TypeOK
    <2>3. SavedOver(v)'
        BY <1>1, <2>1, <2>2 DEF SavedInv, SavedOver
    <2>4. SavedWhole(v)' /\ SavedSlots(v)'
        BY <1>1, <2>1 DEF SavedInv, SavedWhole, SavedSlots
    <2>5. Follows(v)'
        BY <1>1, <2>1 DEF Follows, TasksFollow, RunsFollow, Runnable
    <2>6. QED
        BY <2>3, <2>4, <2>5 DEF SavedInv
<1>5. SentCarried' /\ TricklesKept'
    BY <1>1 DEF RecoveryInv, SentCarried, TricklesKept
<1>6. QED
    BY <1>2, <1>3, <1>4, <1>5 DEF RecoveryInv

\* write_state_file_if_needed, its end, the first write, and the last.
LEMMA SaveInv ==
    ASSUME RecoveryInv, Save \/ SaveDone \/ InitWrite \/ QuitDone
    PROVE  RecoveryInv'
<1> USE DEF memVars, appVars, rpcVars, srvVars, histVars, storeVars, Rest, At
<1>1. /\ Snapshot \in Snapshots /\ SavedInv(Snapshot)
      /\ TasksFollow(Snapshot) /\ RunsFollow(Snapshot)
    BY SnapshotInv DEF RecoveryInv
<1>2. /\ up /\ dirty' \in {dirty, FALSE}
      /\ UNCHANGED <<res, task, pend, slot, proc, told, events, trickle, rpc,
                     rpcRes, rpcTr, srvRes, srvTr, finished,
                     unread, up>>
      /\ \/ phase = "save" /\ ~dirty /\ phase' = "idle" /\ UNCHANGED storeVars
         \/ phase = "save" /\ phase' = "saving" /\ StoreBegin(Snapshot)
         \/ phase = "init" /\ phase' = "initing" /\ StoreBegin(Snapshot)
         \/ phase = "saving" /\ phase' = "idle" /\ StoreDone(Snapshot)
         \/ phase = "quit" /\ phase' = "end" /\ StoreDone(Snapshot)
    BY DEF Save, SaveDone, InitWrite, QuitDone, RecoveryInv, TypeOK
<1>0. known' \in [Results -> 0..MaxCkpt]
    <2>1. \A r \in Results : task[r].ckpt \in 0..MaxCkpt
        BY TaskFields DEF RecoveryInv, TypeOK
    <2>2. known \in [Results -> 0..MaxCkpt]
        BY DEF RecoveryInv, TypeOK
    <2>3. QED
        BY <2>1, <2>2 DEF Save, SaveDone, InitWrite, QuitDone, Recorded
<1>3. TypeOK'
    <2>1. Snapshot \in Values
        BY <1>1, StoreAssumption
    <2>2. /\ acked' \in Values \cup {None} /\ loaded' \in Values \cup {None}
          /\ maybe' \in SUBSET Values
        BY <1>2, <2>1 DEF RecoveryInv, TypeOK, StoreBegin, StoreDone
    <2>3. /\ phase' \in {"idle", "saving", "initing", "end"}
          /\ dirty' \in BOOLEAN
        BY <1>2 DEF RecoveryInv, TypeOK
    <2>4. QED
        BY <1>0, <1>2, <2>2, <2>3 DEF RecoveryInv, TypeOK
<1>4. MemoryInv'
    BY <1>2, MemoryKeeps DEF RecoveryInv, Quiet
<1>5. ASSUME NEW v \in Disk' PROVE SavedInv(v)' /\ Follows(v)'
    <2>1. v \in Disk \cup {Snapshot}
        BY <1>2 DEF Disk, StoreBegin, StoreDone
    <2>2. SavedInv(v)
        BY <1>1, <2>1 DEF RecoveryInv
    <2>3. Looping' => TasksFollow(v)
        BY <1>1, <1>2, <2>1 DEF RecoveryInv, Follows, Looping
    <2>4. CASE phase = "save" /\ ~dirty /\ phase' = "idle" /\ UNCHANGED storeVars
        <3>1. RunsFollow(v)
            BY <1>2, <2>4 DEF RecoveryInv, Follows, Settled, Disk
        <3>2. QED
            BY <1>2, <1>3, <2>2, <2>3, <3>1, DiskKeeps DEF RecoveryInv
    <2>5. CASE phase = "saving" /\ phase' = "idle" /\ StoreDone(Snapshot)
        <3>1. v = Snapshot
            BY <2>5 DEF Disk, StoreDone
        <3>2. QED
            BY <1>1, <1>2, <1>3, <2>2, <2>3, <3>1, DiskKeeps DEF RecoveryInv
    <2>6. CASE phase' \in {"saving", "initing", "end"}
        <3>1. ~Settled'
            BY <2>6 DEF Settled
        <3>2. QED
            BY <1>2, <1>3, <2>2, <2>3, <3>1, DiskKeeps DEF RecoveryInv
    <2>7. QED
        BY <1>2, <2>4, <2>5, <2>6
<1>6. SentCarried' /\ TricklesKept'
    BY <1>2 DEF RecoveryInv, SentCarried, TricklesKept
<1>7. QED
    BY <1>3, <1>4, <1>5, <1>6 DEF RecoveryInv

(***************************************************************************)
(* Steps of the applications.                                              *)
(***************************************************************************)
LEMMA CheckpointInv ==
    ASSUME RecoveryInv, NEW r \in Results, AppCheckpoint(r)
    PROVE  RecoveryInv'
<1> USE DEF memVars, appVars, rpcVars, srvVars, histVars, storeVars, Runs
<1> DEFINE d == Dir(r)
<1>1. /\ proc[r] = "run" /\ slot[d].own = r /\ slot[d].work < MaxCkpt
      /\ slot' = [slot EXCEPT ![d].work = @ + 1]
      /\ told' = [told EXCEPT ![r] = slot[d].work + 1]
      /\ UNCHANGED <<res, task, pend, dirty, phase, proc, trickle, rpc, rpcRes,
                     rpcTr, srvRes, srvTr, events, finished,
                     known, unread, acked, maybe,
                     loaded, up>>
    BY DEF AppCheckpoint
<1>2. Started(task[r]) /\ d \in Slots
    BY <1>1, Fields DEF RecoveryInv, MemoryInv, ProcessesRun, Started
<1> HIDE DEF d
<1>3. /\ slot \in [Slots -> Slot] /\ told \in [Results -> 0..MaxCkpt]
      /\ slot[d] \in Slot /\ slot[d].work \in Nat /\ slot[d].work + 1 \in 0..MaxCkpt
    BY <1>1, <1>2, Fields, RecoveryAssumption DEF RecoveryInv, TypeOK
<1>4. /\ slot' \in [Slots -> Slot]
      /\ \A s \in Slots : slot'[s].own = slot[s].own /\ slot'[s].tsf = slot[s].tsf
      /\ \A s \in Slots : s # d => slot'[s].work = slot[s].work
      /\ slot'[d].work = slot[d].work + 1
    <2>1. [slot[d] EXCEPT !.work = slot[d].work + 1] \in Slot
        BY <1>3 DEF Slot
    <2>2. slot' = [slot EXCEPT ![d] = [slot[d] EXCEPT !.work = slot[d].work + 1]]
        BY <1>1, <1>2, <1>3
    <2>3. QED
        BY <1>2, <1>3, <2>1, <2>2 DEF Slot
<1>5. told' \in [Results -> 0..MaxCkpt]
    BY <1>1, <1>3
<1>6. \A s \in Slots : slot'[s].work \in Nat /\ slot[s].work <= slot'[s].work
    BY <1>3, <1>4, Fields DEF RecoveryInv
<1>7. TypeOK'
    BY <1>1, <1>4, <1>5 DEF RecoveryInv, TypeOK
<1>8. TasksWhole' /\ ProcessesRun' /\ EndedFinished' /\ ReportsOver'
    BY <1>1 DEF RecoveryInv, MemoryInv, TasksWhole, ProcessesRun, EndedFinished,
                ReportsOver, Runnable, Dir, Quiet
<1>9. MemorySlots'
    <2> SUFFICES ASSUME NEW q \in Results, Started(task[q]), q \notin finished
                 PROVE  /\ slot'[Dir(q)].own = q /\ task[q].ckpt <= slot'[Dir(q)].work
                        /\ phase \notin {"init", "initing"} =>
                             slot'[Dir(q)].tsf <= task[q].ckpt
        BY <1>1 DEF MemorySlots, Dir
    <2>1. Dir(q) \in Slots /\ task[q].ckpt \in Nat /\ slot[Dir(q)].work \in Nat
        BY Fields DEF RecoveryInv
    <2>2. QED
        BY <1>4, <1>6, <2>1 DEF RecoveryInv, MemoryInv, MemorySlots
<1>10. ToldSaved'
    <2>1. ASSUME NEW q \in Results, told'[q] # 0
          PROVE  /\ proc'[q] # "none"
                 /\ slot'[Dir(q)].own = q /\ told'[q] <= slot'[Dir(q)].work
                 /\ q \notin finished => task[q].ckpt <= told'[q]
        <3>1. CASE q = r
            <4>1. told'[q] = slot[d].work + 1 /\ Dir(q) = d
                BY <1>1, <1>3, <3>1 DEF d
            <4>2. r \notin finished => task[r].ckpt <= slot[d].work
                BY <1>2 DEF RecoveryInv, MemoryInv, MemorySlots, d
            <4>3. task[r].ckpt \in Nat
                BY Fields DEF RecoveryInv
            <4>4. QED
                BY <1>1, <1>2, <1>3, <1>4, <3>1, <4>1, <4>2, <4>3
        <3>2. CASE q # r
            <4>1. told'[q] = told[q]
                BY <1>1, <1>3, <3>2
            <4>2. /\ proc[q] # "none"
                  /\ slot[Dir(q)].own = q /\ told[q] <= slot[Dir(q)].work
                  /\ q \notin finished => task[q].ckpt <= told[q]
                BY <2>1, <4>1 DEF RecoveryInv, MemoryInv, ToldSaved
            <4>3. Dir(q) \in Slots /\ slot[Dir(q)].work \in Nat /\ told[q] \in Nat
                BY <4>2, Fields
                DEF RecoveryInv, MemoryInv, ProcessesRun, Started
            <4>4. QED
                BY <1>1, <1>4, <1>6, <4>1, <4>2, <4>3
        <3>3. QED
            BY <3>1, <3>2
    <2>2. ASSUME NEW s \in Slots PROVE slot'[s].tsf <= slot'[s].work
        <3>1. slot[s].tsf <= slot[s].work /\ slot[s].tsf \in Nat
              /\ slot[s].work \in Nat
            BY Fields DEF RecoveryInv, MemoryInv, ToldSaved
        <3>2. QED
            BY <1>4, <1>6, <3>1
    <2>3. QED
        BY <1>1, <2>1, <2>2 DEF ToldSaved, Dir
<1>11. ASSUME NEW v \in Disk' PROVE SavedInv(v)' /\ Follows(v)'
    <2>1. SavedInv(v) /\ Follows(v)
        BY <1>1 DEF RecoveryInv, Disk
    <2>2. \A q \in Results : Started(v.task[q]) => v.task[q].slot \in Slots
        BY <2>1, SavedTaskFields DEF SavedInv, SavedWhole
    <2>3. SavedInv(v)'
        BY <1>1, <1>4, <1>6, <1>7, <2>1, <2>2, SavedKeeps DEF RecoveryInv
    <2>4. Follows(v)'
        BY <1>1, <2>1 DEF Follows, TasksFollow, RunsFollow, Runnable, Looping,
                          Settled
    <2>5. QED
        BY <2>3, <2>4
<1>12. SentCarried' /\ TricklesKept'
    BY <1>1 DEF RecoveryInv, SentCarried, TricklesKept
<1>13. QED
    BY <1>7, <1>8, <1>9, <1>10, <1>11, <1>12 DEF RecoveryInv, MemoryInv

LEMMA ExitInv ==
    ASSUME RecoveryInv, NEW r \in Results, AppExit(r)
    PROVE  RecoveryInv'
<1> USE DEF memVars, appVars, rpcVars, srvVars, histVars, storeVars, Runs
<1>1. /\ proc[r] = "run"
      /\ \E e \in {"done", "error", "killed"} : proc' = [proc EXCEPT ![r] = e]
      /\ UNCHANGED <<res, task, pend, dirty, phase, slot, told, trickle, rpc,
                     rpcRes, rpcTr, srvRes, srvTr, events, finished,
                     known, unread, acked,
                     maybe, loaded, up>>
    BY DEF AppExit
<1>2. /\ proc' \in [Results -> {"none", "run", "done", "error", "killed"}]
      /\ \A q \in Results : proc'[q] # "none" <=> proc[q] # "none"
    BY <1>1 DEF RecoveryInv, TypeOK
<1>3. TypeOK'
    BY <1>1, <1>2 DEF RecoveryInv, TypeOK
<1>4. MemoryInv'
    <2>1. TasksWhole' /\ EndedFinished' /\ ReportsOver' /\ MemorySlots'
        BY <1>1 DEF RecoveryInv, MemoryInv, TasksWhole, EndedFinished,
                    ReportsOver, MemorySlots, Runnable, Dir
    <2>2. ToldSaved'
        BY <1>1, <1>2 DEF RecoveryInv, MemoryInv, ToldSaved, Dir
    <2>3. ProcessesRun'
        BY <1>1, <1>2 DEF RecoveryInv, MemoryInv, ProcessesRun, Runnable, Quiet
    <2>4. QED
        BY <2>1, <2>2, <2>3 DEF MemoryInv
<1>5. \A v \in Disk' : SavedInv(v)' /\ Follows(v)'
    BY <1>1, <1>3, DiskKeeps DEF RecoveryInv, Disk, Follows, Looping, Settled
<1>6. SentCarried' /\ TricklesKept'
    BY <1>1 DEF RecoveryInv, SentCarried, TricklesKept
<1>7. QED
    BY <1>3, <1>4, <1>5, <1>6 DEF RecoveryInv

(***************************************************************************)
(* The tasks' messages.                                                    *)
(***************************************************************************)
LEMMA MoveKeeps ==
    ASSUME TypeOK, NEW R, move_trickle_file(R)
    PROVE  /\ pend' \in BOOLEAN
           /\ trickle' \in [Trickles -> {"none", "slot", "dir", "sent",
                                         "deleted", "lost"}]
           /\ \A t \in Trickles : trickle'[t] \in {"sent", "deleted"} =>
                                    trickle'[t] = trickle[t]
<1>1. ASSUME NEW w \in {"dir", "lost"}
      PROVE  /\ Moved(R, w) \in [Trickles -> {"none", "slot", "dir", "sent",
                                              "deleted", "lost"}]
             /\ \A t \in Trickles : Moved(R, w)[t] \in {"sent", "deleted"} =>
                                      Moved(R, w)[t] = trickle[t]
    BY DEF TypeOK, Moved
<1>2. QED
    BY <1>1 DEF move_trickle_file, TypeOK

LEMMA TricklesStep ==
    ASSUME SentCarried, TricklesKept, UNCHANGED <<rpc, rpcTr, srvTr, unread>>,
           \A t \in Trickles : trickle'[t] \in {"sent", "deleted"} =>
                                 trickle'[t] = trickle[t]
    PROVE  SentCarried' /\ TricklesKept'
BY DEF SentCarried, TricklesKept

\* get_app_status_msg: the checkpoint time grows, and is never ahead of what
\* the slot holds.
LEMMA StatusFacts ==
    ASSUME TypeOK, MemoryInv, NEW r \in Results
    PROVE  /\ Status(r) \in 0..MaxCkpt /\ Status(r) \in Nat
           /\ Started(task[r]) /\ r \notin finished =>
                task[r].ckpt <= Status(r) /\ Status(r) <= slot[Dir(r)].work
           /\ Status(r) # task[r].ckpt =>
                /\ told[r] # 0 /\ Status(r) = told[r]
                /\ Status(r) <= slot[Dir(r)].work
<1>1. task[r].ckpt \in 0..MaxCkpt /\ told[r] \in 0..MaxCkpt /\ task[r].ckpt \in Nat
    BY Fields, TaskFields
<1>2. CASE told[r] = 0
    BY <1>1, <1>2 DEF Status, MemoryInv, MemorySlots
<1>3. CASE told[r] # 0
    <2>1. Status(r) = told[r]
        BY <1>1, <1>3, RecoveryAssumption DEF Status
    <2>2. told[r] <= slot[Dir(r)].work
          /\ (r \notin finished => task[r].ckpt <= told[r])
        BY <1>3 DEF MemoryInv, ToldSaved
    <2>3. QED
        BY <1>1, <1>3, <2>1, <2>2, RecoveryAssumption
<1>4. QED
    BY <1>2, <1>3

\* write_task_state_file: the task state files of the tasks W get their
\* checkpoint times, which their slots have.
LEMMA TaskFileFacts ==
    ASSUME TypeOK, MemoryInv, NEW W \in SUBSET Checkpointed,
           NEW f, f = write_task_state_file(W)
    PROVE  /\ f \in [Slots -> Slot]
           /\ \A s \in Slots : /\ f[s].own = slot[s].own
                               /\ f[s].work = slot[s].work
                               /\ f[s].tsf <= f[s].work
           /\ \A s \in Slots : (\A r \in W : Dir(r) # s) => f[s] = slot[s]
           /\ \A r \in W : f[Dir(r)].tsf = Status(r)
<1>0. /\ \A r \in W : r \in Results /\ Started(task[r]) /\ Status(r) # task[r].ckpt
      /\ f = [s \in Slots |->
          IF \E r \in W : Dir(r) = s
          THEN [slot[s] EXCEPT !.tsf = Status(CHOOSE r \in W : Dir(r) = s)]
          ELSE slot[s]]
    BY DEF write_task_state_file, Checkpointed, Started
<1>1. \A r \in W, q \in W : Dir(r) = Dir(q) => r = q
    BY <1>0 DEF MemoryInv, TasksWhole
<1>2. ASSUME NEW r \in W
      PROVE  Dir(r) \in Slots /\ f[Dir(r)] = [slot[Dir(r)] EXCEPT !.tsf = Status(r)]
    <2>1. (CHOOSE q \in W : Dir(q) = Dir(r)) = r
        <3>1. \E q \in W : Dir(q) = Dir(r)
            OBVIOUS
        <3>2. /\ (CHOOSE q \in W : Dir(q) = Dir(r)) \in W
              /\ Dir(CHOOSE q \in W : Dir(q) = Dir(r)) = Dir(r)
            BY <3>1
        <3>3. QED
            BY <1>1, <3>2
    <2>2. Dir(r) \in Slots
        BY <1>0, Fields
    <2>3. QED
        BY <1>0, <2>1, <2>2
<1>3. ASSUME NEW r \in W
      PROVE  /\ Dir(r) \in Slots
             /\ f[Dir(r)] \in Slot /\ f[Dir(r)].own = slot[Dir(r)].own
             /\ f[Dir(r)].work = slot[Dir(r)].work /\ f[Dir(r)].tsf = Status(r)
             /\ f[Dir(r)].tsf <= f[Dir(r)].work
    <2>1. /\ Status(r) \in 0..MaxCkpt /\ slot[Dir(r)] \in Slot /\ Dir(r) \in Slots
          /\ Status(r) <= slot[Dir(r)].work
        BY <1>0, <1>2, StatusFacts, Fields
    <2>2. QED
        BY <1>2, <2>1 DEF Slot
<1>4. ASSUME NEW s \in Slots, \A r \in W : Dir(r) # s PROVE f[s] = slot[s]
    BY <1>0, <1>4
<1>5. ASSUME NEW s \in Slots
      PROVE  f[s] \in Slot /\ f[s].own = slot[s].own
             /\ f[s].work = slot[s].work /\ f[s].tsf <= f[s].work
    <2>1. CASE \E r \in W : Dir(r) = s
        BY <1>3, <2>1
    <2>2. CASE \A r \in W : Dir(r) # s
        BY <1>4, <2>2, Fields DEF MemoryInv, ToldSaved
    <2>3. QED
        BY <2>1, <2>2
<1>6. f \in [Slots -> Slot]
    <2>1. f = [s \in Slots |-> f[s]]
        BY <1>0
    <2>2. QED
        BY <1>5, <2>1
<1>7. QED
    BY <1>3, <1>4, <1>5, <1>6

\* get_msgs: the checkpoint times in memory and in the task state files.
LEMMA TakeStatus ==
    ASSUME TypeOK, MemoryInv, phase \notin {"init", "initing"},
           NEW R, R = {r \in Results : task[r].st = "EXECUTING"},
           slot' = write_task_state_file(Checkpointed), finished' = finished,
           phase' \notin {"init", "initing"},
           task' = [r \in Results |->
             IF r \in R THEN [task[r] EXCEPT !.ckpt = Status(r)] ELSE task[r]]
    PROVE  /\ task' \in [Results -> Task] /\ slot' \in [Slots -> Slot]
           /\ \A r \in Results :
                /\ task'[r].st = task[r].st /\ task'[r].slot = task[r].slot
                /\ Started(task'[r]) <=> Started(task[r])
                /\ Started(task[r]) => task'[r].init
           /\ \A s \in Slots : /\ slot'[s].own = slot[s].own
                               /\ slot'[s].work = slot[s].work
                               /\ slot'[s].tsf <= slot'[s].work
           /\ TasksWhole' /\ MemorySlots'
<1>1. R \in SUBSET Results /\ \A r \in R : Started(task[r])
    BY DEF Started
<1>2. /\ slot' \in [Slots -> Slot]
      /\ \A s \in Slots : /\ slot'[s].own = slot[s].own
                          /\ slot'[s].work = slot[s].work
                          /\ slot'[s].tsf <= slot'[s].work
      /\ \A r \in Results :
           Started(task[r]) => slot'[Dir(r)].tsf = slot[Dir(r)].tsf
                               \/ (r \in R /\ slot'[Dir(r)].tsf = Status(r))
    <2>1. /\ slot' \in [Slots -> Slot]
          /\ \A s \in Slots : /\ slot'[s].own = slot[s].own
                              /\ slot'[s].work = slot[s].work
                              /\ slot'[s].tsf <= slot'[s].work
          /\ \A s \in Slots : (\A r \in Checkpointed : Dir(r) # s) =>
                                slot'[s] = slot[s]
          /\ \A r \in Checkpointed : slot'[Dir(r)].tsf = Status(r)
        BY TaskFileFacts
    <2>2. Checkpointed \subseteq R
        BY DEF Checkpointed
    <2>3. ASSUME NEW r \in Results, Started(task[r])
          PROVE  slot'[Dir(r)].tsf = slot[Dir(r)].tsf
                 \/ (r \in R /\ slot'[Dir(r)].tsf = Status(r))
        <3>1. \A q \in Checkpointed : Dir(q) = Dir(r) => q = r
            BY <1>1, <2>2, <2>3 DEF MemoryInv, TasksWhole
        <3>2. Dir(r) \in Slots
            BY <2>3, Fields
        <3>3. QED
            BY <2>1, <2>2, <3>1, <3>2
    <2>4. QED
        BY <2>1, <2>3
<1>3. ASSUME NEW r \in Results
      PROVE  /\ task'[r] \in Task /\ task'[r].st = task[r].st
             /\ task'[r].slot = task[r].slot /\ task'[r].init = task[r].init
             /\ task'[r].ckpt = IF r \in R THEN Status(r) ELSE task[r].ckpt
    <2>1. CASE r \in R
        <3>1. Status(r) \in 0..MaxCkpt /\ task[r] \in Task /\ Started(task[r])
            BY <1>1, <2>1, StatusFacts, Fields
        <3>2. task'[r] = [task[r] EXCEPT !.ckpt = Status(r)]
            BY <2>1
        <3>3. QED
            BY <2>1, <3>1, <3>2, TaskCkpt
    <2>2. CASE r \notin R
        BY <2>2, Fields
    <2>3. QED
        BY <2>1, <2>2
<1>4. task' \in [Results -> Task]
    BY <1>3
<1>5. ASSUME NEW r \in Results
      PROVE  /\ Started(task'[r]) <=> Started(task[r])
             /\ Started(task[r]) => task'[r].init
             /\ Dir(r)' = Dir(r)
    BY <1>3, Fields, TaskFields DEF Started, MemoryInv, TasksWhole, Dir
<1>6. TasksWhole'
    <2>1. ASSUME NEW r \in Results, task'[r] # NoTask
          PROVE  Started(task'[r]) /\ task'[r].init
        BY <1>3, <1>5, <2>1, TaskFields
    <2>2. QED
        BY <1>5, <2>1 DEF TasksWhole, MemoryInv
<1>7. MemorySlots'
    <2> SUFFICES ASSUME NEW r \in Results, Started(task'[r]), r \notin finished
                 PROVE  /\ slot'[Dir(r)].own = r
                        /\ task'[r].ckpt <= slot'[Dir(r)].work
                        /\ slot'[Dir(r)].tsf <= task'[r].ckpt
        BY <1>5 DEF MemorySlots
    <2>1. /\ Started(task[r]) /\ Dir(r) \in Slots /\ task[r].ckpt \in Nat
          /\ slot[Dir(r)].tsf \in Nat /\ slot[Dir(r)].work \in Nat
        BY <1>5, Fields
    <2>2. /\ slot[Dir(r)].own = r /\ task[r].ckpt <= slot[Dir(r)].work
          /\ slot[Dir(r)].tsf <= task[r].ckpt
        BY <2>1 DEF MemoryInv, MemorySlots
    <2>3. /\ Status(r) \in Nat /\ task[r].ckpt <= Status(r)
          /\ Status(r) <= slot[Dir(r)].work
        BY <2>1, StatusFacts
    <2>4. QED
        BY <1>2, <1>3, <2>1, <2>2, <2>3
<1>8. QED
    BY <1>2, <1>3, <1>4, <1>5, <1>6, <1>7

LEMMA GetMsgsInv ==
    ASSUME RecoveryInv, GetMsgs
    PROVE  RecoveryInv'
<1> USE DEF rpcVars, srvVars, histVars, storeVars, Step, At
<1> DEFINE R == {r \in Results : task[r].st = "EXECUTING"}
<1>1. /\ up /\ phase = "msgs" /\ phase' = "finish"
      /\ task' = [r \in Results |->
           IF r \in R THEN [task[r] EXCEPT !.ckpt = Status(r)] ELSE task[r]]
      /\ told' = [r \in Results |-> IF r \in R THEN 0 ELSE told[r]]
      /\ slot' = write_task_state_file(Checkpointed) /\ move_trickle_file(R)
      /\ known' = [r \in Results |-> IF r \in Checkpointed THEN Status(r)
                                     ELSE known[r]]
      /\ UNCHANGED <<res, dirty, proc, rpc, rpcRes, rpcTr, srvRes, srvTr,
                     events, finished, unread, acked, maybe, loaded, up>>
    BY DEF GetMsgs
<1>2. /\ task' \in [Results -> Task] /\ slot' \in [Slots -> Slot]
      /\ \A r \in Results :
           /\ task'[r].st = task[r].st /\ task'[r].slot = task[r].slot
           /\ Started(task'[r]) <=> Started(task[r])
      /\ \A s \in Slots : /\ slot'[s].own = slot[s].own
                          /\ slot'[s].work = slot[s].work
                          /\ slot'[s].tsf <= slot'[s].work
      /\ TasksWhole' /\ MemorySlots'
    BY <1>1, TakeStatus DEF RecoveryInv
<1>3. /\ pend' \in BOOLEAN
      /\ trickle' \in [Trickles -> {"none", "slot", "dir", "sent", "deleted",
                                    "lost"}]
      /\ SentCarried' /\ TricklesKept'
    BY <1>1, MoveKeeps, TricklesStep DEF RecoveryInv
<1>4. told' = [r \in Results |-> 0]
    <2>1. \A r \in Results : told[r] # 0 => r \in R
        BY DEF RecoveryInv, MemoryInv, ToldSaved, ProcessesRun
    <2>2. QED
        BY <1>1, <2>1
<1> HIDE DEF R
<1>5. TypeOK'
    <2>1. told' \in [Results -> 0..MaxCkpt]
        BY <1>4, RecoveryAssumption
    <2>2. known' \in [Results -> 0..MaxCkpt]
        BY <1>1, StatusFacts DEF RecoveryInv, TypeOK
    <2>3. QED
        BY <1>1, <1>2, <1>3, <2>1, <2>2 DEF RecoveryInv, TypeOK
<1>6. ProcessesRun' /\ EndedFinished' /\ ReportsOver'
    BY <1>1, <1>2 DEF RecoveryInv, MemoryInv, ProcessesRun, EndedFinished,
                      ReportsOver, Runnable, Quiet
<1>7. ToldSaved'
    BY <1>2, <1>4 DEF ToldSaved
<1>8. ASSUME NEW v \in Disk' PROVE SavedInv(v)' /\ Follows(v)'
    <2>1. SavedInv(v) /\ Follows(v)
        BY <1>1 DEF RecoveryInv, Disk
    <2>2. \A q \in Results : Started(v.task[q]) => v.task[q].slot \in Slots
        BY <2>1, SavedTaskFields DEF SavedInv, SavedWhole
    <2>3. \A s \in Slots : slot[s].work <= slot'[s].work
        BY <1>2, Fields DEF RecoveryInv
    <2>4. SavedInv(v)'
        BY <1>1, <1>2, <1>5, <2>1, <2>2, <2>3, SavedKeeps DEF RecoveryInv
    <2>5. Follows(v)'
        BY <1>1, <1>2, <2>1 DEF Follows, TasksFollow, RunsFollow, Runnable,
                                Looping, Settled
    <2>6. QED
        BY <2>4, <2>5
<1>9. QED
    BY <1>2, <1>3, <1>5, <1>6, <1>7, <1>8 DEF RecoveryInv, MemoryInv

\* exit_tasks and the last write_state_file.
LEMMA QuitInv ==
    ASSUME RecoveryInv, Quit
    PROVE  RecoveryInv'
<1> USE DEF memVars, rpcVars, srvVars, histVars, At
<1>1. /\ up /\ phase \in {"idle", "cant"} /\ phase' = "quit"
      /\ proc' = [r \in Results |-> "none"] /\ told' = [r \in Results |-> 0]
      /\ maybe' = maybe \cup {Snapshot} /\ loaded' = None /\ acked' = acked
      /\ UNCHANGED <<res, task, pend, dirty, slot, trickle, rpc, rpcRes, rpcTr,
                     srvRes, srvTr, events, finished, known, unread, up>>
    BY DEF Quit, StoreBegin
<1>2. Snapshot \in Snapshots /\ SavedInv(Snapshot)
    BY SnapshotInv DEF RecoveryInv
<1>3. TypeOK'
    <2>1. told' \in [Results -> 0..MaxCkpt]
        BY <1>1, RecoveryAssumption
    <2>2. proc' \in [Results -> {"none", "run", "done", "error", "killed"}]
        BY <1>1
    <2>3. Snapshot \in Values
        BY <1>2, StoreAssumption
    <2>4. phase' \in {"idle", "msgs", "finish", "enforce", "save", "saving",
                      "quit", "end", "init", "initing", "cant"}
        BY <1>1
    <2>5. QED
        BY <1>1, <2>1, <2>2, <2>3, <2>4 DEF RecoveryInv, TypeOK
<1>4. MemoryInv'
    <2>1. TasksWhole' /\ EndedFinished' /\ ReportsOver'
        BY <1>1 DEF RecoveryInv, MemoryInv, TasksWhole, EndedFinished, ReportsOver,
                    Runnable, Dir
    <2>2. ProcessesRun'
        BY <1>1 DEF ProcessesRun, Quiet
    <2>3. ToldSaved'
        BY <1>1 DEF ToldSaved, RecoveryInv, MemoryInv
    <2>4. MemorySlots'
        BY <1>1 DEF MemorySlots, RecoveryInv, MemoryInv, Dir
    <2>5. QED
        BY <2>1, <2>2, <2>3, <2>4 DEF MemoryInv
<1>5. ASSUME NEW v \in Disk' PROVE SavedInv(v)' /\ Follows(v)'
    <2>1. v \in Disk \cup {Snapshot}
        BY <1>1 DEF Disk
    <2>2. SavedInv(v)
        BY <1>2, <2>1 DEF RecoveryInv
    <2>3. ~Looping' /\ ~Settled'
        BY <1>1 DEF Looping, Settled
    <2>4. QED
        BY <1>1, <1>3, <2>2, <2>3, DiskKeeps DEF RecoveryInv
<1>6. SentCarried' /\ TricklesKept'
    BY <1>1 DEF RecoveryInv, SentCarried, TricklesKept
<1>7. QED
    BY <1>3, <1>4, <1>5, <1>6 DEF RecoveryInv

(***************************************************************************)
(* Processes that have ended, and results that are over.                   *)
(***************************************************************************)
LEMMA ExitedInv ==
    ASSUME RecoveryInv, CheckAppExited
    PROVE  RecoveryInv'
<1> USE DEF memVars, appVars, rpcVars, srvVars, histVars, storeVars, Step, At
<1>1. /\ up /\ phase = "idle" /\ phase' = "msgs"
      /\ UNCHANGED <<rpc, rpcRes, rpcTr, srvRes, srvTr, events, acked, maybe,
                     loaded, up, known, unread>>
    BY DEF CheckAppExited
<1>2. CASE UNCHANGED <<memVars, appVars, trickle, finished>>
    <2>1. TypeOK'
        BY <1>1, <1>2 DEF RecoveryInv, TypeOK
    <2>2. MemoryInv'
        BY <1>1, <1>2, MemoryKeeps DEF RecoveryInv, Quiet
    <2>3. \A v \in Disk' : SavedInv(v)' /\ Follows(v)'
        BY <1>1, <1>2, <2>1, DiskKeeps
        DEF RecoveryInv, Disk, Follows, Looping, Settled
    <2>4. SentCarried' /\ TricklesKept'
        BY <1>1, <1>2 DEF RecoveryInv, SentCarried, TricklesKept
    <2>5. QED
        BY <2>1, <2>2, <2>3, <2>4 DEF RecoveryInv
<1>3. ASSUME NEW r \in Results,
             proc[r] \in {"done", "error", "killed"},
             move_trickle_file({r}),
             task' = [task EXCEPT
               ![r].st = IF proc[r] = "killed" THEN "UNINITIALIZED" ELSE "EXITED",
               ![r].ckpt = Status(r)],
             res' = IF proc[r] = "error"
                    THEN [res EXCEPT ![r] = [st |-> "COMPUTE_ERROR",
                                             ready |-> TRUE]]
                    ELSE res,
             slot' = IF proc[r] = "killed" THEN slot
                     ELSE [slot EXCEPT ![Dir(r)] = Empty],
             proc' = [proc EXCEPT ![r] = "none"],
             told' = [told EXCEPT ![r] = 0],
             finished' = IF proc[r] = "killed" THEN finished
                         ELSE finished \cup {r},
             dirty' = TRUE
      PROVE  RecoveryInv'
    <2> DEFINE st == IF proc[r] = "killed" THEN "UNINITIALIZED" ELSE "EXITED"
               d == Dir(r)
    <2>1. task[r].st = "EXECUTING" /\ Runnable(r) /\ Started(task[r])
        BY <1>3 DEF RecoveryInv, MemoryInv, ProcessesRun, Started
    <2>2. /\ task \in [Results -> Task] /\ res \in [Results -> Result]
          /\ slot \in [Slots -> Slot] /\ told \in [Results -> 0..MaxCkpt]
          /\ proc \in [Results -> {"none", "run", "done", "error", "killed"}]
        BY DEF RecoveryInv, TypeOK
    <2>3. d \in Slots /\ Status(r) \in 0..MaxCkpt /\ task[r] \in Task
        BY <2>1, Fields, StatusFacts DEF RecoveryInv
    <2>4. st \in {"UNINITIALIZED", "EXITED"}
        OBVIOUS
    <2>5. task' = [task EXCEPT ![r] = [task[r] EXCEPT !.st = st, !.ckpt = Status(r)]]
        BY <1>3, <2>2
    <2> HIDE DEF st, d
    <2>6. /\ task' \in [Results -> Task]
          /\ task'[r].st = st /\ task'[r].slot = task[r].slot
          /\ task'[r].init = task[r].init /\ task'[r].ckpt = Status(r)
          /\ \A q \in Results : q # r => task'[q] = task[q]
        <3> DEFINE u == [task[r] EXCEPT !.st = st, !.ckpt = Status(r)]
        <3>1. u = [task[r] EXCEPT !.st = st, !.ckpt = Status(r)]
            OBVIOUS
        <3> HIDE DEF u
        <3>2. u \in Task /\ u.st = st /\ u.slot = task[r].slot
              /\ u.init = task[r].init /\ u.ckpt = Status(r)
            <4>1. st \in {"UNINITIALIZED", "EXECUTING", "EXITED"}
                BY <2>4
            <4>2. task[r] \in [st : {"UNINITIALIZED", "EXECUTING", "EXITED"},
                               slot : Slots, init : BOOLEAN, ckpt : 0..MaxCkpt]
                BY <2>1, <2>3, NoTaskFacts DEF Task
            <4>3. QED
                BY <2>3, <3>1, <4>1, <4>2 DEF Task
        <3>3. task' = [task EXCEPT ![r] = u]
            BY <2>5 DEF u
        <3>4. QED
            BY <2>2, <3>2, <3>3
    <2>7. /\ slot' \in [Slots -> Slot]
          /\ \A s \in Slots : s # d => slot'[s] = slot[s]
          /\ slot'[d] = IF proc[r] = "killed" THEN slot[d] ELSE Empty
        BY <1>3, <2>2, <2>3, NoTaskFacts DEF d
    <2>8. /\ res' \in [Results -> Result]
          /\ \A q \in Results : q # r => res'[q] = res[q]
          /\ proc[r] # "error" => res' = res
        <3>1. [st |-> "COMPUTE_ERROR", ready |-> TRUE] \in Result
            BY DEF Result
        <3>2. QED
            BY <1>3, <2>2, <3>1
    <2>9. /\ proc' \in [Results -> {"none", "run", "done", "error", "killed"}]
          /\ told' \in [Results -> 0..MaxCkpt]
          /\ proc'[r] = "none" /\ told'[r] = 0
          /\ \A q \in Results : q # r => proc'[q] = proc[q] /\ told'[q] = told[q]
        <3>1. 0 \in 0..MaxCkpt
            BY RecoveryAssumption
        <3>2. QED
            BY <1>3, <2>2, <3>1
    <2>10. /\ pend' \in BOOLEAN
           /\ trickle' \in [Trickles -> {"none", "slot", "dir", "sent", "deleted",
                                         "lost"}]
           /\ SentCarried' /\ TricklesKept'
        BY <1>1, <1>3, MoveKeeps, TricklesStep DEF RecoveryInv
    <2>11. /\ finished \subseteq finished' /\ finished' \in SUBSET Results
           /\ proc[r] # "killed" => r \in finished'
           /\ \A q \in Results : q # r => (q \in finished' <=> q \in finished)
           /\ proc[r] = "killed" => finished' = finished
        BY <1>3 DEF RecoveryInv, TypeOK
    <2>12. TypeOK'
        BY <1>1, <1>3, <2>6, <2>7, <2>8, <2>9, <2>10, <2>11 DEF RecoveryInv, TypeOK
    <2>13. \A q \in Results : Dir(q)' = Dir(q)
        BY <2>6 DEF Dir
    <2>14. \A q \in Results : q # r /\ Started(task[q]) =>
                                Dir(q) \in Slots /\ Dir(q) # d
        BY <2>1, Fields DEF RecoveryInv, MemoryInv, TasksWhole, d
    <2>15. \A q \in Results : Started(task'[q]) <=> Started(task[q])
        BY <2>1, <2>4, <2>6 DEF Started
    <2>16. TasksWhole'
        <3>1. task[r].init
            BY <2>1, <2>3, TaskFields DEF RecoveryInv, MemoryInv, TasksWhole
        <3>2. ASSUME NEW q \in Results, task'[q] # NoTask
              PROVE  Started(task'[q]) /\ task'[q].init
            <4>1. CASE q = r
                BY <2>1, <2>6, <2>15, <3>1, <4>1
            <4>2. CASE q # r
                BY <2>6, <3>2, <4>2 DEF RecoveryInv, MemoryInv, TasksWhole
            <4>3. QED
                BY <4>1, <4>2
        <3>3. QED
            BY <2>13, <2>15, <3>2 DEF RecoveryInv, MemoryInv, TasksWhole
    <2>17. ProcessesRun'
        <3>1. ASSUME NEW q \in Results, proc'[q] # "none"
              PROVE  task'[q].st = "EXECUTING" /\ Runnable(q)'
            BY <2>6, <2>8, <2>9, <3>1
            DEF RecoveryInv, MemoryInv, ProcessesRun, Runnable
        <3>2. ~Quiet'
            BY <1>1 DEF Quiet
        <3>3. QED
            BY <3>1, <3>2 DEF ProcessesRun
    <2>18. EndedFinished'
        <3> SUFFICES ASSUME NEW q \in Results,
                            task'[q].st = "EXITED" \/ Computed(res'[q])
                     PROVE  q \in finished'
            BY DEF EndedFinished, Computed
        <3>1. CASE q # r
            BY <2>6, <2>8, <2>11, <3>1
            DEF RecoveryInv, MemoryInv, EndedFinished, Computed
        <3>2. CASE q = r /\ proc[r] = "killed"
            BY <2>1, <2>6, <2>8, <3>2 DEF st, Computed, Runnable
        <3>3. QED
            BY <2>11, <3>1, <3>2
    <2>19. ReportsOver'
        <3>1. \A q \in rpcRes : res'[q].ready
            BY <1>3, <2>2, <2>8 DEF RecoveryInv, MemoryInv, ReportsOver, TypeOK
        <3>2. \A q \in srvRes : ~Runnable(q)'
            BY <2>1, <2>8 DEF RecoveryInv, MemoryInv, ReportsOver, TypeOK, Runnable
        <3>3. QED
            BY <1>1, <3>1, <3>2 DEF ReportsOver
    <2>20. ToldSaved'
        <3>1. ASSUME NEW q \in Results, told'[q] # 0
              PROVE  /\ proc'[q] # "none"
                     /\ slot'[Dir(q)].own = q /\ told'[q] <= slot'[Dir(q)].work
                     /\ q \notin finished' => task'[q].ckpt <= told'[q]
            <4>1. q # r /\ told[q] # 0
                BY <2>9, <3>1
            <4>2. proc[q] # "none"
                BY <4>1 DEF RecoveryInv, MemoryInv, ToldSaved
            <4>3. Started(task[q])
                BY <4>2 DEF RecoveryInv, MemoryInv, ProcessesRun, Started
            <4>4. slot'[Dir(q)] = slot[Dir(q)]
                BY <2>7, <2>14, <4>1, <4>3
            <4>5. QED
                BY <2>6, <2>9, <2>11, <4>1, <4>4 DEF RecoveryInv, MemoryInv, ToldSaved
        <3>2. \A s \in Slots : slot'[s].tsf <= slot'[s].work
            BY <2>7, NoTaskFacts DEF RecoveryInv, MemoryInv, ToldSaved
        <3>3. QED
            BY <2>13, <3>1, <3>2 DEF ToldSaved
    <2>21. MemorySlots'
        <3> SUFFICES ASSUME NEW q \in Results, Started(task[q]), q \notin finished'
                     PROVE  /\ slot'[Dir(q)].own = q
                            /\ task'[q].ckpt <= slot'[Dir(q)].work
                            /\ slot'[Dir(q)].tsf <= task'[q].ckpt
            BY <2>13, <2>15 DEF MemorySlots
        <3>1. /\ slot[Dir(q)].own = q /\ task[q].ckpt <= slot[Dir(q)].work
              /\ slot[Dir(q)].tsf <= task[q].ckpt
            BY <1>1, <2>11 DEF RecoveryInv, MemoryInv, MemorySlots
        <3>2. CASE q # r
            BY <2>6, <2>7, <2>14, <3>1, <3>2
        <3>3. CASE q = r
            <4>1. slot'[Dir(q)] = slot[Dir(q)] /\ r \notin finished
                BY <2>7, <2>11, <3>3 DEF d
            <4>2. /\ task[r].ckpt <= Status(r) /\ Status(r) <= slot[Dir(r)].work
                  /\ Status(r) \in Nat
                BY <2>1, <4>1, StatusFacts DEF RecoveryInv
            <4>3. task[r].ckpt \in Nat /\ slot[Dir(r)].tsf \in Nat
                BY <2>3, Fields DEF RecoveryInv, d
            <4>4. QED
                BY <2>6, <3>1, <3>3, <4>1, <4>2, <4>3
        <3>4. QED
            BY <3>2, <3>3
    <2>22. ASSUME NEW v \in Disk' PROVE SavedInv(v)' /\ Follows(v)'
        <3>1. SavedInv(v) /\ TasksFollow(v)
            BY <1>1 DEF RecoveryInv, Disk, Follows, Looping
        <3>2. ASSUME NEW q \in Results, Started(v.task[q]), q \notin finished'
              PROVE  slot'[v.task[q].slot] = slot[v.task[q].slot]
                     /\ v.task[q].slot \in Slots
            <4>1. Started(task[q]) /\ Dir(q) = v.task[q].slot
                BY <2>11, <3>1, <3>2 DEF TasksFollow, Dir
            <4>2. QED
                BY <2>3, <2>7, <2>11, <2>14, <3>2, <4>1 DEF d
        <3>3. SavedInv(v)'
            <4>1. \A s \in Slots : slot[s].work <= slot[s].work
                BY Fields DEF RecoveryInv
            <4>2. QED
                BY <1>1, <2>11, <2>12, <3>1, <3>2, <4>1, SavedKeeps DEF RecoveryInv
        <3>4. TasksFollow(v)'
            BY <2>6, <2>11, <2>15, <3>1 DEF TasksFollow
        <3>5. QED
            BY <1>1, <1>3, <3>3, <3>4 DEF Follows, Settled
    <2>23. QED
        BY <2>10, <2>12, <2>16, <2>17, <2>18, <2>19, <2>20, <2>21, <2>22
        DEF RecoveryInv, MemoryInv
<1>4. QED
    BY <1>2, <1>3 DEF CheckAppExited

\* update_results and handle_finished_apps.
LEMMA FinishInv ==
    ASSUME RecoveryInv, FinishApps
    PROVE  RecoveryInv'
<1> USE DEF memVars, appVars, rpcVars, srvVars, histVars, storeVars, Step, At
<1> DEFINE R == {r \in Results : task[r].st = "EXITED"}
<1>1. /\ up /\ phase = "finish" /\ phase' = "enforce"
      /\ task' = [r \in Results |-> IF r \in R THEN NoTask ELSE task[r]]
      /\ dirty' = (dirty \/ R # {})
      /\ UNCHANGED <<pend, slot, proc, told, trickle, rpc, rpcRes, rpcTr, srvRes,
                     srvTr, events, finished,
                     known, unread, acked, maybe, loaded, up>>
    BY DEF FinishApps
<1>2. PICK U \in SUBSET {r \in Results : res[r].st = "UPLOADING"} :
        res' = [r \in Results |->
          IF r \in U THEN [st |-> "UPLOADED", ready |-> TRUE]
          ELSE IF r \in R /\ res[r].st = "DOWNLOADED"
          THEN [res[r] EXCEPT !.st = "UPLOADING"]
          ELSE res[r]]
    BY DEF FinishApps
<1>3. /\ task \in [Results -> Task] /\ res \in [Results -> Result]
    BY DEF RecoveryInv, TypeOK
<1>4. ASSUME NEW r \in Results
      PROVE  /\ res'[r] \in Result /\ (res[r].ready => res'[r].ready)
             /\ Computed(res'[r]) => r \in finished
             /\ r \notin R => (Runnable(r)' <=> Runnable(r))
             /\ Runnable(r)' => Runnable(r)
    <2>1. /\ res[r] \in Result /\ (Computed(res[r]) => r \in finished)
          /\ r \in R => r \in finished
        BY <1>3 DEF RecoveryInv, MemoryInv, EndedFinished
    <2>2. CASE r \in U
        <3>1. res[r].st = "UPLOADING" /\ res'[r] = [st |-> "UPLOADED", ready |-> TRUE]
            BY <1>2, <2>2
        <3>2. QED
            BY <2>1, <3>1 DEF Result, Computed, Runnable
    <2>3. CASE r \notin U /\ r \in R /\ res[r].st = "DOWNLOADED"
        <3>1. res'[r] = [res[r] EXCEPT !.st = "UPLOADING"]
            BY <1>2, <2>3
        <3>2. QED
            BY <2>1, <2>3, <3>1 DEF Result, Computed, Runnable
    <2>4. CASE r \notin U /\ ~(r \in R /\ res[r].st = "DOWNLOADED")
        <3>1. res'[r] = res[r]
            BY <1>2, <2>4
        <3>2. QED
            BY <2>1, <3>1 DEF Runnable
    <2>5. QED
        BY <2>2, <2>3, <2>4
<1>5. ASSUME NEW r \in Results
      PROVE  /\ task'[r] = IF r \in R THEN NoTask ELSE task[r]
             /\ r \in R => r \in finished
             /\ proc[r] # "none" => r \notin R
    BY <1>1 DEF RecoveryInv, MemoryInv, EndedFinished, ProcessesRun
<1>6. TypeOK'
    <2>1. task' \in [Results -> Task] /\ res' \in [Results -> Result]
        BY <1>1, <1>2, <1>3, <1>4, NoTaskFacts
    <2>2. dirty' \in BOOLEAN
        BY <1>1 DEF RecoveryInv, TypeOK
    <2>3. QED
        BY <1>1, <2>1, <2>2 DEF RecoveryInv, TypeOK
<1> HIDE DEF R
<1>7. TasksWhole'
    BY <1>5, NoTaskFacts DEF RecoveryInv, MemoryInv, TasksWhole, Dir
<1>8. ProcessesRun'
    BY <1>1, <1>4, <1>5 DEF RecoveryInv, MemoryInv, ProcessesRun, Quiet
<1>9. EndedFinished'
    BY <1>1, <1>4, <1>5, NoTaskFacts DEF RecoveryInv, MemoryInv, EndedFinished,
       Computed
<1>10. ToldSaved'
    BY <1>1, <1>5 DEF RecoveryInv, MemoryInv, ToldSaved, Dir
<1>11. MemorySlots'
    BY <1>1, <1>5, NoTaskFacts DEF RecoveryInv, MemoryInv, MemorySlots, Dir
<1>12. ReportsOver'
    BY <1>1, <1>4 DEF RecoveryInv, MemoryInv, ReportsOver, TypeOK
<1>13. ASSUME NEW v \in Disk' PROVE SavedInv(v)' /\ Follows(v)'
    <2>1. SavedInv(v) /\ Follows(v)
        BY <1>1 DEF RecoveryInv, Disk
    <2>2. SavedInv(v)'
        BY <1>1, <2>1 DEF SavedInv, SavedWhole, SavedSlots, SavedOver
    <2>3. TasksFollow(v)'
        BY <1>1, <1>5, <2>1 DEF Follows, TasksFollow, Looping
    <2>4. Settled' => RunsFollow(v)'
        BY <1>1, <1>4, <2>1 DEF Follows, RunsFollow, Settled
    <2>5. QED
        BY <2>2, <2>3, <2>4 DEF Follows
<1>14. SentCarried' /\ TricklesKept'
    BY <1>1 DEF RecoveryInv, SentCarried, TricklesKept
<1>15. QED
    BY <1>6, <1>7, <1>8, <1>9, <1>10, <1>11, <1>12, <1>13, <1>14
    DEF RecoveryInv, MemoryInv

\* handle_scheduler_reply.
LEMMA ReplyInv ==
    ASSUME RecoveryInv, HandleReply
    PROVE  RecoveryInv'
<1> USE DEF memVars, appVars, rpcVars, srvVars, histVars, storeVars, Step, At
<1>1. /\ up /\ phase = "enforce" /\ phase' = "save" /\ rpc = "replied"
      /\ rpc' = "none" /\ rpcRes' = {} /\ rpcTr' = {}
      /\ trickle' \in {remove_trickle_files, trickle}
      /\ task' = [r \in Results |-> IF r \in rpcRes THEN NoTask ELSE task[r]]
      /\ pend' = FALSE /\ dirty' = TRUE
      /\ UNCHANGED <<slot, proc, told, srvRes, srvTr, finished,
                     known, unread, acked, maybe,
                     loaded, up>>
    BY DEF HandleReply
<1>2. PICK N \in SUBSET {r \in Results : res[r] = Gone /\ r \notin srvRes} :
        /\ events' = events + Cardinality(N) /\ events' <= MaxEvents
        /\ res' = [r \in Results |->
             IF r \in rpcRes THEN Gone
             ELSE IF r \in N THEN [st |-> "DOWNLOADED", ready |-> FALSE]
             ELSE res[r]]
    BY DEF HandleReply, Replied
<1>3. /\ task \in [Results -> Task] /\ res \in [Results -> Result]
      /\ events \in Nat
    BY RecoveryAssumption DEF RecoveryInv, TypeOK
<1>4. ASSUME NEW r \in Results
      PROVE  /\ task'[r] = IF r \in rpcRes THEN NoTask ELSE task[r]
             /\ r \in rpcRes => r \in finished /\ ~Runnable(r) /\ proc[r] = "none"
    BY <1>1 DEF RecoveryInv, MemoryInv, ReportsOver, EndedFinished, Computed,
                ProcessesRun, Runnable
<1>5. ASSUME NEW r \in Results
      PROVE  /\ res'[r] \in Result /\ (Computed(res'[r]) => Computed(res[r]))
             /\ Runnable(r) => Runnable(r)'
             /\ r \in srvRes /\ Runnable(r)' => Runnable(r)
    <2>1. CASE r \in rpcRes
        <3>1. res'[r] = Gone
            BY <1>2, <2>1
        <3>2. QED
            BY <1>4, <2>1, <3>1, NoTaskFacts DEF Computed, Runnable
    <2>2. CASE r \notin rpcRes /\ r \in N
        <3>1. res'[r] = [st |-> "DOWNLOADED", ready |-> FALSE] /\ r \notin srvRes
            BY <1>2, <2>2
        <3>2. QED
            BY <3>1 DEF Result, Computed, Runnable
    <2>3. CASE r \notin rpcRes /\ r \notin N
        <3>1. res'[r] = res[r]
            BY <1>2, <2>3
        <3>2. QED
            BY <1>3, <3>1 DEF Computed, Runnable
    <2>4. QED
        BY <2>1, <2>2, <2>3
<1>6. TypeOK'
    <2>1. task' \in [Results -> Task] /\ res' \in [Results -> Result]
        BY <1>1, <1>2, <1>3, <1>5, NoTaskFacts
    <2>2. Cardinality(N) \in Nat
        <3>1. N \subseteq Results
            OBVIOUS
        <3>2. QED
            BY <3>1, FS_Subset, FS_CardinalityType, RecoveryAssumption
    <2>3. events' \in 0..MaxEvents
        BY <1>2, <1>3, <2>2, RecoveryAssumption
    <2>4. trickle' \in [Trickles -> {"none", "slot", "dir", "sent", "deleted",
                                     "lost"}]
        BY <1>1 DEF remove_trickle_files, RecoveryInv, TypeOK
    <2>5. QED
        BY <1>1, <2>1, <2>3, <2>4 DEF RecoveryInv, TypeOK
<1>7. TasksWhole'
    BY <1>4, NoTaskFacts DEF RecoveryInv, MemoryInv, TasksWhole, Dir
<1>8. ProcessesRun'
    BY <1>1, <1>4, <1>5 DEF RecoveryInv, MemoryInv, ProcessesRun, Quiet
<1>9. EndedFinished'
    BY <1>1, <1>4, <1>5, NoTaskFacts DEF RecoveryInv, MemoryInv, EndedFinished,
       Computed
<1>10. ToldSaved'
    BY <1>1, <1>4 DEF RecoveryInv, MemoryInv, ToldSaved, Dir
<1>11. MemorySlots'
    BY <1>1, <1>4, NoTaskFacts DEF RecoveryInv, MemoryInv, MemorySlots, Dir
<1>12. ReportsOver'
    BY <1>1, <1>5 DEF RecoveryInv, MemoryInv, ReportsOver, TypeOK
<1>13. ASSUME NEW v \in Disk' PROVE SavedInv(v)' /\ Follows(v)'
    <2>1. SavedInv(v) /\ Follows(v)
        BY <1>1 DEF RecoveryInv, Disk
    <2>2. SavedInv(v)'
        BY <1>1, <2>1 DEF SavedInv, SavedWhole, SavedSlots, SavedOver
    <2>3. TasksFollow(v)'
        BY <1>1, <1>4, <2>1 DEF Follows, TasksFollow, Looping
    <2>4. ~Settled'
        BY <1>1 DEF Settled
    <2>5. QED
        BY <2>2, <2>3, <2>4 DEF Follows
<1>14. SentCarried' /\ TricklesKept'
    BY <1>1 DEF RecoveryInv, SentCarried, TricklesKept, remove_trickle_files
<1>15. QED
    BY <1>6, <1>7, <1>8, <1>9, <1>10, <1>11, <1>12, <1>13, <1>14
    DEF RecoveryInv, MemoryInv

(***************************************************************************)
(* Starting a task: in its own slot, or in one that no task in memory uses *)
(* and therefore no unfinished task on disk.                               *)
(***************************************************************************)
LEMMA StartTaskInv ==
    ASSUME RecoveryInv, NEW r \in Results, StartTask(r)
    PROVE  RecoveryInv'
<1> USE DEF rpcVars, srvVars, histVars, storeVars, At
<1>1. /\ up /\ phase = "enforce" /\ Runnable(r)
      /\ task[r].st \in {"none", "UNINITIALIZED"}
      /\ proc' = [proc EXCEPT ![r] = "run"]
      /\ told' = [told EXCEPT ![r] = 0] /\ dirty' = TRUE
      /\ UNCHANGED <<res, pend, phase, trickle, rpc, rpcRes, rpcTr, srvRes, srvTr,
                     events, finished,
                     known, unread, acked, maybe, loaded, up>>
    BY DEF StartTask
<1>2. PICK s \in Slots :
        /\ task[r].st = "none" => s \in FreeSlots
        /\ task[r].st # "none" => s = task[r].slot
        /\ slot' = [slot EXCEPT ![s] =
             IF task[r].init THEN @
             ELSE [(IF task[r].st = "none" THEN Empty ELSE slot[s])
                     EXCEPT !.own = r]]
        /\ task' = [task EXCEPT ![r] =
             [st |-> "EXECUTING", slot |-> s, init |-> TRUE,
              ckpt |-> IF task[r].init THEN task[r].ckpt ELSE 0]]
    <2>1. task \in [Results -> Task]
        BY DEF RecoveryInv, TypeOK
    <2>2. Started(task[r]) => task[r].slot \in Slots
        BY Fields DEF RecoveryInv, Dir
    <2>3. QED
        BY <2>1, <2>2 DEF StartTask, FreeSlots, Started
<1>3. /\ task \in [Results -> Task] /\ slot \in [Slots -> Slot]
      /\ told \in [Results -> 0..MaxCkpt]
      /\ proc \in [Results -> {"none", "run", "done", "error", "killed"}]
      /\ task[r] \in Task /\ slot[s] \in Slot
    BY DEF RecoveryInv, TypeOK
<1>4. /\ ~Started(task[r]) => task[r] = NoTask /\ task[r].init = FALSE
      /\ Started(task[r]) => task[r].init = TRUE
    BY <1>3, TaskFields, NoTaskFacts DEF RecoveryInv, MemoryInv, TasksWhole
<1> DEFINE u == [st |-> "EXECUTING", slot |-> s, init |-> TRUE,
                 ckpt |-> IF task[r].init THEN task[r].ckpt ELSE 0]
<1>5. /\ u \in Task /\ u.st = "EXECUTING" /\ u.slot = s /\ u.init = TRUE
      /\ u.ckpt = IF task[r].init THEN task[r].ckpt ELSE 0
    <2>1. task[r].ckpt \in 0..MaxCkpt /\ 0 \in 0..MaxCkpt
        BY <1>3, TaskFields, RecoveryAssumption
    <2>2. QED
        BY <2>1 DEF Task
<1>6. task' = [task EXCEPT ![r] = u]
    BY <1>2
<1> HIDE DEF u
<1>7. /\ task' \in [Results -> Task] /\ task'[r] = u
      /\ \A q \in Results : q # r => task'[q] = task[q]
    BY <1>3, <1>5, <1>6
<1>8. /\ proc' \in [Results -> {"none", "run", "done", "error", "killed"}]
      /\ told' \in [Results -> 0..MaxCkpt]
      /\ told'[r] = 0 /\ proc'[r] = "run"
      /\ \A q \in Results : q # r => proc'[q] = proc[q] /\ told'[q] = told[q]
    <2>1. 0 \in 0..MaxCkpt
        BY RecoveryAssumption
    <2>2. QED
        BY <1>1, <1>3, <2>1
<1>9. /\ slot' \in [Slots -> Slot] /\ \A z \in Slots : z # s => slot'[z] = slot[z]
      /\ Started(task[r]) => slot' = slot
      /\ ~Started(task[r]) => /\ slot'[s].own = r /\ slot'[s].work = 0
                              /\ slot'[s].tsf = 0
    <2>1. CASE Started(task[r])
        BY <1>2, <1>3, <1>4, <2>1
    <2>2. CASE ~Started(task[r])
        <3> DEFINE e == [Empty EXCEPT !.own = r]
        <3>1. e \in Slot /\ e.own = r /\ e.work = 0 /\ e.tsf = 0
            BY NoTaskFacts, RecoveryAssumption DEF Empty, Slot
        <3>2. slot' = [slot EXCEPT ![s] = e]
            BY <1>2, <1>3, <1>4, <2>2 DEF Started
        <3> HIDE DEF e
        <3>3. QED
            BY <1>3, <2>2, <3>1, <3>2
    <2>3. QED
        BY <2>1, <2>2
\* Nobody else's slot is touched.
<1>10. \A q \in Results : q # r /\ Started(task[q]) => Dir(q) # s /\ Dir(q) \in Slots
    <2>1. ASSUME NEW q \in Results, q # r, Started(task[q])
          PROVE  Dir(q) # s
        <3>1. CASE Started(task[r])
            BY <1>2, <2>1, <3>1 DEF RecoveryInv, MemoryInv, TasksWhole, Dir, Started
        <3>2. CASE ~Started(task[r])
            BY <1>2, <3>2 DEF FreeSlots, Dir, Started
        <3>3. QED
            BY <3>1, <3>2
    <2>2. QED
        BY <2>1, Fields DEF RecoveryInv
<1>11. TypeOK'
    BY <1>1, <1>7, <1>8, <1>9 DEF RecoveryInv, TypeOK
<1>12. \A q \in Results : q # r => Dir(q)' = Dir(q)
    BY <1>7 DEF Dir
<1>13. Dir(r)' = s /\ Started(u)
    BY <1>5, <1>7 DEF Dir, Started
<1>14. TasksWhole'
    <2>1. ASSUME NEW q \in Results, task'[q] # NoTask
          PROVE  Started(task'[q]) /\ task'[q].init
        BY <1>5, <1>7, <1>13, <2>1 DEF RecoveryInv, MemoryInv, TasksWhole
    <2>2. ASSUME NEW q \in Results, NEW p \in Results, Started(task'[q]),
                 Started(task'[p]), Dir(q)' = Dir(p)'
          PROVE  q = p
        <3>1. CASE q # r /\ p # r
            BY <1>7, <1>12, <2>2, <3>1 DEF RecoveryInv, MemoryInv, TasksWhole
        <3>2. CASE q = r \/ p = r
            BY <1>7, <1>10, <1>12, <1>13, <2>2, <3>2
        <3>3. QED
            BY <3>1, <3>2
    <2>3. QED
        BY <2>1, <2>2 DEF TasksWhole
<1>15. ProcessesRun' /\ EndedFinished' /\ ReportsOver'
    <2>1. ~Quiet'
        BY <1>1 DEF Quiet
    <2>2. ProcessesRun'
        BY <1>1, <1>5, <1>7, <1>8, <2>1
        DEF RecoveryInv, MemoryInv, ProcessesRun, Runnable
    <2>3. EndedFinished' /\ ReportsOver'
        BY <1>1, <1>5, <1>7
        DEF RecoveryInv, MemoryInv, EndedFinished, ReportsOver, Runnable, Computed
    <2>4. QED
        BY <2>2, <2>3
<1>16. ToldSaved'
    <2>1. ASSUME NEW q \in Results, told'[q] # 0
          PROVE  /\ proc'[q] # "none" /\ slot'[Dir(q)'].own = q
                 /\ told'[q] <= slot'[Dir(q)'].work
                 /\ q \notin finished => task'[q].ckpt <= told'[q]
        <3>1. q # r /\ told[q] # 0
            BY <1>8, <2>1
        <3>2. proc[q] # "none"
            BY <3>1 DEF RecoveryInv, MemoryInv, ToldSaved
        <3>3. Started(task[q])
            BY <3>2 DEF RecoveryInv, MemoryInv, ProcessesRun, Started
        <3>4. slot'[Dir(q)'] = slot[Dir(q)]
            BY <1>9, <1>10, <1>12, <3>1, <3>3
        <3>5. QED
            BY <1>7, <1>8, <3>1, <3>4 DEF RecoveryInv, MemoryInv, ToldSaved
    <2>2. \A z \in Slots : slot'[z].tsf <= slot'[z].work
        <3>1. \A z \in Slots : slot[z].tsf <= slot[z].work
            BY DEF RecoveryInv, MemoryInv, ToldSaved
        <3>2. QED
            BY <1>9, <3>1
    <2>3. QED
        BY <1>1, <2>1, <2>2 DEF ToldSaved
<1>17. MemorySlots'
    <2> SUFFICES ASSUME NEW q \in Results, Started(task'[q]), q \notin finished
                 PROVE  /\ slot'[Dir(q)'].own = q
                        /\ task'[q].ckpt <= slot'[Dir(q)'].work
                        /\ slot'[Dir(q)'].tsf <= task'[q].ckpt
        BY <1>1 DEF MemorySlots
    <2>1. CASE q # r
        <3>1. Started(task[q]) /\ slot'[Dir(q)'] = slot[Dir(q)]
            BY <1>7, <1>9, <1>10, <1>12, <2>1
        <3>2. QED
            BY <1>1, <1>7, <2>1, <3>1 DEF RecoveryInv, MemoryInv, MemorySlots
    <2>2. CASE q = r /\ Started(task[r])
        <3>1. Dir(r) = s
            BY <1>2, <2>2 DEF Dir, Started
        <3>2. u.ckpt = task[r].ckpt /\ slot' = slot
            BY <1>4, <1>5, <1>9, <2>2
        <3>3. QED
            BY <1>1, <1>7, <1>13, <2>2, <3>1, <3>2
            DEF RecoveryInv, MemoryInv, MemorySlots
    <2>3. CASE q = r /\ ~Started(task[r])
        <3>1. u.ckpt = 0
            BY <1>4, <1>5, <2>3
        <3>2. QED
            BY <1>7, <1>9, <1>13, <2>3, <3>1
    <2>4. QED
        BY <2>1, <2>2, <2>3
<1>18. ASSUME NEW v \in Disk' PROVE SavedInv(v)' /\ Follows(v)'
    <2>1. SavedInv(v) /\ TasksFollow(v)
        BY <1>1 DEF RecoveryInv, Disk, Follows, Looping
    <2>2. ASSUME NEW q \in Results, Started(v.task[q]), q \notin finished
          PROVE  /\ slot'[v.task[q].slot] = slot[v.task[q].slot]
                 /\ v.task[q].slot \in Slots
                 /\ Started(task'[q]) /\ task'[q].slot = v.task[q].slot
        <3>1. Started(task[q]) /\ Dir(q) = v.task[q].slot
            BY <2>1, <2>2 DEF TasksFollow, Dir
        <3>2. CASE q # r
            BY <1>7, <1>9, <1>10, <3>1, <3>2 DEF Dir
        <3>3. CASE q = r
            BY <1>2, <1>5, <1>7, <1>9, <1>13, <3>1, <3>3 DEF Dir, Started
        <3>4. QED
            BY <3>2, <3>3
    <2>3. SavedInv(v)'
        <3>1. \A z \in Slots : slot[z].work <= slot[z].work
            BY Fields DEF RecoveryInv
        <3>2. QED
            BY <1>1, <1>11, <2>1, <2>2, <3>1, SavedKeeps DEF RecoveryInv
    <2>4. TasksFollow(v)' /\ ~Settled'
        BY <1>1, <2>2 DEF TasksFollow, Settled
    <2>5. QED
        BY <2>3, <2>4 DEF Follows
<1>19. SentCarried' /\ TricklesKept'
    BY <1>1 DEF RecoveryInv, SentCarried, TricklesKept
<1>20. QED
    BY <1>11, <1>14, <1>15, <1>16, <1>17, <1>18, <1>19 DEF RecoveryInv, MemoryInv

(***************************************************************************)
(* Stopping and starting.                                                  *)
(***************************************************************************)
LEMMA EndsInv ==
    ASSUME RecoveryInv, Ends,
           slot' \in [Slots -> Slot],
           \A s \in Slots : /\ slot'[s].own = slot[s].own
                            /\ slot'[s].work = slot[s].work
                            /\ slot'[s].tsf <= slot'[s].work,
           known' \in [Results -> 0..MaxCkpt],
           trickle' \in [Trickles -> {"none", "slot", "dir", "sent", "deleted",
                                      "lost"}],
           \A t \in Trickles : trickle'[t] \in {"sent", "deleted"} =>
                                 trickle'[t] = trickle[t]
    PROVE  RecoveryInv'
<1> USE DEF srvVars, storeVars
<1>1. /\ up' = FALSE /\ phase' = "idle"
      /\ events < MaxEvents /\ events' = events + 1
      /\ res' = [r \in Results |-> Gone] /\ task' = [r \in Results |-> NoTask]
      /\ pend' = FALSE /\ dirty' = FALSE
      /\ proc' = [r \in Results |-> "none"] /\ told' = [r \in Results |-> 0]
      /\ rpc' = "none" /\ rpcRes' = {} /\ rpcTr' = {}
      /\ UNCHANGED <<srvRes, srvTr, finished, unread, acked, maybe, loaded>>
    BY DEF Ends
<1>2. \A r \in Results : res'[r] = Gone /\ task'[r] = NoTask /\ proc'[r] = "none"
                         /\ told'[r] = 0
    BY <1>1
<1>3. TypeOK'
    <2>1. 0 \in 0..MaxCkpt /\ events' \in 0..MaxEvents
        BY <1>1, RecoveryAssumption DEF RecoveryInv, TypeOK
    <2>2. res' \in [Results -> Result] /\ task' \in [Results -> Task]
        BY <1>1, NoTaskFacts
    <2>3. /\ proc' \in [Results -> {"none", "run", "done", "error", "killed"}]
          /\ told' \in [Results -> 0..MaxCkpt]
        BY <1>1, <2>1
    <2>4. QED
        BY <1>1, <2>1, <2>2, <2>3 DEF RecoveryInv, TypeOK
<1>4. MemoryInv'
    <2>1. TasksWhole' /\ EndedFinished' /\ MemorySlots'
        BY <1>2, NoTaskFacts DEF TasksWhole, EndedFinished, MemorySlots, Computed
    <2>2. ReportsOver'
        BY <1>1, <1>2, NoTaskFacts DEF ReportsOver, Runnable, RecoveryInv, TypeOK
    <2>3. ProcessesRun'
        BY <1>1, <1>2, NoTaskFacts DEF ProcessesRun
    <2>4. ToldSaved'
        BY <1>2 DEF ToldSaved
    <2>5. QED
        BY <2>1, <2>2, <2>3, <2>4 DEF MemoryInv
<1>5. ASSUME NEW v \in Disk' PROVE SavedInv(v)' /\ Follows(v)'
    <2>1. SavedInv(v)
        BY <1>1 DEF RecoveryInv, Disk
    <2>2. \A q \in Results : Started(v.task[q]) => v.task[q].slot \in Slots
        BY <2>1, SavedTaskFields DEF SavedInv, SavedWhole
    <2>3. \A s \in Slots : slot[s].work <= slot'[s].work
        BY Fields DEF RecoveryInv
    <2>4. SavedInv(v)'
        BY <1>1, <1>3, <2>1, <2>2, <2>3, SavedKeeps DEF RecoveryInv
    <2>5. QED
        BY <1>1, <2>4 DEF Follows, Looping, Settled
<1>6. SentCarried' /\ TricklesKept'
    BY <1>1 DEF RecoveryInv, SentCarried, TricklesKept
<1>7. QED
    BY <1>3, <1>4, <1>5, <1>6 DEF RecoveryInv

LEMMA StopInv ==
    ASSUME RecoveryInv, Stop
    PROVE  RecoveryInv'
<1>1. Ends /\ trickle' = Moved(Results, "lost") /\ UNCHANGED <<slot, known>>
    BY DEF Stop
<1>2. /\ slot' \in [Slots -> Slot] /\ known' \in [Results -> 0..MaxCkpt]
      /\ \A s \in Slots : /\ slot'[s].own = slot[s].own
                          /\ slot'[s].work = slot[s].work
                          /\ slot'[s].tsf <= slot'[s].work
    BY <1>1 DEF RecoveryInv, TypeOK, MemoryInv, ToldSaved
<1>3. /\ trickle' \in [Trickles -> {"none", "slot", "dir", "sent", "deleted",
                                    "lost"}]
      /\ \A t \in Trickles : trickle'[t] \in {"sent", "deleted"} =>
                               trickle'[t] = trickle[t]
    BY <1>1 DEF Moved, RecoveryInv, TypeOK
<1>4. QED
    BY <1>1, <1>2, <1>3, EndsInv

\* What StopWriting leaves in the slots.
LEMMA TruncatedFacts ==
    ASSUME TypeOK, MemoryInv, NEW x \in Checkpointed, StopWriting(x)
    PROVE  \E W \in SUBSET (Checkpointed \ {x}), truncated \in BOOLEAN :
             /\ slot' \in [Slots -> Slot]
             /\ \A s \in Slots : /\ slot'[s].own = slot[s].own
                                 /\ slot'[s].work = slot[s].work
                                 /\ slot'[s].tsf <= slot'[s].work
             /\ \A s \in Slots : (\A r \in W \cup {x} : Dir(r) # s) =>
                                   slot'[s] = slot[s]
             /\ \A r \in W : slot'[Dir(r)].tsf = Status(r)
             /\ ~truncated => slot'[Dir(x)] = slot[Dir(x)]
             /\ known' = [r \in Results |->
                  IF r \in W THEN Status(r)
                  ELSE IF r = x /\ truncated THEN InStateFile(r) ELSE known[r]]
<1>1. PICK W \in SUBSET (Checkpointed \ {x}), truncated \in BOOLEAN :
        /\ slot' = IF truncated
                   THEN [write_task_state_file(W) EXCEPT ![Dir(x)].tsf = 0]
                   ELSE write_task_state_file(W)
        /\ known' = [r \in Results |->
             IF r \in W THEN Status(r)
             ELSE IF r = x /\ truncated THEN InStateFile(r) ELSE known[r]]
    BY DEF StopWriting
<1> DEFINE f == write_task_state_file(W)
<1>2. W \in SUBSET Checkpointed /\ f = write_task_state_file(W)
    OBVIOUS
<1> HIDE DEF f
<1>3. /\ f \in [Slots -> Slot]
      /\ \A s \in Slots : /\ f[s].own = slot[s].own
                          /\ f[s].work = slot[s].work
                          /\ f[s].tsf <= f[s].work
      /\ \A s \in Slots : (\A r \in W : Dir(r) # s) => f[s] = slot[s]
      /\ \A r \in W : f[Dir(r)].tsf = Status(r)
    BY <1>2, TaskFileFacts
<1>4. /\ \A r \in Checkpointed : Dir(r) \in Slots
      /\ \A r \in W : Dir(r) # Dir(x)
    BY Fields DEF Checkpointed, Started, MemoryInv, TasksWhole
<1>5. slot' = IF truncated THEN [f EXCEPT ![Dir(x)].tsf = 0] ELSE f
    BY <1>1, <1>2
<1>6. CASE truncated
    <2>1. /\ slot' = [f EXCEPT ![Dir(x)] = [f[Dir(x)] EXCEPT !.tsf = 0]]
          /\ Dir(x) \in Slots
        BY <1>3, <1>4, <1>5, <1>6
    <2>2. /\ [f[Dir(x)] EXCEPT !.tsf = 0] \in Slot
          /\ [f[Dir(x)] EXCEPT !.tsf = 0].own = f[Dir(x)].own
          /\ [f[Dir(x)] EXCEPT !.tsf = 0].work = f[Dir(x)].work
          /\ [f[Dir(x)] EXCEPT !.tsf = 0].tsf = 0
          /\ f[Dir(x)].work \in Nat
        <3>1. f[Dir(x)] \in Slot
            BY <1>3, <2>1
        <3>2. 0 \in 0..MaxCkpt
            BY RecoveryAssumption
        <3>3. QED
            BY <3>1, <3>2, RecoveryAssumption DEF Slot
    <2> DEFINE u == [f[Dir(x)] EXCEPT !.tsf = 0]
    <2> HIDE DEF u
    <2>3. /\ slot' = [f EXCEPT ![Dir(x)] = u] /\ u \in Slot
          /\ u.own = f[Dir(x)].own /\ u.work = f[Dir(x)].work /\ u.tsf <= u.work
        BY <2>1, <2>2 DEF u
    <2>4. /\ slot' \in [Slots -> Slot]
          /\ \A s \in Slots : slot'[s] = IF s = Dir(x) THEN u ELSE f[s]
        BY <1>3, <2>1, <2>3
    <2>5. /\ \A s \in Slots : /\ slot'[s].own = slot[s].own
                              /\ slot'[s].work = slot[s].work
                              /\ slot'[s].tsf <= slot'[s].work
          /\ \A s \in Slots : (\A r \in W \cup {x} : Dir(r) # s) =>
                                slot'[s] = slot[s]
          /\ \A r \in W : slot'[Dir(r)].tsf = Status(r)
        BY <1>3, <1>4, <2>3, <2>4
    <2>6. QED
        BY <1>1, <1>6, <2>4, <2>5
<1>7. CASE ~truncated
    <2>1. slot' = f
        BY <1>5, <1>7
    <2>2. slot'[Dir(x)] = slot[Dir(x)]
        BY <1>3, <1>4, <2>1
    <2>3. QED
        BY <1>1, <1>3, <1>7, <2>1, <2>2
<1>8. QED
    BY <1>6, <1>7

LEMMA StopWritingInv ==
    ASSUME RecoveryInv, NEW x \in Results, StopWriting(x)
    PROVE  RecoveryInv'
<1>1. Ends /\ x \in Checkpointed
    BY DEF StopWriting
<1>2. PICK W \in SUBSET (Checkpointed \ {x}), truncated \in BOOLEAN :
        /\ slot' \in [Slots -> Slot]
        /\ \A s \in Slots : /\ slot'[s].own = slot[s].own
                            /\ slot'[s].work = slot[s].work
                            /\ slot'[s].tsf <= slot'[s].work
        /\ known' = [r \in Results |->
             IF r \in W THEN Status(r)
             ELSE IF r = x /\ truncated THEN InStateFile(r) ELSE known[r]]
    BY <1>1, TruncatedFacts DEF RecoveryInv
<1>3. known' \in [Results -> 0..MaxCkpt]
    <2>1. \A r \in Results : InStateFile(r) \in 0..MaxCkpt
        <3>1. CASE acked = None
            BY <3>1, RecoveryAssumption DEF InStateFile
        <3>2. CASE acked # None
            <4>1. acked \in Snapshots
                BY <3>2 DEF RecoveryInv, Disk, SavedInv, SavedWhole
            <4>2. QED
                BY <3>2, <4>1, SavedTaskFields DEF InStateFile
        <3>3. QED
            BY <3>1, <3>2
    <2>2. known \in [Results -> 0..MaxCkpt]
        BY DEF RecoveryInv, TypeOK
    <2>3. QED
        BY <1>2, <2>1, <2>2, StatusFacts DEF RecoveryInv
<1>4. /\ trickle' \in [Trickles -> {"none", "slot", "dir", "sent", "deleted",
                                    "lost"}]
      /\ \A t \in Trickles : trickle'[t] \in {"sent", "deleted"} =>
                               trickle'[t] = trickle[t]
    <2>1. PICK M \in SUBSET Trickles :
            trickle' = [t \in Trickles |-> IF t \in M THEN "dir"
                                           ELSE Moved(Results, "lost")[t]]
        BY DEF StopWriting
    <2>2. \A t \in Trickles : Moved(Results, "lost")[t] \in {"lost", trickle[t]}
        BY DEF Moved
    <2>3. QED
        BY <2>1, <2>2 DEF RecoveryInv, TypeOK
<1>5. QED
    BY <1>1, <1>2, <1>3, <1>4, EndsInv

\* parse_state_file: the memory is what one of the saved states says.
LEMMA StartInv ==
    ASSUME RecoveryInv, Start
    PROVE  RecoveryInv'
<1> USE DEF appVars, rpcVars, srvVars, histVars
<1>1. /\ ~up /\ up' = TRUE /\ phase' = "init"
      /\ loaded' \in {acked} \cup maybe /\ acked' = acked /\ maybe' = maybe
      /\ UNCHANGED <<dirty, slot, proc, told, trickle, rpc, rpcRes, rpcTr, srvRes,
                     srvTr, events, finished,
                     known, unread>>
    BY DEF Start, StoreRead
<1>2. \A r \in Results : proc[r] = "none" /\ told[r] = 0
    BY <1>1 DEF RecoveryInv, MemoryInv, ProcessesRun, ToldSaved, Quiet
<1>3. rpcRes = {}
    BY <1>1 DEF RecoveryInv, MemoryInv, ProcessesRun, Quiet
<1>4. loaded' \in Values \cup {None}
    BY <1>1 DEF RecoveryInv, TypeOK
<1>5. ASSUME NEW v \in Disk' PROVE SavedInv(v)' /\ Follows(v)'
    <2>1. SavedInv(v)
        BY <1>1 DEF RecoveryInv, Disk
    <2>2. QED
        BY <1>1, <2>1 DEF SavedInv, SavedWhole, SavedSlots, SavedOver, Follows,
                          Looping, Settled
<1>6. SentCarried' /\ TricklesKept'
    BY <1>1 DEF RecoveryInv, SentCarried, TricklesKept
<1>7. /\ res' \in [Results -> Result] /\ task' \in [Results -> Task]
      /\ pend' \in BOOLEAN
      /\ TasksWhole' /\ EndedFinished' /\ MemorySlots'
      /\ \A r \in srvRes : ~Runnable(r)'
      /\ \A r \in Results : task'[r].st \in {"none", "UNINITIALIZED"}
    <2>1. CASE UNCHANGED <<res, task, pend>>
        <3>1. MemorySlots'
            BY <1>1, <2>1 DEF RecoveryInv, MemoryInv, MemorySlots, Dir
        <3>2. QED
            BY <1>1, <2>1, <3>1
            DEF RecoveryInv, TypeOK, MemoryInv, TasksWhole, EndedFinished,
                ReportsOver, ProcessesRun, Quiet, Runnable, Dir
    <2>2. CASE loaded' # None
        <3> DEFINE v == loaded'
        <3>1. v \in Disk /\ SavedInv(v)
            BY <1>1, <2>2 DEF Disk, RecoveryInv
        <3>2. /\ res' = v.res /\ pend' = v.pend
              /\ task' = [r \in Results |-> Parsed(v, r)]
            BY <2>2 DEF Start
        <3> HIDE DEF v
        <3>3. v \in Snapshots
            BY <3>1 DEF SavedInv, SavedWhole
        <3>4. ASSUME NEW r \in Results
              PROVE  /\ task'[r] \in {v.task[r], NoTask} /\ task'[r] \in Task
                     /\ v.task[r] \in Task
            BY <3>2, <3>3, NoTaskFacts, SavedTaskFields DEF Parsed
        <3>5. ASSUME NEW r \in Results, Started(task'[r])
              PROVE  /\ task'[r] = v.task[r] /\ Started(v.task[r])
                     /\ task'[r].st = "UNINITIALIZED" /\ task'[r].init
            <4>1. task'[r] = v.task[r] /\ v.task[r] # NoTask
                BY <3>4, <3>5, NoTaskFacts
            <4>2. QED
                BY <3>1, <3>5, <4>1 DEF SavedInv, SavedWhole
        <3>6. /\ res' \in [Results -> Result] /\ task' \in [Results -> Task]
              /\ pend' \in BOOLEAN
            BY <3>2, <3>3, <3>4 DEF Snapshots
        <3>7. TasksWhole'
            <4>1. ASSUME NEW r \in Results, task'[r] # NoTask
                  PROVE  Started(task'[r]) /\ task'[r].init
                BY <3>4, <3>5, <4>1, TaskFields
            <4>2. ASSUME NEW r \in Results, NEW q \in Results, Started(task'[r]),
                         Started(task'[q]), Dir(r)' = Dir(q)'
                  PROVE  r = q
                BY <3>1, <3>5, <4>2 DEF SavedInv, SavedWhole, Dir
            <4>3. QED
                BY <4>1, <4>2 DEF TasksWhole
        <3>8. \A r \in Results : task'[r].st \in {"none", "UNINITIALIZED"}
            BY <3>5 DEF Started
        <3>9. EndedFinished' /\ \A r \in srvRes : ~Runnable(r)'
            BY <1>1, <3>1, <3>2, <3>8
            DEF SavedInv, SavedOver, EndedFinished, Computed, Runnable, RunnableIn
        <3>10. MemorySlots'
            BY <1>1, <3>1, <3>5 DEF SavedInv, SavedSlots, MemorySlots, Dir
        <3>11. QED
            BY <3>6, <3>7, <3>8, <3>9, <3>10
    <2>3. QED
        BY <2>1, <2>2 DEF Start
<1>8. TypeOK'
    BY <1>1, <1>4, <1>7 DEF RecoveryInv, TypeOK
<1>9. ProcessesRun' /\ ReportsOver'
    BY <1>1, <1>2, <1>3, <1>7 DEF ProcessesRun, ReportsOver
<1>10. ToldSaved'
    BY <1>1, <1>2 DEF ToldSaved, RecoveryInv, MemoryInv
<1>11. QED
    BY <1>5, <1>6, <1>7, <1>8, <1>9, <1>10 DEF RecoveryInv, MemoryInv

\* ACTIVE_TASK_SET::init, after the first write: the checkpoint times are
\* brought up to what the task state files say, which the slots have.
LEMMA InitTasksInv ==
    ASSUME RecoveryInv, InitTasks
    PROVE  RecoveryInv'
<1> USE DEF appVars, rpcVars, srvVars, histVars, storeVars, At
<1> DEFINE newer(r) == task[r].st # "none" /\ slot[Dir(r)].own = r
                       /\ slot[Dir(r)].tsf > task[r].ckpt
<1>1. /\ up /\ phase = "initing" /\ dirty' = TRUE
      /\ task' = [r \in Results |->
           IF newer(r) THEN [task[r] EXCEPT !.ckpt = slot[Dir(r)].tsf] ELSE task[r]]
      /\ UNCHANGED <<res, pend, slot, proc, told, trickle, rpc, rpcRes, rpcTr,
                     srvRes, srvTr, events, finished,
                     known, unread, up>>
      /\ \/ StoreDone(Snapshot) /\ phase' = "idle"
         \/ UNCHANGED <<acked, maybe, loaded>> /\ phase' = "cant"
    BY DEF InitTasks
<1>2. /\ Snapshot \in Snapshots /\ SavedInv(Snapshot)
      /\ TasksFollow(Snapshot) /\ RunsFollow(Snapshot)
    BY SnapshotInv DEF RecoveryInv
<1>3. \A r \in Results : proc[r] = "none" /\ told[r] = 0
    BY <1>1 DEF RecoveryInv, MemoryInv, ProcessesRun, ToldSaved, Quiet
<1>4. ASSUME NEW r \in Results
      PROVE  /\ task'[r] \in Task /\ task'[r].st = task[r].st
             /\ task'[r].slot = task[r].slot /\ task'[r].init = task[r].init
             /\ task'[r].ckpt = IF newer(r) THEN slot[Dir(r)].tsf ELSE task[r].ckpt
    <2>1. CASE newer(r)
        <3>1. Started(task[r]) /\ Dir(r) \in Slots /\ task[r] \in Task
            BY <2>1, Fields DEF RecoveryInv, Started
        <3>2. slot[Dir(r)].tsf \in 0..MaxCkpt
            BY <3>1 DEF RecoveryInv, TypeOK, Slot
        <3>3. task'[r] = [task[r] EXCEPT !.ckpt = slot[Dir(r)].tsf]
            BY <1>1, <2>1
        <3> HIDE DEF newer
        <3>4. QED
            BY <2>1, <3>1, <3>2, <3>3, TaskCkpt
    <2>2. CASE ~newer(r)
        BY <1>1, <2>2, Fields DEF RecoveryInv
    <2>3. QED
        BY <2>1, <2>2
<1>5. /\ \A r \in Results : Started(task'[r]) <=> Started(task[r])
      /\ \A r \in Results : Dir(r)' = Dir(r)
    BY <1>4 DEF Started, Dir
<1>6. task' \in [Results -> Task]
    BY <1>1, <1>4
<1>7. TypeOK'
    <2>1. Snapshot \in Values
        BY <1>2, StoreAssumption
    <2>2. /\ acked' \in Values \cup {None} /\ loaded' \in Values \cup {None}
          /\ maybe' \in SUBSET Values /\ phase' \in {"idle", "cant"}
        BY <1>1, <2>1 DEF RecoveryInv, TypeOK, StoreDone
    <2>3. QED
        BY <1>1, <1>6, <2>2 DEF RecoveryInv, TypeOK
<1>8. TasksWhole'
    <2>1. ASSUME NEW r \in Results, task'[r] # NoTask
          PROVE  Started(task'[r]) /\ task'[r].init
        <3>1. Started(task[r]) /\ task[r] # NoTask
            BY <1>4, <1>5, <2>1, TaskFields, Fields DEF RecoveryInv
        <3>2. QED
            BY <1>4, <1>5, <3>1 DEF RecoveryInv, MemoryInv, TasksWhole
    <2>2. QED
        BY <1>5, <2>1 DEF RecoveryInv, MemoryInv, TasksWhole
<1>9. ProcessesRun' /\ EndedFinished' /\ ReportsOver'
    BY <1>1, <1>3, <1>4 DEF RecoveryInv, MemoryInv, ProcessesRun, EndedFinished,
                            ReportsOver, Runnable, Quiet
<1>10. ToldSaved'
    BY <1>1, <1>3 DEF ToldSaved, RecoveryInv, MemoryInv
<1>11. MemorySlots'
    <2> SUFFICES ASSUME NEW r \in Results, Started(task[r]), r \notin finished
                 PROVE  /\ slot[Dir(r)].own = r
                        /\ task'[r].ckpt <= slot[Dir(r)].work
                        /\ slot[Dir(r)].tsf <= task'[r].ckpt
        BY <1>1, <1>5 DEF MemorySlots
    <2>1. /\ slot[Dir(r)].own = r /\ task[r].ckpt <= slot[Dir(r)].work
          /\ Dir(r) \in Slots
        BY Fields DEF RecoveryInv, MemoryInv, MemorySlots
    <2>2. /\ slot[Dir(r)].tsf <= slot[Dir(r)].work
          /\ slot[Dir(r)].tsf \in Nat /\ slot[Dir(r)].work \in Nat
          /\ task[r].ckpt \in Nat
        BY <2>1, Fields DEF RecoveryInv, MemoryInv, ToldSaved
    <2>3. CASE newer(r)
        <3>1. task'[r].ckpt = slot[Dir(r)].tsf
            BY <1>4, <2>3
        <3>2. QED
            BY <2>1, <2>2, <3>1
    <2>4. CASE ~newer(r)
        <3>1. task'[r].ckpt = task[r].ckpt
            BY <1>4, <2>4
        <3>2. slot[Dir(r)].tsf <= task[r].ckpt
            BY <2>1, <2>2, <2>4 DEF Started
        <3>3. QED
            BY <2>1, <2>2, <3>1, <3>2
    <2>5. QED
        BY <2>3, <2>4
<1> HIDE DEF newer
<1>12. ASSUME NEW v \in Disk' PROVE SavedInv(v)' /\ Follows(v)'
    <2>1. SavedInv(v)
        BY <1>1, <1>2 DEF RecoveryInv, Disk, StoreDone
    <2>2. SavedInv(v)'
        BY <1>1, <2>1 DEF SavedInv, SavedWhole, SavedSlots, SavedOver
    <2>3. CASE phase' = "idle"
        <3>1. v = Snapshot
            BY <1>1, <2>3 DEF Disk, StoreDone
        <3>2. TasksFollow(v)' /\ RunsFollow(v)'
            BY <1>1, <1>2, <1>4, <1>5, <3>1 DEF TasksFollow, RunsFollow, Runnable
        <3>3. QED
            BY <2>2, <3>2 DEF Follows
    <2>4. CASE phase' = "cant"
        BY <2>2, <2>4 DEF Follows, Looping, Settled
    <2>5. QED
        BY <1>1, <2>3, <2>4
<1>13. SentCarried' /\ TricklesKept'
    BY <1>1 DEF RecoveryInv, SentCarried, TricklesKept
<1>14. QED
    BY <1>7, <1>8, <1>9, <1>10, <1>11, <1>12, <1>13 DEF RecoveryInv, MemoryInv

-----------------------------------------------------------------------------
LEMMA RecoveryStepInv == RecoveryInv /\ [Next]_vars => RecoveryInv'
<1> SUFFICES ASSUME RecoveryInv, [Next]_vars PROVE RecoveryInv'
    OBVIOUS
<1>1. CASE UNCHANGED vars
    <2> USE <1>1 DEF vars, memVars, appVars, rpcVars, srvVars, histVars, storeVars
    <2>1. TypeOK'
        BY DEF RecoveryInv, TypeOK
    <2>2. MemoryInv'
        BY MemoryKeeps DEF RecoveryInv, Quiet
    <2>3. \A v \in Disk' : SavedInv(v)' /\ Follows(v)'
        BY <2>1, DiskKeeps DEF RecoveryInv, Disk, Follows, Looping, Settled
    <2>4. SentCarried' /\ TricklesKept'
        BY DEF RecoveryInv, SentCarried, TricklesKept
    <2>5. QED
        BY <2>1, <2>2, <2>3, <2>4 DEF RecoveryInv
<1>2. CASE Apps
    BY <1>2, CheckpointInv, ExitInv, TrickleInv DEF Apps
<1>3. CASE Pass
    BY <1>3, ExitedInv, GetMsgsInv, FinishInv, StartTaskInv, RequestInv,
       ReplyInv, RpcOverInv, SaveInv DEF Pass
<1>4. CASE RpcSend \/ Stop \/ Quit \/ QuitDone \/ \E r \in Results : StopWriting(r)
    BY <1>4, RpcSendInv, StopInv, StopWritingInv, QuitInv, SaveInv
<1>5. CASE Start \/ InitWrite \/ InitTasks
    BY <1>5, StartInv, SaveInv, InitTasksInv
<1>6. QED
    BY <1>1, <1>2, <1>3, <1>4, <1>5 DEF Next

LEMMA RecoveryAlways == Spec => []RecoveryInv
BY RecoveryInitInv, RecoveryStepInv, PTL DEF Spec

\* Every variable keeps its type; what the store holds are states of the
\* client.
THEOREM TypeCorrect == Spec => []TypeOK
<1>1. RecoveryInv => TypeOK BY DEF RecoveryInv
<1>2. QED BY <1>1, RecoveryAlways, PTL

\* No crash, at any step, makes the client compute a result again that the
\* server has a report of.
THEOREM ReportedStaysOver == Spec => []ReportedNeverRuns
<1>1. RecoveryInv => ReportedNeverRuns
    BY DEF RecoveryInv, MemoryInv, ProcessesRun, ReportsOver, ReportedNeverRuns,
           TypeOK
<1>2. QED BY <1>1, RecoveryAlways, PTL

\* After any number of crashes an unfinished task finds its own links in its
\* slot, though full_init_done is saved and the slot directories are not.
THEOREM SlotsKept == Spec => []SlotKept
<1>1. RecoveryInv => SlotKept
    <2> SUFFICES ASSUME RecoveryInv, NEW r \in Results, task[r].init,
                        r \notin finished
                 PROVE  slot[Dir(r)].own = r
        BY DEF SlotKept
    <2>1. Started(task[r])
        BY TaskFields, NoTaskFacts, Fields DEF RecoveryInv
    <2>2. QED
        BY <2>1 DEF RecoveryInv, MemoryInv, MemorySlots
<1>2. QED BY <1>1, RecoveryAlways, PTL

-----------------------------------------------------------------------------
(***************************************************************************)
(* The checkpoints that files tell of.                                     *)
(***************************************************************************)
LEMMA SnapshotTask ==
    ASSUME TypeOK, NEW r \in Results
    PROVE  /\ Started(Snapshot.task[r]) <=> Started(task[r])
           /\ Started(task[r]) => /\ Snapshot.task[r].slot = task[r].slot
                                  /\ Snapshot.task[r].ckpt = task[r].ckpt
           /\ RunnableIn(Snapshot, r) <=> Runnable(r)
<1>1. Snapshot.task[r] = Saved(task[r]) /\ Snapshot.res[r] = res[r]
    BY DEF Snapshot
<1>2. QED
    BY <1>1, Fields, SavedFields, NoTaskFacts DEF Started, RunnableIn, Runnable

LEMMA SnapshotKnown ==
    ASSUME TypeOK, MemoryKnown, up
    PROVE  SavedKnown(Snapshot)
BY SnapshotTask DEF MemoryKnown, SavedKnown, Covered

\* A write that is done: what it recorded is known, and nothing else grew.
LEMMA RecordedKnown ==
    ASSUME TypeOK, TypeOK', MemoryInv, MemoryKnown, up,
           known' = Recorded, UNCHANGED <<slot, finished, task, res>>
    PROVE  SavedKnown(Snapshot)' /\ MemoryKnown'
<1>1. ASSUME NEW r \in Results, r \notin finished, known'[r] # 0
      PROVE  /\ Started(task[r]) /\ Runnable(r)
             /\ known'[r] <= task[r].ckpt \/ known'[r] <= slot[task[r].slot].tsf
    <2>1. known'[r] = IF Runnable(r) THEN task[r].ckpt ELSE known[r]
        BY DEF Recorded
    <2>2. CASE Runnable(r)
        <3>1. known'[r] = task[r].ckpt /\ task[r] \in Task /\ task[r].ckpt \in Nat
            BY <2>1, <2>2, Fields
        <3>2. Started(task[r])
            BY <1>1, <3>1, TaskFields, NoTaskFacts
        <3>3. QED
            BY <2>2, <3>1, <3>2
    <2>3. CASE ~Runnable(r)
        BY <1>1, <2>1, <2>3 DEF MemoryKnown, Covered
    <2>4. QED
        BY <2>2, <2>3
<1>2. MemoryKnown'
    BY <1>1 DEF MemoryKnown, Covered, Runnable
<1>3. SavedKnown(Snapshot)'
    <2> SUFFICES ASSUME NEW r \in Results, r \notin finished', known'[r] # 0
                 PROVE  Covered(Snapshot.task[r], r)' /\ RunnableIn(Snapshot, r)'
        BY DEF SavedKnown
    <2>1. /\ (Snapshot.task[r])' = Saved(task[r]) /\ (Snapshot.res[r])' = res[r]
          /\ Snapshot.task[r] = Saved(task[r])
        BY DEF Snapshot
    <2>2. /\ Started(Saved(task[r])) /\ Saved(task[r]).slot = task[r].slot
          /\ Saved(task[r]).ckpt = task[r].ckpt
        BY <1>1, <2>1, SnapshotTask
    <2>3. Covered(Snapshot.task[r], r)'
        BY <1>1, <2>1, <2>2 DEF Covered, Started
    <2>4. RunnableIn(Snapshot, r)'
        BY <1>1, <2>1 DEF RunnableIn, Runnable
    <2>5. QED
        BY <2>3, <2>4
<1>4. QED
    BY <1>2, <1>3

\* A saved state keeps them while no task state file of its tasks is lost.
LEMMA SavedKnownKeeps ==
    ASSUME TypeOK, TypeOK', NEW v, SavedInv(v), SavedKnown(v),
           finished \subseteq finished',
           \A r \in Results :
             r \notin finished' =>
               /\ known'[r] = known[r]
               /\ Started(v.task[r]) =>
                    slot'[v.task[r].slot].tsf = slot[v.task[r].slot].tsf
    PROVE  SavedKnown(v)'
BY DEF SavedKnown, Covered, RunnableIn

\* And so does the memory, if its tasks stay and do not go back.
LEMMA MemoryKnownKeeps ==
    ASSUME TypeOK, TypeOK', MemoryKnown, up, finished \subseteq finished',
           \A r \in Results : r \notin finished' => known'[r] = known[r],
           \A r \in Results :
             r \notin finished' /\ Started(task[r]) /\ Runnable(r) =>
               /\ Started(task'[r]) /\ Runnable(r)'
               /\ task[r].ckpt <= task'[r].ckpt /\ task'[r].slot = task[r].slot
               /\ slot'[Dir(r)].tsf = slot[Dir(r)].tsf
    PROVE  MemoryKnown'
<1> SUFFICES ASSUME NEW r \in Results, r \notin finished', known'[r] # 0
             PROVE  Covered(task[r], r)' /\ Runnable(r)'
    BY DEF MemoryKnown
<1>1. Covered(task[r], r) /\ Runnable(r) /\ known'[r] = known[r]
    BY DEF MemoryKnown
<1>2. /\ task[r].ckpt \in Nat /\ task'[r].ckpt \in Nat /\ known[r] \in Nat
    <2>1. task'[r] \in Task
        BY DEF TypeOK
    <2>2. QED
        BY <2>1, Fields, TaskFields, RecoveryAssumption DEF TypeOK
<1>3. QED
    BY <1>1, <1>2 DEF Covered, Dir

\* A step that leaves the tasks, the store and the task state files alone.
LEMMA KnownPlain ==
    ASSUME RecoveryInv, RecoveryInv', KnownInv,
           UNCHANGED <<res, task, known, finished, acked, maybe>>,
           \A s \in Slots : slot'[s].tsf = slot[s].tsf,
           up' => up, InPass' => InPass, Fresh' => Fresh,
           \A r \in Results : proc'[r] # "none" => proc[r] # "none"
    PROVE  KnownInv'
<1>1. StoreKnown'
    BY DEF KnownInv, StoreKnown
<1>2. OnDisk'
    BY DEF KnownInv, OnDisk, RunnableIn, Started
<1>3. MemoryKnown'
    BY Fields DEF RecoveryInv, KnownInv, MemoryKnown, Covered, Runnable, Started, Dir
<1>4. ASSUME NEW v \in Disk' PROVE SavedKnown(v)'
    <2>1. SavedInv(v) /\ SavedKnown(v)
        BY DEF RecoveryInv, KnownInv, Disk
    <2>2. \A q \in Results : Started(v.task[q]) => v.task[q].slot \in Slots
        BY <2>1, SavedTaskFields DEF SavedInv, SavedWhole
    <2>3. QED
        BY <2>1, <2>2, SavedKnownKeeps DEF RecoveryInv
<1>5. QED
    BY <1>1, <1>2, <1>3, <1>4 DEF KnownInv

LEMMA AppsKnown ==
    ASSUME RecoveryInv, RecoveryInv', KnownInv, Apps \/ RpcSend \/ MakeRequest \/ RpcOver
    PROVE  KnownInv'
<1> USE DEF memVars, appVars, rpcVars, srvVars, histVars, storeVars, Step, At, Turn
<1>1. /\ UNCHANGED <<res, task, known, finished, acked, maybe, up, dirty>>
      /\ phase' = phase \/ (phase = "enforce" /\ phase' = "save")
    BY DEF Apps, AppCheckpoint, AppTrickle, AppExit, RpcSend, MakeRequest, RpcOver
<1>2. ASSUME NEW s \in Slots PROVE slot'[s].tsf = slot[s].tsf
    <2>1. CASE UNCHANGED slot
        BY <2>1
    <2>2. ASSUME NEW r \in Results,
                 slot' = [slot EXCEPT ![Dir(r)].work = @ + 1]
          PROVE  slot'[s].tsf = slot[s].tsf
        BY <2>2 DEF RecoveryInv, TypeOK, Slot
    <2>3. QED
        BY <2>1, <2>2
        DEF Apps, AppCheckpoint, AppTrickle, AppExit, RpcSend, MakeRequest, RpcOver
<1>3. ASSUME NEW r \in Results, proc'[r] # "none" PROVE proc[r] # "none"
    <2>1. CASE UNCHANGED proc
        BY <1>3, <2>1
    <2>2. ASSUME NEW q \in Results, AppExit(q) PROVE proc[r] # "none"
        <3>1. proc[q] = "run" /\ \E z : proc' = [proc EXCEPT ![q] = z]
            BY <2>2 DEF AppExit, Runs
        <3>2. QED
            BY <1>3, <3>1 DEF RecoveryInv, TypeOK
    <2>3. QED
        BY <2>1, <2>2
        DEF Apps, AppCheckpoint, AppTrickle, RpcSend, MakeRequest, RpcOver
<1>4. (InPass' => InPass) /\ (Fresh' => Fresh)
    BY <1>1 DEF InPass, Fresh
<1>5. QED
    BY <1>1, <1>2, <1>3, <1>4, KnownPlain

\* The slot of a task is not the slot of another, on disk or in memory.
LEMMA ElsewhereOnDisk ==
    ASSUME RecoveryInv, Looping, NEW v \in Disk, NEW r \in Results,
           Started(v.task[r]), r \notin finished,
           NEW q \in Results, Started(task[q]), v.task[r].slot = Dir(q)
    PROVE  q = r
BY DEF RecoveryInv, MemoryInv, TasksWhole, Follows, TasksFollow, Dir

LEMMA ExitedKnown ==
    ASSUME RecoveryInv, RecoveryInv', KnownInv, CheckAppExited
    PROVE  KnownInv'
<1> USE DEF memVars, appVars, rpcVars, srvVars, histVars, storeVars, Step, At
<1>1. /\ up /\ phase = "idle" /\ phase' = "msgs"
      /\ UNCHANGED <<acked, maybe, up, known>>
    BY DEF CheckAppExited
<1>2. InPass /\ InPass' /\ Fresh /\ Looping
    BY <1>1 DEF InPass, Fresh, Looping
<1>3. CASE UNCHANGED <<memVars, appVars, trickle, finished>>
    BY <1>1, <1>2, <1>3, KnownPlain
<1>4. ASSUME NEW r \in Results,
             proc[r] \in {"done", "error", "killed"},
             task' = [task EXCEPT
               ![r].st = IF proc[r] = "killed" THEN "UNINITIALIZED" ELSE "EXITED",
               ![r].ckpt = Status(r)],
             res' = IF proc[r] = "error"
                    THEN [res EXCEPT ![r] = [st |-> "COMPUTE_ERROR",
                                             ready |-> TRUE]]
                    ELSE res,
             slot' = IF proc[r] = "killed" THEN slot
                     ELSE [slot EXCEPT ![Dir(r)] = Empty],
             proc' = [proc EXCEPT ![r] = "none"],
             finished' = IF proc[r] = "killed" THEN finished
                         ELSE finished \cup {r}
      PROVE  KnownInv'
    <2>1. /\ Started(task[r]) /\ task[r] \in Task /\ Dir(r) \in Slots
          /\ task[r].ckpt \in Nat /\ Status(r) \in Nat
        BY <1>4, Fields, StatusFacts
        DEF RecoveryInv, MemoryInv, ProcessesRun, Started
    <2>2. /\ task \in [Results -> Task] /\ res \in [Results -> Result]
          /\ slot \in [Slots -> Slot]
          /\ proc \in [Results -> {"none", "run", "done", "error", "killed"}]
        BY DEF RecoveryInv, TypeOK
    <2>3. /\ \A q \in Results : q # r => task'[q] = task[q] /\ res'[q] = res[q]
          /\ \A q \in Results : proc'[q] # "none" => q # r /\ proc[q] # "none"
          /\ \A s \in Slots : s # Dir(r) => slot'[s] = slot[s]
          /\ finished \subseteq finished'
          /\ proc[r] # "killed" => r \in finished'
          /\ proc[r] = "killed" => slot' = slot /\ res' = res
        BY <1>4, <2>1, <2>2
    <2>4. /\ task'[r].slot = task[r].slot /\ task'[r].ckpt = Status(r)
          /\ task'[r].st \in {"UNINITIALIZED", "EXITED"}
        <3> DEFINE st == IF proc[r] = "killed" THEN "UNINITIALIZED" ELSE "EXITED"
        <3>1. task' = [task EXCEPT ![r] = [task[r] EXCEPT !.st = st, !.ckpt = Status(r)]]
            BY <1>4, <2>2
        <3>2. st \in {"UNINITIALIZED", "EXITED"}
            OBVIOUS
        <3> HIDE DEF st
        <3>3. task[r] \in [st : {"UNINITIALIZED", "EXECUTING", "EXITED"},
                           slot : Slots, init : BOOLEAN, ckpt : 0..MaxCkpt]
            BY <2>1, NoTaskFacts DEF Task
        <3> DEFINE u == [task[r] EXCEPT !.st = st, !.ckpt = Status(r)]
        <3>4. u.slot = task[r].slot /\ u.ckpt = Status(r) /\ u.st = st
            BY <3>3
        <3> HIDE DEF u
        <3>5. task'[r] = u
            BY <2>2, <3>1 DEF u
        <3>6. QED
            BY <3>2, <3>4, <3>5
    <2>5. StoreKnown'
        BY <1>1, <1>2 DEF KnownInv, StoreKnown
    <2>6. OnDisk'
        BY <1>1, <1>2, <2>3 DEF KnownInv, OnDisk, RunnableIn, Started
    <2>7. ASSUME NEW q \in Results, q \notin finished', Started(task[q]), Runnable(q)
          PROVE  /\ Started(task'[q]) /\ Runnable(q)'
                 /\ task[q].ckpt <= task'[q].ckpt /\ task'[q].slot = task[q].slot
                 /\ slot'[Dir(q)].tsf = slot[Dir(q)].tsf
        <3>1. CASE q = r
            <4>1. task[r].ckpt <= Status(r)
                BY <2>1, <2>3, <2>7, <3>1, StatusFacts DEF RecoveryInv
            <4>2. QED
                BY <2>3, <2>4, <2>7, <3>1, <4>1 DEF Started, Runnable
        <3>2. CASE q # r
            <4>1. Dir(q) # Dir(r) /\ Dir(q) \in Slots /\ task[q].ckpt \in Nat
                BY <2>1, <2>7, <3>2, Fields DEF RecoveryInv, MemoryInv, TasksWhole
            <4>2. QED
                BY <2>3, <2>7, <3>2, <4>1 DEF Runnable
        <3>3. QED
            BY <3>1, <3>2
    <2>8. MemoryKnown'
        BY <1>1, <2>3, <2>7, MemoryKnownKeeps DEF RecoveryInv, KnownInv
    <2>9. ASSUME NEW v \in Disk' PROVE SavedKnown(v)'
        <3>1. v \in Disk /\ SavedInv(v) /\ SavedKnown(v)
            BY <1>1 DEF RecoveryInv, KnownInv, Disk
        <3>2. ASSUME NEW q \in Results, q \notin finished', Started(v.task[q])
              PROVE  slot'[v.task[q].slot].tsf = slot[v.task[q].slot].tsf
            <4>1. v.task[q].slot \in Slots
                BY <3>1, <3>2, SavedTaskFields DEF SavedInv, SavedWhole
            <4>2. CASE v.task[q].slot = Dir(r)
                BY <1>2, <2>1, <2>3, <3>1, <3>2, <4>2, ElsewhereOnDisk
            <4>3. QED
                BY <2>3, <4>1, <4>2
        <3>3. QED
            BY <1>1, <2>3, <3>1, <3>2, SavedKnownKeeps DEF RecoveryInv
    <2>10. QED
        BY <2>5, <2>6, <2>8, <2>9 DEF KnownInv
<1>5. QED
    BY <1>3, <1>4 DEF CheckAppExited

\* update_results, handle_finished_apps and handle_scheduler_reply take
\* away only tasks that are over.
LEMMA FinishKnown ==
    ASSUME RecoveryInv, RecoveryInv', KnownInv, FinishApps \/ HandleReply
    PROVE  KnownInv'
<1> USE DEF memVars, appVars, rpcVars, srvVars, histVars, storeVars, Step, At
<1>1. /\ up /\ phase \in {"finish", "enforce"} /\ phase' \in {"enforce", "save"}
      /\ UNCHANGED <<slot, proc, acked, maybe, up, known, finished>>
      /\ dirty' = FALSE => dirty = FALSE
    BY DEF FinishApps, HandleReply, RecoveryInv, TypeOK
<1>2. ASSUME NEW r \in Results, Started(task[r]), r \notin finished
      PROVE  task'[r] = task[r] /\ (Runnable(r) => Runnable(r)')
    <2>1. task[r].st # "EXITED" /\ ~Computed(res[r])
        BY <1>2 DEF RecoveryInv, MemoryInv, EndedFinished
    <2>2. CASE FinishApps
        BY <2>1, <2>2 DEF FinishApps, Runnable
    <2>3. CASE HandleReply
        <3>1. r \notin rpcRes
            BY <2>1 DEF RecoveryInv, MemoryInv, ReportsOver, Computed
        <3>2. QED
            BY <2>3, <3>1 DEF HandleReply, Replied, Runnable, Gone
    <2>4. QED
        BY <2>2, <2>3
<1>3. StoreKnown'
    BY <1>1 DEF KnownInv, StoreKnown, InPass
<1>4. OnDisk'
    <2>1. ASSUME Fresh', NEW r \in Results, proc'[r] # "none"
          PROVE  task'[r].slot = task[r].slot
        <3>1. task[r].st = "EXECUTING" /\ Runnable(r)
            BY <1>1, <2>1 DEF RecoveryInv, MemoryInv, ProcessesRun
        <3>2. CASE FinishApps
            BY <3>1, <3>2 DEF FinishApps
        <3>3. CASE HandleReply
            <4>1. r \notin rpcRes
                BY <3>1 DEF RecoveryInv, MemoryInv, ReportsOver, Runnable
            <4>2. QED
                BY <3>3, <4>1 DEF HandleReply
        <3>4. QED
            BY <3>2, <3>3
    <2>2. Fresh' => Fresh
        BY <1>1 DEF Fresh, InPass, RecoveryInv, TypeOK
    <2>3. QED
        BY <1>1, <2>1, <2>2 DEF KnownInv, OnDisk, RunnableIn, Started
<1>5. MemoryKnown'
    <2>1. \A r \in Results : Started(task[r]) => task[r].ckpt <= task[r].ckpt
        BY Fields DEF RecoveryInv
    <2>2. QED
        BY <1>1, <1>2, <2>1, MemoryKnownKeeps DEF RecoveryInv, KnownInv
<1>6. ASSUME NEW v \in Disk' PROVE SavedKnown(v)'
    BY <1>1, SavedKnownKeeps DEF RecoveryInv, KnownInv, Disk
<1>7. QED
    BY <1>3, <1>4, <1>5, <1>6 DEF KnownInv

LEMMA StartTaskKnown ==
    ASSUME RecoveryInv, RecoveryInv', KnownInv, NEW r \in Results, StartTask(r)
    PROVE  KnownInv'
<1> USE DEF memVars, appVars, rpcVars, srvVars, histVars, storeVars, At
<1>1. /\ up /\ phase = "enforce" /\ phase' = "enforce" /\ dirty' = TRUE
      /\ UNCHANGED <<res, acked, maybe, up, known, finished>>
      /\ task[r].st \in {"none", "UNINITIALIZED"}
    BY DEF StartTask
<1>2. PICK s \in IF task[r].st = "none" THEN FreeSlots ELSE {task[r].slot} :
        /\ slot' = [slot EXCEPT ![s] =
             IF task[r].init THEN @
             ELSE [(IF task[r].st = "none" THEN Empty ELSE slot[s]) EXCEPT !.own = r]]
        /\ task' = [task EXCEPT ![r] =
             [st |-> "EXECUTING", slot |-> s, init |-> TRUE,
              ckpt |-> IF @.init THEN @.ckpt ELSE 0]]
    BY DEF StartTask
<1>3. /\ task \in [Results -> Task] /\ slot \in [Slots -> Slot]
    BY DEF RecoveryInv, TypeOK
<1>4. /\ \A q \in Results : q # r => task'[q] = task[q]
      /\ task'[r] = [st |-> "EXECUTING", slot |-> s, init |-> TRUE,
                     ckpt |-> IF task[r].init THEN task[r].ckpt ELSE 0]
    BY <1>2, <1>3
<1>5. Started(task[r]) => /\ s = task[r].slot /\ slot' = slot
                          /\ task'[r].ckpt = task[r].ckpt
                          /\ task'[r].slot = task[r].slot /\ Started(task'[r])
    <2>1. Started(task[r]) => task[r].init /\ s = task[r].slot
        BY <1>2, <1>3, TaskFields DEF RecoveryInv, MemoryInv, TasksWhole, Started
    <2>2. QED
        BY <1>2, <1>3, <1>4, <2>1 DEF Started
<1>6. ~Started(task[r]) => /\ s \in FreeSlots
                           /\ \A d \in Slots : d # s => slot'[d] = slot[d]
    BY <1>2, <1>3 DEF Started
<1>7. StoreKnown' /\ OnDisk'
    BY <1>1 DEF KnownInv, StoreKnown, InPass, OnDisk, Fresh
<1>8. ASSUME NEW q \in Results, Started(task[q])
      PROVE  /\ Started(task'[q]) /\ task[q].ckpt <= task'[q].ckpt
             /\ task'[q].slot = task[q].slot
             /\ slot'[Dir(q)].tsf = slot[Dir(q)].tsf
    <2>1. Dir(q) \in Slots /\ task[q].ckpt \in Nat
        BY <1>8, Fields DEF RecoveryInv
    <2>2. CASE q = r
        BY <1>5, <1>8, <2>1, <2>2
    <2>3. CASE q # r /\ Started(task[r])
        BY <1>4, <1>5, <1>8, <2>1, <2>3
    <2>4. CASE q # r /\ ~Started(task[r])
        BY <1>4, <1>6, <1>8, <2>1, <2>4 DEF FreeSlots, Dir
    <2>5. QED
        BY <2>2, <2>3, <2>4
<1>9. MemoryKnown'
    BY <1>1, <1>8, MemoryKnownKeeps DEF RecoveryInv, KnownInv, Runnable
<1>10. ASSUME NEW v \in Disk' PROVE SavedKnown(v)'
    <2>1. v \in Disk /\ SavedInv(v) /\ SavedKnown(v) /\ TasksFollow(v)
        BY <1>1 DEF RecoveryInv, KnownInv, Disk, Follows, Looping
    <2>2. ASSUME NEW q \in Results, q \notin finished', Started(v.task[q])
          PROVE  slot'[v.task[q].slot].tsf = slot[v.task[q].slot].tsf
        <3>1. Started(task[q]) /\ task[q].slot = v.task[q].slot
            BY <1>1, <2>1, <2>2 DEF TasksFollow
        <3>2. QED
            BY <1>8, <3>1 DEF Dir
    <2>3. QED
        BY <1>1, <2>1, <2>2, SavedKnownKeeps DEF RecoveryInv
<1>11. QED
    BY <1>7, <1>9, <1>10 DEF KnownInv

\* Writes of the state file, begun and done.
LEMMA SaveKnown ==
    ASSUME RecoveryInv, RecoveryInv', KnownInv,
           Save \/ InitWrite \/ Quit \/ SaveDone \/ QuitDone \/ InitTasks
    PROVE  KnownInv'
<1> USE DEF memVars, appVars, rpcVars, srvVars, histVars, storeVars, Rest, At
<1>1. up /\ up' /\ UNCHANGED <<res, slot, finished>>
    BY DEF Save, InitWrite, Quit, SaveDone, QuitDone, InitTasks
<1>2. /\ SavedKnown(Snapshot) /\ Snapshot \in Snapshots /\ Snapshot # None
      /\ SavedInv(Snapshot)
    BY <1>1, SnapshotKnown, SnapshotInv, StoreAssumption DEF RecoveryInv, KnownInv
<1>3. CASE Save /\ UNCHANGED storeVars
    <2>1. /\ UNCHANGED <<task, known, acked, maybe, proc>>
          /\ phase = "save" /\ phase' = "idle" /\ ~dirty
        BY <1>3, <1>2 DEF Save, StoreBegin, KnownInv, StoreKnown, InPass
    <2>2. QED
        BY <1>1, <2>1, KnownPlain DEF InPass, Fresh
<1>4. CASE StoreBegin(Snapshot) /\ (Save \/ InitWrite \/ Quit)
    <2>1. /\ UNCHANGED <<task, known, acked>> /\ maybe' = maybe \cup {Snapshot}
          /\ phase' \in {"saving", "initing", "quit"}
        BY <1>4, <1>2 DEF Save, InitWrite, Quit, StoreBegin, KnownInv, StoreKnown, InPass
    <2>2. StoreKnown' /\ OnDisk'
        BY <1>2, <2>1 DEF KnownInv, StoreKnown, InPass, OnDisk, Fresh
    <2>3. MemoryKnown'
        BY <1>1, <2>1 DEF KnownInv, MemoryKnown, Covered, Runnable
    <2>4. ASSUME NEW v \in Disk' PROVE SavedKnown(v)'
        <3>1. SavedKnown(v)
            BY <1>2, <2>1 DEF KnownInv, Disk
        <3>2. QED
            BY <1>1, <2>1, <3>1 DEF SavedKnown, Covered
    <2>5. QED
        BY <2>2, <2>3, <2>4 DEF KnownInv
<1>5. CASE SaveDone \/ QuitDone
    <2>1. /\ UNCHANGED <<task, proc, dirty>> /\ acked' = Snapshot /\ maybe' = {}
          /\ known' = Recorded /\ Snapshot' = Snapshot
        BY <1>5 DEF SaveDone, QuitDone, StoreDone, Snapshot
    <2>2. SavedKnown(Snapshot)' /\ MemoryKnown'
        BY <1>1, <2>1, RecordedKnown DEF RecoveryInv, KnownInv
    <2>3. StoreKnown'
        BY <1>2, <2>1 DEF StoreKnown
    <2>4. OnDisk'
        <3>1. ASSUME NEW r \in Results, proc'[r] # "none"
              PROVE  /\ Started(Snapshot.task[r]) /\ RunnableIn(Snapshot, r)
                     /\ Snapshot.task[r].slot = task[r].slot
            BY <2>1, <3>1, SnapshotTask
            DEF RecoveryInv, MemoryInv, ProcessesRun, Started
        <3>2. QED
            BY <1>2, <2>1, <3>1 DEF OnDisk, RunnableIn
    <2>5. ASSUME NEW v \in Disk' PROVE SavedKnown(v)'
        <3>1. v = Snapshot'
            BY <2>1 DEF Disk
        <3>2. QED
            BY <2>2, <3>1 DEF SavedKnown, Covered
    <2>6. QED
        BY <2>2, <2>3, <2>4, <2>5 DEF KnownInv
<1>6. CASE InitTasks
    <2>1. /\ phase = "initing" /\ UNCHANGED <<proc, known>>
          /\ \/ acked' = Snapshot /\ maybe' = {} /\ phase' = "idle"
             \/ UNCHANGED <<acked, maybe>> /\ phase' = "cant"
          /\ task' = [r \in Results |->
               IF task[r].st # "none" /\ slot[Dir(r)].own = r
                  /\ slot[Dir(r)].tsf > task[r].ckpt
               THEN [task[r] EXCEPT !.ckpt = slot[Dir(r)].tsf] ELSE task[r]]
        BY <1>6 DEF InitTasks, StoreDone
    <2>2. \A r \in Results : proc[r] = "none"
        BY <1>1, <2>1 DEF RecoveryInv, MemoryInv, ProcessesRun, Quiet
    <2>3. StoreKnown' /\ OnDisk'
        BY <1>2, <2>1, <2>2 DEF KnownInv, StoreKnown, InPass, OnDisk
    <2>4. ASSUME NEW r \in Results, Started(task[r])
          PROVE  /\ Started(task'[r]) /\ task[r].ckpt <= task'[r].ckpt
                 /\ task'[r].slot = task[r].slot
        <3>1. /\ Dir(r) \in Slots /\ task[r] \in Task /\ task[r].ckpt \in Nat
              /\ slot[Dir(r)].tsf \in Nat /\ slot[Dir(r)].tsf \in 0..MaxCkpt
            BY <2>4, Fields DEF RecoveryInv, TypeOK, Slot
        <3>2. CASE task'[r] = task[r]
            BY <2>4, <3>1, <3>2
        <3>3. CASE /\ slot[Dir(r)].tsf > task[r].ckpt
                   /\ task'[r] = [task[r] EXCEPT !.ckpt = slot[Dir(r)].tsf]
            <4>1. /\ task'[r].st = task[r].st /\ task'[r].slot = task[r].slot
                  /\ task'[r].ckpt = slot[Dir(r)].tsf
                BY <2>4, <3>1, <3>3, TaskCkpt
            <4>2. QED
                BY <2>4, <3>1, <3>3, <4>1 DEF Started
        <3>4. QED
            BY <2>1, <3>2, <3>3
    <2>5. MemoryKnown'
        BY <1>1, <2>1, <2>4, MemoryKnownKeeps DEF RecoveryInv, KnownInv, Runnable
    <2>6. ASSUME NEW v \in Disk' PROVE SavedKnown(v)'
        <3>1. SavedKnown(v)
            BY <1>2, <2>1 DEF KnownInv, Disk
        <3>2. QED
            BY <1>1, <2>1, <3>1 DEF SavedKnown, Covered
    <2>7. QED
        BY <2>3, <2>5, <2>6 DEF KnownInv
<1>7. QED
    BY <1>3, <1>4, <1>5, <1>6 DEF Save, InitWrite, Quit

\* Task state files of the tasks T are written, or one is truncated: what is
\* known of those is in the file or in the state file, which has the task.
LEMMA FilesKnown ==
    ASSUME RecoveryInv, KnownInv, At("msgs"),
           NEW T \in SUBSET Checkpointed, UNCHANGED <<acked, maybe, finished>>,
           \A s \in Slots : (\A r \in T : Dir(r) # s) => slot'[s] = slot[s],
           \A r \in Results \ T : known'[r] = known[r],
           \A r \in T : \/ known'[r] <= slot'[Dir(r)].tsf
                        \/ known'[r] <= acked.task[r].ckpt
    PROVE  /\ acked' = None => \A r \in Results : known'[r] = 0
           /\ \A v \in Disk' : SavedKnown(v)'
<1>1. Fresh /\ InPass /\ Looping /\ maybe = {} /\ Disk = {acked} \ {None}
    BY DEF At, Fresh, InPass, Looping, KnownInv, StoreKnown, Disk
<1>2. ASSUME NEW r \in T
      PROVE  /\ acked # None /\ Started(acked.task[r]) /\ r \in Results
             /\ acked.task[r].slot = Dir(r) /\ RunnableIn(acked, r)
             /\ Started(task[r])
    <2>1. r \in Results /\ told[r] # 0 /\ Started(task[r])
        BY StatusFacts DEF RecoveryInv, Checkpointed, Started
    <2>2. QED
        BY <1>1, <2>1 DEF RecoveryInv, MemoryInv, ToldSaved, KnownInv, OnDisk, Dir
<1>3. acked = None => T = {}
    BY <1>2
<1>4. ASSUME acked' = None, NEW r \in Results PROVE known'[r] = 0
    BY <1>3, <1>4 DEF KnownInv, StoreKnown
<1>5. ASSUME NEW v \in Disk' PROVE SavedKnown(v)'
    <2>1. v = acked /\ v \in Disk /\ SavedInv(v) /\ SavedKnown(v)
        BY <1>1, <1>5 DEF Disk, RecoveryInv, KnownInv
    <2> SUFFICES ASSUME NEW r \in Results, r \notin finished, known'[r] # 0
                 PROVE  Covered(v.task[r], r)' /\ RunnableIn(v, r)
        BY DEF SavedKnown, RunnableIn
    <2>2. CASE r \in T
        BY <1>2, <2>1, <2>2 DEF Covered, Started
    <2>3. CASE r \notin T
        <3>1. Covered(v.task[r], r) /\ RunnableIn(v, r) /\ known'[r] = known[r]
            BY <2>1, <2>3 DEF SavedKnown
        <3>2. v.task[r].slot \in Slots
            BY <2>1, <3>1, SavedTaskFields DEF SavedInv, SavedWhole, Covered
        <3>3. \A q \in T : Dir(q) # v.task[r].slot
            BY <1>1, <1>2, <2>1, <2>3, <3>1, ElsewhereOnDisk DEF Covered
        <3>4. slot'[v.task[r].slot] = slot[v.task[r].slot]
            BY <3>2, <3>3
        <3>5. QED
            BY <3>1, <3>4 DEF Covered, Started
    <2>4. QED
        BY <2>2, <2>3
<1>6. QED
    BY <1>4, <1>5

LEMMA GetMsgsKnown ==
    ASSUME RecoveryInv, RecoveryInv', KnownInv, GetMsgs
    PROVE  KnownInv'
<1> USE DEF memVars, rpcVars, srvVars, histVars, storeVars, Step
<1> DEFINE R == {r \in Results : task[r].st = "EXECUTING"}
<1>1. /\ At("msgs") /\ up' = up /\ phase' = "finish"
      /\ task' = [r \in Results |->
           IF r \in R THEN [task[r] EXCEPT !.ckpt = Status(r)] ELSE task[r]]
      /\ slot' = write_task_state_file(Checkpointed)
      /\ known' = [r \in Results |-> IF r \in Checkpointed THEN Status(r)
                                     ELSE known[r]]
      /\ UNCHANGED <<res, dirty, proc, finished, acked, maybe>>
    BY DEF GetMsgs
<1>2. Checkpointed \subseteq R /\ R \subseteq Results
    BY DEF Checkpointed
<1>3. /\ \A s \in Slots : (\A r \in Checkpointed : Dir(r) # s) => slot'[s] = slot[s]
      /\ \A r \in Checkpointed : slot'[Dir(r)].tsf = Status(r)
    BY <1>1, TaskFileFacts DEF RecoveryInv
<1>4. \A r \in Checkpointed : known'[r] <= slot'[Dir(r)].tsf
    BY <1>1, <1>2, <1>3, StatusFacts DEF RecoveryInv
<1>5. /\ acked' = None => \A r \in Results : known'[r] = 0
      /\ \A v \in Disk' : SavedKnown(v)'
    BY <1>1, <1>3, <1>4, FilesKnown
<1>6. ASSUME NEW r \in Results, Started(task[r])
      PROVE  /\ Started(task'[r]) /\ task'[r].slot = task[r].slot
             /\ task'[r].ckpt = IF r \in R THEN Status(r) ELSE task[r].ckpt
    <2>1. /\ task[r] \in Task /\ Status(r) \in 0..MaxCkpt
        BY Fields, StatusFacts DEF RecoveryInv
    <2>2. CASE r \in R
        <3>1. task'[r] = [task[r] EXCEPT !.ckpt = Status(r)]
            BY <1>1, <2>2
        <3> HIDE DEF R
        <3>2. QED
            BY <1>6, <2>1, <2>2, <3>1, TaskCkpt DEF Started
    <2>3. QED
        BY <1>1, <1>6, <2>2
<1> HIDE DEF R
<1>7. StoreKnown'
    BY <1>1, <1>5 DEF KnownInv, StoreKnown, InPass, At
<1>8. OnDisk'
    <2>1. \A r \in Results : proc[r] # "none" => Started(task[r])
        BY DEF RecoveryInv, MemoryInv, ProcessesRun, Started
    <2>2. Fresh' => Fresh
        BY <1>1 DEF Fresh, InPass, At
    <2>3. QED
        BY <1>1, <1>6, <2>1, <2>2 DEF KnownInv, OnDisk, RunnableIn, Started
<1>9. MemoryKnown'
    <2> SUFFICES ASSUME NEW r \in Results, r \notin finished, known'[r] # 0
                 PROVE  Covered(task[r], r)' /\ Runnable(r)'
        BY <1>1 DEF MemoryKnown
    <2>1. CASE r \in Checkpointed
        <3>1. known'[r] = Status(r) /\ Started(task[r]) /\ r \in R
            BY <1>1, <1>2, <2>1 DEF Checkpointed, Started
        <3>2. Started(task'[r]) /\ task'[r].ckpt = Status(r) /\ Status(r) \in Nat
            BY <1>6, <3>1, StatusFacts DEF RecoveryInv
        <3>3. told[r] # 0
            BY <2>1, StatusFacts DEF RecoveryInv, Checkpointed
        <3>4. Runnable(r)
            BY <3>3 DEF RecoveryInv, MemoryInv, ToldSaved, ProcessesRun
        <3>5. QED
            BY <1>1, <3>1, <3>2, <3>4 DEF Covered, Runnable
    <2>2. CASE r \notin Checkpointed
        <3>1. known'[r] = known[r] /\ Covered(task[r], r) /\ Runnable(r)
            BY <1>1, <2>2 DEF KnownInv, MemoryKnown, At
        <3>2. /\ Started(task'[r]) /\ task'[r].slot = task[r].slot
              /\ task'[r].ckpt = IF r \in R THEN Status(r) ELSE task[r].ckpt
              /\ Dir(r) \in Slots
            BY <1>6, <3>1, Fields DEF Covered, RecoveryInv
        <3>3. task'[r].ckpt = task[r].ckpt
            BY <2>2, <3>2 DEF Checkpointed, R
        <3>4. \A q \in Checkpointed : Dir(q) # Dir(r)
            BY <2>2, <3>1
            DEF RecoveryInv, MemoryInv, TasksWhole, Covered, Checkpointed, Started
        <3>5. slot'[Dir(r)] = slot[Dir(r)]
            BY <1>3, <3>2, <3>4
        <3>6. QED
            BY <1>1, <3>1, <3>2, <3>3, <3>5 DEF Covered, Runnable, Dir
    <2>3. QED
        BY <2>1, <2>2
<1>10. QED
    BY <1>5, <1>7, <1>8, <1>9 DEF KnownInv

LEMMA StopKnown ==
    ASSUME RecoveryInv, RecoveryInv', KnownInv,
           Stop \/ \E x \in Results : StopWriting(x)
    PROVE  KnownInv'
<1> USE DEF srvVars, storeVars
<1>1. up' = FALSE /\ UNCHANGED <<finished, acked, maybe>>
    BY DEF Stop, StopWriting, Ends
<1>2. OnDisk' /\ MemoryKnown' /\ ~InPass'
    BY <1>1 DEF OnDisk, MemoryKnown, InPass, Fresh
<1>3. CASE Stop
    <2>1. UNCHANGED <<slot, known>>
        BY <1>3 DEF Stop
    <2>2. StoreKnown' /\ \A v \in Disk' : SavedKnown(v)'
        BY <1>1, <1>2, <2>1 DEF KnownInv, StoreKnown, Disk, SavedKnown, Covered
    <2>3. QED
        BY <1>2, <2>2 DEF KnownInv
<1>4. ASSUME NEW x \in Results, StopWriting(x) PROVE KnownInv'
    <2>1. x \in Checkpointed /\ At("msgs")
        BY <1>4 DEF StopWriting
    <2>2. PICK W \in SUBSET (Checkpointed \ {x}), truncated \in BOOLEAN :
            /\ \A s \in Slots : (\A r \in W \cup {x} : Dir(r) # s) =>
                                  slot'[s] = slot[s]
            /\ \A r \in W : slot'[Dir(r)].tsf = Status(r)
            /\ ~truncated => slot'[Dir(x)] = slot[Dir(x)]
            /\ known' = [r \in Results |->
                 IF r \in W THEN Status(r)
                 ELSE IF r = x /\ truncated THEN InStateFile(r) ELSE known[r]]
        BY <1>4, <2>1, TruncatedFacts DEF RecoveryInv
    <2> DEFINE T == IF truncated THEN W \cup {x} ELSE W
    <2>3. T \in SUBSET Checkpointed /\ Checkpointed \subseteq Results
        BY <2>1 DEF Checkpointed
    <2>4. \A s \in Slots : (\A r \in T : Dir(r) # s) => slot'[s] = slot[s]
        BY <2>2
    <2>5. \A r \in Results \ T : known'[r] = known[r]
        BY <2>2
    <2>6. ASSUME NEW r \in T
          PROVE  \/ known'[r] <= slot'[Dir(r)].tsf
                 \/ known'[r] <= acked.task[r].ckpt
        <3>1. CASE r \in W
            BY <2>2, <2>3, <3>1, StatusFacts DEF RecoveryInv
        <3>2. CASE r = x /\ truncated /\ r \notin W
            <4>1. known'[x] = InStateFile(x)
                BY <2>2, <3>2
            <4>2. acked # None
                <5>1. told[x] # 0
                    BY <2>1, StatusFacts DEF RecoveryInv, Checkpointed
                <5>2. proc[x] # "none"
                    BY <5>1 DEF RecoveryInv, MemoryInv, ToldSaved
                <5>3. Fresh
                    BY <2>1 DEF At, Fresh, InPass
                <5>4. QED
                    BY <5>2, <5>3 DEF KnownInv, OnDisk
            <4>3. acked \in Snapshots
                BY <4>2 DEF RecoveryInv, Disk, SavedInv, SavedWhole
            <4>4. acked.task[x].ckpt \in Nat
                BY <4>3, SavedTaskFields
            <4>5. QED
                BY <3>2, <4>1, <4>2, <4>4 DEF InStateFile
        <3>3. QED
            BY <3>1, <3>2
    <2> HIDE DEF T
    <2>7. /\ acked' = None => \A r \in Results : known'[r] = 0
          /\ \A v \in Disk' : SavedKnown(v)'
        BY <1>1, <2>1, <2>3, <2>4, <2>5, <2>6, FilesKnown
    <2>8. StoreKnown'
        BY <1>1, <1>2, <2>7 DEF KnownInv, StoreKnown
    <2>9. QED
        BY <1>2, <2>7, <2>8 DEF KnownInv
<1>5. QED
    BY <1>3, <1>4

LEMMA StartKnown ==
    ASSUME RecoveryInv, RecoveryInv', KnownInv, Start
    PROVE  KnownInv'
<1> USE DEF appVars, rpcVars, srvVars, histVars
<1>1. /\ up' /\ phase' = "init"
      /\ loaded' \in {acked} \cup maybe /\ acked' = acked /\ maybe' = maybe
      /\ UNCHANGED <<slot, finished, known>>
    BY DEF Start, StoreRead
<1>2. StoreKnown' /\ OnDisk'
    BY <1>1 DEF KnownInv, StoreKnown, InPass, OnDisk, Fresh
<1>3. \A v \in Disk' : SavedKnown(v)'
    BY <1>1 DEF KnownInv, Disk, SavedKnown, Covered
<1>4. MemoryKnown'
    <2>1. CASE loaded' = None
        <3>1. acked = None
            BY <1>1, <2>1 DEF KnownInv, StoreKnown
        <3>2. QED
            BY <1>1, <3>1 DEF KnownInv, StoreKnown, MemoryKnown
    <2>2. CASE loaded' # None
        <3> DEFINE v == loaded'
        <3>1. v \in Disk /\ SavedKnown(v)
            BY <1>1, <2>2 DEF Disk, KnownInv
        <3>2. /\ res' = v.res
              /\ task' = [r \in Results |-> Parsed(v, r)]
            BY <2>2 DEF Start
        <3> HIDE DEF v
        <3> SUFFICES ASSUME NEW r \in Results, r \notin finished, known[r] # 0
                     PROVE  Covered(task[r], r)' /\ Runnable(r)'
            BY <1>1 DEF MemoryKnown
        <3>3. Covered(v.task[r], r) /\ RunnableIn(v, r)
            BY <3>1 DEF SavedKnown
        <3>4. task'[r] = v.task[r] /\ Runnable(r)'
            BY <3>2, <3>3 DEF Parsed, RunnableIn, Runnable
        <3>5. QED
            BY <1>1, <3>3, <3>4 DEF Covered
    <2>3. QED
        BY <2>1, <2>2
<1>5. QED
    BY <1>2, <1>3, <1>4 DEF KnownInv

LEMMA KnownInitInv == Init => KnownInv
BY DEF Init, StoreInit, KnownInv, StoreKnown, OnDisk, Fresh, InPass, MemoryKnown,
       Disk

LEMMA KnownStepInv ==
    RecoveryInv /\ RecoveryInv' /\ KnownInv /\ [Next]_vars => KnownInv'
<1> SUFFICES ASSUME RecoveryInv, RecoveryInv', KnownInv, [Next]_vars PROVE KnownInv'
    OBVIOUS
<1>1. CASE UNCHANGED vars
    BY <1>1, KnownPlain
    DEF vars, memVars, appVars, histVars, storeVars, InPass, Fresh
<1>2. CASE Apps \/ RpcSend
    BY <1>2, AppsKnown
<1>3. CASE Pass
    BY <1>3, AppsKnown, ExitedKnown, GetMsgsKnown, FinishKnown, StartTaskKnown,
       SaveKnown DEF Pass
<1>4. CASE Stop \/ Quit \/ QuitDone \/ \E r \in Results : StopWriting(r)
    BY <1>4, StopKnown, SaveKnown
<1>5. CASE Start \/ InitWrite \/ InitTasks
    BY <1>5, StartKnown, SaveKnown
<1>6. QED
    BY <1>1, <1>2, <1>3, <1>4, <1>5 DEF Next

LEMMA KnownAlways == Spec => []KnownInv
BY RecoveryAlways, KnownInitInv, KnownStepInv, PTL DEF Spec

\* The checkpoint time of an unfinished task is never ahead of what its
\* application has saved, and, once the tasks are initialised, never behind
\* the newest checkpoint that get_msgs or write_state_file has recorded,
\* whichever of the saved states the start has read.
THEOREM CheckpointTimes == Spec => []CheckpointsKept
<1>1. RecoveryInv /\ KnownInv => CheckpointsKept
    <2> SUFFICES ASSUME RecoveryInv, KnownInv, NEW r \in Results, up, task[r].init,
                        r \notin finished
                 PROVE  /\ task[r].ckpt <= slot[Dir(r)].work
                        /\ phase \notin {"init", "initing"} =>
                             known[r] <= task[r].ckpt
        BY DEF CheckpointsKept
    <2>1. Started(task[r])
        BY TaskFields, NoTaskFacts, Fields DEF RecoveryInv
    <2>2. /\ task[r].ckpt <= slot[Dir(r)].work
          /\ phase \notin {"init", "initing"} => slot[Dir(r)].tsf <= task[r].ckpt
        BY <2>1 DEF RecoveryInv, MemoryInv, MemorySlots
    <2>3. /\ known[r] \in Nat /\ task[r].ckpt \in Nat /\ slot[Dir(r)].tsf \in Nat
        BY <2>1, Fields, RecoveryAssumption DEF RecoveryInv, TypeOK
    <2>4. known[r] # 0 => known[r] <= task[r].ckpt \/ known[r] <= slot[Dir(r)].tsf
        BY DEF KnownInv, MemoryKnown, Covered, Dir
    <2>5. QED
        BY <2>2, <2>3, <2>4
<1>2. QED BY <1>1, RecoveryAlways, KnownAlways, PTL

\* remove_trickle_files deletes only what the server has received, but for
\* files that could not be read when their request was made.
THEOREM TricklesReceived == Spec => []TricklesKept
<1>1. RecoveryInv => TricklesKept BY DEF RecoveryInv
<1>2. QED BY <1>1, RecoveryAlways, PTL
=============================================================================
