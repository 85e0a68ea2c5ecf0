-------------------------- MODULE ActiveTasksProofs --------------------------
(***************************************************************************)
(* Proofs about ActiveTasks, for any number of results, CPUs and commands. *)
(*                                                                         *)
(* The client treats each task by itself, so the invariant is one of a     *)
(* task, and every function of the model is shown to keep it.  What purging *)
(* a message needs is that the messages alternate: a queued <suspend/> is  *)
(* for a process that would be running then, a queued <resume/> for one    *)
(* that would have stopped.                                                *)
(***************************************************************************)
EXTENDS ActiveTasks, SequenceTheorems, TLAPS

Alternates(t) ==
    \A n \in 1..Len(t.q) :
      /\ t.q[n] = "suspend" => Becomes(t, n - 1, "run")
      /\ t.q[n] = "resume"  => Becomes(t, n - 1, "stop")

\* The messages lead the process to the state its task is in.
InStep(t) ==
    /\ t.st = "EXECUTING" => Becomes(t, Len(t.q), "run")
    /\ t.st = "SUSPENDED" => Becomes(t, Len(t.q), "stop")
    /\ t.st \in Pending   => Becomes(t, Len(t.q), "zombie")

TaskInv(t) ==
    /\ t \in Task
    /\ t.st = "none" => t.pst = "none"
    /\ t.st = "UNINITIALIZED" => ~Alive(t)
    /\ process_exists(t) => t.pst # "none"
    /\ Alive(t) => InStep(t) /\ Alternates(t)

JobInv(j) == j \in Job /\ TaskInv(j.t)

TasksInv == TypeOK /\ \A r \in Results : JobInv(job[r])

-----------------------------------------------------------------------------
(***************************************************************************)
(* MSG_QUEUE.                                                              *)
(***************************************************************************)

\* Becomes and Alternates look at the process and its messages only.
LEMMA SameMessages ==
    ASSUME NEW t, NEW u, u.pst = t.pst, u.chan = t.chan, u.q = t.q
    PROVE  /\ \A n, p : Becomes(u, n, p) <=> Becomes(t, n, p)
           /\ Alternates(u) <=> Alternates(t)
<1>1. \A i : Sent(u, i) = Sent(t, i)
    BY DEF Sent
<1>2. \A n, p : Becomes(u, n, p) <=> Becomes(t, n, p)
    BY <1>1 DEF Becomes
<1>3. QED
    BY <1>2 DEF Alternates

LEMMA SendFields ==
    ASSUME NEW t \in Task, NEW m \in Messages, NEW u, u = msg_queue_send(t, m)
    PROVE  /\ u \in Task /\ u.st = t.st /\ u.sched = t.sched /\ u.ckpt = t.ckpt
           /\ u.exits = t.exits /\ u.pst = t.pst /\ u.status = t.status
           /\ \/ /\ t.q = <<>> /\ t.chan = "none"
                 /\ u.q = <<>> /\ u.chan = m
              \/ u.q = Append(t.q, m) /\ u.chan = t.chan
<1>1. CASE t.q = <<>> /\ t.chan = "none"
    <2>1. u = [t EXCEPT !.chan = m, !.block = FALSE]
        BY <1>1 DEF msg_queue_send
    <2>2. QED
        BY <1>1, <2>1 DEF Task
<1>2. CASE ~(t.q = <<>> /\ t.chan = "none")
    <2>1. u = [t EXCEPT !.q = Append(t.q, m), !.block = TRUE]
        BY <1>2 DEF msg_queue_send, Task
    <2>2. Append(t.q, m) \in Seq(Messages)
        BY DEF Task
    <2>3. QED
        BY <2>1, <2>2 DEF Task
<1>3. QED
    BY <1>1, <1>2

\* A message that goes to the channel, or to the end of the queue, is the
\* last one the process will read; those before it stay where they are.
LEMMA SendMessages ==
    ASSUME NEW t \in Task, NEW m \in Messages, NEW u, u = msg_queue_send(t, m)
    PROVE  /\ m # "reread" => Becomes(u, Len(u.q), Handled(t.pst, m))
           /\ \A p : m = "reread" /\ Becomes(t, Len(t.q), p)
                       => Becomes(u, Len(u.q), p)
           /\ Alternates(t)
              /\ (m = "suspend" => Becomes(t, Len(t.q), "run"))
              /\ (m = "resume" => Becomes(t, Len(t.q), "stop"))
              => Alternates(u)
<1>1. u.pst = t.pst /\ t.q \in Seq(Messages) /\ Len(t.q) \in Nat
    BY SendFields DEF Task
<1>2. CASE t.q = <<>> /\ t.chan = "none" /\ u.q = <<>> /\ u.chan = m
    <2>1. Len(t.q) = 0 /\ Len(u.q) = 0
        BY <1>2
    <2>2. Sent(u, 0) = m /\ Sent(t, 0) = "none"
        BY <1>2 DEF Sent
    <2>3. QED
        BY <1>1, <2>1, <2>2 DEF Becomes, Mute, Alternates, Messages
<1>3. CASE u.q = Append(t.q, m) /\ u.chan = t.chan
    <2> DEFINE N == Len(t.q)
    <2>1. /\ Len(u.q) = N + 1 /\ u.q[N + 1] = m /\ N \in Nat
          /\ \A i \in 1..N : u.q[i] = t.q[i]
        BY <1>1, <1>3
    <2>2. /\ Sent(u, N + 1) = m
          /\ \A i \in 0..N : Sent(u, i) = Sent(t, i)
        BY <1>3, <2>1 DEF Sent
    <2> HIDE DEF N
    <2>3. ASSUME NEW n \in 0..N, NEW p
          PROVE  Becomes(u, n, p) <=> Becomes(t, n, p)
        <3>1. \A i \in 0..n : Sent(u, i) = Sent(t, i)
            BY <2>1, <2>2
        <3>2. \A i \in 0..n : \A k \in (i + 1)..n : k \in 0..n
            BY <2>1
        <3>3. QED
            BY <1>1, <3>1, <3>2 DEF Becomes
    <2>4. m # "reread" => Becomes(u, N + 1, Handled(t.pst, m))
        <3>1. N + 1 \in 0..(N + 1) /\ (N + 1 + 1)..(N + 1) = {}
            BY <2>1
        <3>2. m # "reread" => m \notin Mute
            BY DEF Mute, Messages
        <3>3. QED
            BY <1>1, <2>2, <3>1, <3>2 DEF Becomes
    <2>5. ASSUME NEW p, m = "reread", Becomes(t, N, p)
          PROVE  Becomes(u, N + 1, p)
        <3>1. Becomes(u, N, p)
            BY <2>1, <2>3, <2>5
        <3>2. Sent(u, N + 1) \in Mute
            BY <2>2, <2>5 DEF Mute
        <3>3. QED
            BY <2>1, <3>1, <3>2 DEF Becomes
    <2>6. ASSUME Alternates(t), m = "suspend" => Becomes(t, N, "run"),
                 m = "resume" => Becomes(t, N, "stop")
          PROVE  Alternates(u)
        <3> SUFFICES ASSUME NEW n \in 1..(N + 1)
                     PROVE  /\ u.q[n] = "suspend" => Becomes(u, n - 1, "run")
                            /\ u.q[n] = "resume"  => Becomes(u, n - 1, "stop")
            BY <2>1 DEF Alternates
        <3>1. CASE n = N + 1
            BY <2>1, <2>3, <2>6, <3>1
        <3>2. CASE n \in 1..N
            BY <2>1, <2>3, <2>6, <3>2 DEF Alternates, N
        <3>3. QED
            BY <2>1, <3>1, <3>2
    <2>7. QED
        BY <2>1, <2>4, <2>5, <2>6 DEF N
<1>4. QED
    BY <1>2, <1>3, SendFields

\* msg_queue_poll moves the messages up by one place.
LEMMA PollMessages ==
    ASSUME NEW t \in Task, NEW u, u = msg_queue_poll(t)
    PROVE  /\ u \in Task /\ u.st = t.st /\ u.pst = t.pst
           /\ \A p : Becomes(t, Len(t.q), p) => Becomes(u, Len(u.q), p)
           /\ Alternates(t) => Alternates(u)
<1>1. t.q \in Seq(Messages) /\ Len(t.q) \in Nat
    BY DEF Task
<1>2. CASE ~(t.q # <<>> /\ t.chan = "none")
    BY <1>2 DEF msg_queue_poll
<1>3. CASE t.q # <<>> /\ t.chan = "none"
    <2>1. u = [t EXCEPT !.chan = Head(t.q), !.q = Tail(t.q), !.block = FALSE]
        BY <1>3 DEF msg_queue_poll, Task
    <2>2. /\ Head(t.q) \in Messages /\ Tail(t.q) \in Seq(Messages)
          /\ Head(t.q) = t.q[1] /\ Len(t.q) >= 1
          /\ Len(Tail(t.q)) = Len(t.q) - 1
          /\ \A i \in 1..(Len(t.q) - 1) : Tail(t.q)[i] = t.q[i + 1]
        BY <1>1, <1>3
    <2>3. /\ u \in Task /\ u.st = t.st /\ u.pst = t.pst
          /\ u.chan = Head(t.q) /\ u.q = Tail(t.q)
        BY <2>1, <2>2 DEF Task
    <2> DEFINE N == Len(u.q)
    <2>4. /\ N \in Nat /\ Len(t.q) = N + 1 /\ Sent(t, 0) \in Mute
          /\ \A i \in 0..N : Sent(u, i) = Sent(t, i + 1)
          /\ \A i \in 1..N : u.q[i] = t.q[i + 1]
        BY <1>1, <1>3, <2>2, <2>3 DEF Sent, Mute
    <2> HIDE DEF N
    <2>5. ASSUME NEW n \in 0..N, NEW p, Becomes(t, n + 1, p)
          PROVE  Becomes(u, n, p)
        <3>1. CASE t.pst = p /\ \A i \in 0..(n + 1) : Sent(t, i) \in Mute
            <4>1. \A i \in 0..n : Sent(u, i) \in Mute
                BY <2>4, <3>1
            <4>2. QED
                BY <2>3, <3>1, <4>1 DEF Becomes
        <3>2. ASSUME NEW i \in 0..(n + 1), Sent(t, i) \notin Mute,
                     Handled(t.pst, Sent(t, i)) = p,
                     \A k \in (i + 1)..(n + 1) : Sent(t, k) \in Mute
              PROVE  Becomes(u, n, p)
            <4>1. i # 0 /\ i - 1 \in 0..n
                BY <2>4, <3>2
            <4>2. Sent(u, i - 1) = Sent(t, i)
                BY <2>4, <4>1
            <4>3. \A k \in i..n : Sent(u, k) \in Mute
                BY <2>4, <3>2, <4>1
            <4>4. QED
                BY <2>3, <3>2, <4>1, <4>2, <4>3 DEF Becomes
        <3>3. QED
            BY <2>5, <3>1, <3>2 DEF Becomes
    <2>6. Alternates(t) => Alternates(u)
        <3> SUFFICES ASSUME Alternates(t), NEW n \in 1..N
                     PROVE  /\ u.q[n] = "suspend" => Becomes(u, n - 1, "run")
                            /\ u.q[n] = "resume"  => Becomes(u, n - 1, "stop")
            BY DEF Alternates, N
        <3>1. /\ u.q[n] = t.q[n + 1] /\ n + 1 \in 1..Len(t.q)
              /\ n - 1 \in 0..N /\ n - 1 + 1 = n /\ n + 1 - 1 = n
            BY <2>4
        <3>2. /\ t.q[n + 1] = "suspend" => Becomes(t, n, "run")
              /\ t.q[n + 1] = "resume"  => Becomes(t, n, "stop")
            BY <3>1 DEF Alternates
        <3>3. QED
            BY <2>5, <3>1, <3>2
    <2>7. QED
        BY <2>3, <2>4, <2>5, <2>6 DEF N
<1>4. QED
    BY <1>2, <1>3

\* msg_queue_purge takes back the last message: the process will be where it
\* would have been without it.
LEMMA PurgeMessages ==
    ASSUME NEW t \in Task, t.q # <<>>, NEW u, u = Purged(t)
    PROVE  /\ u \in Task /\ u.pst = t.pst /\ u.ckpt = t.ckpt /\ u.st = t.st
           /\ Alternates(t) /\ t.q[Len(t.q)] = "suspend" => Becomes(u, Len(u.q), "run")
           /\ Alternates(t) /\ t.q[Len(t.q)] = "resume" => Becomes(u, Len(u.q), "stop")
           /\ Alternates(t) => Alternates(u)
<1> DEFINE N == Len(t.q)
<1>1. t.q \in Seq(Messages) /\ N \in Nat /\ N >= 1
    BY DEF Task
<1>2. u = [t EXCEPT !.q = SubSeq(t.q, 1, N - 1)]
    BY DEF Purged, Task
<1>3. /\ SubSeq(t.q, 1, N - 1) \in Seq(Messages)
      /\ Len(SubSeq(t.q, 1, N - 1)) = N - 1
      /\ \A i \in 1..(N - 1) : SubSeq(t.q, 1, N - 1)[i] = t.q[i]
    BY <1>1
<1>4. /\ u \in Task /\ u.pst = t.pst /\ u.ckpt = t.ckpt /\ u.st = t.st
      /\ u.chan = t.chan /\ u.q = SubSeq(t.q, 1, N - 1)
    BY <1>2, <1>3 DEF Task
<1>5. Len(u.q) = N - 1 /\ \A i \in 1..(N - 1) : u.q[i] = t.q[i]
    BY <1>3, <1>4
<1>6. \A i \in 0..(N - 1) : Sent(u, i) = Sent(t, i)
    BY <1>1, <1>4, <1>5 DEF Sent
<1>7. ASSUME NEW n \in 0..(N - 1), NEW p
      PROVE  Becomes(u, n, p) <=> Becomes(t, n, p)
    <2>1. \A i \in 0..n : Sent(u, i) = Sent(t, i)
        BY <1>1, <1>6
    <2>2. \A i \in 0..n : \A k \in (i + 1)..n : k \in 0..n
        BY <1>1
    <2>3. QED
        BY <1>4, <2>1, <2>2 DEF Becomes
<1>8. Alternates(t) => Alternates(u)
    <2> SUFFICES ASSUME Alternates(t), NEW n \in 1..(N - 1)
                 PROVE  /\ u.q[n] = "suspend" => Becomes(u, n - 1, "run")
                        /\ u.q[n] = "resume"  => Becomes(u, n - 1, "stop")
        BY <1>5 DEF Alternates
    <2>1. n \in 1..N /\ n - 1 \in 0..(N - 1) /\ u.q[n] = t.q[n]
        BY <1>1, <1>5
    <2>2. QED
        BY <1>7, <2>1 DEF Alternates
<1>9. ASSUME Alternates(t)
      PROVE  /\ t.q[N] = "suspend" => Becomes(t, N - 1, "run")
             /\ t.q[N] = "resume"  => Becomes(t, N - 1, "stop")
    BY <1>1, <1>9 DEF Alternates
<1>10. QED
    BY <1>1, <1>4, <1>5, <1>7, <1>8, <1>9

-----------------------------------------------------------------------------
(***************************************************************************)
(* Tasks.                                                                  *)
(***************************************************************************)

\* Fields that say nothing of the process and its messages.
LEMMA TaskKeeps ==
    ASSUME NEW t, TaskInv(t), NEW u \in Task, u.st = t.st, u.pst = t.pst,
           u.chan = t.chan, u.q = t.q
    PROVE  TaskInv(u)
BY SameMessages DEF TaskInv, Alive, process_exists, InStep

\* A task without a process that runs.
LEMMA DeadTask ==
    ASSUME NEW u \in Task, ~Alive(u), u.st = "none" => u.pst = "none",
           process_exists(u) => u.pst # "none"
    PROVE  TaskInv(u)
BY DEF TaskInv

LEMMA NoTaskInv == TaskInv(NoTask) /\ NoTask.st = "none"
<1>1. NoTask \in Task /\ NoTask.st = "none" /\ NoTask.pst = "none"
    BY TasksAssumption DEF NoTask, Task
<1>2. QED
    BY <1>1, DeadTask DEF Alive, process_exists, Existing, Pending

\* A message, and the state that goes with it.
LEMMA SendInv ==
    ASSUME NEW t, TaskInv(t), process_exists(t), NEW m \in Messages, NEW st \in Existing,
           NEW u, u = [msg_queue_send(t, m) EXCEPT !.st = st],
           \/ m = "suspend" /\ t.st = "EXECUTING" /\ st = "SUSPENDED"
           \/ m = "resume" /\ t.st = "SUSPENDED" /\ st = "EXECUTING"
           \/ m \in {"quit", "abort"} /\ st \in Pending
           \/ m = "reread" /\ st = t.st
    PROVE  TaskInv(u) /\ u.st = st
<1> DEFINE w == msg_queue_send(t, m)
<1>1. /\ w \in Task /\ w.st = t.st /\ w.pst = t.pst
    BY SendFields DEF TaskInv
<1>2. /\ m # "reread" => Becomes(w, Len(w.q), Handled(t.pst, m))
      /\ \A p : m = "reread" /\ Becomes(t, Len(t.q), p) => Becomes(w, Len(w.q), p)
      /\ Alternates(t)
         /\ (m = "suspend" => Becomes(t, Len(t.q), "run"))
         /\ (m = "resume" => Becomes(t, Len(t.q), "stop"))
         => Alternates(w)
    BY SendMessages DEF TaskInv
<1>3. u = [w EXCEPT !.st = st]
    OBVIOUS
<1> HIDE DEF w
<1>4. /\ u \in Task /\ u.st = st /\ u.pst = w.pst /\ u.chan = w.chan /\ u.q = w.q
    BY <1>1, <1>3 DEF Task
<1>5. /\ \A n, p : Becomes(u, n, p) <=> Becomes(w, n, p)
      /\ Alternates(u) <=> Alternates(w)
    BY <1>4, SameMessages
<1>6. st \notin {"none", "UNINITIALIZED"}
    BY DEF Existing, Pending
<1>7. u.pst # "none"
    BY <1>1, <1>4 DEF TaskInv
<1>8. ASSUME Alive(t) PROVE InStep(u) /\ Alternates(u)
    <2>1. InStep(t) /\ Alternates(t)
        BY <1>8 DEF TaskInv
    <2>2. InStep(u)
        BY <1>2, <1>4, <1>5, <2>1 DEF InStep, Handled, Pending
    <2>3. Alternates(w)
        BY <1>2, <2>1 DEF InStep, Pending
    <2>4. QED
        BY <1>5, <2>2, <2>3
<1>9. QED
    BY <1>1, <1>4, <1>6, <1>7, <1>8 DEF TaskInv, Alive

LEMMA PurgeInv ==
    ASSUME NEW t, TaskInv(t), t.q # <<>>,
           NEW st, NEW u, u = [Purged(t) EXCEPT !.st = st],
           \/ t.q[Len(t.q)] = "resume" /\ t.st = "EXECUTING" /\ st = "SUSPENDED"
           \/ t.q[Len(t.q)] = "suspend" /\ t.st = "SUSPENDED" /\ st = "EXECUTING"
    PROVE  TaskInv(u) /\ u.st = st
<1> DEFINE w == Purged(t)
<1>1. /\ w \in Task /\ w.pst = t.pst
      /\ Alternates(t) /\ t.q[Len(t.q)] = "suspend" => Becomes(w, Len(w.q), "run")
      /\ Alternates(t) /\ t.q[Len(t.q)] = "resume" => Becomes(w, Len(w.q), "stop")
      /\ Alternates(t) => Alternates(w)
    BY PurgeMessages DEF TaskInv
<1>2. u = [w EXCEPT !.st = st]
    OBVIOUS
<1> HIDE DEF w
<1>3. /\ u \in Task /\ u.st = st /\ u.pst = w.pst /\ u.chan = w.chan /\ u.q = w.q
    BY <1>1, <1>2 DEF Task, Existing
<1>4. /\ \A n, p : Becomes(u, n, p) <=> Becomes(w, n, p)
      /\ Alternates(u) <=> Alternates(w)
    BY <1>3, SameMessages
<1>5. u.pst # "none"
    BY <1>1, <1>3 DEF TaskInv, process_exists, Existing
<1>6. ASSUME Alive(t) PROVE InStep(u) /\ Alternates(u)
    BY <1>1, <1>3, <1>4, <1>6 DEF TaskInv, InStep, Pending
<1>7. QED
    BY <1>1, <1>3, <1>5, <1>6 DEF TaskInv, Alive

LEMMA SuspendInv ==
    ASSUME NEW t, TaskInv(t), t.st = "EXECUTING"
    PROVE  TaskInv(suspend(t)) /\ suspend(t).st = "SUSPENDED"
<1> DEFINE u == suspend(t)
<1>1. CASE Purges(t, "resume")
    <2>1. u = [Purged(t) EXCEPT !.st = "SUSPENDED"]
        BY <1>1 DEF suspend
    <2> HIDE DEF u
    <2>2. t.q # <<>> /\ t.q[Len(t.q)] = "resume"
        BY <1>1 DEF Purges
    <2>3. TaskInv(u) /\ u.st = "SUSPENDED"
        BY <2>1, <2>2, PurgeInv
    <2>4. QED
        BY <2>3 DEF u
<1>2. CASE ~Purges(t, "resume")
    <2>1. u = [msg_queue_send(t, "suspend") EXCEPT !.st = "SUSPENDED"]
        BY <1>2 DEF suspend
    <2> HIDE DEF u
    <2>2. "suspend" \in Messages /\ "SUSPENDED" \in Existing /\ process_exists(t)
        BY DEF Messages, Existing, process_exists
    <2>3. TaskInv(u) /\ u.st = "SUSPENDED"
        BY <2>1, <2>2, SendInv
    <2>4. QED
        BY <2>3 DEF u
<1>3. QED
    BY <1>1, <1>2

LEMMA UnsuspendInv ==
    ASSUME NEW t, TaskInv(t), t.st = "SUSPENDED"
    PROVE  TaskInv(unsuspend(t)) /\ unsuspend(t).st = "EXECUTING"
<1> DEFINE u == unsuspend(t)
<1>1. CASE Purges(t, "suspend")
    <2>1. u = [Purged(t) EXCEPT !.st = "EXECUTING"]
        BY <1>1 DEF unsuspend
    <2> HIDE DEF u
    <2>2. t.q # <<>> /\ t.q[Len(t.q)] = "suspend"
        BY <1>1 DEF Purges
    <2>3. TaskInv(u) /\ u.st = "EXECUTING"
        BY <2>1, <2>2, PurgeInv
    <2>4. QED
        BY <2>3 DEF u
<1>2. CASE ~Purges(t, "suspend")
    <2>1. u = [msg_queue_send(t, "resume") EXCEPT !.st = "EXECUTING"]
        BY <1>2 DEF unsuspend
    <2> HIDE DEF u
    <2>2. "resume" \in Messages /\ "EXECUTING" \in Existing /\ process_exists(t)
        BY DEF Messages, Existing, process_exists
    <2>3. TaskInv(u) /\ u.st = "EXECUTING"
        BY <2>1, <2>2, SendInv
    <2>4. QED
        BY <2>3 DEF u
<1>3. QED
    BY <1>1, <1>2

\* Asking a process to quit or to abort.
LEMMA AskInv ==
    ASSUME NEW t, TaskInv(t), process_exists(t), NEW m \in {"quit", "abort"},
           NEW st \in Pending
    PROVE  TaskInv([msg_queue_send(t, m) EXCEPT !.st = st])
<1> DEFINE u == [msg_queue_send(t, m) EXCEPT !.st = st]
<1>1. u = [msg_queue_send(t, m) EXCEPT !.st = st]
    OBVIOUS
<1> HIDE DEF u
<1>2. m \in Messages /\ st \in Existing
    BY DEF Messages, Existing
<1>3. TaskInv(u)
    BY <1>1, <1>2, SendInv
<1>4. QED
    BY <1>3 DEF u

LEMMA PreemptInv ==
    ASSUME NEW t, TaskInv(t), NEW quit \in BOOLEAN,
           t.st = "EXECUTING" \/ (t.st = "SUSPENDED" /\ t.ckpt /\ quit)
    PROVE  TaskInv(preempt(t, quit))
<1>1. CASE quit /\ t.ckpt
    <2>1. process_exists(t) /\ "QUIT_PENDING" \in Pending
        BY DEF process_exists, Existing, Pending
    <2>2. TaskInv([msg_queue_send(t, "quit") EXCEPT !.st = "QUIT_PENDING"])
        BY <2>1, AskInv
    <2>3. QED
        BY <1>1, <2>2 DEF preempt
<1>2. CASE ~(quit /\ t.ckpt)
    BY <1>2, SuspendInv DEF preempt
<1>3. QED
    BY <1>1, <1>2

LEMMA KillInv ==
    ASSUME NEW t \in Task, NEW restart \in BOOLEAN
    PROVE  TaskInv(kill_task(t, restart))
           /\ kill_task(t, restart).st \in {"UNINITIALIZED", "ABORTED"}
<1> DEFINE u == kill_task(t, restart)
           st == IF restart THEN "UNINITIALIZED" ELSE "ABORTED"
           status == IF Alive(t) THEN "killed" ELSE t.status
           pst == IF Alive(t) THEN "zombie" ELSE t.pst
<1>1. u = [[t EXCEPT !.q = <<>>, !.block = FALSE, !.chan = "none"]
           EXCEPT !.st = st, !.status = status, !.pst = pst]
    BY DEF kill_task, cleanup_task, Task
<1>2. /\ st \in {"UNINITIALIZED", "ABORTED"} /\ pst \in {"none", "zombie"}
      /\ status \in {"done", "quit", "error", "killed"}
    BY DEF Alive, Task
<1>3. <<>> \in Seq(Messages)
    OBVIOUS
<1> HIDE DEF u, st, status, pst
<1>4. u \in Task /\ u.st = st /\ u.pst = pst
    BY <1>1, <1>2, <1>3 DEF Task, Over
<1>5. TaskInv(u)
    BY <1>2, <1>4, DeadTask DEF Alive, process_exists, Existing, Pending
<1>6. QED
    BY <1>2, <1>4, <1>5 DEF u

LEMMA ControlPollInv ==
    ASSUME NEW t, TaskInv(t), NEW hung \in BOOLEAN
    PROVE  TaskInv(process_control_poll(t, hung))
<1>1. t \in Task
    BY DEF TaskInv
<1>2. TaskInv(kill_task(t, TRUE))
    BY <1>1, KillInv
<1>3. TaskInv(msg_queue_poll(t))
    <2> DEFINE u == msg_queue_poll(t)
    <2>1. /\ u \in Task /\ u.st = t.st /\ u.pst = t.pst
          /\ \A p : Becomes(t, Len(t.q), p) => Becomes(u, Len(u.q), p)
          /\ Alternates(t) => Alternates(u)
        BY <1>1, PollMessages
    <2> HIDE DEF u
    <2>2. TaskInv(u)
        BY <2>1 DEF TaskInv, InStep, Alive, process_exists
    <2>3. QED
        BY <2>2 DEF u
<1>4. QED
    BY <1>2, <1>3 DEF process_control_poll

LEMMA GetMsgsInv ==
    ASSUME NEW t, TaskInv(t), NEW ckpt \in BOOLEAN
    PROVE  TaskInv(get_msgs(t, ckpt))
<1>1. t \in Task
    BY DEF TaskInv
<1> DEFINE u == [t EXCEPT !.ckpt = TRUE, !.exits = 0]
<1>2. 0 \in 0..MaxExits
    BY TasksAssumption
<1>3. /\ u \in Task /\ u.st = t.st /\ u.pst = t.pst /\ u.chan = t.chan /\ u.q = t.q
    BY <1>1, <1>2 DEF Task
<1> HIDE DEF u
<1>4. TaskInv(u)
    BY <1>3, TaskKeeps
<1>5. QED
    BY <1>4 DEF get_msgs, u

\* A process reads a message: from there on it becomes what it would.
LEMMA ReadInv ==
    ASSUME NEW t, TaskInv(t), Alive(t), t.chan # "none",
           NEW u, u = [t EXCEPT !.chan = "none", !.pst = Handled(@, t.chan),
                                !.status = IF t.chan = "abort" THEN "error"
                                           ELSE "quit"]
    PROVE  TaskInv(u)
<1>1. t \in Task /\ t.chan \in Messages /\ t.q \in Seq(Messages) /\ Len(t.q) \in Nat
    BY DEF TaskInv, Task
<1> DEFINE h == Handled(t.pst, t.chan)
           e == IF t.chan = "abort" THEN "error" ELSE "quit"
<1>2. /\ h \in {"run", "stop", "zombie"}
      /\ e \in {"done", "quit", "error", "killed"}
    BY <1>1 DEF Handled, Messages, Alive
<1>3. u = [t EXCEPT !.chan = "none", !.pst = h, !.status = e]
    BY <1>1 DEF Task
<1> HIDE DEF h, e
<1>4. /\ u \in Task /\ u.st = t.st /\ u.pst = h /\ u.chan = "none" /\ u.q = t.q
    BY <1>1, <1>2, <1>3 DEF Task
<1>5. t.st \notin {"none", "UNINITIALIZED"}
    BY DEF TaskInv, Alive
<1>6. CASE h = "zombie"
    BY <1>4, <1>5, <1>6, DeadTask DEF Alive
<1>7. CASE h # "zombie"
    <2>1. /\ Sent(u, 0) \in Mute /\ Sent(t, 0) = t.chan
          /\ \A i \in 1..Len(t.q) : Sent(u, i) = Sent(t, i)
        BY <1>4 DEF Sent, Mute
    <2>2. ASSUME NEW n \in 0..Len(t.q), NEW p, Becomes(t, n, p)
          PROVE  Becomes(u, n, p)
        <3>1. CASE t.pst = p /\ \A i \in 0..n : Sent(t, i) \in Mute
            <4>1. t.chan = "reread"
                BY <1>1, <2>1, <3>1 DEF Mute, Messages
            <4>2. h = t.pst
                BY <4>1 DEF h, Handled
            <4>3. \A i \in 0..n : Sent(u, i) \in Mute
                BY <1>1, <2>1, <3>1
            <4>4. QED
                BY <1>4, <3>1, <4>2, <4>3 DEF Becomes
        <3>2. ASSUME NEW i \in 0..n, Sent(t, i) \notin Mute,
                     Handled(t.pst, Sent(t, i)) = p,
                     \A k \in (i + 1)..n : Sent(t, k) \in Mute
              PROVE  Becomes(u, n, p)
            <4>1. CASE i = 0
                <5>1. h = p
                    BY <2>1, <3>2, <4>1 DEF h
                <5>2. \A k \in 0..n : Sent(u, k) \in Mute
                    BY <1>1, <2>1, <3>2, <4>1
                <5>3. QED
                    BY <1>4, <5>1, <5>2 DEF Becomes
            <4>2. CASE i # 0
                <5>1. Sent(u, i) = Sent(t, i) /\ Sent(t, i) \in Messages
                    BY <1>1, <2>1, <4>2 DEF Sent
                <5>2. Handled(u.pst, Sent(u, i)) = p
                    BY <3>2, <5>1 DEF Handled, Mute, Messages
                <5>3. \A k \in (i + 1)..n : Sent(u, k) \in Mute
                    BY <1>1, <2>1, <3>2, <4>2
                <5>4. QED
                    BY <3>2, <5>1, <5>2, <5>3 DEF Becomes
            <4>3. QED
                BY <4>1, <4>2
        <3>3. QED
            BY <2>2, <3>1, <3>2 DEF Becomes
    <2>3. InStep(t) /\ Alternates(t)
        BY DEF TaskInv
    <2>4. InStep(u)
        BY <1>1, <1>4, <2>2, <2>3 DEF InStep
    <2>5. Alternates(u)
        <3> SUFFICES ASSUME NEW n \in 1..Len(t.q)
                     PROVE  /\ t.q[n] = "suspend" => Becomes(u, n - 1, "run")
                            /\ t.q[n] = "resume"  => Becomes(u, n - 1, "stop")
            BY <1>4 DEF Alternates
        <3>1. n - 1 \in 0..Len(t.q)
            BY <1>1
        <3>2. QED
            BY <2>2, <2>3, <3>1 DEF Alternates
    <2>6. QED
        BY <1>2, <1>4, <1>5, <2>4, <2>5 DEF TaskInv
<1>8. QED
    BY <1>6, <1>7

-----------------------------------------------------------------------------
(***************************************************************************)
(* Jobs.                                                                   *)
(***************************************************************************)

LEMMA JobParts ==
    ASSUME NEW j, JobInv(j)
    PROVE  /\ j \in Job /\ j.t \in Task /\ TaskInv(j.t) /\ j.s \in Result
           /\ \A t : TaskInv(t) => JobInv([j EXCEPT !.t = t])
           /\ \A s \in Result : JobInv([j EXCEPT !.s = s])
           /\ \A t : \A s \in Result :
                TaskInv(t) => JobInv([j EXCEPT !.t = t, !.s = s])
<1>1. j \in Job /\ j.t \in Task /\ TaskInv(j.t) /\ j.s \in Result
    BY DEF JobInv, Job
<1>2. ASSUME NEW t, TaskInv(t) PROVE JobInv([j EXCEPT !.t = t])
    <2>1. t \in Task
        BY <1>2 DEF TaskInv
    <2>2. [j EXCEPT !.t = t] \in Job /\ [j EXCEPT !.t = t].t = t
        BY <1>1, <2>1 DEF Job
    <2>3. QED
        BY <1>2, <2>2 DEF JobInv
<1>3. ASSUME NEW s \in Result PROVE JobInv([j EXCEPT !.s = s])
    <2>1. [j EXCEPT !.s = s] \in Job /\ [j EXCEPT !.s = s].t = j.t
        BY <1>1 DEF Job
    <2>2. QED
        BY <1>1, <2>1 DEF JobInv
<1>4. ASSUME NEW t, NEW s \in Result, TaskInv(t)
      PROVE  JobInv([j EXCEPT !.t = t, !.s = s])
    <2>1. t \in Task
        BY <1>4 DEF TaskInv
    <2>2. [j EXCEPT !.t = t, !.s = s] \in Job /\ [j EXCEPT !.t = t, !.s = s].t = t
        BY <1>1, <2>1 DEF Job
    <2>3. QED
        BY <1>4, <2>2 DEF JobInv
<1>5. QED
    BY <1>1, <1>2, <1>3, <1>4

\* What the client writes into a RESULT.
LEMMA ResultFields ==
    ASSUME NEW s \in Result
    PROVE  /\ \A e \in {"ok", "err", "aborted"} : [s EXCEPT !.exit = e] \in Result
           /\ [s EXCEPT !.state = "ABORTED"] \in Result
           /\ \A st \in {"gone", "NEW", "DOWNLOADING", "DOWNLOADED"} \cup Finished :
                [s EXCEPT !.state = st] \in Result
           /\ \A b \in BOOLEAN : [s EXCEPT !.ready = b] \in Result
                              /\ [s EXCEPT !.susp = b] \in Result
<1>1. \A e \in {"ok", "err", "aborted"} : [s EXCEPT !.exit = e] \in Result
    BY DEF Result
<1>2. [s EXCEPT !.state = "ABORTED"] \in Result
    BY DEF Result, Finished
<1>3. \A st \in {"gone", "NEW", "DOWNLOADING", "DOWNLOADED"} \cup Finished :
        [s EXCEPT !.state = st] \in Result
    BY DEF Result
<1>4. \A b \in BOOLEAN : [s EXCEPT !.ready = b] \in Result
                      /\ [s EXCEPT !.susp = b] \in Result
    BY DEF Result
<1>5. QED
    BY <1>1, <1>2, <1>3, <1>4

LEMMA ReportResult ==
    ASSUME NEW s \in Result
    PROVE  report_result_error(s) \in Result
<1> DEFINE st == IF s.state = "DOWNLOADED" THEN "COMPUTE_ERROR" ELSE s.state
           ex == IF s.exit = "ok" /\ s.state \in
                    {"NEW", "DOWNLOADING", "DOWNLOADED", "UPLOADING"}
                 THEN "err" ELSE s.exit
           u == [s EXCEPT !.ready = TRUE, !.state = st, !.exit = ex]
<1>1. st \in {"unsent", "gone", "NEW", "DOWNLOADING", "DOWNLOADED"} \cup Finished
    BY DEF Result, Finished
<1>2. ex \in {"ok", "err", "aborted"}
    BY DEF Result
<1>3. report_result_error(s) = IF s.ready THEN s ELSE u
    BY DEF report_result_error, Result
<1> HIDE DEF st, ex
<1>4. u \in Result
    BY <1>1, <1>2 DEF Result
<1>5. QED
    BY <1>3, <1>4

LEMMA AbortedResult ==
    ASSUME NEW s \in Result, NEW why \in {"ok", "err", "aborted"}
    PROVE  /\ abort_inactive(s, why) \in Result
           /\ [report_result_error([s EXCEPT !.exit = why])
               EXCEPT !.state = "ABORTED"] \in Result
<1>1. [s EXCEPT !.exit = why] \in Result
    BY ResultFields
<1>2. report_result_error([s EXCEPT !.exit = why]) \in Result
    BY <1>1, ReportResult
<1>3. [report_result_error([s EXCEPT !.exit = why])
       EXCEPT !.state = "ABORTED"] \in Result
    BY <1>2, ResultFields
<1>4. abort_inactive(s, why) \in Result
    <2>1. [s EXCEPT !.state = "ABORTED", !.exit = why] \in Result
        BY DEF Result, Finished
    <2>2. QED
        BY <2>1 DEF abort_inactive
<1>5. QED
    BY <1>3, <1>4

\* The client gives a task up, whatever its process does.
LEMMA GiveUpInv ==
    ASSUME NEW t, TaskInv(t)
    PROVE  TaskInv([t EXCEPT !.st = "ABORTED"])
<1> DEFINE u == [t EXCEPT !.st = "ABORTED"]
<1>1. t \in Task
    BY DEF TaskInv
<1>2. /\ u \in Task /\ u.st = "ABORTED" /\ u.pst = t.pst /\ u.chan = t.chan
      /\ u.q = t.q
    BY <1>1 DEF Task, Over
<1> HIDE DEF u
<1>3. Alternates(u) <=> Alternates(t)
    BY <1>2, SameMessages
<1>4. "ABORTED" \notin Existing
    BY DEF Existing, Pending
<1>5. TaskInv(u)
    BY <1>2, <1>3, <1>4
       DEF TaskInv, Alive, process_exists, InStep, Pending
<1>6. QED
    BY <1>5 DEF u

LEMMA AbortTaskInv ==
    ASSUME NEW j, JobInv(j), NEW why \in {"ok", "err", "aborted"}
    PROVE  JobInv(abort_task(j, why))
<1>1. TaskInv(j.t) /\ j.s \in Result
    BY JobParts
<1> DEFINE s == [report_result_error([j.s EXCEPT !.exit = why])
                 EXCEPT !.state = "ABORTED"]
           t == IF j.t.st \in {"EXECUTING", "SUSPENDED"}
                THEN [msg_queue_send(j.t, "abort") EXCEPT !.st = "ABORT_PENDING"]
                ELSE [j.t EXCEPT !.st = "ABORTED"]
<1>2. s \in Result
    BY <1>1, AbortedResult
<1>3. TaskInv(t)
    <2>1. CASE j.t.st \in {"EXECUTING", "SUSPENDED"}
        <3>1. process_exists(j.t) /\ "ABORT_PENDING" \in Pending
            BY <2>1 DEF process_exists, Existing, Pending
        <3>2. TaskInv([msg_queue_send(j.t, "abort") EXCEPT !.st = "ABORT_PENDING"])
            BY <1>1, <3>1, AskInv
        <3>3. QED
            BY <2>1, <3>2
    <2>2. CASE j.t.st \notin {"EXECUTING", "SUSPENDED"}
        BY <1>1, <2>2, GiveUpInv
    <2>3. QED
        BY <2>1, <2>2
<1>4. abort_task(j, why) = [j EXCEPT !.t = t, !.s = s]
    BY DEF abort_task, JobInv, Job
<1> HIDE DEF t, s
<1>5. QED
    BY <1>2, <1>3, <1>4, JobParts

LEMMA AbortedInv ==
    ASSUME NEW j, JobInv(j), NEW why \in {"ok", "err", "aborted"}
    PROVE  JobInv(Aborted(j, why))
<1>1. abort_inactive(j.s, why) \in Result
    BY JobParts, AbortedResult
<1>2. JobInv([j EXCEPT !.s = abort_inactive(j.s, why)])
    BY <1>1, JobParts
<1>3. JobInv(abort_task(j, why))
    BY AbortTaskInv
<1>4. QED
    BY <1>2, <1>3 DEF Aborted, JobInv, Job

-----------------------------------------------------------------------------
(***************************************************************************)
(* Exits.                                                                  *)
(***************************************************************************)

LEMMA PrematureExit ==
    ASSUME NEW j \in Job
    PROVE  /\ handle_premature_exit(j) \in Job
           /\ handle_premature_exit(j).t.st \in {"UNINITIALIZED"} \cup Over
<1>1. j.t \in Task /\ j.s \in Result /\ j.t.exits \in 0..MaxExits
    BY DEF Job, Task
<1> DEFINE n == IF j.t.exits < MaxExits THEN j.t.exits + 1 ELSE j.t.exits
           a == [j.t EXCEPT !.st = "UNINITIALIZED"]
           b == [j.t EXCEPT !.st = "UNINITIALIZED", !.exits = n]
           c == [j.t EXCEPT !.st = "ABORTED"]
           s == [report_result_error([j.s EXCEPT !.exit = "err"])
                 EXCEPT !.state = "ABORTED"]
<1>2. n \in 0..MaxExits
    BY <1>1, TasksAssumption
<1>3. a \in Task /\ a.st = "UNINITIALIZED"
    BY <1>1 DEF Task
<1>4. c \in Task /\ c.st = "ABORTED"
    BY <1>1 DEF Task, Over
<1>5. s \in Result
    BY <1>1, AbortedResult
<1>6. CASE j.t.st = "QUIT_PENDING"
    <2>1. handle_premature_exit(j) = [j EXCEPT !.t = a]
        BY <1>6 DEF handle_premature_exit, Job
    <2> HIDE DEF a
    <2>2. QED
        BY <1>3, <2>1 DEF Job
<1>7. CASE j.t.st # "QUIT_PENDING" /\ j.t.exits < MaxExits
    <2>1. handle_premature_exit(j) = [j EXCEPT !.t = b]
        BY <1>7 DEF handle_premature_exit, Job
    <2> HIDE DEF n
    <2>2. b \in Task /\ b.st = "UNINITIALIZED"
        BY <1>1, <1>2 DEF Task
    <2> HIDE DEF b
    <2>3. QED
        BY <2>1, <2>2 DEF Job
<1>8. CASE j.t.st # "QUIT_PENDING" /\ ~(j.t.exits < MaxExits)
    <2>1. handle_premature_exit(j) = [j EXCEPT !.t = c, !.s = s]
        BY <1>8 DEF handle_premature_exit, Job
    <2> HIDE DEF c, s
    <2>2. QED
        BY <1>4, <1>5, <2>1 DEF Job, Over
<1>9. QED
    BY <1>6, <1>7, <1>8

LEMMA ExitedApp ==
    ASSUME NEW j \in Job
    PROVE  /\ handle_exited_app(j) \in Job
           /\ handle_exited_app(j).t.st \in {"UNINITIALIZED"} \cup Over
<1>1. /\ j.t \in Task /\ j.s \in Result
      /\ j.t.status \in {"done", "quit", "error", "killed"}
    BY DEF Job, Task
<1> DEFINE okS == [j.s EXCEPT !.exit = "ok"]
           badS == report_result_error([j.s EXCEPT !.exit = "err"])
           ok == [j EXCEPT !.s = okS]
           T(st) == [j.t EXCEPT !.st = st]
<1>2. okS \in Result /\ badS \in Result
    BY <1>1, ResultFields, ReportResult
<1>3. /\ T("ABORTED") \in Task /\ T("ABORTED").st = "ABORTED"
      /\ T("EXITED") \in Task /\ T("EXITED").st = "EXITED"
      /\ T("UNINITIALIZED") \in Task /\ T("UNINITIALIZED").st = "UNINITIALIZED"
    BY <1>1 DEF Task, Over
<1>4. CASE j.t.st = "ABORT_PENDING"
    <2>1. handle_exited_app(j) = [j EXCEPT !.t = T("ABORTED")]
        BY <1>4 DEF handle_exited_app, Job
    <2> HIDE DEF T
    <2>2. QED
        BY <1>3, <2>1 DEF Job, Over
<1>5. CASE j.t.st # "ABORT_PENDING" /\ j.t.status = "done"
    <2>1. handle_exited_app(j) = [j EXCEPT !.t = T("EXITED"), !.s = okS]
        BY <1>5 DEF handle_exited_app, Job
    <2> HIDE DEF T, okS
    <2>2. QED
        BY <1>2, <1>3, <2>1 DEF Job, Over
<1>6. CASE j.t.st # "ABORT_PENDING" /\ j.t.status = "quit"
    <2>1. handle_exited_app(j) = handle_premature_exit(ok)
        BY <1>6 DEF handle_exited_app, Job
    <2> HIDE DEF okS
    <2>2. ok \in Job
        BY <1>2 DEF Job
    <2> HIDE DEF ok
    <2>3. QED
        BY <2>1, <2>2, PrematureExit
<1>7. CASE j.t.st # "ABORT_PENDING" /\ j.t.status = "killed"
    <2>1. handle_exited_app(j) = [j EXCEPT !.t = T("UNINITIALIZED")]
        BY <1>7 DEF handle_exited_app, Job
    <2> HIDE DEF T
    <2>2. QED
        BY <1>3, <2>1 DEF Job
<1>8. CASE j.t.st # "ABORT_PENDING" /\ j.t.status = "error"
    <2>1. handle_exited_app(j) = [j EXCEPT !.t = T("EXITED"), !.s = badS]
        BY <1>8 DEF handle_exited_app, Job
    <2> HIDE DEF T, badS
    <2>2. QED
        BY <1>2, <1>3, <2>1 DEF Job, Over
<1>9. QED
    BY <1>1, <1>4, <1>5, <1>6, <1>7, <1>8

\* A process that has been waited for: its task is over, or starts anew.
LEMMA CheckExitedInv ==
    ASSUME NEW j, JobInv(j), NEW ckpt \in BOOLEAN
    PROVE  JobInv(check_app_exited(j, ckpt))
<1>1. j \in Job /\ j.t \in Task
    BY JobParts
<1> DEFINE c == j.t.ckpt \/ (ckpt /\ process_exists(j.t))
           k == [j EXCEPT !.t = [j.t EXCEPT !.ckpt = c]]
           g == handle_exited_app(k)
           u == [[g.t EXCEPT !.q = <<>>, !.block = FALSE, !.chan = "none"]
                 EXCEPT !.pst = "none", !.status = "quit"]
<1>2. k \in Job
    <2>1. c \in BOOLEAN
        OBVIOUS
    <2> HIDE DEF c
    <2>2. [j.t EXCEPT !.ckpt = c] \in Task
        BY <1>1, <2>1 DEF Task
    <2>3. QED
        BY <1>1, <2>2 DEF Job
<1>3. check_app_exited(j, ckpt) = [g EXCEPT !.t = u]
    <2>1. k = [j EXCEPT !.t.ckpt = @ \/ (ckpt /\ process_exists(j.t))]
        BY <1>1 DEF Job, Task
    <2>2. g \in Job
        BY <1>2, ExitedApp
    <2>3. check_app_exited(j, ckpt) =
            [g EXCEPT !.t = [cleanup_task(@) EXCEPT !.pst = "none", !.status = "quit"]]
        BY <2>1 DEF check_app_exited
    <2> HIDE DEF g
    <2>4. QED
        BY <2>2, <2>3 DEF cleanup_task, Job
<1> HIDE DEF k
<1>4. g \in Job /\ g.t.st \in {"UNINITIALIZED"} \cup Over
    BY <1>2, ExitedApp
<1> HIDE DEF g
<1>5. g.t \in Task /\ <<>> \in Seq(Messages)
    BY <1>4 DEF Job
<1>6. u \in Task /\ u.st = g.t.st /\ u.pst = "none"
    BY <1>5 DEF Task
<1> HIDE DEF u
<1>7. TaskInv(u)
    BY <1>4, <1>6, DeadTask DEF Alive, process_exists, Existing, Pending, Over
<1>8. [g EXCEPT !.t = u] \in Job /\ [g EXCEPT !.t = u].t = u
    BY <1>4, <1>6 DEF Job
<1>9. QED
    BY <1>3, <1>7, <1>8 DEF JobInv

-----------------------------------------------------------------------------
(***************************************************************************)
(* start, and the CPU schedule.                                            *)
(***************************************************************************)

LEMMA StartInv ==
    ASSUME NEW j, JobInv(j), j.t.st = "UNINITIALIZED", NEW how \in StartResults
    PROVE  /\ JobInv(start(j, how))
           /\ start(j, how).t.st \in {"UNINITIALIZED", "COULDNT_START", "EXECUTING"}
<1>1. j \in Job /\ j.t \in Task /\ TaskInv(j.t) /\ j.s \in Result
    BY JobParts
<1>2. ~Alive(j.t) /\ j.t.st \notin Existing /\ <<>> \in Seq(Messages)
    BY <1>1 DEF TaskInv, Existing, Pending
<1> DEFINE a == [j.t EXCEPT !.q = <<>>, !.block = FALSE]
           b == [a EXCEPT !.st = "COULDNT_START"]
           c == [a EXCEPT !.st = "EXECUTING", !.pst = "run", !.chan = "none"]
<1>3. /\ a \in Task /\ a.st = "UNINITIALIZED" /\ a.pst = j.t.pst /\ a.q = <<>>
    BY <1>1, <1>2 DEF Task
<1>4. CASE how = "files"
    <2> DEFINE s == [j.s EXCEPT !.state = "DOWNLOADING"]
               k == [j EXCEPT !.f = "missing", !.s = s]
    <2>1. s \in Result
        BY <1>1, ResultFields
    <2>2. start(j, how) = k
        BY <1>1, <1>4 DEF start, Job
    <2> HIDE DEF s
    <2>3. k \in Job /\ k.t = j.t
        BY <1>1, <2>1 DEF Job
    <2>4. QED
        BY <1>1, <2>2, <2>3 DEF JobInv
<1>5. CASE how = "shmem"
    <2>1. start(j, how) = [j EXCEPT !.t = a]
        BY <1>5 DEF start
    <2> HIDE DEF a
    <2>2. TaskInv(a)
        BY <1>2, <1>3, DeadTask DEF Alive, process_exists, Existing, Pending
    <2>3. JobInv([j EXCEPT !.t = a]) /\ [j EXCEPT !.t = a].t = a
        BY <1>1, <2>2, JobParts DEF Job
    <2>4. QED
        BY <1>3, <2>1, <2>3
<1>6. CASE how = "error"
    <2> DEFINE s == report_result_error(j.s)
    <2>1. s \in Result
        BY <1>1, ReportResult
    <2>2. start(j, how) = [j EXCEPT !.t = b, !.s = s]
        BY <1>1, <1>6 DEF start, Job
    <2> HIDE DEF s, a
    <2>3. b \in Task /\ b.st = "COULDNT_START" /\ b.pst = j.t.pst
        BY <1>3 DEF Task, Over
    <2> HIDE DEF b
    <2>4. TaskInv(b)
        BY <1>2, <2>3, DeadTask DEF Alive, process_exists, Existing, Pending
    <2>5. JobInv([j EXCEPT !.t = b, !.s = s]) /\ [j EXCEPT !.t = b, !.s = s].t = b
        BY <1>1, <2>1, <2>4, JobParts DEF Job
    <2>6. QED
        BY <2>2, <2>3, <2>5
<1>7. CASE how = "forked"
    <2>1. start(j, how) = [j EXCEPT !.t = c]
        BY <1>7 DEF start
    <2> HIDE DEF a
    <2>2. c \in Task /\ c.st = "EXECUTING" /\ c.pst = "run" /\ c.q = <<>> /\ c.chan = "none"
        BY <1>3 DEF Task, Existing
    <2> HIDE DEF c
    <2>3. Len(c.q) = 0 /\ Sent(c, 0) = "none"
        BY <2>2 DEF Sent
    <2>4. Becomes(c, Len(c.q), "run")
        BY <2>2, <2>3 DEF Becomes, Mute
    <2>5. Alternates(c)
        BY <2>3 DEF Alternates
    <2>6. TaskInv(c)
        BY <2>2, <2>4, <2>5 DEF TaskInv, InStep, Pending, process_exists
    <2>7. JobInv([j EXCEPT !.t = c]) /\ [j EXCEPT !.t = c].t = c
        BY <1>1, <2>6, JobParts DEF Job
    <2>8. QED
        BY <2>1, <2>2, <2>7
<1>8. QED
    BY <1>4, <1>5, <1>6, <1>7 DEF StartResults

\* scheduler_state does not concern the process.
LEMMA SchedInv ==
    ASSUME NEW j, JobInv(j), NEW b \in BOOLEAN
    PROVE  /\ JobInv([j EXCEPT !.t.sched = b])
           /\ \A t : TaskInv(t) => TaskInv([t EXCEPT !.sched = b])
<1>1. ASSUME NEW t, TaskInv(t) PROVE TaskInv([t EXCEPT !.sched = b])
    <2> DEFINE u == [t EXCEPT !.sched = b]
    <2>1. t \in Task
        BY <1>1 DEF TaskInv
    <2>2. /\ u \in Task /\ u.st = t.st /\ u.pst = t.pst /\ u.chan = t.chan
          /\ u.q = t.q
        BY <2>1 DEF Task
    <2> HIDE DEF u
    <2>3. TaskInv(u)
        BY <1>1, <2>2, TaskKeeps
    <2>4. QED
        BY <2>3 DEF u
<1>2. JobInv([j EXCEPT !.t = [j.t EXCEPT !.sched = b]])
    BY <1>1, JobParts
<1>3. [j EXCEPT !.t.sched = b] = [j EXCEPT !.t = [j.t EXCEPT !.sched = b]]
    BY DEF JobInv, Job
<1>4. QED
    BY <1>1, <1>2, <1>3

LEMMA RunInv ==
    ASSUME NEW j, JobInv(j), NEW how \in StartResults
    PROVE  JobInv(run_task(j, how))
<1> DEFINE new == IF j.t.st = "none" THEN [j EXCEPT !.t.st = "UNINITIALIZED"]
                  ELSE j
<1>1. JobInv(new) /\ new.t.st # "none"
    <2>1. CASE j.t.st = "none"
        <3> DEFINE u == [j.t EXCEPT !.st = "UNINITIALIZED"]
        <3>1. j.t \in Task /\ j.t.pst = "none" /\ j \in Job
            BY <2>1, JobParts DEF TaskInv
        <3>2. u \in Task /\ u.st = "UNINITIALIZED" /\ u.pst = "none"
            BY <3>1 DEF Task
        <3>3. new = [j EXCEPT !.t = u]
            BY <2>1, <3>1 DEF Job
        <3> HIDE DEF u
        <3>4. TaskInv(u)
            BY <3>2, DeadTask DEF Alive, process_exists, Existing, Pending
        <3>5. JobInv([j EXCEPT !.t = u]) /\ [j EXCEPT !.t = u].t = u
            BY <3>1, <3>4, JobParts DEF Job
        <3>6. QED
            BY <3>2, <3>3, <3>5
    <2>2. QED
        BY <2>1
<1>2. run_task(j, how) =
        CASE new.t.st = "SUSPENDED" ->
               [new EXCEPT !.t = [unsuspend(@) EXCEPT !.sched = TRUE]]
          [] new.t.st = "UNINITIALIZED" /\ how = "forked" ->
               [start(new, how) EXCEPT !.t.sched = TRUE]
          [] new.t.st = "UNINITIALIZED" /\ how # "forked" -> start(new, how)
          [] OTHER -> [new EXCEPT !.t.sched = TRUE]
    BY DEF run_task
<1> HIDE DEF new
<1>3. CASE new.t.st = "SUSPENDED"
    <2> DEFINE u == [unsuspend(new.t) EXCEPT !.sched = TRUE]
    <2>1. TaskInv(unsuspend(new.t))
        BY <1>1, <1>3, UnsuspendInv, JobParts
    <2>2. TaskInv(u)
        BY <1>1, <2>1, SchedInv
    <2>3. run_task(j, how) = [new EXCEPT !.t = u]
        BY <1>1, <1>2, <1>3 DEF JobInv, Job
    <2> HIDE DEF u
    <2>4. JobInv([new EXCEPT !.t = u])
        BY <1>1, <2>2, JobParts
    <2>5. QED
        BY <2>3, <2>4
<1>4. CASE new.t.st = "UNINITIALIZED"
    <2>1. JobInv(start(new, how))
        BY <1>1, <1>4, StartInv
    <2>2. JobInv([start(new, how) EXCEPT !.t.sched = TRUE])
        BY <2>1, SchedInv
    <2>3. run_task(j, how) \in {start(new, how), [start(new, how) EXCEPT !.t.sched = TRUE]}
        BY <1>2, <1>4
    <2>4. QED
        BY <2>1, <2>2, <2>3
<1>5. CASE new.t.st \notin {"SUSPENDED", "UNINITIALIZED"}
    <2>1. run_task(j, how) = [new EXCEPT !.t.sched = TRUE]
        BY <1>2, <1>5
    <2>2. QED
        BY <1>1, <2>1, SchedInv
<1>6. QED
    BY <1>3, <1>4, <1>5

LEMMA StopInv ==
    ASSUME NEW j, JobInv(j), NEW quit \in BOOLEAN
    PROVE  JobInv(stop_task(j, quit))
<1>1. CASE j.t.st = "none"
    BY <1>1 DEF stop_task
<1>2. CASE j.t.st = "EXECUTING" \/ (j.t.st = "SUSPENDED" /\ j.t.ckpt /\ quit)
    <2> DEFINE u == [preempt(j.t, quit) EXCEPT !.sched = FALSE]
    <2>1. TaskInv(preempt(j.t, quit))
        BY <1>2, PreemptInv, JobParts
    <2>2. TaskInv(u)
        BY <2>1, SchedInv
    <2>3. stop_task(j, quit) = [j EXCEPT !.t = u]
        BY <1>2 DEF stop_task, JobInv, Job
    <2> HIDE DEF u
    <2>4. JobInv([j EXCEPT !.t = u])
        BY <2>2, JobParts
    <2>5. QED
        BY <2>3, <2>4
<1>3. CASE /\ j.t.st # "none"
           /\ ~(j.t.st = "EXECUTING" \/ (j.t.st = "SUSPENDED" /\ j.t.ckpt /\ quit))
    <2>1. stop_task(j, quit) = [j EXCEPT !.t.sched = FALSE]
        BY <1>3 DEF stop_task
    <2>2. QED
        BY <2>1, SchedInv
<1>4. QED
    BY <1>1, <1>2, <1>3

-----------------------------------------------------------------------------
(***************************************************************************)
(* What the other functions of a pass do to one job.                       *)
(***************************************************************************)

LEMMA LimitInv ==
    ASSUME NEW j, JobInv(j), NEW over \in BOOLEAN
    PROVE  JobInv(check_rsc_limits_exceeded(j, over))
BY AbortTaskInv DEF check_rsc_limits_exceeded

LEMMA KillLateInv ==
    ASSUME NEW t, TaskInv(t)
    PROVE  TaskInv(kill_late(t))
<1>1. t \in Task /\ (t.st = "QUIT_PENDING") \in BOOLEAN
    BY DEF TaskInv
<1>2. TaskInv(kill_task(t, t.st = "QUIT_PENDING"))
    BY <1>1, KillInv
<1>3. QED
    BY <1>2 DEF kill_late

LEMMA GoneInv == JobInv([NoJob EXCEPT !.s.state = "gone"])
<1> DEFINE s == [Unsent EXCEPT !.state = "gone"]
           k == [t |-> NoTask, s |-> s, f |-> "missing", o |-> "none"]
<1>1. Unsent \in Result
    BY DEF Unsent, Result
<1>2. s \in Result
    BY <1>1, ResultFields
<1>3. [NoJob EXCEPT !.s.state = "gone"] = k
    BY DEF NoJob
<1>4. NoTask \in Task /\ TaskInv(NoTask)
    BY NoTaskInv DEF TaskInv
<1> HIDE DEF s
<1>5. k \in Job /\ k.t = NoTask
    BY <1>2, <1>4 DEF Job
<1>6. QED
    BY <1>3, <1>4, <1>5 DEF JobInv

LEMMA NoJobInv == JobInv(NoJob)
<1>1. Unsent \in Result
    BY DEF Unsent, Result
<1>2. NoTask \in Task /\ TaskInv(NoTask)
    BY NoTaskInv DEF TaskInv
<1>3. NoJob \in Job /\ NoJob.t = NoTask
    BY <1>1, <1>2 DEF NoJob, Job
<1>4. QED
    BY <1>2, <1>3 DEF JobInv

LEMMA AckedInv ==
    ASSUME NEW j, JobInv(j)
    PROVE  JobInv(garbage_collect_acked(j))
<1>1. JobInv([NoJob EXCEPT !.s.state = "gone"]) /\ JobInv(abort_task(j, "err"))
    BY GoneInv, AbortTaskInv
<1>2. garbage_collect_acked(j) \in
        {[NoJob EXCEPT !.s.state = "gone"], abort_task(j, "err"), j}
    BY DEF garbage_collect_acked
<1>3. QED
    BY <1>1, <1>2

LEMMA FailedInv ==
    ASSUME NEW j, JobInv(j)
    PROVE  JobInv(garbage_collect_failed(j))
<1> DEFINE R(k) == [k EXCEPT !.s = report_result_error(k.s)]
<1>1. ASSUME NEW k, JobInv(k) PROVE JobInv(R(k))
    <2>1. report_result_error(k.s) \in Result
        BY <1>1, JobParts, ReportResult
    <2>2. QED
        BY <1>1, <2>1, JobParts
<1>2. \A k : [k EXCEPT !.s = report_result_error(@)] = R(k)
    OBVIOUS
<1> DEFINE in == IF j.f = "failed" THEN R(j) ELSE j
           out == IF in.t.st \in {"EXECUTING", "SUSPENDED"}
                  THEN abort_task(in, "err") ELSE in
<1>3. garbage_collect_failed(j) = IF in.o = "failed" /\ ~in.s.ready THEN R(out) ELSE in
    BY DEF garbage_collect_failed
<1> HIDE DEF R
<1>4. JobInv(in)
    BY <1>1
<1> HIDE DEF in
<1>5. JobInv(out)
    BY <1>4, AbortTaskInv
<1> HIDE DEF out
<1>6. JobInv(R(out))
    BY <1>1, <1>5
<1>7. QED
    BY <1>3, <1>4, <1>6

LEMMA UpdateInv ==
    ASSUME NEW j, JobInv(j), NEW copies
    PROVE  JobInv(update_result(j, copies))
<1>1. j \in Job /\ j.s \in Result
    BY JobParts
<1> DEFINE S(st) == [j.s EXCEPT !.state = st]
           u == [j.s EXCEPT !.state = "UPLOADED", !.ready = TRUE]
           a == [j.s EXCEPT !.ready = TRUE]
<1>2. S("DOWNLOADING") \in Result /\ S("DOWNLOADED") \in Result /\ a \in Result
    BY <1>1, ResultFields
<1>3. u \in Result /\ S("UPLOADING") \in Result
    BY <1>1 DEF Result, Finished
<1>4. update_result(j, copies) \in
        {[j EXCEPT !.s = S("DOWNLOADING")], [j EXCEPT !.s = S("DOWNLOADED")],
         [j EXCEPT !.s = S("UPLOADING"), !.o = "present"],
         [j EXCEPT !.s = u], [j EXCEPT !.s = a], j}
    <2>1. /\ [j EXCEPT !.s.state = "DOWNLOADING"] = [j EXCEPT !.s = S("DOWNLOADING")]
          /\ [j EXCEPT !.s.state = "DOWNLOADED"] = [j EXCEPT !.s = S("DOWNLOADED")]
          /\ [j EXCEPT !.s.ready = TRUE] = [j EXCEPT !.s = a]
        BY <1>1 DEF Job
    <2>2. [j EXCEPT !.s.state = "UPLOADED", !.s.ready = TRUE] = [j EXCEPT !.s = u]
        BY <1>1 DEF Job
    <2>3. [j EXCEPT !.s.state = "UPLOADING", !.o = "present"]
          = [j EXCEPT !.s = S("UPLOADING"), !.o = "present"]
        BY <1>1 DEF Job
    <2>4. QED
        BY <2>1, <2>2, <2>3 DEF update_result
<1> HIDE DEF S, u, a
<1>5a. JobInv([j EXCEPT !.s = S("UPLOADING"), !.o = "present"])
    BY <1>1, <1>3 DEF JobInv, Job
<1>5. /\ JobInv([j EXCEPT !.s = S("DOWNLOADING")])
      /\ JobInv([j EXCEPT !.s = S("DOWNLOADED")])
      /\ JobInv([j EXCEPT !.s = u]) /\ JobInv([j EXCEPT !.s = a])
    BY <1>2, <1>3, JobParts
<1>6. QED
    BY <1>4, <1>5, <1>5a

LEMMA TransferInv ==
    ASSUME NEW j, JobInv(j), NEW k \in Transferred(j)
    PROVE  JobInv(k)
<1>1. j \in Job /\ TaskInv(j.t)
    BY JobParts
<1> DEFINE F == IF j.f = "missing" THEN {"missing", "present", "failed"}
                ELSE {j.f}
           O == IF j.o = "present" THEN {"present", "uploaded", "failed"}
                ELSE {j.o}
<1>2. /\ F \subseteq {"missing", "present", "failed"}
      /\ O \subseteq {"none", "present", "uploaded", "failed"}
    BY <1>1 DEF Job
<1>3. k \in {WithFiles(j, f, o) : f \in F, o \in O}
    BY DEF Transferred
<1> HIDE DEF F, O
<1>4. PICK f \in F, o \in O : k = WithFiles(j, f, o)
    BY <1>3
<1>5. k \in Job /\ k.t = j.t
    BY <1>1, <1>2, <1>4 DEF Job, WithFiles
<1>6. QED
    BY <1>1, <1>5 DEF JobInv

LEMMA FinishedInv ==
    ASSUME NEW j, JobInv(j), NEW o \in {"none", "present", "failed"}
    PROVE  JobInv(app_finished(j, o))
<1>1. j \in Job /\ j.s \in Result
    BY JobParts
<1> DEFINE had_error == j.s.exit # "ok" \/ (Scanned(j) /\ o = "failed")
           st == IF ~had_error THEN "UPLOADING"
                 ELSE IF j.s.exit = "aborted" THEN "ABORTED" ELSE "COMPUTE_ERROR"
           s == [j.s EXCEPT !.state = st]
           p == IF Scanned(j) THEN o ELSE j.o
           k == [j EXCEPT !.t = NoTask, !.o = p, !.s = s]
<1>2. app_finished(j, o) = k
    BY <1>1 DEF app_finished, Job
<1>3. st \in Finished
    BY DEF Finished
<1>4. p \in {"none", "present", "uploaded", "failed"}
    BY <1>1 DEF Job
<1> HIDE DEF st, p
<1>5. s \in Result
    BY <1>1, <1>3, ResultFields
<1>6. NoTask \in Task /\ TaskInv(NoTask)
    BY NoTaskInv DEF TaskInv
<1> HIDE DEF s
<1>7. k \in Job /\ k.t = NoTask
    BY <1>1, <1>4, <1>5, <1>6 DEF Job
<1>8. QED
    BY <1>2, <1>6, <1>7 DEF JobInv

LEMMA ReplyInv ==
    ASSUME NEW j, JobInv(j), NEW new \in BOOLEAN, NEW ack \in BOOLEAN,
           NEW abort \in BOOLEAN, NEW unstarted \in BOOLEAN
    PROVE  JobInv(handle_reply(j, new, ack, abort, unstarted))
<1>1. j \in Job /\ j.s \in Result
    BY JobParts
<1> DEFINE st == IF new THEN "NEW" ELSE j.s.state
           got == j.s.ack \/ ack
           s == [j.s EXCEPT !.state = st, !.ack = got]
           acked == [j EXCEPT !.s = s]
           told == IF abort THEN Aborted(acked, "aborted") ELSE acked
<1>2. acked = [j EXCEPT !.s.state = IF new THEN "NEW" ELSE @, !.s.ack = @ \/ ack]
    BY <1>1 DEF Job, Result
<1>3. handle_reply(j, new, ack, abort, unstarted) =
        IF unstarted /\ told.t.st = "none"
        THEN [told EXCEPT !.s = abort_inactive(@, "aborted")] ELSE told
    BY <1>2 DEF handle_reply
<1>4. st \in {"unsent", "gone", "NEW", "DOWNLOADING", "DOWNLOADED"} \cup Finished
    BY <1>1 DEF Result
<1>5. got \in BOOLEAN
    OBVIOUS
<1> HIDE DEF st, got
<1>6. s \in Result
    BY <1>1, <1>4, <1>5 DEF Result
<1> HIDE DEF s
<1>7. JobInv(acked)
    BY <1>6, JobParts
<1> HIDE DEF acked
<1>8. JobInv(told)
    BY <1>7, AbortedInv
<1> HIDE DEF told
<1>9. abort_inactive(told.s, "aborted") \in Result
    BY <1>8, JobParts, AbortedResult
<1>10. JobInv([told EXCEPT !.s = abort_inactive(told.s, "aborted")])
    BY <1>8, <1>9, JobParts
<1>11. QED
    BY <1>3, <1>8, <1>10 DEF JobInv, Job

-----------------------------------------------------------------------------
(***************************************************************************)
(* The actions.                                                            *)
(***************************************************************************)

\* What a step has to do for the jobs; the other variables are simple.
JobsKept == job' \in [Results -> Job] /\ \A r \in Results : JobInv(job'[r])

LEMMA SameJobs ==
    ASSUME TasksInv, job' = job
    PROVE  JobsKept
BY DEF TasksInv, TypeOK, JobsKept

\* A step that replaces one job.
LEMMA OneJob ==
    ASSUME TasksInv, NEW r \in Results, NEW j, JobInv(j),
           job' = [job EXCEPT ![r] = j]
    PROVE  JobsKept
<1>1. job \in [Results -> Job] /\ j \in Job
    BY DEF TasksInv, TypeOK, JobInv
<1>2. job' \in [Results -> Job]
    BY <1>1
<1>3. ASSUME NEW q \in Results PROVE JobInv(job'[q])
    <2>1. job'[q] = IF q = r THEN j ELSE job[q]
        BY <1>1
    <2>2. QED
        BY <2>1 DEF TasksInv
<1>4. QED
    BY <1>2, <1>3 DEF JobsKept

LEMMA TypeStep ==
    ASSUME TasksInv, JobsKept, scheduled' \in SUBSET Results,
           {mustSchedule', mustEnforce', suspended'} \subseteq BOOLEAN,
           phase' \in {"idle", "poll", "gc", "update", "xfer", "finished",
                       "schedule", "enforce", "rpc"},
           users' \in 0..MaxUser
    PROVE  TasksInv'
BY DEF TasksInv, TypeOK, JobsKept

LEMMA BeginPassInv ==
    ASSUME TasksInv, NEW first \in {"poll", "schedule"}, BeginPass(first)
    PROVE  TasksInv'
<1>1. CASE job' = job
    <2>1. JobsKept
        BY <1>1, SameJobs
    <2>2. /\ {mustSchedule', mustEnforce', suspended'} \subseteq BOOLEAN
          /\ scheduled' \in SUBSET Results /\ users' \in 0..MaxUser
        BY DEF BeginPass, TasksInv, TypeOK
    <2>3. QED
        BY <2>1, <2>2, TypeStep DEF BeginPass
<1>2. ASSUME NEW quit \in BOOLEAN, suspend_all(quit), UNCHANGED mustSchedule,
             suspended' = TRUE
      PROVE  TasksInv'
    <2> DEFINE F(r) == IF job[r].t.st # "EXECUTING" THEN job[r]
                       ELSE [job[r] EXCEPT !.t = preempt(@, quit)]
    <2>1. job' = [r \in Results |-> F(r)]
        BY <1>2 DEF suspend_all
    <2>2. ASSUME NEW r \in Results PROVE JobInv(F(r))
        <3>1. JobInv(job[r])
            BY DEF TasksInv
        <3>2. CASE job[r].t.st = "EXECUTING"
            <4> DEFINE u == preempt(job[r].t, quit)
            <4>1. TaskInv(u)
                BY <3>1, <3>2, JobParts, PreemptInv
            <4>2. F(r) = [job[r] EXCEPT !.t = u]
                BY <3>1, <3>2 DEF JobInv, Job
            <4> HIDE DEF u
            <4>3. JobInv([job[r] EXCEPT !.t = u])
                BY <3>1, <4>1, JobParts
            <4>4. QED
                BY <4>2, <4>3
        <3>3. QED
            BY <3>1, <3>2
    <2> HIDE DEF F
    <2>3. JobsKept
        BY <2>1, <2>2 DEF JobsKept, JobInv
    <2>4. /\ {mustSchedule', mustEnforce', suspended'} \subseteq BOOLEAN
          /\ scheduled' \in SUBSET Results /\ users' \in 0..MaxUser
        BY <1>2 DEF BeginPass, TasksInv, TypeOK
    <2>5. QED
        BY <2>3, <2>4, TypeStep DEF BeginPass
<1>3. ASSUME unsuspend_all, suspended' = FALSE,
             mustSchedule' \in {mustSchedule, TRUE}
      PROVE  TasksInv'
    <2>1. PICK how \in [Results -> StartResults] :
            job' = [r \in Results |->
                     CASE ~job[r].t.sched -> job[r]
                       [] job[r].t.sched /\ job[r].t.st = "UNINITIALIZED" ->
                            start(job[r], how[r])
                       [] job[r].t.sched /\ job[r].t.st = "SUSPENDED" ->
                            [job[r] EXCEPT !.t = unsuspend(@)]
                       [] OTHER -> job[r]]
        BY <1>3 DEF unsuspend_all
    <2> DEFINE F(r) == CASE ~job[r].t.sched -> job[r]
                         [] job[r].t.sched /\ job[r].t.st = "UNINITIALIZED" ->
                              start(job[r], how[r])
                         [] job[r].t.sched /\ job[r].t.st = "SUSPENDED" ->
                              [job[r] EXCEPT !.t = unsuspend(@)]
                         [] OTHER -> job[r]
    <2>2. job' = [r \in Results |-> F(r)]
        BY <2>1
    <2>3. ASSUME NEW r \in Results PROVE JobInv(F(r))
        <3>1. JobInv(job[r]) /\ how[r] \in StartResults
            BY DEF TasksInv
        <3>2. CASE job[r].t.st = "UNINITIALIZED"
            <4>1. JobInv(start(job[r], how[r]))
                BY <3>1, <3>2, StartInv
            <4>2. F(r) \in {job[r], start(job[r], how[r])}
                BY <3>2
            <4>3. QED
                BY <3>1, <4>1, <4>2
        <3>3. CASE job[r].t.st = "SUSPENDED"
            <4> DEFINE u == unsuspend(job[r].t)
            <4>1. TaskInv(u)
                BY <3>1, <3>3, JobParts, UnsuspendInv
            <4>2. F(r) \in {job[r], [job[r] EXCEPT !.t = u]}
                BY <3>1, <3>3 DEF JobInv, Job
            <4> HIDE DEF u
            <4>3. JobInv([job[r] EXCEPT !.t = u])
                BY <3>1, <4>1, JobParts
            <4>4. QED
                BY <3>1, <4>2, <4>3
        <3>4. CASE job[r].t.st \notin {"UNINITIALIZED", "SUSPENDED"}
            <4>1. F(r) = job[r]
                BY <3>4
            <4>2. QED
                BY <3>1, <4>1
        <3>5. QED
            BY <3>2, <3>3, <3>4
    <2> HIDE DEF F
    <2>4. JobsKept
        BY <2>2, <2>3 DEF JobsKept, JobInv
    <2>5. /\ {mustSchedule', mustEnforce', suspended'} \subseteq BOOLEAN
          /\ scheduled' \in SUBSET Results /\ users' \in 0..MaxUser
        BY <1>3 DEF BeginPass, TasksInv, TypeOK
    <2>6. QED
        BY <2>4, <2>5, TypeStep DEF BeginPass
<1>4. QED
    BY <1>1, <1>2, <1>3 DEF BeginPass

LEMMA PollInv ==
    ASSUME TasksInv, NEW late \in SUBSET Results, Poll(late)
    PROVE  TasksInv'
<1>1. PICK exited \in SUBSET Results, hung \in SUBSET Results,
           ckpt \in SUBSET Results, over \in SUBSET Results :
             PollWith(exited, hung, ckpt, over, late)
    BY DEF Poll
<1> DEFINE reaped(r) == IF r \in exited THEN check_app_exited(job[r], r \in ckpt)
                        ELSE job[r]
           sent(r) == [reaped(r) EXCEPT !.t = process_control_poll(reaped(r).t, r \in hung)]
           limited(r) == check_rsc_limits_exceeded(sent(r), r \in over)
           polled(r) == [limited(r) EXCEPT !.t = get_msgs(limited(r).t, r \in ckpt)]
           F(r) == IF r \notin late THEN polled(r)
                   ELSE [polled(r) EXCEPT !.t = kill_late(polled(r).t)]
<1>2. ASSUME NEW r \in Results PROVE JobInv(reaped(r))
    <2>1. JobInv(job[r])
        BY DEF TasksInv
    <2> DEFINE b == r \in ckpt
    <2>2. b \in BOOLEAN
        OBVIOUS
    <2> HIDE DEF b
    <2>3. JobInv(check_app_exited(job[r], b))
        BY <2>1, <2>2, CheckExitedInv
    <2>4. QED
        BY <2>1, <2>3 DEF b
<1>3. ASSUME NEW r \in Results PROVE JobInv(sent(r))
    <2>1. JobInv(reaped(r))
        BY <1>2
    <2> HIDE DEF reaped
    <2> DEFINE b == r \in hung
    <2>2. b \in BOOLEAN
        OBVIOUS
    <2> HIDE DEF b
    <2>3. TaskInv(process_control_poll(reaped(r).t, b))
        BY <2>1, <2>2, JobParts, ControlPollInv
    <2>4. JobInv([reaped(r) EXCEPT !.t = process_control_poll(reaped(r).t, b)])
        BY <2>1, <2>3, JobParts
    <2>5. QED
        BY <2>4 DEF b
<1>4. ASSUME NEW r \in Results PROVE JobInv(limited(r))
    <2>1. JobInv(sent(r))
        BY <1>3
    <2> HIDE DEF sent
    <2> DEFINE b == r \in over
    <2>2. b \in BOOLEAN
        OBVIOUS
    <2> HIDE DEF b
    <2>3. JobInv(check_rsc_limits_exceeded(sent(r), b))
        BY <2>1, <2>2, LimitInv
    <2>4. QED
        BY <2>3 DEF b
<1>5. ASSUME NEW r \in Results PROVE JobInv(polled(r))
    <2>1. JobInv(limited(r))
        BY <1>4
    <2> HIDE DEF limited
    <2> DEFINE b == r \in ckpt
    <2>2. b \in BOOLEAN
        OBVIOUS
    <2> HIDE DEF b
    <2>3. TaskInv(get_msgs(limited(r).t, b))
        BY <2>1, <2>2, JobParts, GetMsgsInv
    <2>4. JobInv([limited(r) EXCEPT !.t = get_msgs(limited(r).t, b)])
        BY <2>1, <2>3, JobParts
    <2>5. QED
        BY <2>4 DEF b
<1>6. ASSUME NEW r \in Results PROVE JobInv(F(r))
    <2>1. JobInv(polled(r))
        BY <1>5
    <2> HIDE DEF polled
    <2>2. TaskInv(kill_late(polled(r).t))
        BY <2>1, JobParts, KillLateInv
    <2>3. JobInv([polled(r) EXCEPT !.t = kill_late(polled(r).t)])
        BY <2>1, <2>2, JobParts
    <2>4. QED
        BY <2>1, <2>3
<1>7. job' = [r \in Results |-> F(r)]
    BY <1>1 DEF PollWith
<1> HIDE DEF F
<1>8. JobsKept
    BY <1>6, <1>7 DEF JobsKept, JobInv
<1>9. mustSchedule' \in BOOLEAN /\ mustEnforce' \in BOOLEAN
    BY <1>1 DEF PollWith
<1>10. /\ suspended' \in BOOLEAN /\ scheduled' \in SUBSET Results
       /\ users' \in 0..MaxUser /\ phase' = "gc"
    BY DEF Poll, TasksInv, TypeOK
<1>11. QED
    BY <1>8, <1>9, <1>10, TypeStep

LEMMA GarbageCollectInv ==
    ASSUME TasksInv, GarbageCollect
    PROVE  TasksInv'
<1>1. PICK late \in SUBSET Results :
        job' = [r \in Results |->
                  IF late # {}
                  THEN IF r \notin late THEN job[r]
                       ELSE [job[r] EXCEPT !.s = abort_inactive(@, "err")]
                  ELSE IF r \notin Known THEN job[r]
                  ELSE garbage_collect_failed(garbage_collect_acked(job[r]))]
    BY DEF GarbageCollect, Known
<1> DEFINE A(r) == [job[r] EXCEPT !.s = abort_inactive(@, "err")]
           G(r) == garbage_collect_failed(garbage_collect_acked(job[r]))
           F(r) == IF late # {} THEN IF r \notin late THEN job[r] ELSE A(r)
                   ELSE IF r \notin Known THEN job[r] ELSE G(r)
<1>2. job' = [r \in Results |-> F(r)]
    BY <1>1
<1>3. ASSUME NEW r \in Results PROVE JobInv(F(r))
    <2>1. JobInv(job[r])
        BY DEF TasksInv
    <2>2. JobInv(G(r))
        BY <2>1, AckedInv, FailedInv
    <2>3. JobInv(A(r))
        <3>1. abort_inactive(job[r].s, "err") \in Result
            BY <2>1, JobParts, AbortedResult
        <3>2. JobInv([job[r] EXCEPT !.s = abort_inactive(job[r].s, "err")])
            BY <2>1, <3>1, JobParts
        <3>3. QED
            BY <2>1, <3>2 DEF JobInv, Job
    <2> HIDE DEF G, A
    <2>4. QED
        BY <2>1, <2>2, <2>3
<1> HIDE DEF F
<1>4. JobsKept
    BY <1>2, <1>3 DEF JobsKept, JobInv
<1>5. /\ {mustSchedule', mustEnforce', suspended'} \subseteq BOOLEAN
      /\ scheduled' \in SUBSET Results /\ users' \in 0..MaxUser /\ phase' = "update"
    BY DEF GarbageCollect, schedVars, TasksInv, TypeOK
<1>6. QED
    BY <1>4, <1>5, TypeStep

LEMMA UpdateResultsInv ==
    ASSUME TasksInv, UpdateResults
    PROVE  TasksInv'
<1>1. PICK copies \in SUBSET Results :
          job' = [r \in Results |-> update_result(job[r], r \in copies)]
    BY DEF UpdateResults
<1>2. \A r \in Results : JobInv(update_result(job[r], r \in copies))
    BY UpdateInv DEF TasksInv
<1>3. JobsKept
    BY <1>1, <1>2 DEF JobsKept, JobInv
<1>4. mustSchedule' \in BOOLEAN
    BY DEF UpdateResults
<1>5. /\ {mustEnforce', suspended'} \subseteq BOOLEAN
      /\ scheduled' \in SUBSET Results /\ users' \in 0..MaxUser /\ phase' = "xfer"
    BY DEF UpdateResults, TasksInv, TypeOK
<1>6. QED
    BY <1>3, <1>4, <1>5, TypeStep

LEMMA FileXfersInv ==
    ASSUME TasksInv, FileXfers
    PROVE  TasksInv'
<1> DEFINE U == UNION {Transferred(job[r]) : r \in Results}
<1>1. job' \in [Results -> U]
    BY DEF FileXfers
<1>2. ASSUME NEW r \in Results PROVE JobInv(job'[r])
    <2>1. JobInv(job[r])
        BY DEF TasksInv
    <2>2. job'[r] \in Transferred(job[r]) \/ job'[r] = job[r]
        BY DEF FileXfers
    <2>3. QED
        BY <2>1, <2>2, TransferInv
<1> HIDE DEF U
<1>3. JobsKept
    BY <1>1, <1>2 DEF JobsKept, JobInv
<1>4. /\ {mustSchedule', mustEnforce', suspended'} \subseteq BOOLEAN
      /\ scheduled' \in SUBSET Results /\ users' \in 0..MaxUser /\ phase' = "finished"
    BY DEF FileXfers, schedVars, TasksInv, TypeOK
<1>5. QED
    BY <1>3, <1>4, TypeStep

LEMMA HandleFinishedInv ==
    ASSUME TasksInv, HandleFinishedApps
    PROVE  TasksInv'
<1> DEFINE over == {r \in Results : job[r].t.st \in Over}
<1>1. PICK o \in [over -> {"none", "present", "failed"}] :
        job' = [r \in Results |->
                  IF r \in over THEN app_finished(job[r], o[r]) ELSE job[r]]
    BY DEF HandleFinishedApps
<1>2. mustSchedule' \in BOOLEAN
    BY DEF HandleFinishedApps
<1> HIDE DEF over
<1> DEFINE F(r) == IF r \in over THEN app_finished(job[r], o[r]) ELSE job[r]
<1>3. ASSUME NEW r \in Results PROVE JobInv(F(r))
    <2>1. JobInv(job[r])
        BY DEF TasksInv
    <2>2. CASE r \in over
        <3>1. o[r] \in {"none", "present", "failed"}
            BY <2>2
        <3>2. JobInv(app_finished(job[r], o[r]))
            BY <2>1, <3>1, FinishedInv
        <3>3. QED
            BY <2>2, <3>2
    <2>3. QED
        BY <2>1, <2>2
<1>4. job' = [r \in Results |-> F(r)]
    BY <1>1
<1> HIDE DEF F
<1>5. JobsKept
    BY <1>3, <1>4 DEF JobsKept, JobInv
<1>6. /\ {mustEnforce', suspended'} \subseteq BOOLEAN
      /\ scheduled' \in SUBSET Results /\ users' \in 0..MaxUser /\ phase' = "schedule"
    BY DEF HandleFinishedApps, TasksInv, TypeOK
<1>7. QED
    BY <1>2, <1>5, <1>6, TypeStep

LEMMA ScheduleInv ==
    ASSUME TasksInv, ScheduleCpus \/ KeepSchedule
    PROVE  TasksInv'
<1>1. JobsKept
    BY SameJobs DEF ScheduleCpus, KeepSchedule
<1>2. CASE ScheduleCpus
    <2>1. /\ {mustSchedule', mustEnforce', suspended'} \subseteq BOOLEAN
          /\ scheduled' \in SUBSET Results /\ users' \in 0..MaxUser
          /\ phase' = "enforce"
        BY <1>2 DEF ScheduleCpus, TasksInv, TypeOK
    <2>2. QED
        BY <1>1, <2>1, TypeStep
<1>3. CASE KeepSchedule
    <2>1. /\ {mustSchedule', mustEnforce', suspended'} \subseteq BOOLEAN
          /\ scheduled' \in SUBSET Results /\ users' \in 0..MaxUser
          /\ phase' \in {"enforce", "rpc"}
        BY <1>3 DEF KeepSchedule, schedVars, TasksInv, TypeOK
    <2>2. QED
        BY <1>1, <2>1, TypeStep
<1>4. QED
    BY <1>2, <1>3

LEMMA EnforceInv ==
    ASSUME TasksInv, EnforceSchedule
    PROVE  TasksInv'
<1>1. PICK S \in SUBSET Results, quit \in SUBSET Results,
           how \in [Results -> StartResults] :
        /\ job' = [r \in Results |-> IF r \in S THEN run_task(job[r], how[r])
                                     ELSE stop_task(job[r], r \in quit)]
        /\ mustSchedule' = (mustSchedule \/ \E r \in S :
              /\ job[r].t.st \in {"none", "UNINITIALIZED"}
              /\ how[r] # "forked")
    BY DEF EnforceSchedule
<1> DEFINE F(r) == IF r \in S THEN run_task(job[r], how[r])
                   ELSE stop_task(job[r], r \in quit)
<1>2. ASSUME NEW r \in Results PROVE JobInv(F(r))
    <2>1. JobInv(job[r]) /\ how[r] \in StartResults
        BY DEF TasksInv
    <2>2. JobInv(run_task(job[r], how[r]))
        BY <2>1, RunInv
    <2> DEFINE b == r \in quit
    <2>3. b \in BOOLEAN
        OBVIOUS
    <2> HIDE DEF b
    <2>4. JobInv(stop_task(job[r], b))
        BY <2>1, <2>3, StopInv
    <2>5. QED
        BY <2>2, <2>4 DEF b
<1>3. job' = [r \in Results |-> F(r)]
    BY <1>1
<1>4. mustSchedule' \in BOOLEAN
    BY <1>1
<1> HIDE DEF F
<1>5. JobsKept
    BY <1>2, <1>3 DEF JobsKept, JobInv
<1>6. /\ {mustEnforce', suspended'} \subseteq BOOLEAN
      /\ scheduled' \in SUBSET Results /\ users' \in 0..MaxUser /\ phase' = "rpc"
    BY DEF EnforceSchedule, TasksInv, TypeOK
<1>7. QED
    BY <1>4, <1>5, <1>6, TypeStep

LEMMA SchedulerReplyInv ==
    ASSUME TasksInv, SchedulerReply
    PROVE  TasksInv'
<1>1. PICK new \in SUBSET {r \in Results : job[r].s.state = "unsent"},
           acks \in SUBSET {r \in Known : job[r].s.ready},
           aborts \in SUBSET Known, unstarted \in SUBSET Known :
        job' = [r \in Results |->
                  handle_reply(job[r], r \in new, r \in acks, r \in aborts,
                               r \in unstarted)]
    BY DEF SchedulerReply
<1> DEFINE F(r) == handle_reply(job[r], r \in new, r \in acks, r \in aborts,
                                r \in unstarted)
<1>2. ASSUME NEW r \in Results PROVE JobInv(F(r))
    <2>1. JobInv(job[r])
        BY DEF TasksInv
    <2> DEFINE a == r \in new
               b == r \in acks
               c == r \in aborts
               d == r \in unstarted
    <2>2. a \in BOOLEAN /\ b \in BOOLEAN /\ c \in BOOLEAN /\ d \in BOOLEAN
        OBVIOUS
    <2> HIDE DEF a, b, c, d
    <2>3. JobInv(handle_reply(job[r], a, b, c, d))
        BY <2>1, <2>2, ReplyInv
    <2>4. QED
        BY <2>3 DEF a, b, c, d
<1>3. job' = [r \in Results |-> F(r)]
    BY <1>1
<1> HIDE DEF F
<1>4. JobsKept
    BY <1>2, <1>3 DEF JobsKept, JobInv
<1>5. /\ {mustSchedule', mustEnforce', suspended'} \subseteq BOOLEAN
      /\ scheduled' \in SUBSET Results /\ users' \in 0..MaxUser /\ phase' = "idle"
    BY DEF SchedulerReply, schedVars, TasksInv, TypeOK
<1>6. QED
    BY <1>4, <1>5, TypeStep

LEMMA SetProxyInv ==
    ASSUME TasksInv, SetProxy
    PROVE  TasksInv'
<1> DEFINE F(r) == IF ~process_exists(job[r].t) THEN job[r]
                   ELSE [job[r] EXCEPT !.t = msg_queue_send(@, "reread")]
<1>1. job' = [r \in Results |-> F(r)]
    BY DEF SetProxy
<1>2. ASSUME NEW r \in Results PROVE JobInv(F(r))
    <2>1. JobInv(job[r]) /\ job[r] \in Job /\ TaskInv(job[r].t) /\ job[r].t \in Task
        BY JobParts DEF TasksInv
    <2>2. CASE process_exists(job[r].t)
        <3> DEFINE w == msg_queue_send(job[r].t, "reread")
                   u == [w EXCEPT !.st = job[r].t.st]
        <3>1. "reread" \in Messages /\ job[r].t.st \in Existing
            BY <2>2 DEF Messages, process_exists
        <3>2. w \in Task /\ w.st = job[r].t.st
            BY <2>1, <3>1, SendFields
        <3>3. u = [msg_queue_send(job[r].t, "reread") EXCEPT !.st = job[r].t.st]
            OBVIOUS
        <3>4. F(r) = [job[r] EXCEPT !.t = w]
            BY <2>1, <2>2 DEF Job
        <3> HIDE DEF w
        <3>5. u = w
            BY <3>2 DEF Task
        <3> HIDE DEF u
        <3>6. TaskInv(u)
            BY <2>1, <2>2, <3>1, <3>3, SendInv
        <3>7. JobInv([job[r] EXCEPT !.t = w])
            BY <2>1, <3>5, <3>6, JobParts
        <3>8. QED
            BY <3>4, <3>7
    <2>3. QED
        BY <2>1, <2>2
<1> HIDE DEF F
<1>3. JobsKept
    BY <1>1, <1>2 DEF JobsKept, JobInv
<1>4. users' \in 0..MaxUser
    BY TasksAssumption DEF SetProxy, Command, TasksInv, TypeOK
<1>5. /\ {mustSchedule', mustEnforce', suspended'} \subseteq BOOLEAN
      /\ scheduled' \in SUBSET Results /\ phase' = "idle"
    BY DEF SetProxy, Command, schedVars, TasksInv, TypeOK
<1>6. QED
    BY <1>3, <1>4, <1>5, TypeStep

LEMMA ResetInv ==
    ASSUME TasksInv, ResetProject
    PROVE  TasksInv'
<1> DEFINE g == [NoJob EXCEPT !.s.state = "gone"]
<1>1. JobInv(g)
    BY GoneInv
<1>2. job' = [r \in Results |-> IF r \in Known THEN g ELSE job[r]]
    BY DEF ResetProject
<1> HIDE DEF g
<1>3. JobsKept
    BY <1>1, <1>2 DEF JobsKept, JobInv, TasksInv
<1>4. users' \in 0..MaxUser
    BY TasksAssumption DEF ResetProject, Command, TasksInv, TypeOK
<1>5. /\ {mustSchedule', mustEnforce', suspended'} \subseteq BOOLEAN
      /\ scheduled' \in SUBSET Results /\ phase' = "idle"
    BY DEF ResetProject, Command, TasksInv, TypeOK
<1>6. QED
    BY <1>3, <1>4, <1>5, TypeStep

LEMMA AbortResultInv ==
    ASSUME TasksInv, NEW r \in Results, AbortResult(r)
    PROVE  TasksInv'
<1> DEFINE j == Aborted(job[r], "aborted")
<1>1. JobInv(j)
    BY AbortedInv DEF TasksInv
<1>2. job' = [job EXCEPT ![r] = j]
    BY DEF AbortResult, TasksInv, TypeOK
<1> HIDE DEF j
<1>3. JobsKept
    BY <1>1, <1>2, OneJob
<1>4. users' \in 0..MaxUser
    BY TasksAssumption DEF AbortResult, Command, TasksInv, TypeOK
<1>5. /\ {mustSchedule', mustEnforce', suspended'} \subseteq BOOLEAN
      /\ scheduled' \in SUBSET Results /\ phase' = "idle"
    BY DEF AbortResult, Command, TasksInv, TypeOK
<1>6. QED
    BY <1>3, <1>4, <1>5, TypeStep

LEMMA SuspendResultInv ==
    ASSUME TasksInv, NEW r \in Results, NEW susp \in BOOLEAN, SuspendResult(r, susp)
    PROVE  TasksInv'
<1> DEFINE s == [job[r].s EXCEPT !.susp = susp]
           j == [job[r] EXCEPT !.s = s]
<1>1. JobInv(job[r])
    BY DEF TasksInv
<1>2. s \in Result
    BY <1>1, JobParts, ResultFields
<1>3. JobInv(j)
    BY <1>1, <1>2, JobParts
<1>4. job' = [job EXCEPT ![r] = j]
    BY <1>1 DEF SuspendResult, TasksInv, TypeOK, JobInv, Job
<1> HIDE DEF j
<1>5. JobsKept
    BY <1>3, <1>4, OneJob
<1>6. users' \in 0..MaxUser
    BY TasksAssumption DEF SuspendResult, Command, TasksInv, TypeOK
<1>7. /\ {mustSchedule', mustEnforce', suspended'} \subseteq BOOLEAN
      /\ scheduled' \in SUBSET Results /\ phase' = "idle"
    BY DEF SuspendResult, Command, TasksInv, TypeOK
<1>8. QED
    BY <1>5, <1>6, <1>7, TypeStep

\* The process of r does something.
LEMMA ProcessInv ==
    ASSUME TasksInv, NEW r \in Results, NEW t, TaskInv(t), Process(r, t)
    PROVE  TasksInv'
<1> DEFINE j == [job[r] EXCEPT !.t = t]
<1>1. JobInv(job[r])
    BY DEF TasksInv
<1>2. JobInv(j)
    BY <1>1, JobParts
<1>3. job' = [job EXCEPT ![r] = j]
    BY <1>1 DEF Process, TasksInv, TypeOK, JobInv, Job
<1> HIDE DEF j
<1>4. JobsKept
    BY <1>2, <1>3, OneJob
<1>5. /\ {mustSchedule', mustEnforce', suspended'} \subseteq BOOLEAN
      /\ scheduled' \in SUBSET Results /\ phase' = phase /\ users' \in 0..MaxUser
    BY DEF Process, schedVars, TasksInv, TypeOK
<1>6. QED
    BY <1>4, <1>5, TypeStep DEF TasksInv, TypeOK

LEMMA ReadMsgInv ==
    ASSUME TasksInv, NEW r \in Results, ReadMsg(r)
    PROVE  TasksInv'
<1> DEFINE t == job[r].t
           u == [t EXCEPT !.chan = "none", !.pst = Handled(@, t.chan),
                          !.status = IF t.chan = "abort" THEN "error" ELSE "quit"]
<1>1. TaskInv(t)
    BY DEF TasksInv, JobInv
<1>2. t.chan # "none" /\ Process(r, u)
    BY DEF ReadMsg
<1>3. Alive(t)
    BY <1>2 DEF Process
<1>4. u = [t EXCEPT !.chan = "none", !.pst = Handled(@, t.chan),
                    !.status = IF t.chan = "abort" THEN "error" ELSE "quit"]
    OBVIOUS
<1> HIDE DEF t, u
<1>5. TaskInv(u)
    BY <1>1, <1>2, <1>3, <1>4, ReadInv
<1>6. QED
    BY <1>2, <1>5, ProcessInv

LEMMA ProcExitInv ==
    ASSUME TasksInv, NEW r \in Results, ProcExit(r)
    PROVE  TasksInv'
<1> DEFINE t == job[r].t
<1>1. PICK e \in {"done", "quit", "error", "killed"} :
        Process(r, [t EXCEPT !.pst = "zombie", !.status = e])
    BY DEF ProcExit
<1> DEFINE u == [t EXCEPT !.pst = "zombie", !.status = e]
<1>2. TaskInv(t) /\ t \in Task
    BY DEF TasksInv, JobInv, TaskInv
<1>3. Alive(t)
    BY <1>1 DEF Process
<1> HIDE DEF t
<1>4. t.st # "none"
    BY <1>2, <1>3 DEF TaskInv, Alive
<1>5. u \in Task /\ u.st = t.st /\ u.pst = "zombie"
    BY <1>2 DEF Task
<1> HIDE DEF u
<1>6. TaskInv(u)
    BY <1>4, <1>5, DeadTask DEF Alive
<1>7. QED
    BY <1>1, <1>6, ProcessInv DEF u

-----------------------------------------------------------------------------
(***************************************************************************)
(* The theorems.                                                           *)
(***************************************************************************)

LEMMA TasksStepInv == TasksInv /\ [Next]_vars => TasksInv'
<1> SUFFICES ASSUME TasksInv, [Next]_vars PROVE TasksInv'
    OBVIOUS
<1>1. CASE FullPass \/ ShortPass
    BY <1>1, BeginPassInv DEF FullPass, ShortPass
<1>2. CASE \E late \in SUBSET Results : Poll(late)
    BY <1>2, PollInv
<1>3. CASE GarbageCollect
    BY <1>3, GarbageCollectInv
<1>4. CASE UpdateResults
    BY <1>4, UpdateResultsInv
<1>5. CASE FileXfers
    BY <1>5, FileXfersInv
<1>6. CASE HandleFinishedApps
    BY <1>6, HandleFinishedInv
<1>7. CASE ScheduleCpus \/ KeepSchedule
    BY <1>7, ScheduleInv
<1>8. CASE EnforceSchedule
    BY <1>8, EnforceInv
<1>9. CASE SchedulerReply
    BY <1>9, SchedulerReplyInv
<1>10. CASE SetProxy
    BY <1>10, SetProxyInv
<1>11. CASE ResetProject
    BY <1>11, ResetInv
<1>12. CASE \E r \in Results : AbortResult(r)
    BY <1>12, AbortResultInv
<1>13. CASE \E r \in Results : \E susp \in BOOLEAN : SuspendResult(r, susp)
    BY <1>13, SuspendResultInv
<1>14. CASE \E r \in Results : ReadMsg(r)
    BY <1>14, ReadMsgInv
<1>15. CASE \E r \in Results : ProcExit(r)
    BY <1>15, ProcExitInv
<1>16. CASE UNCHANGED vars
    BY <1>16 DEF vars, schedVars, TasksInv, TypeOK
<1>17. QED
    BY <1>1, <1>2, <1>3, <1>4, <1>5, <1>6, <1>7, <1>8, <1>9, <1>10, <1>11,
       <1>12, <1>13, <1>14, <1>15, <1>16 DEF Next

LEMMA TasksInitInv == Init => TasksInv
<1> SUFFICES ASSUME Init PROVE TasksInv
    OBVIOUS
<1>1. JobInv(NoJob) /\ job = [r \in Results |-> NoJob]
    BY NoJobInv DEF Init
<1>2. job \in [Results -> Job] /\ \A r \in Results : JobInv(job[r])
    BY <1>1 DEF JobInv
<1>3. users \in 0..MaxUser
    BY TasksAssumption DEF Init
<1>4. QED
    BY <1>2, <1>3 DEF Init, TasksInv, TypeOK

\* In every reachable state every task keeps the invariant.
LEMMA TasksAlways == Spec => []TasksInv
BY TasksInitInv, TasksStepInv, PTL DEF Spec

\* Every variable keeps its type, for any number of results: in particular a
\* premature exit is never counted past its limit (handle_premature_exit),
\* and the queue of a process only ever holds messages (MSG_QUEUE).
THEOREM TypeCorrect == Spec => []TypeOK
<1>1. TasksInv => TypeOK
    BY DEF TasksInv
<1>2. QED
    BY <1>1, TasksAlways, PTL

\* However the client sends, defers, polls and purges the messages to a
\* process (MSG_QUEUE, suspend, unsuspend, abort_task), and whenever the
\* process reads them, it ends up as its task's state says.
THEOREM MessagesInStep == Spec => []MessagesMatchState
<1>1. TasksInv => MessagesMatchState
    <2> SUFFICES ASSUME TasksInv, NEW r \in Results, Alive(job[r].t)
                 PROVE  InStep(job[r].t)
        BY DEF MessagesMatchState, InStep
    <2>1. QED
        BY DEF TasksInv, JobInv, TaskInv
<1>2. QED
    BY <1>1, TasksAlways, PTL

\* A task that start may fork a process for has none, and a process the
\* client believes to exist has not been waited for (kill_task,
\* check_app_exited, handle_premature_exit).
THEOREM OneProcessEach == Spec => []OneProcess
<1>1. TasksInv => OneProcess
    BY DEF TasksInv, JobInv, TaskInv, OneProcess
<1>2. QED
    BY <1>1, TasksAlways, PTL

-----------------------------------------------------------------------------
(***************************************************************************)
(* The life of a result.                                                   *)
(***************************************************************************)

\* The client has the result.
Here(j) == j.s.state \notin {"unsent", "gone"}

\* What is reported and acknowledged of a result s is still so of u.
Reports(s, u) ==
    /\ u \in Result /\ u.state \notin {"unsent", "gone"}
    /\ s.ready => u.ready
    /\ u.ack = s.ack

\* From j to k the result stays, and is neither acknowledged nor
\* taken back; one that the client does not have gets no task.
Goes(j, k) ==
    IF Here(j) THEN Reports(j.s, k.s) ELSE k.s = j.s /\ k.t.st = "none"

\* Only a result that the client has may have a task, be ready or be
\* acknowledged, and only a ready one is acknowledged.
Grounded(j) ==
    /\ ~Here(j) => j.t.st = "none" /\ ~j.s.ready
    /\ j.s.ack => j.s.ready

LifeInv == TasksInv /\ \A r \in Results : Grounded(job[r])

LEMMA GoesSelf ==
    ASSUME NEW j, JobInv(j), Grounded(j)
    PROVE  Goes(j, j)
BY DEF Goes, Grounded, Here, Reports, JobInv, Job

LEMMA GoesTrans ==
    ASSUME NEW i, NEW j, NEW k, Goes(i, j), Goes(j, k)
    PROVE  Goes(i, k)
BY DEF Goes, Here, Reports

LEMMA GoesGrounded ==
    ASSUME NEW j, NEW k, Grounded(j), Goes(j, k)
    PROVE  Grounded(k)
<1>1. CASE Here(j)
    BY <1>1 DEF Goes, Grounded, Here, Reports
<1>2. CASE ~Here(j)
    BY <1>2 DEF Goes, Grounded, Here
<1>3. QED
    BY <1>1, <1>2

\* A step that concerns the task alone.
LEMMA TaskGoes ==
    ASSUME NEW j, JobInv(j), Grounded(j), NEW t, j.t.st = "none" => t.st = "none"
    PROVE  Goes(j, [j EXCEPT !.t = t])
<1> DEFINE k == [j EXCEPT !.t = t]
<1>1. k.s = j.s /\ k.t = t
    BY DEF JobInv, Job
<1> HIDE DEF k
<1>2. j.s \in Result
    BY DEF JobInv, Job
<1>3. Goes(j, k)
    BY <1>1, <1>2 DEF Goes, Grounded, Here, Reports
<1>4. QED
    BY <1>3 DEF k

\* A step of a result that the client has.
LEMMA ResultGoes ==
    ASSUME NEW j, Here(j), NEW k, Reports(j.s, k.s)
    PROVE  Goes(j, k)
BY DEF Goes

LEMMA ReportsSelf ==
    ASSUME NEW s \in Result, s.state \notin {"unsent", "gone"}
    PROVE  /\ Reports(s, s)
           /\ \A st \in {"NEW", "DOWNLOADING", "DOWNLOADED"} \cup Finished :
                Reports(s, [s EXCEPT !.state = st])
           /\ \A e \in {"ok", "err", "aborted"} : Reports(s, [s EXCEPT !.exit = e])
           /\ \A b \in BOOLEAN : Reports(s, [s EXCEPT !.susp = b])
           /\ Reports(s, [s EXCEPT !.ready = TRUE])
<1>1. Reports(s, s)
    BY DEF Reports
<1>2. ASSUME NEW st \in {"NEW", "DOWNLOADING", "DOWNLOADED"} \cup Finished
      PROVE  Reports(s, [s EXCEPT !.state = st])
    <2>1. [s EXCEPT !.state = st] \in Result /\ st \notin {"unsent", "gone"}
        BY ResultFields DEF Finished
    <2>2. QED
        BY <2>1 DEF Reports, Result
<1>3. ASSUME NEW e \in {"ok", "err", "aborted"} PROVE Reports(s, [s EXCEPT !.exit = e])
    BY DEF Reports, Result
<1>4. ASSUME NEW b \in BOOLEAN PROVE Reports(s, [s EXCEPT !.susp = b])
    BY DEF Reports, Result
<1>5. Reports(s, [s EXCEPT !.ready = TRUE])
    BY DEF Reports, Result
<1>6. QED
    BY <1>1, <1>2, <1>3, <1>4, <1>5

LEMMA ReportsTrans ==
    ASSUME NEW s, NEW u, NEW v, Reports(s, u), Reports(u, v)
    PROVE  Reports(s, v)
BY DEF Reports

LEMMA ErrorReports ==
    ASSUME NEW s \in Result, s.state \notin {"unsent", "gone"}
    PROVE  Reports(s, report_result_error(s))
<1> DEFINE st == IF s.state = "DOWNLOADED" THEN "COMPUTE_ERROR" ELSE s.state
           ex == IF s.exit = "ok" /\ s.state \in
                    {"NEW", "DOWNLOADING", "DOWNLOADED", "UPLOADING"}
                 THEN "err" ELSE s.exit
           u == [s EXCEPT !.ready = TRUE, !.state = st, !.exit = ex]
<1>1. st \notin {"unsent", "gone"}
    OBVIOUS
<1>2. report_result_error(s) = IF s.ready THEN s ELSE u
    BY DEF report_result_error, Result
<1>3. report_result_error(s) \in Result
    BY ReportResult
<1> HIDE DEF st, ex
<1>4. u.state = st /\ u.ack = s.ack /\ u.ready = TRUE
    BY DEF Result
<1> HIDE DEF u
<1>5. CASE s.ready
    BY <1>2, <1>5, ReportsSelf
<1>6. CASE ~s.ready
    BY <1>1, <1>2, <1>3, <1>4, <1>6 DEF Reports
<1>7. QED
    BY <1>5, <1>6

LEMMA AbortReports ==
    ASSUME NEW s \in Result, s.state \notin {"unsent", "gone"},
           NEW why \in {"ok", "err", "aborted"}
    PROVE  /\ Reports(s, abort_inactive(s, why))
           /\ Reports(s, [report_result_error([s EXCEPT !.exit = why])
                          EXCEPT !.state = "ABORTED"])
           /\ Reports(s, report_result_error([s EXCEPT !.exit = why]))
<1> DEFINE a == [s EXCEPT !.exit = why]
           b == report_result_error(a)
           c == [b EXCEPT !.state = "ABORTED"]
           d == [s EXCEPT !.state = "ABORTED", !.exit = why]
<1>1. Reports(s, a)
    BY ReportsSelf
<1> HIDE DEF a
<1>2. Reports(a, b)
    BY <1>1, ErrorReports DEF Reports
<1> HIDE DEF b
<1>3. Reports(b, c) /\ Reports(a, [a EXCEPT !.state = "ABORTED"])
    <2>1. /\ b \in Result /\ b.state \notin {"unsent", "gone"}
          /\ a \in Result /\ a.state \notin {"unsent", "gone"}
        BY <1>1, <1>2 DEF Reports
    <2>2. "ABORTED" \in Finished
        BY DEF Finished
    <2>3. QED
        BY <2>1, <2>2, ReportsSelf
<1> HIDE DEF c
<1>4. Reports(s, b) /\ Reports(s, c)
    BY <1>1, <1>2, <1>3, ReportsTrans
<1>5. Reports(s, d)
    <2>1. d = [a EXCEPT !.state = "ABORTED"]
        BY DEF a
    <2>2. QED
        BY <1>1, <1>3, <2>1, ReportsTrans
<1> HIDE DEF d
<1>6. abort_inactive(s, why) = IF s.state \in Finished THEN s ELSE d
    BY DEF abort_inactive, d
<1>7. Reports(s, abort_inactive(s, why))
    BY <1>5, <1>6, ReportsSelf
<1>8. QED
    BY <1>4, <1>7 DEF a, b, c

\* abort_task, for a task that exists.
LEMMA AbortGoes ==
    ASSUME NEW j, JobInv(j), Here(j), NEW why \in {"ok", "err", "aborted"}
    PROVE  Goes(j, abort_task(j, why)) /\ Goes(j, Aborted(j, why))
<1>1. j.s \in Result /\ j.s.state \notin {"unsent", "gone"}
    BY DEF JobInv, Job, Here
<1> DEFINE s == [report_result_error([j.s EXCEPT !.exit = why])
                 EXCEPT !.state = "ABORTED"]
           t == IF j.t.st \in {"EXECUTING", "SUSPENDED"}
                THEN [msg_queue_send(j.t, "abort") EXCEPT !.st = "ABORT_PENDING"]
                ELSE [j.t EXCEPT !.st = "ABORTED"]
<1>2. abort_task(j, why) = [j EXCEPT !.t = t, !.s = s]
    BY DEF abort_task, JobInv, Job
<1>3. Goes(j, abort_task(j, why))
    <2>1. Reports(j.s, s)
        BY <1>1, AbortReports
    <2> HIDE DEF s, t
    <2>2. abort_task(j, why).s = s
        BY <1>2 DEF JobInv, Job
    <2>3. QED
        BY <2>1, <2>2, ResultGoes
<1>4. [j EXCEPT !.s = abort_inactive(j.s, why)].s = abort_inactive(j.s, why)
    BY DEF JobInv, Job
<1>5. Goes(j, [j EXCEPT !.s = abort_inactive(j.s, why)])
    BY <1>1, <1>4, AbortReports, ResultGoes
<1>6. Aborted(j, why) \in {[j EXCEPT !.s = abort_inactive(j.s, why)], abort_task(j, why)}
    BY DEF Aborted
<1>7. QED
    BY <1>3, <1>5, <1>6

LEMMA PrematureReports ==
    ASSUME NEW j \in Job, Here(j)
    PROVE  Reports(j.s, handle_premature_exit(j).s)
<1>1. j.s \in Result /\ j.s.state \notin {"unsent", "gone"}
    BY DEF Job, Here
<1> DEFINE s == [report_result_error([j.s EXCEPT !.exit = "err"])
                 EXCEPT !.state = "ABORTED"]
<1>2. Reports(j.s, s) /\ Reports(j.s, j.s)
    BY <1>1, AbortReports, ReportsSelf
<1> HIDE DEF s
<1>3. CASE j.t.st = "QUIT_PENDING"
    <2>1. handle_premature_exit(j).s = j.s
        BY <1>3 DEF handle_premature_exit, Job
    <2>2. QED
        BY <1>2, <2>1
<1>4. CASE j.t.st # "QUIT_PENDING" /\ j.t.exits < MaxExits
    <2>1. handle_premature_exit(j).s = j.s
        BY <1>4 DEF handle_premature_exit, Job
    <2>2. QED
        BY <1>2, <2>1
<1>5. CASE j.t.st # "QUIT_PENDING" /\ ~(j.t.exits < MaxExits)
    <2>1. handle_premature_exit(j) = [j EXCEPT !.t.st = "ABORTED", !.s = s]
        BY <1>5 DEF handle_premature_exit, Job, s
    <2>2. handle_premature_exit(j).s = s
        BY <2>1 DEF Job
    <2>3. QED
        BY <1>2, <2>2
<1>6. QED
    BY <1>3, <1>4, <1>5

LEMMA ExitReports ==
    ASSUME NEW j \in Job, Here(j)
    PROVE  Reports(j.s, handle_exited_app(j).s)
<1>1. /\ j.s \in Result /\ j.s.state \notin {"unsent", "gone"}
      /\ j.t.status \in {"done", "quit", "error", "killed"}
    BY DEF Job, Task, Here
<1> DEFINE okS == [j.s EXCEPT !.exit = "ok"]
           badS == report_result_error([j.s EXCEPT !.exit = "err"])
           ok == [j EXCEPT !.s = okS]
<1>2. Reports(j.s, okS) /\ Reports(j.s, badS) /\ Reports(j.s, j.s)
    BY <1>1, AbortReports, ReportsSelf
<1>3. CASE j.t.st = "ABORT_PENDING" \/ j.t.status = "killed"
    <2>1. handle_exited_app(j).s = j.s
        BY <1>3 DEF handle_exited_app, Job
    <2>2. QED
        BY <1>2, <2>1
<1>4. CASE j.t.st # "ABORT_PENDING" /\ j.t.status = "done"
    <2>1. handle_exited_app(j) = [ok EXCEPT !.t.st = "EXITED"]
        BY <1>4 DEF handle_exited_app, Job
    <2>2. handle_exited_app(j).s = okS
        BY <2>1 DEF Job
    <2>3. QED
        BY <1>2, <2>2
<1>5. CASE j.t.st # "ABORT_PENDING" /\ j.t.status = "quit"
    <2>1. handle_exited_app(j) = handle_premature_exit(ok)
        BY <1>5 DEF handle_exited_app, Job
    <2>2. okS \in Result /\ okS.state = j.s.state
        BY <1>1 DEF Result
    <2> HIDE DEF okS
    <2>3. ok \in Job /\ ok.s = okS /\ Here(ok)
        BY <1>1, <2>2 DEF Job, Here
    <2> HIDE DEF ok
    <2>4. Reports(okS, handle_premature_exit(ok).s)
        BY <2>3, PrematureReports
    <2>5. QED
        BY <1>2, <2>1, <2>4, ReportsTrans
<1>6. CASE j.t.st # "ABORT_PENDING" /\ j.t.status = "error"
    <2>1. handle_exited_app(j) = [[j EXCEPT !.s = badS] EXCEPT !.t.st = "EXITED"]
        BY <1>6 DEF handle_exited_app, Job
    <2> HIDE DEF badS
    <2>2. handle_exited_app(j).s = badS
        BY <2>1 DEF Job
    <2>3. QED
        BY <1>2, <2>2
<1>7. QED
    BY <1>1, <1>3, <1>4, <1>5, <1>6

LEMMA CheckExitedGoes ==
    ASSUME NEW j, JobInv(j), Here(j), NEW ckpt \in BOOLEAN
    PROVE  Goes(j, check_app_exited(j, ckpt))
<1> DEFINE c == j.t.ckpt \/ (ckpt /\ process_exists(j.t))
           k == [j EXCEPT !.t.ckpt = c]
           g == handle_exited_app(k)
<1>1. k \in Job /\ k.s = j.s
    <2>1. c \in BOOLEAN /\ j \in Job /\ j.t \in Task
        BY JobParts
    <2> HIDE DEF c
    <2>2. [j.t EXCEPT !.ckpt = c] \in Task
        BY <2>1 DEF Task
    <2>3. k = [j EXCEPT !.t = [j.t EXCEPT !.ckpt = c]]
        BY <2>1 DEF Job
    <2>4. QED
        BY <2>1, <2>2, <2>3 DEF Job
<1>2. check_app_exited(j, ckpt) =
        [g EXCEPT !.t = [cleanup_task(@) EXCEPT !.pst = "none", !.status = "quit"]]
    BY DEF check_app_exited
<1> HIDE DEF k
<1>3. g \in Job /\ Reports(k.s, g.s)
    BY <1>1, ExitedApp, ExitReports DEF Here
<1> HIDE DEF g
<1>4. check_app_exited(j, ckpt).s = g.s
    BY <1>2, <1>3 DEF Job
<1>5. QED
    BY <1>1, <1>3, <1>4, ResultGoes

-----------------------------------------------------------------------------
\* start and the CPU schedule.
LEMMA StartGoes ==
    ASSUME NEW j, JobInv(j), Here(j), NEW how \in StartResults
    PROVE  Goes(j, start(j, how))
<1>1. j \in Job /\ j.s \in Result /\ j.s.state \notin {"unsent", "gone"}
    BY JobParts DEF Here
<1> DEFINE d == [j.s EXCEPT !.state = "DOWNLOADING"]
           e == report_result_error(j.s)
           a == [j.t EXCEPT !.q = <<>>, !.block = FALSE]
<1>2. Reports(j.s, j.s) /\ Reports(j.s, d) /\ Reports(j.s, e)
    BY <1>1, ReportsSelf, ErrorReports
<1>3. start(j, how).s \in {j.s, d, e}
    <2>1. CASE how = "files"
        <3>1. start(j, how) = [j EXCEPT !.f = "missing", !.s = d]
            BY <1>1, <2>1 DEF start, Job
        <3> HIDE DEF d
        <3>2. QED
            BY <1>1, <3>1 DEF Job
    <2>2. CASE how = "shmem"
        BY <1>1, <2>2 DEF start, Job
    <2>3. CASE how = "error"
        <3>1. start(j, how) = [j EXCEPT !.t = [a EXCEPT !.st = "COULDNT_START"], !.s = e]
            BY <1>1, <2>3 DEF start, Job
        <3> HIDE DEF e, a
        <3>2. QED
            BY <1>1, <3>1 DEF Job
    <2>4. CASE how = "forked"
        BY <1>1, <2>4 DEF start, Job
    <2>5. QED
        BY <2>1, <2>2, <2>3, <2>4 DEF StartResults
<1>4. QED
    BY <1>2, <1>3, ResultGoes

LEMMA RunGoes ==
    ASSUME NEW j, JobInv(j), Here(j), NEW how \in StartResults
    PROVE  Goes(j, run_task(j, how))
<1>1. j \in Job /\ j.t \in Task
    BY JobParts
<1> DEFINE new == IF j.t.st = "none" THEN [j EXCEPT !.t.st = "UNINITIALIZED"]
                  ELSE j
           begun == start(new, how)
<1>2. new.s = j.s /\ new \in Job
    BY <1>1 DEF Job, Task
<1>3. JobInv(new) /\ Here(new)
    <2>1. CASE j.t.st = "none"
        <3> DEFINE u == [j.t EXCEPT !.st = "UNINITIALIZED"]
        <3>1. u \in Task /\ u.st = "UNINITIALIZED" /\ u.pst = "none"
            BY <1>1, <2>1 DEF Task, TaskInv, JobInv
        <3>2. new.t = u
            BY <1>1, <2>1 DEF Job
        <3> HIDE DEF u
        <3>3. TaskInv(u)
            BY <3>1, DeadTask DEF Alive, process_exists, Existing, Pending
        <3>4. QED
            BY <1>2, <3>2, <3>3 DEF JobInv, Here
    <2>2. QED
        BY <1>2, <2>1 DEF Here
<1>4. run_task(j, how) =
        CASE new.t.st = "SUSPENDED" ->
               [new EXCEPT !.t = [unsuspend(@) EXCEPT !.sched = TRUE]]
          [] new.t.st = "UNINITIALIZED" /\ how = "forked" ->
               [start(new, how) EXCEPT !.t.sched = TRUE]
          [] new.t.st = "UNINITIALIZED" /\ how # "forked" -> start(new, how)
          [] OTHER -> [new EXCEPT !.t.sched = TRUE]
    BY DEF run_task
<1> HIDE DEF new
<1>5. Reports(j.s, new.s) /\ Reports(j.s, begun.s)
    <2>1. Goes(new, begun)
        BY <1>3, StartGoes
    <2>2. Reports(new.s, begun.s)
        BY <1>3, <2>1 DEF Goes
    <2>3. Reports(new.s, new.s)
        BY <1>2, <1>3, ReportsSelf DEF Job, Here
    <2>4. QED
        BY <1>2, <2>2, <2>3
<1>6. CASE new.t.st = "UNINITIALIZED"
    <2>1. begun \in Job
        BY <1>3, <1>6, StartInv DEF JobInv
    <2>2. [begun EXCEPT !.t.sched = TRUE].s = begun.s
        BY <2>1 DEF Job
    <2>3. run_task(j, how).s = begun.s
        BY <1>4, <1>6, <2>2
    <2>4. QED
        BY <1>5, <2>3, ResultGoes
<1>7. CASE new.t.st # "UNINITIALIZED"
    <2>1. run_task(j, how).s = new.s
        BY <1>2, <1>4, <1>7 DEF Job
    <2>2. QED
        BY <1>5, <2>1, ResultGoes
<1>8. QED
    BY <1>6, <1>7

LEMMA StopGoes ==
    ASSUME NEW j, JobInv(j), Grounded(j), NEW quit \in BOOLEAN
    PROVE  Goes(j, stop_task(j, quit))
<1>1. CASE j.t.st = "none"
    <2>1. stop_task(j, quit) = j
        BY <1>1 DEF stop_task
    <2>2. QED
        BY <2>1, GoesSelf
<1>2. CASE j.t.st # "none"
    <2>1. stop_task(j, quit).s = j.s
        BY <1>2 DEF stop_task, JobInv, Job
    <2>2. Here(j) /\ j.s \in Result
        BY <1>2 DEF Grounded, JobInv, Job
    <2>3. QED
        BY <2>1, <2>2, ReportsSelf, ResultGoes DEF Here
<1>3. QED
    BY <1>1, <1>2

-----------------------------------------------------------------------------
\* ACTIVE_TASK_SET::poll, for one task.
LEMMA PolledGoes ==
    ASSUME NEW j, JobInv(j), Grounded(j), NEW b \in BOOLEAN
    PROVE  /\ Goes(j, [j EXCEPT !.t = process_control_poll(j.t, b)])
           /\ Goes(j, [j EXCEPT !.t = get_msgs(j.t, b)])
           /\ Goes(j, [j EXCEPT !.t = kill_late(j.t)])
           /\ Goes(j, check_rsc_limits_exceeded(j, b))
<1>1. j.t.st = "none" => /\ process_control_poll(j.t, b).st = "none"
                         /\ get_msgs(j.t, b).st = "none"
                         /\ kill_late(j.t).st = "none"
    BY DEF process_control_poll, get_msgs, kill_late, process_exists, Existing, Pending
<1>2. Goes(j, check_rsc_limits_exceeded(j, b))
    <2>1. CASE b /\ j.t.st = "EXECUTING"
        <3>1. Here(j)
            BY <2>1 DEF Grounded
        <3>2. check_rsc_limits_exceeded(j, b) = abort_task(j, "err")
            BY <2>1 DEF check_rsc_limits_exceeded
        <3>3. QED
            BY <3>1, <3>2, AbortGoes
    <2>2. CASE ~(b /\ j.t.st = "EXECUTING")
        <3>1. check_rsc_limits_exceeded(j, b) = j
            BY <2>2 DEF check_rsc_limits_exceeded
        <3>2. QED
            BY <3>1, GoesSelf
    <2>3. QED
        BY <2>1, <2>2
<1>3. QED
    BY <1>1, <1>2, TaskGoes

LEMMA PollGoes ==
    ASSUME LifeInv, NEW late \in SUBSET Results, Poll(late), NEW r \in Results
    PROVE  Goes(job[r], job'[r])
<1>1. PICK exited \in SUBSET {x \in Results : job[x].t.pst = "zombie"},
           hung \in SUBSET Results,
           ckpt \in SUBSET Results, over \in SUBSET Results :
             PollWith(exited, hung, ckpt, over, late)
    BY DEF Poll
<1> DEFINE e == r \in exited
           h == r \in hung
           c == r \in ckpt
           o == r \in over
           l == r \in late
           reaped == IF e THEN check_app_exited(job[r], c) ELSE job[r]
           sent == [reaped EXCEPT !.t = process_control_poll(reaped.t, h)]
           limited == check_rsc_limits_exceeded(sent, o)
           polled == [limited EXCEPT !.t = get_msgs(limited.t, c)]
           last == [polled EXCEPT !.t = kill_late(polled.t)]
<1>2. job'[r] = IF l THEN last ELSE polled
    BY <1>1 DEF PollWith
<1>3. /\ h \in BOOLEAN /\ c \in BOOLEAN /\ o \in BOOLEAN
      /\ e => job[r].t.pst = "zombie"
    OBVIOUS
<1> HIDE DEF e, h, c, o, l
<1>4. JobInv(job[r]) /\ Grounded(job[r])
    BY DEF LifeInv, TasksInv
<1>5. JobInv(reaped) /\ Goes(job[r], reaped) /\ Grounded(reaped)
    <2>1. CASE e
        <3>1. job[r].t.st # "none"
            BY <1>3, <1>4, <2>1 DEF JobInv, TaskInv
        <3>2. Here(job[r])
            BY <1>4, <3>1 DEF Grounded
        <3>3. JobInv(reaped) /\ Goes(job[r], reaped)
            BY <1>3, <1>4, <2>1, <3>2, CheckExitedInv, CheckExitedGoes
        <3>4. QED
            BY <1>4, <3>3, GoesGrounded
    <2>2. QED
        BY <1>4, <2>1, GoesSelf
<1> HIDE DEF reaped
<1>6. JobInv(sent) /\ Goes(job[r], sent) /\ Grounded(sent)
    <2>1. TaskInv(process_control_poll(reaped.t, h))
        BY <1>3, <1>5, JobParts, ControlPollInv
    <2>2. JobInv(sent)
        BY <1>5, <2>1, JobParts
    <2>3. Goes(reaped, sent)
        BY <1>3, <1>5, PolledGoes
    <2> HIDE DEF sent
    <2>4. QED
        BY <1>5, <2>2, <2>3, GoesTrans, GoesGrounded
<1> HIDE DEF sent
<1>7. JobInv(limited) /\ Goes(job[r], limited) /\ Grounded(limited)
    <2>1. JobInv(limited) /\ Goes(sent, limited)
        BY <1>3, <1>6, LimitInv, PolledGoes
    <2> HIDE DEF limited
    <2>2. QED
        BY <1>6, <2>1, GoesTrans, GoesGrounded
<1> HIDE DEF limited
<1>8. JobInv(polled) /\ Goes(job[r], polled) /\ Grounded(polled)
    <2>1. TaskInv(get_msgs(limited.t, c))
        BY <1>3, <1>7, JobParts, GetMsgsInv
    <2>2. JobInv(polled)
        BY <1>7, <2>1, JobParts
    <2>3. Goes(limited, polled)
        BY <1>3, <1>7, PolledGoes
    <2> HIDE DEF polled
    <2>4. QED
        BY <1>7, <2>2, <2>3, GoesTrans, GoesGrounded
<1> HIDE DEF polled
<1>9. Goes(job[r], last)
    <2>1. Goes(polled, last)
        BY <1>3, <1>8, PolledGoes
    <2> HIDE DEF last
    <2>2. QED
        BY <1>8, <2>1, GoesTrans
<1>10. QED
    BY <1>2, <1>8, <1>9

-----------------------------------------------------------------------------
\* The other functions of a pass, for one job.
LEMMA FailedGoes ==
    ASSUME NEW j, JobInv(j), Here(j)
    PROVE  Goes(j, garbage_collect_failed(j))
<1> DEFINE R(k) == [k EXCEPT !.s = report_result_error(k.s)]
<1>1. ASSUME NEW k, JobInv(k), Here(k)
      PROVE  JobInv(R(k)) /\ Goes(k, R(k)) /\ Here(R(k))
    <2>1. report_result_error(k.s) \in Result /\ Reports(k.s, report_result_error(k.s))
        BY <1>1, JobParts, ReportResult, ErrorReports DEF Here
    <2>2. JobInv(R(k))
        BY <1>1, <2>1, JobParts
    <2>3. R(k).s = report_result_error(k.s)
        BY <1>1 DEF JobInv, Job
    <2> HIDE DEF R
    <2>4. QED
        BY <1>1, <2>1, <2>2, <2>3, ResultGoes DEF Here, Reports
<1>2. ASSUME NEW k, JobInv(k), Here(k)
      PROVE  /\ JobInv(abort_task(k, "err")) /\ Goes(k, abort_task(k, "err"))
             /\ Here(abort_task(k, "err"))
    <2>1. JobInv(abort_task(k, "err")) /\ Goes(k, abort_task(k, "err"))
        BY <1>2, AbortTaskInv, AbortGoes
    <2>2. QED
        BY <1>2, <2>1 DEF Goes, Here, Reports
<1> DEFINE in == IF j.f = "failed" THEN R(j) ELSE j
           out == IF in.t.st \in {"EXECUTING", "SUSPENDED"}
                  THEN abort_task(in, "err") ELSE in
<1>3. garbage_collect_failed(j) = IF in.o = "failed" /\ ~in.s.ready THEN R(out) ELSE in
    BY DEF garbage_collect_failed
<1>4. ASSUME NEW k, JobInv(k), Here(k) PROVE Goes(k, k)
    BY <1>4, ReportsSelf DEF Goes, JobInv, Job, Here
<1> HIDE DEF R
<1>5. JobInv(in) /\ Here(in) /\ Goes(j, in)
    BY <1>1, <1>4
<1> HIDE DEF in
<1>6. JobInv(out) /\ Here(out) /\ Goes(j, out)
    <2>1. JobInv(out) /\ Here(out) /\ Goes(in, out)
        BY <1>2, <1>4, <1>5
    <2> HIDE DEF out
    <2>2. QED
        BY <1>5, <2>1, GoesTrans
<1> HIDE DEF out
<1>7. Goes(j, R(out))
    BY <1>1, <1>6, GoesTrans
<1>8. QED
    BY <1>3, <1>5, <1>7

LEMMA UpdateGoes ==
    ASSUME NEW j, JobInv(j), Grounded(j), NEW copies
    PROVE  Goes(j, update_result(j, copies))
<1>1. j \in Job /\ j.s \in Result
    BY JobParts
<1>2. CASE ~Here(j)
    <2>1. update_result(j, copies) = j
        BY <1>2 DEF update_result, Here
    <2>2. QED
        BY <2>1, GoesSelf
<1>3. CASE Here(j)
    <2> DEFINE S(st) == [j.s EXCEPT !.state = st]
               u == [j.s EXCEPT !.state = "UPLOADED", !.ready = TRUE]
               a == [j.s EXCEPT !.ready = TRUE]
    <2>1. update_result(j, copies).s \in
              {S("DOWNLOADING"), S("DOWNLOADED"), S("UPLOADING"), u, a, j.s}
        BY <1>1 DEF update_result, Job
    <2>2. /\ Reports(j.s, S("DOWNLOADING")) /\ Reports(j.s, S("DOWNLOADED"))
          /\ Reports(j.s, a) /\ Reports(j.s, j.s)
        BY <1>1, <1>3, ReportsSelf DEF Here
    <2>3. Reports(j.s, u) /\ Reports(j.s, S("UPLOADING"))
        BY <1>1, <1>3 DEF Reports, Result, Finished
    <2> HIDE DEF S, u, a
    <2>4. QED
        BY <1>3, <2>1, <2>2, <2>3, ResultGoes
<1>4. QED
    BY <1>2, <1>3

LEMMA TransferGoes ==
    ASSUME NEW j, JobInv(j), Grounded(j), NEW k \in Transferred(j)
    PROVE  Goes(j, k)
<1>1. PICK f, o : k = WithFiles(j, f, o)
    BY DEF Transferred
<1>2. k.s = j.s /\ k.t = j.t
    BY <1>1 DEF WithFiles, JobInv, Job
<1>3. QED
    BY <1>2 DEF Goes, Grounded, Here, Reports, JobInv, Job

LEMMA FinishedGoes ==
    ASSUME NEW j, JobInv(j), Here(j), NEW o
    PROVE  Goes(j, app_finished(j, o))
<1>1. j \in Job /\ j.s \in Result
    BY JobParts
<1> DEFINE had_error == j.s.exit # "ok" \/ (Scanned(j) /\ o = "failed")
           st == IF ~had_error THEN "UPLOADING"
                 ELSE IF j.s.exit = "aborted" THEN "ABORTED" ELSE "COMPUTE_ERROR"
           s == [j.s EXCEPT !.state = st]
           p == IF Scanned(j) THEN o ELSE j.o
<1>2. app_finished(j, o) = [j EXCEPT !.t = NoTask, !.o = p, !.s = s]
    BY <1>1 DEF app_finished, Job
<1>3. st \in Finished
    BY DEF Finished
<1> HIDE DEF st, p
<1>4. Reports(j.s, s)
    BY <1>1, <1>3, ReportsSelf DEF Here
<1> HIDE DEF s
<1>5. app_finished(j, o).s = s
    BY <1>1, <1>2 DEF Job
<1>6. QED
    BY <1>4, <1>5, ResultGoes

-----------------------------------------------------------------------------
\* What a step other than a reset may do with a job: leave the stage of the
\* result or make it ready, receive it, acknowledge it, delete it.
Arrives(j, k) == j.s.state = "unsent" /\ Here(k) /\ ~k.s.ready /\ ~k.s.ack
Accepts(j, k) == Here(j) /\ Here(k) /\ j.s.ready /\ k.s.ready /\ k.s.ack
Drops(j, k) ==
    /\ Here(j) /\ j.s.ack
    /\ k.s.state = "gone" /\ k.t.st = "none" /\ ~k.s.ready /\ ~k.s.ack
Ages(j, k) == Goes(j, k) \/ Arrives(j, k) \/ Accepts(j, k) \/ Drops(j, k)

LEMMA AgesGrounded ==
    ASSUME NEW j, Grounded(j), NEW k, Ages(j, k)
    PROVE  Grounded(k)
<1>1. CASE Goes(j, k)
    BY <1>1, GoesGrounded
<1>2. CASE Arrives(j, k)
    BY <1>2 DEF Arrives, Grounded
<1>3. CASE Accepts(j, k)
    BY <1>3 DEF Accepts, Grounded
<1>4. CASE Drops(j, k)
    BY <1>4 DEF Drops, Grounded
<1>5. QED
    BY <1>1, <1>2, <1>3, <1>4 DEF Ages

LEMMA AgesMoves ==
    ASSUME NEW j \in Job, Grounded(j), NEW k \in Job, Ages(j, k)
    PROVE  /\ Stage(k.s) \in Life!Stages
           /\ Stage(k.s) # Stage(j.s) => <<Stage(j.s), Stage(k.s)>> \in Life!Moves
<1>1. /\ j.s.ready \in BOOLEAN /\ j.s.ack \in BOOLEAN
      /\ k.s.ready \in BOOLEAN /\ k.s.ack \in BOOLEAN
    BY DEF Job, Result
<1>2. Stage(k.s) \in Life!Stages
    BY DEF Stage, Life!Stages
<1>3. CASE Goes(j, k) /\ Here(j)
    <2>1. /\ Stage(j.s) = IF j.s.ack THEN "acked" ELSE IF j.s.ready THEN "ready" ELSE "held"
          /\ Stage(k.s) = IF k.s.ack THEN "acked" ELSE IF k.s.ready THEN "ready" ELSE "held"
          /\ k.s.ack = j.s.ack /\ (j.s.ready => k.s.ready)
        BY <1>3 DEF Goes, Here, Reports, Stage
    <2>2. QED
        BY <1>1, <1>2, <2>1 DEF Life!Moves
<1>4. CASE Goes(j, k) /\ ~Here(j)
    BY <1>2, <1>4 DEF Goes
<1>5. CASE Arrives(j, k)
    <2>1. Stage(j.s) = "unsent" /\ Stage(k.s) = "held"
        BY <1>5 DEF Arrives, Here, Stage
    <2>2. QED
        BY <1>2, <2>1 DEF Life!Moves
<1>6. CASE Accepts(j, k)
    <2>1. Stage(j.s) \in {"ready", "acked"} /\ Stage(k.s) = "acked"
        BY <1>6 DEF Accepts, Here, Stage
    <2>2. QED
        BY <1>2, <2>1 DEF Life!Moves
<1>7. CASE Drops(j, k)
    <2>1. Stage(j.s) = "acked" /\ Stage(k.s) = "dropped"
        BY <1>7 DEF Drops, Here, Stage
    <2>2. QED
        BY <1>2, <2>1 DEF Life!Moves
<1>8. QED
    BY <1>3, <1>4, <1>5, <1>6, <1>7 DEF Ages

\* A step in which every result ages.
Aging == \A r \in Results : Ages(job[r], job'[r])

LEMMA SameAging ==
    ASSUME LifeInv, job' = job
    PROVE  Aging
BY GoesSelf DEF LifeInv, TasksInv, Aging, Ages

LEMMA BeginPassAging ==
    ASSUME LifeInv, NEW first, BeginPass(first)
    PROVE  Aging
<1>0. ASSUME NEW r \in Results PROVE JobInv(job[r]) /\ Grounded(job[r])
    BY DEF LifeInv, TasksInv
<1>1. CASE job' = job
    BY <1>1, SameAging
<1>2. ASSUME NEW quit \in BOOLEAN, suspend_all(quit), NEW r \in Results
      PROVE  Goes(job[r], job'[r])
    <2> DEFINE u == preempt(job[r].t, quit)
    <2>1. job'[r] = IF job[r].t.st # "EXECUTING" THEN job[r] ELSE [job[r] EXCEPT !.t = u]
        BY <1>0, <1>2 DEF suspend_all
    <2> HIDE DEF u
    <2>2. CASE job[r].t.st = "EXECUTING"
        BY <1>0, <2>1, <2>2, TaskGoes
    <2>3. CASE job[r].t.st # "EXECUTING"
        BY <1>0, <2>1, <2>3, GoesSelf
    <2>4. QED
        BY <2>2, <2>3
<1>3. ASSUME unsuspend_all, NEW r \in Results PROVE Goes(job[r], job'[r])
    <2>1. PICK how \in [Results -> StartResults] :
            job' = [q \in Results |->
                     CASE ~job[q].t.sched -> job[q]
                       [] job[q].t.sched /\ job[q].t.st = "UNINITIALIZED" ->
                            start(job[q], how[q])
                       [] job[q].t.sched /\ job[q].t.st = "SUSPENDED" ->
                            [job[q] EXCEPT !.t = unsuspend(@)]
                       [] OTHER -> job[q]]
        BY <1>3 DEF unsuspend_all
    <2> DEFINE u == unsuspend(job[r].t)
    <2>2. CASE job[r].t.st = "UNINITIALIZED"
        <3>1. job'[r] \in {job[r], start(job[r], how[r])}
            BY <2>1, <2>2
        <3>2. Here(job[r])
            BY <1>0, <2>2 DEF Grounded
        <3>3. Goes(job[r], start(job[r], how[r]))
            BY <1>0, <3>2, StartGoes
        <3>4. QED
            BY <1>0, <3>1, <3>3, GoesSelf
    <2>3. CASE job[r].t.st = "SUSPENDED"
        <3>1. job'[r] \in {job[r], [job[r] EXCEPT !.t = u]}
            BY <1>0, <2>1, <2>3
        <3> HIDE DEF u
        <3>2. Goes(job[r], [job[r] EXCEPT !.t = u])
            BY <1>0, <2>3, TaskGoes
        <3>3. QED
            BY <1>0, <3>1, <3>2, GoesSelf
    <2>4. CASE job[r].t.st \notin {"UNINITIALIZED", "SUSPENDED"}
        <3>1. job'[r] = job[r]
            BY <2>1, <2>4
        <3>2. QED
            BY <1>0, <3>1, GoesSelf
    <2>5. QED
        BY <2>2, <2>3, <2>4
<1>4. QED
    BY <1>1, <1>2, <1>3 DEF BeginPass, Aging, Ages

\* Garbage collection drops what is acknowledged and has no task.
LEMMA GarbageAging ==
    ASSUME LifeInv, GarbageCollect
    PROVE  Aging
<1> SUFFICES ASSUME NEW r \in Results PROVE Ages(job[r], job'[r])
    BY DEF Aging
<1>1. PICK late \in SUBSET {x \in Known : not_started(job[x])} :
        job' = [x \in Results |->
                  IF late # {}
                  THEN IF x \notin late THEN job[x]
                       ELSE [job[x] EXCEPT !.s = abort_inactive(@, "err")]
                  ELSE IF x \notin Known THEN job[x]
                  ELSE garbage_collect_failed(garbage_collect_acked(job[x]))]
    BY DEF GarbageCollect
<1> DEFINE j == job[r]
           A == [j EXCEPT !.s = abort_inactive(j.s, "err")]
           c == garbage_collect_acked(j)
           G == garbage_collect_failed(c)
<1>2. JobInv(j) /\ Grounded(j)
    BY DEF LifeInv, TasksInv
<1>3. /\ job'[r] \in {j, A, G}
      /\ job'[r] = j \/ Here(j)
    BY <1>1, <1>2 DEF Known, Here
<1> HIDE DEF j
<1>4. CASE job'[r] = j
    BY <1>2, <1>4, GoesSelf DEF Ages, j
<1>5. CASE Here(j) /\ job'[r] = A
    <2>1. A.s = abort_inactive(j.s, "err")
        BY <1>2 DEF JobInv, Job
    <2>2. Reports(j.s, abort_inactive(j.s, "err"))
        BY <1>2, <1>5, AbortReports DEF JobInv, Job, Here
    <2>3. Goes(j, A)
        BY <1>5, <2>1, <2>2, ResultGoes
    <2>4. QED
        BY <1>5, <2>3 DEF Ages, j
<1>6. CASE Here(j) /\ job'[r] = G
    <2>1. CASE j.s.ack /\ j.t.st = "none"
        <3> DEFINE z == [Unsent EXCEPT !.state = "gone"]
        <3>1. c = [t |-> NoTask, s |-> z, f |-> "missing", o |-> "none"]
            BY <2>1 DEF garbage_collect_acked, NoJob
        <3>2. z.state = "gone" /\ z.ready = FALSE /\ z.ack = FALSE
            BY DEF Unsent
        <3> HIDE DEF z
        <3>3. c.s = z /\ c.t = NoTask /\ c.f = "missing" /\ c.o = "none"
            BY <3>1
        <3> HIDE DEF c
        <3>4. garbage_collect_failed(c) = c
            BY <3>3 DEF garbage_collect_failed
        <3>5. Drops(j, G)
            BY <1>6, <2>1, <3>2, <3>3, <3>4, NoTaskInv DEF Drops
        <3>6. QED
            BY <1>6, <3>5 DEF Ages, j
    <2>2. CASE ~(j.s.ack /\ j.t.st = "none")
        <3>1. c \in {j, abort_task(j, "err")}
            BY <2>2 DEF garbage_collect_acked
        <3>2. Goes(j, c)
            BY <1>2, <1>6, <3>1, AbortGoes, GoesSelf
        <3>3. JobInv(c) /\ Here(c)
            BY <1>2, <1>6, <3>1, <3>2, AbortTaskInv DEF Goes, Here, Reports
        <3> HIDE DEF c
        <3>4. Goes(j, G)
            BY <3>2, <3>3, FailedGoes, GoesTrans
        <3>5. QED
            BY <1>6, <3>4 DEF Ages, j
    <2>3. QED
        BY <2>1, <2>2
<1>7. QED
    BY <1>3, <1>4, <1>5, <1>6

\* The results of a scheduler reply: new ones, acknowledged ones, aborted ones.
LEMMA ReplyAges ==
    ASSUME NEW j, JobInv(j), Grounded(j), NEW new \in BOOLEAN, NEW ack \in BOOLEAN,
           NEW abort \in BOOLEAN, NEW unstarted \in BOOLEAN,
           new => j.s.state = "unsent", ack => Here(j) /\ j.s.ready,
           abort \/ unstarted => Here(j)
    PROVE  Ages(j, handle_reply(j, new, ack, abort, unstarted))
<1>1. j \in Job /\ j.s \in Result /\ j.s.ack \in BOOLEAN /\ j.s.ready \in BOOLEAN
    BY JobParts DEF Result
<1> DEFINE st == IF new THEN "NEW" ELSE j.s.state
           got == j.s.ack \/ ack
           s == [j.s EXCEPT !.state = st, !.ack = got]
           acked == [j EXCEPT !.s = s]
           told == IF abort THEN Aborted(acked, "aborted") ELSE acked
           k == handle_reply(j, new, ack, abort, unstarted)
<1>2. acked = [j EXCEPT !.s.state = IF new THEN "NEW" ELSE @, !.s.ack = @ \/ ack]
    BY <1>1 DEF Job, Result
<1>3. k = IF unstarted /\ told.t.st = "none"
          THEN [told EXCEPT !.s = abort_inactive(told.s, "aborted")] ELSE told
    BY <1>2 DEF handle_reply
<1>4. /\ st \in {"unsent", "gone", "NEW", "DOWNLOADING", "DOWNLOADED"} \cup Finished
      /\ got \in BOOLEAN
    BY <1>1 DEF Result
<1>5. st = (IF new THEN "NEW" ELSE j.s.state) /\ got = (j.s.ack \/ ack)
    OBVIOUS
<1> HIDE DEF st, got, k
<1>6. s \in Result /\ s.state = st /\ s.ack = got /\ s.ready = j.s.ready
    BY <1>1, <1>4 DEF Result
<1> HIDE DEF s
<1>7. JobInv(acked) /\ acked.s = s /\ acked.t = j.t
    BY <1>1, <1>6, JobParts DEF Job
<1> HIDE DEF acked
<1>8. CASE new
    <2>1. ~abort /\ ~unstarted /\ ~ack /\ ~j.s.ready /\ ~j.s.ack
        BY <1>8 DEF Grounded, Here
    <2>2. k.s = s
        BY <1>3, <1>7, <2>1
    <2>3. Arrives(j, k)
        BY <1>5, <1>6, <1>8, <2>1, <2>2 DEF Arrives, Here
    <2>4. QED
        BY <2>3 DEF Ages, k
<1>9. CASE ~new /\ ~Here(j)
    <2>1. ~abort /\ ~unstarted /\ ~ack /\ j.t.st = "none"
        BY <1>9 DEF Grounded
    <2>2. s = j.s
        BY <1>1, <1>5, <1>9, <2>1 DEF Result, s
    <2>3. Goes(j, k)
        BY <1>3, <1>7, <1>9, <2>1, <2>2 DEF Goes
    <2>4. QED
        BY <2>3 DEF Ages, k
<1>10. CASE ~new /\ Here(j)
    <2>1. Here(acked)
        BY <1>5, <1>6, <1>7, <1>10 DEF Here
    <2>2. Goes(acked, told) /\ JobInv(told) /\ Here(told)
        <3>1. Goes(acked, acked)
            BY <1>6, <1>7, <2>1, ReportsSelf DEF Goes, Here
        <3>2. Goes(acked, Aborted(acked, "aborted")) /\ JobInv(Aborted(acked, "aborted"))
            BY <1>7, <2>1, AbortGoes, AbortedInv
        <3>3. Goes(acked, told) /\ JobInv(told)
            BY <1>7, <3>1, <3>2
        <3> HIDE DEF told
        <3>4. QED
            BY <2>1, <3>3 DEF Goes, Here, Reports
    <2> HIDE DEF told
    <2>3. Goes(told, k)
        <3> DEFINE a == [told EXCEPT !.s = abort_inactive(told.s, "aborted")]
        <3>1. told.s \in Result /\ told.s.state \notin {"unsent", "gone"}
            BY <2>2 DEF JobInv, Job, Here
        <3>2. a.s = abort_inactive(told.s, "aborted")
            BY <2>2 DEF JobInv, Job
        <3>3. Goes(told, a)
            BY <2>2, <3>1, <3>2, AbortReports, ResultGoes
        <3>4. Goes(told, told)
            BY <2>2, <3>1, ReportsSelf, ResultGoes
        <3> HIDE DEF a
        <3>5. k = a \/ k = told
            BY <1>3 DEF a
        <3>6. QED
            BY <3>3, <3>4, <3>5
    <2>4. Reports(s, k.s)
        BY <1>7, <2>1, <2>2, <2>3, GoesTrans DEF Goes
    <2>5. CASE ack
        <3>1. Accepts(j, k)
            BY <1>5, <1>6, <1>10, <2>4, <2>5 DEF Accepts, Here, Reports
        <3>2. QED
            BY <3>1 DEF Ages, k
    <2>6. CASE ~ack
        <3>1. s.ack = j.s.ack
            BY <1>1, <1>5, <1>6, <2>6
        <3>2. Reports(j.s, k.s)
            BY <1>6, <2>4, <3>1 DEF Reports
        <3>3. QED
            BY <1>10, <3>2, ResultGoes DEF Ages, k
    <2>7. QED
        BY <2>5, <2>6
<1>11. QED
    BY <1>8, <1>9, <1>10

LEMMA ReplyAging ==
    ASSUME LifeInv, SchedulerReply
    PROVE  Aging
<1>1. PICK new \in SUBSET {r \in Results : job[r].s.state = "unsent"},
           acks \in SUBSET {r \in Known : job[r].s.ready},
           aborts \in SUBSET Known, unstarted \in SUBSET Known :
        job' = [r \in Results |->
                  handle_reply(job[r], r \in new, r \in acks, r \in aborts,
                               r \in unstarted)]
    BY DEF SchedulerReply
<1> SUFFICES ASSUME NEW r \in Results PROVE Ages(job[r], job'[r])
    BY DEF Aging
<1> DEFINE a == r \in new
           b == r \in acks
           c == r \in aborts
           d == r \in unstarted
<1>2. JobInv(job[r]) /\ Grounded(job[r])
    BY DEF LifeInv, TasksInv
<1>3. /\ a \in BOOLEAN /\ b \in BOOLEAN /\ c \in BOOLEAN /\ d \in BOOLEAN
      /\ a => job[r].s.state = "unsent"
      /\ b => Here(job[r]) /\ job[r].s.ready
      /\ c \/ d => Here(job[r])
    BY DEF Known, Here
<1>4. job'[r] = handle_reply(job[r], a, b, c, d)
    BY <1>1
<1> HIDE DEF a, b, c, d
<1>5. QED
    BY <1>2, <1>3, <1>4, ReplyAges

LEMMA PassAging ==
    ASSUME LifeInv,
           UpdateResults \/ FileXfers \/ HandleFinishedApps \/ EnforceSchedule
    PROVE  Aging
<1> SUFFICES ASSUME NEW r \in Results PROVE Goes(job[r], job'[r])
    BY DEF Aging, Ages
<1>0. JobInv(job[r]) /\ Grounded(job[r])
    BY DEF LifeInv, TasksInv
<1>1. CASE UpdateResults
    <2>1. PICK copies \in SUBSET Results : job'[r] = update_result(job[r], r \in copies)
        BY <1>1 DEF UpdateResults
    <2>2. QED
        BY <1>0, <2>1, UpdateGoes
<1>2. CASE FileXfers
    <2>1. job'[r] \in Transferred(job[r]) \/ job'[r] = job[r]
        BY <1>2 DEF FileXfers
    <2>2. QED
        BY <1>0, <2>1, TransferGoes, GoesSelf
<1>3. CASE HandleFinishedApps
    <2> DEFINE over == {x \in Results : job[x].t.st \in Over}
    <2>1. PICK o \in [over -> {"none", "present", "failed"}] :
            job' = [x \in Results |->
                      IF x \in over THEN app_finished(job[x], o[x]) ELSE job[x]]
        BY <1>3 DEF HandleFinishedApps
    <2>2. r \in over => Here(job[r])
        BY <1>0 DEF Over, Grounded
    <2> HIDE DEF over
    <2>3. CASE r \in over
        BY <1>0, <2>1, <2>2, <2>3, FinishedGoes
    <2>4. CASE r \notin over
        BY <1>0, <2>1, <2>4, GoesSelf
    <2>5. QED
        BY <2>3, <2>4
<1>4. CASE EnforceSchedule
    <2>1. PICK S \in SUBSET Results, quit \in SUBSET Results,
               how \in [Results -> StartResults] :
            /\ Enforceable(S)
            /\ job' = [x \in Results |-> IF x \in S THEN run_task(job[x], how[x])
                                         ELSE stop_task(job[x], x \in quit)]
        BY <1>4 DEF EnforceSchedule
    <2> DEFINE b == r \in quit
    <2>2. job'[r] = IF r \in S THEN run_task(job[r], how[r]) ELSE stop_task(job[r], b)
        BY <2>1
    <2>3. b \in BOOLEAN
        OBVIOUS
    <2> HIDE DEF b
    <2>4. CASE r \in S
        <3>1. Here(job[r])
            BY <2>1, <2>4 DEF Enforceable, Running, runnable, Known, Here
        <3>2. QED
            BY <1>0, <2>2, <2>4, <3>1, RunGoes
    <2>5. CASE r \notin S
        BY <1>0, <2>2, <2>3, <2>5, StopGoes
    <2>6. QED
        BY <2>4, <2>5
<1>5. QED
    BY <1>1, <1>2, <1>3, <1>4

\* Commands of the user but for a reset, and the processes.
LEMMA OneAging ==
    ASSUME LifeInv, NEW r \in Results, NEW k, Goes(job[r], k),
           job' = [job EXCEPT ![r] = k]
    PROVE  Aging
<1> SUFFICES ASSUME NEW q \in Results PROVE Ages(job[q], job'[q])
    BY DEF Aging
<1>1. JobInv(job[q]) /\ Grounded(job[q]) /\ job \in [Results -> Job]
    BY DEF LifeInv, TasksInv, TypeOK
<1>2. job'[q] = IF q = r THEN k ELSE job[q]
    BY <1>1
<1>3. QED
    BY <1>1, <1>2, GoesSelf DEF Ages

LEMMA UserAging ==
    ASSUME LifeInv, NEW r \in Results,
           AbortResult(r) \/ \E susp \in BOOLEAN : SuspendResult(r, susp)
    PROVE  Aging
<1>0. JobInv(job[r]) /\ job \in [Results -> Job]
    BY DEF LifeInv, TasksInv, TypeOK
<1>1. CASE AbortResult(r)
    <2>1. Here(job[r])
        BY <1>1 DEF AbortResult, Known, Here
    <2>2. Goes(job[r], Aborted(job[r], "aborted"))
        BY <1>0, <2>1, AbortGoes
    <2>3. job' = [job EXCEPT ![r] = Aborted(job[r], "aborted")]
        BY <1>0, <1>1 DEF AbortResult
    <2>4. QED
        BY <2>2, <2>3, OneAging
<1>2. ASSUME NEW susp \in BOOLEAN, SuspendResult(r, susp) PROVE Aging
    <2> DEFINE s == [job[r].s EXCEPT !.susp = susp]
               k == [job[r] EXCEPT !.s = s]
    <2>1. Here(job[r]) /\ job[r].s \in Result
        BY <1>0, <1>2 DEF SuspendResult, Known, Here, JobInv, Job
    <2>2. Reports(job[r].s, s)
        BY <2>1, ReportsSelf DEF Here
    <2>3. job' = [job EXCEPT ![r] = k]
        BY <1>0, <1>2 DEF SuspendResult, Job
    <2> HIDE DEF s
    <2>4. k.s = s
        BY <1>0 DEF JobInv, Job
    <2> HIDE DEF k
    <2>5. Goes(job[r], k)
        BY <2>1, <2>2, <2>4, ResultGoes
    <2>6. QED
        BY <2>3, <2>5, OneAging
<1>3. QED
    BY <1>1, <1>2

LEMMA ProcessAging ==
    ASSUME LifeInv, NEW r \in Results, NEW t, Process(r, t), t.st = job[r].t.st
    PROVE  Aging
<1>1. JobInv(job[r]) /\ Grounded(job[r]) /\ job \in [Results -> Job]
    BY DEF LifeInv, TasksInv, TypeOK
<1>2. job' = [job EXCEPT ![r] = [job[r] EXCEPT !.t = t]]
    BY <1>1 DEF Process, JobInv, Job
<1>3. Goes(job[r], [job[r] EXCEPT !.t = t])
    BY <1>1, TaskGoes
<1>4. QED
    BY <1>2, <1>3, OneAging

LEMMA ProcessesAging ==
    ASSUME LifeInv, NEW r \in Results, ReadMsg(r) \/ ProcExit(r)
    PROVE  Aging
<1> DEFINE t == job[r].t
<1>1. t \in Task
    BY DEF LifeInv, TasksInv, JobInv, Job
<1>2. CASE ReadMsg(r)
    <2> DEFINE u == [t EXCEPT !.chan = "none", !.pst = Handled(@, t.chan),
                              !.status = IF t.chan = "abort" THEN "error" ELSE "quit"]
    <2>1. Process(r, u)
        BY <1>2 DEF ReadMsg
    <2>2. u.st = t.st
        BY <1>1 DEF Task
    <2> HIDE DEF u
    <2>3. QED
        BY <2>1, <2>2, ProcessAging
<1>3. CASE ProcExit(r)
    <2>1. PICK e : Process(r, [t EXCEPT !.pst = "zombie", !.status = e])
        BY <1>3 DEF ProcExit
    <2>2. [t EXCEPT !.pst = "zombie", !.status = e].st = t.st
        BY <1>1 DEF Task
    <2>3. QED
        BY <2>1, <2>2, ProcessAging
<1>4. QED
    BY <1>2, <1>3

LEMMA ProxyAging ==
    ASSUME LifeInv, SetProxy
    PROVE  Aging
<1> SUFFICES ASSUME NEW r \in Results PROVE Goes(job[r], job'[r])
    BY DEF Aging, Ages
<1> DEFINE w == msg_queue_send(job[r].t, "reread")
<1>1. JobInv(job[r]) /\ Grounded(job[r])
    BY DEF LifeInv, TasksInv
<1>2. job'[r] = IF ~process_exists(job[r].t) THEN job[r] ELSE [job[r] EXCEPT !.t = w]
    BY <1>1 DEF SetProxy
<1> HIDE DEF w
<1>3. CASE process_exists(job[r].t)
    <2>1. job[r].t.st # "none"
        BY <1>3 DEF process_exists, Existing, Pending
    <2>2. QED
        BY <1>1, <1>2, <1>3, <2>1, TaskGoes
<1>4. CASE ~process_exists(job[r].t)
    BY <1>1, <1>2, <1>4, GoesSelf
<1>5. QED
    BY <1>3, <1>4

-----------------------------------------------------------------------------
LEMMA StepAging ==
    ASSUME LifeInv, [Next]_vars, ~ResetProject
    PROVE  Aging
<1>1. CASE FullPass \/ ShortPass
    BY <1>1, BeginPassAging DEF FullPass, ShortPass
<1>2. CASE \E late \in SUBSET Results : Poll(late)
    BY <1>2, PollGoes DEF Aging, Ages
<1>3. CASE GarbageCollect
    BY <1>3, GarbageAging
<1>4. CASE UpdateResults \/ FileXfers \/ HandleFinishedApps \/ EnforceSchedule
    BY <1>4, PassAging
<1>5. CASE ScheduleCpus \/ KeepSchedule
    BY <1>5, SameAging DEF ScheduleCpus, KeepSchedule
<1>6. CASE SchedulerReply
    BY <1>6, ReplyAging
<1>7. CASE SetProxy
    BY <1>7, ProxyAging
<1>8. CASE \E r \in Results : AbortResult(r) \/ \E susp \in BOOLEAN : SuspendResult(r, susp)
    BY <1>8, UserAging
<1>9. CASE \E r \in Results : ReadMsg(r) \/ ProcExit(r)
    BY <1>9, ProcessesAging
<1>10. CASE UNCHANGED vars
    BY <1>10, SameAging DEF vars
<1>11. QED
    BY <1>1, <1>2, <1>3, <1>4, <1>5, <1>6, <1>7, <1>8, <1>9, <1>10 DEF Next

\* A reset drops every result that has arrived.
LEMMA ResetDrops ==
    ASSUME LifeInv, ResetProject, NEW r \in Results
    PROVE  /\ Grounded(job'[r])
           /\ Stage(job'[r].s) = IF Stage(job[r].s) = "unsent" THEN "unsent" ELSE "dropped"
<1> DEFINE z == [Unsent EXCEPT !.state = "gone"]
           g == [t |-> NoTask, s |-> z, f |-> "missing", o |-> "none"]
<1>1. job'[r] = IF Here(job[r]) THEN g ELSE job[r]
    BY DEF ResetProject, NoJob, Known, Here
<1>2. z.state = "gone" /\ z.ready = FALSE /\ z.ack = FALSE
    BY DEF Unsent
<1> HIDE DEF z
<1>3. g.s = z /\ g.t = NoTask
    OBVIOUS
<1> HIDE DEF g
<1>4. Grounded(g) /\ Stage(g.s) = "dropped"
    BY <1>2, <1>3, NoTaskInv DEF Grounded, Stage
<1>5. Grounded(job[r])
    BY DEF LifeInv
<1>6. CASE Here(job[r])
    <2>1. Stage(job[r].s) # "unsent"
        BY <1>6 DEF Here, Stage
    <2>2. QED
        BY <1>1, <1>4, <1>6, <2>1
<1>7. CASE ~Here(job[r])
    <2>1. Stage(job[r].s) \in {"unsent", "dropped"}
        BY <1>7 DEF Here, Stage
    <2>2. QED
        BY <1>1, <1>5, <1>7, <2>1
<1>8. QED
    BY <1>6, <1>7

LEMMA LifeStepInv == LifeInv /\ [Next]_vars => LifeInv'
<1> SUFFICES ASSUME LifeInv, [Next]_vars PROVE LifeInv'
    OBVIOUS
<1>1. TasksInv'
    BY TasksStepInv DEF LifeInv
<1>2. ASSUME NEW r \in Results PROVE Grounded(job'[r])
    <2>1. CASE ResetProject
        BY <2>1, ResetDrops
    <2>2. CASE ~ResetProject
        BY <2>2, StepAging, AgesGrounded DEF Aging, LifeInv
    <2>3. QED
        BY <2>1, <2>2
<1>3. QED
    BY <1>1, <1>2 DEF LifeInv

LEMMA LifeInitInv == Init => LifeInv
<1> SUFFICES ASSUME Init PROVE LifeInv
    OBVIOUS
<1>1. \A r \in Results : job[r] = NoJob
    BY DEF Init
<1>2. NoJob.s = Unsent /\ NoJob.t = NoTask
    BY DEF NoJob
<1>3. Unsent.ready = FALSE /\ Unsent.ack = FALSE
    BY DEF Unsent
<1>4. \A r \in Results : Grounded(job[r])
    BY <1>1, <1>2, <1>3, NoTaskInv DEF Grounded
<1>5. QED
    BY <1>4, TasksInitInv DEF LifeInv

LEMMA LifeSteps ==
    LifeInv /\ [Next]_vars => [Life!LifeNext]_([r \in Results |-> Stage(job[r].s)])
<1> SUFFICES ASSUME LifeInv, [Next]_vars PROVE Life!LifeNext
    OBVIOUS
<1>1. CASE ResetProject
    <2>1. \A r \in Results : Stage(job'[r].s) =
            IF Stage(job[r].s) = "unsent" THEN "unsent" ELSE "dropped"
        BY <1>1, ResetDrops
    <2>2. Life!DropAll
        BY <2>1 DEF Life!DropAll
    <2>3. QED
        BY <2>2 DEF Life!LifeNext
<1>2. CASE ~ResetProject
    <2>1. Aging
        BY <1>2, StepAging
    <2>2. ASSUME NEW r \in Results
          PROVE  /\ Stage(job'[r].s) \in Life!Stages
                 /\ Stage(job'[r].s) # Stage(job[r].s) =>
                      <<Stage(job[r].s), Stage(job'[r].s)>> \in Life!Moves
        <3>1. job[r] \in Job /\ Grounded(job[r])
            BY DEF LifeInv, TasksInv, TypeOK
        <3>2. job'[r] \in Job
            BY LifeStepInv DEF LifeInv, TasksInv, TypeOK
        <3>3. QED
            BY <2>1, <3>1, <3>2, AgesMoves DEF Aging
    <2>3. Life!Advance
        BY <2>2 DEF Life!Advance
    <2>4. QED
        BY <2>3 DEF Life!LifeNext
<1>3. QED
    BY <1>1, <1>2

\* The refinement: whatever the applications, the user and the server do, and
\* in whichever function a result is given up (report_result_error,
\* abort_task, abort_inactive, handle_premature_exit, start, app_finished),
\* garbage_collect_always deletes it only when its report is acknowledged.
THEOREM ResultsKept == Spec => ResultsAccountedFor
<1>1. Init => Life!LifeInit
    <2> SUFFICES ASSUME Init PROVE Life!LifeInit
        OBVIOUS
    <2>1. \A r \in Results : job[r].s.state = "unsent"
        BY DEF Init, NoJob, Unsent
    <2>2. \A r \in Results : Stage(job[r].s) = "unsent"
        BY <2>1 DEF Stage
    <2>3. QED
        BY <2>2 DEF Life!LifeInit
<1>2. Spec => []LifeInv
    BY LifeInitInv, LifeStepInv, PTL DEF Spec
<1>3. QED
    BY <1>1, <1>2, LifeSteps, PTL DEF Spec, ResultsAccountedFor, Life!LifeSpec

=============================================================================
