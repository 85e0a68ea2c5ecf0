--------------------------- MODULE CpuSchedProofs ---------------------------
(***************************************************************************)
(* Proofs about CpuSched, for any number of results, projects and CPUs     *)
(* and any memory.                                                         *)
(***************************************************************************)
EXTENDS CpuSched, LoopLemmas, FiniteSetTheorems, TLAPS

\* The types of the variables, but for what TypeOK says of the list.
Typed ==
    /\ job \in [Results -> Job]
    /\ {mustSchedule, mustEnforce, userActive} \subseteq BOOLEAN
    /\ suspended \in {"no", "throttle", "other"}
    /\ ncpus \in 1..MaxCpus /\ bench \in {"off", "early", "late"}
    /\ phase \in {"idle", "poll", "clean", "cpus", "enforce", "undefined"}

\* A schedule is enforced only while computing is not suspended, and the
\* benchmarks that measure are what computing is suspended for.
SuspensionInv ==
    /\ Typed
    /\ SuspensionObeyed
    /\ BenchmarksAlone
    /\ phase = "enforce" => suspended = "no"
    /\ bench = "late" => suspended = "other"

-----------------------------------------------------------------------------
(***************************************************************************)
(* What the operations on a job keep.                                      *)
(***************************************************************************)

\* Only a result that has arrived and is not deleted has a task.
Alive(j) == j.task # "none" => j.state \notin {"unsent", "gone"}

\* From j to k no application begins to execute and no task is scheduled,
\* and no result is unsent again or deleted under its task.
Calm(j, k) ==
    /\ k \in Job
    /\ k.task = "EXECUTING" => j.task = "EXECUTING" /\ k.sched = j.sched
    /\ k.state = "unsent" => j.state = "unsent"
    /\ k.sched => j.sched
    /\ Alive(j) => Alive(k)

LEMMA CalmTrans ==
    ASSUME NEW i, NEW j, NEW k, Calm(i, j), Calm(j, k)
    PROVE  Calm(i, k)
BY DEF Calm

LEMMA CalmSelf == \A j \in Job : Calm(j, j)
BY DEF Calm

LEMMA EndedCalm ==
    ASSUME NEW j \in Job
    PROVE  /\ Calm(j, Ended(j)) /\ Ended(j).task = j.task
           /\ Ended(j).state \notin {"unsent", "gone"}
<1> DEFINE st == IF j.state \in {"ACKED", "FAILED"} THEN j.state ELSE "DONE"
<1>1. st \in {"DONE", "ACKED", "FAILED"}
    OBVIOUS
<1>2. Ended(j) = [j EXCEPT !.state = st, !.susp = FALSE]
    BY DEF Ended, Job
<1> HIDE DEF st
<1>3. QED
    BY <1>1, <1>2 DEF Calm, Alive, Job

\* Writing task_state.
LEMMA TaskCalm ==
    ASSUME NEW j \in Job,
           NEW st \in {"none", "UNINITIALIZED", "SUSPENDED", "QUIT_PENDING",
                       "ABORT_PENDING", "OVER"},
           j.task # "none" \/ j.state \notin {"unsent", "gone"}
    PROVE  Calm(j, [j EXCEPT !.task = st])
BY DEF Calm, Alive, Job

LEMMA AbortCalm ==
    ASSUME NEW j \in Job
    PROVE  Calm(j, abort_task(j)) /\ Calm(j, Aborted(j))
<1> DEFINE e == Ended(j)
           st == IF e.task \in {"EXECUTING", "SUSPENDED"} THEN "ABORT_PENDING"
                 ELSE "OVER"
<1>1. Calm(j, e) /\ e \in Job /\ e.state \notin {"unsent", "gone"}
    BY EndedCalm DEF Calm
<1>2. abort_task(j) = [e EXCEPT !.task = st]
    BY <1>1 DEF abort_task, Job
<1>3. Calm(e, [e EXCEPT !.task = st])
    <2> HIDE DEF e
    <2>1. QED
        BY <1>1, TaskCalm
<1> HIDE DEF e, st
<1>4. Calm(j, abort_task(j))
    BY <1>1, <1>2, <1>3, CalmTrans
<1>5. QED
    BY <1>1, <1>4 DEF Aborted, e

LEMMA PreemptCalm ==
    ASSUME NEW j \in Job, j.task # "none", NEW quit, NEW ckpt
    PROVE  Calm(j, preempt(j, quit, ckpt)) /\ preempt(j, quit, ckpt).task # "EXECUTING"
<1> DEFINE st == IF quit /\ ckpt THEN "QUIT_PENDING" ELSE "SUSPENDED"
<1>1. st \in {"QUIT_PENDING", "SUSPENDED"}
    OBVIOUS
<1>2. preempt(j, quit, ckpt) = [j EXCEPT !.task = st]
    BY DEF preempt
<1> HIDE DEF st
<1>3. QED
    BY <1>1, <1>2 DEF Calm, Alive, Job

\* start makes an application execute, but leaves scheduler_state alone.
LEMMA StartKeeps ==
    ASSUME NEW j \in Job, j.task # "none", NEW how
    PROVE  /\ start(j, how) \in Job /\ start(j, how).sched = j.sched
           /\ start(j, how).rss = j.rss
           /\ start(j, how).state = "unsent" => j.state = "unsent"
           /\ Alive(j) => Alive(start(j, how))
<1>1. /\ [j EXCEPT !.state = "DOWNLOADING"] \in Job
      /\ [j EXCEPT !.task = "EXECUTING"] \in Job
    BY DEF Job
<1> DEFINE e == Ended(j)
<1>2. /\ e \in Job /\ e.sched = j.sched /\ e.rss = j.rss
      /\ e.state \notin {"unsent", "gone"}
    BY EndedCalm DEF Calm, Ended, Job
<1> HIDE DEF e
<1>3. [e EXCEPT !.task = "OVER"] \in Job
    BY <1>2 DEF Job
<1>4. start(j, how) \in {[j EXCEPT !.state = "DOWNLOADING"],
                         [j EXCEPT !.task = "EXECUTING"],
                         [e EXCEPT !.task = "OVER"], j}
    BY DEF start, e
<1>5. QED
    BY <1>1, <1>2, <1>3, <1>4 DEF Alive, Job

LEMMA GoneCalm ==
    ASSUME NEW j \in Job
    PROVE  Calm(j, [Unsent EXCEPT !.state = "gone"])
<1>1. 0 \in 0..MaxRss
    BY CpuSchedAssumption
<1>2. QED
    BY <1>1 DEF Calm, Alive, Unsent, Job

LEMMA NoTaskCalm ==
    ASSUME NEW j \in Job
    PROVE  Calm(j, NoTask(j))
<1>1. 0 \in 0..MaxRss
    BY CpuSchedAssumption
<1>2. QED
    BY <1>1 DEF Calm, Alive, NoTask, Job

\* One application in ACTIVE_TASK_SET::poll.
LEMMA PollCalm ==
    ASSUME NEW j \in Job, NEW e \in Events(j), NEW size \in 0..MaxRss
    PROVE  Calm(j, Answered(Limited(get_memory_usage(check_app_exited(j, e), size), e), e))
<1> DEFINE a == check_app_exited(j, e)
           b == get_memory_usage(a, size)
           c == Limited(b, e)
           d == Answered(c, e)
<1>1. Calm(j, a) /\ (e = "late" => a = j /\ j.task \in {"QUIT_PENDING", "ABORT_PENDING"})
    <2> DEFINE x == Ended(j)
    <2>1. Calm(j, x) /\ x \in Job /\ x.state \notin {"unsent", "gone"}
        BY EndedCalm DEF Calm
    <2>2. \/ /\ a \in {[j EXCEPT !.task = "OVER"], [j EXCEPT !.task = "UNINITIALIZED"]}
             /\ j.task # "none"
          \/ a \in {[x EXCEPT !.task = "OVER"], j}
        BY DEF check_app_exited, Events, Exits
    <2>3. e = "late" => a = j /\ j.task \in {"QUIT_PENDING", "ABORT_PENDING"}
        BY DEF check_app_exited, Events, Exits
    <2> HIDE DEF x, a
    <2>4. Calm(x, [x EXCEPT !.task = "OVER"])
        BY <2>1, TaskCalm
    <2>5. Calm(j, [x EXCEPT !.task = "OVER"]) /\ Calm(j, j)
        BY <2>1, <2>4, CalmTrans, CalmSelf
    <2>6. j.task # "none" => /\ Calm(j, [j EXCEPT !.task = "OVER"])
                             /\ Calm(j, [j EXCEPT !.task = "UNINITIALIZED"])
        BY TaskCalm
    <2>7. QED
        BY <2>2, <2>3, <2>5, <2>6
<1> HIDE DEF a
<1>2. Calm(a, b) /\ b.task = a.task
    <2>1. a \in Job
        BY <1>1 DEF Calm
    <2> DEFINE n == IF process_exists(a) THEN size ELSE 0
    <2>2. n \in 0..MaxRss
        BY CpuSchedAssumption
    <2>3. b \in {a, [a EXCEPT !.rss = n]}
        BY DEF get_memory_usage
    <2> HIDE DEF n, b
    <2>4. Calm(a, [a EXCEPT !.rss = n]) /\ [a EXCEPT !.rss = n].task = a.task
        BY <2>1, <2>2 DEF Calm, Alive, Job
    <2>5. QED
        BY <2>1, <2>3, <2>4, CalmSelf
<1> HIDE DEF b
<1>3. Calm(b, c) /\ (b.task # "EXECUTING" => c = b)
    <2>1. b \in Job
        BY <1>2 DEF Calm
    <2>2. c \in {b, abort_task(b)} /\ (b.task # "EXECUTING" => c = b)
        BY DEF Limited
    <2>3. QED
        BY <2>1, <2>2, AbortCalm, CalmSelf
<1>4. e = "late" => c.task # "none"
    BY <1>1, <1>2, <1>3
<1> HIDE DEF c
<1>5. Calm(c, d)
    <2>1. c \in Job
        BY <1>3 DEF Calm
    <2>2. \/ d = c
          \/ /\ e = "late"
             /\ d \in {[c EXCEPT !.task = "UNINITIALIZED"], [c EXCEPT !.task = "OVER"]}
        BY <2>1 DEF Answered, Job
    <2>3. QED
        BY <1>4, <2>1, <2>2, TaskCalm, CalmSelf
<1> HIDE DEF d
<1>6. Calm(j, c)
    BY <1>1, <1>2, <1>3, CalmTrans
<1>7. Calm(j, d)
    BY <1>5, <1>6, CalmTrans
<1>8. QED
    BY <1>7 DEF a, b, c, d

\* A result between poll and the scheduler.
LEMMA CollectedCalm ==
    ASSUME NEW j \in Job
    PROVE  Calm(j, CollectedAcked(j))
<1>1. CollectedAcked(j) \in {[Unsent EXCEPT !.state = "gone"], abort_task(j), j}
    BY DEF CollectedAcked
<1>2. QED
    BY <1>1, GoneCalm, AbortCalm, CalmSelf

\* A state of a result that is there.
LEMMA StateCalm ==
    ASSUME NEW j \in Job,
           NEW st \in {"DOWNLOADING", "DOWNLOADED", "DONE", "FAILED", "ACKED"}
    PROVE  Calm(j, [j EXCEPT !.state = st])
BY DEF Calm, Alive, Job

-----------------------------------------------------------------------------
(***************************************************************************)
(* The loop of schedule_cpus: the list it makes names no result twice, and *)
(* no more results than there are CPUs.                                    *)
(***************************************************************************)

\* What schedule_cpus keeps between the rounds of its loop.
Account == [list : Seq(Results), used : Nat, ram : Int, large : SUBSET Results]
Empty == [list |-> <<>>, used |-> 0, ram |-> available_ram, large |-> {}]

LEMMA RamTyped ==
    ASSUME Typed
    PROVE  /\ available_ram \in Nat /\ Empty \in Account
           /\ \A r \in Results : job[r].rss \in Nat
           /\ ncpus \in Nat
<1>1. available_ram \in Nat
    BY CpuSchedAssumption DEF available_ram
<1>2. Empty \in Account
    BY <1>1 DEF Empty, Account
<1>3. \A r \in Results : job[r].rss \in Nat
    BY CpuSchedAssumption DEF Typed, Job
<1>4. ncpus \in Nat
    BY CpuSchedAssumption DEF Typed
<1>5. QED
    BY <1>1, <1>2, <1>3, <1>4

\* One round of the loop.
LEMMA ScheduleRound ==
    ASSUME Typed, NEW a \in Account, NEW r \in Results
    PROVE  /\ schedule_if_possible(a, r) \in Account
           /\ \/ /\ schedule_if_possible(a, r).list = a.list
                 /\ schedule_if_possible(a, r).used = a.used
              \/ /\ schedule_if_possible(a, r).list = Append(a.list, r)
                 /\ schedule_if_possible(a, r).used = a.used + 1
                 /\ a.used < ncpus
<1> DEFINE u == [a EXCEPT !.large = @ \cup {r}]
           v == [a EXCEPT !.list = Append(@, r), !.used = @ + 1,
                          !.ram = @ - job[r].rss]
<1>1. job[r].rss \in Nat /\ ncpus \in Nat
    BY RamTyped
<1>2. u \in Account /\ u.list = a.list /\ u.used = a.used
    BY DEF Account
<1>3. v \in Account /\ v.list = Append(a.list, r) /\ v.used = a.used + 1
    <2> DEFINE l == Append(a.list, r)
               n == a.used + 1
               m == a.ram - job[r].rss
    <2>1. l \in Seq(Results)
        BY DEF Account
    <2>2. n \in Nat /\ m \in Int
        BY <1>1 DEF Account
    <2>3. v = [a EXCEPT !.list = l, !.used = n, !.ram = m]
        BY DEF Account
    <2> HIDE DEF l, n, m, v
    <2>4. v \in Account /\ v.list = l /\ v.used = n
        BY <2>1, <2>2, <2>3 DEF Account
    <2>5. QED
        BY <2>4 DEF l, n
<1>4. \/ schedule_if_possible(a, r) \in {a, u}
      \/ schedule_if_possible(a, r) = v /\ ~(a.used >= ncpus)
    BY DEF schedule_if_possible
<1>5. a.used \in Nat
    BY DEF Account
<1> HIDE DEF u, v
<1>6. QED
    BY <1>1, <1>2, <1>3, <1>4, <1>5

\* schedule_cpus, round by round.
LEMMA SchedulingRounds ==
    ASSUME Typed, NEW s \in Seq(Results)
    PROVE  \E f \in [0..Len(s) -> Account] :
             /\ f[0] = Empty /\ Scheduling(s) = f[Len(s)]
             /\ \A n \in 1..Len(s) : f[n] = schedule_if_possible(f[n - 1], s[n])
<1> DEFINE N == Len(s)
           step == [x \in (1..N) \X Account |-> schedule_if_possible(x[2], s[x[1]])]
           B(g) == [t \in SUBSET (1..N) |->
                      IF t = {} THEN Empty
                      ELSE schedule_if_possible(g[t \ {Max(t)}], s[Max(t)])]
<1>1. N \in Nat /\ DOMAIN s = 1..N /\ \A n \in 1..N : s[n] \in Results
    OBVIOUS
<1>2. \A n \in 1..N : \A a \in Account : schedule_if_possible(a, s[n]) \in Account
    BY <1>1, ScheduleRound
<1>3. Scheduling(s) = (CHOOSE g : g = B(g))[1..N]
    <2>1. Scheduling(s) =
            (CHOOSE g : g = [t \in SUBSET DOMAIN s |->
                      IF t = {} THEN Empty
                      ELSE schedule_if_possible(g[t \ {Max(t)}], s[Max(t)])])[DOMAIN s]
        BY Zenon DEF Scheduling, FoldLeft, MapThenFoldSet, Empty
    <2> HIDE DEF N
    <2>2. QED
        BY <1>1, <2>1, Zenon
<1> HIDE DEF N
<1>4. /\ step \in [(1..N) \X Account -> Account]
      /\ \A n \in 1..N : \A a \in Account : step[<<n, a>>] = schedule_if_possible(a, s[n])
    BY <1>2
<1> HIDE DEF step
<1>5. Empty \in Account
    BY RamTyped
<1>6. PICK g : IsLoop(g, N, Account, Empty, step)
    BY <1>1, <1>4, <1>5, FoldExists
<1>7. g = B(g)
    <2> SUFFICES ASSUME NEW t \in SUBSET (1..N), t # {}
                 PROVE  g[t] = schedule_if_possible(g[t \ {Max(t)}], s[Max(t)])
        BY <1>6 DEF IsLoop
    <2>1. Max(t) \in 1..N
        BY <1>1, MaxIndex
    <2>2. g[t \ {Max(t)}] \in Account
        BY <1>6 DEF IsLoop
    <2>3. QED
        BY <1>4, <1>6, <2>1, <2>2 DEF IsLoop
<1> DEFINE c == CHOOSE h : h = B(h)
<1>8. c = B(c)
    BY <1>7
<1> HIDE DEF c
<1>9. c[{}] = Empty
    BY <1>8
<1>10. ASSUME NEW t \in SUBSET (1..N), t # {}, c[t \ {Max(t)}] \in Account
       PROVE  c[t] = step[<<Max(t), c[t \ {Max(t)}]>>]
    <2>1. Max(t) \in 1..N
        BY <1>1, <1>10, MaxIndex
    <2>2. c[t] = schedule_if_possible(c[t \ {Max(t)}], s[Max(t)])
        BY <1>8, <1>10
    <2>3. QED
        BY <1>4, <1>10, <2>1, <2>2
<1> HIDE DEF B
<1>11. Loops(c, N, Account, Empty, step)
    BY <1>9, <1>10 DEF Loops
<1>12. PICK f : IsRounds(f, N, Account, Empty, step, c[1..N])
    <2>1. N \in Nat
        BY <1>1
    <2>2. step \in [(1..N) \X Account -> Account]
        BY <1>4
    <2>3. \E f : IsRounds(f, N, Account, Empty, step, c[1..N])
        BY <1>5, <1>11, <2>1, <2>2, LoopRounds
    <2>4. QED
        BY <2>3
<1>13. ASSUME NEW n \in 1..N PROVE f[n] = schedule_if_possible(f[n - 1], s[n])
    <2>1. f[n - 1] \in Account
        BY <1>1, <1>12 DEF IsRounds
    <2>2. QED
        BY <1>4, <1>12, <2>1 DEF IsRounds
<1>14. Scheduling(s) = f[N]
    BY <1>3, <1>12 DEF c, IsRounds
<1>15. QED
    BY <1>12, <1>13, <1>14 DEF N, IsRounds

LEMMA AppendNew ==
    ASSUME NEW S, NEW l \in Seq(S), NEW r \in S, IsInjective(l),
           \A i \in 1..Len(l) : l[i] # r, NEW m, m = Append(l, r)
    PROVE  IsInjective(m)
<1>1. /\ DOMAIN m = 1..(Len(l) + 1) /\ m[Len(l) + 1] = r
      /\ \A i \in 1..Len(l) : m[i] = l[i]
    OBVIOUS
<1>2. Len(l) \in Nat /\ DOMAIN l = 1..Len(l)
    OBVIOUS
<1>3. \A a, b \in DOMAIN m : m[a] = m[b] => a = b
    BY <1>1, <1>2 DEF IsInjective
<1>4. QED
    BY <1>3, Zenon DEF IsInjective

LEMMA SchedulingList ==
    ASSUME Typed, NEW s \in Seq(Results), IsInjective(s)
    PROVE  /\ Scheduling(s).list \in Seq(Results) /\ IsInjective(Scheduling(s).list)
           /\ ToSet(Scheduling(s).list) \subseteq ToSet(s)
           /\ Len(Scheduling(s).list) <= ncpus
<1> DEFINE N == Len(s)
<1>1. PICK f \in [0..N -> Account] :
        /\ f[0] = Empty /\ Scheduling(s) = f[N]
        /\ \A n \in 1..N : f[n] = schedule_if_possible(f[n - 1], s[n])
    BY SchedulingRounds
<1> DEFINE In(l, n) == \A i \in 1..Len(l) : \E k \in 1..n : l[i] = s[k]
           Q(n) == /\ IsInjective(f[n].list) /\ In(f[n].list, n)
                   /\ Len(f[n].list) = f[n].used /\ f[n].used <= ncpus
           T == {n \in 0..N : Q(n)}
<1>2. N \in Nat /\ ncpus \in Nat /\ DOMAIN s = 1..N /\ \A n \in 1..N : s[n] \in Results
    BY RamTyped
<1>3. \A n \in 0..N : /\ f[n] \in Account /\ f[n].list \in Seq(Results)
                      /\ f[n].used \in Nat
    BY <1>1 DEF Account
<1>4. 0 \in T
    <2>1. f[0].list = <<>> /\ f[0].used = 0
        BY <1>1 DEF Empty
    <2>2. QED
        BY <1>2, <2>1 DEF IsInjective
<1>5. ASSUME NEW n \in 1..N, n - 1 \in T PROVE n \in T
    <2> DEFINE a == f[n - 1]
               b == f[n]
    <2>1. n \in 0..N /\ n - 1 \in 0..N /\ s[n] \in Results
        BY <1>2
    <2>2. /\ a \in Account /\ a.list \in Seq(Results) /\ a.used \in Nat
          /\ b = schedule_if_possible(a, s[n])
        BY <1>1, <1>3, <2>1
    <2>3. IsInjective(a.list) /\ In(a.list, n - 1) /\ Len(a.list) = a.used
          /\ a.used <= ncpus
        BY <1>5
    <2>4. \/ b.list = a.list /\ b.used = a.used
          \/ b.list = Append(a.list, s[n]) /\ b.used = a.used + 1 /\ a.used < ncpus
        BY <2>1, <2>2, ScheduleRound
    <2> HIDE DEF a, b
    <2>5. \A k \in 1..(n - 1) : k \in 1..n /\ s[k] # s[n]
        BY <1>2 DEF IsInjective
    <2>6. CASE b.list = a.list /\ b.used = a.used
        <3>1. In(b.list, n)
            BY <2>3, <2>5, <2>6
        <3> HIDE DEF In
        <3>2. QED
            BY <2>1, <2>3, <2>6, <3>1 DEF b
    <2>7. CASE b.list = Append(a.list, s[n]) /\ b.used = a.used + 1 /\ a.used < ncpus
        <3>1. \A i \in 1..Len(a.list) : a.list[i] # s[n]
            BY <2>3, <2>5
        <3>2. IsInjective(b.list)
            BY <2>1, <2>2, <2>3, <2>7, <3>1, AppendNew
        <3>3. Len(b.list) = b.used /\ b.used <= ncpus
            BY <1>2, <2>1, <2>2, <2>3, <2>7
        <3>4. In(b.list, n)
            <4> SUFFICES ASSUME NEW i \in 1..Len(b.list)
                         PROVE  \E k \in 1..n : b.list[i] = s[k]
                OBVIOUS
            <4>1. Len(a.list) \in Nat /\ Len(b.list) = Len(a.list) + 1
                BY <2>1, <2>2, <2>7
            <4>2. CASE i \in 1..Len(a.list)
                <5>1. b.list[i] = a.list[i]
                    BY <2>1, <2>2, <2>7, <4>2
                <5>2. QED
                    BY <2>3, <2>5, <4>2, <5>1
            <4>3. CASE i = Len(a.list) + 1
                <5>1. b.list[i] = s[n] /\ n \in 1..n
                    BY <2>1, <2>2, <2>7, <4>3
                <5>2. QED
                    BY <5>1
            <4>4. QED
                BY <4>1, <4>2, <4>3
        <3> HIDE DEF In
        <3>5. QED
            BY <2>1, <3>2, <3>3, <3>4 DEF b
    <2>8. QED
        BY <2>4, <2>6, <2>7
<1> HIDE DEF T
<1>6. N \in T
    <2>1. \A n \in 0..N : n \in T
        BY <1>2, <1>4, <1>5, Rounds
    <2>2. QED
        BY <1>2, <2>1
<1> DEFINE l == f[N].list
<1>7. /\ l \in Seq(Results) /\ IsInjective(l) /\ In(l, N) /\ Len(l) <= ncpus
    BY <1>2, <1>3, <1>6 DEF T
<1>8. Scheduling(s).list = l
    BY <1>1
<1> HIDE DEF l, N
<1>9. ToSet(l) \subseteq ToSet(s)
    BY <1>2, <1>7 DEF ToSet
<1>10. QED
    BY <1>7, <1>8, <1>9

-----------------------------------------------------------------------------
(***************************************************************************)
(* The actions.                                                            *)
(***************************************************************************)

\* A step in which no application begins to execute.
JobsCalm ==
    /\ job' \in [Results -> Job]
    /\ \A r \in Results : Calm(job[r], job'[r])

\* What is asked of a step about results that have arrived, and of all but
\* enforce_schedule about scheduled tasks.
StillSent ==
    \A r \in Results : job'[r].state = "unsent" => job[r].state = "unsent"
Quiet ==
    /\ StillSent
    /\ \A r \in Results : /\ job'[r].sched => job[r].sched
                          /\ Alive(job[r]) => Alive(job'[r])

LEMMA CalmObeyed ==
    ASSUME SuspensionInv, JobsCalm, suspended' = suspended,
           bench' = "late" => bench = "late"
    PROVE  SuspensionObeyed' /\ BenchmarksAlone' /\ Quiet
<1>1. Quiet
    BY DEF JobsCalm, Calm, Quiet, StillSent
<1>2. SuspensionObeyed'
    BY DEF JobsCalm, Calm, SuspensionInv, SuspensionObeyed, Unthrottled, CpuIntensive
<1>3. BenchmarksAlone'
    BY DEF JobsCalm, Calm, SuspensionInv, BenchmarksAlone
<1>4. QED
    BY <1>1, <1>2, <1>3

LEMMA CalmSame ==
    ASSUME SuspensionInv, job' = job
    PROVE  JobsCalm
BY CalmSelf DEF SuspensionInv, Typed, JobsCalm

LEMMA InvStep ==
    ASSUME Typed', SuspensionObeyed', BenchmarksAlone',
           phase' = "enforce" => suspended' = "no",
           bench' = "late" => suspended' = "other"
    PROVE  SuspensionInv'
BY DEF SuspensionInv

\* suspend_all preempts every application that needs a full CPU, whether it
\* is told of throttling or not.
LEMMA SuspendAllKeeps ==
    ASSUME Typed, NEW throttle, NEW leave, NEW ckpt,
           job' = suspend_all(throttle, leave, ckpt)
    PROVE  /\ JobsCalm
           /\ \A r \in Results : job'[r].task = "EXECUTING" => Unthrottled(r)
<1> DEFINE P(r) == preempt(job[r], ~throttle /\ ~leave, r \in ckpt)
           F(r) == IF job[r].task # "EXECUTING" \/ (throttle /\ Unthrottled(r))
                   THEN job[r] ELSE P(r)
<1>1. job' = [r \in Results |-> F(r)]
    BY DEF suspend_all
<1>2. ASSUME NEW r \in Results
      PROVE  /\ Calm(job[r], F(r))
             /\ F(r).task = "EXECUTING" => Unthrottled(r)
    <2>1. job[r] \in Job
        BY DEF Typed
    <2> DEFINE q == ~throttle /\ ~leave
               c == r \in ckpt
    <2> HIDE DEF q, c
    <2>2. job[r].task # "none" => /\ Calm(job[r], preempt(job[r], q, c))
                                  /\ preempt(job[r], q, c).task # "EXECUTING"
        BY <2>1, PreemptCalm
    <2>3. job[r].task = "EXECUTING" => Calm(job[r], P(r)) /\ P(r).task # "EXECUTING"
        BY <2>2 DEF q, c
    <2> HIDE DEF P
    <2>4. QED
        BY <2>1, <2>3, CalmSelf
<1> HIDE DEF F
<1>3. JobsCalm
    BY <1>1, <1>2 DEF JobsCalm, Calm
<1>4. \A r \in Results : job'[r].task = "EXECUTING" => Unthrottled(r)
    BY <1>1, <1>2
<1>5. QED
    BY <1>3, <1>4

\* unsuspend_all lets only scheduled tasks execute.
LEMMA UnsuspendAllKeeps ==
    ASSUME Typed, NEW how, job' = unsuspend_all(how),
           \A r \in Results : job[r].task = "EXECUTING" => job[r].sched
    PROVE  /\ job' \in [Results -> Job] /\ Quiet
           /\ \A r \in Results : job'[r].task = "EXECUTING" => job'[r].sched
<1> DEFINE F(r) ==
             CASE ~job[r].sched -> job[r]
               [] job[r].sched /\ job[r].task = "UNINITIALIZED" -> start(job[r], how)
               [] job[r].sched /\ job[r].task = "SUSPENDED" ->
                    [job[r] EXCEPT !.task = "EXECUTING"]
               [] OTHER -> job[r]
<1>1. job' = [r \in Results |-> F(r)]
    BY DEF unsuspend_all
<1>2. ASSUME NEW r \in Results
      PROVE  /\ F(r) \in Job /\ F(r).sched = job[r].sched
             /\ F(r).state = "unsent" => job[r].state = "unsent"
             /\ Alive(job[r]) => Alive(F(r))
             /\ ~job[r].sched => F(r) = job[r]
    <2>1. job[r] \in Job
        BY DEF Typed
    <2> DEFINE s == start(job[r], how)
    <2>2. job[r].task # "none" =>
            /\ s \in Job /\ s.sched = job[r].sched
            /\ s.state = "unsent" => job[r].state = "unsent"
            /\ Alive(job[r]) => Alive(s)
        BY <2>1, StartKeeps
    <2> DEFINE u == [job[r] EXCEPT !.task = "EXECUTING"]
    <2>3. /\ u \in Job /\ u.sched = job[r].sched /\ u.state = job[r].state
          /\ job[r].task # "none" => (Alive(job[r]) => Alive(u))
        BY <2>1 DEF Alive, Job
    <2>4. /\ F(r) = job[r] \/ (F(r) \in {s, u} /\ job[r].task # "none")
          /\ ~job[r].sched => F(r) = job[r]
        OBVIOUS
    <2> HIDE DEF s, u, F
    <2>5. QED
        BY <2>1, <2>2, <2>3, <2>4
<1> HIDE DEF F
<1>3. job' \in [Results -> Job] /\ Quiet
    BY <1>1, <1>2 DEF Quiet, StillSent
<1>4. ASSUME NEW r \in Results, job'[r].task = "EXECUTING" PROVE job'[r].sched
    <2>1. job'[r] = F(r) /\ job[r].sched \in BOOLEAN
        BY <1>1 DEF Typed, Job
    <2>2. QED
        BY <1>2, <1>4, <2>1
<1>5. QED
    BY <1>3, <1>4

LEMMA BeginPassInv ==
    ASSUME SuspensionInv, NEW full \in BOOLEAN, BeginPass(full)
    PROVE  SuspensionInv' /\ Quiet
<1>1. PICK b \in {bench} \cup (IF suspended = "no" /\ bench = "off"
                               THEN {"early"} ELSE {}) :
        /\ suspended' \in Suspensions(b)
        /\ job' \in CASE suspended = "no" /\ suspended' # "no" ->
                          {suspend_tasks(suspended', leave, ckpt) :
                              leave \in BOOLEAN, ckpt \in SUBSET Results}
                     [] suspended # "no" /\ suspended' = "no" ->
                          {unsuspend_all(how) : how \in StartResults}
                     [] OTHER -> {job}
        /\ bench' \in PolledBenchmarks(b, job')
    BY DEF BeginPass
<1>2. /\ userActive' \in BOOLEAN /\ mustSchedule' \in BOOLEAN
      /\ phase' \in {"poll", "cpus"}
    BY DEF BeginPass
<1>3. mustEnforce' = mustEnforce /\ ncpus' = ncpus
    BY DEF BeginPass
<1>4. b \in {"off", "early", "late"}
    BY DEF SuspensionInv, Typed
<1>5. suspended' \in {"no", "throttle", "other"} /\ (b # "off" => suspended' = "other")
    BY <1>1 DEF Suspensions
<1>6. bench' \in {"off", "early", "late"} /\ (bench' = "late" => b # "off")
    BY <1>1, <1>4 DEF PolledBenchmarks
<1>7. job' \in [Results -> Job] /\ Quiet /\ SuspensionObeyed'
    <2>1. CASE suspended = "no" /\ suspended' # "no"
        <3>1. job' \in {suspend_tasks(suspended', leave, ckpt) :
                          leave \in BOOLEAN, ckpt \in SUBSET Results}
            BY <1>1, <2>1
        <3>2. PICK leave \in BOOLEAN, ckpt \in SUBSET Results :
                job' = suspend_tasks(suspended', leave, ckpt)
            BY <3>1
        <3> DEFINE t == suspended' = "throttle" \/ leave
        <3>3. job' = suspend_all(t, leave, ckpt)
            BY <3>2 DEF suspend_tasks
        <3> HIDE DEF t
        <3>4. /\ JobsCalm
              /\ \A r \in Results : job'[r].task = "EXECUTING" => Unthrottled(r)
            BY <3>3, SuspendAllKeeps DEF SuspensionInv
        <3>5. \A r \in Results : job'[r].task = "EXECUTING" => job'[r].sched
            BY <3>4 DEF JobsCalm, Calm, SuspensionInv, SuspensionObeyed
        <3>6. SuspensionObeyed'
            BY <3>4, <3>5 DEF SuspensionObeyed, Unthrottled, CpuIntensive
        <3>7. QED
            BY <3>4, <3>6 DEF JobsCalm, Calm, Quiet, StillSent
    <2>2. CASE suspended # "no" /\ suspended' = "no"
        <3>1. job' \in {unsuspend_all(how) : how \in StartResults}
            BY <1>1, <2>2
        <3>2. PICK how \in StartResults : job' = unsuspend_all(how)
            BY <3>1
        <3>3. \A r \in Results : job[r].task = "EXECUTING" => job[r].sched
            BY DEF SuspensionInv, SuspensionObeyed
        <3>4. /\ job' \in [Results -> Job] /\ Quiet
              /\ \A r \in Results : job'[r].task = "EXECUTING" => job'[r].sched
            BY <3>2, <3>3, UnsuspendAllKeeps DEF SuspensionInv
        <3>5. QED
            BY <2>2, <3>4 DEF SuspensionObeyed
    <2>3. CASE (suspended = "no") = (suspended' = "no")
        <3>1. job' = job
            BY <1>1, <2>3
        <3>2. SuspensionObeyed'
            BY <2>3, <3>1 DEF SuspensionInv, SuspensionObeyed, Unthrottled, CpuIntensive
        <3>3. QED
            BY <3>1, <3>2 DEF SuspensionInv, Typed, Quiet, StillSent
    <2>4. QED
        BY <2>1, <2>2, <2>3
<1>8. Typed'
    BY <1>2, <1>3, <1>5, <1>6, <1>7 DEF SuspensionInv, Typed
<1>9. BenchmarksAlone'
    BY <1>1, <1>4 DEF PolledBenchmarks, BenchmarksAlone
<1>10. QED
    BY <1>2, <1>5, <1>6, <1>7, <1>8, <1>9, InvStep

\* Poll, CleanUp and most commands: applications only stop.
LEMMA CalmInv ==
    ASSUME SuspensionInv, JobsCalm, suspended' = suspended,
           {mustSchedule', mustEnforce', userActive'} \subseteq BOOLEAN,
           ncpus' \in 1..MaxCpus, bench' \in {"off", "early", "late"},
           bench' = "late" => bench = "late",
           phase' \in {"idle", "poll", "clean", "cpus", "enforce", "undefined"},
           phase' = "enforce" => suspended = "no"
    PROVE  SuspensionInv' /\ Quiet
<1>1. Typed'
    BY DEF SuspensionInv, Typed, JobsCalm
<1>2. SuspensionObeyed' /\ BenchmarksAlone' /\ Quiet
    BY CalmObeyed
<1>3. QED
    BY <1>1, <1>2, InvStep DEF SuspensionInv

LEMMA PollInv ==
    ASSUME SuspensionInv, Poll
    PROVE  SuspensionInv' /\ Quiet
<1>1. PICK size \in Sizes,
           e \in {f \in [Results -> UNION {Events(job[r]) : r \in Results}] :
                    \A r \in Results : f[r] \in Events(job[r])} :
        job' = [r \in Results |->
                  Answered(Limited(get_memory_usage(
                      check_app_exited(job[r], e[r]), size[r]), e[r]), e[r])]
    BY DEF Poll
<1>2. \A r \in Results : size[r] \in 0..MaxRss /\ job[r] \in Job
    BY DEF Sizes, SuspensionInv, Typed
<1>3. \A r \in Results :
        Calm(job[r], Answered(Limited(get_memory_usage(
                       check_app_exited(job[r], e[r]), size[r]), e[r]), e[r]))
    BY <1>2, PollCalm
<1>4. JobsCalm
    BY <1>1, <1>3 DEF JobsCalm, Calm
<1>5. mustSchedule' \in BOOLEAN /\ mustEnforce' \in BOOLEAN /\ phase' = "clean"
    BY DEF Poll
<1>6. UNCHANGED hostVars
    BY DEF Poll
<1>7. QED
    BY <1>4, <1>5, <1>6, CalmInv DEF hostVars, SuspensionInv, Typed

LEMMA CleanUpInv ==
    ASSUME SuspensionInv, CleanUp
    PROVE  SuspensionInv' /\ Quiet
<1>1. PICK late \in SUBSET {r \in Results : not_started(job[r])},
           failed \in SUBSET Downloading(job) :
        \E done \in SUBSET Downloading(garbage_collect(late, failed)) :
           job' = handle_finished_apps(update_results(garbage_collect(late, failed), done))
    BY DEF CleanUp
<1> DEFINE collected == garbage_collect(late, failed)
<1>2. PICK done \in SUBSET Downloading(collected) :
        job' = handle_finished_apps(update_results(collected, done))
    BY <1>1
<1> DEFINE updated == update_results(collected, done)
<1>3. /\ collected \in [Results -> Job]
      /\ \A r \in Results : Calm(job[r], collected[r])
    <2> DEFINE C(r) == CASE r \in late -> Ended(job[r])
                         [] late = {} /\ r \in failed ->
                              [Ended(job[r]) EXCEPT !.state = "FAILED"]
                         [] late = {} /\ r \notin failed -> CollectedAcked(job[r])
                         [] OTHER -> job[r]
    <2>1. collected = [r \in Results |-> C(r)]
        BY DEF garbage_collect
    <2>2. ASSUME NEW r \in Results PROVE Calm(job[r], C(r))
        <3>1. job[r] \in Job
            BY DEF SuspensionInv, Typed
        <3> DEFINE e == Ended(job[r])
        <3>2. Calm(job[r], e) /\ e \in Job
            BY <3>1, EndedCalm DEF Calm
        <3>3. C(r) \in {e, [e EXCEPT !.state = "FAILED"], CollectedAcked(job[r]), job[r]}
            OBVIOUS
        <3> HIDE DEF e, C
        <3>4. Calm(e, [e EXCEPT !.state = "FAILED"])
            BY <3>2, StateCalm
        <3>5. Calm(job[r], [e EXCEPT !.state = "FAILED"])
            BY <3>2, <3>4, CalmTrans
        <3>6. QED
            BY <3>1, <3>2, <3>3, <3>5, CollectedCalm, CalmSelf
    <2> HIDE DEF C, collected
    <2>3. QED
        BY <2>1, <2>2 DEF Calm
<1> HIDE DEF collected
<1>4. /\ updated \in [Results -> Job]
      /\ \A r \in Results : Calm(collected[r], updated[r])
    <2> DEFINE U(r) == IF r \in done THEN [collected[r] EXCEPT !.state = "DOWNLOADED"]
                       ELSE collected[r]
    <2>1. updated = [r \in Results |-> U(r)]
        BY DEF update_results
    <2>2. \A r \in Results : Calm(collected[r], U(r))
        BY <1>3, StateCalm, CalmSelf
    <2> HIDE DEF U, updated
    <2>3. QED
        BY <2>1, <2>2 DEF Calm
<1>5. job' = handle_finished_apps(updated)
    BY <1>2
<1> HIDE DEF updated
<1>6. /\ job' \in [Results -> Job]
      /\ \A r \in Results : Calm(updated[r], job'[r])
    <2> DEFINE H(r) == IF r \in Finished(updated) THEN NoTask(Ended(updated[r]))
                       ELSE updated[r]
    <2>1. job' = [r \in Results |-> H(r)]
        BY <1>5 DEF handle_finished_apps
    <2>2. ASSUME NEW r \in Results PROVE Calm(updated[r], H(r))
        <3>1. updated[r] \in Job
            BY <1>4
        <3>2. Calm(updated[r], Ended(updated[r])) /\ Ended(updated[r]) \in Job
            BY <3>1, EndedCalm DEF Calm
        <3>3. Calm(Ended(updated[r]), NoTask(Ended(updated[r])))
            BY <3>2, NoTaskCalm
        <3>4. Calm(updated[r], NoTask(Ended(updated[r])))
            BY <3>2, <3>3, CalmTrans
        <3>5. QED
            BY <3>1, <3>4, CalmSelf
    <2> HIDE DEF H
    <2>3. QED
        BY <2>1, <2>2 DEF Calm
<1>7. JobsCalm
    <2>1. ASSUME NEW r \in Results PROVE Calm(job[r], job'[r])
        <3>1. Calm(job[r], updated[r])
            BY <1>3, <1>4, CalmTrans
        <3>2. QED
            BY <1>6, <3>1, CalmTrans
    <2>2. QED
        BY <1>6, <2>1 DEF JobsCalm
<1>8. mustSchedule' \in BOOLEAN /\ phase' = "cpus"
    BY DEF CleanUp
<1>9. UNCHANGED <<mustEnforce, hostVars>>
    BY DEF CleanUp
<1>10. QED
    BY <1>7, <1>8, <1>9, CalmInv DEF hostVars, SuspensionInv, Typed

LEMMA ScheduleInv ==
    ASSUME SuspensionInv, ScheduleCpus
    PROVE  SuspensionInv' /\ Quiet
<1>1. PICK L : job' = [r \in Results |-> [job[r] EXCEPT !.large = r \in L]]
    BY Zenon DEF ScheduleCpus
<1>2. ASSUME NEW r \in Results PROVE Calm(job[r], [job[r] EXCEPT !.large = r \in L])
    <2>1. job[r] \in Job
        BY DEF SuspensionInv, Typed
    <2> DEFINE l == r \in L
    <2>2. l \in BOOLEAN
        OBVIOUS
    <2> HIDE DEF l
    <2>3. Calm(job[r], [job[r] EXCEPT !.large = l])
        BY <2>1, <2>2 DEF Calm, Alive, Job
    <2>4. QED
        BY <2>3 DEF l
<1>3. JobsCalm
    BY <1>1, <1>2 DEF JobsCalm, Calm
<1>4. /\ mustSchedule' \in BOOLEAN /\ mustEnforce' \in BOOLEAN /\ phase' = "enforce"
      /\ suspended = "no"
    BY DEF ScheduleCpus
<1>5. UNCHANGED hostVars
    BY DEF ScheduleCpus
<1>6. QED
    BY <1>3, <1>4, <1>5, CalmInv DEF hostVars, SuspensionInv, Typed

\* Steps that leave the jobs alone.
LEMMA IdleInv ==
    ASSUME SuspensionInv,
           KeepSchedule \/ KeepTasks \/ EnforceDeleted \/ Undefined
    PROVE  SuspensionInv' /\ Quiet
<1>1. UNCHANGED <<job, plan, flags, hostVars>>
    BY DEF KeepSchedule, KeepTasks, EnforceDeleted, Undefined, vars, flags, hostVars
<1>2. /\ phase' \in {"idle", "enforce", "undefined"}
      /\ phase' = "enforce" => suspended = "no"
    BY DEF KeepSchedule, KeepTasks, EnforceDeleted, Undefined, vars
<1>3. JobsCalm
    BY <1>1, CalmSame
<1>4. QED
    BY <1>1, <1>2, <1>3, CalmInv DEF flags, hostVars, SuspensionInv, Typed

\* enforce_schedule starts and resumes tasks, and marks them scheduled.
LEMMA RunsNowKeeps ==
    ASSUME NEW j \in Job, NEW how
    PROVE  /\ RunsNow(j, how) \in Job
           /\ RunsNow(j, how).task = "EXECUTING" => RunsNow(j, how).sched
           /\ RunsNow(j, how).state = "unsent" => j.state = "unsent"
           /\ RunsNow(j, how).rss = j.rss
           /\ j.state \notin {"unsent", "gone"} => Alive(RunsNow(j, how))
<1>1. CASE j.task \in {"none", "UNINITIALIZED"}
    <2> DEFINE i == [j EXCEPT !.task = "UNINITIALIZED"]
               s == start(i, how)
               b == s.sched \/ s.task = "EXECUTING"
    <2>1. i \in Job /\ i.state = j.state /\ i.rss = j.rss /\ i.task # "none"
        BY DEF Job
    <2> HIDE DEF i
    <2>2. /\ s \in Job /\ (s.state = "unsent" => j.state = "unsent")
          /\ s.rss = j.rss /\ (Alive(i) => Alive(s))
        BY <2>1, StartKeeps
    <2>7. j.state \notin {"unsent", "gone"} => Alive(s)
        BY <2>1, <2>2 DEF Alive
    <2>3. RunsNow(j, how) = [s EXCEPT !.sched = b]
        BY <1>1, <2>2 DEF RunsNow, i, Job
    <2> HIDE DEF s
    <2>4. b \in BOOLEAN
        OBVIOUS
    <2>5. s.task = "EXECUTING" => b
        OBVIOUS
    <2> HIDE DEF b
    <2>6. QED
        BY <2>2, <2>3, <2>4, <2>5, <2>7 DEF Alive, Job
<1>2. CASE j.task = "SUSPENDED"
    <2>1. RunsNow(j, how) = [j EXCEPT !.task = "EXECUTING", !.sched = TRUE]
        BY <1>2 DEF RunsNow
    <2>2. QED
        BY <2>1 DEF Alive, Job
<1>3. CASE j.task \notin {"none", "UNINITIALIZED", "SUSPENDED"}
    <2>1. RunsNow(j, how) = [j EXCEPT !.sched = TRUE]
        BY <1>3 DEF RunsNow
    <2>2. QED
        BY <2>1 DEF Alive, Job
<1>4. QED
    BY <1>1, <1>2, <1>3

\* What is not to run does not execute and is not scheduled.
Stopped(j, k) ==
    /\ k \in Job /\ k.task # "EXECUTING" /\ k.sched = FALSE
    /\ k.state = "unsent" => j.state = "unsent"
    /\ Alive(j) => Alive(k)

LEMMA StopsNowKeeps ==
    ASSUME NEW j \in Job, NEW leave \in BOOLEAN, NEW low_swap \in BOOLEAN,
           NEW ckpt \in BOOLEAN
    PROVE  Stopped(j, StopsNow(j, leave, low_swap, ckpt))
<1> DEFINE S == StopsNow(j, leave, low_swap, ckpt)
<1>1. ASSUME NEW k, Calm(j, k), k.task # "EXECUTING", S = [k EXCEPT !.sched = FALSE]
      PROVE  Stopped(j, S)
    <2> HIDE DEF S
    <2>1. QED
        BY <1>1 DEF Calm, Alive, Job, Stopped
<1>2. CASE j.task = "EXECUTING"
    <2> DEFINE q == ~leave \/ low_swap \/ j.large
               k == preempt(j, q, ckpt)
    <2>1. S = [k EXCEPT !.sched = FALSE]
        BY <1>2 DEF StopsNow
    <2> HIDE DEF q, S
    <2>2. Calm(j, k) /\ k.task # "EXECUTING"
        BY <1>2, PreemptCalm
    <2> HIDE DEF k
    <2>3. QED
        BY <1>1, <2>1, <2>2 DEF S
<1>3. CASE j.task = "SUSPENDED" /\ ckpt /\ ~leave
    <2> DEFINE k == preempt(j, TRUE, ckpt)
    <2>1. S = [k EXCEPT !.sched = FALSE]
        BY <1>3 DEF StopsNow
    <2> HIDE DEF S
    <2>2. Calm(j, k) /\ k.task # "EXECUTING"
        BY <1>3, PreemptCalm
    <2> HIDE DEF k
    <2>3. QED
        BY <1>1, <2>1, <2>2 DEF S
<1>4. CASE j.task # "EXECUTING" /\ ~(j.task = "SUSPENDED" /\ ckpt /\ ~leave)
    <2>1. S = [j EXCEPT !.sched = FALSE]
        BY <1>4 DEF StopsNow
    <2> HIDE DEF S
    <2>2. Calm(j, j)
        BY CalmSelf
    <2>3. QED
        BY <1>1, <1>4, <2>1, <2>2 DEF S
<1>5. QED
    BY <1>2, <1>3, <1>4

\* The last loop: what is scheduled afterwards shall run, whichever tasks
\* fail to start.
LEMMA EnforceEach ==
    ASSUME SuspensionInv, NEW st, NEW leave \in BOOLEAN, NEW low_swap \in BOOLEAN,
           NEW ckpt, NEW failing, NEW how,
           EnforceWith(st, leave, low_swap, ckpt, failing, how), NEW r \in Results
    PROVE  /\ job'[r] \in Job
           /\ job'[r].task = "EXECUTING" => job'[r].sched
           /\ job'[r].sched => r \in st.next /\ job'[r].rss = job[r].rss
           /\ job'[r].state = "unsent" => job[r].state = "unsent"
           /\ (r \in st.next => r \in Known) => (Alive(job[r]) => Alive(job'[r]))
<1> DEFINE l == r \in st.large
           c == r \in ckpt
           h == IF r \in failing THEN how ELSE "forked"
           j == [job[r] EXCEPT !.large = l]
           R == RunsNow(j, h)
           S == StopsNow(j, leave, low_swap, c)
           k == job'[r]
<1>1. l \in BOOLEAN /\ c \in BOOLEAN /\ job[r] \in Job
    BY DEF SuspensionInv, Typed
<1>2. k = Enforced(r, st, h, leave, low_swap, c)
    BY DEF EnforceWith
<1>3. k = IF r \in st.next THEN R ELSE S
    BY <1>2 DEF Enforced
<1> HIDE DEF l, c, h, k
<1>4. /\ j \in Job /\ j.state = job[r].state /\ j.rss = job[r].rss
      /\ Alive(job[r]) => Alive(j)
    BY <1>1 DEF Job, Alive
<1> HIDE DEF j
<1>5. /\ R \in Job /\ (R.task = "EXECUTING" => R.sched) /\ R.rss = j.rss
      /\ R.state = "unsent" => j.state = "unsent"
      /\ j.state \notin {"unsent", "gone"} => Alive(R)
    BY <1>4, RunsNowKeeps
<1>6. Stopped(j, S)
    BY <1>1, <1>4, StopsNowKeeps
<1>7. r \in Known => job[r].state \notin {"unsent", "gone"}
    BY DEF Known
<1> HIDE DEF R, S
<1>8. CASE r \in st.next
    BY <1>3, <1>4, <1>5, <1>7, <1>8 DEF k
<1>9. CASE r \notin st.next
    BY <1>3, <1>4, <1>6, <1>9 DEF k, Stopped
<1>10. QED
    BY <1>8, <1>9

\* Which tasks enforce_schedule lets run does not matter here.
LEMMA EnforceInv ==
    ASSUME SuspensionInv, EnforceSchedule
    PROVE  SuspensionInv' /\ StillSent
<1>0. PICK st \in Decisions, leave \in BOOLEAN, low_swap \in BOOLEAN :
        \E ckpt, failing, how : EnforceWith(st, leave, low_swap, ckpt, failing, how)
    BY DEF EnforceSchedule
<1>1. PICK ckpt, failing, how : EnforceWith(st, leave, low_swap, ckpt, failing, how)
    BY <1>0
<1>2. mustSchedule' \in BOOLEAN
    BY <1>1 DEF EnforceWith
<1>3. \A r \in Results : /\ job'[r] \in Job
                         /\ job'[r].task = "EXECUTING" => job'[r].sched
                         /\ job'[r].state = "unsent" => job[r].state = "unsent"
    BY <1>1, EnforceEach
<1>4. \E F : job' = [r \in Results |-> F[r]]
    <2> DEFINE G == [r \in Results |->
                 Enforced(r, st, IF r \in failing THEN how ELSE "forked",
                          leave, low_swap, r \in ckpt)]
    <2>1. job' = G /\ G = [r \in Results |-> G[r]]
        BY <1>1 DEF EnforceWith
    <2> HIDE DEF G
    <2>2. QED
        BY <2>1
<1>5. job' \in [Results -> Job] /\ StillSent
    BY <1>3, <1>4 DEF StillSent
<1>6. suspended' = suspended /\ suspended = "no"
    BY DEF EnforceSchedule, SuspensionInv, hostVars
<1>7. SuspensionObeyed'
    BY <1>3, <1>6 DEF SuspensionObeyed
<1>8. mustEnforce' \in BOOLEAN /\ phase' = "idle"
    BY DEF EnforceSchedule
<1>9. UNCHANGED hostVars
    BY DEF EnforceSchedule
<1>10. Typed'
    BY <1>2, <1>5, <1>8, <1>9 DEF hostVars, SuspensionInv, Typed
<1>11. bench' # "late"
    BY <1>6, <1>9 DEF hostVars, SuspensionInv
<1>12. QED
    BY <1>5, <1>7, <1>8, <1>10, <1>11, InvStep DEF BenchmarksAlone

LEMMA SchedulerReplyInv ==
    ASSUME SuspensionInv, SchedulerReply
    PROVE  SuspensionInv' /\ Quiet
<1>1. PICK new \in SUBSET {r \in Results : job[r].state = "unsent"},
           acks \in SUBSET {r \in Results : job[r].state \in {"DONE", "FAILED"}},
           aborts \in SUBSET Known :
        job' = [r \in Results |-> Replied(job[r], r \in new, r \in acks, r \in aborts)]
    BY DEF SchedulerReply
<1> DEFINE F(r) == Replied(job[r], r \in new, r \in acks, r \in aborts)
<1>2. job' = [r \in Results |-> F(r)]
    BY <1>1
<1>3. ASSUME NEW r \in Results PROVE Calm(job[r], F(r))
    <2>1. job[r] \in Job
        BY DEF SuspensionInv, Typed
    <2> DEFINE st == CASE r \in new -> "DOWNLOADING"
                       [] r \notin new /\ r \in acks -> "ACKED"
                       [] OTHER -> job[r].state
               k == [job[r] EXCEPT !.state = st]
    <2>2. st \in {"DOWNLOADING", "ACKED", job[r].state}
        OBVIOUS
    <2>3. F(r) = IF r \in aborts THEN Aborted(k) ELSE k
        BY <2>1 DEF Replied, Job
    <2> HIDE DEF st, F
    <2>4. Calm(job[r], k) /\ k \in Job
        BY <2>1, <2>2 DEF Calm, Alive, Job
    <2> HIDE DEF k
    <2>5. Calm(k, Aborted(k))
        BY <2>4, AbortCalm
    <2>6. Calm(job[r], Aborted(k))
        BY <2>4, <2>5, CalmTrans
    <2>7. QED
        BY <2>3, <2>4, <2>6
<1> HIDE DEF F
<1>4. JobsCalm
    BY <1>2, <1>3 DEF JobsCalm, Calm
<1>5. UNCHANGED <<flags, hostVars, phase>>
    BY DEF SchedulerReply
<1>6. QED
    BY <1>4, <1>5, CalmInv DEF flags, hostVars, SuspensionInv, Typed

\* One result changes.
LEMMA OneCalm ==
    ASSUME SuspensionInv, NEW r \in Results, NEW k, Calm(job[r], k),
           job' = [job EXCEPT ![r] = k]
    PROVE  JobsCalm
BY CalmSelf DEF SuspensionInv, Typed, JobsCalm, Calm

LEMMA CommandInv ==
    ASSUME SuspensionInv, Command, JobsCalm, UNCHANGED <<userActive, suspended, phase>>,
           {mustSchedule', mustEnforce'} \subseteq BOOLEAN, ncpus' \in 1..MaxCpus,
           bench' \in {bench, "early"}
    PROVE  SuspensionInv' /\ Quiet
<1>1. phase' = "idle"
    BY DEF Command
<1>2. /\ bench' \in {"off", "early", "late"} /\ (bench' = "late" => bench = "late")
      /\ userActive' \in BOOLEAN
    BY DEF SuspensionInv, Typed
<1>3. QED
    BY <1>1, <1>2, CalmInv

LEMMA ResultOpInv ==
    ASSUME SuspensionInv, NEW r \in Results, SuspendResult(r) \/ AbortResult(r)
    PROVE  SuspensionInv' /\ Quiet
<1>1. job[r] \in Job /\ job \in [Results -> Job]
    BY DEF SuspensionInv, Typed
<1>2. JobsCalm
    <2>1. CASE SuspendResult(r)
        <3> DEFINE k == [job[r] EXCEPT !.susp = ~job[r].susp]
        <3>1. Calm(job[r], k)
            BY <1>1 DEF Calm, Alive, Job
        <3>2. job' = [job EXCEPT ![r] = k]
            BY <1>1, <2>1 DEF SuspendResult, Job
        <3> HIDE DEF k
        <3>3. QED
            BY <3>1, <3>2, OneCalm
    <2>2. CASE AbortResult(r)
        <3>1. Calm(job[r], Aborted(job[r]))
            BY <1>1, AbortCalm
        <3>2. job' = [job EXCEPT ![r] = Aborted(job[r])]
            BY <1>1, <2>2 DEF AbortResult
        <3>3. QED
            BY <3>1, <3>2, OneCalm
    <2>3. QED
        BY <2>1, <2>2
<1>3. /\ Command /\ UNCHANGED <<hostVars, phase, mustEnforce>> /\ mustSchedule' = TRUE
    BY DEF SuspendResult, AbortResult, Requested, hostVars
<1>4. QED
    BY <1>2, <1>3, CommandInv DEF hostVars, SuspensionInv, Typed

LEMMA ResetInv ==
    ASSUME SuspensionInv, NEW p \in Projects, ResetProject(p)
    PROVE  SuspensionInv' /\ Quiet
<1> DEFINE g == [Unsent EXCEPT !.state = "gone"]
           F(r) == IF r \in Known /\ ProjectOf[r] = p THEN g ELSE job[r]
<1>1. \A r \in Results : Calm(job[r], F(r))
    BY GoneCalm, CalmSelf DEF SuspensionInv, Typed
<1>2. job' = [r \in Results |-> F(r)]
    BY DEF ResetProject
<1> HIDE DEF F
<1>3. JobsCalm
    BY <1>1, <1>2 DEF JobsCalm, Calm
<1>4. /\ Command /\ UNCHANGED <<hostVars, phase, mustEnforce>> /\ mustSchedule' = TRUE
    BY DEF ResetProject, Requested, hostVars
<1>5. QED
    BY <1>3, <1>4, CommandInv DEF hostVars, SuspensionInv, Typed

LEMMA HostCommandInv ==
    ASSUME SuspensionInv, (\E n \in 1..MaxCpus : ChangePrefs(n)) \/ RunBenchmarks
    PROVE  SuspensionInv' /\ Quiet
<1>1. JobsCalm
    BY CalmSame DEF ChangePrefs, RunBenchmarks
<1>2. CASE \E n \in 1..MaxCpus : ChangePrefs(n)
    <2>1. /\ Command /\ UNCHANGED <<userActive, suspended, bench, phase, mustEnforce>>
          /\ mustSchedule' = TRUE /\ ncpus' \in 1..MaxCpus
        BY <1>2 DEF ChangePrefs, Requested
    <2>2. QED
        BY <1>1, <2>1, CommandInv DEF SuspensionInv, Typed
<1>3. CASE RunBenchmarks
    <2>1. /\ Command /\ UNCHANGED <<userActive, suspended, ncpus, phase, flags>>
          /\ bench' = "early"
        BY <1>3 DEF RunBenchmarks
    <2>2. QED
        BY <1>1, <2>1, CommandInv DEF flags, SuspensionInv, Typed
<1>4. QED
    BY <1>2, <1>3

LEMMA StepInv ==
    ASSUME SuspensionInv, [Next]_vars
    PROVE  SuspensionInv' /\ StillSent /\ (EnforceSchedule \/ Quiet)
<1>0. Quiet => StillSent
    BY DEF Quiet
<1>1. CASE FullPass \/ ShortPass
    BY <1>0, <1>1, BeginPassInv DEF FullPass, ShortPass
<1>2. CASE Poll \/ CleanUp
    BY <1>0, <1>2, PollInv, CleanUpInv
<1>3. CASE ScheduleCpus
    BY <1>0, <1>3, ScheduleInv
<1>4. CASE KeepSchedule \/ KeepTasks \/ EnforceDeleted \/ Undefined
    BY <1>0, <1>4, IdleInv
<1>5. CASE EnforceSchedule
    BY <1>0, <1>5, EnforceInv
<1>6. CASE SchedulerReply
    BY <1>0, <1>6, SchedulerReplyInv
<1>7. CASE \E r \in Results : SuspendResult(r) \/ AbortResult(r)
    BY <1>0, <1>7, ResultOpInv
<1>8. CASE \E p \in Projects : ResetProject(p)
    BY <1>0, <1>8, ResetInv
<1>9. CASE (\E n \in 1..MaxCpus : ChangePrefs(n)) \/ RunBenchmarks
    BY <1>0, <1>9, HostCommandInv
<1>10. CASE UNCHANGED vars
    <2>1. job' = job
        BY <1>10 DEF vars
    <2>2. SuspensionInv'
        BY <1>10 DEF vars, flags, hostVars, SuspensionInv, Typed, SuspensionObeyed,
                     BenchmarksAlone, Unthrottled, CpuIntensive
    <2>3. QED
        BY <2>1, <2>2 DEF Quiet, StillSent
<1>11. QED
    BY <1>1, <1>2, <1>3, <1>4, <1>5, <1>6, <1>7, <1>8, <1>9, <1>10 DEF Next

LEMMA InitInv == Init => SuspensionInv
<1> SUFFICES ASSUME Init PROVE SuspensionInv
    OBVIOUS
<1>1. PICK s \in BOOLEAN : job = [r \in Results |-> [Unsent EXCEPT !.susp = s]]
    BY DEF Init
<1>2. 0 \in 0..MaxRss /\ MaxCpus \in 1..MaxCpus
    BY CpuSchedAssumption
<1>3. [Unsent EXCEPT !.susp = s] \in Job /\ [Unsent EXCEPT !.susp = s].task = "none"
    BY <1>2 DEF Unsent, Job
<1>4. job \in [Results -> Job] /\ \A r \in Results : job[r].task = "none"
    BY <1>1, <1>3
<1>5. Typed
    BY <1>2, <1>4 DEF Init, Typed
<1>6. QED
    BY <1>4, <1>5 DEF Init, SuspensionInv, SuspensionObeyed, BenchmarksAlone

LEMMA AlwaysInv == Spec => []SuspensionInv
<1>1. SuspensionInv /\ [Next]_vars => SuspensionInv'
    BY StepInv
<1>2. QED
    BY <1>1, InitInv, PTL DEF Spec

-----------------------------------------------------------------------------
(***************************************************************************)
(* The list, over all steps.                                               *)
(***************************************************************************)

\* What TypeOK says of ordered_scheduled_results.
ListInv ==
    /\ plan \in Seq(Results) /\ IsInjective(plan)
    /\ ToSet(plan) \subseteq CpuIntensive
    /\ \A r \in ToSet(plan) : job[r].state # "unsent"

LEMMA EmptyList ==
    /\ <<>> \in Seq(Results) /\ IsInjective(<<>>) /\ ToSet(<<>>) = {}
BY DEF IsInjective, ToSet

\* The orders schedule_cpus may consider the results in.
LEMMA OrderTyped ==
    ASSUME NEW s \in DeadlineOrders
    PROVE  /\ s \in Seq(Results) /\ IsInjective(s)
           /\ \A r \in ToSet(s) : r \in CpuIntensive /\ job[r].state # "unsent"
<1> DEFINE S == {r \in CpuIntensive : runnable(job[r])}
<1>1. S \subseteq Results /\ S \subseteq CpuIntensive
      /\ \A r \in S : job[r].state # "unsent"
    BY DEF CpuIntensive, runnable
<1>2. s \in SetToSeqs(S)
    BY DEF DeadlineOrders
<1> HIDE DEF S
<1>3. Cardinality(S) \in Nat
    <2>1. IsFiniteSet(S)
        BY <1>1, CpuSchedAssumption, FS_Subset
    <2>2. QED
        BY <2>1, FS_CardinalityType
<1>4. /\ s \in [1..Cardinality(S) -> S]
      /\ \A i, j \in 1..Cardinality(S) : i # j => s[i] # s[j]
    BY <1>2 DEF SetToSeqs
<1>5. s \in Seq(S)
    BY <1>3, <1>4
<1>6. s \in Seq(Results)
    BY <1>1, <1>5
<1>7. IsInjective(s)
    BY <1>4 DEF IsInjective
<1>8. \A r \in ToSet(s) : r \in S
    BY <1>4 DEF ToSet
<1>9. QED
    BY <1>1, <1>6, <1>7, <1>8

LEMMA StepList ==
    ASSUME SuspensionInv, ListInv, [Next]_vars
    PROVE  ListInv'
<1>1. StillSent
    BY StepInv
<1>2. CASE plan' = plan
    <2>1. ToSet(plan) \subseteq Results
        BY DEF ListInv, CpuIntensive
    <2>2. \A r \in ToSet(plan) : job'[r].state # "unsent"
        BY <1>1, <2>1 DEF ListInv, StillSent
    <2>3. ListInv' <=> /\ plan' \in Seq(Results) /\ IsInjective(plan')
                       /\ ToSet(plan') \subseteq CpuIntensive
                       /\ \A r \in ToSet(plan') : job'[r].state # "unsent"
        BY DEF ListInv, CpuIntensive
    <2>4. QED
        BY <1>2, <2>2, <2>3 DEF ListInv
<1>3. CASE plan' = <<>>
    BY <1>3, EmptyList DEF ListInv
<1>4. CASE ScheduleCpus
    <2>1. PICK s \in DeadlineOrders : plan' = Scheduling(s).list
        BY <1>4, Zenon DEF ScheduleCpus
    <2>2. /\ s \in Seq(Results) /\ IsInjective(s)
          /\ \A r \in ToSet(s) : r \in CpuIntensive /\ job[r].state # "unsent"
        BY OrderTyped
    <2>3. /\ plan' \in Seq(Results) /\ IsInjective(plan')
          /\ ToSet(plan') \subseteq ToSet(s)
        BY <2>1, <2>2, SchedulingList DEF SuspensionInv
    <2>4. \A r \in ToSet(plan') : r \in CpuIntensive /\ job'[r].state # "unsent"
        BY <1>1, <2>2, <2>3 DEF StillSent, CpuIntensive
    <2>5. QED
        BY <2>3, <2>4 DEF ListInv, CpuIntensive
<1>5. QED
    <2>1. CASE FullPass \/ ShortPass \/ Poll \/ CleanUp
        <3>1. FullPass \/ ShortPass => plan' = plan
            <4>1. ASSUME NEW full \in BOOLEAN, BeginPass(full) PROVE plan' = plan
                BY <4>1 DEF BeginPass
            <4>2. QED
                BY <4>1, Zenon DEF FullPass, ShortPass
        <3>2. Poll => plan' = plan
            BY DEF Poll
        <3>3. CleanUp => plan' = plan
            BY DEF CleanUp
        <3>4. QED
            BY <1>2, <2>1, <3>1, <3>2, <3>3
    <2>2. CASE KeepSchedule \/ EnforceSchedule \/ KeepTasks \/ EnforceDeleted
        BY <1>2, <2>2 DEF KeepSchedule, EnforceSchedule, KeepTasks, EnforceDeleted
    <2>3. CASE Undefined \/ UNCHANGED vars
        BY <1>2, <2>3 DEF Undefined, vars
    <2>4. CASE SchedulerReply \/ RunBenchmarks \/ \E n \in 1..MaxCpus : ChangePrefs(n)
        BY <1>2, <2>4 DEF SchedulerReply, RunBenchmarks, ChangePrefs
    <2>5. CASE \E r \in Results : SuspendResult(r) \/ AbortResult(r)
        BY <1>2, <2>5 DEF SuspendResult, AbortResult
    <2>6. CASE \E p \in Projects : ResetProject(p)
        BY <1>3, <2>6 DEF ResetProject
    <2>7. QED
        BY <1>4, <2>1, <2>2, <2>3, <2>4, <2>5, <2>6 DEF Next

\* Every variable keeps its type, and ordered_scheduled_results, which
\* schedule_cpus makes and enforce_schedule reads in later passes, names no
\* result twice and none that has not arrived.
THEOREM TypeCorrect == Spec => []TypeOK
<1>1. Init => ListInv
    BY EmptyList DEF Init, ListInv
<1>2. SuspensionInv /\ ListInv /\ [Next]_vars => ListInv'
    BY StepList
<1>3. SuspensionInv /\ ListInv => TypeOK
    BY DEF SuspensionInv, Typed, ListInv, TypeOK
<1>4. QED
    BY <1>1, <1>2, <1>3, AlwaysInv, PTL DEF Spec

\* Neither resuming everything (unsuspend_all) nor enforcing the schedule
\* (enforce_schedule) lets any application execute after its task was
\* preempted, or one that uses a full CPU while computing is suspended; those
\* that use less (non_cpu_intensive, or avg_ncpus < 1.0) are excepted, since
\* suspend_all may be told to leave them alone.
THEOREM SuspensionKept == Spec => []SuspensionObeyed
<1>1. SuspensionInv => SuspensionObeyed
    BY DEF SuspensionInv
<1>2. QED
    BY <1>1, AlwaysInv, PTL

\* When the benchmarks have begun to measure (cpu_benchmarks_poll), no task is
\* EXECUTING, whatever CPU its application uses, until they are over, and
\* whatever the scheduler and the user do meanwhile.
THEOREM BenchmarksUndisturbed == Spec => []BenchmarksAlone
<1>1. SuspensionInv => BenchmarksAlone
    BY DEF SuspensionInv
<1>2. QED
    BY <1>1, AlwaysInv, PTL

-----------------------------------------------------------------------------
(***************************************************************************)
(* enforce_schedule: its loops go over st, and at every round the tasks    *)
(* that shall run, less those still in running_tasks, have been paid for   *)
(* with ram_left.                                                          *)
(***************************************************************************)

\* The variables of enforce_schedule.
St == [next : SUBSET Results, running : SUBSET Results, used : Int, ram : Int,
       missed : [Projects -> Int], large : SUBSET Results]

\* The tasks that need a CPU and shall run, and those of them whose memory
\* has been counted.
Chosen(st) == st.next \cap CpuIntensive
Counted(st) == Chosen(st) \ st.running

\* Between the rounds: ncpus_used is the number of tasks that shall run, and
\* ram_left is what those counted leave of the memory.
LoopInv(st) ==
    /\ st.running \subseteq Chosen(st) /\ st.running \subseteq Running
    /\ st.used = Cardinality(Chosen(st))
    /\ st.next \subseteq Known
    /\ st.ram >= 0 /\ Total(job, Counted(st)) + st.ram = available_ram

LEMMA FiniteParts ==
    ASSUME NEW S \in SUBSET Results
    PROVE  IsFiniteSet(S) /\ Cardinality(S) \in Nat
BY CpuSchedAssumption, FS_Subset, FS_CardinalityType

LEMMA ChosenFinite ==
    ASSUME NEW st \in St
    PROVE  Chosen(st) \in SUBSET Results /\ Counted(st) \in SUBSET Results
BY DEF Chosen, Counted, St

\* The memory of some tasks together.
LEMMA RssTotal ==
    ASSUME Typed
    PROVE  /\ Total(job, {}) = 0
           /\ \A S \in SUBSET Results : Total(job, S) \in Nat
           /\ \A S \in SUBSET Results : \A r \in Results : r \notin S =>
                Total(job, S \cup {r}) = job[r].rss + Total(job, S)
<1>1. IsFiniteSet(Results) /\ \A r \in Results : job[r].rss \in Nat
    BY CpuSchedAssumption, RamTyped
<1>2. /\ Total(job, {}) = 0
      /\ \A S \in SUBSET Results : Total(job, S) \in Nat
      /\ \A S \in SUBSET Results : \A r \in S :
           Total(job, S) = job[r].rss + Total(job, S \ {r})
    BY <1>1, TotalRemove
<1>3. ASSUME NEW S \in SUBSET Results, NEW r \in Results, r \notin S
      PROVE  Total(job, S \cup {r}) = job[r].rss + Total(job, S)
    <2>1. (S \cup {r}) \ {r} = S
        BY <1>3
    <2>2. QED
        BY <1>2, <2>1
<1>4. QED
    BY <1>2, <1>3

\* A running task is marked for preemption.
LEMMA PreemptLoop ==
    ASSUME Typed, NEW st \in St, LoopInv(st), NEW t \in st.running, NEW u \in St,
           u.next = st.next \ {t}, u.running = st.running \ {t},
           u.used = st.used - 1, u.ram = st.ram
    PROVE  LoopInv(u) /\ Counted(u) = Counted(st)
<1>1. Chosen(u) = Chosen(st) \ {t} /\ Counted(u) = Counted(st) /\ t \in Chosen(st)
    BY DEF Chosen, Counted, LoopInv
<1>2. IsFiniteSet(Chosen(st)) /\ Cardinality(Chosen(st)) \in Nat
    BY ChosenFinite, FiniteParts
<1>3. Cardinality(Chosen(u)) = Cardinality(Chosen(st)) - 1
    BY <1>1, <1>2, FS_RemoveElement
<1>4. u.running \subseteq Chosen(u) /\ u.running \subseteq Running /\ u.next \subseteq Known
    BY <1>1 DEF LoopInv
<1>5. QED
    BY <1>1, <1>3, <1>4 DEF LoopInv

\* A task is to run that did not.
LEMMA RunLoop ==
    ASSUME Typed, NEW st \in St, LoopInv(st), NEW r \in CpuIntensive, r \in Known,
           r \notin Chosen(st), job[r].rss <= st.ram, NEW u \in St,
           u.next = st.next \cup {r}, u.running = st.running,
           u.used = st.used + 1, u.ram = st.ram - job[r].rss
    PROVE  LoopInv(u) /\ Counted(u) = Counted(st) \cup {r} /\ r \notin Counted(st)
<1>1. /\ Chosen(u) = Chosen(st) \cup {r} /\ Counted(u) = Counted(st) \cup {r}
      /\ r \notin Counted(st) /\ r \in Results
    BY DEF Chosen, Counted, LoopInv, CpuIntensive
<1>2. IsFiniteSet(Chosen(st)) /\ Cardinality(Chosen(st)) \in Nat
    BY ChosenFinite, FiniteParts
<1>3. Cardinality(Chosen(u)) = Cardinality(Chosen(st)) + 1
    BY <1>1, <1>2, FS_AddElement
<1>4. u.running \subseteq Chosen(u) /\ u.running \subseteq Running /\ u.next \subseteq Known
    BY <1>1 DEF LoopInv
<1>5. /\ Total(job, Counted(st)) \in Nat
      /\ Total(job, Counted(u)) = job[r].rss + Total(job, Counted(st))
    BY <1>1, ChosenFinite, RssTotal
<1>6. job[r].rss \in Nat /\ st.ram \in Int /\ available_ram \in Nat
    BY <1>1, RamTyped DEF St
<1>7. u.ram >= 0 /\ Total(job, Counted(u)) + u.ram = available_ram
    BY <1>5, <1>6 DEF LoopInv
<1>8. QED
    BY <1>1, <1>3, <1>4, <1>7 DEF LoopInv

\* A running task goes on.
LEMMA KeepLoop ==
    ASSUME Typed, NEW st \in St, LoopInv(st), NEW r \in st.running,
           job[r].rss <= st.ram, NEW u \in St,
           u.next = st.next, u.running = st.running \ {r},
           u.used = st.used, u.ram = st.ram - job[r].rss
    PROVE  LoopInv(u) /\ Counted(u) = Counted(st) \cup {r} /\ r \notin Counted(st)
<1>1. /\ Chosen(u) = Chosen(st) /\ Counted(u) = Counted(st) \cup {r}
      /\ r \notin Counted(st) /\ r \in Results
    BY DEF Chosen, Counted, LoopInv, CpuIntensive
<1>2. u.running \subseteq Chosen(u) /\ u.running \subseteq Running /\ u.next \subseteq Known
    BY <1>1 DEF LoopInv
<1>3. /\ Total(job, Counted(st)) \in Nat
      /\ Total(job, Counted(u)) = job[r].rss + Total(job, Counted(st))
    BY <1>1, ChosenFinite, RssTotal
<1>4. job[r].rss \in Nat /\ st.ram \in Int /\ available_ram \in Nat
    BY <1>1, RamTyped DEF St
<1>5. u.ram >= 0 /\ Total(job, Counted(u)) + u.ram = available_ram
    BY <1>3, <1>4 DEF LoopInv
<1>6. QED
    BY <1>1, <1>2, <1>5 DEF LoopInv

\* Only too_large and deadlines_missed change.
LEMMA SameLoop ==
    ASSUME NEW st, LoopInv(st), NEW u,
           u.next = st.next, u.running = st.running, u.used = st.used, u.ram = st.ram
    PROVE  LoopInv(u) /\ Counted(u) = Counted(st)
BY DEF LoopInv, Chosen, Counted

-----------------------------------------------------------------------------
\* The heap has a front: of the tasks of some set one is in front of no
\* other in the order of their age.
LEMMA Youngest ==
    ASSUME NEW E, E # {}, NEW age \in Seq(Results), IsInjective(age)
    PROVE  \E t \in E : \A u \in E \ {t} :
             ~ \E i, k \in 1..Len(age) : i < k /\ age[i] = u /\ age[k] = t
<1> DEFINE I == {i \in 1..Len(age) : age[i] \in E}
<1>1. Len(age) \in Nat /\ DOMAIN age = 1..Len(age)
    OBVIOUS
<1>2. CASE I = {}
    <2>1. PICK t : t \in E
        OBVIOUS
    <2>2. \A k \in 1..Len(age) : age[k] # t
        BY <1>2, <2>1
    <2>3. QED
        BY <2>1, <2>2
<1>3. CASE I # {}
    <2>1. I \subseteq Nat
        BY <1>1
    <2>2. PICK x \in I : \A y \in I : x <= y
        BY <1>3, <2>1, LeastNat
    <2> DEFINE t == age[x]
    <2>3. t \in E /\ x \in 1..Len(age)
        BY <2>2
    <2>4. ASSUME NEW u \in E \ {t}, NEW i \in 1..Len(age), NEW k \in 1..Len(age),
                 i < k, age[i] = u, age[k] = t
          PROVE  FALSE
        <3>1. k = x
            BY <1>1, <2>3, <2>4 DEF IsInjective
        <3>2. i \in I
            BY <2>4
        <3>3. QED
            BY <1>1, <2>2, <2>4, <3>1, <3>2
    <2> HIDE DEF t
    <2>5. QED
        BY <2>3, <2>4
<1>4. QED
    BY <1>2, <1>3

LEMMA FrontRuns ==
    ASSUME NEW st \in St, st.running # {}, NEW age \in Seq(Results), IsInjective(age)
    PROVE  MostPreemptable(st, age) \in st.running
<1> DEFINE late(t) == st.missed[ProjectOf[t]] > 0
           Before(u, t) == \E i, k \in 1..Len(age) : i < k /\ age[i] = u /\ age[k] = t
           Ok(t) == \A u \in st.running \ {t} : ~more_preemptable(t, u, st.missed, age)
           L == {t \in st.running : late(t)}
<1>1. \A t \in st.running : t \in Results /\ Deadline[t] \in Nat
    BY CpuSchedAssumption DEF St
<1>2. \A t, u : more_preemptable(t, u, st.missed, age) <=>
            CASE late(t) # late(u) -> late(u)
              [] late(t) /\ late(u) /\ Deadline[t] # Deadline[u] ->
                   Deadline[t] > Deadline[u]
              [] OTHER -> Before(u, t)
    BY Zenon DEF more_preemptable
<1>3. \E t \in st.running : Ok(t)
    <2>1. CASE L = {}
        <3>1. PICK t \in st.running : \A u \in st.running \ {t} : ~Before(u, t)
            BY Youngest
        <3>2. \A u \in st.running : ~late(u)
            BY <2>1
        <3> HIDE DEF Before, late
        <3>3. Ok(t)
            BY <1>2, <3>1, <3>2
        <3>4. QED
            BY <3>3
    <2>2. CASE L # {}
        <3> DEFINE D == {Deadline[t] : t \in L}
        <3>1. D \subseteq Nat /\ D # {}
            BY <1>1, <2>2
        <3>2. PICK d \in D : \A e \in D : d <= e
            BY <3>1, LeastNat
        <3> DEFINE E == {t \in L : Deadline[t] = d}
        <3>3. E # {}
            BY <3>2
        <3> HIDE DEF E
        <3>4. PICK t \in E : \A u \in E \ {t} : ~Before(u, t)
            BY <3>3, Youngest
        <3>5. t \in st.running /\ late(t) /\ Deadline[t] = d
            BY <3>4 DEF E
        <3>6. ASSUME NEW u \in st.running, late(u)
              PROVE  d <= Deadline[u] /\ (Deadline[u] = d => u \in E)
            BY <3>2, <3>6 DEF E
        <3>7. d \in Nat
            BY <3>1, <3>2
        <3> HIDE DEF Before, late
        <3>8. ASSUME NEW u \in st.running \ {t}
              PROVE  ~more_preemptable(t, u, st.missed, age)
            <4>1. CASE ~late(u)
                BY <1>2, <3>5, <4>1
            <4>2. CASE late(u) /\ Deadline[u] # d
                BY <1>1, <1>2, <3>5, <3>6, <3>7, <4>2
            <4>3. CASE late(u) /\ Deadline[u] = d
                BY <1>2, <3>4, <3>5, <3>6, <4>3
            <4>4. QED
                BY <4>1, <4>2, <4>3
        <3>9. QED
            BY <3>5, <3>8
    <2>3. QED
        BY <2>1, <2>2
<1> HIDE DEF Ok
<1>4. QED
    BY <1>3 DEF MostPreemptable, Ok

-----------------------------------------------------------------------------
\* The assignments of the loops.
LEMMA PreemptedTyped ==
    ASSUME NEW st \in St, NEW t, NEW u, u = Preempted(st, t)
    PROVE  /\ u \in St /\ u.next = st.next \ {t} /\ u.running = st.running \ {t}
           /\ u.used = st.used - 1 /\ u.ram = st.ram
<1> DEFINE n == st.next \ {t}
           r == st.running \ {t}
           k == st.used - 1
<1>1. n \in SUBSET Results /\ r \in SUBSET Results /\ k \in Int
    BY DEF St
<1>2. u = [st EXCEPT !.next = n, !.running = r, !.used = k]
    BY DEF Preempted, St
<1> HIDE DEF n, r, k
<1>3. u \in St /\ u.next = n /\ u.running = r /\ u.used = k /\ u.ram = st.ram
    BY <1>1, <1>2 DEF St
<1>4. QED
    BY <1>3 DEF n, r, k

\* A task is marked too_large or not.
LEMMA LargeTyped ==
    ASSUME NEW st \in St, NEW l \in SUBSET Results, NEW u, u = [st EXCEPT !.large = l]
    PROVE  /\ u \in St /\ u.next = st.next /\ u.running = st.running
           /\ u.used = st.used /\ u.ram = st.ram
BY DEF St

LEMMA MissedTyped ==
    ASSUME NEW st \in St, NEW m \in [Projects -> Int], NEW u,
           u = [st EXCEPT !.missed = m]
    PROVE  /\ u \in St /\ u.next = st.next /\ u.running = st.running
           /\ u.used = st.used /\ u.ram = st.ram
BY DEF St

LEMMA RunTaskTyped ==
    ASSUME Typed, NEW st \in St, NEW r \in Results, NEW u, u = RunTask(st, r)
    PROVE  /\ u \in St /\ u.next = st.next \cup {r} /\ u.running = st.running
           /\ u.used = st.used + 1 /\ u.ram = st.ram - job[r].rss
<1> DEFINE n == st.next \cup {r}
           k == st.used + 1
           m == st.ram - job[r].rss
           l == st.large \ {r}
<1>1. job[r].rss \in Nat
    BY RamTyped
<1>2. n \in SUBSET Results /\ k \in Int /\ m \in Int /\ l \in SUBSET Results
    BY <1>1 DEF St
<1>3. u = [st EXCEPT !.next = n, !.used = k, !.ram = m, !.large = l]
    BY DEF RunTask, St
<1> HIDE DEF n, k, m, l
<1>4. u \in St /\ u.next = n /\ u.running = st.running /\ u.used = k /\ u.ram = m
    BY <1>2, <1>3 DEF St
<1>5. QED
    BY <1>4 DEF n, k, m

LEMMA KeepTaskTyped ==
    ASSUME Typed, NEW st \in St, NEW r \in Results, NEW u, u = KeepTask(st, r)
    PROVE  /\ u \in St /\ u.running = st.running \ {r}
           /\ \/ /\ job[r].rss > st.ram /\ u.next = st.next \ {r}
                 /\ u.used = st.used - 1 /\ u.ram = st.ram
              \/ /\ ~(job[r].rss > st.ram) /\ u.next = st.next
                 /\ u.used = st.used /\ u.ram = st.ram - job[r].rss
<1>1. CASE job[r].rss > st.ram
    <2> DEFINE v == Preempted(st, r)
               l == v.large \cup {r}
    <2>1. /\ v \in St /\ v.next = st.next \ {r} /\ v.running = st.running \ {r}
          /\ v.used = st.used - 1 /\ v.ram = st.ram
        BY PreemptedTyped
    <2>2. u = [v EXCEPT !.large = l]
        BY <1>1, <2>1 DEF KeepTask, St
    <2> HIDE DEF v
    <2>3. l \in SUBSET Results
        BY <2>1 DEF St
    <2> HIDE DEF l
    <2>4. /\ u \in St /\ u.next = v.next /\ u.running = v.running
          /\ u.used = v.used /\ u.ram = v.ram
        BY <2>1, <2>2, <2>3, LargeTyped
    <2>5. QED
        BY <1>1, <2>1, <2>4
<1>2. CASE ~(job[r].rss > st.ram)
    <2> DEFINE n == st.running \ {r}
               m == st.ram - job[r].rss
               l == st.large \ {r}
    <2>1. job[r].rss \in Nat
        BY RamTyped
    <2>2. n \in SUBSET Results /\ m \in Int /\ l \in SUBSET Results
        BY <2>1 DEF St
    <2>3. u = [st EXCEPT !.running = n, !.ram = m, !.large = l]
        BY <1>2 DEF KeepTask, St
    <2> HIDE DEF n, m, l
    <2>4. /\ u \in St /\ u.next = st.next /\ u.running = n /\ u.used = st.used
          /\ u.ram = m
        BY <2>2, <2>3 DEF St
    <2>5. QED
        BY <1>2, <2>4 DEF n, m
<1>3. QED
    BY <1>1, <1>2

\* A round of the loop over ordered_scheduled_results.
LEMMA ConsiderTyped ==
    ASSUME Typed, NEW st \in St, NEW r \in Results, NEW age, NEW ripe,
           NEW u, u = Consider(st, r, age, ripe)
    PROVE  /\ u \in St
           /\ \/ r \in st.running /\ u = KeepTask(st, r)
              \/ /\ r \notin st.running
                 /\ u.next = st.next /\ u.running = st.running
                 /\ u.used = st.used /\ u.ram = st.ram
              \/ /\ r \notin st.running /\ ~(job[r].rss > st.ram)
                 /\ ~(st.used >= ncpus /\ st.running # {}) /\ u = RunTask(st, r)
              \/ /\ r \notin st.running /\ ~(job[r].rss > st.ram)
                 /\ st.used >= ncpus /\ st.running # {}
                 /\ \E v \in St :
                      LET t == MostPreemptable(st, age)
                      IN  /\ v.next = st.next \ {t} /\ v.running = st.running \ {t}
                          /\ v.used = st.used - 1 /\ v.ram = st.ram
                          /\ u = RunTask(v, r)
<1>1. CASE r \in st.running
    <2>1. u = KeepTask(st, r)
        BY <1>1 DEF Consider
    <2>2. u \in St
        BY <2>1, KeepTaskTyped
    <2>3. QED
        BY <1>1, <2>1, <2>2
<1>2. CASE r \notin st.running /\ job[r].rss > st.ram
    <2> DEFINE l == st.large \cup {r}
    <2>1. u = [st EXCEPT !.large = l]
        BY <1>2 DEF Consider, St
    <2>2. l \in SUBSET Results
        BY DEF St
    <2> HIDE DEF l
    <2>3. /\ u \in St /\ u.next = st.next /\ u.running = st.running
          /\ u.used = st.used /\ u.ram = st.ram
        BY <2>1, <2>2, LargeTyped
    <2>4. QED
        BY <1>2, <2>3
<1>3. CASE r \notin st.running /\ ~(job[r].rss > st.ram)
    <2> DEFINE need  == st.used >= ncpus /\ st.running # {}
               front == MostPreemptable(st, age)
               late  == st.missed[ProjectOf[r]] > 0
    <2>1. u = preempt_if_needed(st, r, age, ripe)
        BY <1>3 DEF Consider
    <2>2. CASE ~need
        <3>1. u = RunTask(st, r)
            BY <2>1, <2>2 DEF preempt_if_needed
        <3>2. u \in St
            BY <3>1, RunTaskTyped
        <3>3. QED
            BY <1>3, <2>2, <3>1, <3>2
    <2>3. CASE need /\ (late \/ front \in ripe)
        <3> DEFINE p == Preempted(st, front)
                   q == ProjectOf[r]
                   m == [p.missed EXCEPT ![q] = IF late THEN p.missed[q] - 1 ELSE 0]
                   v == [p EXCEPT !.missed = m]
        <3>1. /\ p \in St /\ p.next = st.next \ {front}
              /\ p.running = st.running \ {front}
              /\ p.used = st.used - 1 /\ p.ram = st.ram
            BY PreemptedTyped
        <3>2. q \in Projects
            BY CpuSchedAssumption
        <3>3. u = RunTask([p EXCEPT !.missed[q] = IF late THEN @ - 1 ELSE 0], r)
            BY <2>1, <2>3, Zenon DEF preempt_if_needed
        <3>4. [p EXCEPT !.missed[q] = IF late THEN @ - 1 ELSE 0] = v
            <4> HIDE DEF p, q, late
            <4>1. QED
                BY <3>1, <3>2 DEF St
        <3>5. m \in [Projects -> Int]
            <4> HIDE DEF p, q, late
            <4>1. p.missed \in [Projects -> Int] /\ p.missed[q] \in Int
                BY <3>1, <3>2 DEF St
            <4>2. QED
                BY <3>2, <4>1
        <3> HIDE DEF m, p, front
        <3>6. /\ v \in St /\ v.next = p.next /\ v.running = p.running
              /\ v.used = p.used /\ v.ram = p.ram
            BY <3>1, <3>5, MissedTyped
        <3>7. u = RunTask(v, r)
            BY <3>3, <3>4
        <3> HIDE DEF v
        <3>8. u \in St
            BY <3>6, <3>7, RunTaskTyped
        <3>9. /\ v.next = st.next \ {front} /\ v.running = st.running \ {front}
              /\ v.used = st.used - 1 /\ v.ram = st.ram
            BY <3>1, <3>6
        <3>10. QED
            BY <1>3, <2>3, <3>6, <3>7, <3>8, <3>9 DEF front
    <2>4. CASE need /\ ~(late \/ front \in ripe)
        <3> DEFINE l == st.large \ {r}
        <3>1. u = [st EXCEPT !.large = l]
            BY <2>1, <2>4 DEF preempt_if_needed, St
        <3>2. l \in SUBSET Results
            BY DEF St
        <3> HIDE DEF l
        <3>3. /\ u \in St /\ u.next = st.next /\ u.running = st.running
              /\ u.used = st.used /\ u.ram = st.ram
            BY <3>1, <3>2, LargeTyped
        <3>4. QED
            BY <1>3, <3>3
    <2>5. QED
        BY <2>2, <2>3, <2>4
<1>4. QED
    BY <1>1, <1>2, <1>3

LEMMA ConsiderKeeps ==
    ASSUME Typed, NEW st \in St, LoopInv(st), st.used <= ncpus,
           NEW r \in CpuIntensive, r \in Known, r \notin Counted(st),
           Cardinality(Counted(st)) < ncpus,
           NEW age \in Seq(Results), IsInjective(age), NEW ripe,
           NEW u, u = Consider(st, r, age, ripe)
    PROVE  /\ u \in St /\ LoopInv(u) /\ u.used <= ncpus
           /\ Counted(u) \in {Counted(st), Counted(st) \cup {r}}
<1>1. r \in Results /\ job[r].rss \in Nat /\ ncpus \in Nat
    BY RamTyped DEF CpuIntensive
<1>2. st.used \in Int /\ st.ram \in Int
    BY DEF St
<1>3. u \in St
    BY <1>1, ConsiderTyped
<1>4. CASE r \in st.running /\ u = KeepTask(st, r)
    <2>1. CASE job[r].rss > st.ram
        <3>1. /\ u.next = st.next \ {r} /\ u.running = st.running \ {r}
              /\ u.used = st.used - 1 /\ u.ram = st.ram
            BY <1>1, <1>4, <2>1, KeepTaskTyped
        <3>2. LoopInv(u) /\ Counted(u) = Counted(st)
            BY <1>3, <1>4, <3>1, PreemptLoop
        <3>3. QED
            BY <1>1, <1>2, <1>3, <3>1, <3>2
    <2>2. CASE ~(job[r].rss > st.ram)
        <3>1. /\ u.next = st.next /\ u.running = st.running \ {r}
              /\ u.used = st.used /\ u.ram = st.ram - job[r].rss
            BY <1>1, <1>4, <2>2, KeepTaskTyped
        <3>2. job[r].rss <= st.ram
            BY <1>1, <1>2, <2>2
        <3>3. LoopInv(u) /\ Counted(u) = Counted(st) \cup {r}
            BY <1>3, <1>4, <3>1, <3>2, KeepLoop
        <3>4. QED
            BY <1>3, <3>1, <3>3
    <2>3. QED
        BY <2>1, <2>2
<1>5. CASE u.next = st.next /\ u.running = st.running /\ u.used = st.used
           /\ u.ram = st.ram
    <2>1. LoopInv(u) /\ Counted(u) = Counted(st)
        BY <1>5, SameLoop
    <2>2. QED
        BY <1>3, <1>5, <2>1
<1>6. CASE /\ r \notin st.running /\ ~(job[r].rss > st.ram)
           /\ ~(st.used >= ncpus /\ st.running # {}) /\ u = RunTask(st, r)
    <2>1. r \notin Chosen(st) /\ job[r].rss <= st.ram
        BY <1>1, <1>2, <1>6 DEF Counted
    <2>2. /\ u.next = st.next \cup {r} /\ u.running = st.running
          /\ u.used = st.used + 1 /\ u.ram = st.ram - job[r].rss
        BY <1>1, <1>6, RunTaskTyped
    <2>3. LoopInv(u) /\ Counted(u) = Counted(st) \cup {r}
        BY <1>3, <2>1, <2>2, RunLoop
    <2>4. st.used < ncpus
        <3>1. CASE st.running = {}
            <4>1. Counted(st) = Chosen(st)
                BY <3>1 DEF Counted
            <4>2. QED
                BY <4>1 DEF LoopInv
        <3>2. CASE st.running # {}
            BY <1>1, <1>2, <1>6, <3>2
        <3>3. QED
            BY <3>1, <3>2
    <2>5. QED
        BY <1>1, <1>2, <1>3, <2>2, <2>3, <2>4
<1>7. CASE /\ r \notin st.running /\ ~(job[r].rss > st.ram)
           /\ st.used >= ncpus /\ st.running # {}
           /\ \E v \in St :
                LET t == MostPreemptable(st, age)
                IN  /\ v.next = st.next \ {t} /\ v.running = st.running \ {t}
                    /\ v.used = st.used - 1 /\ v.ram = st.ram
                    /\ u = RunTask(v, r)
    <2> DEFINE t == MostPreemptable(st, age)
    <2>1. PICK v \in St :
                    /\ v.next = st.next \ {t} /\ v.running = st.running \ {t}
                    /\ v.used = st.used - 1 /\ v.ram = st.ram
                    /\ u = RunTask(v, r)
        BY <1>7
    <2>2. t \in st.running
        BY <1>7, FrontRuns
    <2> HIDE DEF t
    <2>3. LoopInv(v) /\ Counted(v) = Counted(st)
        BY <2>1, <2>2, PreemptLoop
    <2>4. r \notin Chosen(v) /\ job[r].rss <= v.ram
        BY <1>1, <1>2, <1>7, <2>1 DEF Counted, Chosen
    <2>5. /\ u.next = v.next \cup {r} /\ u.running = v.running
          /\ u.used = v.used + 1 /\ u.ram = v.ram - job[r].rss
        BY <1>1, <2>1, RunTaskTyped
    <2>6. LoopInv(u) /\ Counted(u) = Counted(v) \cup {r}
        BY <1>3, <2>3, <2>4, <2>5, RunLoop
    <2>7. u.used = st.used
        BY <1>2, <2>1, <2>5
    <2>8. QED
        BY <1>3, <2>3, <2>6, <2>7
<1>8. QED
    BY <1>1, <1>4, <1>5, <1>6, <1>7, ConsiderTyped

LEMMA TrimmedTyped ==
    ASSUME NEW st \in St, NEW age
    PROVE  Trimmed(st, age) \in St
BY PreemptedTyped DEF Trimmed

KeptOrNot(u, a, st, r) ==
    \/ r \notin st.running /\ u = a
    \/ /\ r \in st.running /\ job[r].rss > a.ram
       /\ u.next = a.next \ {r} /\ u.ram = a.ram
    \/ /\ r \in st.running /\ ~(job[r].rss > a.ram)
       /\ u.next = a.next /\ u.ram = a.ram - job[r].rss

LEMMA KeepOtherTyped ==
    ASSUME Typed, NEW a \in St, NEW st \in St, NEW r \in Results,
           NEW u, u = KeepOther(a, st, r)
    PROVE  u \in St /\ KeptOrNot(u, a, st, r)
<1>1. CASE r \notin st.running
    BY <1>1 DEF KeepOther, KeptOrNot
<1>2. CASE r \in st.running /\ job[r].rss > a.ram
    <2> DEFINE n == a.next \ {r}
               l == a.large \cup {r}
    <2>1. u = [a EXCEPT !.next = n, !.large = l]
        BY <1>2 DEF KeepOther, St
    <2>2. n \in SUBSET Results /\ l \in SUBSET Results
        BY DEF St
    <2> HIDE DEF n, l
    <2>3. u \in St /\ u.next = n /\ u.ram = a.ram
        BY <2>1, <2>2 DEF St
    <2>4. QED
        BY <1>2, <2>3 DEF n, KeptOrNot
<1>3. CASE r \in st.running /\ ~(job[r].rss > a.ram)
    <2> DEFINE m == a.ram - job[r].rss
               l == a.large \ {r}
    <2>1. u = [a EXCEPT !.ram = m, !.large = l]
        BY <1>3 DEF KeepOther, St
    <2>2. m \in Int /\ l \in SUBSET Results
        BY RamTyped DEF St
    <2> HIDE DEF m, l
    <2>3. u \in St /\ u.next = a.next /\ u.ram = m
        BY <2>1, <2>2 DEF St
    <2>4. QED
        BY <1>3, <2>3 DEF m, KeptOrNot
<1>4. QED
    BY <1>1, <1>2, <1>3

\* The loop that marks tasks for preemption, round by round.
LEMMA WithinRounds ==
    ASSUME Typed, NEW age \in Seq(Results), NEW st0 \in St
    PROVE  \E f \in [0..Len(age) -> St] :
             /\ f[0] = st0 /\ WithinCpus(st0, age) = f[Len(age)]
             /\ \A n \in 1..Len(age) : f[n] = Trimmed(f[n - 1], age)
<1> DEFINE N == Len(age)
           Do(a, r) == Trimmed(a, age)
           step == [x \in (1..N) \X St |-> Do(x[2], age[x[1]])]
           B(g) == [t \in SUBSET (1..N) |->
                      IF t = {} THEN st0 ELSE Do(g[t \ {Max(t)}], age[Max(t)])]
<1>1. N \in Nat /\ DOMAIN age = 1..N /\ \A n \in 1..N : age[n] \in Results
    OBVIOUS
<1>2. \A n \in 1..N : \A a \in St : Do(a, age[n]) \in St
    BY <1>1, TrimmedTyped
<1>3. WithinCpus(st0, age) = (CHOOSE g : g = B(g))[1..N]
    <2>1. WithinCpus(st0, age) =
            (CHOOSE g : g = [t \in SUBSET DOMAIN age |->
                      IF t = {} THEN st0
                      ELSE Do(g[t \ {Max(t)}], age[Max(t)])])[DOMAIN age]
        BY Zenon DEF WithinCpus, FoldLeft, MapThenFoldSet
    <2> HIDE DEF N, Do
    <2>2. QED
        BY <1>1, <2>1, Zenon
<1> HIDE DEF N, Do
<1>4. /\ step \in [(1..N) \X St -> St]
      /\ \A n \in 1..N : \A a \in St : step[<<n, a>>] = Do(a, age[n])
    BY <1>2
<1> HIDE DEF step
<1>5. PICK g : IsLoop(g, N, St, st0, step)
    BY <1>1, <1>4, FoldExists
<1>6. g = B(g)
    <2> SUFFICES ASSUME NEW t \in SUBSET (1..N), t # {}
                 PROVE  g[t] = Do(g[t \ {Max(t)}], age[Max(t)])
        BY <1>5 DEF IsLoop
    <2>1. Max(t) \in 1..N
        BY <1>1, MaxIndex
    <2>2. g[t \ {Max(t)}] \in St
        BY <1>5 DEF IsLoop
    <2>3. QED
        BY <1>4, <1>5, <2>1, <2>2 DEF IsLoop
<1> DEFINE c == CHOOSE h : h = B(h)
<1>7. c = B(c)
    BY <1>6
<1> HIDE DEF c
<1>8. c[{}] = st0
    BY <1>7
<1>9. ASSUME NEW t \in SUBSET (1..N), t # {}, c[t \ {Max(t)}] \in St
      PROVE  c[t] = step[<<Max(t), c[t \ {Max(t)}]>>]
    <2>1. Max(t) \in 1..N
        BY <1>1, <1>9, MaxIndex
    <2>2. c[t] = Do(c[t \ {Max(t)}], age[Max(t)])
        BY <1>7, <1>9
    <2>3. QED
        BY <1>4, <1>9, <2>1, <2>2
<1> HIDE DEF B
<1>10. Loops(c, N, St, st0, step)
    BY <1>8, <1>9 DEF Loops
<1>11. PICK f : IsRounds(f, N, St, st0, step, c[1..N])
    BY <1>1, <1>4, <1>10, LoopRounds
<1>12. ASSUME NEW n \in 1..N PROVE f[n] = Do(f[n - 1], age[n])
    <2>1. f[n - 1] \in St
        BY <1>1, <1>11 DEF IsRounds
    <2>2. QED
        BY <1>4, <1>11, <2>1 DEF IsRounds
<1>13. WithinCpus(st0, age) = f[N]
    BY <1>3, <1>11 DEF c, IsRounds
<1>14. QED
    BY <1>11, <1>12, <1>13 DEF N, Do, IsRounds

\* The loop over ordered_scheduled_results, round by round.
IsConsidered(f, st0, age, ripe) ==
    /\ f \in [0..Len(plan) -> St]
    /\ f[0] = st0 /\ Considered(st0, age, ripe) = f[Len(plan)]
    /\ \A n \in 1..Len(plan) : f[n] = Consider(f[n - 1], plan[n], age, ripe)

LEMMA ConsideredRounds ==
    ASSUME Typed, plan \in Seq(Results), NEW age, NEW ripe, NEW st0 \in St
    PROVE  \E f : IsConsidered(f, st0, age, ripe)
<1> DEFINE N == Len(plan)
           Do(a, r) == Consider(a, r, age, ripe)
           step == [x \in (1..N) \X St |-> Do(x[2], plan[x[1]])]
           B(g) == [t \in SUBSET (1..N) |->
                      IF t = {} THEN st0 ELSE Do(g[t \ {Max(t)}], plan[Max(t)])]
<1>1. N \in Nat /\ DOMAIN plan = 1..N /\ \A n \in 1..N : plan[n] \in Results
    OBVIOUS
<1>2. \A n \in 1..N : \A a \in St : Do(a, plan[n]) \in St
    BY <1>1, ConsiderTyped
<1>3. Considered(st0, age, ripe) = (CHOOSE g : g = B(g))[1..N]
    <2>1. Considered(st0, age, ripe) =
            (CHOOSE g : g = [t \in SUBSET DOMAIN plan |->
                      IF t = {} THEN st0
                      ELSE Do(g[t \ {Max(t)}], plan[Max(t)])])[DOMAIN plan]
        BY Zenon DEF Considered, FoldLeft, MapThenFoldSet
    <2> HIDE DEF N, Do
    <2>2. QED
        BY <1>1, <2>1, Zenon
<1> HIDE DEF N, Do
<1>4. /\ step \in [(1..N) \X St -> St]
      /\ \A n \in 1..N : \A a \in St : step[<<n, a>>] = Do(a, plan[n])
    BY <1>2
<1> HIDE DEF step
<1>5. PICK g : IsLoop(g, N, St, st0, step)
    BY <1>1, <1>4, FoldExists
<1>6. g = B(g)
    <2> SUFFICES ASSUME NEW t \in SUBSET (1..N), t # {}
                 PROVE  g[t] = Do(g[t \ {Max(t)}], plan[Max(t)])
        BY <1>5 DEF IsLoop
    <2>1. Max(t) \in 1..N
        BY <1>1, MaxIndex
    <2>2. g[t \ {Max(t)}] \in St
        BY <1>5 DEF IsLoop
    <2>3. QED
        BY <1>4, <1>5, <2>1, <2>2 DEF IsLoop
<1> DEFINE c == CHOOSE h : h = B(h)
<1>7. c = B(c)
    BY <1>6
<1> HIDE DEF c
<1>8. c[{}] = st0
    BY <1>7
<1>9. ASSUME NEW t \in SUBSET (1..N), t # {}, c[t \ {Max(t)}] \in St
      PROVE  c[t] = step[<<Max(t), c[t \ {Max(t)}]>>]
    <2>1. Max(t) \in 1..N
        BY <1>1, <1>9, MaxIndex
    <2>2. c[t] = Do(c[t \ {Max(t)}], plan[Max(t)])
        BY <1>7, <1>9
    <2>3. QED
        BY <1>4, <1>9, <2>1, <2>2
<1> HIDE DEF B
<1>10. Loops(c, N, St, st0, step)
    BY <1>8, <1>9 DEF Loops
<1>11. PICK f : IsRounds(f, N, St, st0, step, c[1..N])
    BY <1>1, <1>4, <1>10, LoopRounds
<1>12. ASSUME NEW n \in 1..N PROVE f[n] = Do(f[n - 1], plan[n])
    <2>1. f[n - 1] \in St
        BY <1>1, <1>11 DEF IsRounds
    <2>2. QED
        BY <1>4, <1>11, <2>1 DEF IsRounds
<1>13. Considered(st0, age, ripe) = f[N]
    BY <1>3, <1>11 DEF c, IsRounds
<1>14. IsConsidered(f, st0, age, ripe)
    BY <1>11, <1>12, <1>13 DEF N, Do, IsRounds, IsConsidered
<1>15. QED
    BY <1>14

\* The loop over the other tasks that run, round by round.
LEMMA KeepOthersRounds ==
    ASSUME Typed, NEW age \in Seq(Results), NEW st \in St
    PROVE  \E f \in [0..Len(age) -> St] :
             /\ f[0] = st /\ KeepOthers(st, age) = f[Len(age)]
             /\ \A n \in 1..Len(age) : f[n] = KeepOther(f[n - 1], st, age[n])
<1> DEFINE N == Len(age)
           Do(a, r) == KeepOther(a, st, r)
           step == [x \in (1..N) \X St |-> Do(x[2], age[x[1]])]
           B(g) == [t \in SUBSET (1..N) |->
                      IF t = {} THEN st ELSE Do(g[t \ {Max(t)}], age[Max(t)])]
<1>1. N \in Nat /\ DOMAIN age = 1..N /\ \A n \in 1..N : age[n] \in Results
    OBVIOUS
<1>2. \A n \in 1..N : \A a \in St : Do(a, age[n]) \in St
    BY <1>1, KeepOtherTyped
<1>3. KeepOthers(st, age) = (CHOOSE g : g = B(g))[1..N]
    <2>1. KeepOthers(st, age) =
            (CHOOSE g : g = [t \in SUBSET DOMAIN age |->
                      IF t = {} THEN st
                      ELSE Do(g[t \ {Max(t)}], age[Max(t)])])[DOMAIN age]
        BY Zenon DEF KeepOthers, FoldLeft, MapThenFoldSet
    <2> HIDE DEF N, Do
    <2>2. QED
        BY <1>1, <2>1, Zenon
<1> HIDE DEF N, Do
<1>4. /\ step \in [(1..N) \X St -> St]
      /\ \A n \in 1..N : \A a \in St : step[<<n, a>>] = Do(a, age[n])
    BY <1>2
<1> HIDE DEF step
<1>5. PICK g : IsLoop(g, N, St, st, step)
    BY <1>1, <1>4, FoldExists
<1>6. g = B(g)
    <2> SUFFICES ASSUME NEW t \in SUBSET (1..N), t # {}
                 PROVE  g[t] = Do(g[t \ {Max(t)}], age[Max(t)])
        BY <1>5 DEF IsLoop
    <2>1. Max(t) \in 1..N
        BY <1>1, MaxIndex
    <2>2. g[t \ {Max(t)}] \in St
        BY <1>5 DEF IsLoop
    <2>3. QED
        BY <1>4, <1>5, <2>1, <2>2 DEF IsLoop
<1> DEFINE c == CHOOSE h : h = B(h)
<1>7. c = B(c)
    BY <1>6
<1> HIDE DEF c
<1>8. c[{}] = st
    BY <1>7
<1>9. ASSUME NEW t \in SUBSET (1..N), t # {}, c[t \ {Max(t)}] \in St
      PROVE  c[t] = step[<<Max(t), c[t \ {Max(t)}]>>]
    <2>1. Max(t) \in 1..N
        BY <1>1, <1>9, MaxIndex
    <2>2. c[t] = Do(c[t \ {Max(t)}], age[Max(t)])
        BY <1>7, <1>9
    <2>3. QED
        BY <1>4, <1>9, <2>1, <2>2
<1> HIDE DEF B
<1>10. Loops(c, N, St, st, step)
    BY <1>8, <1>9 DEF Loops
<1>11. PICK f : IsRounds(f, N, St, st, step, c[1..N])
    BY <1>1, <1>4, <1>10, LoopRounds
<1>12. ASSUME NEW n \in 1..N PROVE f[n] = Do(f[n - 1], age[n])
    <2>1. f[n - 1] \in St
        BY <1>1, <1>11 DEF IsRounds
    <2>2. QED
        BY <1>4, <1>11, <2>1 DEF IsRounds
<1>13. KeepOthers(st, age) = f[N]
    BY <1>3, <1>11 DEF c, IsRounds
<1>14. QED
    BY <1>11, <1>12, <1>13 DEF N, Do, IsRounds

-----------------------------------------------------------------------------
\* After the first loop no more tasks are marked than there are CPUs.
LEMMA WithinLoop ==
    ASSUME Typed, NEW st0 \in St, LoopInv(st0), Counted(st0) = {},
           NEW age \in Seq(Results), IsInjective(age), Len(age) = st0.used
    PROVE  /\ WithinCpus(st0, age) \in St /\ LoopInv(WithinCpus(st0, age))
           /\ Counted(WithinCpus(st0, age)) = {} /\ WithinCpus(st0, age).used <= ncpus
<1> DEFINE N == Len(age)
<1>1. PICK f \in [0..N -> St] :
        /\ f[0] = st0 /\ WithinCpus(st0, age) = f[N]
        /\ \A n \in 1..N : f[n] = Trimmed(f[n - 1], age)
    BY WithinRounds
<1> DEFINE Q(n) == /\ LoopInv(f[n]) /\ Counted(f[n]) = {}
                   /\ f[n].used <= ncpus \/ f[n].used <= N - n
           T == {n \in 0..N : Q(n)}
<1>2. N \in Nat /\ ncpus \in Nat /\ ncpus >= 1
    BY RamTyped DEF Typed
<1>3. \A n \in 0..N : f[n] \in St /\ f[n].used \in Int
    BY <1>1 DEF St
<1>4. 0 \in T
    BY <1>1, <1>2
<1>5. ASSUME NEW n \in 1..N, n - 1 \in T PROVE n \in T
    <2> DEFINE a == f[n - 1]
               b == f[n]
    <2>1. n \in 0..N /\ n - 1 \in 0..N
        BY <1>2
    <2>2. a \in St /\ a.used \in Int /\ b \in St /\ b.used \in Int /\ b = Trimmed(a, age)
        BY <1>1, <1>3, <2>1
    <2>3. /\ LoopInv(a) /\ Counted(a) = {}
          /\ a.used <= ncpus \/ a.used <= N - (n - 1)
        BY <1>5
    <2> HIDE DEF a, b
    <2>4. CASE a.used <= ncpus
        <3>1. b = a
            BY <1>2, <2>2, <2>4 DEF Trimmed
        <3>2. QED
            BY <2>1, <2>3, <2>4, <3>1 DEF b
    <2>5. CASE ~(a.used <= ncpus)
        <3> DEFINE t == MostPreemptable(a, age)
        <3>1. b = Preempted(a, t)
            BY <1>2, <2>2, <2>5 DEF Trimmed
        <3>2. a.running # {}
            <4>1. a.running = {} => Chosen(a) = {}
                BY <2>3 DEF Counted
            <4>2. Cardinality({}) = 0
                BY FS_EmptySet
            <4>3. a.used = Cardinality(Chosen(a))
                BY <2>3 DEF LoopInv
            <4>4. a.running = {} => a.used = 0
                BY <4>1, <4>2, <4>3
            <4>5. QED
                BY <1>2, <2>5, <4>4
        <3>3. t \in a.running
            BY <2>2, <3>2, FrontRuns
        <3> HIDE DEF t
        <3>4. /\ b.next = a.next \ {t} /\ b.running = a.running \ {t}
              /\ b.used = a.used - 1 /\ b.ram = a.ram
            BY <2>2, <3>1, PreemptedTyped
        <3>5. LoopInv(b) /\ Counted(b) = {}
            BY <2>2, <2>3, <3>3, <3>4, PreemptLoop
        <3>6. b.used <= N - n
            BY <1>2, <2>2, <2>3, <2>5, <3>4
        <3>7. QED
            BY <2>1, <3>5, <3>6 DEF b
    <2>6. QED
        BY <2>4, <2>5
<1> HIDE DEF T
<1>6. N \in T
    <2>1. \A n \in 0..N : n \in T
        BY <1>2, <1>4, <1>5, Rounds
    <2>2. QED
        BY <1>2, <2>1
<1>7. LoopInv(f[N]) /\ Counted(f[N]) = {} /\ f[N].used <= ncpus
    <2>1. Q(N)
        BY <1>6 DEF T
    <2>2. f[N].used \in Int
        BY <1>2, <1>3
    <2>3. QED
        BY <1>2, <2>1, <2>2
<1>8. f[N] \in St
    BY <1>2, <1>3
<1>9. QED
    BY <1>1, <1>7, <1>8

\* Nor in the second, if the list is no longer than that; what it has
\* counted comes from the list.
ConsideredFits(f) ==
    \A n \in 0..Len(plan) : /\ f[n] \in St /\ LoopInv(f[n]) /\ f[n].used <= ncpus
                            /\ Counted(f[n]) \subseteq {plan[i] : i \in 1..n}

LEMMA ConsideredEach ==
    ASSUME Typed, ListInv, Len(plan) <= ncpus, \A i \in 1..Len(plan) : plan[i] \in Known,
           NEW st0 \in St, LoopInv(st0), Counted(st0) = {}, st0.used <= ncpus,
           NEW age \in Seq(Results), IsInjective(age), NEW ripe
    PROVE  \E f : IsConsidered(f, st0, age, ripe) /\ ConsideredFits(f)
<1> DEFINE N == Len(plan)
<1>0. PICK f : IsConsidered(f, st0, age, ripe)
    <2>1. plan \in Seq(Results)
        BY DEF ListInv
    <2>2. QED
        BY <2>1, ConsideredRounds
<1>1. /\ f \in [0..N -> St] /\ f[0] = st0
      /\ \A n \in 1..N : f[n] = Consider(f[n - 1], plan[n], age, ripe)
    BY <1>0 DEF IsConsidered
<1> DEFINE Done(n) == {plan[i] : i \in 1..n}
           Q(n) == /\ LoopInv(f[n]) /\ f[n].used <= ncpus
                   /\ Counted(f[n]) \subseteq Done(n)
                   /\ Cardinality(Counted(f[n])) <= n
           T == {n \in 0..N : Q(n)}
<1>2. /\ N \in Nat /\ ncpus \in Nat /\ DOMAIN plan = 1..N
      /\ \A n \in 1..N : plan[n] \in CpuIntensive
    <2>1. ncpus \in Nat
        BY RamTyped
    <2>2. plan \in Seq(Results) /\ \A n \in 1..N : plan[n] \in CpuIntensive
        BY DEF ListInv, ToSet
    <2>3. QED
        BY <2>1, <2>2
<1>3. \A n \in 0..N : f[n] \in St /\ Counted(f[n]) \in SUBSET Results
    BY <1>1, ChosenFinite
<1>4. 0 \in T
    <2>1. Cardinality(Counted(f[0])) = 0
        BY <1>1, FS_EmptySet
    <2>2. LoopInv(f[0]) /\ f[0].used <= ncpus /\ Counted(f[0]) \subseteq Done(0)
        BY <1>1
    <2> HIDE DEF Done
    <2>3. QED
        BY <1>2, <2>1, <2>2
<1>5. ASSUME NEW n \in 1..N, n - 1 \in T PROVE n \in T
    <2> DEFINE a == f[n - 1]
               b == f[n]
               r == plan[n]
    <2>1. n \in 0..N /\ n - 1 \in 0..N /\ r \in CpuIntensive /\ r \in Known
        BY <1>2
    <2>2. a \in St /\ Counted(a) \in SUBSET Results /\ b = Consider(a, r, age, ripe)
        BY <1>1, <1>3, <2>1
    <2>3. /\ LoopInv(a) /\ a.used <= ncpus /\ Counted(a) \subseteq Done(n - 1)
          /\ Cardinality(Counted(a)) <= n - 1
        BY <1>5
    <2>4. r \notin Done(n - 1) /\ Done(n) = Done(n - 1) \cup {r}
        BY <1>2 DEF ListInv, IsInjective
    <2> HIDE DEF a, b, r, Done
    <2>5. IsFiniteSet(Counted(a)) /\ Cardinality(Counted(a)) \in Nat
        BY <2>2, FiniteParts
    <2>6. Cardinality(Counted(a)) < ncpus
        BY <1>2, <2>3, <2>5
    <2>7. /\ LoopInv(b) /\ b.used <= ncpus
          /\ Counted(b) \in {Counted(a), Counted(a) \cup {r}}
        BY <2>1, <2>2, <2>3, <2>4, <2>6, ConsiderKeeps
    <2>8. Counted(b) \subseteq Done(n)
        BY <2>3, <2>4, <2>7
    <2>9. Cardinality(Counted(b)) <= n
        <3>1. \A K, x : IsFiniteSet(K) =>
                Cardinality(K \cup {x}) \in {Cardinality(K), Cardinality(K) + 1}
            BY FS_AddElement
        <3>2. Cardinality(Counted(b)) \in {Cardinality(Counted(a)),
                                           Cardinality(Counted(a)) + 1}
            BY <2>5, <2>7, <3>1
        <3>3. QED
            BY <2>3, <2>5, <3>2
    <2>10. QED
        BY <2>1, <2>7, <2>8, <2>9 DEF b
<1> HIDE DEF T
<1>6. \A n \in 0..N : n \in T
    BY <1>2, <1>4, <1>5, Rounds
<1>7. ConsideredFits(f)
    BY <1>3, <1>6 DEF T, ConsideredFits
<1>8. QED
    BY <1>0, <1>7

LEMMA ConsideredLoop ==
    ASSUME Typed, ListInv, Len(plan) <= ncpus, \A i \in 1..Len(plan) : plan[i] \in Known,
           NEW st0 \in St, LoopInv(st0), Counted(st0) = {}, st0.used <= ncpus,
           NEW age \in Seq(Results), IsInjective(age), NEW ripe
    PROVE  /\ Considered(st0, age, ripe) \in St /\ LoopInv(Considered(st0, age, ripe))
           /\ Considered(st0, age, ripe).used <= ncpus
<1>1. PICK f : IsConsidered(f, st0, age, ripe) /\ ConsideredFits(f)
    BY ConsideredEach
<1>2. Len(plan) \in Nat /\ Considered(st0, age, ripe) = f[Len(plan)]
    BY <1>1 DEF IsConsidered, ListInv
<1>3. Len(plan) \in 0..Len(plan)
    BY <1>2
<1>4. QED
    BY <1>1, <1>2, <1>3 DEF ConsideredFits

\* A round of the third: rest are the tasks it has not come to.
OthersInv(a, rest) ==
    /\ rest \subseteq Chosen(a) /\ a.ram >= 0
    /\ Total(job, Chosen(a) \ rest) + a.ram = available_ram

LEMMA OtherRound ==
    ASSUME Typed, NEW st \in St, NEW a \in St, NEW r \in Results, NEW rest,
           r \in st.running <=> r \in rest, OthersInv(a, rest),
           NEW b, b = KeepOther(a, st, r)
    PROVE  b.next \subseteq a.next /\ OthersInv(b, rest \ {r})
<1> DEFINE A == Chosen(a) \ rest
<1>0. /\ rest \subseteq Chosen(a) /\ a.ram >= 0
      /\ Total(job, A) + a.ram = available_ram
    BY DEF OthersInv
<1>1. job[r].rss \in Nat /\ a.ram \in Int /\ Chosen(a) \in SUBSET Results
      /\ available_ram \in Nat
    BY RamTyped, ChosenFinite DEF St
<1>2. CASE r \notin st.running /\ b = a
    <2>1. rest \ {r} = rest
        BY <1>2
    <2>2. QED
        BY <1>2, <2>1
<1>3. CASE /\ r \in st.running /\ b.next = a.next \ {r} /\ b.ram = a.ram
    <2>1. Chosen(b) = Chosen(a) \ {r}
        BY <1>3 DEF Chosen
    <2>2. Chosen(b) \ (rest \ {r}) = A /\ rest \ {r} \subseteq Chosen(b)
        BY <1>0, <1>3, <2>1
    <2>3. QED
        BY <1>0, <1>3, <2>2 DEF OthersInv
<1>4. CASE /\ r \in st.running /\ ~(job[r].rss > a.ram)
           /\ b.next = a.next /\ b.ram = a.ram - job[r].rss
    <2>1. Chosen(b) = Chosen(a)
        BY <1>4 DEF Chosen
    <2>2. /\ Chosen(b) \ (rest \ {r}) = A \cup {r} /\ rest \ {r} \subseteq Chosen(b)
          /\ r \notin A /\ A \in SUBSET Results
        BY <1>0, <1>1, <1>4, <2>1
    <2>3. Total(job, A \cup {r}) = job[r].rss + Total(job, A) /\ Total(job, A) \in Nat
        BY <2>2, RssTotal
    <2> DEFINE x == Total(job, A)
               y == job[r].rss
    <2>4. /\ x \in Nat /\ y \in Nat /\ a.ram \in Int /\ x + a.ram = available_ram
          /\ ~(y > a.ram) /\ b.ram = a.ram - y
        BY <1>0, <1>1, <1>4, <2>3
    <2>5. Total(job, Chosen(b) \ (rest \ {r})) = y + x
        BY <2>2, <2>3
    <2> HIDE DEF x, y
    <2>6. QED
        BY <1>1, <1>4, <2>2, <2>4, <2>5 DEF OthersInv
<1>5. KeptOrNot(b, a, st, r)
    BY KeepOtherTyped
<1>6. QED
    BY <1>2, <1>3, <1>4, <1>5 DEF KeptOrNot

\* After the third, all tasks that shall run fit in memory.
LEMMA OthersLoop ==
    ASSUME Typed, NEW st \in St, LoopInv(st), NEW age \in Seq(Results),
           IsInjective(age), \A r \in Running : \E i \in 1..Len(age) : age[i] = r
    PROVE  /\ KeepOthers(st, age).next \subseteq st.next
           /\ Total(job, Chosen(KeepOthers(st, age))) <= available_ram
<1> DEFINE N == Len(age)
<1>1. PICK f \in [0..N -> St] :
        /\ f[0] = st /\ KeepOthers(st, age) = f[N]
        /\ \A n \in 1..N : f[n] = KeepOther(f[n - 1], st, age[n])
    BY KeepOthersRounds
<1> DEFINE Rest(n) == {r \in st.running : ~ \E i \in 1..n : age[i] = r}
           Q(n) == f[n].next \subseteq st.next /\ OthersInv(f[n], Rest(n))
           T == {n \in 0..N : Q(n)}
<1>2. /\ N \in Nat /\ DOMAIN age = 1..N /\ available_ram \in Nat
      /\ \A n \in 1..N : age[n] \in Results
    BY RamTyped
<1>3. \A n \in 0..N : /\ f[n] \in St /\ f[n].ram \in Int
                      /\ Chosen(f[n]) \in SUBSET Results
    BY <1>1, ChosenFinite DEF St
<1>4. 0 \in T
    <2>1. Rest(0) = st.running
        OBVIOUS
    <2>2. QED
        BY <1>1, <1>2, <2>1 DEF LoopInv, Counted, OthersInv
<1>5. ASSUME NEW n \in 1..N, n - 1 \in T PROVE n \in T
    <2> DEFINE a == f[n - 1]
               b == f[n]
               r == age[n]
    <2>1. n \in 0..N /\ n - 1 \in 0..N /\ r \in Results
        BY <1>2
    <2>2. a \in St /\ b = KeepOther(a, st, r)
        BY <1>1, <1>3, <2>1
    <2>3. a.next \subseteq st.next /\ OthersInv(a, Rest(n - 1))
        BY <1>5
    <2>4. Rest(n) = Rest(n - 1) \ {r}
        OBVIOUS
    <2>5. r \in st.running <=> r \in Rest(n - 1)
        BY <1>2 DEF IsInjective
    <2> HIDE DEF a, b, r, Rest
    <2>6. b.next \subseteq a.next /\ OthersInv(b, Rest(n - 1) \ {r})
        BY <2>1, <2>2, <2>3, <2>5, OtherRound
    <2>7. Q(n)
        BY <2>3, <2>4, <2>6 DEF b
    <2>8. QED
        BY <2>1, <2>7
<1> HIDE DEF T
<1>6. N \in T
    <2>1. \A n \in 0..N : n \in T
        BY <1>2, <1>4, <1>5, Rounds
    <2>2. QED
        BY <1>2, <2>1
<1>7. Rest(N) = {}
    BY DEF LoopInv
<1>8. f[N].next \subseteq st.next /\ Total(job, Chosen(f[N])) <= available_ram
    <2>1. Chosen(f[N]) \ Rest(N) = Chosen(f[N])
        BY <1>7
    <2>2. /\ f[N].next \subseteq st.next /\ f[N].ram >= 0
          /\ Total(job, Chosen(f[N])) + f[N].ram = available_ram
        BY <1>6, <2>1 DEF T, OthersInv
    <2>3. f[N].ram \in Int /\ Total(job, Chosen(f[N])) \in Nat
        BY <1>2, <1>3, RssTotal
    <2>4. QED
        BY <1>2, <2>2, <2>3
<1>9. QED
    BY <1>1, <1>8

\* An order of the running tasks names each of them once.
LEMMA AgeTyped ==
    ASSUME NEW S \in SUBSET Results, NEW age \in SetToSeqs(S)
    PROVE  /\ age \in Seq(Results) /\ IsInjective(age) /\ Len(age) = Cardinality(S)
           /\ \A r \in S : \E i \in 1..Len(age) : age[i] = r
<1> DEFINE n == Cardinality(S)
<1>1. IsFiniteSet(S) /\ n \in Nat
    BY FiniteParts
<1>2. age \in [1..n -> S] /\ \A i, j \in 1..n : i # j => age[i] # age[j]
    BY DEF SetToSeqs
<1> HIDE DEF n
<1>3. age \in Seq(Results) /\ Len(age) = n
    BY <1>1, <1>2
<1>4. IsInjective(age)
    BY <1>2 DEF IsInjective
<1>5. age \in Injection(1..n, S)
    BY <1>2, <1>4 DEF Injection
<1>6. Cardinality(1..n) = n
    <2>1. Cardinality(1..n) = IF 1 > n THEN 0 ELSE n - 1 + 1
        BY <1>1, FS_Interval
    <2>2. QED
        BY <1>1, <2>1
<1>7. age \in Surjection(1..n, S)
    BY <1>1, <1>5, <1>6, FS_Injection DEF n
<1>8. \A r \in S : \E i \in 1..n : age[i] = r
    BY <1>7 DEF Surjection
<1>9. QED
    BY <1>3, <1>4, <1>8 DEF n

\* What enforce_schedule decides fits the CPUs and the memory.
LEMMA DecidedWithin ==
    ASSUME Typed, ListInv, Len(plan) <= ncpus, \A i \in 1..Len(plan) : plan[i] \in Known,
           NEW missed \in rr_simulation, NEW age \in SetToSeqs(Running), NEW ripe,
           NEW d, d = Decided(missed, age, ripe)
    PROVE  /\ d.next \subseteq Known
           /\ Cardinality(d.next \cap CpuIntensive) <= ncpus
           /\ Total(job, d.next \cap CpuIntensive) <= available_ram
<1> DEFINE N == {r \in Results : job[r].task # "none" /\ job[r].sched /\ runnable(job[r])}
           L == {r \in Results : job[r].large}
           R == {r \in Results \ CpuIntensive : runnable(job[r])}
           st0 == [next |-> N, running |-> Running, used |-> Cardinality(Running),
                   ram |-> available_ram, missed |-> missed, large |-> L]
           w == WithinCpus(st0, age)
           c == Considered(w, age, ripe)
           o == KeepOthers(c, age)
<1>1. d.next = o.next \cup R
    BY DEF Decided
<1>2. Running \in SUBSET Results /\ Running = N \cap CpuIntensive
    BY DEF Running, CpuIntensive
<1>3. N \in SUBSET Results /\ L \in SUBSET Results /\ N \subseteq Known /\ R \subseteq Known
    BY DEF runnable, Known
<1>4. missed \in [Projects -> Int]
    <2>1. CpuIntensive \in SUBSET Results
        BY DEF CpuIntensive
    <2>2. Cardinality(CpuIntensive) \in Nat
        BY <2>1, FiniteParts
    <2>3. QED
        BY <2>2 DEF rr_simulation
<1>5. available_ram \in Nat /\ ncpus \in Nat
    BY RamTyped
<1>6. Cardinality(Running) \in Nat
    BY <1>2, FiniteParts
<1>7. /\ age \in Seq(Results) /\ IsInjective(age) /\ Len(age) = Cardinality(Running)
      /\ \A r \in Running : \E i \in 1..Len(age) : age[i] = r
    BY <1>2, AgeTyped
<1> HIDE DEF N, L, R
<1>8. /\ st0.next = N /\ st0.running = Running /\ st0.used = Cardinality(Running)
      /\ st0.ram = available_ram
    OBVIOUS
<1>9. st0 \in St
    BY <1>2, <1>3, <1>4, <1>5, <1>6 DEF St
<1> HIDE DEF st0
<1>10. Chosen(st0) = Running /\ Counted(st0) = {}
    BY <1>2, <1>8 DEF Chosen, Counted
<1>11. LoopInv(st0)
    <2>1. Total(job, {}) = 0
        BY RssTotal
    <2>2. Total(job, Counted(st0)) + st0.ram = available_ram /\ st0.ram >= 0
        BY <1>5, <1>8, <1>10, <2>1
    <2>3. QED
        BY <1>3, <1>8, <1>10, <2>2 DEF LoopInv
<1>12. w \in St /\ LoopInv(w) /\ Counted(w) = {} /\ w.used <= ncpus
    BY <1>7, <1>8, <1>9, <1>10, <1>11, WithinLoop
<1> HIDE DEF w
<1>13. c \in St /\ LoopInv(c) /\ c.used <= ncpus
    BY <1>7, <1>12, ConsideredLoop
<1> HIDE DEF c
<1>14. o.next \subseteq c.next /\ Total(job, Chosen(o)) <= available_ram
    BY <1>7, <1>13, OthersLoop
<1> HIDE DEF o
<1>15. d.next \cap CpuIntensive = Chosen(o) /\ Chosen(o) \subseteq Chosen(c)
    BY <1>1, <1>14 DEF Chosen, R
<1>16. d.next \subseteq Known
    BY <1>1, <1>3, <1>13, <1>14 DEF LoopInv
<1>17. Cardinality(Chosen(o)) <= ncpus
    <2>1. Chosen(c) \in SUBSET Results /\ Chosen(o) \in SUBSET Results
        BY <1>13, <1>15, ChosenFinite
    <2>2. /\ IsFiniteSet(Chosen(c)) /\ Cardinality(Chosen(c)) \in Nat
          /\ Cardinality(Chosen(o)) \in Nat
        BY <2>1, FiniteParts
    <2>3. Cardinality(Chosen(o)) <= Cardinality(Chosen(c))
        BY <1>15, <2>2, FS_Subset
    <2>4. Cardinality(Chosen(c)) <= ncpus
        BY <1>13 DEF LoopInv
    <2>5. QED
        BY <1>5, <2>2, <2>3, <2>4
<1>18. QED
    BY <1>14, <1>15, <1>16, <1>17

-----------------------------------------------------------------------------
\* The tasks that need a CPU and are scheduled.
Scheduled == {r \in CpuIntensive : job[r].sched}

\* Unless a new list has been asked for, the list is as long as there are
\* CPUs at most, and so are the scheduled tasks, unless the list is still to
\* be enforced.  A list is enforced as soon as it was made, so that it is
\* asked for at that moment only if there is no result at all.
LimitsInv ==
    /\ mustSchedule \/ Len(plan) <= ncpus
    /\ phase = "enforce" => ~mustSchedule \/ Known = {}
    /\ mustSchedule \/ mustEnforce \/ Cardinality(Scheduled) <= ncpus
    /\ \A r \in Results : Alive(job[r])

\* The list that is enforced is no longer than there are CPUs.
LEMMA EnforcedShort ==
    ASSUME SuspensionInv, ListInv, LimitsInv, EnforceSchedule
    PROVE  Len(plan) <= ncpus /\ \A i \in 1..Len(plan) : plan[i] \in Known
<1>1. ncpus \in Nat /\ \A i \in 1..Len(plan) : plan[i] \in Known
    BY RamTyped DEF SuspensionInv, EnforceSchedule
<1>2. CASE mustSchedule
    <2>1. Known = {}
        BY <1>2 DEF EnforceSchedule, LimitsInv
    <2>2. plan \in Seq(Results)
        BY DEF ListInv
    <2>3. Len(plan) = 0
        BY <1>1, <2>1, <2>2
    <2>4. QED
        BY <1>1, <2>3
<1>3. QED
    BY <1>1, <1>2 DEF LimitsInv

\* enforce_schedule.
LEMMA EnforceLimits ==
    ASSUME SuspensionInv, ListInv, LimitsInv, EnforceSchedule
    PROVE  /\ Cardinality(Executing') <= ncpus /\ Memory' <= available_ram
           /\ Cardinality(Scheduled') <= ncpus
           /\ \A r \in Results : Alive(job'[r])
<1>1. PICK st \in Decisions, leave \in BOOLEAN, low_swap \in BOOLEAN :
        \E ckpt, failing, how : EnforceWith(st, leave, low_swap, ckpt, failing, how)
    BY DEF EnforceSchedule
<1>2. PICK ckpt, failing, how : EnforceWith(st, leave, low_swap, ckpt, failing, how)
    BY <1>1
<1>3. PICK missed \in rr_simulation, age \in SetToSeqs(Running), ripe \in SUBSET Running :
        st = Decided(missed, age, ripe)
    BY DEF Decisions
<1>4. ncpus \in Nat /\ available_ram \in Nat /\ \A r \in Results : job[r].rss \in Nat
    BY RamTyped DEF SuspensionInv
<1>5. \A i \in 1..Len(plan) : plan[i] \in Known
    BY DEF EnforceSchedule
<1>6. Len(plan) <= ncpus
    BY EnforcedShort
<1> DEFINE C == st.next \cap CpuIntensive
<1>7. st.next \subseteq Known /\ Cardinality(C) <= ncpus /\ Total(job, C) <= available_ram
    BY <1>3, <1>5, <1>6, DecidedWithin DEF SuspensionInv
<1>8. \A r \in Results :
        /\ job'[r].task = "EXECUTING" => job'[r].sched
        /\ job'[r].sched => r \in st.next /\ job'[r].rss = job[r].rss
        /\ (r \in st.next => r \in Known) => (Alive(job[r]) => Alive(job'[r]))
    BY <1>2, EnforceEach
<1> DEFINE E == {r \in CpuIntensive : job'[r].task = "EXECUTING"}
           S == {r \in CpuIntensive : job'[r].sched}
<1>9. /\ E \subseteq S /\ S \subseteq C /\ C \in SUBSET Results
      /\ \A r \in E : job'[r].rss = job[r].rss
    BY <1>8 DEF CpuIntensive
<1>10. Executing' = E /\ Scheduled' = S
    BY DEF Executing, Scheduled, CpuIntensive
<1>11. Memory' = Total(job', E)
    BY <1>10, Zenon DEF Memory, Total, MapThenSumSet, MapThenFoldSet
<1> HIDE DEF E, S, C
<1>12. /\ IsFiniteSet(C) /\ IsFiniteSet(E) /\ Cardinality(C) \in Nat
       /\ Cardinality(E) \in Nat /\ Cardinality(S) \in Nat
    BY <1>9, FiniteParts
<1>13. Cardinality(E) <= ncpus /\ Cardinality(S) <= ncpus
    <2>1. E \in SUBSET C /\ S \in SUBSET C
        BY <1>9
    <2>2. Cardinality(E) <= Cardinality(C) /\ Cardinality(S) <= Cardinality(C)
        BY <1>12, <2>1, FS_Subset
    <2>3. QED
        BY <1>4, <1>7, <1>12, <2>2
<1>14. Total(job', E) <= available_ram
    <2>1. \A r \in E : job[r].rss \in Nat /\ job'[r].rss = job[r].rss
        BY <1>4, <1>9
    <2>2. Total(job', E) = Total(job, E)
        BY <1>12, <2>1, TotalSame
    <2>3. Total(job, E) <= Total(job, C)
        BY <1>4, <1>9, <1>12, TotalSubset
    <2>4. Total(job, E) \in Nat /\ Total(job, C) \in Nat
        BY <1>9, RssTotal DEF SuspensionInv
    <2>5. QED
        BY <1>4, <1>7, <2>2, <2>3, <2>4
<1>15. \A r \in Results : Alive(job'[r])
    BY <1>7, <1>8 DEF LimitsInv
<1>16. QED
    BY <1>10, <1>11, <1>13, <1>14, <1>15

\* A pass in which the schedule is not enforced: what executes was allowed
\* by the enforcement before.
LEMMA KeepLimits ==
    ASSUME SuspensionInv, LimitsInv, KeepTasks
    PROVE  Cardinality(Executing') <= ncpus
<1>1. job' = job /\ ~mustEnforce /\ phase = "enforce"
    BY DEF KeepTasks
<1>2. Executing' = Executing
    BY <1>1 DEF Executing, CpuIntensive
<1>3. Executing \subseteq Scheduled /\ Scheduled \in SUBSET Results
    BY DEF SuspensionInv, SuspensionObeyed, Scheduled, Executing, CpuIntensive
<1>4. /\ IsFiniteSet(Scheduled) /\ Cardinality(Scheduled) \in Nat
      /\ Cardinality(Executing) \in Nat
    BY <1>3, FiniteParts
<1>5. Cardinality(Executing) <= Cardinality(Scheduled)
    BY <1>3, <1>4, FS_Subset
<1>6. ncpus \in Nat
    BY RamTyped DEF SuspensionInv
<1>7. CASE ~mustSchedule
    BY <1>1, <1>2, <1>4, <1>5, <1>6, <1>7 DEF LimitsInv
<1>8. CASE Known = {}
    <2>1. Executing = {}
        BY <1>8 DEF LimitsInv, Alive, Known, Executing, CpuIntensive
    <2>2. QED
        BY <1>2, <1>6, <2>1, FS_EmptySet
<1>9. QED
    BY <1>1, <1>7, <1>8 DEF LimitsInv

\* A step that schedules no task keeps the bound on them.
LEMMA QuietLimits ==
    ASSUME SuspensionInv, Quiet, ncpus' = ncpus, Cardinality(Scheduled) <= ncpus
    PROVE  Cardinality(Scheduled') <= ncpus'
<1>1. Scheduled \in SUBSET Results /\ Scheduled' \in SUBSET Scheduled
    <2>1. \A r \in Results : job'[r].sched => job[r].sched
        BY DEF Quiet
    <2>2. Scheduled' = {r \in CpuIntensive : job'[r].sched} /\ CpuIntensive \in SUBSET Results
        BY DEF Scheduled, CpuIntensive
    <2>3. QED
        BY <2>1, <2>2 DEF Scheduled
<1>2. /\ IsFiniteSet(Scheduled) /\ Cardinality(Scheduled) \in Nat
      /\ Cardinality(Scheduled') \in Nat
    BY <1>1, FiniteParts
<1>3. Cardinality(Scheduled') <= Cardinality(Scheduled)
    BY <1>1, <1>2, FS_Subset
<1>4. ncpus \in Nat
    BY RamTyped DEF SuspensionInv
<1>5. QED
    BY <1>2, <1>3, <1>4

\* Steps that leave list and CPUs alone and withdraw no request.
LEMMA ModestLimits ==
    ASSUME SuspensionInv, LimitsInv, Quiet, plan' = plan, ncpus' = ncpus,
           mustSchedule => mustSchedule', mustEnforce => mustEnforce',
           phase' = "enforce" => ~mustSchedule' \/ Known' = {}
    PROVE  LimitsInv'
<1>1. mustSchedule' \/ Len(plan') <= ncpus'
    BY DEF LimitsInv
<1>2. mustSchedule' \/ mustEnforce' \/ Cardinality(Scheduled') <= ncpus'
    BY QuietLimits DEF LimitsInv
<1>3. \A r \in Results : Alive(job'[r])
    BY DEF LimitsInv, Quiet
<1>4. QED
    BY <1>1, <1>2, <1>3 DEF LimitsInv, Alive

\* Commands that ask for a new list.
LEMMA RequestLimits ==
    ASSUME LimitsInv, Quiet, mustSchedule' = TRUE, phase' = "idle"
    PROVE  LimitsInv'
<1>1. \A r \in Results : Alive(job'[r])
    BY DEF LimitsInv, Quiet
<1>2. QED
    BY <1>1 DEF LimitsInv, Alive

LEMMA StepLimits ==
    ASSUME SuspensionInv, ListInv, LimitsInv, [Next]_vars
    PROVE  LimitsInv'
<1>1. EnforceSchedule \/ Quiet
    BY StepInv
<1>2. CASE EnforceSchedule
    <2>1. Cardinality(Scheduled') <= ncpus /\ \A r \in Results : Alive(job'[r])
        BY <1>2, EnforceLimits
    <2>2. PICK st, leave, low_swap, ckpt, failing, how :
            EnforceWith(st, leave, low_swap, ckpt, failing, how)
        BY <1>2 DEF EnforceSchedule
    <2>3. mustSchedule => mustSchedule'
        BY <2>2 DEF EnforceWith
    <2>4. plan' = plan /\ ncpus' = ncpus /\ phase' = "idle"
        BY <1>2 DEF EnforceSchedule, hostVars
    <2>5. QED
        BY <2>1, <2>3, <2>4 DEF LimitsInv, Alive
<1>3. CASE Quiet
    <2>1. CASE FullPass \/ ShortPass
        <3>1. ASSUME NEW full \in BOOLEAN, BeginPass(full)
              PROVE  /\ plan' = plan /\ ncpus' = ncpus /\ phase' # "enforce"
                     /\ (mustSchedule => mustSchedule') /\ mustEnforce' = mustEnforce
            BY <3>1 DEF BeginPass
        <3>2. /\ plan' = plan /\ ncpus' = ncpus /\ phase' # "enforce"
              /\ (mustSchedule => mustSchedule') /\ mustEnforce' = mustEnforce
            BY <2>1, <3>1 DEF FullPass, ShortPass
        <3>3. QED
            BY <1>3, <3>2, ModestLimits
    <2>2. CASE Poll
        <3>1. /\ plan' = plan /\ ncpus' = ncpus /\ phase' # "enforce"
              /\ (mustSchedule => mustSchedule') /\ (mustEnforce => mustEnforce')
            BY <2>2 DEF Poll, hostVars
        <3>2. QED
            BY <1>3, <3>1, ModestLimits
    <2>3. CASE CleanUp
        <3>1. /\ plan' = plan /\ ncpus' = ncpus /\ phase' # "enforce"
              /\ (mustSchedule => mustSchedule') /\ mustEnforce' = mustEnforce
            BY <2>3 DEF CleanUp, hostVars
        <3>2. QED
            BY <1>3, <3>1, ModestLimits
    <2>4. CASE ScheduleCpus
        <3>1. PICK s \in DeadlineOrders : plan' = Scheduling(s).list
            BY <2>4, Zenon DEF ScheduleCpus
        <3>2. s \in Seq(Results) /\ IsInjective(s)
            BY OrderTyped
        <3>3. Len(plan') <= ncpus
            BY <3>1, <3>2, SchedulingList DEF SuspensionInv
        <3>4. mustSchedule' = FALSE /\ mustEnforce' = TRUE /\ ncpus' = ncpus
            BY <2>4 DEF ScheduleCpus, hostVars
        <3>5. \A r \in Results : Alive(job'[r])
            BY <1>3 DEF LimitsInv, Quiet
        <3>6. QED
            BY <3>3, <3>4, <3>5 DEF LimitsInv, Alive
    <2>5. CASE KeepSchedule
        <3>1. job' = job /\ plan' = plan /\ ncpus' = ncpus /\ flags' = flags
            BY <2>5 DEF KeepSchedule, hostVars
        <3>2. Known' = Known
            BY <3>1 DEF Known
        <3>3. phase' = "enforce" => ~mustSchedule \/ Known = {}
            BY <2>5 DEF KeepSchedule
        <3>4. QED
            BY <1>3, <3>1, <3>2, <3>3, ModestLimits DEF flags
    <2>6. CASE KeepTasks \/ EnforceDeleted
        <3>1. plan' = plan /\ ncpus' = ncpus /\ flags' = flags /\ phase' # "enforce"
            BY <2>6 DEF KeepTasks, EnforceDeleted, hostVars
        <3>2. QED
            BY <1>3, <3>1, ModestLimits DEF flags
    <2>7. CASE Undefined \/ UNCHANGED vars
        <3>1. job' = job /\ plan' = plan /\ ncpus' = ncpus /\ flags' = flags /\ phase' = phase
            BY <2>7 DEF Undefined, vars, hostVars
        <3>2. Known' = Known
            BY <3>1 DEF Known
        <3>3. phase' = "enforce" => ~mustSchedule' \/ Known' = {}
            BY <3>1, <3>2 DEF LimitsInv, flags
        <3>4. QED
            BY <1>3, <3>1, <3>3, ModestLimits DEF flags
    <2>8. CASE SchedulerReply \/ RunBenchmarks
        <3>1. plan' = plan /\ ncpus' = ncpus /\ flags' = flags /\ phase' # "enforce"
            BY <2>8 DEF SchedulerReply, RunBenchmarks, Command, hostVars
        <3>2. QED
            BY <1>3, <3>1, ModestLimits DEF flags
    <2>9. CASE \/ \E r \in Results : SuspendResult(r) \/ AbortResult(r)
               \/ \E p \in Projects : ResetProject(p)
               \/ \E n \in 1..MaxCpus : ChangePrefs(n)
        <3>1. mustSchedule' = TRUE /\ phase' = "idle"
            BY <2>9 DEF SuspendResult, AbortResult, ResetProject, ChangePrefs, Command,
                        Requested
        <3>2. QED
            BY <1>3, <3>1, RequestLimits
    <2>10. QED
        BY <1>2, <2>1, <2>2, <2>3, <2>4, <2>5, <2>6, <2>7, <2>8, <2>9 DEF Next
<1>4. QED
    BY <1>1, <1>2, <1>3

LEMMA InitLimits == Init => LimitsInv
<1> SUFFICES ASSUME Init PROVE LimitsInv
    OBVIOUS
<1>1. PICK s \in BOOLEAN : job = [r \in Results |-> [Unsent EXCEPT !.susp = s]]
    BY DEF Init
<1>2. \A r \in Results : Alive(job[r])
    BY <1>1 DEF Alive, Unsent
<1>3. QED
    BY <1>2 DEF Init, LimitsInv

\* When enforce_schedule has done its work, or leaves it for this pass, the
\* applications that execute use no more CPUs than the preferences allow, and
\* after an enforcement that was asked for they fit in memory, as last
\* measured: for any tasks that run already, in whatever order their
\* deadlines and times of running make them preemptable, whatever
\* ordered_scheduled_results lists, and although CPUs, memory limit, sizes
\* and results have changed since it was made.
THEOREM LimitsRespected == Spec => LimitsKept
<1> DEFINE A == phase = "enforce" /\ phase' = "idle" =>
                  /\ Cardinality(Executing') <= ncpus
                  /\ mustEnforce => Memory' <= available_ram
<1>1. ASSUME SuspensionInv, ListInv, LimitsInv, [Next]_vars PROVE [A]_vars
    <2> SUFFICES ASSUME Next, phase = "enforce", phase' = "idle"
                 PROVE  /\ Cardinality(Executing') <= ncpus
                        /\ mustEnforce => Memory' <= available_ram
        BY <1>1
    <2>1. EnforceSchedule \/ KeepTasks
        <3>1. ~FullPass /\ ~ShortPass
            <4>1. \A full \in BOOLEAN : ~BeginPass(full)
                BY DEF BeginPass
            <4>2. QED
                BY <4>1 DEF FullPass, ShortPass
        <3>2. ~Poll /\ ~CleanUp /\ ~ScheduleCpus /\ ~KeepSchedule
            BY DEF Poll, CleanUp, ScheduleCpus, KeepSchedule
        <3>3. ~EnforceDeleted /\ ~Undefined /\ ~SchedulerReply
            BY DEF EnforceDeleted, Undefined, SchedulerReply
        <3>4. /\ ~ \E r \in Results : SuspendResult(r) \/ AbortResult(r)
              /\ ~ \E p \in Projects : ResetProject(p)
              /\ ~ \E n \in 1..MaxCpus : ChangePrefs(n)
              /\ ~RunBenchmarks
            BY DEF SuspendResult, AbortResult, ResetProject, ChangePrefs, RunBenchmarks,
                   Command
        <3>5. QED
            BY <3>1, <3>2, <3>3, <3>4 DEF Next
    <2>2. CASE EnforceSchedule
        BY <1>1, <2>2, EnforceLimits
    <2>3. CASE KeepTasks
        <3>1. ~mustEnforce
            BY <2>3 DEF KeepTasks
        <3>2. QED
            BY <1>1, <2>3, <3>1, KeepLimits
    <2>4. QED
        BY <2>1, <2>2, <2>3
<1>2. Spec => [](SuspensionInv /\ ListInv /\ LimitsInv)
    <2>1. Init => ListInv
        BY EmptyList DEF Init, ListInv
    <2>2. SuspensionInv /\ ListInv /\ [Next]_vars => ListInv'
        BY StepList
    <2>3. SuspensionInv /\ ListInv /\ LimitsInv /\ [Next]_vars => LimitsInv'
        BY StepLimits
    <2>4. QED
        BY <2>1, <2>2, <2>3, InitLimits, AlwaysInv, PTL DEF Spec
<1>3. SuspensionInv /\ ListInv /\ LimitsInv /\ [Next]_vars => [A]_vars
    BY <1>1
<1>4. QED
    BY <1>2, <1>3, PTL DEF Spec, LimitsKept

-----------------------------------------------------------------------------
(***************************************************************************)
(* No result is forgotten.                                                 *)
(***************************************************************************)

\* A result without a task is not scheduled, not too large and uses no
\* memory.
Tidy(j) == j.task = "none" => ~j.sched /\ ~j.large /\ j.rss = 0

\* From j to k the scheduler is told nothing, and nothing happens that it
\* should be told of: the task stays, scheduled and too large or not as it
\* was, and the result does not become runnable.
Waits(j, k) ==
    /\ k \in Job
    /\ k.sched = j.sched /\ k.large = j.large
    /\ k.task = "none" => j.task = "none" /\ k.rss = j.rss
    /\ k.susp => j.susp
    /\ k.state = "DOWNLOADED" => j.state = "DOWNLOADED" /\ k.susp = j.susp

LEMMA WaitsTrans ==
    ASSUME NEW i, NEW j, NEW k, Waits(i, j), Waits(j, k)
    PROVE  Waits(i, k)
BY DEF Waits

LEMMA WaitsSelf == \A j \in Job : Waits(j, j)
BY DEF Waits

LEMMA WaitsTidy ==
    ASSUME NEW j, NEW k, Waits(j, k), Tidy(j)
    PROVE  Tidy(k)
BY DEF Waits, Tidy

LEMMA EndedWaits ==
    ASSUME NEW j \in Job
    PROVE  Waits(j, Ended(j)) /\ Ended(j).task = j.task
<1> DEFINE st == IF j.state \in {"ACKED", "FAILED"} THEN j.state ELSE "DONE"
<1>1. st \in {"DONE", "ACKED", "FAILED"}
    OBVIOUS
<1>2. Ended(j) = [j EXCEPT !.state = st, !.susp = FALSE]
    BY DEF Ended, Job
<1> HIDE DEF st
<1>3. QED
    BY <1>1, <1>2 DEF Waits, Job

LEMMA TaskWaits ==
    ASSUME NEW j \in Job,
           NEW st \in {"UNINITIALIZED", "EXECUTING", "SUSPENDED", "QUIT_PENDING",
                       "ABORT_PENDING", "OVER"}
    PROVE  Waits(j, [j EXCEPT !.task = st])
BY DEF Waits, Job

LEMMA StateWaits ==
    ASSUME NEW j \in Job,
           NEW st \in {"DOWNLOADING", "DONE", "FAILED", "ACKED"}
    PROVE  Waits(j, [j EXCEPT !.state = st])
BY DEF Waits, Job

LEMMA AbortWaits ==
    ASSUME NEW j \in Job
    PROVE  Waits(j, abort_task(j)) /\ Waits(j, Aborted(j))
<1> DEFINE e == Ended(j)
           st == IF e.task \in {"EXECUTING", "SUSPENDED"} THEN "ABORT_PENDING"
                 ELSE "OVER"
<1>1. Waits(j, e) /\ e \in Job
    BY EndedWaits DEF Waits
<1>2. abort_task(j) = [e EXCEPT !.task = st]
    BY <1>1 DEF abort_task, Job
<1>3. st \in {"ABORT_PENDING", "OVER"}
    OBVIOUS
<1> HIDE DEF e, st
<1>4. Waits(e, [e EXCEPT !.task = st])
    BY <1>1, <1>3, TaskWaits
<1>5. Waits(j, abort_task(j))
    BY <1>1, <1>2, <1>4, WaitsTrans
<1>6. QED
    BY <1>1, <1>5 DEF Aborted, e

LEMMA PreemptWaits ==
    ASSUME NEW j \in Job, NEW quit, NEW ckpt
    PROVE  Waits(j, preempt(j, quit, ckpt))
<1> DEFINE st == IF quit /\ ckpt THEN "QUIT_PENDING" ELSE "SUSPENDED"
<1>1. st \in {"QUIT_PENDING", "SUSPENDED"}
    OBVIOUS
<1>2. preempt(j, quit, ckpt) = [j EXCEPT !.task = st]
    BY DEF preempt
<1> HIDE DEF st
<1>3. QED
    BY <1>1, <1>2 DEF Waits, Job

LEMMA StartWaits ==
    ASSUME NEW j \in Job, NEW how
    PROVE  Waits(j, start(j, how))
<1> DEFINE e == Ended(j)
<1>1. Waits(j, e) /\ e \in Job
    BY EndedWaits DEF Waits
<1>2. start(j, how) \in {[j EXCEPT !.state = "DOWNLOADING"],
                         [j EXCEPT !.task = "EXECUTING"],
                         [e EXCEPT !.task = "OVER"], j}
    BY DEF start
<1> HIDE DEF e
<1>3. Waits(e, [e EXCEPT !.task = "OVER"])
    BY <1>1, TaskWaits
<1>4. Waits(j, [e EXCEPT !.task = "OVER"])
    BY <1>1, <1>3, WaitsTrans
<1>5. QED
    BY <1>2, <1>4, TaskWaits, StateWaits, WaitsSelf

LEMMA CollectedWaits ==
    ASSUME NEW j \in Job, Tidy(j)
    PROVE  Waits(j, CollectedAcked(j))
<1> DEFINE g == [Unsent EXCEPT !.state = "gone"]
<1>1. g \in Job
    BY GoneCalm DEF Calm
<1>2. j.task = "none" => Waits(j, g)
    BY <1>1 DEF Waits, Tidy, Unsent, Job
<1>3. \/ CollectedAcked(j) = g /\ j.task = "none"
      \/ CollectedAcked(j) \in {abort_task(j), j}
    BY DEF CollectedAcked
<1> HIDE DEF g
<1>4. QED
    BY <1>2, <1>3, AbortWaits, WaitsSelf

LEMMA PollWaits ==
    ASSUME NEW j \in Job, Tidy(j), NEW e \in Events(j), NEW size \in 0..MaxRss
    PROVE  Waits(j, Answered(Limited(get_memory_usage(check_app_exited(j, e), size), e), e))
<1> DEFINE a == check_app_exited(j, e)
           b == get_memory_usage(a, size)
           c == Limited(b, e)
           d == Answered(c, e)
<1>1. Waits(j, a)
    <2> DEFINE x == Ended(j)
    <2>1. Waits(j, x) /\ x \in Job
        BY EndedWaits DEF Waits
    <2>2. a \in {[j EXCEPT !.task = "OVER"], [j EXCEPT !.task = "UNINITIALIZED"],
                 [x EXCEPT !.task = "OVER"], j}
        BY DEF check_app_exited
    <2> HIDE DEF x, a
    <2>3. Waits(x, [x EXCEPT !.task = "OVER"])
        BY <2>1, TaskWaits
    <2>4. Waits(j, [x EXCEPT !.task = "OVER"])
        BY <2>1, <2>3, WaitsTrans
    <2>5. QED
        BY <2>2, <2>4, TaskWaits, WaitsSelf
<1> HIDE DEF a
<1>2. Waits(a, b)
    <2>1. a \in Job /\ Tidy(a)
        BY <1>1, WaitsTidy DEF Waits
    <2> DEFINE n == IF process_exists(a) THEN size ELSE 0
    <2>2. n \in 0..MaxRss
        BY CpuSchedAssumption
    <2>3. b = a \/ (b = [a EXCEPT !.rss = n] /\ a.sched)
        BY DEF get_memory_usage
    <2> HIDE DEF n, b
    <2>4. a.sched => Waits(a, [a EXCEPT !.rss = n])
        BY <2>1, <2>2 DEF Waits, Tidy, Job
    <2>5. QED
        BY <2>1, <2>3, <2>4, WaitsSelf
<1> HIDE DEF b
<1>3. Waits(b, c)
    <2>1. b \in Job
        BY <1>2 DEF Waits
    <2>2. c \in {b, abort_task(b)}
        BY DEF Limited
    <2>3. QED
        BY <2>1, <2>2, AbortWaits, WaitsSelf
<1> HIDE DEF c
<1>4. Waits(c, d)
    <2>1. c \in Job
        BY <1>3 DEF Waits
    <2>2. d \in {c, [c EXCEPT !.task = "UNINITIALIZED"], [c EXCEPT !.task = "OVER"]}
        BY <2>1 DEF Answered, Job
    <2>3. QED
        BY <2>1, <2>2, TaskWaits, WaitsSelf
<1> HIDE DEF d
<1>5. Waits(j, c)
    BY <1>1, <1>2, <1>3, WaitsTrans
<1>6. Waits(j, d)
    BY <1>4, <1>5, WaitsTrans
<1>7. QED
    BY <1>6 DEF a, b, c, d

AllTidy == \A r \in Results : Tidy(job[r])

\* Nothing happens to any result that the scheduler should be told of.
Patience == \A r \in Results : Waits(job[r], job'[r])

LEMMA PatienceTidy ==
    ASSUME AllTidy, Patience
    PROVE  AllTidy'
BY WaitsTidy DEF AllTidy, Patience

LEMMA SameWaits ==
    ASSUME SuspensionInv, job' = job
    PROVE  Patience
BY WaitsSelf DEF SuspensionInv, Typed, Patience

LEMMA BeginPassWaits ==
    ASSUME SuspensionInv, NEW full \in BOOLEAN, BeginPass(full)
    PROVE  Patience
<1>0. \A r \in Results : job[r] \in Job
    BY DEF SuspensionInv, Typed
<1>1. job' \in CASE suspended = "no" /\ suspended' # "no" ->
                      {suspend_tasks(suspended', leave, ckpt) :
                          leave \in BOOLEAN, ckpt \in SUBSET Results}
                 [] suspended # "no" /\ suspended' = "no" ->
                      {unsuspend_all(how) : how \in StartResults}
                 [] OTHER -> {job}
    BY DEF BeginPass
<1>2. CASE \E leave \in BOOLEAN, ckpt \in SUBSET Results :
             job' = suspend_tasks(suspended', leave, ckpt)
    <2>1. PICK leave \in BOOLEAN, ckpt \in SUBSET Results :
            job' = suspend_tasks(suspended', leave, ckpt)
        BY <1>2
    <2> DEFINE t == suspended' = "throttle" \/ leave
               q == ~t /\ ~leave
    <2>2. job' = suspend_all(t, leave, ckpt)
        BY <2>1 DEF suspend_tasks
    <2> HIDE DEF t
    <2>3. ASSUME NEW r \in Results PROVE Waits(job[r], job'[r])
        <3> DEFINE c == r \in ckpt
        <3>1. job'[r] \in {job[r], preempt(job[r], q, c)}
            BY <2>2 DEF suspend_all
        <3> HIDE DEF q, c
        <3>2. QED
            BY <1>0, <3>1, PreemptWaits, WaitsSelf
    <2>4. QED
        BY <2>3 DEF Patience
<1>3. CASE \E how \in StartResults : job' = unsuspend_all(how)
    <2>1. PICK how \in StartResults : job' = unsuspend_all(how)
        BY <1>3
    <2>2. ASSUME NEW r \in Results PROVE Waits(job[r], job'[r])
        <3>1. job'[r] \in {job[r], start(job[r], how), [job[r] EXCEPT !.task = "EXECUTING"]}
            BY <2>1 DEF unsuspend_all
        <3>2. QED
            BY <1>0, <3>1, StartWaits, TaskWaits, WaitsSelf
    <2>3. QED
        BY <2>2 DEF Patience
<1>4. CASE job' = job
    BY <1>4, SameWaits
<1>5. CASE suspended = "no" /\ suspended' # "no"
    <2>1. job' \in {suspend_tasks(suspended', leave, ckpt) :
                      leave \in BOOLEAN, ckpt \in SUBSET Results}
        BY <1>1, <1>5
    <2>2. QED
        BY <1>2, <2>1
<1>6. CASE suspended # "no" /\ suspended' = "no"
    <2>1. job' \in {unsuspend_all(how) : how \in StartResults}
        BY <1>1, <1>6
    <2>2. QED
        BY <1>3, <2>1
<1>7. CASE (suspended = "no") = (suspended' = "no")
    BY <1>1, <1>4, <1>7
<1>8. QED
    BY <1>5, <1>6, <1>7

LEMMA PollPatience ==
    ASSUME SuspensionInv, AllTidy, Poll
    PROVE  Patience
<1>1. PICK size \in Sizes,
           e \in {f \in [Results -> UNION {Events(job[r]) : r \in Results}] :
                    \A r \in Results : f[r] \in Events(job[r])} :
        job' = [r \in Results |->
                  Answered(Limited(get_memory_usage(
                      check_app_exited(job[r], e[r]), size[r]), e[r]), e[r])]
    BY DEF Poll
<1>2. \A r \in Results : /\ size[r] \in 0..MaxRss /\ job[r] \in Job /\ Tidy(job[r])
                         /\ e[r] \in Events(job[r])
    BY DEF Sizes, SuspensionInv, Typed, AllTidy
<1>3. \A r \in Results :
        Waits(job[r], Answered(Limited(get_memory_usage(
                        check_app_exited(job[r], e[r]), size[r]), e[r]), e[r]))
    BY <1>2, PollWaits
<1>4. QED
    BY <1>1, <1>3 DEF Patience

\* Between poll and the scheduler: results are aborted and deleted without a
\* word, but finished tasks and downloads ask for a new list.
LEMMA CleanUpPatience ==
    ASSUME SuspensionInv, AllTidy, CleanUp
    PROVE  AllTidy' /\ (mustSchedule' \/ Patience)
<1>1. PICK late \in SUBSET {r \in Results : not_started(job[r])},
           failed \in SUBSET Downloading(job) :
        \E done \in SUBSET Downloading(garbage_collect(late, failed)) :
          /\ job' = handle_finished_apps(update_results(garbage_collect(late, failed), done))
          /\ mustSchedule' = (\/ mustSchedule
                \/ RequestedBy(done, Finished(update_results(
                                                garbage_collect(late, failed), done))))
    BY DEF CleanUp
<1> DEFINE collected == garbage_collect(late, failed)
<1>2. PICK done \in SUBSET Downloading(collected) :
        /\ job' = handle_finished_apps(update_results(collected, done))
        /\ mustSchedule' = (\/ mustSchedule
              \/ RequestedBy(done, Finished(update_results(collected, done))))
    BY <1>1
<1> DEFINE updated == update_results(collected, done)
<1>3. \A r \in Results : Waits(job[r], collected[r])
    <2> DEFINE C(r) == CASE r \in late -> Ended(job[r])
                         [] late = {} /\ r \in failed ->
                              [Ended(job[r]) EXCEPT !.state = "FAILED"]
                         [] late = {} /\ r \notin failed -> CollectedAcked(job[r])
                         [] OTHER -> job[r]
    <2>1. collected = [r \in Results |-> C(r)]
        BY DEF garbage_collect
    <2>2. ASSUME NEW r \in Results PROVE Waits(job[r], C(r))
        <3>1. job[r] \in Job /\ Tidy(job[r])
            BY DEF SuspensionInv, Typed, AllTidy
        <3> DEFINE e == Ended(job[r])
        <3>2. Waits(job[r], e) /\ e \in Job
            BY <3>1, EndedWaits DEF Waits
        <3>3. C(r) \in {e, [e EXCEPT !.state = "FAILED"], CollectedAcked(job[r]), job[r]}
            OBVIOUS
        <3> HIDE DEF e, C
        <3>4. Waits(e, [e EXCEPT !.state = "FAILED"])
            BY <3>2, StateWaits
        <3>5. Waits(job[r], [e EXCEPT !.state = "FAILED"])
            BY <3>2, <3>4, WaitsTrans
        <3>6. QED
            BY <3>1, <3>2, <3>3, <3>5, CollectedWaits, WaitsSelf
    <2> HIDE DEF C, collected
    <2>3. QED
        BY <2>1, <2>2
<1> HIDE DEF collected
<1>4. \A r \in Results : collected[r] \in Job /\ Tidy(collected[r])
    BY <1>3, WaitsTidy DEF AllTidy, Waits
<1>5. \A r \in Results : updated[r] \in Job /\ Tidy(updated[r])
    <2> DEFINE U(r) == IF r \in done THEN [collected[r] EXCEPT !.state = "DOWNLOADED"]
                       ELSE collected[r]
    <2>1. \A r \in Results : updated[r] = U(r)
        BY DEF update_results
    <2>2. \A r \in Results : U(r) \in Job /\ Tidy(U(r))
        BY <1>4 DEF Tidy, Job
    <2> HIDE DEF U, updated
    <2>3. QED
        BY <2>1, <2>2
<1>6. done = {} => \A r \in Results : updated[r] = collected[r]
    BY DEF update_results
<1>7. /\ job' = handle_finished_apps(updated)
      /\ mustSchedule' = (mustSchedule \/ RequestedBy(done, Finished(updated)))
    BY <1>2
<1> HIDE DEF updated
<1>8. ASSUME NEW r \in Results PROVE Tidy(job'[r])
    <2> DEFINE e == Ended(updated[r])
    <2>1. e \in Job
        BY <1>5, EndedWaits DEF Waits
    <2>2. job'[r] \in {NoTask(e), updated[r]}
        BY <1>7 DEF handle_finished_apps
    <2> HIDE DEF e
    <2>3. Tidy(NoTask(e))
        BY <2>1 DEF Tidy, NoTask, Job
    <2>4. QED
        BY <1>5, <2>2, <2>3
<1>9. Finished(updated) = {} => \A r \in Results : job'[r] = updated[r]
    BY <1>7 DEF handle_finished_apps
<1>10. mustSchedule' \/ (done = {} /\ Finished(updated) = {})
    BY <1>7 DEF RequestedBy
<1>11. QED
    BY <1>3, <1>6, <1>8, <1>9, <1>10 DEF AllTidy, Patience

LEMMA ReplyPatience ==
    ASSUME SuspensionInv, SchedulerReply
    PROVE  Patience
<1>1. PICK new \in SUBSET {r \in Results : job[r].state = "unsent"},
           acks \in SUBSET {r \in Results : job[r].state \in {"DONE", "FAILED"}},
           aborts \in SUBSET Known :
        job' = [r \in Results |-> Replied(job[r], r \in new, r \in acks, r \in aborts)]
    BY DEF SchedulerReply
<1>2. ASSUME NEW r \in Results PROVE Waits(job[r], job'[r])
    <2>1. job[r] \in Job
        BY DEF SuspensionInv, Typed
    <2> DEFINE st == CASE r \in new -> "DOWNLOADING"
                       [] r \notin new /\ r \in acks -> "ACKED"
                       [] OTHER -> job[r].state
               k == [job[r] EXCEPT !.state = st]
    <2>2. st \in {"DOWNLOADING", "ACKED", job[r].state}
        OBVIOUS
    <2>3. job'[r] = IF r \in aborts THEN Aborted(k) ELSE k
        BY <1>1, <2>1 DEF Replied, Job
    <2> HIDE DEF st
    <2>4. Waits(job[r], k) /\ k \in Job
        BY <2>1, <2>2 DEF Waits, Job
    <2> HIDE DEF k
    <2>5. Waits(k, Aborted(k))
        BY <2>4, AbortWaits
    <2>6. Waits(job[r], Aborted(k))
        BY <2>4, <2>5, WaitsTrans
    <2>7. QED
        BY <2>3, <2>4, <2>6
<1>3. QED
    BY <1>2 DEF Patience

\* Commands that ask for a new list.
LEMMA CommandTidy ==
    ASSUME SuspensionInv, AllTidy,
           \/ \E r \in Results : SuspendResult(r) \/ AbortResult(r)
           \/ \E p \in Projects : ResetProject(p)
           \/ \E n \in 1..MaxCpus : ChangePrefs(n)
    PROVE  AllTidy'
<1>0. job \in [Results -> Job] /\ \A r \in Results : job[r] \in Job /\ Tidy(job[r])
    BY DEF SuspensionInv, Typed, AllTidy
<1>1. ASSUME NEW r \in Results, SuspendResult(r) PROVE AllTidy'
    <2> DEFINE k == [job[r] EXCEPT !.susp = ~job[r].susp]
    <2>1. Tidy(k)
        BY <1>0 DEF Tidy, Job
    <2>2. job' = [job EXCEPT ![r] = k]
        BY <1>0, <1>1 DEF SuspendResult, Job
    <2> HIDE DEF k
    <2>3. QED
        BY <1>0, <2>1, <2>2 DEF AllTidy
<1>2. ASSUME NEW r \in Results, AbortResult(r) PROVE AllTidy'
    <2>1. Tidy(Aborted(job[r]))
        BY <1>0, AbortWaits, WaitsTidy
    <2>2. job' = [job EXCEPT ![r] = Aborted(job[r])]
        BY <1>2 DEF AbortResult
    <2>3. QED
        BY <1>0, <2>1, <2>2 DEF AllTidy
<1>3. ASSUME NEW p \in Projects, ResetProject(p) PROVE AllTidy'
    <2> DEFINE g == [Unsent EXCEPT !.state = "gone"]
    <2>1. Tidy(g)
        BY DEF Tidy, Unsent
    <2>2. \A r \in Results : job'[r] \in {g, job[r]}
        BY <1>3 DEF ResetProject
    <2> HIDE DEF g
    <2>3. QED
        BY <1>0, <2>1, <2>2 DEF AllTidy
<1>4. ASSUME NEW n, ChangePrefs(n) PROVE AllTidy'
    BY <1>4 DEF ChangePrefs, AllTidy
<1>5. QED
    BY <1>1, <1>2, <1>3, <1>4

-----------------------------------------------------------------------------
\* The list as a set, and the tasks that are too large but not in it.
Listed == ToSet(plan)
LeftOut == {x \in CpuIntensive \ Listed : job[x].large}

\* The CPUs that are used, or shall be as soon as there is memory.
Held == Busy \cup {x \in Listed : job[x].large}

\* After a list has been enforced: tasks outside it that are too large have
\* been preempted, and a task is left out because it is too large, or the
\* CPUs are used up, or each runnable result is scheduled or in the list.
Settled ==
    /\ \A x \in LeftOut : ~job[x].sched
    /\ \A x \in CpuIntensive : x \in Listed \/ job[x].sched => ~job[x].susp
    /\ \/ LeftOut # {}
       \/ Cardinality(Held) >= ncpus
       \/ \A r \in CpuIntensive : runnable(job[r]) => job[r].sched \/ r \in Listed

\* A list that has just been made: it is as long as there are CPUs, or each
\* runnable result is in it or too large.
Fresh ==
    /\ \/ Len(plan) >= ncpus
       \/ \A r \in CpuIntensive : runnable(job[r]) => job[r].large \/ r \in Listed
    /\ \A x \in Listed : ~job[x].susp

ForgottenInv ==
    /\ AllTidy
    /\ \/ phase = "undefined" \/ mustSchedule
       \/ Settled
       \/ phase = "enforce" /\ mustEnforce /\ Fresh

LEMMA HeldFinite ==
    ListInv => /\ Busy \in SUBSET Results /\ Held \in SUBSET Results
               /\ Listed \in SUBSET CpuIntensive /\ CpuIntensive \in SUBSET Results
<1>1. CpuIntensive \in SUBSET Results
    BY DEF CpuIntensive
<1>2. Busy \in SUBSET Results
    BY <1>1 DEF Busy
<1>3. ListInv => Listed \in SUBSET CpuIntensive
    BY DEF ListInv, Listed
<1> HIDE DEF CpuIntensive
<1>4. QED
    BY <1>1, <1>2, <1>3 DEF Held

LEMMA NotForgotten == SuspensionInv /\ ListInv /\ ForgottenInv => NoneForgotten
<1> SUFFICES ASSUME SuspensionInv, ListInv, ForgottenInv, phase = "idle", ~mustSchedule,
                    Cardinality(Busy) < ncpus, NEW r \in CpuIntensive, runnable(job[r])
             PROVE  \/ job[r].sched \/ r \in ToSet(plan)
                    \/ \E x \in CpuIntensive : job[x].large /\ ~job[x].sched
    BY DEF NoneForgotten
<1>1. Settled /\ AllTidy
    BY DEF ForgottenInv
<1>2. CASE LeftOut # {}
    BY <1>1, <1>2 DEF Settled, LeftOut
<1>3. CASE Cardinality(Held) >= ncpus
    <2>1. ncpus \in Nat /\ Cardinality(Busy) \in Nat /\ Cardinality(Held) \in Nat
        BY RamTyped, HeldFinite, FiniteParts DEF SuspensionInv
    <2>2. Held # Busy
        BY <1>3, <2>1
    <2>3. PICK x \in Listed : job[x].large /\ x \notin Busy
        BY <2>2 DEF Held
    <2>4. x \in CpuIntensive /\ x \in Results
        BY HeldFinite
    <2>5. job[x].task # "none"
        BY <1>1, <2>3, <2>4 DEF AllTidy, Tidy
    <2>6. QED
        BY <2>3, <2>4, <2>5 DEF Busy
<1>4. CASE \A q \in CpuIntensive : runnable(job[q]) => job[q].sched \/ q \in Listed
    BY <1>4 DEF Listed
<1>5. QED
    BY <1>1, <1>2, <1>3, <1>4 DEF Settled

\* What was settled stays so while nothing happens to the results.
LEMMA PatienceSettled ==
    ASSUME SuspensionInv, ListInv, Settled, Patience, plan' = plan, ncpus' = ncpus
    PROVE  Settled'
<1>0. /\ Listed' = Listed /\ CpuIntensive' = CpuIntensive
      /\ CpuIntensive \in SUBSET Results /\ Listed \in SUBSET CpuIntensive
    BY HeldFinite DEF Listed, CpuIntensive
<1>1. \A r \in Results :
        /\ job'[r].sched = job[r].sched /\ job'[r].large = job[r].large
        /\ job'[r].task = "none" => job[r].task = "none"
        /\ job'[r].susp => job[r].susp
        /\ job'[r].state = "DOWNLOADED" => job[r].state = "DOWNLOADED"
        /\ runnable(job'[r]) => runnable(job[r])
    BY DEF Patience, Waits, runnable
<1>2. LeftOut' = {x \in CpuIntensive \ Listed : job'[x].large}
    BY <1>0 DEF LeftOut
<1>3. LeftOut' = LeftOut
    BY <1>0, <1>1, <1>2 DEF LeftOut
<1>4. Busy \subseteq Busy'
    <2>1. Busy' = {r \in CpuIntensive : /\ job'[r].task # "none"
                                        /\ job'[r].sched \/ job'[r].state # "DOWNLOADED"}
        BY DEF Busy, CpuIntensive
    <2>2. QED
        BY <1>0, <1>1, <2>1 DEF Busy
<1>5. Held \subseteq Held' /\ Held' \in SUBSET Results
    <2>1. Held' = Busy' \cup {x \in Listed : job'[x].large}
        BY <1>0 DEF Held
    <2>2. Busy' \in SUBSET Results
        BY <1>0 DEF Busy, CpuIntensive
    <2>3. QED
        BY <1>0, <1>1, <1>4, <2>1, <2>2 DEF Held
<1>6. Cardinality(Held) >= ncpus => Cardinality(Held') >= ncpus
    <2>1. IsFiniteSet(Held') /\ Cardinality(Held) \in Nat /\ Cardinality(Held') \in Nat
        BY <1>5, HeldFinite, FiniteParts
    <2>2. Cardinality(Held) <= Cardinality(Held')
        BY <1>5, <2>1, FS_Subset
    <2>3. ncpus \in Nat
        BY RamTyped DEF SuspensionInv
    <2>4. QED
        BY <2>1, <2>2, <2>3
<1>7. /\ \A x \in LeftOut' : ~job'[x].sched
      /\ \A x \in CpuIntensive : x \in Listed \/ job'[x].sched => ~job'[x].susp
    BY <1>0, <1>1, <1>3 DEF Settled, LeftOut
<1>8. (\A r \in CpuIntensive : runnable(job[r]) => job[r].sched \/ r \in Listed)
        => \A r \in CpuIntensive : runnable(job'[r]) => job'[r].sched \/ r \in Listed
    BY <1>0, <1>1
<1>9. \/ LeftOut' # {}
      \/ Cardinality(Held') >= ncpus
      \/ \A r \in CpuIntensive : runnable(job'[r]) => job'[r].sched \/ r \in Listed
    BY <1>3, <1>6, <1>8 DEF Settled
<1>10. Settled' <=> /\ \A x \in LeftOut' : ~job'[x].sched
                    /\ \A x \in CpuIntensive : x \in Listed \/ job'[x].sched => ~job'[x].susp
                    /\ \/ LeftOut' # {}
                       \/ Cardinality(Held') >= ncpus'
                       \/ \A r \in CpuIntensive :
                            runnable(job'[r]) => job'[r].sched \/ r \in Listed
    BY <1>0 DEF Settled, runnable
<1>11. QED
    BY <1>7, <1>9, <1>10

-----------------------------------------------------------------------------
\* schedule_cpus: a result is passed over only if it is too large, or when
\* the list is full.
LEMMA ScheduleMore ==
    ASSUME Typed, NEW a \in Account, NEW r \in Results,
           NEW b, b = schedule_if_possible(a, r)
    PROVE  /\ \/ a.used >= ncpus /\ b = a
              \/ /\ job[r].rss > a.ram /\ b.large = a.large \cup {r}
                 /\ b.list = a.list /\ b.used = a.used /\ b.ram = a.ram
              \/ /\ ~(job[r].rss > a.ram) /\ b.large = a.large
                 /\ b.list = Append(a.list, r) /\ b.used = a.used + 1
                 /\ b.ram = a.ram - job[r].rss
<1>1. CASE a.used >= ncpus
    BY <1>1 DEF schedule_if_possible
<1>2. CASE ~(a.used >= ncpus) /\ job[r].rss > a.ram
    <2> DEFINE l == a.large \cup {r}
    <2>1. a.used < ncpus
        BY <1>2, RamTyped DEF Account
    <2>2. b = [a EXCEPT !.large = l]
        BY <1>2, <2>1 DEF schedule_if_possible, Account
    <2> HIDE DEF l
    <2>3. b.large = l /\ b.list = a.list /\ b.used = a.used /\ b.ram = a.ram
        BY <2>2 DEF Account
    <2>4. QED
        BY <1>2, <2>3 DEF l
<1>3. CASE ~(a.used >= ncpus) /\ ~(job[r].rss > a.ram)
    <2> DEFINE l == Append(a.list, r)
               n == a.used + 1
               m == a.ram - job[r].rss
    <2>1. b = [a EXCEPT !.list = l, !.used = n, !.ram = m]
        BY <1>3 DEF schedule_if_possible, Account
    <2> HIDE DEF l, n, m
    <2>2. b.large = a.large /\ b.list = l /\ b.used = n /\ b.ram = m
        BY <2>1 DEF Account
    <2>3. QED
        BY <1>3, <2>2 DEF l, n, m
<1>4. QED
    BY <1>1, <1>2, <1>3

LEMMA PassedOver ==
    ASSUME Typed, NEW s \in Seq(Results), NEW done, done = Scheduling(s)
    PROVE  /\ \/ Len(done.list) >= ncpus
              \/ \A n \in 1..Len(s) : s[n] \in ToSet(done.list) \/ s[n] \in done.large
           /\ \A r \in done.large : job[r].rss > 0
<1> DEFINE N == Len(s)
<1>1. PICK f \in [0..N -> Account] :
        /\ f[0] = Empty /\ Scheduling(s) = f[N]
        /\ \A n \in 1..N : f[n] = schedule_if_possible(f[n - 1], s[n])
    BY SchedulingRounds
<1> DEFINE In(l, x) == \E i \in 1..Len(l) : l[i] = x
           Full(n) == f[n].used >= ncpus
           Q(n) == /\ f[n].ram >= 0 /\ Len(f[n].list) = f[n].used
                   /\ Full(n) \/ \A k \in 1..n : In(f[n].list, s[k]) \/ s[k] \in f[n].large
                   /\ \A r \in f[n].large : job[r].rss > 0
           T == {n \in 0..N : Q(n)}
<1>2. N \in Nat /\ ncpus \in Nat /\ \A n \in 1..N : s[n] \in Results /\ job[s[n]].rss \in Nat
    BY RamTyped
<1>3. \A n \in 0..N : /\ f[n] \in Account /\ f[n].list \in Seq(Results)
                      /\ f[n].used \in Nat /\ f[n].ram \in Int
    BY <1>1 DEF Account
<1>4. 0 \in T
    <2>1. f[0].list = <<>> /\ f[0].used = 0 /\ f[0].ram \in Nat /\ f[0].large = {}
        BY <1>1, RamTyped DEF Empty
    <2>2. QED
        BY <1>2, <2>1
<1>5. ASSUME NEW n \in 1..N, n - 1 \in T PROVE n \in T
    <2> DEFINE a == f[n - 1]
               b == f[n]
               r == s[n]
    <2>1. n \in 0..N /\ n - 1 \in 0..N /\ r \in Results /\ job[r].rss \in Nat
        BY <1>2
    <2>2. /\ a \in Account /\ a.list \in Seq(Results) /\ a.used \in Nat /\ a.ram \in Int
          /\ b = schedule_if_possible(a, r) /\ b.used \in Nat
        BY <1>1, <1>3, <2>1
    <2>3. /\ a.ram >= 0 /\ Len(a.list) = a.used
          /\ a.used >= ncpus \/ \A k \in 1..(n - 1) : In(a.list, s[k]) \/ s[k] \in a.large
          /\ \A x \in a.large : job[x].rss > 0
        BY <1>5
    <2>4. \A k \in 1..n : k \in 1..(n - 1) \/ s[k] = r
        BY <1>2
    <2> HIDE DEF a, b, r
    <2>5. \/ a.used >= ncpus /\ b = a
          \/ /\ job[r].rss > a.ram /\ b.large = a.large \cup {r}
             /\ b.list = a.list /\ b.used = a.used /\ b.ram = a.ram
          \/ /\ ~(job[r].rss > a.ram) /\ b.large = a.large
             /\ b.list = Append(a.list, r) /\ b.used = a.used + 1
             /\ b.ram = a.ram - job[r].rss
        BY <2>1, <2>2, ScheduleMore
    <2>6. /\ b.ram >= 0 /\ Len(b.list) = b.used
          /\ b.used >= ncpus \/ \A k \in 1..n : In(b.list, s[k]) \/ s[k] \in b.large
          /\ \A x \in b.large : job[x].rss > 0
        <3>1. CASE a.used >= ncpus /\ b = a
            BY <2>3, <3>1
        <3>2. CASE /\ job[r].rss > a.ram /\ b.large = a.large \cup {r}
                   /\ b.list = a.list /\ b.used = a.used /\ b.ram = a.ram
            <4>1. \A x \in b.large : job[x].rss > 0
                BY <2>1, <2>2, <2>3, <3>2
            <4> HIDE DEF In
            <4>2. b.used >= ncpus \/ \A k \in 1..n : In(b.list, s[k]) \/ s[k] \in b.large
                BY <2>3, <2>4, <3>2
            <4>3. QED
                BY <2>3, <3>2, <4>1, <4>2
        <3>3. CASE /\ ~(job[r].rss > a.ram) /\ b.large = a.large
                   /\ b.list = Append(a.list, r) /\ b.used = a.used + 1
                   /\ b.ram = a.ram - job[r].rss
            <4>1. /\ Len(b.list) = Len(a.list) + 1 /\ b.list[Len(a.list) + 1] = r
                  /\ \A i \in 1..Len(a.list) : b.list[i] = a.list[i]
                  /\ Len(a.list) \in Nat
                BY <2>1, <2>2, <3>3
            <4>2. In(b.list, r)
                BY <4>1
            <4>3. ASSUME NEW x, In(a.list, x) PROVE In(b.list, x)
                <5>1. PICK i \in 1..Len(a.list) : a.list[i] = x
                    BY <4>3
                <5>2. i \in 1..Len(b.list) /\ b.list[i] = x
                    BY <4>1, <5>1
                <5>3. QED
                    BY <5>2
            <4> HIDE DEF In
            <4>4. b.used >= ncpus \/ \A k \in 1..n : In(b.list, s[k]) \/ s[k] \in b.large
                <5>1. a.used >= ncpus => b.used >= ncpus
                    BY <1>2, <2>2, <3>3
                <5>2. QED
                    BY <2>3, <2>4, <3>3, <4>2, <4>3, <5>1
            <4>5. b.ram >= 0 /\ Len(b.list) = b.used
                BY <2>1, <2>2, <2>3, <3>3, <4>1
            <4>6. QED
                BY <2>3, <3>3, <4>4, <4>5
        <3>4. QED
            BY <2>5, <3>1, <3>2, <3>3
    <2> HIDE DEF In
    <2>7. QED
        BY <2>1, <2>6 DEF b
<1> HIDE DEF T
<1>6. N \in T
    <2>1. \A n \in 0..N : n \in T
        BY <1>2, <1>4, <1>5, Rounds
    <2>2. QED
        BY <1>2, <2>1
<1>7. done = f[N] /\ done.list \in Seq(Results)
    BY <1>1, <1>2, <1>3
<1>8. Q(N)
    BY <1>6 DEF T
<1>9. \A x : In(done.list, x) => x \in ToSet(done.list)
    BY <1>7 DEF ToSet
<1> HIDE DEF In
<1>10. QED
    BY <1>7, <1>8, <1>9

\* schedule_cpus makes a fresh list.
LEMMA ScheduleFresh ==
    ASSUME SuspensionInv, AllTidy, ScheduleCpus
    PROVE  AllTidy' /\ Fresh'
<1>1. PICK s \in DeadlineOrders :
        /\ plan' = Scheduling(s).list
        /\ job' = [r \in Results |-> [job[r] EXCEPT !.large = r \in Scheduling(s).large]]
    BY Zenon DEF ScheduleCpus
<1> DEFINE done == Scheduling(s)
           S == {r \in CpuIntensive : runnable(job[r])}
<1>2. s \in Seq(Results) /\ IsInjective(s)
    BY OrderTyped
<1>3. S \in SUBSET Results /\ s \in SetToSeqs(S)
    BY DEF DeadlineOrders, CpuIntensive
<1>4. /\ \A r \in S : \E i \in 1..Len(s) : s[i] = r
      /\ \A i \in 1..Len(s) : s[i] \in S
    <2>1. \A r \in S : \E i \in 1..Len(s) : s[i] = r
        BY <1>3, AgeTyped
    <2>2. s \in [1..Cardinality(S) -> S] /\ Len(s) = Cardinality(S)
        BY <1>3, AgeTyped DEF SetToSeqs
    <2>3. QED
        BY <2>1, <2>2
<1>5. /\ \/ Len(done.list) >= ncpus
         \/ \A n \in 1..Len(s) : s[n] \in ToSet(done.list) \/ s[n] \in done.large
      /\ \A r \in done.large : job[r].rss > 0
    BY <1>2, PassedOver DEF SuspensionInv
<1>6. ToSet(done.list) \subseteq ToSet(s)
    BY <1>2, SchedulingList DEF SuspensionInv
<1>7. plan' = done.list /\ job' = [r \in Results |-> [job[r] EXCEPT !.large = r \in done.large]]
    BY <1>1
<1> HIDE DEF done
<1>8. ASSUME NEW r \in Results
      PROVE  /\ job'[r].large <=> r \in done.large
             /\ job'[r].task = job[r].task /\ job'[r].sched = job[r].sched
             /\ job'[r].rss = job[r].rss /\ job'[r].susp = job[r].susp
             /\ job'[r].state = job[r].state
    <2> DEFINE l == r \in done.large
    <2>1. job'[r] = [job[r] EXCEPT !.large = l] /\ job[r] \in Job
        BY <1>7 DEF SuspensionInv, Typed
    <2>2. l <=> r \in done.large
        OBVIOUS
    <2> HIDE DEF l
    <2>3. QED
        BY <2>1, <2>2 DEF Job
<1>9. AllTidy'
    <2>1. ASSUME NEW r \in Results PROVE Tidy(job'[r])
        BY <1>5, <1>8 DEF AllTidy, Tidy
    <2>2. QED
        BY <2>1 DEF AllTidy
<1>10. ncpus' = ncpus /\ CpuIntensive' = CpuIntensive /\ CpuIntensive \in SUBSET Results
    BY DEF ScheduleCpus, hostVars, CpuIntensive
<1>11. \/ Len(plan') >= ncpus
       \/ \A r \in CpuIntensive : runnable(job'[r]) => job'[r].large \/ r \in ToSet(plan')
    <2>1. \A r \in CpuIntensive : runnable(job'[r]) => r \in S
        BY <1>8, <1>10 DEF runnable
    <2>2. ASSUME \A n \in 1..Len(s) : s[n] \in ToSet(done.list) \/ s[n] \in done.large,
                 NEW r \in CpuIntensive, runnable(job'[r])
          PROVE  job'[r].large \/ r \in ToSet(plan')
        <3>1. r \in S
            BY <2>1, <2>2
        <3> HIDE DEF S
        <3>2. PICK i \in 1..Len(s) : s[i] = r
            BY <1>4, <3>1
        <3>3. r \in ToSet(done.list) \/ r \in done.large
            BY <2>2, <3>2
        <3>4. job'[r].large <=> r \in done.large
            BY <1>8, <1>10
        <3>5. QED
            BY <1>7, <3>3, <3>4
    <2>3. QED
        BY <1>5, <1>7, <2>2
<1>12. \A x \in ToSet(plan') : ~job'[x].susp
    <2>1. \A x \in ToSet(s) : x \in S
        BY <1>2, <1>4 DEF ToSet
    <2>2. \A x \in S : ~job[x].susp /\ x \in Results
        BY <1>3 DEF runnable
    <2> HIDE DEF S
    <2>3. QED
        BY <1>6, <1>7, <1>8, <2>1, <2>2
<1>13. Fresh'
    BY <1>10, <1>11, <1>12 DEF Fresh, Listed, runnable
<1>14. QED
    BY <1>9, <1>13

-----------------------------------------------------------------------------
(***************************************************************************)
(* What the loops of enforce_schedule keep of CPUs and marks.              *)
(***************************************************************************)

LEMMA PreemptedMarks ==
    ASSUME NEW st \in St, NEW t, NEW u, u = Preempted(st, t)
    PROVE  u.large = st.large
BY DEF Preempted, St

LEMMA RunTaskMarks ==
    ASSUME NEW st \in St, NEW r, NEW u, u = RunTask(st, r)
    PROVE  u.large = st.large \ {r}
<1> DEFINE l == st.large \ {r}
           n == st.next \cup {r}
           k == st.used + 1
           m == st.ram - job[r].rss
<1>1. u = [st EXCEPT !.next = n, !.used = k, !.ram = m, !.large = l]
    BY DEF RunTask, St
<1> HIDE DEF l, n, k, m
<1>2. u.large = l
    BY <1>1 DEF St
<1>3. QED
    BY <1>2 DEF l

LEMMA KeepTaskMarks ==
    ASSUME Typed, NEW st \in St, NEW r \in Results, NEW u, u = KeepTask(st, r)
    PROVE  u.large = IF job[r].rss > st.ram THEN st.large \cup {r} ELSE st.large \ {r}
<1>1. CASE job[r].rss > st.ram
    <2> DEFINE v == Preempted(st, r)
               l == v.large \cup {r}
    <2>1. v \in St /\ v.large = st.large
        BY PreemptedTyped, PreemptedMarks
    <2>2. u = [v EXCEPT !.large = l]
        BY <1>1, <2>1 DEF KeepTask, St
    <2> HIDE DEF v, l
    <2>3. u.large = l
        BY <2>1, <2>2 DEF St
    <2>4. QED
        BY <1>1, <2>1, <2>3 DEF l
<1>2. CASE ~(job[r].rss > st.ram)
    <2> DEFINE n == st.running \ {r}
               m == st.ram - job[r].rss
               l == st.large \ {r}
    <2>1. u = [st EXCEPT !.running = n, !.ram = m, !.large = l]
        BY <1>2 DEF KeepTask, St
    <2> HIDE DEF n, m, l
    <2>2. u.large = l
        BY <2>1 DEF St
    <2>3. QED
        BY <1>2, <2>2 DEF l
<1>3. QED
    BY <1>1, <1>2

\* One round of the loop over the list: result r gets its mark anew, and the
\* others keep theirs.  Unless all CPUs are used no other task is preempted,
\* and r shall run or is too large.
Placed(a, b, r) ==
    /\ b.running \subseteq a.running \ {r}
    /\ \A x \in Results \ {r} : x \in b.large <=> x \in a.large
    /\ r \in b.large => job[r].rss > a.ram
    /\ \/ Cardinality(Chosen(b)) >= ncpus
       \/ /\ a.running \ {r} \subseteq b.running /\ Chosen(a) \ {r} \subseteq Chosen(b)
          /\ r \in Chosen(b) \/ r \in b.large

LEMMA ConsiderPlaces ==
    ASSUME Typed, NEW a \in St, LoopInv(a), NEW r \in CpuIntensive,
           NEW age \in Seq(Results), IsInjective(age), NEW ripe,
           NEW b, b = Consider(a, r, age, ripe), LoopInv(b)
    PROVE  Placed(a, b, r)
<1>0. r \in Results /\ a.running \subseteq Chosen(a) /\ a.used \in Int /\ ncpus \in Nat
    BY RamTyped DEF CpuIntensive, LoopInv, St
<1>1. CASE r \in a.running
    <2>1. b = KeepTask(a, r)
        BY <1>1 DEF Consider
    <2>2. /\ b.running = a.running \ {r}
          /\ \/ job[r].rss > a.ram /\ b.next = a.next \ {r}
             \/ ~(job[r].rss > a.ram) /\ b.next = a.next
        BY <1>0, <2>1, KeepTaskTyped
    <2>3. b.large = IF job[r].rss > a.ram THEN a.large \cup {r} ELSE a.large \ {r}
        BY <1>0, <2>1, KeepTaskMarks
    <2>4. Chosen(a) \ {r} \subseteq Chosen(b) /\ (r \in Chosen(b) \/ r \in b.large)
        BY <1>0, <1>1, <2>2, <2>3 DEF Chosen
    <2>5. QED
        BY <2>2, <2>3, <2>4 DEF Placed
<1>2. CASE r \notin a.running /\ job[r].rss > a.ram
    <2> DEFINE l == a.large \cup {r}
    <2>1. b = [a EXCEPT !.large = l]
        BY <1>2 DEF Consider, St
    <2> HIDE DEF l
    <2>2. b.running = a.running /\ b.next = a.next /\ b.large = l
        BY <2>1 DEF St
    <2>3. Chosen(b) = Chosen(a)
        BY <2>2 DEF Chosen
    <2>4. QED
        BY <1>2, <2>2, <2>3 DEF Placed, l
<1>3. CASE r \notin a.running /\ ~(job[r].rss > a.ram)
    <2> DEFINE need  == a.used >= ncpus /\ a.running # {}
               front == MostPreemptable(a, age)
               late  == a.missed[ProjectOf[r]] > 0
    <2>1. b = preempt_if_needed(a, r, age, ripe)
        BY <1>3 DEF Consider
    <2>2. CASE ~need
        <3>1. b = RunTask(a, r)
            BY <2>1, <2>2 DEF preempt_if_needed
        <3>2. b.next = a.next \cup {r} /\ b.running = a.running /\ b.large = a.large \ {r}
            BY <1>0, <3>1, RunTaskTyped, RunTaskMarks
        <3>3. Chosen(b) = Chosen(a) \cup {r}
            BY <3>2 DEF Chosen
        <3>4. QED
            BY <1>3, <3>2, <3>3 DEF Placed
    <2>3. CASE need /\ (late \/ front \in ripe)
        <3> DEFINE p == Preempted(a, front)
                   q == ProjectOf[r]
                   m == [p.missed EXCEPT ![q] = IF late THEN p.missed[q] - 1 ELSE 0]
                   v == [p EXCEPT !.missed = m]
        <3>1. /\ p \in St /\ p.running = a.running \ {front} /\ p.used = a.used - 1
              /\ p.large = a.large
            BY PreemptedTyped, PreemptedMarks
        <3>2. q \in Projects
            BY <1>0, CpuSchedAssumption
        <3>3. b = RunTask([p EXCEPT !.missed[q] = IF late THEN @ - 1 ELSE 0], r)
            BY <2>1, <2>3, Zenon DEF preempt_if_needed
        <3>4. [p EXCEPT !.missed[q] = IF late THEN @ - 1 ELSE 0] = v
            <4> HIDE DEF p, q, late
            <4>1. QED
                BY <3>1, <3>2 DEF St
        <3>5. m \in [Projects -> Int]
            <4> HIDE DEF p, q, late
            <4>1. p.missed \in [Projects -> Int] /\ p.missed[q] \in Int
                BY <3>1, <3>2 DEF St
            <4>2. QED
                BY <3>2, <4>1
        <3> HIDE DEF m, p, front
        <3>6. v \in St /\ v.running = p.running /\ v.used = p.used /\ v.large = p.large
            BY <3>1, <3>5 DEF St
        <3>7. b = RunTask(v, r)
            BY <3>3, <3>4
        <3> HIDE DEF v
        <3>8. b.running = v.running /\ b.used = v.used + 1 /\ b.large = v.large \ {r}
            BY <1>0, <3>6, <3>7, RunTaskTyped, RunTaskMarks
        <3>9. /\ b.running = a.running \ {front} /\ b.used = a.used
              /\ b.large = a.large \ {r}
            BY <1>0, <3>1, <3>6, <3>8
        <3>10. Cardinality(Chosen(b)) >= ncpus
            BY <2>3, <3>9 DEF LoopInv
        <3>11. QED
            BY <1>3, <3>9, <3>10 DEF Placed
    <2>4. CASE need /\ ~(late \/ front \in ripe)
        <3> DEFINE l == a.large \ {r}
        <3>1. b = [a EXCEPT !.large = l]
            BY <2>1, <2>4 DEF preempt_if_needed, St
        <3> HIDE DEF l
        <3>2. b.running = a.running /\ b.next = a.next /\ b.used = a.used /\ b.large = l
            BY <3>1 DEF St
        <3>3. Cardinality(Chosen(b)) >= ncpus
            BY <2>4, <3>2 DEF LoopInv
        <3>4. QED
            BY <1>3, <3>2, <3>3 DEF Placed, l
    <2>5. QED
        BY <2>2, <2>3, <2>4
<1>4. QED
    BY <1>1, <1>2, <1>3

\* Tasks of results that are over or miss files.
Lingering == {r \in CpuIntensive : job[r].task # "none" /\ job[r].state # "DOWNLOADED"}

\* The CPUs that are used or claimed in round n: by the list as far as it is
\* still to be considered, and as far as it was found too large.
Claimed(st, n) ==
    (Chosen(st) \cup Lingering) \cup
    ({plan[i] : i \in (n + 1)..Len(plan)} \cup ({plan[i] : i \in 1..n} \cap st.large))

LEMMA ClaimedFinite ==
    ASSUME ListInv, NEW st \in St, NEW n \in 0..Len(plan)
    PROVE  /\ Claimed(st, n) \in SUBSET Results /\ IsFiniteSet(Claimed(st, n))
           /\ Cardinality(Claimed(st, n)) \in Nat
<1>1. Chosen(st) \in SUBSET Results /\ Lingering \in SUBSET Results
    BY ChosenFinite DEF Lingering, CpuIntensive
<1>2. plan \in Seq(Results) /\ Len(plan) \in Nat
    BY DEF ListInv
<1>3. {plan[i] : i \in (n + 1)..Len(plan)} \in SUBSET Results
    BY <1>2
<1>4. {plan[i] : i \in 1..n} \in SUBSET Results
    BY <1>2
<1>5. Claimed(st, n) \in SUBSET Results
    BY <1>1, <1>3, <1>4 DEF Claimed
<1>6. QED
    BY <1>5, FiniteParts

\* A set with enough members stays so when it grows.
LEMMA StillEnough ==
    ASSUME Typed, NEW A \in SUBSET Results, NEW B \in SUBSET Results, A \subseteq B,
           Cardinality(A) >= ncpus
    PROVE  Cardinality(B) >= ncpus
<1>1. IsFiniteSet(B) /\ Cardinality(A) \in Nat /\ Cardinality(B) \in Nat /\ ncpus \in Nat
    BY FiniteParts, RamTyped
<1>2. Cardinality(A) <= Cardinality(B)
    BY <1>1, FS_Subset
<1>3. QED
    BY <1>1, <1>2

LEMMA PlacedClaims ==
    ASSUME Typed, ListInv, NEW a \in St, NEW b \in St, NEW n \in 1..Len(plan),
           Placed(a, b, plan[n])
    PROVE  \/ Cardinality(Claimed(b, n)) >= ncpus
           \/ /\ Claimed(a, n - 1) \subseteq Claimed(b, n)
              /\ a.running \ {plan[n]} \subseteq b.running
<1>1. plan \in Seq(Results) /\ Len(plan) \in Nat /\ IsInjective(plan)
    BY DEF ListInv
<1>2. Claimed(b, n) \in SUBSET Results /\ Chosen(b) \in SUBSET Results
    BY <1>1, ClaimedFinite, ChosenFinite
<1>3. CASE Cardinality(Chosen(b)) >= ncpus
    <2>1. Chosen(b) \subseteq Claimed(b, n)
        BY DEF Claimed
    <2>2. QED
        BY <1>2, <1>3, <2>1, StillEnough
<1>4. CASE /\ a.running \ {plan[n]} \subseteq b.running
           /\ Chosen(a) \ {plan[n]} \subseteq Chosen(b)
           /\ plan[n] \in Chosen(b) \/ plan[n] \in b.large
    <2> DEFINE r == plan[n]
               D == {plan[i] : i \in 1..(n - 1)}
               E == {plan[i] : i \in 1..n}
               U == {plan[i] : i \in (n + 1)..Len(plan)}
               V == {plan[i] : i \in (n - 1 + 1)..Len(plan)}
    <2>1. E = D \cup {r} /\ V = U \cup {r} /\ r \notin D /\ D \in SUBSET Results
        <3>1. E = D \cup {r}
            BY <1>1
        <3>2. V = U \cup {r}
            BY <1>1
        <3>3. r \notin D
            BY <1>1 DEF IsInjective
        <3>4. D \in SUBSET Results
            BY <1>1
        <3>5. QED
            BY <3>1, <3>2, <3>3, <3>4
    <2>2. /\ Claimed(a, n - 1) = (Chosen(a) \cup Lingering) \cup (V \cup (D \cap a.large))
          /\ Claimed(b, n) = (Chosen(b) \cup Lingering) \cup (U \cup (E \cap b.large))
        BY DEF Claimed
    <2>3. \A x \in Results \ {r} : x \in b.large <=> x \in a.large
        BY DEF Placed
    <2> HIDE DEF r, D, E, U, V
    <2>4. D \cap a.large \subseteq E \cap b.large
        BY <2>1, <2>3
    <2>5. r \in Chosen(b) \/ r \in E \cap b.large
        BY <1>4, <2>1 DEF r
    <2>6. Chosen(a) \ {r} \subseteq Chosen(b)
        BY <1>4 DEF r
    <2>7. Claimed(a, n - 1) \subseteq Claimed(b, n)
        BY <2>1, <2>2, <2>4, <2>5, <2>6
    <2>8. QED
        BY <1>4, <2>7
<1>5. QED
    BY <1>3, <1>4 DEF Placed

\* All of that loop.
ListPlaced(w, c) ==
    /\ c.running \subseteq w.running \ Listed /\ Counted(c) \subseteq Listed
    /\ \A x \in Results \ Listed : x \in c.large <=> x \in w.large
    /\ \A x \in c.large : job[x].task # "none"
    /\ \/ Cardinality(Chosen(c) \cup Lingering \cup (Listed \cap c.large)) >= ncpus
       \/ /\ w.running \ Listed \subseteq c.running
          /\ ~(Cardinality(Chosen(w) \cup Lingering \cup Listed) >= ncpus)

LEMMA ConsideredPlaces ==
    ASSUME Typed, ListInv, AllTidy, Len(plan) <= ncpus,
           \A i \in 1..Len(plan) : plan[i] \in Known,
           NEW w \in St, LoopInv(w), Counted(w) = {}, w.used <= ncpus,
           \A x \in w.large : job[x].task # "none",
           NEW age \in Seq(Results), IsInjective(age), NEW ripe
    PROVE  ListPlaced(w, Considered(w, age, ripe))
<1> DEFINE N == Len(plan)
<1>0. PICK f : IsConsidered(f, w, age, ripe) /\ ConsideredFits(f)
    BY ConsideredEach
<1>1. /\ f[0] = w /\ Considered(w, age, ripe) = f[N]
      /\ \A n \in 1..N : f[n] = Consider(f[n - 1], plan[n], age, ripe)
    BY <1>0 DEF IsConsidered
<1>2. /\ N \in Nat /\ plan \in Seq(Results) /\ \A n \in 1..N : plan[n] \in CpuIntensive
      /\ Listed = {plan[i] : i \in 1..N} /\ IsInjective(plan)
    BY DEF ListInv, ToSet, Listed
<1>3. \A n \in 0..N : f[n] \in St /\ LoopInv(f[n])
    BY <1>0 DEF ConsideredFits
<1> DEFINE Done(n) == {plan[i] : i \in 1..n}
           Enough(n) == Cardinality(Claimed(f[n], n)) >= ncpus
           Q(n) == /\ f[n].running \subseteq w.running \ Done(n)
                   /\ \A x \in Results \ Listed : x \in f[n].large <=> x \in w.large
                   /\ \A x \in f[n].large : job[x].task # "none"
                   /\ Enough(n) \/ (w.running \ Listed \subseteq f[n].running /\ ~Enough(0))
           T == {n \in 0..N : Q(n)}
<1>4. 0 \in T
    <2>1. Done(0) = {}
        OBVIOUS
    <2> HIDE DEF Done, Enough
    <2>2. QED
        BY <1>1, <1>2, <2>1
<1>5. ASSUME NEW n \in 1..N, n - 1 \in T PROVE n \in T
    <2> DEFINE a == f[n - 1]
               b == f[n]
               r == plan[n]
    <2>1. n \in 0..N /\ n - 1 \in 0..N /\ r \in CpuIntensive /\ r \in Listed /\ r \in Results
        BY <1>2 DEF CpuIntensive
    <2>2. a \in St /\ LoopInv(a) /\ b \in St /\ LoopInv(b) /\ b = Consider(a, r, age, ripe)
        BY <1>1, <1>3, <2>1
    <2>3. Placed(a, b, r)
        <3> HIDE DEF a, b, r
        <3>1. QED
            BY <2>1, <2>2, ConsiderPlaces
    <2>4. Q(n - 1)
        BY <1>5
    <2>5. Done(n) = Done(n - 1) \cup {r}
        BY <1>2
    <2>6. \/ Enough(n)
          \/ /\ Claimed(a, n - 1) \subseteq Claimed(b, n)
             /\ a.running \ {r} \subseteq b.running
        BY <2>2, <2>3, PlacedClaims
    <2>7. Claimed(a, n - 1) \subseteq Claimed(b, n) => (Enough(n - 1) => Enough(n))
        <3>1. Claimed(a, n - 1) \in SUBSET Results /\ Claimed(b, n) \in SUBSET Results
            BY <2>1, <2>2, ClaimedFinite
        <3>2. QED
            BY <3>1, StillEnough
    <2> HIDE DEF Done, Enough
    <2>8. b.running \subseteq w.running \ Done(n)
        BY <2>3, <2>4, <2>5 DEF Placed
    <2>9. \A x \in Results \ Listed : x \in b.large <=> x \in w.large
        BY <2>1, <2>3, <2>4 DEF Placed
    <2>10. \A x \in b.large : job[x].task # "none"
        <3>1. ASSUME r \in b.large PROVE job[r].task # "none"
            <4>1. job[r].rss > a.ram
                BY <2>3, <3>1 DEF Placed
            <4>2. a.ram >= 0 /\ a.ram \in Int /\ job[r].rss \in Nat
                BY <2>1, <2>2, RamTyped DEF LoopInv, St
            <4>3. job[r].rss # 0
                BY <4>1, <4>2
            <4>4. QED
                BY <2>1, <4>3 DEF AllTidy, Tidy
        <3>2. \A x \in b.large : x \in Results
            BY <2>2 DEF St
        <3>3. QED
            BY <2>3, <2>4, <3>1, <3>2 DEF Placed
    <2>11. Enough(n) \/ (w.running \ Listed \subseteq b.running /\ ~Enough(0))
        BY <2>1, <2>4, <2>6, <2>7
    <2>12. Q(n)
        BY <2>8, <2>9, <2>10, <2>11
    <2>13. QED
        BY <2>1, <2>12
<1> HIDE DEF T
<1>6. N \in T
    <2>1. \A n \in 0..N : n \in T
        BY <1>2, <1>4, <1>5, Rounds
    <2>2. QED
        BY <1>2, <2>1
<1> DEFINE c == Considered(w, age, ripe)
<1>7. Q(N) /\ c = f[N] /\ N \in 0..N
    BY <1>1, <1>2, <1>6 DEF T
<1>8. Done(N) = Listed
    BY <1>2
<1>9. Counted(c) \subseteq Listed
    BY <1>0, <1>7, <1>8 DEF ConsideredFits
<1>10. /\ Claimed(f[N], N) = Chosen(c) \cup Lingering \cup (Listed \cap c.large)
       /\ Claimed(f[0], 0) = Chosen(w) \cup Lingering \cup Listed
    <2>1. {plan[i] : i \in (N + 1)..N} = {}
        BY <1>2
    <2>2. /\ Claimed(f[N], N) = (Chosen(c) \cup Lingering) \cup
                ({plan[i] : i \in (N + 1)..N} \cup ({plan[i] : i \in 1..N} \cap c.large))
          /\ Claimed(f[0], 0) = (Chosen(w) \cup Lingering) \cup
                ({plan[i] : i \in (0 + 1)..N} \cup ({plan[i] : i \in 1..0} \cap w.large))
        BY <1>1, <1>7 DEF Claimed
    <2>3. {plan[i] : i \in 1..0} = {} /\ {plan[i] : i \in (0 + 1)..N} = Listed
        BY <1>2
    <2>4. {plan[i] : i \in 1..N} = Listed
        BY <1>2
    <2> HIDE DEF c
    <2>5. QED
        BY <2>1, <2>2, <2>3, <2>4
<1> HIDE DEF c, Done
<1>11. QED
    BY <1>7, <1>8, <1>9, <1>10 DEF ListPlaced, c

\* The loop before it preempts only beyond the CPUs, and marks nothing.
LEMMA WithinMarks ==
    ASSUME Typed, NEW st0 \in St, NEW age \in Seq(Results)
    PROVE  /\ WithinCpus(st0, age).large = st0.large
           /\ WithinCpus(st0, age) = st0 \/ WithinCpus(st0, age).used >= ncpus
<1> DEFINE N == Len(age)
<1>1. PICK f \in [0..N -> St] :
        /\ f[0] = st0 /\ WithinCpus(st0, age) = f[N]
        /\ \A n \in 1..N : f[n] = Trimmed(f[n - 1], age)
    BY WithinRounds
<1> DEFINE Q(n) == f[n].large = st0.large /\ (f[n] = st0 \/ f[n].used >= ncpus)
           T == {n \in 0..N : Q(n)}
<1>2. N \in Nat /\ ncpus \in Nat
    BY RamTyped
<1>3. 0 \in T
    BY <1>1, <1>2
<1>4. ASSUME NEW n \in 1..N, n - 1 \in T PROVE n \in T
    <2> DEFINE a == f[n - 1]
               b == f[n]
    <2>1. n \in 0..N /\ n - 1 \in 0..N
        BY <1>2
    <2>2. a \in St /\ a.used \in Int /\ b = Trimmed(a, age)
        BY <1>1, <2>1 DEF St
    <2>3. a.large = st0.large /\ (a = st0 \/ a.used >= ncpus)
        BY <1>4
    <2> HIDE DEF a, b
    <2>4. CASE a.used > ncpus
        <3> DEFINE t == MostPreemptable(a, age)
        <3>1. b = Preempted(a, t)
            BY <2>2, <2>4 DEF Trimmed
        <3> HIDE DEF t
        <3>2. b.large = a.large /\ b.used = a.used - 1
            BY <2>2, <3>1, PreemptedTyped, PreemptedMarks
        <3>3. b.used >= ncpus
            BY <1>2, <2>2, <2>4, <3>2
        <3>4. QED
            BY <2>1, <2>3, <3>2, <3>3 DEF b
    <2>5. CASE ~(a.used > ncpus)
        <3>1. b = a
            BY <2>2, <2>5 DEF Trimmed
        <3>2. QED
            BY <2>1, <2>3, <3>1 DEF b
    <2>6. QED
        BY <2>4, <2>5
<1> HIDE DEF T
<1>5. N \in T
    <2>1. \A n \in 0..N : n \in T
        BY <1>2, <1>3, <1>4, Rounds
    <2>2. QED
        BY <1>2, <2>1
<1>6. Q(N)
    BY <1>5 DEF T
<1>7. QED
    BY <1>1, <1>6

\* The loop after it: a task outside the list goes on, and is not too large,
\* or it is too large and does not.
Sorted(a, x) == (x \in a.next /\ x \notin a.large) \/ (x \notin a.next /\ x \in a.large)
SameMarks(a, b, x) == (x \in a.next <=> x \in b.next) /\ (x \in a.large <=> x \in b.large)
OthersPlaced(c, o) ==
    \A x \in Results : IF x \in c.running THEN Sorted(o, x) ELSE SameMarks(o, c, x)

LEMMA KeepOtherMarks ==
    ASSUME Typed, NEW a \in St, NEW st \in St, NEW r \in Results, r \in a.next,
           NEW b, b = KeepOther(a, st, r)
    PROVE  /\ \A x \in Results \ {r} : SameMarks(b, a, x)
           /\ IF r \in st.running THEN Sorted(b, r) ELSE SameMarks(b, a, r)
<1>1. CASE r \notin st.running
    BY <1>1 DEF KeepOther, SameMarks
<1>2. CASE r \in st.running /\ job[r].rss > a.ram
    <2> DEFINE n == a.next \ {r}
               l == a.large \cup {r}
    <2>1. b = [a EXCEPT !.next = n, !.large = l]
        BY <1>2 DEF KeepOther, St
    <2> HIDE DEF n, l
    <2>2. b.next = n /\ b.large = l
        BY <2>1 DEF St
    <2>3. QED
        BY <1>2, <2>2 DEF n, l, SameMarks, Sorted
<1>3. CASE r \in st.running /\ ~(job[r].rss > a.ram)
    <2> DEFINE m == a.ram - job[r].rss
               l == a.large \ {r}
    <2>1. b = [a EXCEPT !.ram = m, !.large = l]
        BY <1>3 DEF KeepOther, St
    <2> HIDE DEF m, l
    <2>2. b.next = a.next /\ b.large = l
        BY <2>1 DEF St
    <2>3. QED
        BY <1>3, <2>2 DEF l, SameMarks, Sorted
<1>4. QED
    BY <1>1, <1>2, <1>3

LEMMA OthersMarks ==
    ASSUME Typed, NEW c \in St, LoopInv(c), NEW age \in Seq(Results), IsInjective(age),
           \A r \in Running : \E i \in 1..Len(age) : age[i] = r,
           NEW o, o = KeepOthers(c, age)
    PROVE  OthersPlaced(c, o)
<1> DEFINE N == Len(age)
<1>1. PICK f \in [0..N -> St] :
        /\ f[0] = c /\ KeepOthers(c, age) = f[N]
        /\ \A n \in 1..N : f[n] = KeepOther(f[n - 1], c, age[n])
    BY KeepOthersRounds
<1> DEFINE Seen(n) == {age[i] : i \in 1..n}
           Q(n) == \A x \in Results :
                     IF x \in c.running /\ x \in Seen(n) THEN Sorted(f[n], x)
                     ELSE SameMarks(f[n], c, x)
           T == {n \in 0..N : Q(n)}
<1>2. N \in Nat /\ DOMAIN age = 1..N /\ \A n \in 1..N : age[n] \in Results
    OBVIOUS
<1>3. \A n \in 0..N : f[n] \in St
    BY <1>1
<1>4. 0 \in T
    <2>1. Seen(0) = {}
        OBVIOUS
    <2> HIDE DEF Seen
    <2>2. QED
        BY <1>1, <1>2, <2>1 DEF SameMarks
<1>5. ASSUME NEW n \in 1..N, n - 1 \in T PROVE n \in T
    <2> DEFINE a == f[n - 1]
               b == f[n]
               r == age[n]
    <2>1. n \in 0..N /\ n - 1 \in 0..N /\ r \in Results
        BY <1>2
    <2>2. a \in St /\ b = KeepOther(a, c, r)
        BY <1>1, <1>3, <2>1
    <2>3. \A x \in Results : IF x \in c.running /\ x \in Seen(n - 1) THEN Sorted(a, x)
                             ELSE SameMarks(a, c, x)
        BY <1>5
    <2>4. Seen(n) = Seen(n - 1) \cup {r} /\ r \notin Seen(n - 1)
        BY <1>2 DEF IsInjective
    <2> HIDE DEF a, b, r, Seen
    <2>5. r \notin c.running => b = a
        BY <2>2 DEF KeepOther
    <2>6. r \in c.running => r \in a.next
        BY <2>1, <2>3, <2>4 DEF SameMarks, LoopInv, Chosen
    <2>7. r \in c.running => /\ \A x \in Results \ {r} : SameMarks(b, a, x)
                             /\ Sorted(b, r)
        BY <2>1, <2>2, <2>6, KeepOtherMarks
    <2>8. \A x \in Results : IF x \in c.running /\ x \in Seen(n) THEN Sorted(b, x)
                             ELSE SameMarks(b, c, x)
        <3>1. CASE r \notin c.running
            BY <2>3, <2>4, <2>5, <3>1
        <3>2. CASE r \in c.running
            <4>1. \A x \in Results \ {r} : /\ SameMarks(a, c, x) => SameMarks(b, c, x)
                                           /\ Sorted(a, x) => Sorted(b, x)
                BY <2>7, <3>2 DEF SameMarks, Sorted
            <4>2. QED
                BY <2>1, <2>3, <2>4, <2>7, <3>2, <4>1
        <3>3. QED
            BY <3>1, <3>2
    <2>9. QED
        BY <2>1, <2>8 DEF b
<1> HIDE DEF T
<1>6. N \in T
    <2>1. \A n \in 0..N : n \in T
        BY <1>2, <1>4, <1>5, Rounds
    <2>2. QED
        BY <1>2, <2>1
<1>7. Q(N)
    BY <1>6 DEF T
<1>8. \A x \in c.running : x \in Seen(N)
    BY DEF LoopInv
<1> HIDE DEF Seen
<1>9. QED
    BY <1>1, <1>7, <1>8 DEF OthersPlaced

\* The decision of enforce_schedule, d.
Decision(d) ==
    /\ d.next \cap CpuIntensive \subseteq Running \cup Listed
    /\ \A x \in CpuIntensive \ Listed : x \in d.large => x \notin d.next
    /\ \A x \in d.large : job[x].task # "none"
    /\ \A x \in CpuIntensive \ Listed :
         job[x].large => x \in d.large \/ (x \in Running /\ x \in d.next)
    /\ \/ \E x \in CpuIntensive \ Listed : x \in d.large
       \/ Cardinality((d.next \cap CpuIntensive) \cup Lingering \cup (Listed \cap d.large))
            >= ncpus
       \/ /\ Running \subseteq d.next \cup Listed
          /\ ~(Cardinality(Running \cup Lingering \cup Listed) >= ncpus)

LEMMA DecidedPlaces ==
    ASSUME Typed, ListInv, AllTidy, Len(plan) <= ncpus,
           \A i \in 1..Len(plan) : plan[i] \in Known,
           NEW missed \in rr_simulation, NEW age \in SetToSeqs(Running), NEW ripe,
           NEW d, d = Decided(missed, age, ripe)
    PROVE  Decision(d)
<1> DEFINE N == {r \in Results : job[r].task # "none" /\ job[r].sched /\ runnable(job[r])}
           L == {r \in Results : job[r].large}
           R == {r \in Results \ CpuIntensive : runnable(job[r])}
           st0 == [next |-> N, running |-> Running, used |-> Cardinality(Running),
                   ram |-> available_ram, missed |-> missed, large |-> L]
           w == WithinCpus(st0, age)
           c == Considered(w, age, ripe)
           o == KeepOthers(c, age)
<1>1. d.next = o.next \cup R /\ d.large = o.large
    BY DEF Decided
<1>2. Running \in SUBSET Results /\ Running = N \cap CpuIntensive /\ CpuIntensive \in SUBSET Results
    BY DEF Running, CpuIntensive
<1>3. N \in SUBSET Results /\ L \in SUBSET Results /\ N \subseteq Known
    BY DEF runnable, Known
<1>4. missed \in [Projects -> Int]
    <2>1. Cardinality(CpuIntensive) \in Nat
        BY <1>2, FiniteParts
    <2>2. QED
        BY <2>1 DEF rr_simulation
<1>5. available_ram \in Nat /\ ncpus \in Nat
    BY RamTyped
<1>6. Cardinality(Running) \in Nat
    BY <1>2, FiniteParts
<1>7. /\ age \in Seq(Results) /\ IsInjective(age) /\ Len(age) = Cardinality(Running)
      /\ \A r \in Running : \E i \in 1..Len(age) : age[i] = r
    BY <1>2, AgeTyped
<1>8. \A x \in L : job[x].task # "none"
    BY DEF AllTidy, Tidy
<1> HIDE DEF N, R
<1>9. /\ st0.next = N /\ st0.running = Running /\ st0.used = Cardinality(Running)
      /\ st0.ram = available_ram /\ st0.large = L
    OBVIOUS
<1>10. st0 \in St
    <2> HIDE DEF L
    <2>1. QED
        BY <1>2, <1>3, <1>4, <1>5, <1>6 DEF St
<1> HIDE DEF st0, L
<1>11. Chosen(st0) = Running /\ Counted(st0) = {}
    BY <1>2, <1>9 DEF Chosen, Counted
<1>12. LoopInv(st0)
    <2>1. Total(job, {}) = 0
        BY RssTotal
    <2>2. Total(job, Counted(st0)) + st0.ram = available_ram /\ st0.ram >= 0
        BY <1>5, <1>9, <1>11, <2>1
    <2>3. QED
        BY <1>3, <1>9, <1>11, <2>2 DEF LoopInv
<1>13. w \in St /\ LoopInv(w) /\ Counted(w) = {} /\ w.used <= ncpus
    BY <1>7, <1>9, <1>10, <1>11, <1>12, WithinLoop
<1>14. w.large = L /\ (w = st0 \/ w.used >= ncpus)
    BY <1>7, <1>9, <1>10, WithinMarks
<1> HIDE DEF w
<1>15. c \in St /\ LoopInv(c)
    BY <1>7, <1>13, ConsideredLoop
<1>16. ListPlaced(w, c)
    BY <1>7, <1>8, <1>13, <1>14, ConsideredPlaces
<1> HIDE DEF c
<1>17. OthersPlaced(c, o)
    BY <1>7, <1>15, OthersMarks
<1>18. o.next \subseteq c.next
    BY <1>7, <1>15, OthersLoop
<1>19. o.large \subseteq Results
    <2>1. PICK f \in [0..Len(age) -> St] : KeepOthers(c, age) = f[Len(age)]
        BY <1>7, <1>15, KeepOthersRounds
    <2>2. Len(age) \in 0..Len(age)
        BY <1>7
    <2>3. o \in St
        BY <2>1, <2>2
    <2>4. QED
        BY <2>3 DEF St
<1> HIDE DEF o
<1>20. /\ d.next \cap CpuIntensive = Chosen(o) /\ Chosen(o) \subseteq Chosen(c)
    BY <1>1, <1>18 DEF Chosen, R
<1>21. /\ c.running \subseteq Chosen(c) /\ c.running \subseteq Running
       /\ Chosen(c) \in SUBSET CpuIntensive
       /\ \A x \in Chosen(c) : x \in c.running \/ x \in Listed
    BY <1>15, <1>16 DEF LoopInv, ListPlaced, Counted, Chosen
<1>22. Listed \in SUBSET CpuIntensive
    BY DEF ListInv, Listed
<1>23. d.next \cap CpuIntensive \subseteq Running \cup Listed
    BY <1>20, <1>21
<1>24. \A x \in CpuIntensive \ Listed : x \in d.large => x \notin d.next
    <2>1. ASSUME NEW x \in CpuIntensive \ Listed, x \in o.large, x \in Chosen(o)
          PROVE  FALSE
        <3>1. x \in c.running /\ x \in Results /\ x \in o.next
            BY <1>2, <1>20, <1>21, <2>1 DEF Chosen
        <3>2. QED
            BY <1>17, <2>1, <3>1 DEF OthersPlaced, Sorted
    <2>2. QED
        BY <1>1, <1>20, <2>1
<1>25. \A x \in d.large : job[x].task # "none"
    <2>1. ASSUME NEW x \in o.large PROVE job[x].task # "none"
        <3>1. CASE x \in c.running
            BY <1>21, <3>1 DEF Running
        <3>2. CASE x \notin c.running
            BY <1>16, <1>17, <1>19, <2>1, <3>2 DEF OthersPlaced, SameMarks, ListPlaced
        <3>3. QED
            BY <3>1, <3>2
    <2>2. QED
        BY <1>1, <2>1
<1>26. \A x \in CpuIntensive \ Listed :
         job[x].large => x \in d.large \/ (x \in Running /\ x \in d.next)
    <2>1. ASSUME NEW x \in CpuIntensive \ Listed, job[x].large
          PROVE  x \in o.large \/ (x \in Running /\ x \in o.next)
        <3>1. x \in Results /\ x \in c.large
            BY <1>2, <1>14, <1>16, <2>1 DEF ListPlaced, L
        <3>2. CASE x \in c.running
            BY <1>17, <1>21, <3>1, <3>2 DEF OthersPlaced, Sorted
        <3>3. CASE x \notin c.running
            BY <1>17, <3>1, <3>3 DEF OthersPlaced, SameMarks
        <3>4. QED
            BY <3>2, <3>3
    <2>2. QED
        BY <1>1, <2>1
<1>27. CASE \E x \in c.running : x \notin o.next
    <2>1. PICK x \in c.running : x \notin o.next
        BY <1>27
    <2>2. x \in o.large /\ x \in CpuIntensive \ Listed
        BY <1>2, <1>16, <1>17, <1>21, <2>1 DEF OthersPlaced, Sorted, ListPlaced
    <2>3. QED
        BY <1>1, <1>23, <1>24, <1>25, <1>26, <2>2 DEF Decision
<1>28. CASE c.running \subseteq o.next
    <2>1. Chosen(o) = Chosen(c)
        <3>1. \A x \in Chosen(c) : x \in o.next
            BY <1>2, <1>17, <1>21, <1>28 DEF OthersPlaced, SameMarks, Chosen
        <3>2. QED
            BY <1>20, <1>21, <3>1 DEF Chosen
    <2>2. Listed \cap o.large = Listed \cap c.large
        <3>1. \A x \in Listed : x \in Results /\ x \notin c.running
            BY <1>2, <1>16, <1>22 DEF ListPlaced
        <3>2. QED
            BY <1>17, <3>1 DEF OthersPlaced, SameMarks
    <2> DEFINE A == Chosen(c) \cup Lingering \cup (Listed \cap c.large)
               B == Chosen(w) \cup Lingering \cup Listed
    <2>3. \/ Cardinality(A) >= ncpus
          \/ w.running \ Listed \subseteq c.running /\ ~(Cardinality(B) >= ncpus)
        BY <1>16 DEF ListPlaced
    <2>4. (d.next \cap CpuIntensive) \cup Lingering \cup (Listed \cap d.large) = A
        BY <1>1, <1>20, <2>1, <2>2
    <2>5. ASSUME ~(Cardinality(B) >= ncpus) PROVE w = st0
        <3>1. Chosen(w) \in SUBSET Results /\ Chosen(w) \subseteq B /\ B \in SUBSET Results
            BY <1>2, <1>13, <1>22, ChosenFinite DEF Lingering
        <3> HIDE DEF B
        <3>2. ~(Cardinality(Chosen(w)) >= ncpus)
            BY <2>5, <3>1, StillEnough
        <3>3. ~(w.used >= ncpus)
            BY <1>13, <3>2 DEF LoopInv
        <3>4. QED
            BY <1>14, <3>3
    <2>6. ASSUME ~(Cardinality(A) >= ncpus)
          PROVE  /\ Running \subseteq d.next \cup Listed
                 /\ ~(Cardinality(Running \cup Lingering \cup Listed) >= ncpus)
        <3> HIDE DEF A, B
        <3>1. w.running \ Listed \subseteq c.running /\ ~(Cardinality(B) >= ncpus) /\ w = st0
            BY <2>3, <2>5, <2>6
        <3>2. Running \subseteq d.next \cup Listed
            BY <1>1, <1>9, <1>28, <3>1
        <3>3. B = Running \cup Lingering \cup Listed
            BY <1>11, <3>1 DEF B
        <3>4. QED
            BY <3>1, <3>2, <3>3
    <2> HIDE DEF A, B
    <2>7. QED
        BY <1>23, <1>24, <1>25, <1>26, <2>4, <2>6 DEF Decision
<1>29. QED
    BY <1>27, <1>28

-----------------------------------------------------------------------------
\* The last loop, as far as it matters here: from j to k, for a task that
\* shall run and one that shall not.
Ran(j, k) ==
    /\ k \in Job /\ k.large = j.large /\ k.task # "none" /\ (k.susp => j.susp)
    /\ k.state = "DOWNLOADED" => j.state = "DOWNLOADED" /\ k.susp = j.susp
    /\ k.sched \/ (j.task \in {"none", "UNINITIALIZED"} /\ k.task # "EXECUTING")
Rested(j, k) ==
    /\ k \in Job /\ k.large = j.large /\ k.susp = j.susp /\ k.state = j.state
    /\ k.task = "none" => j.task = "none" /\ k.rss = j.rss
    /\ ~k.sched

LEMMA RunsNowRan ==
    ASSUME NEW j \in Job, NEW how
    PROVE  Ran(j, RunsNow(j, how))
<1>1. CASE j.task \in {"none", "UNINITIALIZED"}
    <2> DEFINE i == [j EXCEPT !.task = "UNINITIALIZED"]
               s == start(i, how)
               b == s.sched \/ s.task = "EXECUTING"
    <2>1. /\ i \in Job /\ i.state = j.state /\ i.susp = j.susp /\ i.task # "none"
          /\ i.large = j.large
        BY DEF Job
    <2>2. RunsNow(j, how) = [s EXCEPT !.sched = b]
        <3>1. s \in Job
            BY <2>1, StartWaits DEF Waits
        <3>2. QED
            BY <1>1, <3>1 DEF RunsNow, Job
    <2> HIDE DEF i
    <2>3. Waits(i, s)
        BY <2>1, StartWaits
    <2> HIDE DEF s
    <2>4. b \in BOOLEAN /\ (s.task = "EXECUTING" => b)
        OBVIOUS
    <2> HIDE DEF b
    <2> DEFINE k == [s EXCEPT !.sched = b]
    <2>5. /\ k \in Job /\ k.sched = b /\ k.task = s.task /\ k.large = s.large
          /\ k.susp = s.susp /\ k.state = s.state
        BY <2>3, <2>4 DEF Waits, Job
    <2> HIDE DEF k
    <2>6. Ran(j, k)
        BY <1>1, <2>1, <2>3, <2>4, <2>5 DEF Waits, Ran
    <2>7. QED
        BY <2>2, <2>6 DEF k
<1>2. CASE j.task = "SUSPENDED"
    <2>1. RunsNow(j, how) = [j EXCEPT !.task = "EXECUTING", !.sched = TRUE]
        BY <1>2 DEF RunsNow
    <2>2. QED
        BY <2>1 DEF Ran, Job
<1>3. CASE j.task \notin {"none", "UNINITIALIZED", "SUSPENDED"}
    <2>1. RunsNow(j, how) = [j EXCEPT !.sched = TRUE]
        BY <1>3 DEF RunsNow
    <2>2. QED
        BY <1>3, <2>1 DEF Ran, Job
<1>4. QED
    BY <1>1, <1>2, <1>3

LEMMA StopsNowRested ==
    ASSUME NEW j \in Job, NEW leave \in BOOLEAN, NEW low_swap \in BOOLEAN,
           NEW ckpt \in BOOLEAN
    PROVE  Rested(j, StopsNow(j, leave, low_swap, ckpt))
<1> DEFINE S == StopsNow(j, leave, low_swap, ckpt)
<1>1. ASSUME NEW st \in {"QUIT_PENDING", "SUSPENDED"}
      PROVE  Rested(j, [[j EXCEPT !.task = st] EXCEPT !.sched = FALSE])
    BY DEF Rested, Job
<1>2. ASSUME NEW quit
      PROVE  Rested(j, [preempt(j, quit, ckpt) EXCEPT !.sched = FALSE])
    <2> DEFINE st == IF quit /\ ckpt THEN "QUIT_PENDING" ELSE "SUSPENDED"
    <2>1. preempt(j, quit, ckpt) = [j EXCEPT !.task = st] /\ st \in {"QUIT_PENDING", "SUSPENDED"}
        BY DEF preempt
    <2> HIDE DEF st
    <2>2. QED
        BY <1>1, <2>1
<1>3. Rested(j, [j EXCEPT !.sched = FALSE])
    BY DEF Rested, Job
<1>4. CASE j.task = "EXECUTING"
    <2> DEFINE q == ~leave \/ low_swap \/ j.large
    <2>1. S = [preempt(j, q, ckpt) EXCEPT !.sched = FALSE]
        BY <1>4 DEF StopsNow
    <2> HIDE DEF q
    <2>2. QED
        BY <1>2, <2>1
<1>5. CASE j.task = "SUSPENDED" /\ ckpt /\ ~leave
    <2>1. S = [preempt(j, TRUE, ckpt) EXCEPT !.sched = FALSE]
        BY <1>5 DEF StopsNow
    <2>2. QED
        BY <1>2, <2>1
<1>6. CASE j.task # "EXECUTING" /\ ~(j.task = "SUSPENDED" /\ ckpt /\ ~leave)
    <2>1. S = [j EXCEPT !.sched = FALSE]
        BY <1>6 DEF StopsNow
    <2>2. QED
        BY <1>3, <2>1
<1>7. QED
    BY <1>4, <1>5, <1>6

\* What becomes of result r.
Enacted(d, r) ==
    /\ job'[r].large <=> r \in d.large
    /\ job'[r].susp => job[r].susp
    /\ runnable(job'[r]) => runnable(job[r])
    /\ job'[r].task = "none" => /\ job[r].task = "none" /\ r \notin d.next
                                /\ job'[r].rss = job[r].rss
    /\ r \notin d.next => job'[r].state = job[r].state /\ ~job'[r].sched
    /\ r \in d.next => job'[r].sched \/ mustSchedule'

LEMMA EnforceEnacts ==
    ASSUME SuspensionInv, NEW d, NEW leave \in BOOLEAN, NEW low_swap \in BOOLEAN,
           NEW ckpt, NEW failing, NEW how,
           EnforceWith(d, leave, low_swap, ckpt, failing, how), NEW r \in Results
    PROVE  Enacted(d, r)
<1> DEFINE l == r \in d.large
           c == r \in ckpt
           h == IF r \in failing THEN how ELSE "forked"
           j == [job[r] EXCEPT !.large = l]
           R == RunsNow(j, h)
           S == StopsNow(j, leave, low_swap, c)
<1>1. l \in BOOLEAN /\ c \in BOOLEAN /\ job[r] \in Job /\ (l <=> r \in d.large)
    BY DEF SuspensionInv, Typed
<1>2. job'[r] = Enforced(r, d, h, leave, low_swap, c)
    BY DEF EnforceWith
<1>3. job'[r] = IF r \in d.next THEN R ELSE S
    BY <1>2 DEF Enforced
<1>4. \A x \in d.next : Starts(x) /\ job'[x].task # "EXECUTING" => mustSchedule'
    BY DEF EnforceWith
<1> HIDE DEF l, c, h
<1>5. /\ j \in Job /\ j.state = job[r].state /\ j.rss = job[r].rss /\ j.task = job[r].task
      /\ j.susp = job[r].susp /\ j.large = l
    BY <1>1 DEF Job
<1> HIDE DEF j
<1>6. Ran(j, R)
    BY <1>5, RunsNowRan
<1>7. Rested(j, S)
    BY <1>1, <1>5, StopsNowRested
<1> HIDE DEF R, S
<1>8. CASE r \in d.next
    <2>1. job'[r] = R
        BY <1>3, <1>8
    <2>2. job'[r].sched \/ mustSchedule'
        BY <1>4, <1>5, <1>6, <1>8, <2>1 DEF Ran, Starts
    <2>3. QED
        BY <1>1, <1>5, <1>6, <1>8, <2>1, <2>2 DEF Ran, Enacted, runnable
<1>9. CASE r \notin d.next
    <2>1. job'[r] = S
        BY <1>3, <1>9
    <2>2. QED
        BY <1>1, <1>5, <1>7, <1>9, <2>1 DEF Rested, Enacted, runnable
<1>10. QED
    BY <1>8, <1>9

\* The number of results in the list.
LEMMA ListedNumber ==
    ASSUME ListInv
    PROVE  Cardinality(Listed) = Len(plan)
<1> DEFINE n == Len(plan)
<1>1. n \in Nat /\ plan \in [1..n -> Listed] /\ IsInjective(plan)
    BY DEF ListInv, Listed, ToSet
<1>2. \A x \in Listed : \E i \in 1..n : plan[i] = x
    BY <1>1 DEF Listed, ToSet
<1>3. plan \in Bijection(1..n, Listed)
    <2>1. plan \in Injection(1..n, Listed)
        BY <1>1 DEF Injection
    <2>2. plan \in Surjection(1..n, Listed)
        BY <1>1, <1>2 DEF Surjection
    <2>3. QED
        BY <2>1, <2>2 DEF Bijection
<1>4. IsFiniteSet(1..n) /\ Cardinality(1..n) = n
    <2>1. /\ IsFiniteSet(1..n)
          /\ Cardinality(1..n) = IF 1 > n THEN 0 ELSE n - 1 + 1
        BY <1>1, FS_Interval
    <2>2. QED
        BY <1>1, <2>1
<1>5. Cardinality(1..n) = Cardinality(Listed)
    BY <1>3, <1>4, FS_Bijection DEF ExistsBijection
<1>6. QED
    BY <1>4, <1>5

\* enforce_schedule settles a list that was settled or is fresh.
LEMMA EnforceSettles ==
    ASSUME SuspensionInv, ListInv, AllTidy, Settled \/ Fresh, NEW d, Decision(d),
           \A r \in Results : Enacted(d, r), plan' = plan, ncpus' = ncpus, ~mustSchedule'
    PROVE  Settled'
<1>0. /\ Listed' = Listed /\ CpuIntensive' = CpuIntensive
      /\ CpuIntensive \in SUBSET Results /\ Listed \in SUBSET CpuIntensive
    BY HeldFinite DEF Listed, CpuIntensive
<1>1. \A r \in Results :
        /\ job'[r].large <=> r \in d.large
        /\ job'[r].susp => job[r].susp
        /\ runnable(job'[r]) => runnable(job[r])
        /\ job'[r].task = "none" => job[r].task = "none" /\ r \notin d.next
        /\ r \notin d.next => job'[r].state = job[r].state /\ ~job'[r].sched
        /\ r \in d.next => job'[r].sched
    BY DEF Enacted
<1> DEFINE C == d.next \cap CpuIntensive
           F == C \cup Lingering \cup (Listed \cap d.large)
           G == Running \cup Lingering \cup Listed
<1>2. LeftOut' = {x \in CpuIntensive \ Listed : x \in d.large}
    <2>1. LeftOut' = {x \in CpuIntensive \ Listed : job'[x].large}
        BY <1>0 DEF LeftOut
    <2>2. QED
        BY <1>0, <1>1, <2>1
<1>3. \A x \in LeftOut' : ~job'[x].sched
    BY <1>0, <1>1, <1>2 DEF Decision
<1>4. \A x \in Listed : ~job[x].susp
    BY <1>0 DEF Settled, Fresh
<1>5. \A x \in CpuIntensive : x \in Listed \/ job'[x].sched => ~job'[x].susp
    <2>1. \A x \in Running : ~job[x].susp
        BY DEF Running, runnable
    <2>2. \A x \in CpuIntensive : job'[x].sched => x \in Running \/ x \in Listed
        BY <1>0, <1>1 DEF Decision
    <2>3. QED
        BY <1>0, <1>1, <1>4, <2>1, <2>2
<1>6. F \subseteq Held' /\ F \in SUBSET Results /\ Held' \in SUBSET Results
    <2>1. Busy' = {r \in CpuIntensive : /\ job'[r].task # "none"
                                        /\ job'[r].sched \/ job'[r].state # "DOWNLOADED"}
        BY DEF Busy, CpuIntensive
    <2>2. C \subseteq Busy'
        BY <1>0, <1>1, <2>1
    <2>3. Lingering \subseteq Busy'
        BY <1>0, <1>1, <2>1 DEF Lingering
    <2>4. Held' = Busy' \cup {x \in Listed : job'[x].large}
        BY <1>0 DEF Held
    <2>5. Listed \cap d.large \subseteq {x \in Listed : job'[x].large}
        BY <1>0, <1>1
    <2>6. Held' \in SUBSET Results
        BY <1>0, <2>1, <2>4
    <2> HIDE DEF C
    <2>7. QED
        BY <2>2, <2>3, <2>4, <2>5, <2>6
<1>7. Cardinality(F) >= ncpus => Cardinality(Held') >= ncpus
    <2> HIDE DEF F
    <2>1. QED
        BY <1>6, StillEnough DEF SuspensionInv
<1>8. Settled' <=> /\ \A x \in LeftOut' : ~job'[x].sched
                   /\ \A x \in CpuIntensive : x \in Listed \/ job'[x].sched => ~job'[x].susp
                   /\ \/ LeftOut' # {}
                      \/ Cardinality(Held') >= ncpus'
                      \/ \A r \in CpuIntensive :
                           runnable(job'[r]) => job'[r].sched \/ r \in Listed
    BY <1>0 DEF Settled, runnable
<1>9. \/ LeftOut' # {} \/ Cardinality(F) >= ncpus
      \/ Running \subseteq d.next \cup Listed /\ ~(Cardinality(G) >= ncpus)
    BY <1>2 DEF Decision
<1> HIDE DEF F
<1>10. SUFFICES ASSUME LeftOut' = {}, Running \subseteq d.next \cup Listed,
                       ~(Cardinality(G) >= ncpus)
                PROVE  \A r \in CpuIntensive :
                         runnable(job'[r]) => job'[r].sched \/ r \in Listed
    BY <1>3, <1>5, <1>7, <1>8, <1>9
<1>11. \A x \in Running : job'[x].sched \/ x \in Listed
    BY <1>0, <1>1, <1>10 DEF Running
<1>12. G \in SUBSET Results /\ Lingering \in SUBSET Results
    BY <1>0 DEF Running, Lingering
<1>13. CASE Settled
    <2>1. LeftOut = {}
        <3>1. ASSUME NEW x \in LeftOut PROVE FALSE
            <4>1. x \in CpuIntensive \ Listed /\ job[x].large /\ ~job[x].sched
                BY <1>13 DEF Settled, LeftOut
            <4>2. x \notin Running
                BY <4>1 DEF Running
            <4>3. x \in d.large
                BY <4>1, <4>2 DEF Decision
            <4>4. QED
                BY <1>2, <1>10, <4>1, <4>3
        <3>2. QED
            BY <3>1
    <2>2. ~(Cardinality(Held) >= ncpus)
        <3>1. Held \subseteq G
            <4>1. \A x \in Busy : x \in Running \/ x \in Lingering
                BY <1>13 DEF Busy, Settled, Running, Lingering, runnable
            <4>2. QED
                BY <4>1 DEF Held
        <3>2. Held \in SUBSET Results
            BY HeldFinite
        <3> HIDE DEF G
        <3>3. QED
            BY <1>10, <1>12, <3>1, <3>2, StillEnough DEF SuspensionInv
    <2>3. \A r \in CpuIntensive : runnable(job[r]) => job[r].sched \/ r \in Listed
        BY <1>13, <2>1, <2>2 DEF Settled
    <2>4. ASSUME NEW r \in CpuIntensive, runnable(job'[r]), r \notin Listed
          PROVE  job'[r].sched
        <3>1. runnable(job[r]) /\ job[r].sched
            BY <1>0, <1>1, <2>3, <2>4
        <3>2. r \in Running
            BY <1>0, <3>1 DEF Running, AllTidy, Tidy
        <3>3. QED
            BY <1>11, <2>4, <3>2
    <2>5. QED
        BY <2>4
<1>14. CASE Fresh
    <2>1. ~(Len(plan) >= ncpus)
        <3>1. Listed \subseteq G /\ Listed \in SUBSET Results
            BY <1>0
        <3> HIDE DEF G
        <3>2. ~(Cardinality(Listed) >= ncpus)
            BY <1>10, <1>12, <3>1, StillEnough DEF SuspensionInv
        <3>3. QED
            BY <3>2, ListedNumber
    <2>2. ASSUME NEW r \in CpuIntensive, runnable(job'[r]), r \notin Listed
          PROVE  job'[r].sched
        <3>1. job[r].large
            BY <1>0, <1>1, <1>14, <2>1, <2>2 DEF Fresh
        <3>2. r \notin d.large
            BY <1>2, <1>10, <2>2
        <3>3. r \in d.next
            BY <2>2, <3>1, <3>2 DEF Decision
        <3>4. QED
            BY <1>0, <1>1, <3>3
    <2>3. QED
        BY <2>2
<1>15. QED
    BY <1>13, <1>14

LEMMA EnforceForgotten ==
    ASSUME SuspensionInv, ListInv, LimitsInv, ForgottenInv, EnforceSchedule
    PROVE  ForgottenInv'
<1>1. PICK d \in Decisions, leave \in BOOLEAN, low_swap \in BOOLEAN :
        \E ckpt, failing, how : EnforceWith(d, leave, low_swap, ckpt, failing, how)
    BY DEF EnforceSchedule
<1>2. PICK ckpt, failing, how : EnforceWith(d, leave, low_swap, ckpt, failing, how)
    BY <1>1
<1>3. PICK missed \in rr_simulation, age \in SetToSeqs(Running), ripe \in SUBSET Running :
        d = Decided(missed, age, ripe)
    BY DEF Decisions
<1>4. Len(plan) <= ncpus /\ \A i \in 1..Len(plan) : plan[i] \in Known
    BY EnforcedShort
<1>5. Decision(d)
    BY <1>3, <1>4, DecidedPlaces DEF SuspensionInv, ForgottenInv
<1>6. \A r \in Results : Enacted(d, r)
    BY <1>2, EnforceEnacts
<1>7. phase = "enforce" /\ plan' = plan /\ ncpus' = ncpus
    BY DEF EnforceSchedule, hostVars
<1>8. AllTidy'
    <2>1. ASSUME NEW r \in Results, job'[r].task = "none"
          PROVE  ~job'[r].sched /\ ~job'[r].large /\ job'[r].rss = 0
        <3>1. /\ job'[r].large <=> r \in d.large
              /\ job[r].task = "none" /\ job'[r].rss = job[r].rss /\ ~job'[r].sched
            BY <1>6, <2>1 DEF Enacted
        <3>2. r \notin d.large
            BY <1>5, <3>1 DEF Decision
        <3>3. QED
            BY <3>1, <3>2 DEF ForgottenInv, AllTidy, Tidy
    <2>2. QED
        BY <2>1 DEF AllTidy, Tidy
<1>9. CASE mustSchedule'
    BY <1>8, <1>9 DEF ForgottenInv
<1>10. CASE ~mustSchedule'
    <2>1. ~mustSchedule
        BY <1>2, <1>10 DEF EnforceWith
    <2>2. Settled \/ Fresh
        BY <1>7, <2>1 DEF ForgottenInv
    <2>3. Settled'
        BY <1>5, <1>6, <1>7, <1>10, <2>2, EnforceSettles DEF ForgottenInv
    <2>4. QED
        BY <1>8, <2>3 DEF ForgottenInv
<1>11. QED
    BY <1>9, <1>10

\* A step in which the list is neither made nor enforced.
LEMMA PatienceKeeps ==
    ASSUME SuspensionInv, ListInv, ForgottenInv, Patience, plan' = plan, ncpus' = ncpus,
           mustSchedule => mustSchedule', phase # "enforce", phase # "undefined"
    PROVE  ForgottenInv'
<1>1. AllTidy'
    BY PatienceTidy DEF ForgottenInv
<1>2. Settled => Settled'
    BY PatienceSettled
<1>3. QED
    BY <1>1, <1>2 DEF ForgottenInv

LEMMA StepForgotten ==
    ASSUME SuspensionInv, ListInv, LimitsInv, ForgottenInv, [Next]_vars
    PROVE  ForgottenInv'
<1>0. AllTidy
    BY DEF ForgottenInv
<1>1. CASE FullPass \/ ShortPass
    <2>1. PICK full \in BOOLEAN : BeginPass(full)
        BY <1>1 DEF FullPass, ShortPass
    <2>2. /\ plan' = plan /\ ncpus' = ncpus /\ (mustSchedule => mustSchedule')
          /\ phase = "idle"
        BY <2>1 DEF BeginPass
    <2>3. Patience
        BY <2>1, BeginPassWaits
    <2>4. QED
        BY <2>2, <2>3, PatienceKeeps
<1>2. CASE Poll
    <2>1. /\ plan' = plan /\ ncpus' = ncpus /\ (mustSchedule => mustSchedule')
          /\ phase = "poll"
        BY <1>2 DEF Poll, hostVars
    <2>2. QED
        BY <1>0, <1>2, <2>1, PollPatience, PatienceKeeps
<1>3. CASE CleanUp
    <2>1. /\ plan' = plan /\ ncpus' = ncpus /\ (mustSchedule => mustSchedule')
          /\ phase = "clean"
        BY <1>3 DEF CleanUp, hostVars
    <2>2. AllTidy' /\ (mustSchedule' \/ Patience)
        BY <1>0, <1>3, CleanUpPatience
    <2>3. CASE mustSchedule'
        BY <2>2, <2>3 DEF ForgottenInv
    <2>4. CASE Patience
        BY <2>1, <2>4, PatienceKeeps
    <2>5. QED
        BY <2>2, <2>3, <2>4
<1>4. CASE ScheduleCpus
    <2>1. phase' = "enforce" /\ mustEnforce' = TRUE
        BY <1>4 DEF ScheduleCpus
    <2>2. AllTidy' /\ Fresh'
        BY <1>0, <1>4, ScheduleFresh
    <2>3. QED
        BY <2>1, <2>2 DEF ForgottenInv
<1>5. CASE EnforceSchedule
    BY <1>5, EnforceForgotten
<1>6. CASE KeepSchedule
    <2>1. /\ job' = job /\ plan' = plan /\ ncpus' = ncpus /\ flags' = flags
          /\ phase = "cpus"
        BY <1>6 DEF KeepSchedule, hostVars
    <2>2. QED
        BY <2>1, SameWaits, PatienceKeeps DEF flags
<1>7. CASE KeepTasks
    <2>1. /\ job' = job /\ plan' = plan /\ ncpus' = ncpus /\ mustSchedule' = mustSchedule
          /\ phase = "enforce" /\ ~mustEnforce
        BY <1>7 DEF KeepTasks, hostVars, flags
    <2>2. AllTidy'
        BY <1>0, <2>1, SameWaits, PatienceTidy
    <2>3. Settled => Settled'
        BY <2>1, SameWaits, PatienceSettled
    <2>4. QED
        BY <2>1, <2>2, <2>3 DEF ForgottenInv
<1>8. CASE EnforceDeleted \/ Undefined
    <2>1. job' = job /\ phase' = "undefined"
        BY <1>8 DEF EnforceDeleted, Undefined, vars
    <2>2. AllTidy'
        BY <1>0, <2>1, SameWaits, PatienceTidy
    <2>3. QED
        BY <2>1, <2>2 DEF ForgottenInv
<1>9. CASE UNCHANGED vars
    <2>1. /\ job' = job /\ plan' = plan /\ ncpus' = ncpus /\ mustSchedule' = mustSchedule
          /\ mustEnforce' = mustEnforce /\ phase' = phase
        BY <1>9 DEF vars, flags, hostVars
    <2>2. QED
        BY <2>1 DEF ForgottenInv, AllTidy, Tidy, Settled, Fresh, LeftOut, Held, Busy,
                    Listed, CpuIntensive, runnable
<1>10. CASE SchedulerReply
    <2>1. /\ plan' = plan /\ ncpus' = ncpus /\ mustSchedule' = mustSchedule
          /\ phase = "idle"
        BY <1>10 DEF SchedulerReply, flags, hostVars
    <2>2. QED
        BY <1>10, <2>1, ReplyPatience, PatienceKeeps
<1>11. CASE RunBenchmarks
    <2>1. /\ job' = job /\ plan' = plan /\ ncpus' = ncpus /\ mustSchedule' = mustSchedule
          /\ phase = "idle"
        BY <1>11 DEF RunBenchmarks, Command, flags
    <2>2. QED
        BY <2>1, SameWaits, PatienceKeeps
<1>12. CASE \/ \E r \in Results : SuspendResult(r) \/ AbortResult(r)
            \/ \E p \in Projects : ResetProject(p)
            \/ \E n \in 1..MaxCpus : ChangePrefs(n)
    <2>1. mustSchedule' = TRUE
        BY <1>12 DEF SuspendResult, AbortResult, ResetProject, ChangePrefs, Requested
    <2>2. AllTidy'
        BY <1>0, <1>12, CommandTidy
    <2>3. QED
        BY <2>1, <2>2 DEF ForgottenInv
<1>13. QED
    BY <1>1, <1>2, <1>3, <1>4, <1>5, <1>6, <1>7, <1>8, <1>9, <1>10, <1>11, <1>12 DEF Next

LEMMA InitForgotten == Init => ForgottenInv
<1> SUFFICES ASSUME Init PROVE ForgottenInv
    OBVIOUS
<1>1. PICK s \in BOOLEAN : job = [r \in Results |-> [Unsent EXCEPT !.susp = s]]
    BY DEF Init
<1>2. AllTidy
    BY <1>1 DEF AllTidy, Tidy, Unsent
<1>3. QED
    BY <1>2 DEF Init, ForgottenInv

\* No runnable result is forgotten while a CPU is idle: whatever happens to
\* results and tasks between the passes, and whatever enforce_schedule
\* decides about CPUs, memory and preemption, the result is scheduled or in
\* ordered_scheduled_results, some task is too large and was denied the CPU,
\* or request_schedule_cpus has been called.
THEOREM NoneIsForgotten == Spec => []NoneForgotten
<1>1. Init => ListInv
    BY EmptyList DEF Init, ListInv
<1>2. SuspensionInv /\ ListInv /\ [Next]_vars => ListInv'
    BY StepList
<1>3. SuspensionInv /\ ListInv /\ LimitsInv /\ [Next]_vars => LimitsInv'
    BY StepLimits
<1>4. SuspensionInv /\ ListInv /\ LimitsInv /\ ForgottenInv /\ [Next]_vars => ForgottenInv'
    BY StepForgotten
<1>5. SuspensionInv /\ ListInv /\ ForgottenInv => NoneForgotten
    BY NotForgotten
<1>6. QED
    BY <1>1, <1>2, <1>3, <1>4, <1>5, InitLimits, InitForgotten, AlwaysInv, PTL DEF Spec

=============================================================================
