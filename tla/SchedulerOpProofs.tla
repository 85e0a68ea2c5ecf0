------------------------- MODULE SchedulerOpProofs -------------------------
(***************************************************************************)
(* Proofs about scheduler RPCs and master file fetches, for any number of  *)
(* projects and schedulers and any retry policy.                           *)
(***************************************************************************)
EXTENDS SchedulerOp, TLAPS, FiniteSetTheorems

(***************************************************************************)
(* What the decisions of the code return.                                  *)
(***************************************************************************)

\* What a deferral leaves alone in a PROJECT.
Keeps(r, s) ==
    /\ s \in Project
    /\ s.urls = r.urls /\ s.hosted = r.hosted /\ s.seqno = r.seqno
    /\ s.next = r.next
Deferred(r) == r.wait > 0 \/ r.next > 0

\* set_min_rpc_time never shortens a deferral, and a project without one
\* has then one or an RPC of its own time.
LEMMA SetMinKeeps ==
    ASSUME NEW r \in Project, NEW d \in 0..LongestWait
    PROVE  /\ Keeps(r, set_min_rpc_time(r, d))
           /\ d > 0 => Deferred(set_min_rpc_time(r, d))
           /\ Deferred(r) => Deferred(set_min_rpc_time(r, d))
<1> DEFINE s == set_min_rpc_time(r, d)
<1>0. LongestWait \in Nat
    BY PolicyAssumption DEF LongestWait
<1>1. CASE d <= r.wait \/ (r.next > 0 /\ d > r.next - 1)
    <2>1. s = r
        BY <1>1 DEF set_min_rpc_time
    <2>2. d > 0 => Deferred(r)
        BY <1>0, <1>1 DEF Project, Deferred
    <2>3. QED
        BY <2>1, <2>2 DEF Keeps
<1>2. CASE ~(d <= r.wait \/ (r.next > 0 /\ d > r.next - 1))
    <2>1. s = [r EXCEPT !.wait = d]
        BY <1>2 DEF set_min_rpc_time
    <2>2. d > 0
        BY <1>0, <1>2 DEF Project
    <2>3. s \in Project /\ s.wait = d
        BY <2>1 DEF Project
    <2>4. s.urls = r.urls /\ s.hosted = r.hosted /\ s.seqno = r.seqno /\ s.next = r.next
        BY <2>1 DEF Project
    <2>5. QED
        BY <2>2, <2>3, <2>4 DEF Keeps, Deferred
<1>3. QED
    BY <1>1, <1>2

\* Another failed master fetch.
LEMMA MoreMasterFailuresKeeps ==
    ASSUME NEW r \in Project
    PROVE  Keeps(r, MoreMasterFailures(r)) /\ MoreMasterFailures(r).wait = r.wait
           /\ MoreMasterFailures(r).nrpc = r.nrpc
<1>1. (IF r.mff < MasterFetchRetryCap THEN r.mff + 1 ELSE r.mff) \in 0..MasterFetchRetryCap
    BY PolicyAssumption DEF Project
<1>2. QED
    BY <1>1 DEF MoreMasterFailures, Project, Keeps

\* A delay of calculate_exponential_backoff is a deferral.
LEMMA DelayType ==
    ASSUME NEW n, NEW d \in calculate_exponential_backoff(n, RetryMin, RetryMax)
    PROVE  d \in 0..LongestWait /\ d > 0
BY PolicyAssumption DEF calculate_exponential_backoff, LongestWait

\* backoff defers the project, or leaves it to the RPC it asked for, and
\* does not let nrpc_failures get past master_fetch_period.
LEMMA BackoffKeeps ==
    ASSUME NEW r \in Project, NEW t \in backoff(r)
    PROVE  Keeps(r, t) /\ Deferred(t)
<1>1. CASE r.mff >= MasterFetchRetryCap
    <2> DEFINE q == [r EXCEPT !.master = TRUE]
    <2>1. Keeps(r, q) /\ q \in Project
        BY DEF Project, Keeps
    <2>2. MasterFetchInterval \in 0..LongestWait /\ MasterFetchInterval > 0
        BY PolicyAssumption DEF LongestWait
    <2>3. t = set_min_rpc_time(q, MasterFetchInterval)
        BY <1>1 DEF backoff
    <2> HIDE DEF q
    <2>4. Keeps(q, t) /\ Deferred(t)
        BY <2>1, <2>2, <2>3, SetMinKeeps
    <2>5. QED
        BY <2>1, <2>4 DEF Keeps
<1>2. CASE ~(r.mff >= MasterFetchRetryCap)
    <2> DEFINE s == IF r.nrpc = MasterFetchPeriod
                    THEN [MoreMasterFailures(r) EXCEPT !.master = TRUE,
                                                       !.wait = 0, !.nrpc = 0]
                    ELSE r
               Result(n) == {set_min_rpc_time([s EXCEPT !.nrpc = n], d) :
                        d \in calculate_exponential_backoff(
                                IF n > RetryCap THEN RetryCap ELSE n,
                                RetryMin, RetryMax)}
    <2>1. PICK n \in {s.nrpc, s.nrpc + 1} : t \in Result(n)
        BY <1>2 DEF backoff
    <2>2. Keeps(r, s) /\ s \in Project /\ s.nrpc < MasterFetchPeriod
        <3>1. CASE r.nrpc = MasterFetchPeriod
            <4>1. MoreMasterFailures(r) \in Project /\ Keeps(r, MoreMasterFailures(r))
                BY MoreMasterFailuresKeeps DEF Keeps
            <4>2. 0 \in 0..MasterFetchPeriod /\ 0 \in 0..LongestWait
                  /\ 0 < MasterFetchPeriod
                BY PolicyAssumption DEF LongestWait
            <4>3. s = [MoreMasterFailures(r) EXCEPT !.master = TRUE, !.wait = 0, !.nrpc = 0]
                BY <3>1
            <4>4. QED
                BY <4>1, <4>2, <4>3 DEF Project, Keeps
        <3>2. CASE r.nrpc # MasterFetchPeriod
            BY <3>2, PolicyAssumption DEF Project, Keeps
        <3>3. QED
            BY <3>1, <3>2
    <2>3. PICK d \in calculate_exponential_backoff(
                        IF n > RetryCap THEN RetryCap ELSE n, RetryMin, RetryMax) :
              t = set_min_rpc_time([s EXCEPT !.nrpc = n], d)
        BY <2>1
    <2>4. d \in 0..LongestWait /\ d > 0
        BY <2>3, DelayType
    <2> HIDE DEF s
    <2>5. n \in 0..MasterFetchPeriod
        BY <2>1, <2>2, PolicyAssumption DEF Project
    <2> DEFINE q == [s EXCEPT !.nrpc = n]
    <2>6. q \in Project /\ Keeps(s, q)
        BY <2>2, <2>5 DEF Project, Keeps
    <2> HIDE DEF q
    <2>7. Keeps(q, t) /\ Deferred(t)
        BY <2>3, <2>4, <2>6, SetMinKeeps DEF q
    <2>8. QED
        BY <2>2, <2>6, <2>7 DEF Keeps
<1>3. QED
    BY <1>1, <1>2

\* The same after two backoffs in a row.
LEMMA BackoffTwiceKeeps ==
    ASSUME NEW r \in Project, NEW t \in backoff_twice(r)
    PROVE  Keeps(r, t) /\ Deferred(t)
<1>1. PICK s \in backoff(r) : t \in backoff(s)
    BY DEF backoff_twice
<1>2. Keeps(r, s)
    BY BackoffKeeps
<1>3. Keeps(s, t) /\ Deferred(t)
    BY <1>1, <1>2, BackoffKeeps DEF Keeps
<1>4. QED
    BY <1>2, <1>3 DEF Keeps

\* A master file: the URLs change, and the count of failures.
LEMMA MasterFetchedResult ==
    ASSUME NEW r \in Project, NEW new \in SUBSET Urls, NEW t \in master_fetched(r, new)
    PROVE  /\ t \in Project /\ t.hosted = r.hosted /\ t.seqno = r.seqno
           /\ new = {} => Deferred(t)
<1> DEFINE parsed == [r EXCEPT !.master = FALSE, !.urls = {}]
           unread == [r EXCEPT !.master = FALSE]
<1>1. /\ parsed \in Project /\ parsed.hosted = r.hosted /\ parsed.seqno = r.seqno
      /\ unread \in Project /\ unread.hosted = r.hosted /\ unread.seqno = r.seqno
    BY DEF Project
<1>2. CASE new # {}
    <2>1. t = update_urls(parsed, new)
        BY <1>2 DEF master_fetched
    <2> HIDE DEF parsed
    <2> DEFINE s == [parsed EXCEPT !.mff = 0, !.urls = new]
    <2>2. /\ 0 \in 0..MasterFetchRetryCap /\ 0 \in 0..LongestWait
          /\ 0 \in 0..MasterFetchPeriod
        BY PolicyAssumption DEF LongestWait
    <2>3. s \in Project /\ s.hosted = r.hosted /\ s.seqno = r.seqno
        BY <1>1, <2>2 DEF Project
    <2>4. t \in {s, [s EXCEPT !.wait = 0, !.nrpc = 0]}
        BY <2>1 DEF update_urls
    <2> HIDE DEF s
    <2>5. /\ [s EXCEPT !.wait = 0, !.nrpc = 0] \in Project
          /\ [s EXCEPT !.wait = 0, !.nrpc = 0].hosted = s.hosted
          /\ [s EXCEPT !.wait = 0, !.nrpc = 0].seqno = s.seqno
        BY <2>2, <2>3 DEF Project
    <2>6. QED
        BY <1>2, <2>3, <2>4, <2>5
<1>3. CASE new = {}
    <2>1. PICK q \in {parsed, unread} : t \in backoff(MoreMasterFailures(q))
        BY <1>3 DEF master_fetched
    <2> HIDE DEF parsed, unread
    <2>2. q \in Project /\ q.hosted = r.hosted /\ q.seqno = r.seqno
        BY <1>1, <2>1
    <2>3. Keeps(q, MoreMasterFailures(q))
        BY <2>2, MoreMasterFailuresKeeps
    <2>4. Keeps(MoreMasterFailures(q), t) /\ Deferred(t)
        BY <2>1, <2>3, BackoffKeeps DEF Keeps
    <2>5. QED
        BY <2>2, <2>3, <2>4 DEF Keeps
<1>4. QED
    BY <1>2, <1>3

\* A failed fetch of the master file.
LEMMA MasterFailResult ==
    ASSUME NEW r \in Project,
           NEW t \in backoff(MoreMasterFailures([r EXCEPT !.master = FALSE]))
    PROVE  /\ t \in Project /\ t.hosted = r.hosted /\ t.seqno = r.seqno
           /\ Deferred(t)
<1> DEFINE q == [r EXCEPT !.master = FALSE]
<1>1. q \in Project /\ q.hosted = r.hosted /\ q.seqno = r.seqno
    BY DEF Project
<1> HIDE DEF q
<1>2. Keeps(q, MoreMasterFailures(q))
    BY <1>1, MoreMasterFailuresKeeps
<1>3. Keeps(MoreMasterFailures(q), t) /\ Deferred(t)
    BY <1>2, BackoffKeeps DEF Keeps, q
<1>4. QED
    BY <1>1, <1>2, <1>3 DEF Keeps

\* A usable reply: a new host record has rpc_seqno 0.
LEMMA ReplyResult ==
    ASSUME NEW r \in Project, NEW newHost \in BOOLEAN, NEW noWork \in BOOLEAN,
           NEW delay \in 0..MaxDelay, NEW next \in 0..MaxNext,
           NEW t \in handle_scheduler_reply(r, newHost, noWork, delay, next)
    PROVE  /\ t \in Project /\ t.hosted
           /\ t.seqno = IF newHost THEN 0 ELSE r.seqno
           /\ noWork => Deferred(t)
<1> DEFINE s == [r EXCEPT !.pending = "none", !.hosted = TRUE,
                          !.seqno = IF newHost THEN 0 ELSE @,
                          !.next = IF next = 0 THEN 0 ELSE next + 1]
           served == IF noWork THEN backoff(s)
                     ELSE {[s EXCEPT !.nrpc = 0, !.wait = 0]}
<1>1. /\ (IF newHost THEN 0 ELSE r.seqno) \in 0..MaxSeqno
      /\ (IF next = 0 THEN 0 ELSE next + 1) \in 0..(MaxNext + 1)
      /\ 0 \in 0..LongestWait /\ 0 \in 0..MasterFetchPeriod
      /\ delay \in 0..LongestWait
    BY PolicyAssumption DEF Project, LongestWait
<1>2. s \in Project /\ s.hosted /\ s.seqno = IF newHost THEN 0 ELSE r.seqno
    BY <1>1 DEF Project
<1>3. PICK u \in served : t = IF delay = 0 THEN u ELSE set_min_rpc_time(u, delay)
    BY DEF handle_scheduler_reply
<1> HIDE DEF s
<1>4. u \in Project /\ u.hosted = s.hosted /\ u.seqno = s.seqno /\ (noWork => Deferred(u))
    <2>1. CASE noWork
        BY <1>2, <1>3, <2>1, BackoffKeeps DEF Keeps
    <2>2. CASE ~noWork
        BY <1>1, <1>2, <1>3, <2>2 DEF Project
    <2>3. QED
        BY <2>1, <2>2
<1>5. CASE delay = 0
    BY <1>2, <1>3, <1>4, <1>5
<1>6. CASE delay # 0
    <2>1. Keeps(u, t) /\ (Deferred(u) => Deferred(t))
        BY <1>1, <1>3, <1>4, <1>6, SetMinKeeps
    <2>2. QED
        BY <1>2, <1>4, <2>1 DEF Keeps
<1>7. QED
    BY <1>5, <1>6

\* The project is down, or its reply unreadable.
LEMMA DownResult ==
    ASSUME NEW r \in Project, NEW delay \in 0..MaxDelay, NEW t \in project_is_down(r, delay)
    PROVE  Keeps(r, t) /\ Deferred(t)
<1> DEFINE q == IF delay = 0 THEN r ELSE set_min_rpc_time(r, delay)
<1>0. delay \in 0..LongestWait
    BY PolicyAssumption DEF LongestWait
<1>1. Keeps(r, q) /\ q \in Project
    BY <1>0, SetMinKeeps DEF Keeps
<1>2. t \in backoff(q)
    BY DEF project_is_down
<1> HIDE DEF q
<1>3. Keeps(q, t) /\ Deferred(t)
    BY <1>1, <1>2, BackoffKeeps
<1>4. QED
    BY <1>1, <1>3 DEF Keeps

\* What StartPending hands to init_op_project.
LEMMA DueType ==
    ASSUME NEW r \in Project
    PROVE  /\ [r EXCEPT !.pending = "req", !.next = 0] \in Project
           /\ [r EXCEPT !.pending = "req", !.next = 0].urls = r.urls
           /\ [r EXCEPT !.pending = "req", !.next = 0].hosted = r.hosted
           /\ [r EXCEPT !.pending = "req", !.next = 0].seqno = r.seqno
<1>1. 0 \in 0..(MaxNext + 1)
    BY PolicyAssumption
<1>2. QED
    BY <1>1 DEF Project

-----------------------------------------------------------------------------
(***************************************************************************)
(* The shapes of a step of scheduler_rpc_poll.                             *)
(***************************************************************************)
\* An operation on p starts.
OpStarts(p) ==
    /\ opState = "idle" /\ phase \in {"idle", "rpcs"} /\ p \in attached
    /\ cur' = p /\ http' = "busy" /\ phase' = "write"
    /\ dirty' = dirty /\ blamed' = blamed
    /\ ~Waiting(p) \/ Due(p)
    /\ \E r \in Project :
         /\ proj' = [proj EXCEPT ![p] = r]
         /\ r.hosted = proj[p].hosted
         /\ \/ /\ opState' = "master" /\ r.seqno = proj[p].seqno
               /\ UNCHANGED <<urlIndex, reqSeq>>
            \/ /\ opState' = "rpc" /\ r.urls # {} /\ urlIndex' = 0
               /\ reqSeq' = (IF r.hosted THEN proj[p].seqno ELSE 0)
               /\ r.hosted => r.seqno >= reqSeq'

\* It could not start.
OpStartFails(p) ==
    /\ opState = "idle" /\ phase \in {"idle", "rpcs"} /\ p \in attached
    /\ UNCHANGED opVars /\ phase' \in {"rpcs", "write"}
    /\ dirty' = dirty /\ blamed' = blamed \cup {p}
    /\ \E r \in Project :
         /\ proj' = [proj EXCEPT ![p] = r]
         /\ r.hosted = proj[p].hosted /\ r.seqno = proj[p].seqno /\ Deferred(r)

\* The operation on cur is over, at once or after its last retry.
OpEnds ==
    /\ (opState # "idle" /\ phase = "idle") \/ phase = "retry"
    /\ opState' = "idle" /\ http' = "none" /\ cur' = None
    /\ urlIndex' \in Nat /\ reqSeq' = reqSeq
    /\ dirty' = TRUE /\ phase' = "write"
    /\ \E r \in Project :
         /\ proj' = [proj EXCEPT ![cur] = r]
         /\ \/ r.hosted = proj[cur].hosted /\ r.seqno = proj[cur].seqno
            \/ /\ opState = "rpc" /\ http \in {"ok", "new"} /\ r.hosted
               /\ r.seqno = IF NewHost THEN 0 ELSE proj[cur].seqno
         /\ \/ blamed' = blamed \cup {cur} /\ Deferred(r)
            \/ blamed' = blamed \ {cur}

\* The loop over the other schedulers: it begins, starts an RPC, fails to.
RetryBegins ==
    /\ opState = "rpc" /\ http = "fail" /\ phase = "idle"
    /\ opState' = "idle" /\ http' = "none" /\ phase' = "retry"
    /\ UNCHANGED <<urlIndex, reqSeq, proj, cur, dirty, blamed>>

RetryGoesOn ==
    /\ phase = "retry" /\ urlIndex + 1 < Cardinality(proj[cur].urls)
    /\ urlIndex' = urlIndex + 1 /\ UNCHANGED <<cur, reqSeq, dirty>>
    /\ \E r \in Project :
         /\ proj' = [proj EXCEPT ![cur] = r]
         /\ r.urls = proj[cur].urls /\ r.hosted = proj[cur].hosted
         /\ r.seqno >= proj[cur].seqno
    /\ \/ opState' = "rpc" /\ http' = "busy" /\ phase' = "write" /\ blamed' = blamed
       \/ UNCHANGED <<opState, http, phase>> /\ blamed' = blamed \cup {cur}

NothingStarts ==
    /\ phase \in {"idle", "rpcs"} /\ phase' = "write"
    /\ UNCHANGED <<proj, opVars, dirty, blamed>>

PollShape ==
    /\ up
    /\ UNCHANGED <<attached, srvSeq, envVars, fileVars>>
    /\ \/ \E p \in Projects : OpStarts(p) \/ OpStartFails(p)
       \/ OpEnds \/ RetryBegins \/ RetryGoesOn \/ NothingStarts

\* init_op_project starts an operation or fails to.
LEMMA InitOpShape ==
    ASSUME TypeOK, NEW p \in attached, NEW r \in Project,
           r.urls = proj[p].urls, r.hosted = proj[p].hosted, r.seqno = proj[p].seqno,
           ~Waiting(p) \/ Due(p), RestOfPoll, init_op_project(p, r)
    PROVE  OpStarts(p) \/ OpStartFails(p)
<1>0. /\ opState = "idle" /\ phase \in {"idle", "rpcs"} /\ phase' = "write"
      /\ dirty' = dirty
    BY DEF RestOfPoll
<1>1. CASE InitOpMaster(p, r)
    <2>1. OpStarts(p)
        BY <1>0, <1>1 DEF InitOpMaster, BeginMaster, OpStarts
    <2>2. QED
        BY <2>1
<1>2. CASE InitOpRpc(p, r)
    <2> DEFINE seqno == IF r.hosted THEN r.seqno ELSE 0
               more == IF seqno < MaxSeqno THEN seqno + 1 ELSE seqno
               s == [r EXCEPT !.seqno = more]
    <2>1. seqno \in 0..MaxSeqno /\ more \in 0..MaxSeqno /\ more >= seqno
        BY PolicyAssumption DEF Project
    <2>2. s \in Project /\ s.hosted = r.hosted /\ s.urls = r.urls /\ s.seqno = more
        BY <2>1 DEF Project
    <2>3. /\ proj' = [proj EXCEPT ![p] = s] /\ r.urls # {} /\ reqSeq' = seqno
          /\ opState' = "rpc" /\ cur' = p /\ http' = "busy" /\ urlIndex' = 0
          /\ blamed' = blamed
        BY <1>2 DEF InitOpRpc
    <2> HIDE DEF s, more
    <2>4. s.hosted => s.seqno >= reqSeq'
        BY <2>1, <2>2, <2>3
    <2>5. OpStarts(p)
        BY <1>0, <2>2, <2>3, <2>4 DEF OpStarts
    <2>6. QED
        BY <2>5
<1>3. CASE InitOpFails(p, r)
    <2>1. PICK s \in backoff(r) \cup backoff_twice(r) : Failed(p, s)
        BY <1>3 DEF InitOpFails
    <2>2. Keeps(r, s) /\ Deferred(s)
        BY <2>1, BackoffKeeps, BackoffTwiceKeeps
    <2>3. OpStartFails(p)
        BY <1>0, <1>3, <2>1, <2>2 DEF InitOpFails, Failed, Keeps, OpStartFails
    <2>4. QED
        BY <2>3
<1>4. QED
    BY <1>1, <1>2, <1>3 DEF init_op_project

\* Every step of scheduler_rpc_poll has one of the shapes.
LEMMA PollShapes ==
    ASSUME TypeOK, OpConsistent, Poll
    PROVE  PollShape
<1>0. up /\ UNCHANGED <<attached, srvSeq, envVars, fileVars>>
    BY DEF Poll, StartMaster, StartMasterFails, StartPending, StartOther, NothingToStart,
           RestOfPoll, MasterFetched, MasterFetchFails, Replied, RepliedBadly, RpcFails,
           OpDone, RetryStarts, RetryFails, RetriesOver, PollStep
<1>1. ASSUME NEW p \in Projects, StartMaster(p) PROVE OpStarts(p)
    <2>1. proj[p] \in Project /\ proj' = [proj EXCEPT ![p] = proj[p]] /\ p \in attached
          /\ ~Waiting(p)
        BY <1>1 DEF StartMaster, TypeOK, MasterPending
    <2>2. QED
        BY <1>1, <2>1 DEF StartMaster, BeginMaster, OpStarts
<1>2. ASSUME NEW p \in Projects, StartMasterFails(p) PROVE OpStartFails(p)
    <2>1. proj[p] \in Project /\ p \in attached
        BY <1>2 DEF StartMasterFails, TypeOK, MasterPending
    <2>2. PICK r \in backoff(MoreMasterFailures(proj[p])) : Failed(p, r)
        BY <1>2 DEF StartMasterFails
    <2>3. Keeps(proj[p], MoreMasterFailures(proj[p]))
        BY <2>1, MoreMasterFailuresKeeps
    <2>4. Keeps(MoreMasterFailures(proj[p]), r) /\ Deferred(r)
        BY <2>2, <2>3, BackoffKeeps DEF Keeps
    <2>5. QED
        BY <1>2, <2>1, <2>2, <2>3, <2>4 DEF StartMasterFails, Failed, Keeps, OpStartFails
<1>3. ASSUME NEW p \in Projects, StartPending(p) PROVE OpStarts(p) \/ OpStartFails(p)
    <2> DEFINE r == IF Due(p) THEN [proj[p] EXCEPT !.pending = "req", !.next = 0]
                    ELSE proj[p]
    <2>1. r \in Project /\ r.urls = proj[p].urls /\ r.hosted = proj[p].hosted
          /\ r.seqno = proj[p].seqno
        <3>1. proj[p] \in Project
            BY DEF TypeOK
        <3>2. QED
            BY <3>1, DueType
    <2>2. p \in attached /\ (~Waiting(p) \/ Due(p))
        BY <1>3 DEF StartPending, RpcPending
    <2>3. RestOfPoll /\ init_op_project(p, r)
        BY <1>3 DEF StartPending
    <2> HIDE DEF r
    <2>4. QED
        BY <2>1, <2>2, <2>3, InitOpShape
<1>4. ASSUME NEW p \in Projects, StartOther(p) PROVE OpStarts(p) \/ OpStartFails(p)
    <2>1. proj[p] \in Project /\ p \in attached /\ ~Waiting(p)
        BY <1>4 DEF StartOther, TypeOK
    <2>2. RestOfPoll /\ init_op_project(p, proj[p])
        BY <1>4 DEF StartOther
    <2>3. QED
        BY <2>1, <2>2, InitOpShape
<1>5. CASE NothingToStart
    BY <1>0, <1>5 DEF NothingToStart, RestOfPoll, NothingStarts, PollShape
<1>6. ASSUME opState # "idle" \/ phase = "retry" PROVE cur \in Projects /\ proj[cur] \in Project
    <2>1. cur \in Projects
        BY <1>6 DEF OpConsistent, TypeOK
    <2>2. QED
        BY <2>1 DEF TypeOK
<1>7. CASE MasterFetched
    <2>1. /\ opState = "master" /\ phase = "idle" /\ opState' = "idle" /\ http' = "none"
          /\ urlIndex' = urlIndex /\ reqSeq' = reqSeq
          /\ cur' = None /\ dirty' = TRUE /\ phase' = "write"
        BY <1>7 DEF MasterFetched, OpDone
    <2>2. PICK new \in SUBSET Urls : \E r \in master_fetched(proj[cur], new) :
              IF new = {} THEN Failed(cur, r) ELSE Succeeded(cur, r)
        BY <1>7 DEF MasterFetched
    <2>3. PICK r \in master_fetched(proj[cur], new) :
              IF new = {} THEN Failed(cur, r) ELSE Succeeded(cur, r)
        BY <2>2
    <2>4. proj[cur] \in Project
        BY <1>6, <2>1
    <2>5. r \in Project /\ r.hosted = proj[cur].hosted /\ r.seqno = proj[cur].seqno
          /\ (new = {} => Deferred(r))
        BY <2>4, MasterFetchedResult
    <2>6. OpEnds
        BY <2>1, <2>3, <2>5 DEF Failed, Succeeded, OpEnds, TypeOK
    <2>7. QED
        BY <1>0, <2>6 DEF PollShape
<1>8. CASE MasterFetchFails
    <2>1. /\ opState = "master" /\ phase = "idle" /\ opState' = "idle" /\ http' = "none"
          /\ urlIndex' = urlIndex /\ reqSeq' = reqSeq
          /\ cur' = None /\ dirty' = TRUE /\ phase' = "write"
        BY <1>8 DEF MasterFetchFails, OpDone
    <2>2. PICK r \in backoff(MoreMasterFailures([proj[cur] EXCEPT !.master = FALSE])) :
              Failed(cur, r)
        BY <1>8 DEF MasterFetchFails
    <2>3. proj[cur] \in Project
        BY <1>6, <2>1
    <2>4. r \in Project /\ r.hosted = proj[cur].hosted /\ r.seqno = proj[cur].seqno
          /\ Deferred(r)
        BY <2>3, MasterFailResult
    <2>5. OpEnds
        BY <2>1, <2>2, <2>4 DEF Failed, OpEnds, TypeOK
    <2>6. QED
        BY <1>0, <2>5 DEF PollShape
<1>9. CASE Replied
    <2>1. /\ opState = "rpc" /\ http \in {"ok", "new"} /\ phase = "idle" /\ opState' = "idle"
          /\ http' = "none" /\ urlIndex' = urlIndex /\ reqSeq' = reqSeq
          /\ cur' = None /\ dirty' = TRUE /\ phase' = "write"
        BY <1>9 DEF Replied, OpDone
    <2>2. PICK noWork \in BOOLEAN, delay \in 0..MaxDelay, next \in 0..MaxNext :
            \E r \in handle_scheduler_reply(proj[cur], NewHost, noWork, delay, next) :
               IF noWork THEN Failed(cur, r) ELSE Succeeded(cur, r)
        BY <1>9 DEF Replied
    <2>3. PICK r \in handle_scheduler_reply(proj[cur], NewHost, noWork, delay, next) :
              IF noWork THEN Failed(cur, r) ELSE Succeeded(cur, r)
        BY <2>2
    <2>4. proj[cur] \in Project /\ NewHost \in BOOLEAN
        BY <1>6, <2>1 DEF NewHost
    <2>5. /\ r \in Project /\ r.hosted /\ (noWork => Deferred(r))
          /\ r.seqno = IF NewHost THEN 0 ELSE proj[cur].seqno
        BY <2>4, ReplyResult
    <2>6. OpEnds
        BY <2>1, <2>3, <2>5 DEF Failed, Succeeded, OpEnds, TypeOK
    <2>7. QED
        BY <1>0, <2>6 DEF PollShape
<1>10. CASE RepliedBadly
    <2>1. /\ opState = "rpc" /\ http = "ok" /\ phase = "idle" /\ opState' = "idle"
          /\ http' = "none" /\ urlIndex' = urlIndex /\ reqSeq' = reqSeq
          /\ cur' = None /\ dirty' = TRUE /\ phase' = "write"
        BY <1>10 DEF RepliedBadly, OpDone
    <2>2. PICK delay \in 0..MaxDelay : \E r \in project_is_down(proj[cur], delay) :
              Failed(cur, r)
        BY <1>10 DEF RepliedBadly
    <2>3. PICK r \in project_is_down(proj[cur], delay) : Failed(cur, r)
        BY <2>2
    <2>4. proj[cur] \in Project
        BY <1>6, <2>1
    <2>5. Keeps(proj[cur], r) /\ Deferred(r)
        BY <2>4, DownResult
    <2>6. OpEnds
        BY <2>1, <2>3, <2>5 DEF Failed, Keeps, OpEnds, TypeOK
    <2>7. QED
        BY <1>0, <2>6 DEF PollShape
<1>11. CASE RpcFails
    BY <1>0, <1>11 DEF RpcFails, OpDone, RetryBegins, PollShape
<1>12. CASE RetryStarts
    <2>1. proj[cur] \in Project /\ cur \in Projects
        BY <1>6, <1>12 DEF RetryStarts
    <2> DEFINE more == IF proj[cur].seqno < MaxSeqno THEN proj[cur].seqno + 1
                       ELSE proj[cur].seqno
               r == [proj[cur] EXCEPT !.seqno = more]
    <2>2. more \in 0..MaxSeqno /\ more >= proj[cur].seqno
        BY <2>1, PolicyAssumption DEF Project
    <2>3. r \in Project /\ r.urls = proj[cur].urls /\ r.hosted = proj[cur].hosted
          /\ r.seqno = more
        BY <2>1, <2>2 DEF Project
    <2>4. proj' = [proj EXCEPT ![cur] = r]
        BY <1>12, <2>1 DEF RetryStarts, TypeOK, Project
    <2> HIDE DEF r, more
    <2>5. RetryGoesOn
        BY <1>12, <2>2, <2>3, <2>4 DEF RetryStarts, MoreUrls, RetryGoesOn
    <2>6. QED
        BY <1>0, <2>5 DEF PollShape
<1>13. CASE RetryFails
    <2>1. proj[cur] \in Project /\ cur \in Projects
        BY <1>6, <1>13 DEF RetryFails
    <2>2. PICK r \in backoff(proj[cur]) : Failed(cur, r)
        BY <1>13 DEF RetryFails
    <2>3. Keeps(proj[cur], r)
        BY <2>1, BackoffKeeps
    <2>4. r.seqno >= proj[cur].seqno
        BY <2>1, <2>3 DEF Keeps, Project
    <2>5. RetryGoesOn
        BY <1>13, <2>2, <2>3, <2>4 DEF RetryFails, MoreUrls, Failed, Keeps, RetryGoesOn
    <2>6. QED
        BY <1>0, <2>5 DEF PollShape
<1>14. CASE RetriesOver
    <2>1. proj[cur] \in Project /\ cur \in Projects /\ phase = "retry"
        BY <1>6, <1>14 DEF RetriesOver
    <2>2. PICK r \in backoff(proj[cur]) :
              Failed(cur, IF r.susp THEN [r EXCEPT !.pending = "none"] ELSE r)
        BY <1>14 DEF RetriesOver
    <2>3. Keeps(proj[cur], r) /\ Deferred(r)
        BY <2>1, BackoffKeeps
    <2> DEFINE s == IF r.susp THEN [r EXCEPT !.pending = "none"] ELSE r
    <2>4. s \in Project /\ s.hosted = r.hosted /\ s.seqno = r.seqno
          /\ s.wait = r.wait /\ s.next = r.next
        BY <2>3 DEF Keeps, Project
    <2>5. Failed(cur, s)
        BY <2>2
    <2> HIDE DEF s
    <2>6. Deferred(s) /\ s.hosted = proj[cur].hosted /\ s.seqno = proj[cur].seqno
        BY <2>3, <2>4 DEF Deferred, Keeps
    <2>7. opState = "idle" /\ http = "none"
        BY <2>1 DEF OpConsistent
    <2>8. urlIndex' \in Nat
        BY <1>14 DEF RetriesOver, TypeOK
    <2>9. OpEnds
        BY <1>14, <2>1, <2>4, <2>5, <2>6, <2>7, <2>8 DEF RetriesOver, Failed, OpEnds
    <2>10. QED
        BY <1>0, <2>9 DEF PollShape
<1>15. QED
    BY <1>0, <1>1, <1>2, <1>3, <1>4, <1>5, <1>7, <1>8, <1>9, <1>10, <1>11, <1>12,
       <1>13, <1>14 DEF Poll, PollShape

-----------------------------------------------------------------------------
(***************************************************************************)
(* Types.                                                                  *)
(***************************************************************************)

\* Bounds that stay inside their intervals.
LEMMA Zeros ==
    /\ 0 \in 0..LongestWait /\ 0 \in 0..(MaxNext + 1) /\ 1 \in 0..(MaxNext + 1)
    /\ 0 \in 0..MasterFetchPeriod /\ 0 \in 0..MasterFetchRetryCap
    /\ 0 \in 0..MaxSeqno /\ 0 \in 0..PollsPerTick /\ 0 \in 0..MaxFaults
    /\ 0 \in 0..MaxUser
BY PolicyAssumption DEF LongestWait

\* A new project and one whose deferral is dropped are projects.
LEMMA NewProjectType ==
    /\ NewProject \in Project /\ ~NewProject.hosted
    /\ [NewProject EXCEPT !.master = TRUE] \in Project
    /\ ~[NewProject EXCEPT !.master = TRUE].hosted
BY Zeros DEF NewProject, Project

\* A commanded or timed change of a PROJECT: what it does not touch.
LEMMA EditedType ==
    ASSUME NEW r \in Project
    PROVE  \A s \in {[r EXCEPT !.wait = 0], [r EXCEPT !.pending = "req", !.wait = 0],
                     [r EXCEPT !.susp = ~@], Later(r), ClockReset(r)} :
              /\ s \in Project /\ s.urls = r.urls /\ s.hosted = r.hosted
              /\ s.seqno = r.seqno
<1>1. /\ (IF r.wait > 0 THEN r.wait - 1 ELSE 0) \in 0..LongestWait
      /\ (IF r.next > 1 THEN r.next - 1 ELSE r.next) \in 0..(MaxNext + 1)
    BY Zeros, PolicyAssumption DEF Project, LongestWait
<1>2. Later(r) \in Project /\ Later(r).urls = r.urls /\ Later(r).hosted = r.hosted
      /\ Later(r).seqno = r.seqno
    BY <1>1 DEF Later, Project
<1>3. ClockReset(r) \in Project /\ ClockReset(r).urls = r.urls
      /\ ClockReset(r).hosted = r.hosted /\ ClockReset(r).seqno = r.seqno
    BY Zeros DEF ClockReset, Project
<1> DEFINE Kept(s) == s \in Project /\ s.urls = r.urls /\ s.hosted = r.hosted
                      /\ s.seqno = r.seqno
<1>4. Kept([r EXCEPT !.wait = 0])
    BY Zeros DEF Project
<1>5. Kept([r EXCEPT !.pending = "req", !.wait = 0])
    BY Zeros DEF Project
<1>6. Kept([r EXCEPT !.susp = ~@])
    BY DEF Project
<1>7. QED
    BY <1>2, <1>3, <1>4, <1>5, <1>6

\* A step that edits projects without touching what the other parts of the
\* client rely on: their URLs, host records and numbers.
Edited ==
    /\ proj' \in [Projects -> Project]
    /\ \A p \in attached : /\ proj'[p].urls = proj[p].urls
                           /\ proj'[p].hosted = proj[p].hosted
                           /\ proj'[p].seqno = proj[p].seqno
    /\ attached' = attached

\* The edits of one project.
LEMMA EditOne ==
    ASSUME TypeOK, NEW p \in Projects, NEW s \in Project, attached' = attached,
           proj' = [proj EXCEPT ![p] = s],
           s.urls = proj[p].urls, s.hosted = proj[p].hosted, s.seqno = proj[p].seqno
    PROVE  Edited
BY DEF TypeOK, Edited

\* update, suspend, resume, reset and a reconnection edit; so does time.
LEMMA UserEdits ==
    ASSUME TypeOK,
           \/ \E p \in Projects : UpdateProject(p) \/ SuspendProject(p) \/ ResetProject(p)
           \/ NetworkAvailable \/ Tick
    PROVE  Edited
<1>0. \A p \in Projects : proj[p] \in Project
    BY DEF TypeOK
<1>1. ASSUME NEW p \in Projects, UpdateProject(p) PROVE Edited
    <2> DEFINE s == [proj[p] EXCEPT !.pending = "req", !.wait = 0]
    <2>1. proj' = [proj EXCEPT ![p] = s] /\ attached' = attached
        BY <1>0, <1>1 DEF UpdateProject, TypeOK, Project
    <2>2. s \in Project /\ s.urls = proj[p].urls /\ s.hosted = proj[p].hosted
          /\ s.seqno = proj[p].seqno
        BY <1>0, EditedType
    <2> HIDE DEF s
    <2>3. QED
        BY <2>1, <2>2, EditOne
<1>2. ASSUME NEW p \in Projects, SuspendProject(p) PROVE Edited
    <2> DEFINE s == [proj[p] EXCEPT !.susp = ~@]
    <2>1. proj' = [proj EXCEPT ![p] = s] /\ attached' = attached
        BY <1>0, <1>2 DEF SuspendProject, TypeOK, Project
    <2>2. s \in Project /\ s.urls = proj[p].urls /\ s.hosted = proj[p].hosted
          /\ s.seqno = proj[p].seqno
        BY <1>0, EditedType
    <2> HIDE DEF s
    <2>3. QED
        BY <2>1, <2>2, EditOne
<1>3. ASSUME NEW p \in Projects, ResetProject(p) PROVE Edited
    <2> DEFINE s == [proj[p] EXCEPT !.wait = 0]
    <2>1. proj' = [proj EXCEPT ![p] = s] /\ attached' = attached
        BY <1>0, <1>3 DEF ResetProject, TypeOK, Project
    <2>2. s \in Project /\ s.urls = proj[p].urls /\ s.hosted = proj[p].hosted
          /\ s.seqno = proj[p].seqno
        BY <1>0, EditedType
    <2> HIDE DEF s
    <2>3. QED
        BY <2>1, <2>2, EditOne
<1>4. CASE NetworkAvailable
    <2> DEFINE f(p) == [proj[p] EXCEPT !.wait = 0]
    <2>1. proj' = [p \in Projects |-> f(p)] /\ attached' = attached
        BY <1>4 DEF NetworkAvailable
    <2>2. \A p \in Projects : /\ f(p) \in Project /\ f(p).urls = proj[p].urls
                              /\ f(p).hosted = proj[p].hosted
                              /\ f(p).seqno = proj[p].seqno
        BY <1>0, EditedType
    <2> HIDE DEF f
    <2>3. QED
        BY <2>1, <2>2 DEF Edited, TypeOK
<1>5. CASE Tick
    <2> DEFINE f(p) == IF up THEN Later(proj[p]) ELSE proj[p]
    <2>1. proj' = [p \in Projects |-> f(p)] /\ attached' = attached
        BY <1>5 DEF Tick
    <2>2. \A p \in Projects : /\ f(p) \in Project /\ f(p).urls = proj[p].urls
                              /\ f(p).hosted = proj[p].hosted
                              /\ f(p).seqno = proj[p].seqno
        BY <1>0, EditedType
    <2> HIDE DEF f
    <2>3. QED
        BY <2>1, <2>2 DEF Edited, TypeOK
<1>6. QED
    BY <1>1, <1>2, <1>3, <1>4, <1>5

\* Time passes in the state file as well.
LEMMA TickSaved ==
    ASSUME TypeOK, Tick
    PROVE  /\ saved' \in [Projects -> Project]
           /\ \A p \in Projects : /\ saved'[p].hosted = saved[p].hosted
                                  /\ saved'[p].seqno = saved[p].seqno
<1> DEFINE f(p) == Later(saved[p])
<1>1. saved' = [p \in Projects |-> f(p)]
    BY DEF Tick
<1>2. \A p \in Projects : /\ f(p) \in Project /\ f(p).hosted = saved[p].hosted
                          /\ f(p).seqno = saved[p].seqno
    BY EditedType DEF TypeOK
<1> HIDE DEF f
<1>3. QED
    BY <1>1, <1>2

\* What Restart reads back.
LEMMA RestartReads ==
    ASSUME TypeOK, Restart
    PROVE  /\ proj' \in [Projects -> Project]
           /\ \A p \in Projects : proj'[p].hosted =>
                 p \in attached /\ p \in savedSet /\ saved[p].hosted
                 /\ proj'[p].seqno = saved[p].seqno
<1>1. PICK clockReset \in BOOLEAN :
         proj' = [p \in Projects |-> IF p \notin attached THEN NewProject
                                     ELSE IF clockReset THEN ClockReset(Parsed(p))
                                     ELSE Parsed(p)]
    BY DEF Restart
<1>2. ASSUME NEW p \in Projects
      PROVE  /\ proj'[p] \in Project
             /\ proj'[p].hosted => p \in attached /\ p \in savedSet /\ saved[p].hosted
                                   /\ proj'[p].seqno = saved[p].seqno
    <2>1. CASE p \notin attached
        BY <1>1, <2>1, NewProjectType
    <2>2. CASE p \in attached
        <3>1. Parsed(p) \in Project
              /\ (Parsed(p).hosted => p \in savedSet /\ saved[p].hosted
                                      /\ Parsed(p).seqno = saved[p].seqno)
            BY NewProjectType DEF Parsed, TypeOK
        <3>2. /\ ClockReset(Parsed(p)) \in Project
              /\ ClockReset(Parsed(p)).hosted = Parsed(p).hosted
              /\ ClockReset(Parsed(p)).seqno = Parsed(p).seqno
            BY <3>1, EditedType
        <3>3. proj'[p] = ClockReset(Parsed(p)) \/ proj'[p] = Parsed(p)
            BY <1>1, <2>2
        <3>4. QED
            BY <2>2, <3>1, <3>2, <3>3
    <2>3. QED
        BY <2>1, <2>2
<1>3. QED
    BY <1>1, <1>2

\* The initial state.
LEMMA InitInv == Init => SchedulerInv
<1> SUFFICES ASSUME Init PROVE SchedulerInv
    OBVIOUS
<1>1. TypeOK
    BY Zeros, NewProjectType DEF Init, TypeOK
<1>2. OpConsistent /\ DownIsQuiet /\ BlamedDeferred /\ SavedUpToDate
    BY DEF Init, OpConsistent, DownIsQuiet, BlamedDeferred, SavedUpToDate
<1>3. RequestNumbered
    BY NewProjectType DEF Init, RequestNumbered, InRpc
<1>4. QED
    BY <1>1, <1>2, <1>3 DEF SchedulerInv

\* Types after a step of scheduler_rpc_poll.
LEMMA PollType ==
    ASSUME TypeOK, OpConsistent, Poll
    PROVE  TypeOK'
<1>1. PollShape
    BY PollShapes
<1>2. polls' \in 0..PollsPerTick
    BY Zeros, PolicyAssumption DEF Poll, Polled, TypeOK
<1>3. /\ attached' = attached /\ srvSeq' = srvSeq /\ benchmarked' = benchmarked
      /\ suspended' = suspended /\ up' = up /\ faults' = faults /\ users' = users
      /\ saved' = saved /\ savedSet' = savedSet
    BY <1>1 DEF PollShape, envVars, fileVars
<1> DEFINE Rest == /\ proj' \in [Projects -> Project]
                   /\ opState' \in {"idle", "master", "rpc"}
                   /\ cur' \in Projects \cup {None} /\ urlIndex' \in Nat
                   /\ http' \in {"none", "busy", "ok", "new", "fail"}
                   /\ reqSeq' \in 0..MaxSeqno
                   /\ phase' \in {"idle", "rpcs", "retry", "write"}
                   /\ dirty' \in BOOLEAN /\ blamed' \subseteq Projects
<1>4. ASSUME NEW p \in Projects, OpStarts(p) PROVE Rest
    <2>1. PICK r \in Project :
             /\ proj' = [proj EXCEPT ![p] = r]
             /\ \/ opState' = "master" /\ UNCHANGED <<urlIndex, reqSeq>>
                \/ /\ opState' = "rpc" /\ urlIndex' = 0
                   /\ reqSeq' = (IF r.hosted THEN proj[p].seqno ELSE 0)
        BY <1>4 DEF OpStarts
    <2>2. proj[p].seqno \in 0..MaxSeqno
        BY DEF TypeOK, Project
    <2>3. reqSeq' \in 0..MaxSeqno /\ urlIndex' \in Nat
        BY <2>1, <2>2, Zeros DEF TypeOK
    <2>4. QED
        BY <1>4, <2>1, <2>3 DEF OpStarts, TypeOK
<1>5. ASSUME NEW p \in Projects, OpStartFails(p) PROVE Rest
    BY <1>5 DEF OpStartFails, TypeOK, opVars
<1>6. ASSUME OpEnds PROVE Rest
    <2>1. cur \in Projects
        BY <1>6 DEF OpEnds, OpConsistent, TypeOK
    <2>2. QED
        BY <1>6, <2>1 DEF OpEnds, TypeOK
<1>7. ASSUME RetryBegins PROVE Rest
    BY <1>7 DEF RetryBegins, TypeOK
<1>8. ASSUME RetryGoesOn PROVE Rest
    <2>1. cur \in Projects
        BY <1>8 DEF RetryGoesOn, OpConsistent, TypeOK
    <2>2. QED
        BY <1>8, <2>1 DEF RetryGoesOn, TypeOK
<1>9. ASSUME NothingStarts PROVE Rest
    BY <1>9 DEF NothingStarts, TypeOK, opVars
<1>10. Rest
    BY <1>1, <1>4, <1>5, <1>6, <1>7, <1>8, <1>9 DEF PollShape
<1>11. QED
    BY <1>2, <1>3, <1>10 DEF TypeOK

\* Types after any step.
LEMMA TypeNext ==
    ASSUME TypeOK, OpConsistent, [Next]_vars
    PROVE  TypeOK'
<1>1. CASE Poll
    BY <1>1, PollType
<1>2. CASE WriteState
    BY <1>2 DEF WriteState, TypeOK, opVars, envVars, fileVars
<1>3. CASE NetworkAvailable
    <2>1. Edited
        BY <1>3, UserEdits
    <2>2. users' \in 0..MaxUser
        BY <1>3, PolicyAssumption DEF NetworkAvailable, Command, TypeOK
    <2>3. QED
        BY <1>3, <2>1, <2>2 DEF NetworkAvailable, Command, Edited, TypeOK, opVars, fileVars
<1>4. ASSUME NEW p \in Projects, UpdateProject(p) \/ SuspendProject(p) PROVE TypeOK'
    <2>1. Edited
        BY <1>4, UserEdits
    <2>2. users' \in 0..MaxUser
        BY <1>4, PolicyAssumption DEF UpdateProject, SuspendProject, Command, TypeOK
    <2>3. QED
        BY <1>4, <2>1, <2>2 DEF UpdateProject, SuspendProject, Command, Edited, TypeOK,
                                opVars, fileVars
<1>5. ASSUME NEW p \in Projects, ResetProject(p) PROVE TypeOK'
    <2>1. Edited
        BY <1>5, UserEdits
    <2>2. users' \in 0..MaxUser
        BY <1>5, PolicyAssumption DEF ResetProject, Command, TypeOK
    <2>3. QED
        BY <1>5, <2>1, <2>2 DEF ResetProject, Abort, Command, Edited, TypeOK, opVars
<1>6. ASSUME NEW p \in Projects, DetachProject(p) \/ AttachProject(p) PROVE TypeOK'
    <2>1. proj' \in [Projects -> Project]
        BY <1>6, NewProjectType DEF DetachProject, AttachProject, TypeOK
    <2>2. users' \in 0..MaxUser
        BY <1>6, PolicyAssumption DEF DetachProject, AttachProject, Command, TypeOK
    <2>3. QED
        BY <1>6, <2>1, <2>2 DEF DetachProject, AttachProject, Abort, Command, TypeOK,
                                opVars, fileVars
<1>7. CASE HttpDone
    <2>1. srvSeq' \in [Projects -> 0..MaxSeqno]
        BY <1>7, Zeros, PolicyAssumption DEF HttpDone, TypeOK
    <2>2. http' \in {"none", "busy", "ok", "new", "fail"}
        BY <1>7 DEF HttpDone
    <2>3. QED
        BY <1>7, <2>1, <2>2 DEF HttpDone, TypeOK, envVars, fileVars
<1>8. CASE Tick
    <2>1. proj' \in [Projects -> Project]
        BY <1>8, UserEdits DEF Edited
    <2>2. saved' \in [Projects -> Project]
        BY <1>8, TickSaved
    <2>3. QED
        BY <1>8, <2>1, <2>2, Zeros DEF Tick, TypeOK, opVars, envVars
<1>9. CASE BenchmarksDone
    BY <1>9 DEF BenchmarksDone, TypeOK, opVars, fileVars
<1>10. CASE SuspendNetwork
    BY <1>10, PolicyAssumption DEF SuspendNetwork, TypeOK, opVars, fileVars
<1>11. CASE ResumeNetwork
    BY <1>11 DEF ResumeNetwork, TypeOK, opVars, fileVars
<1>12. CASE Crash
    <2>1. proj' \in [Projects -> Project]
        BY <1>12, NewProjectType DEF Crash
    <2>2. faults' \in 0..MaxFaults
        BY <1>12, PolicyAssumption DEF Crash, TypeOK
    <2>3. QED
        BY <1>12, <2>1, <2>2, Zeros DEF Crash, TypeOK, fileVars
<1>13. CASE Restart
    <2>1. proj' \in [Projects -> Project]
        BY <1>13, RestartReads
    <2>2. QED
        BY <1>13, <2>1 DEF Restart, TypeOK, opVars, fileVars
<1>14. CASE UNCHANGED vars
    BY <1>14 DEF TypeOK, vars, opVars, envVars, fileVars
<1>15. QED
    BY <1>1, <1>2, <1>3, <1>4, <1>5, <1>6, <1>7, <1>8, <1>9, <1>10, <1>11, <1>12,
       <1>13, <1>14 DEF Next, User

-----------------------------------------------------------------------------
(***************************************************************************)
(* The operation.                                                          *)
(***************************************************************************)

\* A scheduler list that is not empty has a first entry.
LEMMA FirstUrl ==
    ASSUME NEW r \in Project, r.urls # {}
    PROVE  0 < Cardinality(r.urls)
<1>1. r.urls \subseteq Urls /\ IsFiniteSet(Urls)
    BY PolicyAssumption DEF Project
<1>2. IsFiniteSet(r.urls)
    BY <1>1, FS_Subset
<1>3. Cardinality(r.urls) \in Nat /\ (Cardinality(r.urls) = 0 <=> r.urls = {})
    BY <1>2, FS_CardinalityType, FS_EmptySet
<1>4. QED
    BY <1>3

\* Edits leave a running operation as it was.
LEMMA EditsKeepOp ==
    ASSUME OpConsistent, Edited, UNCHANGED opVars, UNCHANGED phase
    PROVE  OpConsistent'
BY DEF OpConsistent, Edited, opVars

\* scheduler_op.h's description of the operation holds after every step.
LEMMA OpNext ==
    ASSUME TypeOK, OpConsistent, DownIsQuiet, [Next]_vars
    PROVE  OpConsistent'
<1>0. None \notin Projects
    BY ProjectsAssumption
<1>1. CASE Poll
    <2>1. PollShape
        BY <1>1, PollShapes
    <2>2. attached' = attached
        BY <2>1 DEF PollShape
    <2>3. ASSUME NEW p \in Projects, OpStarts(p) PROVE OpConsistent'
        <3>1. PICK r \in Project :
                 /\ proj' = [proj EXCEPT ![p] = r]
                 /\ \/ opState' = "master"
                    \/ opState' = "rpc" /\ r.urls # {} /\ urlIndex' = 0
            BY <2>3 DEF OpStarts
        <3>2. proj'[p] = r
            BY <3>1 DEF TypeOK
        <3>3. opState' = "rpc" => urlIndex' < Cardinality(proj'[p].urls)
            BY <3>1, <3>2, FirstUrl
        <3>4. QED
            BY <1>0, <2>2, <2>3, <3>1, <3>3 DEF OpStarts, OpConsistent
    <2>4. ASSUME NEW p \in Projects, OpStartFails(p) PROVE OpConsistent'
        BY <2>2, <2>4 DEF OpStartFails, OpConsistent, opVars
    <2>5. CASE OpEnds
        BY <2>2, <2>5 DEF OpEnds, OpConsistent
    <2>6. CASE RetryBegins
        BY <2>2, <2>6 DEF RetryBegins, OpConsistent
    <2>7. CASE RetryGoesOn
        <3>1. cur \in Projects
            BY <2>7 DEF RetryGoesOn, OpConsistent, TypeOK
        <3>2. proj'[cur].urls = proj[cur].urls
            BY <2>7, <3>1 DEF RetryGoesOn, TypeOK
        <3>3. QED
            BY <2>2, <2>7, <3>2 DEF RetryGoesOn, OpConsistent
    <2>8. CASE NothingStarts
        BY <2>2, <2>8 DEF NothingStarts, OpConsistent, opVars
    <2>9. QED
        BY <2>1, <2>3, <2>4, <2>5, <2>6, <2>7, <2>8 DEF PollShape
<1>2. CASE WriteState
    BY <1>2 DEF WriteState, OpConsistent, opVars
<1>3. CASE NetworkAvailable \/ \E p \in Projects : UpdateProject(p) \/ SuspendProject(p)
    <2>1. Edited
        BY <1>3, UserEdits
    <2>2. UNCHANGED opVars /\ UNCHANGED phase
        BY <1>3 DEF NetworkAvailable, UpdateProject, SuspendProject, Command
    <2>3. QED
        BY <2>1, <2>2, EditsKeepOp
<1>4. ASSUME NEW p \in Projects, ResetProject(p) PROVE OpConsistent'
    <2>1. Edited
        BY <1>4, UserEdits
    <2>2. phase = "idle" /\ phase' = "idle"
        BY <1>4 DEF ResetProject, Command, Idle
    <2>3. CASE cur = p
        BY <1>4, <2>2, <2>3 DEF ResetProject, Abort, OpConsistent
    <2>4. CASE cur # p
        <3>1. UNCHANGED opVars
            BY <1>4, <2>4 DEF ResetProject, Abort
        <3>2. QED
            BY <2>1, <2>2, <3>1, EditsKeepOp
    <2>5. QED
        BY <2>3, <2>4
<1>5. ASSUME NEW p \in Projects, DetachProject(p) PROVE OpConsistent'
    <2>1. phase = "idle" /\ phase' = "idle" /\ attached' = attached \ {p}
          /\ proj' = [proj EXCEPT ![p] = NewProject]
        BY <1>5 DEF DetachProject, Command, Idle
    <2>2. CASE cur = p
        BY <1>5, <2>1, <2>2 DEF DetachProject, Abort, OpConsistent
    <2>3. CASE cur # p
        <3>1. UNCHANGED opVars
            BY <1>5, <2>3 DEF DetachProject, Abort
        <3>2. cur # None => proj'[cur] = proj[cur]
            BY <2>1, <2>3 DEF TypeOK
        <3>3. QED
            BY <2>1, <2>3, <3>1, <3>2 DEF OpConsistent, opVars
    <2>4. QED
        BY <2>2, <2>3
<1>6. ASSUME NEW p \in Projects, AttachProject(p) PROVE OpConsistent'
    <2>1. phase' = phase /\ attached' = attached \cup {p} /\ p \notin attached
          /\ proj' = [proj EXCEPT ![p] = NewProject] /\ UNCHANGED opVars
        BY <1>6 DEF AttachProject, Command
    <2>2. cur # None => proj'[cur] = proj[cur]
        BY <2>1 DEF TypeOK, OpConsistent
    <2>3. QED
        BY <2>1, <2>2 DEF OpConsistent, opVars
<1>7. CASE HttpDone
    BY <1>7 DEF HttpDone, OpConsistent
<1>8. CASE Tick
    <2>1. Edited
        BY <1>8, UserEdits
    <2>2. UNCHANGED opVars /\ UNCHANGED phase
        BY <1>8 DEF Tick
    <2>3. QED
        BY <2>1, <2>2, EditsKeepOp
<1>9. CASE BenchmarksDone \/ SuspendNetwork \/ ResumeNetwork
    BY <1>9 DEF BenchmarksDone, SuspendNetwork, ResumeNetwork, OpConsistent, opVars
<1>10. CASE Crash
    BY <1>10 DEF Crash, OpConsistent
<1>11. CASE Restart
    BY <1>11 DEF Restart, DownIsQuiet, OpConsistent, opVars
<1>12. CASE UNCHANGED vars
    BY <1>12 DEF OpConsistent, vars, opVars
<1>13. QED
    BY <1>1, <1>2, <1>3, <1>4, <1>5, <1>6, <1>7, <1>8, <1>9, <1>10, <1>11, <1>12
       DEF Next, User

-----------------------------------------------------------------------------
(***************************************************************************)
(* Deferrals.                                                              *)
(***************************************************************************)

\* A client that does not run has no operation and blames nobody.
LEMMA QuietNext ==
    ASSUME TypeOK, OpConsistent, DownIsQuiet, [Next]_vars
    PROVE  DownIsQuiet'
<1>1. CASE Poll
    BY <1>1, PollShapes DEF PollShape, DownIsQuiet, envVars
<1>2. CASE WriteState
    BY <1>2 DEF WriteState, DownIsQuiet, envVars
<1>3. CASE User
    BY <1>3 DEF User, NetworkAvailable, UpdateProject, SuspendProject, ResetProject,
                DetachProject, AttachProject, Command, Idle, DownIsQuiet
<1>4. CASE HttpDone
    BY <1>4 DEF HttpDone, Idle, DownIsQuiet, envVars
<1>5. CASE Tick
    BY <1>5 DEF Tick, DownIsQuiet, opVars, envVars
<1>6. CASE BenchmarksDone \/ SuspendNetwork \/ ResumeNetwork
    BY <1>6 DEF BenchmarksDone, SuspendNetwork, ResumeNetwork, Idle, DownIsQuiet
<1>7. CASE Crash
    BY <1>7 DEF Crash, DownIsQuiet
<1>8. CASE Restart
    BY <1>8 DEF Restart, DownIsQuiet
<1>9. CASE UNCHANGED vars
    BY <1>9 DEF DownIsQuiet, vars, opVars, envVars
<1>10. QED
    BY <1>1, <1>2, <1>3, <1>4, <1>5, <1>6, <1>7, <1>8, <1>9 DEF Next

\* A blamed project stays deferred, or asks for an RPC, or is talked to.
LEMMA BlamedNext ==
    ASSUME TypeOK, OpConsistent, DownIsQuiet, BlamedDeferred, [Next]_vars
    PROVE  BlamedDeferred'
<1>1. CASE Poll
    <2>1. PollShape
        BY <1>1, PollShapes
    <2>2. attached' = attached
        BY <2>1 DEF PollShape
    <2>3. ASSUME NEW p \in Projects, OpStarts(p) PROVE BlamedDeferred'
        <3>1. cur = None /\ cur' = p /\ blamed' = blamed
            BY <2>3 DEF OpStarts, OpConsistent
        <3>2. \A q \in blamed : q # None /\ (q # p => proj'[q] = proj[q])
            BY <2>3, ProjectsAssumption DEF OpStarts, TypeOK
        <3>3. QED
            BY <2>2, <3>1, <3>2 DEF BlamedDeferred
    <2>4. ASSUME NEW p \in Projects, OpStartFails(p) PROVE BlamedDeferred'
        <3>1. PICK r \in Project : proj' = [proj EXCEPT ![p] = r] /\ Deferred(r)
            BY <2>4 DEF OpStartFails
        <3>2. proj'[p] = r /\ \A q \in blamed : q # p => proj'[q] = proj[q]
            BY <3>1 DEF TypeOK
        <3>3. p \in attached /\ blamed' = blamed \cup {p} /\ cur' = cur
            BY <2>4 DEF OpStartFails, opVars
        <3>4. QED
            BY <2>2, <3>1, <3>2, <3>3 DEF BlamedDeferred, Deferred
    <2>5. CASE OpEnds
        <3>1. PICK r \in Project :
                 /\ proj' = [proj EXCEPT ![cur] = r]
                 /\ \/ blamed' = blamed \cup {cur} /\ Deferred(r)
                    \/ blamed' = blamed \ {cur}
            BY <2>5 DEF OpEnds
        <3>2. cur \in attached /\ cur \in Projects
            BY <2>5 DEF OpEnds, OpConsistent, TypeOK
        <3>3. proj'[cur] = r /\ \A q \in blamed : q # cur => proj'[q] = proj[q]
            BY <3>1, <3>2 DEF TypeOK
        <3>4. QED
            BY <2>2, <3>1, <3>2, <3>3 DEF BlamedDeferred, Deferred
    <2>6. CASE RetryBegins
        BY <2>2, <2>6 DEF RetryBegins, BlamedDeferred
    <2>7. CASE RetryGoesOn
        <3>1. cur' = cur /\ blamed' \subseteq blamed \cup {cur}
            BY <2>7 DEF RetryGoesOn
        <3>2. cur \in attached
            BY <2>7 DEF RetryGoesOn, OpConsistent
        <3>3. \A q \in blamed : q # cur => proj'[q] = proj[q]
            BY <2>7 DEF RetryGoesOn, TypeOK
        <3>4. QED
            BY <2>2, <3>1, <3>2, <3>3 DEF BlamedDeferred
    <2>8. CASE NothingStarts
        BY <2>2, <2>8 DEF NothingStarts, BlamedDeferred, opVars
    <2>9. QED
        BY <2>1, <2>3, <2>4, <2>5, <2>6, <2>7, <2>8 DEF PollShape
<1>2. CASE NetworkAvailable \/ Tick \/ Crash
    BY <1>2 DEF NetworkAvailable, Tick, Crash, BlamedDeferred
<1>3. ASSUME NEW p \in Projects, UpdateProject(p) PROVE BlamedDeferred'
    <2>1. \A q \in blamed : q # p => proj'[q] = proj[q]
        BY <1>3 DEF UpdateProject, TypeOK
    <2>2. QED
        BY <1>3, <2>1 DEF UpdateProject, BlamedDeferred, opVars
<1>4. ASSUME NEW p \in Projects, SuspendProject(p) PROVE BlamedDeferred'
    <2>1. \A q \in Projects : proj'[q].wait = proj[q].wait /\ proj'[q].next = proj[q].next
        BY <1>4 DEF SuspendProject, TypeOK, Project
    <2>2. QED
        BY <1>4, <2>1 DEF SuspendProject, BlamedDeferred, TypeOK, opVars
<1>5. ASSUME NEW p \in Projects, ResetProject(p) \/ DetachProject(p)
      PROVE  BlamedDeferred'
    <2>1. /\ \A q \in blamed : q # p => proj'[q] = proj[q]
          /\ blamed' = blamed \ {p} /\ (cur' = cur \/ cur = p)
          /\ attached' = attached \/ attached' = attached \ {p}
        BY <1>5 DEF ResetProject, DetachProject, Abort, TypeOK, opVars
    <2>2. QED
        BY <2>1 DEF BlamedDeferred
<1>6. ASSUME NEW p \in Projects, AttachProject(p) PROVE BlamedDeferred'
    <2>1. \A q \in blamed : proj'[q] = proj[q]
        BY <1>6 DEF AttachProject, BlamedDeferred, TypeOK
    <2>2. QED
        BY <1>6, <2>1 DEF AttachProject, BlamedDeferred, opVars
<1>7. CASE WriteState \/ HttpDone \/ BenchmarksDone \/ SuspendNetwork \/ ResumeNetwork
    BY <1>7 DEF WriteState, HttpDone, BenchmarksDone, SuspendNetwork, ResumeNetwork,
                BlamedDeferred, opVars
<1>8. CASE Restart
    BY <1>8 DEF Restart, DownIsQuiet, BlamedDeferred
<1>9. CASE UNCHANGED vars
    BY <1>9 DEF BlamedDeferred, vars, opVars
<1>10. QED
    BY <1>1, <1>2, <1>3, <1>4, <1>5, <1>6, <1>7, <1>8, <1>9 DEF Next, User

\* An operation on a blamed project starts only at the project's own time.
LEMMA BacksOff ==
    ASSUME SchedulerInv, [Next]_vars, NEW p \in blamed, Starts(p)
    PROVE  proj[p].next > 0
<1>0. TypeOK /\ OpConsistent /\ BlamedDeferred /\ DownIsQuiet
    BY DEF SchedulerInv
<1>1. p \in Projects /\ cur = None /\ p # None
    BY <1>0, ProjectsAssumption DEF TypeOK, Starts, OpConsistent
<1>2. proj[p].wait > 0 \/ proj[p].next > 0
    BY <1>0, <1>1 DEF BlamedDeferred
<1>3. Poll
    <2>1. ~HttpDone /\ ~WriteState /\ ~User /\ ~Tick /\ ~BenchmarksDone /\ ~SuspendNetwork
          /\ ~ResumeNetwork /\ ~Crash /\ ~Restart /\ ~UNCHANGED vars
        BY <1>1 DEF Starts, HttpDone, WriteState, User, NetworkAvailable, UpdateProject,
               SuspendProject, ResetProject, DetachProject, AttachProject, Abort, Tick,
               BenchmarksDone, SuspendNetwork, ResumeNetwork, Crash, Restart, vars, opVars
    <2>2. QED
        BY <2>1 DEF Next
<1>4. PollShape
    BY <1>0, <1>3, PollShapes
<1>5. PICK q \in Projects : OpStarts(q)
    BY <1>4 DEF Starts, PollShape, OpStartFails, OpEnds, RetryBegins, RetryGoesOn,
                NothingStarts, opVars
<1>6. p = q
    BY <1>5 DEF Starts, OpStarts
<1>7. ~Waiting(p) \/ Due(p)
    BY <1>5, <1>6 DEF OpStarts
<1>8. QED
    BY <1>2, <1>7 DEF Waiting, Due

-----------------------------------------------------------------------------
(***************************************************************************)
(* Request numbers.                                                        *)
(***************************************************************************)

\* The numbers are numbers.
LEMMA NumbersType ==
    ASSUME TypeOK
    PROVE  /\ reqSeq \in Nat
           /\ \A p \in Projects : /\ proj[p].seqno \in Nat /\ saved[p].seqno \in Nat
                                  /\ srvSeq[p] \in Nat
BY PolicyAssumption DEF TypeOK, Project

\* A step that leaves the operation, the state file and the numbers alone.
SameNumbers ==
    /\ attached' = attached /\ srvSeq' = srvSeq /\ savedSet' = savedSet
    /\ opState' = opState /\ cur' = cur /\ reqSeq' = reqSeq /\ http' = http
    /\ phase' = phase /\ up' = up /\ (dirty' = dirty \/ phase = "idle")
    /\ \A p \in attached : /\ proj'[p].hosted = proj[p].hosted
                           /\ proj'[p].seqno = proj[p].seqno
                           /\ saved'[p].hosted = saved[p].hosted
                           /\ saved'[p].seqno = saved[p].seqno

\* Such a step changes nothing for the numbers.
LEMMA SameNumbersKeep ==
    ASSUME OpConsistent, SavedUpToDate, RequestNumbered, SameNumbers
    PROVE  SavedUpToDate' /\ RequestNumbered'
<1>1. InRpc' = InRpc
    BY DEF InRpc, SameNumbers
<1>2. InRpc => cur \in attached
    BY DEF InRpc, OpConsistent
<1>3. SavedUpToDate'
    BY <1>1, <1>2 DEF SameNumbers, SavedUpToDate
<1>4. RequestNumbered'
    BY <1>1, <1>2 DEF SameNumbers, RequestNumbered, OpConsistent
<1>5. QED
    BY <1>3, <1>4

\* A step of scheduler_rpc_poll keeps them in order.
LEMMA PollNumbers ==
    ASSUME TypeOK, OpConsistent, SavedUpToDate, RequestNumbered, Poll, TypeOK'
    PROVE  SavedUpToDate' /\ RequestNumbered'
<1>0. /\ PollShape /\ up /\ up' = up
      /\ attached' = attached /\ srvSeq' = srvSeq /\ saved' = saved /\ savedSet' = savedSet
    BY PollShapes DEF PollShape, envVars, fileVars
<1>1. /\ reqSeq \in Nat /\ reqSeq' \in Nat
      /\ \A p \in Projects : /\ proj[p].seqno \in Nat /\ saved[p].seqno \in Nat
                             /\ srvSeq[p] \in Nat
                             /\ proj'[p].seqno \in Nat
    BY NumbersType DEF TypeOK, Project
<1>2. attached \subseteq Projects /\ savedSet \subseteq attached
    BY DEF TypeOK, SavedUpToDate
<1>3. ASSUME NEW p \in Projects, OpStarts(p) PROVE SavedUpToDate' /\ RequestNumbered'
    <2>1. PICK r \in Project :
             /\ proj' = [proj EXCEPT ![p] = r]
             /\ r.hosted = proj[p].hosted
             /\ \/ opState' = "master" /\ r.seqno = proj[p].seqno
                \/ /\ opState' = "rpc"
                   /\ reqSeq' = (IF r.hosted THEN proj[p].seqno ELSE 0)
                   /\ r.hosted => r.seqno >= reqSeq'
        BY <1>3 DEF OpStarts
    <2>2. proj'[p] = r /\ \A q \in Projects : q # p => proj'[q] = proj[q]
        BY <2>1 DEF TypeOK
    <2>3. ~InRpc /\ phase \in {"idle", "rpcs"} /\ phase' = "write" /\ cur' = p
          /\ http' = "busy" /\ dirty' = dirty /\ p \in attached
        BY <1>3 DEF OpStarts, InRpc
    <2>4. InRpc' <=> opState' = "rpc"
        BY <2>3 DEF InRpc
    <2>5. \A q \in savedSet : saved[q].hosted =>
             /\ saved[q].seqno >= srvSeq[q]
             /\ proj[q].hosted => saved[q].seqno >= proj[q].seqno
        BY <1>0, <2>3 DEF SavedUpToDate
    <2>6. SavedUpToDate'
        BY <1>0, <1>1, <1>2, <2>1, <2>2, <2>3, <2>4, <2>5 DEF SavedUpToDate
    <2>7. \A q \in attached : proj[q].hosted => proj[q].seqno >= srvSeq[q]
        BY <1>0 DEF RequestNumbered
    <2>8. RequestNumbered'
        BY <1>0, <1>1, <1>2, <2>1, <2>2, <2>3, <2>4, <2>7 DEF RequestNumbered
    <2>9. QED
        BY <2>6, <2>8
<1>4. ASSUME NEW p \in Projects, OpStartFails(p) PROVE SavedUpToDate' /\ RequestNumbered'
    <2>1. PICK r \in Project : /\ proj' = [proj EXCEPT ![p] = r]
                               /\ r.hosted = proj[p].hosted /\ r.seqno = proj[p].seqno
        BY <1>4 DEF OpStartFails
    <2>2. \A q \in Projects : proj'[q].hosted = proj[q].hosted
                              /\ proj'[q].seqno = proj[q].seqno
        BY <2>1 DEF TypeOK
    <2>3. ~InRpc /\ ~InRpc' /\ phase \in {"idle", "rpcs"} /\ opState' # "rpc"
        BY <1>4 DEF OpStartFails, InRpc, opVars
    <2>4. SavedUpToDate'
        BY <1>0, <1>2, <2>2, <2>3 DEF SavedUpToDate
    <2>5. RequestNumbered'
        BY <1>0, <1>2, <2>2, <2>3 DEF RequestNumbered
    <2>6. QED
        BY <2>4, <2>5
<1>5. CASE OpEnds
    <2>1. PICK r \in Project :
             /\ proj' = [proj EXCEPT ![cur] = r]
             /\ \/ r.hosted = proj[cur].hosted /\ r.seqno = proj[cur].seqno
                \/ /\ opState = "rpc" /\ http \in {"ok", "new"} /\ r.hosted
                   /\ r.seqno = IF NewHost THEN 0 ELSE proj[cur].seqno
        BY <1>5 DEF OpEnds
    <2>2. cur \in attached /\ cur \in Projects
        BY <1>5 DEF OpEnds, OpConsistent, TypeOK
    <2>3. proj'[cur] = r /\ \A q \in Projects : q # cur => proj'[q] = proj[q]
        BY <2>1, <2>2 DEF TypeOK
    <2>4. ~InRpc' /\ opState' # "rpc" /\ phase' = "write" /\ dirty'
        BY <1>5 DEF OpEnds, InRpc
    <2>5. SavedUpToDate'
        BY <1>0, <2>4 DEF SavedUpToDate
    <2>6. r.hosted => r.seqno >= srvSeq[cur]
        <3>1. CASE r.hosted = proj[cur].hosted /\ r.seqno = proj[cur].seqno
            BY <1>0, <2>2, <3>1 DEF RequestNumbered
        <3>2. CASE /\ opState = "rpc" /\ http \in {"ok", "new"} /\ r.hosted
                   /\ r.seqno = IF NewHost THEN 0 ELSE proj[cur].seqno
            <4>1. NewHost => srvSeq[cur] = 0
                BY <3>2 DEF RequestNumbered, InRpc, NewHost
            <4>2. proj[cur].hosted => proj[cur].seqno >= srvSeq[cur]
                BY <1>0, <2>2 DEF RequestNumbered
            <4>3. QED
                BY <3>2, <4>1, <4>2 DEF NewHost
        <3>3. QED
            BY <2>1, <3>1, <3>2
    <2>7. RequestNumbered'
        BY <1>0, <1>2, <2>3, <2>4, <2>6 DEF RequestNumbered
    <2>8. QED
        BY <2>5, <2>7
<1>6. CASE RetryBegins
    <2>1. InRpc /\ InRpc' /\ phase = "idle" /\ phase' = "retry" /\ opState' # "rpc"
          /\ UNCHANGED <<proj, cur, reqSeq>>
        BY <1>6 DEF RetryBegins, InRpc
    <2>2. SavedUpToDate'
        BY <1>0, <2>1 DEF SavedUpToDate
    <2>3. RequestNumbered'
        BY <1>0, <2>1 DEF RequestNumbered
    <2>4. QED
        BY <2>2, <2>3
<1>7. CASE RetryGoesOn
    <2>1. PICK r \in Project : /\ proj' = [proj EXCEPT ![cur] = r]
                               /\ r.hosted = proj[cur].hosted /\ r.seqno >= proj[cur].seqno
        BY <1>7 DEF RetryGoesOn
    <2>2. InRpc /\ InRpc' /\ phase = "retry" /\ cur' = cur /\ reqSeq' = reqSeq
          /\ http' \notin {"ok", "new"} /\ cur \in attached /\ cur \in Projects
        BY <1>7 DEF RetryGoesOn, InRpc, OpConsistent, TypeOK
    <2>3. proj'[cur] = r /\ \A q \in Projects : q # cur => proj'[q] = proj[q]
        BY <2>1, <2>2 DEF TypeOK
    <2>4. SavedUpToDate'
        BY <1>0, <1>2, <2>2, <2>3 DEF SavedUpToDate
    <2>5. r.seqno \in Nat
        BY <2>1, PolicyAssumption DEF Project
    <2>6. IF r.hosted THEN srvSeq[cur] <= reqSeq /\ reqSeq <= r.seqno ELSE reqSeq = 0
        BY <1>1, <2>1, <2>2, <2>5 DEF RequestNumbered
    <2>7. \A q \in attached : proj'[q].hosted => proj'[q].seqno >= srvSeq[q]
        BY <1>0, <1>1, <1>2, <2>1, <2>2, <2>3, <2>5 DEF RequestNumbered
    <2>8. RequestNumbered'
        BY <1>0, <2>2, <2>3, <2>6, <2>7 DEF RequestNumbered
    <2>9. QED
        BY <2>4, <2>8
<1>8. CASE NothingStarts
    <2>1. InRpc' = InRpc /\ phase \in {"idle", "rpcs"}
          /\ UNCHANGED <<proj, cur, reqSeq, opState, http>>
        BY <1>8 DEF NothingStarts, InRpc, opVars
    <2>2. SavedUpToDate' /\ RequestNumbered'
        BY <1>0, <2>1 DEF SavedUpToDate, RequestNumbered
    <2>3. QED
        BY <2>2
<1>9. QED
    BY <1>0, <1>3, <1>4, <1>5, <1>6, <1>7, <1>8 DEF PollShape

\* The state file is written: it holds what the projects hold.
LEMMA WrittenUpToDate ==
    ASSUME TypeOK, RequestNumbered, OpConsistent, up,
           attached' \subseteq attached, savedSet' = attached', srvSeq' = srvSeq,
           \A p \in attached' : /\ saved'[p] = proj'[p]
                                /\ proj'[p].hosted = proj[p].hosted
                                /\ proj'[p].seqno = proj[p].seqno,
           InRpc' => InRpc /\ cur' = cur /\ reqSeq' = reqSeq
    PROVE  SavedUpToDate'
<1>1. \A p \in attached' : proj'[p].seqno \in Nat
    BY NumbersType DEF TypeOK
<1>2. QED
    BY <1>1, NumbersType DEF SavedUpToDate, RequestNumbered, TypeOK

\* Reset and detach: the operation is aborted, or is not on p.
LEMMA AbortNumbers ==
    ASSUME TypeOK, OpConsistent, RequestNumbered, NEW p \in Projects, Idle, Abort(p),
           phase' = phase, srvSeq' = srvSeq, up' = up, attached' \subseteq attached,
           \A q \in attached' : /\ proj'[q].hosted = proj[q].hosted
                                /\ proj'[q].seqno = proj[q].seqno,
           attached \ {p} \subseteq attached'
    PROVE  /\ RequestNumbered'
           /\ InRpc' => InRpc /\ cur' = cur /\ reqSeq' = reqSeq
<1>1. CASE cur = p
    <2>1. ~InRpc' /\ opState' = "idle"
        BY <1>1 DEF Abort, InRpc, Idle
    <2>2. QED
        BY <2>1 DEF RequestNumbered
<1>2. CASE cur # p
    <2>1. UNCHANGED opVars /\ InRpc' = InRpc
        BY <1>2 DEF Abort, InRpc, opVars
    <2>2. InRpc => cur \in attached'
        BY <1>2 DEF InRpc, OpConsistent
    <2>3. RequestNumbered'
        BY <2>1, <2>2 DEF RequestNumbered, opVars, InRpc
    <2>4. QED
        BY <2>1, <2>3 DEF opVars
<1>3. QED
    BY <1>1, <1>2

\* The numbers stay in order in every step.
LEMMA NumbersNext ==
    ASSUME SchedulerInv, [Next]_vars, TypeOK'
    PROVE  SavedUpToDate' /\ RequestNumbered'
<1>0. TypeOK /\ OpConsistent /\ SavedUpToDate /\ RequestNumbered /\ DownIsQuiet
    BY DEF SchedulerInv
<1>1. CASE Poll
    BY <1>0, <1>1, PollNumbers
<1>2. CASE WriteState
    <2>1. /\ UNCHANGED <<proj, attached, srvSeq, opState, cur, reqSeq, http, up>>
          /\ phase = "write" /\ phase' = "idle" /\ up
        BY <1>2 DEF WriteState, opVars, envVars
    <2>2. InRpc' = InRpc
        BY <2>1 DEF InRpc
    <2>3. RequestNumbered'
        BY <1>0, <2>1, <2>2 DEF RequestNumbered
    <2>4. CASE saved' = proj /\ savedSet' = attached
        <3>1. \A p \in attached' : /\ saved'[p] = proj'[p]
                                   /\ proj'[p].hosted = proj[p].hosted
                                   /\ proj'[p].seqno = proj[p].seqno
            BY <2>1, <2>4
        <3>2. SavedUpToDate'
            BY <1>0, <2>1, <2>2, <2>4, <3>1, WrittenUpToDate
        <3>3. QED
            BY <2>3, <3>2
    <2>5. CASE ~dirty /\ UNCHANGED fileVars
        BY <1>0, <2>1, <2>2, <2>3, <2>5 DEF SavedUpToDate, fileVars
    <2>6. QED
        BY <1>2, <2>4, <2>5 DEF WriteState
<1>3. CASE NetworkAvailable \/ \E p \in Projects : UpdateProject(p) \/ SuspendProject(p)
    <2>1. Edited
        BY <1>0, <1>3, UserEdits
    <2>2. SameNumbers
        BY <1>3, <2>1 DEF NetworkAvailable, UpdateProject, SuspendProject, Command, Idle,
                          Edited, SameNumbers, opVars, fileVars
    <2>3. QED
        BY <1>0, <2>2, SameNumbersKeep
<1>4. ASSUME NEW p \in Projects, ResetProject(p)
      PROVE  SavedUpToDate' /\ RequestNumbered'
    <2>1. Edited
        BY <1>0, <1>4, UserEdits
    <2>2. /\ Idle /\ up /\ Abort(p) /\ phase' = phase /\ srvSeq' = srvSeq /\ up' = up
          /\ saved' = proj' /\ savedSet' = attached /\ attached' = attached
        BY <1>4 DEF ResetProject, Command, Idle
    <2>3. \A q \in attached' : /\ proj'[q].hosted = proj[q].hosted
                               /\ proj'[q].seqno = proj[q].seqno
        BY <2>1 DEF Edited
    <2>4. /\ RequestNumbered'
          /\ InRpc' => InRpc /\ cur' = cur /\ reqSeq' = reqSeq
        BY <1>0, <2>2, <2>3, AbortNumbers
    <2>5. SavedUpToDate'
        BY <1>0, <2>2, <2>3, <2>4, WrittenUpToDate
    <2>6. QED
        BY <2>4, <2>5
<1>5. ASSUME NEW p \in Projects, DetachProject(p)
      PROVE  SavedUpToDate' /\ RequestNumbered'
    <2>1. /\ Idle /\ up /\ Abort(p) /\ phase' = phase /\ srvSeq' = srvSeq /\ up' = up
          /\ saved' = proj' /\ savedSet' = attached' /\ attached' = attached \ {p}
        BY <1>5 DEF DetachProject, Command, Idle
    <2>2. \A q \in attached' : proj'[q] = proj[q]
        BY <1>0, <1>5 DEF DetachProject, TypeOK
    <2>3. /\ RequestNumbered'
          /\ InRpc' => InRpc /\ cur' = cur /\ reqSeq' = reqSeq
        BY <1>0, <2>1, <2>2, AbortNumbers
    <2>4. SavedUpToDate'
        BY <1>0, <2>1, <2>2, <2>3, WrittenUpToDate
    <2>5. QED
        BY <2>3, <2>4
<1>6. ASSUME NEW p \in Projects, AttachProject(p)
      PROVE  SavedUpToDate' /\ RequestNumbered'
    <2>1. /\ attached' = attached \cup {p} /\ p \notin attached
          /\ proj' = [proj EXCEPT ![p] = NewProject]
          /\ UNCHANGED <<opState, cur, http, reqSeq, srvSeq, saved, savedSet, phase, up>>
          /\ up /\ phase = "idle"
        BY <1>6 DEF AttachProject, Command, Idle, opVars, fileVars
    <2>2. (\A q \in attached : proj'[q] = proj[q]) /\ ~proj'[p].hosted
        BY <1>0, <2>1, NewProjectType DEF TypeOK
    <2>3. InRpc' = InRpc /\ (InRpc => cur \in attached)
        BY <1>0, <2>1 DEF InRpc, OpConsistent
    <2>4. SavedUpToDate'
        BY <1>0, <2>1, <2>2, <2>3 DEF SavedUpToDate
    <2>5. RequestNumbered'
        BY <1>0, <2>1, <2>2, <2>3 DEF RequestNumbered
    <2>6. QED
        BY <2>4, <2>5
<1>7. CASE HttpDone
    <2>1. /\ UNCHANGED <<proj, attached, opState, cur, reqSeq, phase, saved, savedSet, up,
                         dirty>>
          /\ up
        BY <1>7 DEF HttpDone, Idle, envVars, fileVars
    <2>2. InRpc' = InRpc
        BY <2>1 DEF InRpc
    <2>3. CASE /\ opState = "rpc" /\ http' \in {"ok", "fail"}
               /\ srvSeq' = [srvSeq EXCEPT ![cur] = reqSeq]
        <3>1. cur \in Projects /\ InRpc
            BY <1>0, <2>3 DEF OpConsistent, TypeOK, InRpc
        <3>2. srvSeq'[cur] = reqSeq /\ \A q \in Projects : q # cur => srvSeq'[q] = srvSeq[q]
            BY <1>0, <2>3, <3>1 DEF TypeOK
        <3>3. SavedUpToDate'
            BY <1>0, <2>1, <2>2, <3>1, <3>2 DEF SavedUpToDate, TypeOK
        <3>4. RequestNumbered'
            BY <1>0, <2>1, <2>2, <2>3, <3>1, <3>2, NumbersType DEF RequestNumbered, TypeOK
        <3>5. QED
            BY <3>3, <3>4
    <2>3a. CASE /\ opState = "rpc" /\ proj[cur].hosted /\ http' = "new"
                /\ srvSeq' = [srvSeq EXCEPT ![cur] = 0]
        <3>1. cur \in Projects /\ InRpc
            BY <1>0, <2>3a DEF OpConsistent, TypeOK, InRpc
        <3>2. srvSeq'[cur] = 0 /\ \A q \in Projects : q # cur => srvSeq'[q] = srvSeq[q]
            BY <1>0, <2>3a, <3>1 DEF TypeOK
        <3>3. SavedUpToDate'
            BY <1>0, <2>1, <2>2, <3>1, <3>2, NumbersType DEF SavedUpToDate, TypeOK
        <3>4. RequestNumbered'
            BY <1>0, <2>1, <2>2, <2>3a, <3>1, <3>2, NumbersType DEF RequestNumbered, TypeOK
        <3>5. QED
            BY <3>3, <3>4
    <2>4. CASE (http' = "fail" \/ opState = "master") /\ UNCHANGED srvSeq /\ http' # "new"
        <3>1. SavedUpToDate'
            BY <1>0, <2>1, <2>2, <2>4 DEF SavedUpToDate
        <3>2. RequestNumbered'
            BY <1>0, <2>1, <2>2, <2>4 DEF RequestNumbered
        <3>3. QED
            BY <3>1, <3>2
    <2>5. QED
        BY <1>7, <2>3, <2>3a, <2>4 DEF HttpDone
<1>8. CASE Tick
    <2>1. Edited
        BY <1>0, <1>8, UserEdits
    <2>2. \A p \in attached : saved'[p].hosted = saved[p].hosted
                              /\ saved'[p].seqno = saved[p].seqno
        BY <1>0, <1>8, TickSaved DEF TypeOK
    <2>3. SameNumbers
        BY <1>8, <2>1, <2>2 DEF Tick, Edited, SameNumbers, opVars, envVars
    <2>4. QED
        BY <1>0, <2>3, SameNumbersKeep
<1>9. CASE BenchmarksDone \/ SuspendNetwork \/ ResumeNetwork
    <2>1. SameNumbers
        BY <1>9 DEF BenchmarksDone, SuspendNetwork, ResumeNetwork, SameNumbers, opVars,
                    fileVars
    <2>2. QED
        BY <1>0, <2>1, SameNumbersKeep
<1>10. CASE Crash
    <2>1. ~up' /\ ~InRpc' /\ opState' = "idle"
          /\ UNCHANGED <<attached, srvSeq, saved, savedSet>>
        BY <1>10 DEF Crash, InRpc, fileVars
    <2>2. SavedUpToDate' /\ RequestNumbered'
        BY <1>0, <2>1 DEF SavedUpToDate, RequestNumbered
    <2>3. QED
        BY <2>2
<1>11. CASE Restart
    <2>1. ~InRpc' /\ opState' = "idle" /\ UNCHANGED <<attached, srvSeq, saved, savedSet>>
        BY <1>0, <1>11 DEF Restart, DownIsQuiet, InRpc, opVars, fileVars
    <2>2. \A p \in Projects : proj'[p].hosted =>
                 p \in savedSet /\ saved[p].hosted /\ proj'[p].seqno = saved[p].seqno
        BY <1>0, <1>11, RestartReads
    <2>3. SavedUpToDate'
        BY <1>0, <2>1, <2>2, NumbersType DEF SavedUpToDate, TypeOK
    <2>4. RequestNumbered'
        BY <1>0, <2>1, <2>2 DEF RequestNumbered, SavedUpToDate, TypeOK
    <2>5. QED
        BY <2>3, <2>4
<1>12. CASE UNCHANGED vars
    <2>1. SameNumbers
        BY <1>12 DEF SameNumbers, vars, opVars, envVars, fileVars
    <2>2. QED
        BY <1>0, <2>1, SameNumbersKeep
<1>13. QED
    BY <1>1, <1>2, <1>3, <1>4, <1>5, <1>6, <1>7, <1>8, <1>9, <1>10, <1>11, <1>12
       DEF Next, User

-----------------------------------------------------------------------------
(***************************************************************************)
(* The theorems.                                                           *)
(***************************************************************************)

\* SchedulerInv is inductive: it holds in every reachable state.
THEOREM SchedulerInvariant == Spec => []SchedulerInv
<1>1. SchedulerInv /\ [Next]_vars => SchedulerInv'
    <2> SUFFICES ASSUME SchedulerInv, [Next]_vars PROVE SchedulerInv'
        OBVIOUS
    <2>0. TypeOK /\ OpConsistent /\ BlamedDeferred /\ DownIsQuiet
        BY DEF SchedulerInv
    <2>1. TypeOK'
        BY <2>0, TypeNext
    <2>2. OpConsistent' /\ DownIsQuiet' /\ BlamedDeferred'
        BY <2>0, OpNext, QuietNext, BlamedNext
    <2>3. SavedUpToDate' /\ RequestNumbered'
        BY <2>1, NumbersNext
    <2>4. QED
        BY <2>1, <2>2, <2>3 DEF SchedulerInv
<1>2. QED
    BY InitInv, <1>1, PTL DEF Spec

\* Every variable keeps its type; in particular nrpc_failures never gets
\* past master_fetch_period, which backoff tests with "==".
THEOREM TypeCorrect == Spec => []TypeOK
<1>1. SchedulerInv => TypeOK
    BY DEF SchedulerInv
<1>2. QED
    BY <1>1, SchedulerInvariant, PTL

\* scheduler_op.h: cur_proj, the state, the HTTP_OP and url_index agree, and
\* no operation outlives its project.
THEOREM OpConsistency == Spec => []OpConsistent
<1>1. SchedulerInv => OpConsistent
    BY DEF SchedulerInv
<1>2. QED
    BY <1>1, SchedulerInvariant, PTL

\* No request carries an rpc_seqno below one that the server has seen, over
\* any number of retries, crashes and restarts.
THEOREM SeqnoFresh == Spec => []SeqnoNeverStale
<1>1. SchedulerInv => SeqnoNeverStale
    <2> SUFFICES ASSUME SchedulerInv PROVE SeqnoNeverStale
        OBVIOUS
    <2>1. TypeOK /\ OpConsistent /\ SavedUpToDate /\ RequestNumbered
        BY DEF SchedulerInv
    <2>2. opState = "rpc" /\ proj[cur].hosted => reqSeq >= srvSeq[cur]
        <3>1. opState = "rpc" => cur \in Projects
            BY <2>1, ProjectsAssumption DEF OpConsistent, TypeOK
        <3>2. QED
            BY <2>1, <3>1, NumbersType DEF RequestNumbered, InRpc
    <2>3. QED
        BY <2>1, <2>2 DEF SeqnoNeverStale, SavedUpToDate, RequestNumbered
<1>2. QED
    BY <1>1, SchedulerInvariant, PTL

\* No operation on a project that failed us starts before the deferral is
\* over, unless the project asked for an RPC or the user cleared it.
THEOREM FailuresBackOff == Spec => FailureBacksOff
<1>1. SchedulerInv /\ [Next]_vars =>
          [\A p \in blamed : Starts(p) => proj[p].next > 0]_vars
    BY BacksOff
<1>2. QED
    BY <1>1, SchedulerInvariant, PTL DEF Spec, FailureBacksOff

=============================================================================
