--------------------------- MODULE FileXferProofs ---------------------------
(***************************************************************************)
(* Proofs about persistent file transfers, for any number of files,        *)
(* projects, URLs, limits and delays.                                      *)
(***************************************************************************)
EXTENDS FileXfer, FiniteSetTheorems, TLAPS

(***************************************************************************)
(* What the decisions of the code return.                                  *)
(***************************************************************************)

\* get_next_url cycles through the URLs of the file.
LEMMA NextUrlType ==
    ASSUME TypeOK, NEW f \in Files
    PROVE  next_url(f) \in 0..(NumUrls - 1)
BY LimitsAssumption DEF TypeOK, next_url

\* do_backoff keeps the transfer's state and age and yields a legal wait.
LEMMA BackoffType ==
    ASSUME NEW p \in PersXfer, NEW b \in do_backoff(p)
    PROVE  b \in PersXfer /\ b.st = p.st
<1> DEFINE more == IF p.nretry < MaxRetry THEN p.nretry + 1 ELSE MaxRetry
           After(n) == {[p EXCEPT !.nretry = n, !.wait = d] :
                       d \in calculate_exponential_backoff(n, RetryMin, RetryMax)}
<1>0. p.nretry \in 0..MaxRetry /\ more \in 0..MaxRetry
    BY LimitsAssumption DEF PersXfer
<1>a. PICK n \in {p.nretry, more} : b \in After(n)
    BY DEF do_backoff
<1>b. n \in 0..MaxRetry
    BY <1>0, <1>a
<1>1. PICK d \in RetryMin..RetryMax : b = [p EXCEPT !.nretry = n, !.wait = d]
    BY <1>a DEF calculate_exponential_backoff
<1>2. d \in 0..RetryMax
    BY LimitsAssumption
<1>3. QED
    BY <1>1, <1>2, <1>b DEF PersXfer

\* transient_failure ends the transfer exactly when it records an error.
LEMMA TransientType ==
    ASSUME TypeOK, NEW f \in Files, NEW st \in Statuses,
           NEW o \in transient_failure(f, pers[f], st)
    PROVE  /\ o.status \in Statuses
           /\ o.pers \in PersXfer
           /\ o.segv \in BOOLEAN
           /\ \/ o.status = st /\ o.pers.st = pers[f].st
              \/ o.status = "TIMEOUT" /\ o.pers.st = "done"
<1> DEFINE tooOld == pers[f].age > GiveUp
           q == IF tooOld THEN [pers[f] EXCEPT !.st = "done"] ELSE pers[f]
           s == IF tooOld THEN "TIMEOUT" ELSE st
<1>1. q \in PersXfer /\ s \in Statuses
    BY DEF TypeOK, PersXfer, Statuses, Errors
<1>2. \/ s = st /\ q.st = pers[f].st
      \/ s = "TIMEOUT" /\ q.st = "done"
    BY DEF TypeOK, PersXfer
<1>3. CASE next_url(f) # 0
    <2>1. o = [status |-> s, pers |-> q, segv |-> tooOld]
        BY <1>3 DEF transient_failure
    <2>2. QED
        BY <2>1, <1>1, <1>2
<1>4. CASE next_url(f) = 0
    <2>1. PICK b \in do_backoff(q) : o = [status |-> s, pers |-> b, segv |-> FALSE]
        BY <1>4 DEF transient_failure
    <2>2. b \in PersXfer /\ b.st = q.st
        BY <1>1, BackoffType
    <2>3. QED
        BY <2>1, <2>2, <1>1, <1>2
<1>5. QED
    BY <1>3, <1>4

\* Time changes neither the state of a transfer nor its number of retries.
LEMMA OlderState ==
    ASSUME NEW p \in PersXfer
    PROVE  Older(p).st = p.st
BY DEF Older, PersXfer

-----------------------------------------------------------------------------
(***************************************************************************)
(* Type correctness.                                                       *)
(***************************************************************************)
\* The initial values of the client's structures.
LEMMA TypeInit == Init => TypeOK
<1> SUFFICES ASSUME Init PROVE TypeOK
    OBVIOUS
<1>1. NoPers \in PersXfer /\ NoXfer \in Xfer
    BY LimitsAssumption DEF NoPers, PersXfer, NoXfer, Xfer, Answers, DownloadAnswers
<1>2. /\ status \in [Files -> Statuses]
      /\ uploaded \in [Files -> BOOLEAN]
      /\ produced \in [Files -> BOOLEAN]
      /\ pers \in [Files -> PersXfer]
    BY <1>1 DEF Init, Statuses
<1>3. saved \in SavedState
    BY <1>2 DEF Init, Memory, SavedState
<1>4. QED
    <2>1. /\ xfer \in [Files -> Xfer]
          /\ cur \in [Files -> 0..(NumUrls - 1)]
          /\ disk \in [Files -> {"none", "empty", "part", "good", "bad"}]
          /\ srv \in [Files -> {"none", "part", "all"}]
        BY <1>1, LimitsAssumption DEF Init
    <2>2. QED
        <3>1. /\ active \subseteq Files /\ todo \subseteq Files
              /\ dropped \subseteq Files
            BY DEF Init
        <3>2. /\ suspended \in BOOLEAN /\ dirty \in BOOLEAN
              /\ phase \in {"idle", "xfers", "pers", "handle", "write"}
              /\ client \in {"up", "down", "segv"}
            BY DEF Init
        <3>3. faults \in 0..MaxFaults
            BY LimitsAssumption DEF Init
        <3>4. QED
            BY <1>2, <1>3, <2>1, <3>1, <3>2, <3>3 DEF TypeOK

\* One attempt that fails, whatever the reason.
LEMMA FailType ==
    ASSUME TypeOK, NEW f \in Files, NEW st \in Statuses, Fail(f, st)
    PROVE  /\ status' \in [Files -> Statuses]
           /\ cur' \in [Files -> 0..(NumUrls - 1)]
           /\ pers' \in [Files -> PersXfer]
           /\ xfer' \in [Files -> Xfer]
           /\ active' \subseteq Files
           /\ client' \in {"up", "down", "segv"}
<1>1. PICK o \in transient_failure(f, pers[f], st) :
        /\ status' = [status EXCEPT ![f] = o.status]
        /\ pers' = [pers EXCEPT ![f] = o.pers]
        /\ client' = IF o.segv THEN "segv" ELSE client
    BY DEF Fail
<1>2. o.status \in Statuses /\ o.pers \in PersXfer /\ o.segv \in BOOLEAN
    BY TransientType
<1>3. next_url(f) \in 0..(NumUrls - 1)
    BY NextUrlType
<1>4. NoXfer \in Xfer
    BY DEF NoXfer, Xfer, Answers, DownloadAnswers
<1>5. QED
    BY <1>1, <1>2, <1>3, <1>4 DEF Fail, TypeOK

\* No step of the client takes a variable out of its type.
LEMMA TypeNext == TypeOK /\ [Next]_vars => TypeOK'
<1> SUFFICES ASSUME TypeOK, [Next]_vars PROVE TypeOK'
    OBVIOUS
<1> USE LimitsAssumption
<1>0. /\ NoPers \in PersXfer /\ NewPers \in PersXfer
      /\ NoXfer \in Xfer
    BY DEF NoPers, NewPers, PersXfer, NoXfer, Xfer, Answers, DownloadAnswers
<1>1. CASE BeginPoll
    BY <1>1 DEF BeginPoll, Idle, TypeOK, fileVars, extVars, procVars
<1>2. CASE EndFileXferPoll
    BY <1>2 DEF EndFileXferPoll, TypeOK, fileVars, extVars, procVars
<1>3. CASE EndPersPoll
    BY <1>3 DEF EndPersPoll, TypeOK, fileVars, extVars, procVars
<1>4. CASE handle_pers_file_xfers
    <2>1. \A f \in Files : FinishedStatus(f) \in Statuses
        BY DEF FinishedStatus, verify_file, Statuses, Errors, TypeOK
    <2>2. QED
        BY <1>4, <1>0, <2>1 DEF handle_pers_file_xfers, TypeOK, procVars
<1>5. CASE WriteState
    <2>1. Memory \in SavedState
        BY DEF Memory, SavedState, TypeOK
    <2>2. saved' \in SavedState
        BY <1>5, <2>1 DEF WriteState, TypeOK
    <2>3. QED
        BY <1>5, <2>2 DEF WriteState, TypeOK, fileVars, extVars, procVars
<1>6. ASSUME NEW f \in Files, FileXferPoll(f) PROVE TypeOK'
    <2>1. xfer' \in [Files -> Xfer]
        <3>1. CASE f \in Outputs
            <4>1. \A x \in {"busy", "done"} : \A a \in {"ok", "not_found", "error"} :
                      [st |-> x, query |-> FALSE, ans |-> a] \in Xfer
                BY DEF Xfer, Answers, DownloadAnswers
            <4>2. [xfer[f] EXCEPT !.st = "done"] \in Xfer
                BY DEF TypeOK, Xfer
            <4>3. QED
                BY <1>6, <3>1, <4>1, <4>2 DEF FileXferPoll, PollUpload, TypeOK
        <3>2. CASE f \notin Outputs
            BY <1>6, <3>2 DEF FileXferPoll, PollDownload, TypeOK, Xfer
        <3>3. QED
            BY <3>1, <3>2
    <2>2. disk' \in [Files -> {"none", "empty", "part", "good", "bad"}]
        BY <1>6 DEF FileXferPoll, PollUpload, PollDownload, TypeOK
    <2>3. QED
        BY <1>6, <2>1, <2>2 DEF FileXferPoll, TypeOK, procVars
<1>7. ASSUME NEW f \in Files, PersPollSkip(f) PROVE TypeOK'
    BY <1>7 DEF PersPollSkip, InPersPoll, TypeOK
<1>8. ASSUME NEW f \in Files, PersPollExists(f) PROVE TypeOK'
    BY <1>8 DEF PersPollExists, InPersPoll, TypeOK, PersXfer, Statuses
<1>9. ASSUME NEW f \in Files, PersPollStart(f) PROVE TypeOK'
    BY <1>9 DEF PersPollStart, InPersPoll, Opened, TypeOK, Xfer, Answers,
          DownloadAnswers, Statuses
<1>10. ASSUME NEW f \in Files, PersPollStartFails(f) PROVE TypeOK'
    <2>1. PICK st \in Statuses : Fail(f, st)
        BY <1>10 DEF PersPollStartFails, TypeOK, Statuses
    <2>2. disk' \in [Files -> {"none", "empty", "part", "good", "bad"}]
        BY <1>10 DEF PersPollStartFails, Opened, TypeOK
    <2>3. QED
        BY <1>10, <2>1, <2>2, FailType DEF PersPollStartFails, InPersPoll, TypeOK
<1>11. ASSUME NEW f \in Files, PersPollSuccess(f) PROVE TypeOK'
    BY <1>11, <1>0 DEF PersPollSuccess, InPersPoll, TypeOK, PersXfer
<1>12. ASSUME NEW f \in Files, PersPollPermanent(f) PROVE TypeOK'
    BY <1>12, <1>0 DEF PersPollPermanent, InPersPoll, TypeOK, PersXfer, Statuses, Errors
<1>13. ASSUME NEW f \in Files, PersPollTransient(f) PROVE TypeOK'
    <2>1. PICK st \in Statuses : Fail(f, st)
        BY <1>13 DEF PersPollTransient, TypeOK
    <2>2. QED
        BY <1>13, <2>1, FailType DEF PersPollTransient, InPersPoll, TypeOK
<1>14. CASE Tick
    <2>1. \A p \in PersXfer : Older(p) \in PersXfer
        <3>1. TAKE p \in PersXfer
        <3>2. /\ p.wait \in 0..RetryMax
              /\ (IF p.wait = 0 THEN 0 ELSE p.wait - 1) \in 0..RetryMax
            BY DEF PersXfer
        <3>3. (IF p.age > GiveUp THEN p.age ELSE p.age + 1) \in 0..(GiveUp + 1)
            BY DEF PersXfer
        <3>4. QED
            BY <3>2, <3>3 DEF Older, PersXfer
    <2>2. saved' \in SavedState
        BY <1>14, <2>1 DEF Tick, TypeOK, SavedState
    <2>3. pers' \in [Files -> PersXfer]
        BY <1>14, <2>1 DEF Tick, TypeOK
    <2>4. QED
        BY <1>14, <2>2, <2>3 DEF Tick, TypeOK, extVars, loopVars, procVars
<1>15. CASE SuspendNetwork
    BY <1>15, <1>0 DEF SuspendNetwork, TypeOK, extVars, loopVars
<1>16. CASE ResumeNetwork
    BY <1>16 DEF ResumeNetwork, TypeOK, fileVars, extVars, loopVars, procVars
<1>17. CASE Crash
    <2>1. /\ status' \in [Files -> Statuses]
          /\ uploaded' \in [Files -> BOOLEAN]
          /\ produced' \in [Files -> BOOLEAN]
        BY <1>17 DEF Crash, Statuses
    <2>2. /\ pers' \in [Files -> PersXfer]
          /\ xfer' \in [Files -> Xfer]
        BY <1>17, <1>0 DEF Crash
    <2>3. /\ cur' \in [Files -> 0..(NumUrls - 1)]
          /\ faults' \in 0..MaxFaults
        BY <1>17 DEF Crash, TypeOK
    <2>4. QED
        BY <1>17, <2>1, <2>2, <2>3 DEF Crash, TypeOK, extVars
<1>18. CASE Restart
    <2>1. PICK needed \in SUBSET Files :
              status' = [f \in Files |-> Existing(f, needed)]
        BY <1>18 DEF Restart
    <2>2. \A f \in Files : Existing(f, needed) \in Statuses /\ Restored(f) \in PersXfer
        BY <1>0 DEF Existing, Restored, TypeOK, SavedState, PersXfer, Statuses
    <2>3. /\ status' \in [Files -> Statuses]
          /\ pers' \in [Files -> PersXfer]
          /\ xfer' \in [Files -> Xfer]
        BY <1>18, <1>0, <2>1, <2>2 DEF Restart
    <2>4. /\ uploaded' \in [Files -> BOOLEAN]
          /\ produced' \in [Files -> BOOLEAN]
        BY <1>18 DEF Restart, TypeOK, SavedState
    <2>5. cur' \in [Files -> 0..(NumUrls - 1)]
        BY <1>18 DEF Restart
    <2>6. QED
        BY <1>18, <2>3, <2>4, <2>5 DEF Restart, TypeOK, extVars
<1>19. ASSUME NEW f \in Files, HttpProgress(f) PROVE TypeOK'
    BY <1>19 DEF HttpProgress, TypeOK, fileVars, loopVars, procVars
<1>20. ASSUME NEW f \in Files, HttpDone(f) PROVE TypeOK'
    <2>1. PICK a \in AnswersTo(f) :
            /\ xfer' = [xfer EXCEPT ![f] = [@ EXCEPT !.st = "http", !.ans = a]]
            /\ \E k \in ServerAfter(f, a) : srv' = [srv EXCEPT ![f] = k]
        BY <1>20 DEF HttpDone
    <2>2. PICK k \in ServerAfter(f, a) : srv' = [srv EXCEPT ![f] = k]
        BY <2>1
    <2>3. a \in Answers
        BY DEF AnswersTo, Answers, QueryAnswers, DataAnswers
    <2>4. k \in {"none", "part", "all"}
        BY DEF ServerAfter, TypeOK
    <2>5. xfer' \in [Files -> Xfer]
        <3>1. [xfer[f] EXCEPT !.st = "http", !.ans = a] \in Xfer
            BY <2>3 DEF TypeOK, Xfer
        <3>2. QED
            BY <2>1, <3>1 DEF TypeOK
    <2>6. srv' \in [Files -> {"none", "part", "all"}]
        BY <2>2, <2>4 DEF TypeOK
    <2>7. QED
        BY <1>20, <2>5, <2>6 DEF HttpDone, TypeOK, loopVars, procVars
<1>21. ASSUME NEW f \in Files, AppFinished(f) PROVE TypeOK'
    BY <1>21 DEF AppFinished, TypeOK, Statuses, loopVars, procVars
<1>22. ASSUME NEW f \in Files, FileNeeded(f) PROVE TypeOK'
    BY <1>22 DEF FileNeeded, TypeOK, Statuses, extVars, loopVars, procVars
<1>22a. ASSUME NEW f \in Files, ClearErrors(f) PROVE TypeOK'
    BY <1>22a DEF ClearErrors, TypeOK, Statuses, loopVars
<1>23. ASSUME NEW f \in Files, RetryTransfer(f) PROVE TypeOK'
    BY <1>23 DEF RetryTransfer, TypeOK, PersXfer, extVars, loopVars, procVars
<1>24. ASSUME NEW f \in Files, AbortTransfer(f) PROVE TypeOK'
    BY <1>24, <1>0 DEF AbortTransfer, TypeOK, PersXfer, Statuses, Errors, extVars,
          loopVars
<1>25. ASSUME NEW f \in Files, Vanish(f) PROVE TypeOK'
    BY <1>25 DEF Vanish, TypeOK, fileVars, loopVars, procVars
<1>26. CASE UNCHANGED vars
    BY <1>26 DEF vars, fileVars, extVars, loopVars, procVars, TypeOK
<1>27. ASSUME NEW f \in Files, PersPoll(f) PROVE TypeOK'
    BY <1>27, <1>7, <1>8, <1>9, <1>10, <1>11, <1>12, <1>13 DEF PersPoll
<1>28. QED
    BY <1>1, <1>2, <1>3, <1>4, <1>5, <1>6, <1>14, <1>15, <1>16, <1>17,
       <1>18, <1>19, <1>20, <1>21, <1>22, <1>22a, <1>23, <1>24, <1>25, <1>26, <1>27
       DEF Next, PollPass

\* Every variable keeps the type the code gives it.
THEOREM TypeCorrect == Spec => []TypeOK
BY TypeInit, TypeNext, PTL DEF Spec

-----------------------------------------------------------------------------
(***************************************************************************)
(* One pass of PERS_FILE_XFER::poll over a transfer.                       *)
(***************************************************************************)

\* What the invariants look at in file g is left alone.
Same(g) ==
    /\ status'[g] = status[g]
    /\ pers'[g].st = pers[g].st
    /\ xfer'[g].st = xfer[g].st
    /\ disk'[g] = disk[g]
    /\ g \in active' <=> g \in active

\* What poll does to a transfer at work: it stays at work with a regular
\* status or it is done, and it is in the set when it has a FILE_XFER.
Worked(f) ==
    /\ pers[f].st = "active"
    /\ pers'[f].st \in {"active", "done"}
    /\ pers'[f].st = "active" => status'[f] \in {status[f], "NOT_PRESENT"}
    /\ f \in active' <=> xfer'[f].st # "none"
    /\ f \in active' => pers'[f].st = "active"

\* A failed attempt leaves the transfer at work or done, without FILE_XFER.
LEMMA FailWorks ==
    ASSUME TypeOK, NEW f \in Files, pers[f].st = "active",
           NEW st \in {status[f], "NOT_PRESENT"}, Fail(f, st)
    PROVE  /\ Worked(f)
           /\ \A g \in Files \ {f} : disk'[g] = disk[g] => Same(g)
<1>0. st \in Statuses
    BY DEF TypeOK, Statuses
<1>1. PICK o \in transient_failure(f, pers[f], st) :
        /\ status' = [status EXCEPT ![f] = o.status]
        /\ pers' = [pers EXCEPT ![f] = o.pers]
    BY DEF Fail
<1>2. \/ o.status = st /\ o.pers.st = "active"
      \/ o.status = "TIMEOUT" /\ o.pers.st = "done"
    BY <1>0, TransientType
<1>3. status'[f] = o.status /\ pers'[f] = o.pers
    BY <1>1 DEF TypeOK
<1>4. xfer'[f].st = "none" /\ f \notin active'
    BY DEF Fail, NoXfer, TypeOK
<1>5. Worked(f)
    BY <1>2, <1>3, <1>4 DEF Worked
<1>6. \A g \in Files \ {f} : disk'[g] = disk[g] => Same(g)
    BY <1>1 DEF Fail, Same, TypeOK
<1>7. QED
    BY <1>5, <1>6

\* PERS_FILE_XFER::poll touches only its own file.
LEMMA PersPollWorks ==
    ASSUME TypeOK, XferConsistent, NEW f \in Files, PersPoll(f)
    PROVE  /\ Worked(f) \/ Same(f)
           /\ \A g \in Files \ {f} : Same(g)
           /\ phase = "pers" /\ UNCHANGED <<phase, saved>>
           /\ dirty => dirty'
           /\ Up
<1>0. /\ phase = "pers" /\ UNCHANGED <<phase, saved>> /\ Up
      /\ todo' \subseteq todo
    BY DEF PersPoll, PersPollSkip, PersPollExists, PersPollStart, PersPollStartFails,
           PersPollSuccess, PersPollPermanent, PersPollTransient, InPersPoll
<1>1. CASE PersPollSkip(f)
    BY <1>0, <1>1 DEF PersPollSkip, Same
<1>2. CASE PersPollExists(f)
    <2>1. pers[f].st = "active" /\ xfer[f].st = "none"
        BY <1>2 DEF PersPollExists, ReadyToCreate
    <2>2. pers'[f].st = "done" /\ xfer'[f].st = "none" /\ f \notin active'
        BY <1>2, <2>1 DEF PersPollExists, TypeOK, PersXfer, XferConsistent
    <2>3. \A g \in Files \ {f} : Same(g)
        BY <1>2 DEF PersPollExists, Same, TypeOK
    <2>4. QED
        BY <1>0, <1>2, <2>1, <2>2, <2>3 DEF PersPollExists, Worked
<1>3. CASE PersPollStart(f)
    <2>1. pers[f].st = "active"
        BY <1>3 DEF PersPollStart, MustTransfer, ReadyToCreate
    <2>2. /\ pers'[f].st = "active" /\ xfer'[f].st = "busy" /\ f \in active'
          /\ status'[f] \in {status[f], "NOT_PRESENT"}
        BY <1>3, <2>1 DEF PersPollStart, TypeOK
    <2>3. \A g \in Files \ {f} : Same(g)
        BY <1>3 DEF PersPollStart, Opened, Same, TypeOK
    <2>4. QED
        BY <1>0, <1>3, <2>1, <2>2, <2>3 DEF PersPollStart, Worked
<1>4. CASE PersPollStartFails(f)
    <2>1. pers[f].st = "active"
        BY <1>4 DEF PersPollStartFails, MustTransfer, ReadyToCreate
    <2>2. PICK st \in {status[f], "NOT_PRESENT"} : Fail(f, st)
        BY <1>4 DEF PersPollStartFails
    <2>3. \A g \in Files \ {f} : disk'[g] = disk[g]
        BY <1>4 DEF PersPollStartFails, Opened, TypeOK
    <2>4. QED
        BY <1>0, <1>4, <2>1, <2>2, <2>3, FailWorks DEF PersPollStartFails
<1>5. CASE PersPollSuccess(f)
    <2>1. pers[f].st = "active"
        BY <1>5 DEF PersPollSuccess, Ended
    <2>2. pers'[f].st = "done" /\ xfer'[f].st = "none" /\ f \notin active'
        BY <1>5 DEF PersPollSuccess, TypeOK, PersXfer, NoXfer
    <2>3. \A g \in Files \ {f} : Same(g)
        BY <1>5 DEF PersPollSuccess, Same, TypeOK
    <2>4. QED
        BY <1>0, <1>5, <2>1, <2>2, <2>3 DEF PersPollSuccess, Worked
<1>6. CASE PersPollPermanent(f)
    <2>1. pers[f].st = "active"
        BY <1>6 DEF PersPollPermanent, Ended
    <2>2. pers'[f].st = "done" /\ xfer'[f].st = "none" /\ f \notin active'
        BY <1>6 DEF PersPollPermanent, TypeOK, PersXfer, NoXfer
    <2>3. \A g \in Files \ {f} : Same(g)
        BY <1>6 DEF PersPollPermanent, Same, TypeOK
    <2>4. QED
        BY <1>0, <1>6, <2>1, <2>2, <2>3 DEF PersPollPermanent, Worked
<1>7. CASE PersPollTransient(f)
    <2>1. pers[f].st = "active"
        BY <1>7 DEF PersPollTransient, Ended
    <2>2. Fail(f, status[f]) /\ disk' = disk /\ dirty'
        BY <1>7 DEF PersPollTransient
    <2>3. QED
        BY <1>0, <2>1, <2>2, FailWorks
<1>8. QED
    BY <1>1, <1>2, <1>3, <1>4, <1>5, <1>6, <1>7 DEF PersPoll

-----------------------------------------------------------------------------
(***************************************************************************)
(* The FILE_XFER_SET and the PERS_FILE_XFERs agree.                        *)
(***************************************************************************)
\* The FILE_XFER_SET and the PERS_FILE_XFERs still agree after any step.
LEMMA XferConsistentNext ==
    ASSUME TypeOK, XferConsistent, TodoActive, [Next]_vars
    PROVE  XferConsistent' /\ TodoActive'
<1> USE DEF XferConsistent, TodoActive
<1>1. CASE BeginPoll
    BY <1>1 DEF BeginPoll, fileVars
<1>2. CASE EndFileXferPoll
    BY <1>2 DEF EndFileXferPoll, fileVars
<1>3. CASE EndPersPoll
    BY <1>3 DEF EndPersPoll, fileVars
<1>4. CASE handle_pers_file_xfers
    BY <1>4 DEF handle_pers_file_xfers, NewPers, NoPers, TypeOK
<1>5. CASE WriteState
    BY <1>5 DEF WriteState, fileVars
<1>6. ASSUME NEW f \in Files, FileXferPoll(f)
      PROVE  XferConsistent' /\ TodoActive'
    <2>1. f \in active
        BY <1>6 DEF FileXferPoll
    <2>2. xfer'[f].st # "none"
        BY <1>6 DEF FileXferPoll, PollUpload, PollDownload, TypeOK, Xfer
    <2>3. \A g \in Files \ {f} : xfer'[g] = xfer[g]
        BY <1>6 DEF FileXferPoll, PollUpload, PollDownload, TypeOK
    <2>4. QED
        BY <1>6, <2>1, <2>2, <2>3 DEF FileXferPoll
<1>7. ASSUME NEW f \in Files, PersPoll(f)
      PROVE  XferConsistent' /\ TodoActive'
    BY <1>7, PersPollWorks DEF Same, Worked
<1>8. CASE Tick
    <2>1. \A g \in Files : pers'[g].st = pers[g].st
        BY <1>8, OlderState DEF Tick, TypeOK
    <2>2. QED
        BY <1>8, <2>1 DEF Tick, loopVars
<1>9. CASE SuspendNetwork
    <2>1. \A g \in Files : xfer'[g].st = "none"
        BY <1>9 DEF SuspendNetwork, NoXfer
    <2>2. QED
        BY <1>9, <2>1 DEF SuspendNetwork, Idle, loopVars
<1>10. CASE ResumeNetwork
    BY <1>10 DEF ResumeNetwork, fileVars, loopVars
<1>11. CASE Crash
    BY <1>11 DEF Crash, NoXfer
<1>12. CASE Restart
    BY <1>12 DEF Restart, NoXfer
<1>13. ASSUME NEW f \in Files, HttpProgress(f)
       PROVE  XferConsistent' /\ TodoActive'
    BY <1>13 DEF HttpProgress, fileVars, loopVars
<1>14. ASSUME NEW f \in Files, HttpDone(f)
       PROVE  XferConsistent' /\ TodoActive'
    <2>1. xfer'[f].st = "http" /\ \A g \in Files \ {f} : xfer'[g] = xfer[g]
        BY <1>14 DEF HttpDone, TypeOK, Xfer
    <2>2. QED
        BY <1>14, <2>1 DEF HttpDone, loopVars
<1>15. ASSUME NEW f \in Files, AppFinished(f)
       PROVE  XferConsistent' /\ TodoActive'
    BY <1>15 DEF AppFinished, loopVars
<1>16. ASSUME NEW f \in Files, FileNeeded(f)
       PROVE  XferConsistent' /\ TodoActive'
    BY <1>16 DEF FileNeeded, loopVars
<1>16a. ASSUME NEW f \in Files, ClearErrors(f)
       PROVE  XferConsistent' /\ TodoActive'
    BY <1>16a DEF ClearErrors, loopVars
<1>17. ASSUME NEW f \in Files, RetryTransfer(f)
       PROVE  XferConsistent' /\ TodoActive'
    <2>1. \A g \in Files : pers'[g].st = pers[g].st
        BY <1>17 DEF RetryTransfer, TypeOK, PersXfer
    <2>2. QED
        BY <1>17, <2>1 DEF RetryTransfer, loopVars
<1>18. ASSUME NEW f \in Files, AbortTransfer(f)
       PROVE  XferConsistent' /\ TodoActive'
    <2>1. xfer'[f].st = "none" /\ f \notin active'
        BY <1>18 DEF AbortTransfer, NoXfer, TypeOK
    <2>2. \A g \in Files \ {f} : xfer'[g] = xfer[g] /\ pers'[g] = pers[g]
        BY <1>18 DEF AbortTransfer, TypeOK
    <2>3. QED
        BY <1>18, <2>1, <2>2 DEF AbortTransfer, Idle, loopVars
<1>19. ASSUME NEW f \in Files, Vanish(f)
       PROVE  XferConsistent' /\ TodoActive'
    BY <1>19 DEF Vanish, fileVars, loopVars
<1>20. CASE UNCHANGED vars
    BY <1>20 DEF vars, fileVars, loopVars
<1>21. QED
    BY <1>1, <1>2, <1>3, <1>4, <1>5, <1>6, <1>7, <1>8, <1>9, <1>10, <1>11,
       <1>12, <1>13, <1>14, <1>15, <1>16, <1>16a, <1>17, <1>18, <1>19, <1>20
       DEF Next, PollPass

(***************************************************************************)
(* A transfer at work belongs to a file without an error.                  *)
(***************************************************************************)
\* No step leaves an error on a file whose transfer goes on.
LEMMA WorkingNotFailedNext ==
    ASSUME TypeOK, XferConsistent, WorkingNotFailed, [Next]_vars
    PROVE  WorkingNotFailed'
<1> USE DEF WorkingNotFailed, had_failure, Errors
<1>1. CASE BeginPoll
    BY <1>1 DEF BeginPoll, fileVars
<1>2. CASE EndFileXferPoll
    BY <1>2 DEF EndFileXferPoll, fileVars
<1>3. CASE EndPersPoll
    BY <1>3 DEF EndPersPoll, fileVars
<1>4. CASE handle_pers_file_xfers
    BY <1>4 DEF handle_pers_file_xfers, WantsTransfer, NewPers, NoPers, TypeOK
<1>5. CASE WriteState
    BY <1>5 DEF WriteState, fileVars
<1>6. ASSUME NEW f \in Files, FileXferPoll(f) PROVE WorkingNotFailed'
    BY <1>6 DEF FileXferPoll
<1>7. ASSUME NEW f \in Files, PersPoll(f) PROVE WorkingNotFailed'
    BY <1>7, PersPollWorks DEF Same, Worked
<1>8. CASE Tick
    <2>1. \A g \in Files : pers'[g].st = pers[g].st
        BY <1>8, OlderState DEF Tick, TypeOK
    <2>2. QED
        BY <1>8, <2>1 DEF Tick
<1>9. CASE SuspendNetwork
    BY <1>9 DEF SuspendNetwork
<1>10. CASE ResumeNetwork
    BY <1>10 DEF ResumeNetwork, fileVars
<1>11. CASE Crash
    BY <1>11 DEF Crash, NoPers
<1>12. CASE Restart
    <2>1. PICK needed \in SUBSET Files :
              status' = [f \in Files |-> Existing(f, needed)]
        BY <1>12 DEF Restart
    <2>2. \A f \in Files : Restored(f).st = "active" => ~had_failure(saved.status[f])
        BY DEF Restored, NoPers
    <2>3. \A f \in Files : pers'[f] = Restored(f)
        BY <1>12 DEF Restart
    <2>4. \A f \in Files : status'[f] \in {saved.status[f], "NOT_PRESENT", "NOT_NEEDED"}
        BY <2>1 DEF Existing
    <2>5. QED
        BY <2>2, <2>3, <2>4
<1>13. ASSUME NEW f \in Files, HttpProgress(f) PROVE WorkingNotFailed'
    BY <1>13 DEF HttpProgress, fileVars
<1>14. ASSUME NEW f \in Files, HttpDone(f) PROVE WorkingNotFailed'
    BY <1>14 DEF HttpDone
<1>15. ASSUME NEW f \in Files, AppFinished(f) PROVE WorkingNotFailed'
    BY <1>15 DEF AppFinished, TypeOK
<1>16. ASSUME NEW f \in Files, FileNeeded(f) PROVE WorkingNotFailed'
    BY <1>16 DEF FileNeeded, TypeOK
<1>16a. ASSUME NEW f \in Files, ClearErrors(f) PROVE WorkingNotFailed'
    BY <1>16a DEF ClearErrors, TypeOK
<1>17. ASSUME NEW f \in Files, RetryTransfer(f) PROVE WorkingNotFailed'
    BY <1>17 DEF RetryTransfer, TypeOK, PersXfer
<1>18. ASSUME NEW f \in Files, AbortTransfer(f) PROVE WorkingNotFailed'
    BY <1>18 DEF AbortTransfer, TypeOK, PersXfer
<1>19. ASSUME NEW f \in Files, Vanish(f) PROVE WorkingNotFailed'
    BY <1>19 DEF Vanish, fileVars
<1>20. CASE UNCHANGED vars
    BY <1>20 DEF vars, fileVars
<1>21. QED
    BY <1>1, <1>2, <1>3, <1>4, <1>5, <1>6, <1>7, <1>8, <1>9, <1>10, <1>11,
       <1>12, <1>13, <1>14, <1>15, <1>16, <1>16a, <1>17, <1>18, <1>19, <1>20
       DEF Next, PollPass

(***************************************************************************)
(* A download that is present, in memory or in the state file, is right.   *)
(***************************************************************************)
\* No step makes memory or the state file call a wrong file present.
LEMMA VerifiedNext ==
    ASSUME TypeOK, XferConsistent, TodoActive, WorkingNotFailed, PresentIsVerified,
           SavedVerified, [Next]_vars
    PROVE  PresentIsVerified' /\ SavedVerified'
<1> USE DEF PresentIsVerified, SavedVerified, Verified, Downloads, Up
<1>1. CASE BeginPoll
    BY <1>1 DEF BeginPoll, Idle, fileVars, extVars, procVars
<1>2. CASE EndFileXferPoll
    BY <1>2 DEF EndFileXferPoll, fileVars, extVars, procVars
<1>3. CASE EndPersPoll
    BY <1>3 DEF EndPersPoll, fileVars, extVars, procVars
<1>4. CASE handle_pers_file_xfers
    <2>1. \A f \in Downloads : disk'[f] = disk[f]
        BY <1>4 DEF handle_pers_file_xfers, TypeOK
    <2>2. \A f \in Downloads : pers[f].st = "done" =>
              /\ pers'[f].st = "none"
              /\ status'[f] = "PRESENT" => Verified(f)
        <3>1. TAKE f \in Downloads
        <3>2. HAVE pers[f].st = "done"
        <3>3. pers'[f].st = "none" /\ status'[f] = FinishedStatus(f)
            BY <1>4, <3>2 DEF handle_pers_file_xfers, NoPers, TypeOK
        <3>4. FinishedStatus(f) = "PRESENT" => Verified(f)
            BY FilesAssumption DEF FinishedStatus, verify_file, had_failure, Errors, TypeOK
        <3>5. QED
            BY <3>3, <3>4
    <2>3. \A f \in Downloads : pers[f].st # "done" => status'[f] = status[f]
        BY <1>4 DEF handle_pers_file_xfers, TypeOK
    <2>4. \A f \in Downloads :
              pers[f].st = "none" => \/ pers'[f].st = "none"
                                     \/ status[f] = "NOT_PRESENT"
        BY <1>4 DEF handle_pers_file_xfers, WantsTransfer, TypeOK
    <2>5. \A f \in Downloads : pers[f].st = "active" => pers'[f].st = "active"
        BY <1>4 DEF handle_pers_file_xfers, TypeOK
    <2>6. /\ client' = client /\ client = "up" /\ phase' = "write" /\ phase = "handle"
          /\ dirty' = dirty /\ saved' = saved
        BY <1>4 DEF handle_pers_file_xfers, procVars
    <2>7. \A f \in Files : pers[f].st \in {"none", "active", "done"}
        BY DEF TypeOK, PersXfer
    <2>8. PresentIsVerified'
        BY <2>1, <2>2, <2>3, <2>4, <2>5, <2>6, <2>7
    <2>9. SavedVerified'
        BY <2>1, <2>2, <2>3, <2>4, <2>5, <2>6, <2>7
    <2>10. QED
        BY <2>8, <2>9
<1>5. CASE WriteState
    <2>1. PresentIsVerified'
        BY <1>5 DEF WriteState, fileVars, extVars, procVars
    <2>2. CASE saved' = Memory
        BY <1>5, <2>2 DEF WriteState, Memory, fileVars, extVars, procVars
    <2>3. CASE saved' = saved /\ ~dirty
        BY <1>5, <2>3 DEF WriteState, fileVars, extVars, procVars
    <2>4. QED
        BY <1>5, <2>1, <2>2, <2>3 DEF WriteState
<1>6. ASSUME NEW f \in Files, FileXferPoll(f)
      PROVE  PresentIsVerified' /\ SavedVerified'
    <2>1. pers[f].st = "active"
        BY <1>6 DEF FileXferPoll, TodoActive, XferConsistent
    <2>2. \A g \in Files \ {f} : disk'[g] = disk[g]
        BY <1>6 DEF FileXferPoll, PollUpload, PollDownload, TypeOK
    <2>3. QED
        BY <1>6, <2>1, <2>2 DEF FileXferPoll, procVars
<1>7. ASSUME NEW f \in Files, PersPoll(f)
      PROVE  PresentIsVerified' /\ SavedVerified'
    <2>1. client = "up" /\ phase = "pers" /\ saved' = saved /\ phase' = phase
        BY <1>7, PersPollWorks
    <2>2. (Worked(f) \/ Same(f)) /\ (\A g \in Files \ {f} : Same(g)) /\ (dirty => dirty')
        BY <1>7, PersPollWorks
    <2>3. PresentIsVerified'
        BY <2>1, <2>2 DEF Same, Worked
    <2>4. SavedVerified'
        BY <2>1, <2>2 DEF Same, Worked
    <2>5. QED
        BY <2>3, <2>4
<1>8. CASE Tick
    <2>1. \A g \in Files : pers'[g].st = pers[g].st
        BY <1>8, OlderState DEF Tick, TypeOK
    <2>2. \A g \in Files : saved'.pers[g].st = saved.pers[g].st
        BY <1>8, OlderState DEF Tick, TypeOK, SavedState
    <2>3. saved'.status = saved.status
        BY <1>8 DEF Tick, TypeOK, SavedState
    <2>4. QED
        BY <1>8, <2>1, <2>2, <2>3 DEF Tick, extVars, loopVars, procVars
<1>9. CASE SuspendNetwork
    BY <1>9 DEF SuspendNetwork, extVars, loopVars
<1>10. CASE ResumeNetwork
    BY <1>10 DEF ResumeNetwork, fileVars, extVars, loopVars, procVars
<1>11. CASE Crash
    BY <1>11 DEF Crash, extVars
<1>12. CASE Restart
    <2>1. PICK needed \in SUBSET Files :
              status' = [f \in Files |-> Existing(f, needed)]
        BY <1>12 DEF Restart
    <2>2. \A f \in Files : status'[f] = Existing(f, needed) /\ pers'[f] = Restored(f)
        BY <1>12, <2>1 DEF Restart
    <2>3. \A f \in Files : Restored(f).st = "none" /\ saved.status[f] = "PRESENT" =>
              saved.pers[f].st = "none"
        BY DEF Restored, had_failure, Errors, TypeOK, SavedState, PersXfer
    <2>4. \A f \in Files : Restored(f).st = "none" \/ saved.pers[f].st # "none"
        BY DEF Restored, NoPers
    <2>5. \A f \in Files : Existing(f, needed) = "PRESENT" =>
              saved.status[f] = "PRESENT" /\ disk[f] # "none"
        BY DEF Existing
    <2>6. \A f \in Files : saved.status[f] = "PRESENT" =>
              \/ Existing(f, needed) = "PRESENT"
              \/ Existing(f, needed) \in {"NOT_PRESENT", "NOT_NEEDED"} /\ disk[f] = "none"
        BY DEF Existing
    <2>7. disk' = disk /\ saved' = saved /\ dirty'
        BY <1>12 DEF Restart, extVars
    <2>8. PresentIsVerified'
        BY <2>2, <2>3, <2>5, <2>7
    <2>9. SavedVerified'
        BY <2>2, <2>4, <2>6, <2>7
    <2>10. QED
        BY <2>8, <2>9
<1>13. ASSUME NEW f \in Files, HttpProgress(f)
       PROVE  PresentIsVerified' /\ SavedVerified'
    <2>1. pers[f].st = "active" /\ phase = "idle" /\ client = "up"
        BY <1>13 DEF HttpProgress, Idle, XferConsistent
    <2>2. \A g \in Files \ {f} : disk'[g] = disk[g]
        BY <1>13 DEF HttpProgress, TypeOK
    <2>3. QED
        BY <1>13, <2>1, <2>2 DEF HttpProgress, fileVars, loopVars, procVars
<1>14. ASSUME NEW f \in Files, HttpDone(f)
       PROVE  PresentIsVerified' /\ SavedVerified'
    BY <1>14 DEF HttpDone, loopVars, procVars
<1>15. ASSUME NEW f \in Files, AppFinished(f)
       PROVE  PresentIsVerified' /\ SavedVerified'
    BY <1>15 DEF AppFinished, TypeOK, loopVars, procVars
<1>16. ASSUME NEW f \in Files, FileNeeded(f)
       PROVE  PresentIsVerified' /\ SavedVerified'
    BY <1>16 DEF FileNeeded, TypeOK, extVars, loopVars, procVars
<1>16a. ASSUME NEW f \in Files, ClearErrors(f)
       PROVE  PresentIsVerified' /\ SavedVerified'
    <2>1. /\ client = "up" /\ client' = "up" /\ dirty' /\ phase' = phase
          /\ pers' = pers /\ saved' = saved /\ had_failure(status[f])
        BY <1>16a DEF ClearErrors, loopVars
    <2>2. /\ status'[f] = "NOT_PRESENT"
          /\ \A g \in Files \ {f} : status'[g] = status[g] /\ disk'[g] = disk[g]
        BY <1>16a DEF ClearErrors, TypeOK
    <2>3. PresentIsVerified'
        BY <2>1, <2>2
    <2>4. ~(saved.status[f] = "PRESENT" /\ saved.pers[f].st = "none") \/ f \in Outputs
        BY <2>1 DEF had_failure, Errors
    <2>5. SavedVerified'
        BY <2>1, <2>2, <2>4
    <2>6. QED
        BY <2>3, <2>5
<1>17. ASSUME NEW f \in Files, RetryTransfer(f)
       PROVE  PresentIsVerified' /\ SavedVerified'
    <2>1. \A g \in Files : pers'[g].st = pers[g].st
        BY <1>17 DEF RetryTransfer, TypeOK, PersXfer
    <2>2. QED
        BY <1>17, <2>1 DEF RetryTransfer, extVars, loopVars, procVars
<1>18. ASSUME NEW f \in Files, AbortTransfer(f)
       PROVE  PresentIsVerified' /\ SavedVerified'
    <2>1. pers[f].st # "none" /\ phase = "idle" /\ client = "up"
        BY <1>18 DEF AbortTransfer, Idle
    <2>2. pers'[f].st = "done" /\ status'[f] = "ABORTED_VIA_GUI"
        BY <1>18 DEF AbortTransfer, TypeOK, PersXfer
    <2>3. \A g \in Files \ {f} : pers'[g] = pers[g] /\ status'[g] = status[g]
        BY <1>18 DEF AbortTransfer, TypeOK
    <2>4. QED
        BY <1>18, <2>1, <2>2, <2>3 DEF AbortTransfer, extVars, loopVars
<1>19. ASSUME NEW f \in Files, Vanish(f)
       PROVE  PresentIsVerified' /\ SavedVerified'
    BY <1>19 DEF Vanish, TypeOK, fileVars, loopVars, procVars
<1>20. CASE UNCHANGED vars
    BY <1>20 DEF vars, fileVars, extVars, loopVars, procVars
<1>21. QED
    BY <1>1, <1>2, <1>3, <1>4, <1>5, <1>6, <1>7, <1>8, <1>9, <1>10, <1>11,
       <1>12, <1>13, <1>14, <1>15, <1>16, <1>16a, <1>17, <1>18, <1>19, <1>20
       DEF Next, PollPass

-----------------------------------------------------------------------------
(***************************************************************************)
(* The theorems.                                                           *)
(***************************************************************************)
\* The invariant holds when the client starts without a state file.
LEMMA TransferInvInit == Init => TransferInv
<1> SUFFICES ASSUME Init PROVE TransferInv
    OBVIOUS
<1>1. TypeOK
    BY TypeInit
<1>2. XferConsistent /\ TodoActive /\ WorkingNotFailed
    BY DEF Init, XferConsistent, TodoActive, WorkingNotFailed, NoXfer, NoPers
<1>3. PresentIsVerified /\ SavedVerified
    BY DEF Init, PresentIsVerified, SavedVerified, Memory, Downloads
<1>4. QED
    BY <1>1, <1>2, <1>3 DEF TransferInv

\* Every step of the client and of its environment preserves it.
LEMMA TransferInvNext == TransferInv /\ [Next]_vars => TransferInv'
BY TypeNext, XferConsistentNext, WorkingNotFailedNext, VerifiedNext DEF TransferInv

\* The inductive invariant: agreement of the two sets of transfers, and
\* what memory and the state file say of downloads against the disk.
THEOREM TransferInvariant == Spec => []TransferInv
BY TransferInvInit, TransferInvNext, PTL DEF Spec

\* The set of running FILE_XFERs is exactly what the PERS_FILE_XFERs own,
\* through retries, aborts, suspensions, crashes and restarts.
THEOREM XferConsistency == Spec => []XferConsistent
<1>1. TransferInv => XferConsistent
    BY DEF TransferInv
<1>2. QED
    BY <1>1, TransferInvariant, PTL

\* A download the client takes for present is complete and right on disk.
THEOREM PresentVerified == Spec => []PresentIsVerified
<1>1. TransferInv => PresentIsVerified
    BY DEF TransferInv
<1>2. QED
    BY <1>1, TransferInvariant, PTL

\* A step that leaves the client running keeps the error of a download,
\* unless it is a scheduler reply's clear_errors.
LEMMA FailureStep ==
    ASSUME TransferInv, [Next]_vars, NEW f \in Downloads, Up, client' = "up",
           had_failure(status[f])
    PROVE  had_failure(status'[f]) \/ ClearErrors(f)
<1> USE DEF had_failure, Errors, Downloads
<1>0. TypeOK /\ WorkingNotFailed /\ XferConsistent
    BY DEF TransferInv
<1>1. CASE status' = status
    BY <1>1
<1>2. CASE handle_pers_file_xfers
    <2>1. status'[f] \in {status[f], FinishedStatus(f)}
        BY <1>0, <1>2 DEF handle_pers_file_xfers, TypeOK
    <2>2. FinishedStatus(f) = status[f]
        BY DEF FinishedStatus
    <2>3. QED
        BY <2>1, <2>2
<1>3. ASSUME NEW g \in Files, PersPoll(g) PROVE had_failure(status'[f])
    <2>1. pers[f].st # "active"
        BY <1>0 DEF WorkingNotFailed
    <2>2. Same(f)
        BY <1>0, <1>3, <2>1, PersPollWorks DEF Worked
    <2>3. QED
        BY <2>2 DEF Same
<1>4. CASE Crash
    BY <1>4 DEF Crash
<1>5. CASE Restart
    BY <1>5 DEF Restart
<1>6. ASSUME NEW g \in Files, AppFinished(g) PROVE had_failure(status'[f])
    BY <1>0, <1>6 DEF AppFinished, TypeOK
<1>7. ASSUME NEW g \in Files, FileNeeded(g) PROVE had_failure(status'[f])
    BY <1>0, <1>7 DEF FileNeeded, TypeOK
<1>8. ASSUME NEW g \in Files, AbortTransfer(g) PROVE had_failure(status'[f])
    BY <1>0, <1>8 DEF AbortTransfer, TypeOK
<1>9. ASSUME NEW g \in Files, ClearErrors(g)
      PROVE  had_failure(status'[f]) \/ ClearErrors(f)
    BY <1>0, <1>9 DEF ClearErrors, TypeOK
<1>10. QED
    <2>1. ASSUME NEW g \in Files,
                 \/ FileXferPoll(g) \/ HttpProgress(g) \/ HttpDone(g)
                 \/ RetryTransfer(g) \/ Vanish(g)
          PROVE  status' = status
        BY <2>1 DEF FileXferPoll, HttpProgress, HttpDone, RetryTransfer, Vanish, fileVars
    <2>2. ASSUME \/ BeginPoll \/ EndFileXferPoll \/ EndPersPoll \/ WriteState
                 \/ Tick \/ SuspendNetwork \/ ResumeNetwork \/ UNCHANGED vars
          PROVE  status' = status
        BY <2>2 DEF BeginPoll, EndFileXferPoll, EndPersPoll, WriteState, Tick,
               SuspendNetwork, ResumeNetwork, vars, fileVars
    <2>3. QED
        BY <1>1, <1>2, <1>3, <1>4, <1>5, <1>6, <1>7, <1>8, <1>9, <2>1, <2>2
           DEF Next, PollPass

\* A start of the client keeps the error that the state file has.
LEMMA FailureRestored ==
    ASSUME [Next]_vars, TypeOK, NEW f \in Downloads, ~Up, client' = "up",
           had_failure(saved.status[f])
    PROVE  had_failure(status'[f]) /\ pers'[f].st = "none"
<1>1. f \in Files
    BY DEF Downloads
<1>2. CASE Restart
    <2>1. PICK needed \in SUBSET Files :
              status' = [g \in Files |-> Existing(g, needed)]
        BY <1>2 DEF Restart
    <2>2. status'[f] = saved.status[f]
        BY <1>1, <2>1 DEF Existing, had_failure, Errors
    <2>3. pers'[f] = NoPers
        BY <1>1, <1>2 DEF Restart, Restored
    <2>4. QED
        BY <2>2, <2>3 DEF NoPers
<1>3. ASSUME NEW g \in Files,
             \/ FileXferPoll(g) \/ PersPoll(g) \/ HttpProgress(g) \/ HttpDone(g)
             \/ AppFinished(g) \/ FileNeeded(g) \/ ClearErrors(g)
             \/ RetryTransfer(g) \/ AbortTransfer(g) \/ Vanish(g)
      PROVE  FALSE
    BY <1>3 DEF FileXferPoll, PersPoll, PersPollSkip, PersPollExists, PersPollStart,
                PersPollStartFails, PersPollSuccess, PersPollPermanent,
                PersPollTransient, InPersPoll, HttpProgress, HttpDone, AppFinished,
                FileNeeded, ClearErrors, RetryTransfer, AbortTransfer, Vanish,
                Idle, Up, procVars
<1>4. ASSUME \/ BeginPoll \/ EndFileXferPoll \/ EndPersPoll \/ handle_pers_file_xfers
             \/ WriteState \/ Tick \/ SuspendNetwork \/ ResumeNetwork
             \/ Crash \/ UNCHANGED vars
      PROVE  FALSE
    BY <1>4 DEF BeginPoll, EndFileXferPoll, EndPersPoll, handle_pers_file_xfers,
                WriteState, Tick, SuspendNetwork, ResumeNetwork, Crash, Idle, Up,
                vars, procVars
<1>5. QED
    BY <1>2, <1>3, <1>4 DEF Next, PollPass

\* A download that has failed, in memory or in the state file, is not tried
\* again until a scheduler reply names it, and that reply meets no transfer
\* at work.
THEOREM FailureStays == Spec => FailureEndsByReply
<1>1. TransferInv /\ [Next]_vars =>
        [\A f \in Downloads : client' = "up" =>
           /\ Up /\ had_failure(status[f]) =>
                \/ had_failure(status'[f])
                \/ ClearErrors(f) /\ pers[f].st # "active" /\ f \notin active
           /\ ~Up /\ had_failure(saved.status[f]) =>
                had_failure(status'[f]) /\ pers'[f].st = "none"]_vars
    <2> SUFFICES ASSUME TransferInv, [Next]_vars, NEW f \in Downloads, client' = "up"
                 PROVE  /\ Up /\ had_failure(status[f]) =>
                             \/ had_failure(status'[f])
                             \/ /\ ClearErrors(f) /\ pers[f].st # "active"
                                /\ f \notin active
                        /\ ~Up /\ had_failure(saved.status[f]) =>
                             had_failure(status'[f]) /\ pers'[f].st = "none"
        OBVIOUS
    <2>1. /\ TypeOK
          /\ had_failure(status[f]) => pers[f].st # "active" /\ f \notin active
        BY DEF TransferInv, WorkingNotFailed, XferConsistent, Downloads
    <2>2. Up /\ had_failure(status[f]) => had_failure(status'[f]) \/ ClearErrors(f)
        BY FailureStep
    <2>3. ~Up /\ had_failure(saved.status[f]) =>
              had_failure(status'[f]) /\ pers'[f].st = "none"
        BY <2>1, FailureRestored
    <2>4. QED
        BY <2>1, <2>2, <2>3
<1>2. QED
    BY <1>1, TransferInvariant, PTL DEF Spec, FailureEndsByReply

-----------------------------------------------------------------------------
(***************************************************************************)
(* Uploads.  What has to be known of the state file, the disk and the      *)
(* server so that an output file is neither lost nor called uploaded too   *)
(* early.                                                                  *)
(***************************************************************************)
\* An output file has a transfer, or counts as present, only once the
\* application has produced it, in memory and in the state file.
ProducedFirst ==
    \A f \in Outputs :
        /\ pers[f].st # "none" \/ status[f] = "PRESENT" => produced[f]
        /\ saved.pers[f].st # "none" \/ saved.status[f] = "PRESENT" =>
                saved.produced[f]

\* The state file records the transfer of every upload with a FILE_XFER,
\* except during the rest of the pass that started it, which ends with
\* writing that file; so a transfer that ended without being dropped has
\* been recorded.
XferRecorded ==
    \A f \in Outputs :
        /\ f \in active =>
            \/ saved.pers[f].st # "none"
            \/ /\ dirty /\ phase \in {"pers", "handle", "write"}
               /\ xfer[f].st = "busy"
        /\ pers[f].st = "done" /\ f \notin dropped => saved.pers[f].st # "none"

\* An output file that is not settled has a transfer or is still on disk,
\* as memory has it and as the next start will find it.
MemoryHolds ==
    Up => \A f \in Outputs \ dropped :
        produced[f] /\ ~uploaded[f] /\ ~had_failure(status[f]) =>
            pers[f].st # "none" \/ (status[f] = "PRESENT" /\ disk[f] # "none")
SavedHolds ==
    \A f \in Outputs \ dropped :
        saved.produced[f] /\ ~saved.uploaded[f] /\ ~had_failure(saved.status[f]) =>
            \/ saved.pers[f].st # "none"
            \/ saved.status[f] = "PRESENT" /\ disk[f] # "none"

\* FILE_XFER_SET::poll visits answered requests.  An answer of success,
\* other than to a size query that the data will follow, means that the
\* server holds the whole file, and a transfer that is done has its file
\* there or has failed.
TodoAnswered == phase = "xfers" => \A f \in todo : xfer[f].st = "http"
AnswersTrue ==
    \A f \in Outputs : xfer[f].st \in {"http", "done"} =>
        /\ xfer[f].ans = "ok_all" => srv[f] = "all"
        /\ xfer[f].ans = "ok" =>
            srv[f] = "all" \/ (xfer[f].st = "http" /\ xfer[f].query)
DoneSettled ==
    \A f \in Outputs :
        pers[f].st = "done" => srv[f] = "all" \/ had_failure(status[f])

UploadInv ==
    /\ ProducedFirst /\ XferRecorded /\ MemoryHolds /\ SavedHolds
    /\ TodoAnswered /\ AnswersTrue /\ DoneSettled

\* The limits need the set of running transfers to be finite.
LimitsInv == IsFiniteSet(active) /\ LimitsRespected

\* What PERS_FILE_XFER::poll does to an upload: nothing, start a FILE_XFER,
\* or end one with another attempt to come, with an error, or with success.
UploadPolled(f) ==
    \/ /\ pers'[f].st = pers[f].st /\ xfer'[f] = xfer[f]
       /\ status'[f] = status[f] /\ (f \in active' <=> f \in active)
    \/ /\ pers[f].st = "active" /\ pers'[f].st = "active"
       /\ status'[f] = status[f] /\ dirty' /\ xfer'[f].st = "busy"
    \/ /\ pers[f].st = "active" /\ xfer'[f].st = "none" /\ f \notin active'
       /\ \/ pers'[f].st = "active" /\ status'[f] = status[f]
          \/ /\ pers'[f].st = "done" /\ had_failure(status'[f])
             /\ f \in dropped' \/ xfer[f].st = "done"
          \/ /\ pers'[f].st = "done" /\ status'[f] = status[f]
             /\ xfer[f].st = "done" /\ XferRetval(xfer[f].ans) = "ok"

\* What the poll of file f leaves alone of a file g.
Kept(g) ==
    /\ pers'[g] = pers[g] /\ xfer'[g] = xfer[g] /\ status'[g] = status[g]
    /\ disk'[g] = disk[g] /\ (g \in active' <=> g \in active)

\* A failed attempt of an upload.
LEMMA FailUpload ==
    ASSUME TypeOK, NEW f \in Files, pers[f].st = "active", Fail(f, status[f])
    PROVE  /\ xfer'[f].st = "none" /\ f \notin active'
           /\ \/ pers'[f].st = "active" /\ status'[f] = status[f]
              \/ pers'[f].st = "done" /\ had_failure(status'[f])
           /\ \A g \in Files \ {f} : disk'[g] = disk[g] => Kept(g)
<1>1. PICK o \in transient_failure(f, pers[f], status[f]) :
        /\ status' = [status EXCEPT ![f] = o.status]
        /\ pers' = [pers EXCEPT ![f] = o.pers]
    BY DEF Fail
<1>2. status[f] \in Statuses
    BY DEF TypeOK
<1>3. \/ o.status = status[f] /\ o.pers.st = "active"
      \/ o.status = "TIMEOUT" /\ o.pers.st = "done"
    BY <1>2, TransientType
<1>4. status'[f] = o.status /\ pers'[f] = o.pers
    BY <1>1 DEF TypeOK
<1>5. xfer'[f].st = "none" /\ f \notin active'
    BY DEF Fail, NoXfer, TypeOK
<1>6. \A g \in Files \ {f} : disk'[g] = disk[g] => Kept(g)
    BY <1>1 DEF Fail, Kept, TypeOK
<1>7. QED
    BY <1>3, <1>4, <1>5, <1>6 DEF had_failure, Errors

\* PERS_FILE_XFER::poll on an upload, and what it leaves alone.
LEMMA PersPollUpload ==
    ASSUME TypeOK, NEW f \in Outputs, PersPoll(f)
    PROVE  /\ UploadPolled(f) /\ disk'[f] = disk[f]
           /\ \A g \in Files \ {f} : Kept(g)
<1>0. f \in Files
    BY FilesAssumption
<1>1. CASE PersPollSkip(f)
    BY <1>1 DEF PersPollSkip, UploadPolled, Kept
<1>2. CASE PersPollExists(f)
    BY <1>2 DEF PersPollExists
<1>3. CASE PersPollStart(f)
    <2>1. /\ xfer' = [xfer EXCEPT ![f] = [st |-> "busy", query |-> TRUE, ans |-> "ok"]]
          /\ active' = active \cup {f} /\ status' = status /\ disk' = disk
          /\ pers' = pers /\ dirty' /\ pers[f].st = "active"
        BY <1>3 DEF PersPollStart, Opened, MustTransfer, ReadyToCreate
    <2>2. xfer'[f].st = "busy"
        BY <2>1, <1>0 DEF TypeOK
    <2>3. \A g \in Files \ {f} : Kept(g)
        BY <2>1 DEF Kept, TypeOK
    <2>4. QED
        BY <2>1, <2>2, <2>3 DEF UploadPolled
<1>4. CASE PersPollStartFails(f)
    <2>1. /\ pers[f].st = "active" /\ Fail(f, status[f]) /\ disk' = disk
          /\ pers'[f].st = "done" => f \in dropped'
        BY <1>4 DEF PersPollStartFails, Opened, MustTransfer, ReadyToCreate
    <2>2. QED
        BY <1>0, <2>1, FailUpload DEF UploadPolled
<1>5. CASE PersPollSuccess(f)
    <2>1. /\ pers[f].st = "active" /\ xfer[f].st = "done"
          /\ XferRetval(xfer[f].ans) = "ok" /\ status' = status /\ disk' = disk
        BY <1>5 DEF PersPollSuccess, Ended
    <2>2. pers'[f].st = "done" /\ xfer'[f].st = "none" /\ f \notin active'
        BY <1>0, <1>5 DEF PersPollSuccess, TypeOK, PersXfer, NoXfer
    <2>3. \A g \in Files \ {f} : Kept(g)
        BY <1>5 DEF PersPollSuccess, Kept, TypeOK
    <2>4. QED
        BY <2>1, <2>2, <2>3 DEF UploadPolled
<1>6. CASE PersPollPermanent(f)
    <2>1. pers[f].st = "active" /\ xfer[f].st = "done" /\ disk' = disk
        BY <1>6 DEF PersPollPermanent, Ended
    <2>2. /\ pers'[f].st = "done" /\ xfer'[f].st = "none" /\ f \notin active'
          /\ status'[f] = "UPLOAD_PERMANENT"
        BY <1>0, <1>6 DEF PersPollPermanent, TypeOK, PersXfer, NoXfer
    <2>3. \A g \in Files \ {f} : Kept(g)
        BY <1>6 DEF PersPollPermanent, Kept, TypeOK
    <2>4. QED
        BY <2>1, <2>2, <2>3 DEF UploadPolled, had_failure, Errors
<1>7. CASE PersPollTransient(f)
    <2>1. /\ pers[f].st = "active" /\ Fail(f, status[f]) /\ disk' = disk
          /\ xfer[f].st = "done"
        BY <1>7 DEF PersPollTransient, Ended
    <2>2. QED
        BY <1>0, <2>1, FailUpload DEF UploadPolled
<1>8. QED
    BY <1>1, <1>2, <1>3, <1>4, <1>5, <1>6, <1>7 DEF PersPoll

\* The poll of a download leaves the uploads alone.
LEMMA PersPollOther ==
    ASSUME TypeOK, NEW f \in Files, PersPoll(f)
    PROVE  \A g \in Outputs \ {f} : Kept(g)
<1>0. Outputs \subseteq Files
    BY FilesAssumption
<1>1. CASE PersPollSkip(f)
    BY <1>1 DEF PersPollSkip, Kept
<1>2. CASE PersPollExists(f)
    BY <1>0, <1>2 DEF PersPollExists, Kept, TypeOK
<1>3. CASE PersPollStart(f)
    BY <1>0, <1>3 DEF PersPollStart, Opened, Kept, TypeOK
<1>4. ASSUME PersPollStartFails(f) \/ PersPollTransient(f)
      PROVE  \A g \in Outputs \ {f} : Kept(g)
    <2>1. PICK st \in Statuses : Fail(f, st)
        BY <1>4 DEF PersPollStartFails, PersPollTransient, TypeOK, Statuses
    <2>2. PICK o \in transient_failure(f, pers[f], st) :
            /\ status' = [status EXCEPT ![f] = o.status]
            /\ pers' = [pers EXCEPT ![f] = o.pers]
        BY <2>1 DEF Fail
    <2>3. \A g \in Files \ {f} : disk'[g] = disk[g]
        BY <1>4 DEF PersPollStartFails, PersPollTransient, Opened, TypeOK
    <2>4. QED
        BY <1>0, <2>1, <2>2, <2>3 DEF Fail, Kept, TypeOK
<1>5. CASE PersPollSuccess(f)
    BY <1>0, <1>5 DEF PersPollSuccess, Kept, TypeOK
<1>6. CASE PersPollPermanent(f)
    BY <1>0, <1>6 DEF PersPollPermanent, Kept, TypeOK
<1>7. QED
    BY <1>1, <1>2, <1>3, <1>4, <1>5, <1>6 DEF PersPoll

\* What no poll of a transfer changes.
LEMMA PersPollFrame ==
    ASSUME NEW f \in Files, PersPoll(f)
    PROVE  /\ Up /\ phase = "pers" /\ phase' = phase
           /\ uploaded' = uploaded /\ produced' = produced /\ srv' = srv
           /\ saved' = saved /\ dropped \subseteq dropped' /\ (dirty => dirty')
<1>1. InPersPoll(f)
    BY DEF PersPoll, PersPollSkip, PersPollExists, PersPollStart, PersPollStartFails,
           PersPollSuccess, PersPollPermanent, PersPollTransient
<1>2. dropped' = dropped \/ dropped' = dropped \cup {f}
    BY DEF PersPoll, PersPollSkip, PersPollExists, PersPollStart, PersPollStartFails,
           PersPollSuccess, PersPollPermanent, PersPollTransient
<1>3. dirty' = TRUE \/ dirty' = dirty
    BY DEF PersPoll, PersPollSkip, PersPollExists, PersPollStart, PersPollStartFails,
           PersPollSuccess, PersPollPermanent, PersPollTransient
<1>4. QED
    BY <1>1, <1>2, <1>3 DEF InPersPoll

\* Every step keeps what is known of the uploads.
LEMMA UploadInvNext ==
    ASSUME TypeOK, XferConsistent, TodoActive, UploadInv, [Next]_vars
    PROVE  UploadInv'
<1> USE DEF UploadInv, ProducedFirst, XferRecorded, MemoryHolds, SavedHolds,
            TodoAnswered, AnswersTrue, DoneSettled, Up
<1>0. Outputs \subseteq Files
    BY FilesAssumption
<1>1. CASE BeginPoll
    BY <1>1 DEF BeginPoll, Idle, fileVars, extVars, procVars
<1>2. CASE EndFileXferPoll
    BY <1>2 DEF EndFileXferPoll, fileVars, extVars, procVars
<1>3. CASE EndPersPoll
    BY <1>3 DEF EndPersPoll, fileVars, extVars, procVars
<1>4. CASE handle_pers_file_xfers
    <2>1. /\ client = "up" /\ client' = "up" /\ phase = "handle" /\ phase' = "write"
          /\ xfer' = xfer /\ active' = active /\ produced' = produced
          /\ srv' = srv /\ dirty' = dirty /\ saved' = saved /\ dropped' = dropped
        BY <1>4 DEF handle_pers_file_xfers, procVars
    <2>2. \A f \in Outputs : pers[f].st = "done" =>
              /\ pers'[f].st = "none" /\ uploaded'[f]
              /\ status'[f] \in {status[f], "NOT_PRESENT"}
        BY <1>0, <1>4 DEF handle_pers_file_xfers, FinishedStatus, NoPers
    <2>3. \A f \in Outputs : pers[f].st # "done" =>
              /\ status'[f] = status[f] /\ uploaded'[f] = uploaded[f]
              /\ disk'[f] = disk[f]
        BY <1>0, <1>4 DEF handle_pers_file_xfers, TypeOK
    <2>4. \A f \in Outputs : pers[f].st = "active" => pers'[f].st = "active"
        BY <1>0, <1>4 DEF handle_pers_file_xfers
    <2>5. \A f \in Outputs : pers[f].st = "none" =>
              \/ pers'[f].st = "none"
              \/ pers'[f].st = "active" /\ status[f] = "PRESENT"
        BY <1>0, <1>4 DEF handle_pers_file_xfers, WantsTransfer, NewPers, NoPers
    <2>6. \A f \in Files : pers[f].st \in {"none", "active", "done"}
        BY DEF TypeOK, PersXfer
    <2>7. ProducedFirst' /\ XferRecorded' /\ AnswersTrue' /\ TodoAnswered' /\ DoneSettled'
        BY <1>0, <2>1, <2>2, <2>3, <2>4, <2>5, <2>6
    <2>8. MemoryHolds'
        BY <1>0, <2>1, <2>2, <2>3, <2>4, <2>5, <2>6
    <2>9. SavedHolds'
        BY <1>0, <2>1, <2>3
    <2>10. QED
        BY <2>7, <2>8, <2>9
<1>5. CASE WriteState
    <2>1. /\ UNCHANGED <<fileVars, extVars, procVars>>
          /\ client = "up" /\ phase = "write" /\ phase' = "idle"
        BY <1>5 DEF WriteState
    <2>2. CASE saved' = Memory
        <3>1. ProducedFirst' /\ AnswersTrue' /\ TodoAnswered' /\ DoneSettled' /\ MemoryHolds'
            BY <2>1, <2>2 DEF Memory, fileVars, extVars, procVars
        <3>2. XferRecorded'
            BY <1>0, <2>1, <2>2 DEF Memory, fileVars, procVars, XferConsistent
        <3>3. SavedHolds'
            BY <2>1, <2>2 DEF Memory, fileVars, extVars, procVars
        <3>4. QED
            BY <3>1, <3>2, <3>3
    <2>3. CASE saved' = saved /\ ~dirty
        BY <2>1, <2>3 DEF fileVars, extVars, procVars
    <2>4. QED
        BY <1>5, <2>2, <2>3 DEF WriteState
<1>6. ASSUME NEW f \in Files, FileXferPoll(f) PROVE UploadInv'
    <2>1. /\ UNCHANGED <<status, uploaded, pers, active, produced, srv, phase, dirty,
                         saved, client, dropped>>
          /\ phase = "xfers" /\ f \in todo /\ todo' = todo \ {f}
        BY <1>6 DEF FileXferPoll, procVars
    <2>2. \A g \in Outputs : disk'[g] = disk[g]
        BY <1>0, <1>6 DEF FileXferPoll, PollUpload, PollDownload, TypeOK
    <2>3. \A g \in Files \ {f} : xfer'[g] = xfer[g]
        BY <1>6 DEF FileXferPoll, PollUpload, PollDownload, TypeOK
    <2>4. ProducedFirst' /\ XferRecorded' /\ DoneSettled' /\ MemoryHolds' /\ SavedHolds'
        BY <2>1, <2>2
    <2>5. ASSUME f \in Outputs, xfer'[f].st \in {"http", "done"}
          PROVE  /\ xfer'[f].ans = "ok_all" => srv[f] = "all"
                 /\ xfer'[f].ans = "ok" => srv[f] = "all"
        <3>1. CASE xfer[f].query /\ xfer[f].ans = "ok"
            <4>1. \/ xfer'[f].st = "busy"
                  \/ xfer'[f].ans \in {"not_found", "error"}
                BY <1>6, <2>5, <3>1 DEF FileXferPoll, PollUpload, TypeOK
            <4>2. QED
                BY <2>5, <4>1
        <3>2. CASE ~(xfer[f].query /\ xfer[f].ans = "ok")
            <4>1. xfer' = [xfer EXCEPT ![f].st = "done"]
                BY <1>6, <2>5, <3>2 DEF FileXferPoll, PollUpload
            <4>2. xfer'[f].ans = xfer[f].ans
                BY <4>1 DEF TypeOK, Xfer
            <4>3. QED
                BY <2>1, <2>5, <3>2, <4>2
        <3>3. QED
            BY <3>1, <3>2
    <2>6. AnswersTrue' /\ TodoAnswered'
        BY <1>0, <2>1, <2>3, <2>5 DEF TypeOK
    <2>7. QED
        BY <2>4, <2>6
<1>7. ASSUME NEW f \in Files, PersPoll(f) PROVE UploadInv'
    <2>1. /\ client = "up" /\ phase = "pers" /\ phase' = phase
          /\ uploaded' = uploaded /\ produced' = produced /\ srv' = srv
          /\ saved' = saved /\ dropped \subseteq dropped' /\ (dirty => dirty')
        BY <1>7, PersPollFrame
    <2>2. \A g \in Outputs \ {f} : Kept(g)
        BY <1>7, PersPollOther
    <2>3. f \in Outputs => UploadPolled(f) /\ disk'[f] = disk[f]
        BY <1>7, PersPollUpload
    <2>4. f \in Outputs /\ xfer[f].st = "done" => f \in active
        BY DEF XferConsistent
    <2>5. ProducedFirst' /\ TodoAnswered'
        BY <2>1, <2>2, <2>3 DEF Kept, UploadPolled, had_failure, Errors
    <2>6. XferRecorded'
        BY <2>1, <2>2, <2>3, <2>4 DEF Kept, UploadPolled
    <2>7. MemoryHolds' /\ SavedHolds'
        BY <2>1, <2>2, <2>3 DEF Kept, UploadPolled, had_failure, Errors
    <2>8. AnswersTrue'
        BY <2>1, <2>2, <2>3 DEF Kept, UploadPolled
    <2>9. DoneSettled'
        <3>1. f \in Outputs /\ xfer[f].st = "done" /\ XferRetval(xfer[f].ans) = "ok"
                => srv[f] = "all"
            <4>1. XferRetval(xfer[f].ans) = "ok" => xfer[f].ans \in {"ok", "ok_all"}
                BY DEF XferRetval
            <4>2. QED
                BY <4>1
        <3>2. QED
            BY <2>1, <2>2, <2>3, <3>1 DEF Kept, UploadPolled
    <2>10. QED
        BY <2>5, <2>6, <2>7, <2>8, <2>9
<1>8. CASE Tick
    <2>1. \A g \in Files : pers'[g].st = pers[g].st
        BY <1>8, OlderState DEF Tick, TypeOK
    <2>2. \A g \in Files : saved'.pers[g].st = saved.pers[g].st
        BY <1>8, OlderState DEF Tick, TypeOK, SavedState
    <2>3. /\ saved'.status = saved.status /\ saved'.produced = saved.produced
          /\ saved'.uploaded = saved.uploaded
        BY <1>8 DEF Tick, TypeOK, SavedState
    <2>4. UNCHANGED <<status, uploaded, xfer, active, produced, disk, srv, phase,
                      todo, dirty, client, dropped>>
        BY <1>8 DEF Tick, extVars, loopVars, procVars
    <2>5. QED
        BY <1>0, <2>1, <2>2, <2>3, <2>4
<1>9. CASE SuspendNetwork
    <2>1. \A f \in Files : xfer'[f].st = "none"
        BY <1>9 DEF SuspendNetwork, NoXfer
    <2>2. /\ UNCHANGED <<status, uploaded, pers, produced, disk, srv, phase,
                         todo, dirty, saved, client, dropped>>
          /\ active' = {} /\ phase = "idle"
        BY <1>9 DEF SuspendNetwork, Idle, extVars, loopVars
    <2>3. QED
        BY <1>0, <2>1, <2>2
<1>10. CASE ResumeNetwork
    BY <1>10 DEF ResumeNetwork, fileVars, extVars, loopVars, procVars
<1>11. CASE Crash
    <2>1. \A f \in Files : /\ xfer'[f].st = "none" /\ pers'[f].st = "none"
                           /\ status'[f] = "NOT_PRESENT"
        BY <1>11 DEF Crash, NoXfer, NoPers
    <2>2. /\ UNCHANGED <<disk, srv, saved, dropped>>
          /\ active' = {} /\ phase' = "idle" /\ client' = "down"
        BY <1>11 DEF Crash, extVars
    <2>3. QED
        BY <1>0, <2>1, <2>2
<1>12. CASE Restart
    <2>1. PICK needed \in SUBSET Files :
              status' = [f \in Files |-> Existing(f, needed)]
        BY <1>12 DEF Restart
    <2>2. \A f \in Files : /\ status'[f] = Existing(f, needed)
                           /\ pers'[f] = Restored(f) /\ xfer'[f].st = "none"
        BY <1>12, <2>1 DEF Restart, NoXfer
    <2>3. \A f \in Files :
              /\ pers'[f].st \in {"none", "active"}
              /\ pers'[f].st # "none" => saved.pers[f].st # "none"
              /\ saved.pers[f].st # "none" /\ ~had_failure(saved.status[f]) =>
                     pers'[f].st # "none"
        <3>1. \A f \in Files : saved.pers[f] \in PersXfer
            BY DEF TypeOK, SavedState
        <3>2. \A f \in Files : Restored(f).st =
                  IF saved.pers[f].st = "none" \/ had_failure(saved.status[f])
                  THEN "none" ELSE "active"
            BY <3>1 DEF Restored, NoPers, PersXfer
        <3>3. QED
            BY <2>2, <3>2
    <2>4. \A f \in Files :
              /\ status'[f] = "PRESENT" => saved.status[f] = "PRESENT"
              /\ saved.status[f] = "PRESENT" /\ disk[f] # "none" =>
                     status'[f] = "PRESENT"
              /\ had_failure(saved.status[f]) => status'[f] = saved.status[f]
        BY <2>2 DEF Existing, had_failure, Errors
    <2>5. /\ UNCHANGED <<disk, srv, saved, dropped>>
          /\ active' = {} /\ phase' = "idle"
          /\ uploaded' = saved.uploaded /\ produced' = saved.produced
        BY <1>12 DEF Restart, extVars
    <2>6. ProducedFirst' /\ XferRecorded' /\ TodoAnswered' /\ AnswersTrue'
          /\ DoneSettled' /\ SavedHolds'
        BY <1>0, <2>2, <2>3, <2>4, <2>5
    <2>7. MemoryHolds'
        BY <1>0, <2>3, <2>4, <2>5
    <2>8. QED
        BY <2>6, <2>7
<1>13. ASSUME NEW f \in Files, HttpProgress(f) PROVE UploadInv'
    <2>1. /\ UNCHANGED <<status, uploaded, pers, xfer, active, produced, srv, phase,
                         todo, dirty, saved, client, dropped>>
        BY <1>13 DEF HttpProgress, fileVars, loopVars, procVars
    <2>2. \A g \in Outputs : disk'[g] = disk[g]
        BY <1>0, <1>13 DEF HttpProgress, TypeOK
    <2>3. QED
        BY <2>1, <2>2
<1>14. ASSUME NEW f \in Files, HttpDone(f) PROVE UploadInv'
    <2>1. /\ UNCHANGED <<status, uploaded, pers, active, produced, disk, phase,
                         todo, dirty, saved, client, dropped>>
          /\ phase = "idle" /\ xfer[f].st = "busy"
        BY <1>14 DEF HttpDone, Idle, loopVars, procVars
    <2>2. PICK a \in AnswersTo(f) :
            /\ xfer' = [xfer EXCEPT ![f] = [@ EXCEPT !.st = "http", !.ans = a]]
            /\ \E k \in ServerAfter(f, a) : srv' = [srv EXCEPT ![f] = k]
        BY <1>14 DEF HttpDone
    <2>3. /\ xfer'[f].st = "http" /\ xfer'[f].ans = a /\ xfer'[f].query = xfer[f].query
          /\ \A g \in Files \ {f} : xfer'[g] = xfer[g]
        BY <2>2 DEF TypeOK, Xfer
    <2>4. /\ \A g \in Files \ {f} : srv'[g] = srv[g]
          /\ srv'[f] \in ServerAfter(f, a)
        BY <2>2 DEF TypeOK
    <2>5. srv[f] = "all" => srv'[f] = "all"
        BY <2>4 DEF ServerAfter
    <2>6. f \in Outputs => /\ a = "ok_all" => srv'[f] = "all"
                           /\ a = "ok" => srv'[f] = "all" \/ xfer[f].query
        <3>1. CASE xfer[f].query
            BY <2>4, <3>1 DEF ServerAfter, AnswersTo
        <3>2. CASE ~xfer[f].query
            <4>1. f \in Outputs => a # "ok_all"
                BY <3>2 DEF AnswersTo, DataAnswers
            <4>2. a = "ok" => srv'[f] = "all"
                BY <2>4, <3>2 DEF ServerAfter
            <4>3. QED
                BY <4>1, <4>2
        <3>3. QED
            BY <3>1, <3>2
    <2>7. ProducedFirst' /\ XferRecorded' /\ TodoAnswered' /\ MemoryHolds' /\ SavedHolds'
        BY <2>1
    <2>8. AnswersTrue'
        BY <1>0, <2>3, <2>4, <2>6
    <2>9. DoneSettled'
        BY <1>0, <2>1, <2>4, <2>5
    <2>10. QED
        BY <2>7, <2>8, <2>9
<1>15. ASSUME NEW f \in Files, AppFinished(f) PROVE UploadInv'
    <2>1. /\ UNCHANGED <<uploaded, pers, xfer, active, srv, phase, todo, saved,
                         client, dropped>>
          /\ dirty' /\ f \in Outputs /\ ~produced[f] /\ phase = "write"
        BY <1>15 DEF AppFinished, loopVars, procVars
    <2>2. /\ produced'[f] /\ status'[f] = "PRESENT" /\ disk'[f] = "good"
          /\ \A g \in Files \ {f} : /\ produced'[g] = produced[g]
                                    /\ status'[g] = status[g] /\ disk'[g] = disk[g]
        BY <1>15 DEF AppFinished, TypeOK
    <2>3. QED
        BY <1>0, <2>1, <2>2
<1>16. ASSUME NEW f \in Files, FileNeeded(f) PROVE UploadInv'
    <2>1. /\ UNCHANGED <<uploaded, pers, xfer, active, produced, disk, srv, phase,
                         todo, dirty, saved, client, dropped>>
          /\ status[f] = "NOT_NEEDED"
        BY <1>16 DEF FileNeeded, extVars, loopVars, procVars
    <2>2. /\ status'[f] = "NOT_PRESENT"
          /\ \A g \in Files \ {f} : status'[g] = status[g]
        BY <1>16 DEF FileNeeded, TypeOK
    <2>3. QED
        BY <1>0, <2>1, <2>2 DEF had_failure, Errors
<1>16a. ASSUME NEW f \in Files, ClearErrors(f) PROVE UploadInv'
    <2>1. /\ UNCHANGED <<uploaded, pers, xfer, active, produced, srv, phase,
                         todo, saved, client, dropped>>
          /\ dirty' /\ f \notin Outputs
        BY <1>16a DEF ClearErrors, loopVars
    <2>2. \A g \in Files \ {f} : status'[g] = status[g] /\ disk'[g] = disk[g]
        BY <1>16a DEF ClearErrors, TypeOK
    <2>3. QED
        BY <1>0, <2>1, <2>2
<1>17. ASSUME NEW f \in Files, RetryTransfer(f) PROVE UploadInv'
    <2>1. \A g \in Files : pers'[g].st = pers[g].st
        BY <1>17 DEF RetryTransfer, TypeOK, PersXfer
    <2>2. /\ UNCHANGED <<status, uploaded, xfer, active, produced, disk, srv, phase,
                         todo, saved, client, dropped>>
          /\ dirty'
        BY <1>17 DEF RetryTransfer, extVars, loopVars, procVars
    <2>3. QED
        BY <1>0, <2>1, <2>2
<1>18. ASSUME NEW f \in Files, AbortTransfer(f) PROVE UploadInv'
    <2>1. /\ UNCHANGED <<uploaded, produced, disk, srv, phase, todo, saved, client>>
          /\ dirty' /\ active' = active \ {f} /\ dropped' = dropped \cup {f}
          /\ phase = "idle" /\ pers[f].st # "none"
        BY <1>18 DEF AbortTransfer, Idle, extVars, loopVars
    <2>2. /\ pers'[f].st = "done" /\ xfer'[f].st = "none"
          /\ status'[f] = "ABORTED_VIA_GUI"
          /\ \A g \in Files \ {f} : /\ pers'[g] = pers[g] /\ xfer'[g] = xfer[g]
                                    /\ status'[g] = status[g]
        BY <1>18 DEF AbortTransfer, TypeOK, PersXfer, NoXfer
    <2>3. ProducedFirst' /\ XferRecorded' /\ TodoAnswered' /\ AnswersTrue'
        BY <1>0, <2>1, <2>2
    <2>4. MemoryHolds' /\ SavedHolds' /\ DoneSettled'
        BY <1>0, <2>1, <2>2 DEF had_failure, Errors
    <2>5. QED
        BY <2>3, <2>4
<1>19. ASSUME NEW f \in Files, Vanish(f) PROVE UploadInv'
    <2>1. UNCHANGED <<status, uploaded, pers, xfer, active, produced, srv, phase,
                      todo, dirty, saved, client, dropped>>
        BY <1>19 DEF Vanish, fileVars, loopVars, procVars
    <2>2. \A g \in Outputs : disk'[g] = disk[g]
        BY <1>0, <1>19 DEF Vanish, TypeOK
    <2>3. QED
        BY <2>1, <2>2
<1>20. CASE UNCHANGED vars
    BY <1>20 DEF vars, fileVars, extVars, loopVars, procVars
<1>21. QED
    BY <1>1, <1>2, <1>3, <1>4, <1>5, <1>6, <1>7, <1>8, <1>9, <1>10, <1>11,
       <1>12, <1>13, <1>14, <1>15, <1>16, <1>16a, <1>17, <1>18, <1>19, <1>20
       DEF Next, PollPass

\* The client starts without a state file and without uploads.
LEMMA UploadInvInit == Init => UploadInv
<1> SUFFICES ASSUME Init PROVE UploadInv
    OBVIOUS
<1>0. Outputs \subseteq Files
    BY FilesAssumption
<1>1. \A f \in Files : /\ pers[f].st = "none" /\ xfer[f].st = "none"
                       /\ status[f] = "NOT_PRESENT" /\ ~produced[f]
    BY DEF Init, NoPers, NoXfer
<1>2. /\ saved = Memory /\ active = {} /\ phase = "idle"
    BY DEF Init
<1>3. ProducedFirst /\ XferRecorded /\ SavedHolds
    BY <1>0, <1>1, <1>2 DEF ProducedFirst, XferRecorded, SavedHolds, Memory
<1>4. MemoryHolds /\ TodoAnswered /\ AnswersTrue /\ DoneSettled
    BY <1>0, <1>1, <1>2 DEF MemoryHolds, TodoAnswered, AnswersTrue, DoneSettled
<1>5. QED
    BY <1>3, <1>4 DEF UploadInv

\* Together with the agreement of the sets of transfers it is inductive.
LEMMA UploadInvariant == Spec => [](TransferInv /\ UploadInv)
<1>1. Init => UploadInv
    BY UploadInvInit
<1>2. TransferInv /\ UploadInv /\ [Next]_vars => UploadInv'
    BY UploadInvNext DEF TransferInv
<1>3. QED
    BY <1>1, <1>2, TransferInvariant, PTL DEF Spec

\* An output file that is produced keeps a transfer or the status that will
\* give it one, until it is uploaded, fails or is dropped: no crash, also
\* none between deleting the file and writing the state file, loses it.
THEOREM UploadsKept == Spec => []UploadNotLost
<1>1. UploadInv => UploadNotLost
    BY DEF UploadInv, MemoryHolds, UploadNotLost
<1>2. QED
    BY <1>1, UploadInvariant, PTL

\* A step that marks a file as uploaded finds it on the server or failed.
LEMMA SettledStep ==
    ASSUME TransferInv, UploadInv, [Next]_vars, NEW f \in Outputs, Up,
           ~uploaded[f], uploaded'[f]
    PROVE  srv[f] = "all" \/ had_failure(status[f])
<1>0. TypeOK /\ f \in Files
    BY FilesAssumption DEF TransferInv
<1>1. CASE handle_pers_file_xfers
    <2>1. uploaded'[f] = (uploaded[f] \/ f \in {g \in Files : pers[g].st = "done"} \cap Outputs)
        BY <1>0, <1>1 DEF handle_pers_file_xfers
    <2>2. pers[f].st = "done"
        BY <2>1
    <2>3. QED
        BY <2>2 DEF UploadInv, DoneSettled
<1>2. CASE Crash
    BY <1>0, <1>2 DEF Crash
<1>3. CASE Restart
    BY <1>3 DEF Restart
<1>4. ASSUME NEW g \in Files, PersPoll(g) PROVE FALSE
    BY <1>4, PersPollFrame
<1>5. ASSUME NEW g \in Files,
             \/ FileXferPoll(g) \/ HttpProgress(g) \/ HttpDone(g) \/ AppFinished(g)
             \/ FileNeeded(g) \/ ClearErrors(g) \/ RetryTransfer(g)
             \/ AbortTransfer(g) \/ Vanish(g)
      PROVE  FALSE
    BY <1>5 DEF FileXferPoll, HttpProgress, HttpDone, AppFinished, FileNeeded, ClearErrors,
                RetryTransfer, AbortTransfer, Vanish, fileVars
<1>6. ASSUME \/ BeginPoll \/ EndFileXferPoll \/ EndPersPoll \/ WriteState
             \/ Tick \/ SuspendNetwork \/ ResumeNetwork \/ UNCHANGED vars
      PROVE  FALSE
    BY <1>6 DEF BeginPoll, EndFileXferPoll, EndPersPoll, WriteState, Tick,
                SuspendNetwork, ResumeNetwork, vars, fileVars
<1>7. QED
    BY <1>1, <1>2, <1>3, <1>4, <1>5, <1>6 DEF Next, PollPass

\* handle_pers_file_xfers marks an upload only when the server holds it or
\* an error is recorded, whatever answers were lost before.
THEOREM UploadsSettled == Spec => UploadedOnlyWhenSettled
<1>1. TransferInv /\ UploadInv /\ [Next]_vars =>
        [\A f \in Outputs :
            Up /\ ~uploaded[f] /\ uploaded'[f] =>
                srv[f] = "all" \/ had_failure(status[f])]_vars
    BY SettledStep
<1>2. QED
    BY <1>1, UploadInvariant, PTL DEF Spec, UploadedOnlyWhenSettled

-----------------------------------------------------------------------------
(***************************************************************************)
(* The limits on running transfers.                                        *)
(***************************************************************************)
\* Fewer transfers keep the limits.
LEMMA FewerKeepLimits ==
    ASSUME LimitsInv, active' \subseteq active
    PROVE  LimitsInv'
<1> DEFINE Way(f) == {g \in active : (g \in Outputs) = (f \in Outputs)}
           Own(f) == {g \in Way(f) : ProjectOf[g] = ProjectOf[f]}
           WayN(f) == {g \in active' : (g \in Outputs) = (f \in Outputs)}
           OwnN(f) == {g \in WayN(f) : ProjectOf[g] = ProjectOf[f]}
<1>1. IsFiniteSet(active) /\ IsFiniteSet(active')
    BY FS_Subset DEF LimitsInv
<1>2. ASSUME NEW f \in active'
      PROVE  Cardinality(WayN(f)) <= MaxTotal /\ Cardinality(OwnN(f)) <= MaxPerProject
    <2>1. WayN(f) \subseteq Way(f) /\ OwnN(f) \subseteq Own(f)
        OBVIOUS
    <2>2. Way(f) \subseteq active /\ Own(f) \subseteq active
        OBVIOUS
    <2>3. IsFiniteSet(Way(f)) /\ IsFiniteSet(Own(f))
        BY <1>1, <2>2, FS_Subset
    <2>4. /\ Cardinality(WayN(f)) <= Cardinality(Way(f))
          /\ Cardinality(OwnN(f)) <= Cardinality(Own(f))
        BY <2>1, <2>3, FS_Subset
    <2>5. f \in active
        OBVIOUS
    <2>6. Cardinality(Way(f)) <= MaxTotal /\ Cardinality(Own(f)) <= MaxPerProject
        BY <2>5 DEF LimitsInv, LimitsRespected
    <2>7. /\ Cardinality(WayN(f)) \in Nat /\ Cardinality(Way(f)) \in Nat
          /\ Cardinality(OwnN(f)) \in Nat /\ Cardinality(Own(f)) \in Nat
        BY <2>1, <2>3, FS_Subset, FS_CardinalityType
    <2> HIDE DEF Way, Own, WayN, OwnN
    <2>8. QED
        BY <2>4, <2>6, <2>7, LimitsAssumption
<1>3. LimitsRespected'
    BY <1>2 DEF LimitsRespected
<1>4. QED
    BY <1>1, <1>3 DEF LimitsInv

\* One more element counts one more at most.
LEMMA OneMore ==
    ASSUME NEW S, IsFiniteSet(S), NEW x, NEW T, T \subseteq S \cup {x},
           NEW n \in Nat, Cardinality(S) < n
    PROVE  Cardinality(T) <= n
<1>1. /\ IsFiniteSet(S \cup {x})
      /\ Cardinality(S \cup {x}) <= Cardinality(S) + 1
    <2>1. IsFiniteSet(S \cup {x})
          /\ Cardinality(S \cup {x}) = IF x \in S THEN Cardinality(S) ELSE Cardinality(S) + 1
        BY FS_AddElement
    <2>2. Cardinality(S) \in Nat
        BY FS_CardinalityType
    <2>3. QED
        BY <2>1, <2>2
<1>2. Cardinality(T) <= Cardinality(S \cup {x}) /\ IsFiniteSet(T)
    BY <1>1, FS_Subset
<1>3. /\ Cardinality(T) \in Nat /\ Cardinality(S) \in Nat
      /\ Cardinality(S \cup {x}) \in Nat
    BY <1>1, <1>2, FS_CardinalityType
<1>4. QED
    BY <1>1, <1>2, <1>3

\* A transfer that start_new_file_xfer lets start keeps the limits.
LEMMA StartKeepsLimits ==
    ASSUME LimitsInv, NEW f \in Files, start_new_file_xfer(f),
           active' = active \cup {f}
    PROVE  LimitsInv'
<1> DEFINE Way(g) == {h \in active : (h \in Outputs) = (g \in Outputs)}
           Own(g) == {h \in Way(g) : ProjectOf[h] = ProjectOf[g]}
           WayN(g) == {h \in active' : (h \in Outputs) = (g \in Outputs)}
           OwnN(g) == {h \in WayN(g) : ProjectOf[h] = ProjectOf[g]}
<1>1. IsFiniteSet(active) /\ IsFiniteSet(active')
    BY FS_AddElement DEF LimitsInv
<1>2. Cardinality(Own(f)) < MaxPerProject /\ Cardinality(Way(f)) < MaxTotal
    BY DEF start_new_file_xfer
<1>3. MaxPerProject \in Nat /\ MaxTotal \in Nat
    BY LimitsAssumption
<1>4. ASSUME NEW g \in active'
      PROVE  Cardinality(WayN(g)) <= MaxTotal
    <2>1. CASE (g \in Outputs) = (f \in Outputs)
        <3>1. WayN(g) \subseteq Way(f) \cup {f}
            BY <2>1
        <3>2. IsFiniteSet(Way(f))
            BY <1>1, FS_Subset
        <3> HIDE DEF Way, WayN
        <3>3. QED
            BY <1>2, <1>3, <3>1, <3>2, OneMore
    <2>2. CASE (g \in Outputs) # (f \in Outputs)
        <3>1. WayN(g) = Way(g) /\ g \in active
            BY <2>2
        <3>2. QED
            BY <3>1 DEF LimitsInv, LimitsRespected
    <2>3. QED
        BY <2>1, <2>2
<1>5. ASSUME NEW g \in active'
      PROVE  Cardinality(OwnN(g)) <= MaxPerProject
    <2>1. CASE (g \in Outputs) = (f \in Outputs) /\ ProjectOf[g] = ProjectOf[f]
        <3>1. OwnN(g) \subseteq Own(f) \cup {f}
            BY <2>1
        <3>2. IsFiniteSet(Own(f))
            BY <1>1, FS_Subset
        <3> HIDE DEF Own, OwnN
        <3>3. QED
            BY <1>2, <1>3, <3>1, <3>2, OneMore
    <2>2. CASE ~((g \in Outputs) = (f \in Outputs) /\ ProjectOf[g] = ProjectOf[f])
        <3>1. OwnN(g) = Own(g) /\ g \in active
            BY <2>2
        <3>2. QED
            BY <3>1 DEF LimitsInv, LimitsRespected
    <2>3. QED
        BY <2>1, <2>2
<1>6. LimitsRespected'
    BY <1>4, <1>5 DEF LimitsRespected
<1>7. QED
    BY <1>1, <1>6 DEF LimitsInv

\* Only create_xfer adds to the set of running transfers.
LEMMA LimitsInvNext == LimitsInv /\ [Next]_vars => LimitsInv'
<1> SUFFICES ASSUME LimitsInv, [Next]_vars PROVE LimitsInv'
    OBVIOUS
<1>1. ASSUME NEW f \in Files, PersPollStart(f) PROVE LimitsInv'
    BY <1>1, StartKeepsLimits DEF PersPollStart, MustTransfer, ReadyToCreate
<1>2. ASSUME NEW f \in Files, PersPoll(f), ~PersPollStart(f)
      PROVE  active' \subseteq active
    BY <1>2 DEF PersPoll, PersPollSkip, PersPollExists, PersPollStartFails,
           PersPollSuccess, PersPollPermanent, PersPollTransient, Fail
<1>3. ASSUME NEW f \in Files,
             \/ FileXferPoll(f) \/ HttpProgress(f) \/ HttpDone(f) \/ AppFinished(f)
             \/ FileNeeded(f) \/ ClearErrors(f) \/ RetryTransfer(f)
             \/ AbortTransfer(f) \/ Vanish(f)
      PROVE  active' \subseteq active
    BY <1>3 DEF FileXferPoll, HttpProgress, HttpDone, AppFinished, FileNeeded,
                ClearErrors, RetryTransfer, AbortTransfer, Vanish, fileVars
<1>4. ASSUME \/ BeginPoll \/ EndFileXferPoll \/ EndPersPoll \/ handle_pers_file_xfers
             \/ WriteState \/ Tick \/ SuspendNetwork \/ ResumeNetwork
             \/ Crash \/ Restart \/ UNCHANGED vars
      PROVE  active' \subseteq active
    BY <1>4 DEF BeginPoll, EndFileXferPoll, EndPersPoll, handle_pers_file_xfers,
                WriteState, Tick, SuspendNetwork, ResumeNetwork, Crash, Restart,
                vars, fileVars
<1>5. QED
    BY <1>1, <1>2, <1>3, <1>4, FewerKeepLimits DEF Next, PollPass

\* The number of running transfers stays within max_file_xfers and
\* max_file_xfers_per_project in each direction, for any limits.
THEOREM TransferLimits == Spec => []LimitsRespected
<1>1. Init => LimitsInv
    BY FS_EmptySet DEF Init, LimitsInv, LimitsRespected
<1>2. LimitsInv => LimitsRespected
    BY DEF LimitsInv
<1>3. QED
    BY <1>1, <1>2, LimitsInvNext, PTL DEF Spec
=============================================================================
