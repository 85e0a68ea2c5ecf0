------------------------------ MODULE FileXfer ------------------------------
(***************************************************************************)
(* Persistent file transfers of the client: PERS_FILE_XFER (retry policy), *)
(* FILE_XFER (one HTTP attempt), their two sets, the FILE_INFO fields they *)
(* drive, and CLIENT_STATE::handle_pers_file_xfers.                        *)
(*                                                                         *)
(* The client is one thread.  Each pass of poll_slow_events runs           *)
(* file_xfers->poll, pers_file_xfers->poll, handle_pers_file_xfers and     *)
(* write_state_file_if_needed in this order; HTTP completions, GUI RPCs    *)
(* and the passing of time happen between passes ("idle").  A crash can    *)
(* come anywhere, and restores what the last written state file holds.     *)
(*                                                                         *)
(* Times are kept relative (remaining backoff, age of the transfer), so    *)
(* that the state space is finite without bounding the length of a         *)
(* behaviour.                                                              *)
(***************************************************************************)
EXTENDS Naturals, FiniteSets, Backoff

CONSTANTS
    Files,          \* FILE_INFOs known to the client
    Outputs,        \* generated_locally and upload_when_present: uploaded
    Sticky,         \* files with the sticky flag
    Signed,         \* files with signature_required
    NoSignature,    \* of these, the ones whose file_signature is empty
    Hashed,         \* files with an md5_cksum
    Unsized,        \* nbytes is 0, or config.dont_check_file_sizes is set
    Images,         \* image files, where dont_verify_images is set
    ProjectOf,      \* project of each file
    NumUrls,        \* number of URLs of each file, all of the right type
    MaxPerProject,  \* config.max_file_xfers_per_project
    MaxTotal,       \* config.max_file_xfers
    GiveUp,         \* file_xfer_giveup_period, in ticks
    RetryMin,       \* pers_retry_delay_min, in ticks
    RetryMax,       \* pers_retry_delay_max, in ticks
    MaxRetry,       \* bound: nretry saturates here (RetryMax is reached)
    MaxFaults       \* bound: crashes, suspensions, replies that clear errors

ASSUME FilesAssumption ==
    /\ Outputs \subseteq Files
    /\ Sticky \subseteq Files
    /\ Signed \subseteq Files \ Outputs
    /\ NoSignature \subseteq Signed
    /\ Hashed \subseteq Files /\ Unsized \subseteq Files /\ Images \subseteq Files
ASSUME LimitsAssumption ==
    /\ NumUrls \in Nat \ {0}
    /\ MaxPerProject \in Nat /\ MaxTotal \in Nat
    /\ GiveUp \in Nat
    /\ RetryMin \in Nat \ {0} /\ RetryMax \in Nat
    /\ RetryMin <= RetryMax
    /\ MaxRetry \in Nat /\ MaxFaults \in Nat

Downloads == Files \ Outputs

(***************************************************************************)
(* FILE_INFO.status: three regular values, or an error code.               *)
(***************************************************************************)
Errors == {"NOT_FOUND", "UPLOAD_PERMANENT", "TIMEOUT", "ABORTED_VIA_GUI",
           "FILE_MISSING", "WRONG_SIZE", "BAD_CONTENTS"}
Statuses == {"NOT_PRESENT", "PRESENT", "NOT_NEEDED"} \cup Errors

had_failure(status) == status \in Errors

(***************************************************************************)
(* What the server or libcurl answers to an HTTP request.  "ok_all" is the *)
(* answer to a file size query that names a size of at least nbytes;       *)
(* "perm" and "trans" are upload handler statuses -1 and 1.                *)
(***************************************************************************)
DownloadAnswers == {"ok", "not_found", "range", "error"}
DataAnswers     == {"ok", "perm", "trans", "not_found", "error"}
QueryAnswers    == DataAnswers \cup {"ok_all"}
Answers         == DownloadAnswers \cup QueryAnswers

\* Mutant of XferRetval: an HTTP error passes for success.
XferRetval_lenient(a) ==
    IF a \in {"ok", "ok_all", "range", "error"} THEN "ok" ELSE a

\* HTTP_OP::handle_messages and parse_upload_response: the retval of the
\* transfer.  Every HTTP error but 404 becomes ERR_HTTP_ERROR, 416 included.
XferRetval(a) ==
    CASE a \in {"ok", "ok_all"}     -> "ok"
      [] a \in {"range", "error"}   -> "error"
      [] OTHER                      -> a

(***************************************************************************)
(* A PERS_FILE_XFER: "none" is a NULL fip->pers_file_xfer.  wait is        *)
(* next_request_time - now, age is now - first_request_time (it stops at   *)
(* GiveUp + 1, the first value that is too old).                           *)
(***************************************************************************)
PersXfer == [st : {"none", "active", "done"}, nretry : 0..MaxRetry,
             wait : 0..RetryMax, age : 0..(GiveUp + 1)]
NoPers   == [st |-> "none", nretry |-> 0, wait |-> 0, age |-> 0]
NewPers  == [NoPers EXCEPT !.st = "active"]

(***************************************************************************)
(* A FILE_XFER: "busy" while libcurl works, "http" when http_op_done() but *)
(* not yet seen by FILE_XFER_SET::poll, "done" when file_xfer_done.        *)
(***************************************************************************)
Xfer     == [st : {"none", "busy", "http", "done"}, query : BOOLEAN,
             ans : Answers]
NoXfer   == [st |-> "none", query |-> FALSE, ans |-> "ok"]

VARIABLES
    status,     \* FILE_INFO.status
    uploaded,   \* FILE_INFO.uploaded
    cur,        \* FILE_INFO.current_url (start_url is 0)
    pers,       \* FILE_INFO.pers_file_xfer
    xfer,       \* PERS_FILE_XFER.fxp
    active,     \* FILE_XFER_SET.file_xfers
    produced,   \* the application has written the output file
    disk,       \* the local file: absent, of size 0, incomplete, right, wrong
    srv,        \* what the project's server holds of an output file
    suspended,  \* network_suspended
    phase,      \* where the poll pass is
    todo,       \* files the current loop has still to visit
    dirty,      \* client_state_dirty
    saved,      \* contents of client_state.xml
    client,     \* "up", "down" (crashed) or "segv" (NULL dereference)
    faults,     \* crashes, suspensions and cleared errors so far
    dropped     \* history: ended by the user, or given up before it could start

fileVars == <<status, uploaded, cur, pers, xfer, active, produced>>
extVars  == <<disk, srv>>
loopVars == <<phase, todo>>
procVars == <<client, faults, dropped>>
vars     == <<fileVars, extVars, suspended, loopVars, dirty, saved, procVars>>

SavedState == [status : [Files -> Statuses], uploaded : [Files -> BOOLEAN],
               produced : [Files -> BOOLEAN], pers : [Files -> PersXfer]]

\* The part of memory that write_state_file puts in client_state.xml.
Memory == [status |-> status, uploaded |-> uploaded, produced |-> produced,
           pers |-> pers]

Up == client = "up"
Idle == Up /\ phase = "idle"

Init ==
    /\ status = [f \in Files |-> "NOT_PRESENT"]
    /\ uploaded = [f \in Files |-> FALSE]
    /\ cur = [f \in Files |-> 0]
    /\ pers = [f \in Files |-> NoPers]
    /\ xfer = [f \in Files |-> NoXfer]
    /\ active = {}
    /\ produced = [f \in Files |-> FALSE]
    /\ disk = [f \in Files |-> "none"]
    /\ srv = [f \in Files |-> "none"]
    /\ suspended = FALSE
    /\ phase = "idle" /\ todo = {}
    /\ dirty = FALSE
    /\ saved = Memory
    /\ client = "up" /\ faults = 0
    /\ dropped = {}

-----------------------------------------------------------------------------
(***************************************************************************)
(* Decisions of the code.                                                  *)
(***************************************************************************)

\* Mutant of start_new_file_xfer: the limits are off by one.
start_new_file_xfer_off_by_one(f) ==
    LET sameWay == {g \in active : (g \in Outputs) = (f \in Outputs)}
    IN  /\ ~suspended
        /\ Cardinality({g \in sameWay : ProjectOf[g] = ProjectOf[f]}) <= MaxPerProject
        /\ Cardinality(sameWay) <= MaxTotal

\* CLIENT_STATE::start_new_file_xfer: limits count one direction only.
start_new_file_xfer(f) ==
    LET sameWay == {g \in active : (g \in Outputs) = (f \in Outputs)}
        sameProject == {g \in sameWay : ProjectOf[g] = ProjectOf[f]}
    IN  /\ ~suspended
        /\ Cardinality(sameProject) < MaxPerProject
        /\ Cardinality(sameWay) < MaxTotal

\* FILE_INFO::verify_file(true, show_errors): "ok" or the error code.  A
\* signature that does not verify counts only when show_errors is set.
verify_file(f, show_errors) ==
    IF disk[f] = "none" THEN "FILE_MISSING"
    ELSE IF f \in Images /\ disk[f] # "empty" THEN "ok"
    ELSE IF disk[f] \in {"empty", "part"} /\ f \notin Unsized THEN "WRONG_SIZE"
    ELSE IF \/ f \in NoSignature
            \/ f \in Signed /\ disk[f] # "good" /\ show_errors
            \/ f \in Hashed \ Signed /\ disk[f] # "good"
         THEN "BAD_CONTENTS"
    ELSE "ok"

Older(p) ==
    IF p.st = "none" THEN p
    ELSE [p EXCEPT !.wait = IF @ = 0 THEN 0 ELSE @ - 1,
                   !.age = IF @ > GiveUp THEN @ ELSE @ + 1]

\* Mutant of next_url: no wrap-around.
next_url_past_end(f) == cur[f] + 1

\* FILE_INFO::get_next_url returned NULL: the cycle is back at start_url.
next_url(f) == (cur[f] + 1) % NumUrls

\* PERS_FILE_XFER::do_backoff.  nretry does not grow while the network is
\* known to be down (need_physical_connection).
do_backoff(p) ==
    LET more == IF p.nretry < MaxRetry THEN p.nretry + 1 ELSE MaxRetry
    IN  UNION {{[p EXCEPT !.nretry = n, !.wait = d] :
                      d \in calculate_exponential_backoff(n, RetryMin, RetryMax)} :
               n \in {p.nretry, more}}

\* Mutant of transient_failure: it never gives up.
transient_failure_for_ever(f, p, st) ==
    {[status |-> st, pers |-> b, segv |-> FALSE] :
        b \in IF next_url(f) # 0 THEN {p} ELSE do_backoff(p)}

\* PERS_FILE_XFER::transient_failure.  Giving up does not return: with
\* another URL left, start_xfer then runs on the FILE_XFER just deleted.
transient_failure(f, p, st) ==
    LET tooOld == p.age > GiveUp
        q == IF tooOld THEN [p EXCEPT !.st = "done"] ELSE p
        s == IF tooOld THEN "TIMEOUT" ELSE st
    IN  IF next_url(f) # 0
        THEN {[status |-> s, pers |-> q, segv |-> tooOld]}
        ELSE {[status |-> s, pers |-> b, segv |-> FALSE] : b \in do_backoff(q)}

-----------------------------------------------------------------------------
(***************************************************************************)
(* Between two passes: the network, the server, the application, the user. *)
(***************************************************************************)

\* libcurl_write: bytes of a running download reach the disk, a complete
\* file or an incomplete one, with the right contents or not.
HttpProgress(f) ==
    /\ Idle /\ f \in active \ Outputs /\ xfer[f].st = "busy"
    /\ \E d \in {"part", "good", "bad"} : disk' = [disk EXCEPT ![f] = d]
    /\ UNCHANGED <<fileVars, srv, suspended, loopVars, dirty, saved, procVars>>

\* What the server may hold after an upload request with answer a: an
\* answer of success means all of it, a lost answer may mean anything more.
ServerAfter(f, a) ==
    CASE xfer[f].query -> {srv[f]}
      [] ~xfer[f].query /\ a = "ok" -> {"all"}
      [] OTHER -> CASE srv[f] = "none" -> {"none", "part", "all"}
                    [] srv[f] = "part" -> {"part", "all"}
                    [] OTHER -> {"all"}

\* Possible answers: a query is answered with the size the server holds,
\* and a bad range needs a resumed download.
AnswersTo(f) ==
    CASE f \notin Outputs -> DownloadAnswers
      [] xfer[f].query -> (QueryAnswers \ {"ok", "ok_all"})
                          \cup {IF srv[f] = "all" THEN "ok_all" ELSE "ok"}
      [] OTHER -> DataAnswers

\* HTTP_OP_SET::got_select, HTTP_OP::handle_messages: the operation is over.
HttpDone(f) ==
    /\ Idle /\ f \in active /\ xfer[f].st = "busy"
    /\ \E a \in AnswersTo(f) :
        /\ xfer' = [xfer EXCEPT ![f] = [@ EXCEPT !.st = "http", !.ans = a]]
        /\ \E k \in ServerAfter(f, a) : srv' = [srv EXCEPT ![f] = k]
    /\ UNCHANGED <<status, uploaded, cur, pers, active, produced, disk,
                   suspended, loopVars, dirty, saved, procVars>>

\* CLIENT_STATE::handle_finished_apps, app_finished on an output file: late
\* in the pass, after handle_pers_file_xfers.
AppFinished(f) ==
    /\ Up /\ phase = "write" /\ f \in Outputs /\ ~produced[f]
    /\ produced' = [produced EXCEPT ![f] = TRUE]
    /\ disk' = [disk EXCEPT ![f] = "good"]
    /\ status' = [status EXCEPT ![f] = "PRESENT"]
    /\ dirty' = TRUE
    /\ UNCHANGED <<uploaded, cur, pers, xfer, active, srv, suspended,
                   loopVars, saved, procVars>>

\* CLIENT_STATE::update_results: a result waits for a file that was not
\* needed before.
FileNeeded(f) ==
    /\ Idle /\ status[f] = "NOT_NEEDED"
    /\ status' = [status EXCEPT ![f] = "NOT_PRESENT"]
    /\ UNCHANGED <<uploaded, cur, pers, xfer, active, produced, extVars,
                   suspended, loopVars, dirty, saved, procVars>>

\* handle_scheduler_reply names the app version again, or a new workunit
\* with the file as input: clear_errors and FILE_INFO::reset, whose delete
\* may fail.  It comes after handle_pers_file_xfers, or in a pass in which
\* that function skips its turn, so the transfer that failed may be there.
ClearErrors(f) ==
    /\ Up /\ phase \in {"idle", "write"} /\ ~suspended
    /\ f \notin Outputs /\ had_failure(status[f]) /\ faults < MaxFaults
    /\ faults' = faults + 1
    /\ status' = [status EXCEPT ![f] = "NOT_PRESENT"]
    /\ disk' \in {disk, [disk EXCEPT ![f] = "none"]}
    /\ dirty' = TRUE
    /\ UNCHANGED <<uploaded, cur, pers, xfer, active, produced, srv,
                   suspended, loopVars, saved, client, dropped>>

\* GUI RPC retry_file_transfer.
RetryTransfer(f) ==
    /\ Idle /\ pers[f].st # "none"
    /\ pers' = [pers EXCEPT ![f].wait = 0]
    /\ dirty' = TRUE
    /\ UNCHANGED <<status, uploaded, cur, xfer, active, produced, extVars,
                   suspended, loopVars, saved, procVars>>

\* Mutant of AbortTransfer: the FILE_XFER stays in the set.
AbortTransfer_keeps_xfer(f) ==
    /\ Idle /\ pers[f].st # "none"
    /\ pers' = [pers EXCEPT ![f].st = "done"]
    /\ status' = [status EXCEPT ![f] = "ABORTED_VIA_GUI"]
    /\ dirty' = TRUE
    /\ dropped' = dropped \cup {f}
    /\ UNCHANGED <<uploaded, cur, xfer, active, produced, extVars, suspended,
                   loopVars, saved, client, faults>>

\* GUI RPC abort_file_transfer: PERS_FILE_XFER::abort.
AbortTransfer(f) ==
    /\ Idle /\ pers[f].st # "none"
    /\ pers' = [pers EXCEPT ![f].st = "done"]
    /\ xfer' = [xfer EXCEPT ![f] = NoXfer]
    /\ active' = active \ {f}
    /\ status' = [status EXCEPT ![f] = "ABORTED_VIA_GUI"]
    /\ dirty' = TRUE
    /\ dropped' = dropped \cup {f}
    /\ UNCHANGED <<uploaded, cur, produced, extVars, suspended, loopVars,
                   saved, client, faults>>

\* CLIENT_STATE::suspend_network: PERS_FILE_XFER_SET::suspend kills every
\* running FILE_XFER; the PERS_FILE_XFERs stay.
SuspendNetwork ==
    /\ Idle /\ ~suspended /\ faults < MaxFaults
    /\ suspended' = TRUE
    /\ xfer' = [f \in Files |-> NoXfer]
    /\ active' = {}
    /\ faults' = faults + 1
    /\ UNCHANGED <<status, uploaded, cur, pers, produced, extVars, loopVars,
                   dirty, saved, client, dropped>>

ResumeNetwork ==
    /\ Idle /\ suspended
    /\ suspended' = FALSE
    /\ UNCHANGED <<fileVars, extVars, loopVars, dirty, saved, procVars>>

\* Time passes, for the state file's time stamps too.
Tick ==
    /\ Idle \/ ~Up
    /\ pers' = IF Up THEN [f \in Files |-> Older(pers[f])] ELSE pers
    /\ saved' = [saved EXCEPT !.pers = [f \in Files |-> Older(saved.pers[f])]]
    /\ UNCHANGED <<status, uploaded, cur, xfer, active, produced, extVars,
                   suspended, loopVars, dirty, procVars>>

-----------------------------------------------------------------------------
(***************************************************************************)
(* One pass of poll_slow_events.                                           *)
(***************************************************************************)

\* A suspended network skips the three transfer functions.
BeginPoll ==
    /\ Idle
    /\ phase' = IF suspended THEN "write" ELSE "xfers"
    /\ todo' = IF suspended THEN {} ELSE {f \in active : xfer[f].st = "http"}
    /\ UNCHANGED <<fileVars, extVars, suspended, dirty, saved, procVars>>

\* FILE_XFER_SET::poll, one finished download: an HTTP error truncates the
\* file to what earlier attempts left, since this one may be an error page.
PollDownload(f) ==
    /\ xfer' = [xfer EXCEPT ![f].st = "done"]
    /\ IF XferRetval(xfer[f].ans) # "ok" /\ disk[f] # "none"
       THEN \E d \in {"empty", "part"} : disk' = [disk EXCEPT ![f] = d]
       ELSE disk' = disk

\* FILE_XFER_SET::poll, one finished upload request.  After a size query
\* the same FILE_XFER goes on with the data, unless the server has it all;
\* init_upload fails when the file is gone or libcurl cannot start.
PollUpload(f) ==
    /\ disk' = disk
    /\ IF xfer[f].query /\ xfer[f].ans = "ok"
       THEN \/ /\ disk[f] # "none"
               /\ xfer' = [xfer EXCEPT ![f] = [st |-> "busy", query |-> FALSE,
                                               ans |-> "ok"]]
            \/ xfer' = [xfer EXCEPT ![f] = [st |-> "done", query |-> FALSE,
                                            ans |-> IF disk[f] = "none"
                                                    THEN "not_found"
                                                    ELSE "error"]]
       ELSE xfer' = [xfer EXCEPT ![f].st = "done"]

FileXferPoll(f) ==
    /\ Up /\ phase = "xfers" /\ f \in todo
    /\ IF f \in Outputs THEN PollUpload(f) ELSE PollDownload(f)
    /\ todo' = todo \ {f}
    /\ UNCHANGED <<status, uploaded, cur, pers, active, produced, srv,
                   suspended, phase, dirty, saved, procVars>>

EndFileXferPoll ==
    /\ Up /\ phase = "xfers" /\ todo = {}
    /\ phase' = "pers"
    /\ todo' = {f \in Files : pers[f].st # "none"}
    /\ UNCHANGED <<fileVars, extVars, suspended, dirty, saved, procVars>>

\* PERS_FILE_XFER::poll when there is no FILE_XFER and the wait is over, or
\* when the FILE_XFER has ended.
ReadyToCreate(f) ==
    /\ pers[f].st = "active" /\ xfer[f].st = "none" /\ pers[f].wait = 0
    /\ start_new_file_xfer(f)
Ended(f) == pers[f].st = "active" /\ xfer[f].st = "done"

InPersPoll(f) ==
    /\ Up /\ phase = "pers" /\ f \in todo
    /\ todo' = todo \ {f}
    /\ UNCHANGED <<uploaded, produced, srv, suspended, phase, saved, faults>>

\* Nothing to do for this transfer now.
PersPollSkip(f) ==
    /\ InPersPoll(f)
    /\ ~ReadyToCreate(f) /\ ~Ended(f)
    /\ UNCHANGED <<status, cur, pers, xfer, active, disk, dirty, client, dropped>>

\* create_xfer: the file is already there and valid.
PersPollExists(f) ==
    /\ InPersPoll(f)
    /\ ReadyToCreate(f) /\ f \notin Outputs /\ verify_file(f, FALSE) = "ok"
    /\ status' = [status EXCEPT ![f] = "PRESENT"]
    /\ pers' = [pers EXCEPT ![f].st = "done"]
    /\ dirty' = TRUE
    /\ UNCHANGED <<cur, xfer, active, disk, client, dropped>>

\* create_xfer has to transfer: verify_file failed, or it is an upload.
MustTransfer(f) ==
    ReadyToCreate(f) /\ (f \in Outputs \/ verify_file(f, FALSE) # "ok")

\* init_download opens the local file, to append to what is there.
Opened(f) ==
    IF f \in Outputs THEN disk
    ELSE [disk EXCEPT ![f] = IF @ \in {"none", "empty"} THEN "empty" ELSE "part"]

\* create_xfer starts a FILE_XFER: a size query for an upload, for a
\* download a GET.
PersPollStart(f) ==
    /\ InPersPoll(f)
    /\ MustTransfer(f)
    /\ xfer' = [xfer EXCEPT ![f] = [st |-> "busy", query |-> f \in Outputs,
                                    ans |-> "ok"]]
    /\ active' = active \cup {f}
    /\ status' = IF f \in Outputs THEN status
                 ELSE [status EXCEPT ![f] = "NOT_PRESENT"]
    /\ disk' = Opened(f)
    /\ dirty' = TRUE
    /\ UNCHANGED <<cur, pers, client, dropped>>

\* The end of an attempt of f: out of the set, deleted, and what
\* transient_failure decides.
Fail(f, st) ==
    /\ xfer' = [xfer EXCEPT ![f] = NoXfer]
    /\ active' = active \ {f}
    /\ cur' = [cur EXCEPT ![f] = next_url(f)]
    /\ \E o \in transient_failure(f, pers[f], st) :
        /\ status' = [status EXCEPT ![f] = o.status]
        /\ pers' = [pers EXCEPT ![f] = o.pers]
        /\ client' = IF o.segv THEN "segv" ELSE client

\* create_xfer could not start the FILE_XFER; poll() returns false.
PersPollStartFails(f) ==
    /\ InPersPoll(f)
    /\ MustTransfer(f)
    /\ Fail(f, IF f \in Outputs THEN status[f] ELSE "NOT_PRESENT")
    /\ disk' \in {disk, Opened(f)}
    /\ dropped' = IF pers'[f].st = "done" THEN dropped \cup {f} ELSE dropped
    /\ UNCHANGED dirty

\* The FILE_XFER ended with retval 0.
PersPollSuccess(f) ==
    /\ InPersPoll(f)
    /\ Ended(f) /\ XferRetval(xfer[f].ans) = "ok"
    /\ pers' = [pers EXCEPT ![f].st = "done"]
    /\ xfer' = [xfer EXCEPT ![f] = NoXfer]
    /\ active' = active \ {f}
    /\ dirty' = TRUE
    /\ UNCHANGED <<status, cur, disk, client, dropped>>

\* permanent_failure: the upload handler's status -1, or a download's 404.
Permanent(f) ==
    \/ XferRetval(xfer[f].ans) = "perm"
    \/ XferRetval(xfer[f].ans) = "not_found" /\ f \notin Outputs

PersPollPermanent(f) ==
    /\ InPersPoll(f)
    /\ Ended(f) /\ Permanent(f)
    /\ status' = [status EXCEPT ![f] = IF f \in Outputs
                                       THEN "UPLOAD_PERMANENT"
                                       ELSE "NOT_FOUND"]
    /\ pers' = [pers EXCEPT ![f].st = "done"]
    /\ xfer' = [xfer EXCEPT ![f] = NoXfer]
    /\ active' = active \ {f}
    /\ dirty' = TRUE
    /\ UNCHANGED <<cur, disk, client, dropped>>

\* Any other retval: transient_failure.
PersPollTransient(f) ==
    /\ InPersPoll(f)
    /\ Ended(f) /\ XferRetval(xfer[f].ans) # "ok" /\ ~Permanent(f)
    /\ Fail(f, status[f])
    /\ dirty' = TRUE
    /\ UNCHANGED <<disk, dropped>>

\* PERS_FILE_XFER::poll.
PersPoll(f) ==
    \/ PersPollSkip(f)
    \/ PersPollExists(f)
    \/ PersPollStart(f)
    \/ PersPollStartFails(f)
    \/ PersPollSuccess(f)
    \/ PersPollPermanent(f)
    \/ PersPollTransient(f)

EndPersPoll ==
    /\ Up /\ phase = "pers" /\ todo = {}
    /\ phase' = "handle"
    /\ UNCHANGED <<fileVars, extVars, suspended, todo, dirty, saved, procVars>>

(***************************************************************************)
(* CLIENT_STATE::handle_pers_file_xfers: make the missing PERS_FILE_XFERs, *)
(* then handle and delete the finished ones.                               *)
(***************************************************************************)
WantsTransfer(f) ==
    \/ f \notin Outputs /\ status[f] = "NOT_PRESENT"
    \/ f \in Outputs /\ status[f] = "PRESENT" /\ ~uploaded[f]

\* Mutants of FinishedStatus: a download is not verified, or is called
\* present although its transfer failed.
FinishedStatus_unverified(f) ==
    CASE f \in Outputs -> IF f \in Sticky THEN status[f] ELSE "NOT_PRESENT"
      [] f \notin Outputs /\ had_failure(status[f]) -> status[f]
      [] OTHER -> "PRESENT"
FinishedStatus_forgets_failure(f) ==
    CASE f \in Outputs -> IF f \in Sticky THEN status[f] ELSE "NOT_PRESENT"
      [] OTHER -> IF verify_file(f, TRUE) = "ok" THEN "PRESENT"
                  ELSE verify_file(f, TRUE)

\* A finished upload is marked as uploaded and its file deleted, whatever
\* its outcome; a finished download is verified unless it failed.
FinishedStatus(f) ==
    CASE f \in Outputs -> IF f \in Sticky THEN status[f] ELSE "NOT_PRESENT"
      [] f \notin Outputs /\ had_failure(status[f]) -> status[f]
      [] OTHER -> IF verify_file(f, TRUE) = "ok" THEN "PRESENT"
                  ELSE verify_file(f, TRUE)

handle_pers_file_xfers ==
    LET new == {f \in Files : pers[f].st = "none" /\ WantsTransfer(f)}
        done == {f \in Files : pers[f].st = "done"}
    IN  /\ Up /\ phase = "handle"
        /\ pers' = [f \in Files |-> IF f \in new THEN NewPers
                                    ELSE IF f \in done THEN NoPers
                                    ELSE pers[f]]
        /\ cur' = [f \in Files |-> IF f \in new THEN 0 ELSE cur[f]]
        /\ status' = [f \in Files |-> IF f \in done THEN FinishedStatus(f)
                                      ELSE status[f]]
        /\ uploaded' = [f \in Files |-> \/ uploaded[f]
                                        \/ f \in done \cap Outputs]
        /\ disk' = [f \in Files |-> IF f \in (done \cap Outputs) \ Sticky
                                    THEN "none" ELSE disk[f]]
        /\ phase' = "write"
        /\ UNCHANGED <<xfer, active, produced, srv, suspended, todo, dirty,
                       saved, procVars>>

\* CLIENT_STATE::write_state_file_if_needed.  Other parts of the client may
\* have set client_state_dirty too.
WriteState ==
    /\ Up /\ phase = "write"
    /\ saved' \in IF dirty THEN {Memory} ELSE {saved, Memory}
    /\ dirty' = FALSE
    /\ phase' = "idle"
    /\ UNCHANGED <<fileVars, extVars, suspended, todo, procVars>>

-----------------------------------------------------------------------------
(***************************************************************************)
(* Crash and restart.                                                      *)
(***************************************************************************)
\* Memory is lost; the files, the state file and the server are not.
Crash ==
    /\ Up /\ faults < MaxFaults
    /\ client' = "down" /\ faults' = faults + 1
    /\ status' = [f \in Files |-> "NOT_PRESENT"]
    /\ uploaded' = [f \in Files |-> FALSE]
    /\ cur' = [f \in Files |-> 0]
    /\ pers' = [f \in Files |-> NoPers]
    /\ xfer' = [f \in Files |-> NoXfer]
    /\ active' = {}
    /\ produced' = [f \in Files |-> FALSE]
    /\ suspended' = FALSE
    /\ phase' = "idle" /\ todo' = {}
    /\ dirty' = FALSE
    /\ UNCHANGED <<extVars, saved, dropped>>

\* While the client is down an input file may be removed.
Vanish(f) ==
    /\ client = "down" /\ f \notin Outputs /\ disk[f] # "none"
    /\ disk' = [disk EXCEPT ![f] = "none"]
    /\ UNCHANGED <<fileVars, srv, suspended, loopVars, dirty, saved, procVars>>

\* Mutants of Restored: failed files are retried; an upload whose file has
\* been deleted is forgotten.
Restored_with_failed(f) ==
    IF saved.pers[f].st = "none" THEN NoPers
    ELSE [saved.pers[f] EXCEPT !.st = "active"]
Restored_if_file_exists(f) ==
    IF saved.pers[f].st = "none" \/ had_failure(saved.status[f]) \/ disk[f] = "none"
    THEN NoPers
    ELSE [saved.pers[f] EXCEPT !.st = "active"]

\* CLIENT_STATE::parse_state_file: a file with an error gets no transfer.
Restored(f) ==
    IF saved.pers[f].st = "none" \/ had_failure(saved.status[f]) THEN NoPers
    ELSE [saved.pers[f] EXCEPT !.st = "active"]

\* CLIENT_STATE::check_file_existence; needed is what the project's
\* workunits and project files still refer to.
Existing(f, needed) ==
    IF saved.status[f] = "PRESENT" /\ disk[f] = "none"
    THEN IF f \in needed THEN "NOT_PRESENT" ELSE "NOT_NEEDED"
    ELSE saved.status[f]

Restart ==
    /\ ~Up
    /\ client' = "up"
    /\ \E needed \in SUBSET Files :
        /\ {f \in Outputs : saved.produced[f] /\ ~saved.uploaded[f]}
              \subseteq needed
        /\ status' = [f \in Files |-> Existing(f, needed)]
    /\ pers' = [f \in Files |-> Restored(f)]
    /\ uploaded' = saved.uploaded
    /\ produced' = saved.produced
    /\ cur' = [f \in Files |-> 0]
    /\ xfer' = [f \in Files |-> NoXfer]
    /\ active' = {}
    /\ suspended' = FALSE
    /\ phase' = "idle" /\ todo' = {}
    /\ dirty' = TRUE
    /\ UNCHANGED <<extVars, saved, faults, dropped>>

-----------------------------------------------------------------------------
PollPass ==
    \/ BeginPoll
    \/ EndFileXferPoll
    \/ EndPersPoll
    \/ handle_pers_file_xfers
    \/ WriteState
    \/ \E f \in Files :
        \/ FileXferPoll(f)
        \/ PersPoll(f)

Next ==
    \/ PollPass
    \/ Tick
    \/ SuspendNetwork
    \/ ResumeNetwork
    \/ Crash
    \/ Restart
    \/ \E f \in Files :
        \/ HttpProgress(f)
        \/ HttpDone(f)
        \/ AppFinished(f)
        \/ FileNeeded(f)
        \/ ClearErrors(f)
        \/ RetryTransfer(f)
        \/ AbortTransfer(f)
        \/ Vanish(f)

Spec == Init /\ [][Next]_vars

\* The main loop keeps polling; between passes it gives libcurl and the
\* clock their turn; libcurl's time-outs end every HTTP operation; the
\* supervisor restarts a dead client and a suspension ends some day.
Fairness ==
    /\ WF_vars(PollPass)
    /\ SF_vars(Tick)
    /\ \A f \in Files : SF_vars(HttpDone(f))
    /\ SF_vars(ResumeNetwork)
    /\ WF_vars(Restart)

FairSpec == Spec /\ Fairness

-----------------------------------------------------------------------------
(***************************************************************************)
(* Properties.                                                             *)
(***************************************************************************)

\* Every variable has the values the code gives it.
TypeOK ==
    /\ status \in [Files -> Statuses]
    /\ uploaded \in [Files -> BOOLEAN]
    /\ cur \in [Files -> 0..(NumUrls - 1)]
    /\ pers \in [Files -> PersXfer]
    /\ xfer \in [Files -> Xfer]
    /\ active \subseteq Files
    /\ produced \in [Files -> BOOLEAN]
    /\ disk \in [Files -> {"none", "empty", "part", "good", "bad"}]
    /\ srv \in [Files -> {"none", "part", "all"}]
    /\ suspended \in BOOLEAN
    /\ phase \in {"idle", "xfers", "pers", "handle", "write"}
    /\ todo \subseteq Files
    /\ dirty \in BOOLEAN
    /\ saved \in SavedState
    /\ client \in {"up", "down", "segv"}
    /\ faults \in 0..MaxFaults
    /\ dropped \subseteq Files

\* The FILE_XFER_SET holds exactly the FILE_XFERs that a PERS_FILE_XFER
\* owns, and only a PERS_FILE_XFER that is still at work owns one: no
\* deleted FILE_XFER stays in the set, none runs unowned (the pointers that
\* permanent_failure, abort, suspend and ~FILE_XFER clear).
XferConsistent ==
    \A f \in Files :
        /\ f \in active <=> xfer[f].st # "none"
        /\ f \in active => pers[f].st = "active"

\* start_new_file_xfer keeps the configured limits, per direction, for the
\* client and for each project, across restarts of a FILE_XFER after its
\* size query, suspensions and crashes.
LimitsRespected ==
    \A f \in active :
        LET sameWay == {g \in active : (g \in Outputs) = (f \in Outputs)}
        IN  /\ Cardinality(sameWay) <= MaxTotal
            /\ Cardinality({g \in sameWay : ProjectOf[g] = ProjectOf[f]})
                  <= MaxPerProject

\* What a file may hold once it has been verified: the right contents, but
\* no more than the checks the project and the user ask for can tell.
Verified(f) ==
    \/ disk[f] = "good"
    \/ f \in Images /\ disk[f] \in {"part", "bad"}
    \/ /\ f \notin Signed \cup Hashed
       /\ disk[f] = "bad" \/ (f \in Unsized /\ disk[f] # "none")

\* A download whose status is FILE_PRESENT and that no transfer holds any
\* more has passed verify_file with errors counted, so the file on disk is
\* complete and right (as far as Verified), whatever attempts, resumptions,
\* truncations, cleared errors and crashes came before
\* (input_files_available relies on it).
PresentIsVerified ==
    Up => \A f \in Downloads :
        status[f] = "PRESENT" /\ pers[f].st = "none" => Verified(f)

\* What keeps PresentIsVerified true.  A finished HTTP operation that
\* FILE_XFER_SET::poll has still to see is in the set; a PERS_FILE_XFER at
\* work has a file without an error; and a download that the state file
\* calls present, without a transfer, is right or missing on disk, where a
\* missing one has been noticed by check_file_existence and the state file
\* will be written before a new transfer touches the disk.
TodoActive == phase = "xfers" => todo \subseteq active
WorkingNotFailed ==
    \A f \in Files : pers[f].st = "active" => ~had_failure(status[f])
SavedVerified ==
    \A f \in Downloads :
        saved.status[f] = "PRESENT" /\ saved.pers[f].st = "none" =>
            /\ disk[f] = "none" \/ Verified(f)
            /\ Up => \/ status[f] = "PRESENT" /\ pers[f].st = "none"
                     \/ /\ dirty /\ disk[f] = "none"
                        /\ status[f] \in {"NOT_PRESENT", "NOT_NEEDED"}
                        /\ pers[f].st = "none" \/ phase = "write"
TransferInv ==
    /\ TypeOK /\ XferConsistent /\ PresentIsVerified
    /\ TodoActive /\ WorkingNotFailed /\ SavedVerified

\* An output file the application has produced stays on its way to the
\* server: until it is uploaded or has failed it has a PERS_FILE_XFER or
\* its status will make handle_pers_file_xfers create one.  A crash may
\* come between the deletion of the file and the writing of the state file.
\* (Left out are transfers the user aborts and those given up before a
\* FILE_XFER could start: handle_pers_file_xfers and a failed create_xfer do
\* not mark the state dirty, so such a transfer may never have been saved,
\* and after a crash nothing asks for the deleted file again.)
UploadNotLost ==
    Up => \A f \in Outputs \ dropped :
        produced[f] /\ ~uploaded[f] /\ ~had_failure(status[f]) =>
            pers[f].st # "none" \/ status[f] = "PRESENT"

\* handle_pers_file_xfers sets uploaded only when the server holds the
\* whole file or the transfer ended in an error: a lost answer, a resumed
\* upload or a size query never makes it claim an upload that did not
\* happen.
UploadedOnlyWhenSettled ==
    [][\A f \in Outputs :
         Up /\ ~uploaded[f] /\ uploaded'[f] =>
            srv[f] = "all" \/ had_failure(status[f])]_vars

\* The error of a download is final until the project names the file again:
\* no retry, restored transfer, existence check or verification turns it
\* back, only clear_errors does, and never under a PERS_FILE_XFER that is
\* still at work on the file.  An error that reached the state file is there
\* after a restart too, and no transfer is restored for it.
FailureEndsByReply ==
    [][\A f \in Downloads : client' = "up" =>
         /\ Up /\ had_failure(status[f]) =>
              \/ had_failure(status'[f])
              \/ ClearErrors(f) /\ pers[f].st # "active" /\ f \notin active
         /\ ~Up /\ had_failure(saved.status[f]) =>
              had_failure(status'[f]) /\ pers'[f].st = "none"]_vars

\* A download does not stay pending for ever: in a running client it
\* succeeds, fails or is given up after file_xfer_giveup_period.  The
\* exception is real: with a second URL left, giving up is the step that
\* dereferences NULL, its error status dies with the client, and after the
\* restart the download begins again (NoNullXfer).
DownloadSettles ==
    \A f \in Downloads :
        status[f] = "NOT_PRESENT" ~>
            \/ Up /\ status[f] # "NOT_PRESENT"
            \/ NumUrls > 1 /\ client = "segv"

\* An output file that was produced is uploaded or fails in the end (or
\* its production was lost in a crash, and the application runs again;
\* dropped transfers as in UploadNotLost).
UploadSettles ==
    \A f \in Outputs :
        produced[f] ~> \/ uploaded[f] \/ had_failure(status[f])
                       \/ ~produced[f] \/ f \in dropped

\* Giving up on a transfer does not use the FILE_XFER it has deleted
\* (transient_failure: "If too much time has elapsed, give up").  It does
\* not hold: with another URL left, start_xfer runs on the NULL pointer.
NoNullXfer == client # "segv"

\* client_types.h on FILE_INFO::uploaded: "File has been uploaded to the
\* project server." - unless the status records the failure.  It does not
\* hold: deleting the file after a failed upload overwrites the failure.
UploadedMeansStored ==
    \A f \in Outputs : uploaded[f] /\ ~had_failure(status[f]) => srv[f] = "all"

=============================================================================
