---------------------------- MODULE AccountSetup ----------------------------
(***************************************************************************)
(* Attaching to projects and to account managers.  Managers (the wizards   *)
(* of clientgui) send GUI RPCs over connections of their own; the client   *)
(* runs the HTTP operations behind them in a GUI_HTTP per connection, and  *)
(* one more for the account manager, and hands each reply to the operation *)
(* that waits for it; the wizards poll.  Unix build, one project, and the  *)
(* client is not restarted: the files of the account manager say what      *)
(* acct_mgr_info does, as they are written and deleted with it.            *)
(***************************************************************************)
EXTENDS Naturals, Sequences, SequencesExt

CONSTANTS
    Managers,     \* GUI programs
    Accounts,     \* accounts of the project, and their authenticators
    AcctMgrs,     \* account managers: their URL, and their signing key
    None,
    MaxTries      \* bound: attempts of the users, and scheduled contacts of
                  \*   the account manager

ASSUME SetupAssumption ==
    /\ None \notin Accounts \cup AcctMgrs \cup Managers
    /\ "AM" \notin Managers /\ MaxTries \in Nat

Ops == {"config", "lookup", "create"}    \* GUI_HTTP_OPs of a connection
Errs == {"ok", "progress", "retry", "fail"}             \* error_num
Args == Accounts \cup AcctMgrs \cup {None}
\* A file with a reply: complete, saying that there is an error, not complete,
\* or not there.
Replies == Accounts \cup {"config", "error", "part", None}

\* What an account manager asks for: nothing, the project with an account
\* (perhaps with dont_request_more_work), the end of the attachment, or a
\* URL whose signature is bad.  Or it has sent an error message.
AmAccounts ==
    [what : {"attach", "quiet"}, acct : Accounts \cup {None}]
      \cup [what : {"none", "detach", "unsigned"}, acct : {None}]
NoAccounts == [what |-> "none", acct |-> None]
ErrorReply == [what |-> "error", acct |-> None]
\* ACCT_MGR_OP: the URL of the last request, and the key, accounts and error_str
\* of the last reply.
Ami == [url : AcctMgrs \cup {None}, key : AcctMgrs \cup {None},
        said : AmAccounts \cup {ErrorReply}]

GuiHttp == [op : Ops \cup {"mgr", None}, arg : Args,
            st : {"idle", "busy", "done"}, ret : {"ok", "fail"}]
IdleHttp == [op |-> None, arg |-> None, st |-> "idle", ret |-> "ok"]
Wizard == [page : {"none", "config", "lookup", "create", "attach", "mgr",
                   "success", "error"},
           step : {"send", "poll"},
           want : Accounts \cup AcctMgrs \cup {None},
           how : {"lookup", "create"},
           auth : Accounts \cup {None}]                 \* ACCOUNT_OUT
NoWizard == [page |-> "none", step |-> "send", want |-> None,
             how |-> "lookup", auth |-> None]

VARIABLES
    client,       \* "up", or "segv" after an access through a bad pointer
    gui_rpcs,     \* GUI_RPC_CONN_SET: the connections, in order
    http,         \* the GUI_HTTPs of the connections, and gstate.gui_http
    err, reply,   \* error_num and reply of the operations of a connection
    file,         \* the reply files: one for each kind of operation
    freed,        \* http_ops has a pointer to an HTTP_OP that is gone
    due,          \* a second has passed since last_time of GUI_HTTP::poll
    wiz,          \* the wizards
    project,      \* the project: its authenticator, attached_via_acct_mgr
    attachErr,    \* gstate.project_attach.error_num
    amErr, ami,   \* gstate.acct_mgr_op
    info,         \* gstate.acct_mgr_info: its URL and signing key
    amDue,        \* next_rpc_time has passed
    lost,         \* history: a file of the account manager's RPC could not
                  \*   be opened since one was last sent
    tries

connVars == <<gui_rpcs, err, reply>>
mgrVars  == <<amErr, ami, info, amDue, lost>>
vars == <<client, connVars, http, file, freed, due, wiz, project, attachErr,
          mgrVars, tries>>

NoProject == [acct |-> None, via |-> FALSE]
Init ==
    /\ client = "up" /\ gui_rpcs = <<>>
    /\ http = [x \in Managers \cup {"AM"} |-> IdleHttp]
    /\ err = [m \in Managers |-> [o \in Ops |-> "ok"]]
    /\ reply = [m \in Managers |-> [o \in Ops |-> None]]
    /\ file = [o \in Ops |-> [own |-> None, val |-> None]]
    /\ freed = FALSE /\ due = FALSE
    /\ wiz = [m \in Managers |-> NoWizard]
    /\ project = NoProject /\ attachErr = "ok"
    /\ amErr = "ok" /\ ami = [url |-> None, key |-> None, said |-> NoAccounts]
    /\ info = [url |-> None, key |-> None]
    /\ amDue = FALSE /\ lost = FALSE /\ tries = 0

Up == client = "up"
Connected(m) == m \in Range(gui_rpcs)
Try == tries < MaxTries /\ tries' = tries + 1

-----------------------------------------------------------------------------
(***************************************************************************)
(* GUI_HTTP.                                                               *)
(***************************************************************************)

\* do_rpc and do_rpc_post, when the GUI_HTTP is idle and init_get, init_post
\* and insert succeed; otherwise it stays idle.
Started(o, a) == [op |-> o, arg |-> a, st |-> "busy", ret |-> "ok"]

\* libcurl finishes an operation; lookup_curl looks at all of http_ops.
HttpDone(x) ==
    /\ Up /\ http[x].st = "busy"
    /\ \E r \in {"ok", "fail"} :
         http' = [http EXCEPT ![x].st = "done", ![x].ret = r]
    /\ LET o == http[x].op IN
       IF o \in Ops /\ file[o].own = x
       THEN \E v \in {http[x].arg, "error"} :
              file' = [file EXCEPT ![o] =
                [own |-> None,
                 val |-> IF o = "config" /\ v = None THEN "config" ELSE v]]
       ELSE UNCHANGED file
    /\ client' \in IF freed THEN {"up", "segv"} ELSE {"up"}
    /\ UNCHANGED <<connVars, freed, due, wiz, project, attachErr, mgrVars,
                   tries>>

\* The handle_reply of the operations of a connection; read_file_string fails
\* if there is no file.
handle_reply(m) ==
    LET o == http[m].op
        failed == http[m].ret = "fail"
    IN
    /\ err' = [err EXCEPT ![m][o] =
         IF failed \/ file[o].val = None THEN "fail" ELSE "ok"]
    /\ reply' = [reply EXCEPT ![m][o] = IF failed THEN @ ELSE file[o].val]
    /\ UNCHANGED <<client, project, mgrVars>>

-----------------------------------------------------------------------------
(***************************************************************************)
(* The account manager.                                                    *)
(***************************************************************************)

\* Mutant of ApplyAccount: whether the project is attached is not asked.
ApplyAccountBlindly(a) ==
    CASE a.what \in {"none", "unsigned"} -> UNCHANGED <<client, project>>
      [] a.what = "detach" ->
           project' = NoProject /\ UNCHANGED client
      [] OTHER ->
           /\ project' = IF a.acct \in {None, project.acct}
                         THEN [project EXCEPT !.via = TRUE] ELSE project
           /\ UNCHANGED client

\* ACCT_MGR_OP::handle_reply for one AM_ACCOUNT.  The attach branch writes
\* through pp, which is NULL there, if dont_request_more_work is present.
\* The account manager may leave out the authenticator.
ApplyAccount(a) ==
    CASE a.what \in {"none", "unsigned"} -> UNCHANGED <<client, project>>
      [] a.what = "detach" ->
           project' = NoProject /\ UNCHANGED client
      [] a.what \in {"attach", "quiet"} /\ project = NoProject ->
           /\ project' = IF a.acct = None THEN NoProject
                         ELSE [acct |-> a.acct, via |-> TRUE]
           /\ client' = IF a.what = "quiet" THEN "segv" ELSE "up"
      [] OTHER ->
           /\ project' = IF a.acct \in {None, project.acct}
                         THEN [project EXCEPT !.via = TRUE] ELSE project
           /\ UNCHANGED client

\* ACCT_MGR_OP::handle_reply: the end, once error_num is 0.
Contacted(key, a) ==
    /\ amErr' = "ok" /\ ami' = [ami EXCEPT !.key = key, !.said = a]
    /\ IF key # None /\ info.key \in {None, key}
       THEN /\ info' = [url |-> ami.url, key |-> key]
            /\ ApplyAccount(a)
       ELSE UNCHANGED <<client, project, info>>
    /\ amDue' = FALSE /\ UNCHANGED lost

\* The reply file cannot be opened, and error_num is what it was.  That is 0
\* if the user has left the account manager meanwhile: then the previous
\* reply counts once more, unless it was an error.
Unopened ==
    IF amErr = "ok" /\ ami.said # ErrorReply
    THEN Contacted(ami.key, ami.said)
    ELSE /\ amErr' = (IF amErr = "ok" THEN "fail" ELSE amErr) /\ lost' = TRUE
         /\ UNCHANGED <<client, project, ami, info, amDue>>

\* ACCT_MGR_OP::handle_reply.  What parse returns is not looked at: a reply
\* that is no account manager's leaves error_num 0, and the key what it was.
handle_mgr_reply ==
    /\ UNCHANGED <<err, reply>>
    /\ IF http["AM"].ret = "fail"
       THEN amErr' = "fail" /\ UNCHANGED <<client, project, ami, info, amDue, lost>>
       ELSE \/ Unopened
            \/ /\ amErr' = "fail"
               /\ \E key \in {ami.key, http["AM"].arg}, s \in {ErrorReply, NoAccounts} :
                    ami' = [ami EXCEPT !.key = key, !.said = s]
               /\ UNCHANGED <<client, project, info, amDue, lost>>
            \/ Contacted(ami.key, NoAccounts)
            \/ \E a \in AmAccounts : Contacted(http["AM"].arg, a)

\* ACCT_MGR_OP::do_rpc with a URL: ami is overwritten, the request is written
\* (which may fail), and sent unless the previous one is still on its way.
SendRequest(url) ==
    /\ ami' = [ami EXCEPT !.url = url]
    /\ \/ amErr' = "progress" /\ lost' = TRUE /\ UNCHANGED http
       \/ /\ amErr' = (IF http["AM"].st = "idle" THEN "fail" ELSE "retry")
          /\ UNCHANGED <<http, lost>>
       \/ /\ http["AM"].st = "idle"
          /\ amErr' = "progress" /\ lost' = FALSE
          /\ http' = [http EXCEPT !["AM"] = Started("mgr", url)]

\* Mutant of do_mgr_rpc: the projects keep attached_via_acct_mgr.
do_mgr_rpc_keep(url) ==
    /\ UNCHANGED <<amDue, client, err, reply, project>>
    /\ \/ /\ url = None
          /\ amErr' = (IF info.url = None THEN "fail" ELSE "ok")
          /\ info' = [url |-> None, key |-> None]
          /\ UNCHANGED <<http, ami, lost>>
       \/ url # None /\ SendRequest(url) /\ UNCHANGED info

\* ACCT_MGR_OP::do_rpc: no URL to leave the account manager, if there is one;
\* valid_master_url refuses what is no URL.
do_mgr_rpc(url) ==
    /\ UNCHANGED <<amDue, client, err, reply>>
    /\ \/ /\ url = None
          /\ amErr' = (IF info.url = None THEN "fail" ELSE "ok")
          /\ info' = [url |-> None, key |-> None]
          /\ project' = IF info.url = None THEN project
                        ELSE [project EXCEPT !.via = FALSE]
          /\ UNCHANGED <<http, ami, lost>>
       \/ url # None /\ amErr' = "fail" /\ UNCHANGED <<http, ami, lost, info, project>>
       \/ url # None /\ SendRequest(url) /\ UNCHANGED <<info, project>>

\* ACCT_MGR_INFO::poll
AcctMgrPoll ==
    /\ Up /\ amErr # "progress" /\ info.url # None /\ amDue
    /\ amDue' = FALSE
    /\ SendRequest(info.url)
    /\ UNCHANGED <<client, connVars, file, freed, due, wiz, project,
                   attachErr, info, tries>>

-----------------------------------------------------------------------------
\* GUI_HTTP::poll for all of them: gstate.gui_http, then the connections in
\* their order.  last_time is one variable for all, so the first that is not
\* idle is the only one that gets its turn.
Turns == <<"AM">> \o gui_rpcs
First == SelectInSeq(Turns, LAMBDA x : http[x].st # "idle")
\* Mutant of Poll: an idle GUI_HTTP takes the turn as well.
PollIdle ==
    /\ Up /\ due /\ First # 0
    /\ due' = FALSE
    /\ LET x == Turns[1] IN
       IF http[x].st = "done"
       THEN /\ http' = [http EXCEPT ![x] = IdleHttp]
            /\ IF x = "AM" THEN handle_mgr_reply ELSE handle_reply(x)
       ELSE UNCHANGED <<client, err, reply, http, project, mgrVars>>
    /\ UNCHANGED <<gui_rpcs, file, freed, wiz, attachErr, tries>>

Poll ==
    /\ Up /\ due /\ First # 0
    /\ due' = FALSE
    /\ LET x == Turns[First] IN
       IF http[x].st = "done"
       THEN /\ http' = [http EXCEPT ![x] = IdleHttp]
            /\ IF x = "AM" THEN handle_mgr_reply ELSE handle_reply(x)
       ELSE UNCHANGED <<client, err, reply, http, project, mgrVars>>
    /\ UNCHANGED <<gui_rpcs, file, freed, wiz, attachErr, tries>>

Tick ==
    /\ Up /\ ~due /\ due' = TRUE
    /\ UNCHANGED <<client, connVars, http, file, freed, wiz, project,
                   attachErr, mgrVars, tries>>

\* A day has passed.
NextDay ==
    /\ Up /\ ~amDue /\ amDue' = TRUE /\ Try
    /\ UNCHANGED <<client, connVars, http, file, freed, due, wiz, project,
                   attachErr, amErr, ami, info, lost>>

-----------------------------------------------------------------------------
(***************************************************************************)
(* Connections.                                                            *)
(***************************************************************************)
Connect(m) ==
    /\ Up /\ ~Connected(m)
    /\ gui_rpcs' = Append(gui_rpcs, m)
    /\ UNCHANGED <<client, err, reply, http, file, freed, due, wiz, project,
                   attachErr, mgrVars, tries>>

\* The manager ends; ~GUI_RPC_CONN deletes the GUI_HTTP with its HTTP_OP and
\* closes the reply file, but http_ops keeps the pointer.
Disconnect(m) ==
    /\ Up /\ Connected(m)
    /\ \E i \in 1..Len(gui_rpcs) :
         gui_rpcs[i] = m /\ gui_rpcs' = RemoveAt(gui_rpcs, i)
    /\ freed' = (freed \/ http[m].st # "idle")
    /\ http' = [http EXCEPT ![m] = IdleHttp]
    /\ err' = [err EXCEPT ![m] = [o \in Ops |-> "ok"]]
    /\ reply' = [reply EXCEPT ![m] = [o \in Ops |-> None]]
    /\ file' = [o \in Ops |-> IF file[o].own = m
                              THEN [file[o] EXCEPT !.own = None] ELSE file[o]]
    /\ wiz' = [wiz EXCEPT ![m] = NoWizard]
    /\ UNCHANGED <<client, due, project, attachErr, mgrVars, tries>>

-----------------------------------------------------------------------------
(***************************************************************************)
(* The wizards.  Each RPC is one step of the client; between a request and *)
(* the polls that follow the client does other things.                     *)
(***************************************************************************)

\* The attach wizard, with the account the user types in.
StartWizard(m) ==
    /\ Up /\ Connected(m) /\ wiz[m].page \in {"none", "success"} /\ Try
    /\ \E a \in Accounts, h \in {"lookup", "create"} :
         wiz' = [wiz EXCEPT ![m] =
           [page |-> "config", step |-> "send", want |-> a, how |-> h,
            auth |-> None]]
    /\ UNCHANGED <<client, connVars, http, file, freed, due, project,
                   attachErr, mgrVars>>

\* Back from an error page, and another attempt, perhaps another account.
Back(m) ==
    /\ Up /\ Connected(m) /\ wiz[m].page = "error" /\ wiz[m].want \in Accounts
    /\ Try
    /\ \E a \in Accounts, h \in {"lookup", "create"} :
         wiz' = [wiz EXCEPT ![m] =
           [page |-> h, step |-> "send", want |-> a, how |-> h,
            auth |-> None]]
    /\ UNCHANGED <<client, connVars, http, file, freed, due, project,
                   attachErr, mgrVars>>

\* The account manager wizard.
StartMgrWizard(m) ==
    /\ Up /\ Connected(m) /\ wiz[m].page \in {"none", "success", "error"} /\ Try
    /\ \E u \in AcctMgrs :
         wiz' = [wiz EXCEPT ![m] =
           [NoWizard EXCEPT !.page = "mgr", !.want = u]]
    /\ UNCHANGED <<client, connVars, http, file, freed, due, project,
                   attachErr, mgrVars>>

\* Mutant of WizSend: gui_http_op is set before the state is looked at.
WizSendAnyway(m) ==
    LET o == wiz[m].page IN
    /\ Up /\ Connected(m) /\ o \in Ops /\ wiz[m].step = "send"
    /\ wiz' = [wiz EXCEPT ![m].step = "poll"]
    /\ IF http[m].st = "idle"
       THEN /\ http' = [http EXCEPT ![m] =
                 Started(o, IF o = "config" THEN None ELSE wiz[m].want)]
            /\ err' = [err EXCEPT ![m][o] = "progress"]
            /\ file' = [file EXCEPT ![o] = [own |-> m, val |-> "part"]]
       ELSE /\ http' = [http EXCEPT ![m].op = o]
            /\ err' = [err EXCEPT ![m][o] = "retry"]
            /\ UNCHANGED file
    /\ UNCHANGED <<client, gui_rpcs, reply, freed, due, project, attachErr,
                   mgrVars, tries>>

\* get_project_config, lookup_account and create_account: the do_rpc of the
\* operation deletes the reply file and opens a new one, which may fail; a
\* reply file another connection still writes to has no name any more.
WizSend(m) ==
    LET o == wiz[m].page IN
    /\ Up /\ Connected(m) /\ o \in Ops /\ wiz[m].step = "send"
    /\ wiz' = [wiz EXCEPT ![m].step = "poll"]
    /\ \/ /\ http[m].st = "idle"
          /\ http' = [http EXCEPT ![m] =
               Started(o, IF o = "config" THEN None ELSE wiz[m].want)]
          /\ err' = [err EXCEPT ![m][o] = "progress"]
          /\ file' = [file EXCEPT ![o] = [own |-> m, val |-> "part"]]
       \/ /\ http[m].st = "idle"
          /\ err' = [err EXCEPT ![m][o] = "fail"]
          /\ file' = [file EXCEPT ![o] = [own |-> None, val |-> None]]
          /\ UNCHANGED http
       \/ /\ http[m].st # "idle"
          /\ err' = [err EXCEPT ![m][o] = "retry"]
          /\ UNCHANGED <<http, file>>
    /\ UNCHANGED <<client, gui_rpcs, reply, freed, due, project, attachErr,
                   mgrVars, tries>>

\* What the manager reads from a poll: error_num, and what the reply holds.
\* ACCOUNT_OUT::parse takes anything; PROJECT_CONFIG::parse does not.
Polled(m, o) ==
    IF err[m][o] # "ok" THEN err[m][o]
    ELSE IF reply[m][o] = "error" THEN "fail"
    ELSE IF o = "config" /\ reply[m][o] # "config" THEN "fail"
    ELSE "ok"

\* The loop of OnStateChange ends when the operation has, or after 60 seconds.
WizPoll(m) ==
    LET o == wiz[m].page
        e == Polled(m, o)
    IN
    /\ Up /\ Connected(m) /\ o \in Ops /\ wiz[m].step = "poll"
    /\ wiz' = [wiz EXCEPT ![m] =
         CASE e = "retry" -> [@ EXCEPT !.step = "send"]
           [] e = "progress" -> @
           [] e = "fail" -> [@ EXCEPT !.page = "error"]
           [] e = "ok" /\ o = "config" ->
                [@ EXCEPT !.page = wiz[m].how, !.step = "send"]
           [] OTHER -> [@ EXCEPT !.page = "attach", !.step = "send",
                !.auth = IF reply[m][o] \in Accounts THEN reply[m][o] ELSE None]]
    /\ UNCHANGED <<client, connVars, http, file, freed, due, project,
                   attachErr, mgrVars, tries>>

WizTimeout(m) ==
    /\ Up /\ Connected(m) /\ wiz[m].page \in Ops \cup {"mgr"}
    /\ wiz' = [wiz EXCEPT ![m].page = "error"]
    /\ UNCHANGED <<client, connVars, http, file, freed, due, project,
                   attachErr, mgrVars, tries>>

\* project_attach: handle_project_attach refuses a missing authenticator and
\* a project that is attached, and leaves project_attach alone then; the
\* wizard ignores what it answers.  add_project may fail.
WizAttach(m) ==
    /\ Up /\ Connected(m) /\ wiz[m].page = "attach" /\ wiz[m].step = "send"
    /\ wiz' = [wiz EXCEPT ![m].step = "poll"]
    /\ IF wiz[m].auth # None /\ project = NoProject
       THEN \/ /\ attachErr' = "ok"
               /\ project' = [acct |-> wiz[m].auth, via |-> FALSE]
            \/ attachErr' = "fail" /\ UNCHANGED project
       ELSE UNCHANGED <<attachErr, project>>
    /\ UNCHANGED <<client, connVars, http, file, freed, due, mgrVars, tries>>

\* project_attach_poll
WizAttachPoll(m) ==
    /\ Up /\ Connected(m) /\ wiz[m].page = "attach" /\ wiz[m].step = "poll"
    /\ wiz' = [wiz EXCEPT ![m].page =
         IF attachErr = "ok" THEN "success" ELSE "error"]
    /\ UNCHANGED <<client, connVars, http, file, freed, due, project,
                   attachErr, mgrVars, tries>>

\* acct_mgr_rpc and acct_mgr_rpc_poll of the account manager wizard.
MgrSend(m) ==
    /\ Up /\ Connected(m) /\ wiz[m].page = "mgr" /\ wiz[m].step = "send"
    /\ wiz' = [wiz EXCEPT ![m].step = "poll"]
    /\ do_mgr_rpc(wiz[m].want)
    /\ UNCHANGED <<gui_rpcs, file, freed, due, attachErr, tries>>

MgrPoll(m) ==
    /\ Up /\ Connected(m) /\ wiz[m].page = "mgr" /\ wiz[m].step = "poll"
    /\ wiz' = [wiz EXCEPT ![m] =
         CASE amErr = "retry" -> [@ EXCEPT !.step = "send"]
           [] amErr = "progress" -> @
           [] amErr = "fail" -> [@ EXCEPT !.page = "error"]
           [] OTHER -> [@ EXCEPT !.page = "success"]]
    /\ UNCHANGED <<client, connVars, http, file, freed, due, project,
                   attachErr, mgrVars, tries>>

\* The user leaves the account manager (an empty URL), or detaches the
\* project: handle_project_op refuses that if it is an account manager's.
MgrDetach(m) ==
    /\ Up /\ Connected(m) /\ Try
    /\ do_mgr_rpc(None)
    /\ UNCHANGED <<gui_rpcs, file, freed, due, wiz, attachErr>>

DetachProject(m) ==
    /\ Up /\ Connected(m) /\ Try
    /\ project # NoProject /\ ~project.via
    /\ project' = NoProject
    /\ UNCHANGED <<client, connVars, http, file, freed, due, wiz, attachErr,
                   mgrVars>>

-----------------------------------------------------------------------------
Loop == Poll \/ AcctMgrPoll

User(m) ==
    \/ Connect(m) \/ Disconnect(m) \/ StartWizard(m) \/ Back(m)
    \/ StartMgrWizard(m) \/ MgrDetach(m) \/ DetachProject(m)

Wiz(m) ==
    \/ WizSend(m) \/ WizPoll(m) \/ WizTimeout(m) \/ WizAttach(m)
    \/ WizAttachPoll(m) \/ MgrSend(m) \/ MgrPoll(m)

Next ==
    \/ Loop \/ Tick \/ NextDay
    \/ \E x \in Managers \cup {"AM"} : HttpDone(x)
    \/ \E m \in Managers : User(m) \/ Wiz(m)

Spec == Init /\ [][Next]_vars

\* The main loop polls, time passes, libcurl's time-outs end every operation,
\* and no wizard waits for more than 60 seconds.
FairSpec ==
    /\ Spec
    /\ WF_vars(Poll) /\ WF_vars(Tick)
    /\ \A x \in Managers \cup {"AM"} : WF_vars(HttpDone(x))
    /\ \A m \in Managers : WF_vars(WizTimeout(m))

-----------------------------------------------------------------------------
TypeOK ==
    /\ client \in {"up", "segv"}
    /\ gui_rpcs \in Seq(Managers)
    /\ http \in [Managers \cup {"AM"} -> GuiHttp]
    /\ err \in [Managers -> [Ops -> Errs]]
    /\ reply \in [Managers -> [Ops -> Replies]]
    /\ file \in [Ops -> [own : Managers \cup {None}, val : Replies]]
    /\ freed \in BOOLEAN /\ due \in BOOLEAN
    /\ wiz \in [Managers -> Wizard]
    /\ project \in {NoProject} \cup [acct : Accounts, via : BOOLEAN]
    /\ attachErr \in Errs /\ amErr \in Errs
    /\ ami \in Ami
    /\ info \in [url : AcctMgrs \cup {None}, key : AcctMgrs \cup {None}]
    /\ amDue \in BOOLEAN /\ lost \in BOOLEAN
    /\ tries \in 0..MaxTries

(***************************************************************************)
(* An operation that says ERR_IN_PROGRESS is the one its GUI_HTTP works    *)
(* for, whatever other requests were refused meanwhile, so a poll of it    *)
(* never waits for a reply that nobody will hand over.  The account        *)
(* manager's operation is the exception when its request or its reply      *)
(* could not be opened: error_num stays ERR_IN_PROGRESS, and               *)
(* ACCT_MGR_INFO::poll waits until a user sends another request.           *)
(***************************************************************************)
InProgressIsServed ==
    /\ \A m \in Managers, o \in Ops :
         err[m][o] = "progress" => http[m].st # "idle" /\ http[m].op = o
    /\ amErr = "progress" /\ ~lost => http["AM"].st # "idle"

(***************************************************************************)
(* A project that only the account manager may detach has one, whichever   *)
(* requests, replies and detaches cross: otherwise nobody could detach it. *)
(* (As long as the client runs: leaving the account manager deletes its    *)
(* files at once, but does not make the state dirty.)                      *)
(***************************************************************************)
ManagedHasManager == project.via => info.key # None

(***************************************************************************)
(* Every finished HTTP operation hands over its reply, though one time     *)
(* stamp serves all GUI_HTTPs and each poll takes the first busy one.      *)
(***************************************************************************)
RepliesDelivered ==
    \A x \in Managers \cup {"AM"} :
      http[x].st = "done" ~> http[x].st = "idle" \/ client = "segv"

(***************************************************************************)
(* "Attempt to create the account or reterieve the authenticator": what    *)
(* the wizard goes on with is the authenticator of the account the user    *)
(* has asked for.  It does not hold: after a time-out, or with a second    *)
(* manager, the wizard takes the reply to another request.                 *)
(***************************************************************************)
AuthAsAsked ==
    \A m \in Managers :
      wiz[m].page = "attach" /\ wiz[m].auth # None => wiz[m].auth = wiz[m].want
=============================================================================
