------------------------ MODULE AccountSetupProofs ------------------------
(***************************************************************************)
(* Attaching to projects and account managers, for any number of managers, *)
(* accounts, account managers and attempts.                                *)
(***************************************************************************)
EXTENDS AccountSetup, WellFoundedInduction, TLAPS

(***************************************************************************)
(* What a GUI_HTTP at work works for, and what the wizards ask for.        *)
(***************************************************************************)
HttpWorksFor ==
    /\ \A m \in Managers : http[m].st # "idle" =>
         \/ http[m].op = "config" /\ http[m].arg = None
         \/ http[m].op \in {"lookup", "create"} /\ http[m].arg \in Accounts
    /\ http["AM"].st # "idle" =>
         http["AM"].op = "mgr" /\ http["AM"].arg \in AcctMgrs
WizardAsks ==
    \A m \in Managers :
      /\ wiz[m].page \in Ops => wiz[m].want \in Accounts
      /\ wiz[m].page = "mgr" => wiz[m].want \in AcctMgrs

(***************************************************************************)
(* The account manager's URL and key are known together, and ami has a     *)
(* URL for the reply that is on its way.                                   *)
(***************************************************************************)
ManagerKnown ==
    /\ info.url = None <=> info.key = None
    /\ http["AM"].st # "idle" => ami.url # None

SetupInv ==
    /\ TypeOK /\ HttpWorksFor /\ WizardAsks /\ ManagerKnown
    /\ InProgressIsServed /\ ManagedHasManager

-----------------------------------------------------------------------------
\* A set of natural numbers has a least element.
LEMMA LeastNat ==
    ASSUME NEW T, T \subseteq Nat, T # {}
    PROVE  \E x \in T : \A y \in T : x <= y
<1> DEFINE R == OpToRel(<, Nat)
<1>1. IsWellFoundedOn(R, Nat)
    BY NatLessThanWellFounded
<1>2. \A x, y \in Nat : x < y => <<x, y>> \in R
    BY DEF OpToRel
<1> HIDE DEF R
<1>3. PICK x \in T : \A y \in T : ~ (<<y, x>> \in R)
    BY <1>1, WFMin
<1>4. \A y \in T : ~(y < x)
    BY <1>2, <1>3, Zenon
<1>5. \A y \in T : x <= y
    BY <1>4
<1>6. QED
    BY <1>5

\* GUI_HTTP::poll gives its turn to one of the GUI_HTTPs, and one at work.
LEMMA FirstTurn ==
    ASSUME TypeOK, First # 0
    PROVE  /\ Turns[First] \in Managers \cup {"AM"}
           /\ http[Turns[First]].st # "idle"
<1> DEFINE I == {i \in 1..Len(Turns) : http[Turns[i]].st # "idle"}
<1>1. Turns \in Seq(Managers \cup {"AM"})
    BY DEF TypeOK, Turns
<1>2. First = IF I # {} THEN Min(I) ELSE 0
    BY DEF First, SelectInSeq
<1>3. I # {} /\ I \subseteq Nat
    BY <1>1, <1>2
<1>4. First \in I
    <2>1. \E x \in I : \A y \in I : x <= y
        BY <1>3, LeastNat
    <2> HIDE DEF I
    <2>2. Min(I) \in I
        BY <2>1 DEF Min
    <2>3. QED
        BY <1>2, <1>3, <2>2
<1>5. QED
    BY <1>1, <1>4

LEMMA SetupInitInv == Init => SetupInv
<1> SUFFICES ASSUME Init PROVE SetupInv
    OBVIOUS
<1>1. TypeOK
    <2>1. IdleHttp \in GuiHttp /\ NoWizard \in Wizard
        BY DEF IdleHttp, GuiHttp, NoWizard, Wizard, Args
    <2>2. /\ http \in [Managers \cup {"AM"} -> GuiHttp]
          /\ wiz \in [Managers -> Wizard]
        BY <2>1 DEF Init
    <2>3. /\ err \in [Managers -> [Ops -> Errs]]
          /\ reply \in [Managers -> [Ops -> Replies]]
          /\ file \in [Ops -> [own : Managers \cup {None}, val : Replies]]
        BY DEF Init, Errs, Replies
    <2>4. /\ ami \in Ami
          /\ info \in [url : AcctMgrs \cup {None}, key : AcctMgrs \cup {None}]
        BY DEF Init, Ami, AmAccounts, NoAccounts
    <2>5. tries \in 0..MaxTries /\ gui_rpcs \in Seq(Managers)
        BY SetupAssumption DEF Init
    <2>6. project \in {NoProject} \cup [acct : Accounts, via : BOOLEAN]
        BY DEF Init
    <2>7. QED
        BY <2>2, <2>3, <2>4, <2>5, <2>6 DEF Init, TypeOK, Errs
<1>2. HttpWorksFor /\ WizardAsks
    BY DEF Init, HttpWorksFor, WizardAsks, IdleHttp, NoWizard, Ops
<1>3. ManagerKnown /\ InProgressIsServed /\ ManagedHasManager
    BY DEF Init, ManagerKnown, InProgressIsServed, ManagedHasManager, IdleHttp,
           NoProject
<1>4. QED
    BY <1>1, <1>2, <1>3 DEF SetupInv

LEMMA TryKeeps == SetupInv /\ Try => tries' \in 0..MaxTries
BY SetupAssumption DEF SetupInv, TypeOK, Try

\* A step that changes nothing but the clocks.
LEMMA QuietStep ==
    ASSUME SetupInv, due' \in BOOLEAN, amDue' \in BOOLEAN, tries' \in 0..MaxTries,
           UNCHANGED <<client, connVars, http, file, freed, wiz, project,
                       attachErr, amErr, ami, info, lost>>
    PROVE  SetupInv'
<1> USE DEF connVars
<1>1. TypeOK'
    BY DEF SetupInv, TypeOK
<1>2. QED
    BY <1>1 DEF SetupInv, HttpWorksFor, WizardAsks, ManagerKnown,
                InProgressIsServed, ManagedHasManager

\* A step of one wizard, or of its user, that changes nothing else.
LEMMA WizardStep ==
    ASSUME SetupInv, NEW m \in Managers, NEW w \in Wizard,
           wiz' = [wiz EXCEPT ![m] = w],
           w.page \in Ops => w.want \in Accounts,
           w.page = "mgr" => w.want \in AcctMgrs,
           tries' \in 0..MaxTries,
           UNCHANGED <<client, connVars, http, file, freed, due, project,
                       attachErr, mgrVars>>
    PROVE  SetupInv'
<1> USE DEF connVars, mgrVars
<1>1. TypeOK'
    BY DEF SetupInv, TypeOK
<1>2. WizardAsks'
    BY DEF SetupInv, TypeOK, WizardAsks
<1>3. QED
    BY <1>1, <1>2 DEF SetupInv, HttpWorksFor, ManagerKnown, InProgressIsServed,
                      ManagedHasManager

LEMMA WizardInv ==
    ASSUME SetupInv, NEW m \in Managers,
           \/ StartWizard(m) \/ Back(m) \/ StartMgrWizard(m) \/ WizPoll(m)
           \/ WizTimeout(m) \/ WizAttachPoll(m) \/ MgrPoll(m)
    PROVE  SetupInv'
<1> wiz[m] \in Wizard /\ tries \in 0..MaxTries /\ MaxTries \in Nat
    BY SetupAssumption DEF SetupInv, TypeOK
<1>1. CASE StartWizard(m)
    <2>1. PICK a \in Accounts, h \in {"lookup", "create"} :
            wiz' = [wiz EXCEPT ![m] =
              [page |-> "config", step |-> "send", want |-> a, how |-> h,
               auth |-> None]]
        BY <1>1 DEF StartWizard
    <2> DEFINE w == [page |-> "config", step |-> "send", want |-> a, how |-> h,
                     auth |-> None]
    <2>2. w \in Wizard /\ w.want \in Accounts /\ w.page # "mgr"
        BY DEF Wizard
    <2>3. wiz' = [wiz EXCEPT ![m] = w]
        BY <2>1
    <2> HIDE DEF w
    <2>4. tries' \in 0..MaxTries
        BY <1>1, TryKeeps DEF StartWizard
    <2>5. QED
        BY <1>1, <2>2, <2>3, <2>4, WizardStep DEF StartWizard
<1>2. CASE Back(m)
    <2>1. PICK a \in Accounts, h \in {"lookup", "create"} :
            wiz' = [wiz EXCEPT ![m] =
              [page |-> h, step |-> "send", want |-> a, how |-> h,
               auth |-> None]]
        BY <1>2 DEF Back
    <2> DEFINE w == [page |-> h, step |-> "send", want |-> a, how |-> h,
                     auth |-> None]
    <2>2. w \in Wizard /\ w.want \in Accounts /\ w.page # "mgr"
        BY DEF Wizard
    <2>3. wiz' = [wiz EXCEPT ![m] = w]
        BY <2>1
    <2> HIDE DEF w
    <2>4. tries' \in 0..MaxTries
        BY <1>2, TryKeeps DEF Back
    <2>5. QED
        BY <1>2, <2>2, <2>3, <2>4, WizardStep DEF Back
<1>3. CASE StartMgrWizard(m)
    <2>1. PICK u \in AcctMgrs : wiz' = [wiz EXCEPT ![m] =
                                  [NoWizard EXCEPT !.page = "mgr", !.want = u]]
        BY <1>3 DEF StartMgrWizard
    <2> DEFINE w == [NoWizard EXCEPT !.page = "mgr", !.want = u]
    <2>2. w \in Wizard /\ w.want \in AcctMgrs /\ w.page \notin Ops
        BY DEF Wizard, NoWizard, Ops
    <2>3. wiz' = [wiz EXCEPT ![m] = w]
        BY <2>1
    <2> HIDE DEF w
    <2>4. tries' \in 0..MaxTries
        BY <1>3, TryKeeps DEF StartMgrWizard
    <2>5. UNCHANGED <<client, connVars, http, file, freed, due, project,
                      attachErr, mgrVars>>
        BY <1>3 DEF StartMgrWizard
    <2>6. QED
        BY <2>2, <2>3, <2>4, <2>5, WizardStep
<1>4. CASE WizPoll(m)
    <2> DEFINE o == wiz[m].page
               e == Polled(m, o)
               w == CASE e = "retry" -> [wiz[m] EXCEPT !.step = "send"]
                      [] e = "progress" -> wiz[m]
                      [] e = "fail" -> [wiz[m] EXCEPT !.page = "error"]
                      [] e = "ok" /\ o = "config" ->
                           [wiz[m] EXCEPT !.page = wiz[m].how, !.step = "send"]
                      [] OTHER -> [wiz[m] EXCEPT !.page = "attach",
                           !.step = "send", !.auth = IF reply[m][o] \in Accounts
                                              THEN reply[m][o] ELSE None]
    <2>1. wiz' = [wiz EXCEPT ![m] = w]
        BY <1>4 DEF WizPoll
    <2>2. o \in Ops /\ wiz[m].want \in Accounts
        BY <1>4 DEF WizPoll, SetupInv, WizardAsks
    <2>3. w \in Wizard /\ w.want \in Accounts /\ w.page # "mgr"
        <3> HIDE DEF e
        <3>1. QED
            BY <2>2 DEF Wizard, Ops
    <2> HIDE DEF w
    <2>4. QED
        BY <1>4, <2>1, <2>3, WizardStep DEF WizPoll
<1>5. CASE WizTimeout(m)
    <2> DEFINE w == [wiz[m] EXCEPT !.page = "error"]
    <2>1. w \in Wizard /\ w.page \notin Ops \cup {"mgr"}
        BY DEF Wizard, Ops
    <2>2. QED
        BY <1>5, <2>1, WizardStep DEF WizTimeout
<1>6. CASE WizAttachPoll(m)
    <2> DEFINE w == [wiz[m] EXCEPT !.page =
                       IF attachErr = "ok" THEN "success" ELSE "error"]
    <2>1. w \in Wizard /\ w.page \notin Ops \cup {"mgr"}
        BY DEF Wizard, Ops
    <2>2. QED
        BY <1>6, <2>1, WizardStep DEF WizAttachPoll
<1>7. CASE MgrPoll(m)
    <2> DEFINE w == CASE amErr = "retry" -> [wiz[m] EXCEPT !.step = "send"]
                      [] amErr = "progress" -> wiz[m]
                      [] amErr = "fail" -> [wiz[m] EXCEPT !.page = "error"]
                      [] OTHER -> [wiz[m] EXCEPT !.page = "success"]
    <2>1. wiz' = [wiz EXCEPT ![m] = w]
        BY <1>7 DEF MgrPoll
    <2>2. wiz[m].page = "mgr" /\ wiz[m].want \in AcctMgrs
        BY <1>7 DEF MgrPoll, SetupInv, WizardAsks
    <2>3. w \in Wizard /\ w.want \in AcctMgrs /\ w.page \notin Ops
        BY <2>2 DEF Wizard, Ops
    <2> HIDE DEF w
    <2>4. QED
        BY <1>7, <2>1, <2>3, WizardStep DEF MgrPoll
<1>8. QED
    BY <1>1, <1>2, <1>3, <1>4, <1>5, <1>6, <1>7

\* A wizard has sent its request and polls.
LEMMA PollsNow ==
    ASSUME SetupInv, NEW m \in Managers,
           wiz' = [wiz EXCEPT ![m].step = "poll"]
    PROVE  wiz' \in [Managers -> Wizard] /\ WizardAsks'
<1> DEFINE w == [wiz[m] EXCEPT !.step = "poll"]
<1>1. wiz \in [Managers -> Wizard] /\ WizardAsks
    BY DEF SetupInv, TypeOK
<1>2. w \in Wizard /\ w.page = wiz[m].page /\ w.want = wiz[m].want
    BY <1>1 DEF Wizard
<1>3. wiz' = [wiz EXCEPT ![m] = w]
    OBVIOUS
<1> HIDE DEF w
<1>4. wiz' \in [Managers -> Wizard]
    BY <1>1, <1>2, <1>3
<1>5. ASSUME NEW n \in Managers
      PROVE  wiz'[n].page = wiz[n].page /\ wiz'[n].want = wiz[n].want
    BY <1>1, <1>2, <1>3
<1>6. QED
    BY <1>1, <1>4, <1>5 DEF WizardAsks

\* The operations of the managers that start an HTTP operation, or change
\* what the client is attached to.
LEMMA ConnectionInv ==
    ASSUME SetupInv, NEW m \in Managers, Connect(m) \/ Disconnect(m)
    PROVE  SetupInv'
<1> USE DEF connVars, mgrVars
<1>1. CASE Connect(m)
    <2>1. gui_rpcs' \in Seq(Managers)
        BY <1>1 DEF Connect, SetupInv, TypeOK
    <2>2. TypeOK'
        BY <1>1, <2>1 DEF Connect, SetupInv, TypeOK
    <2>3. QED
        BY <1>1, <2>2 DEF Connect, SetupInv, HttpWorksFor, WizardAsks,
            ManagerKnown, InProgressIsServed, ManagedHasManager
<1>2. CASE Disconnect(m)
    <2>1. gui_rpcs' \in Seq(Managers)
        BY <1>2 DEF Disconnect, SetupInv, TypeOK, RemoveAt
    <2>2. IdleHttp \in GuiHttp /\ IdleHttp.st = "idle"
        BY DEF IdleHttp, GuiHttp, Args
    <2>3. NoWizard \in Wizard /\ NoWizard.page \notin Ops \cup {"mgr"}
        BY DEF NoWizard, Wizard, Ops
    <2>4. http' = [http EXCEPT ![m] = IdleHttp] /\ wiz' = [wiz EXCEPT ![m] = NoWizard]
          /\ UNCHANGED <<client, due, project, attachErr, mgrVars, tries>>
        BY <1>2 DEF Disconnect
    <2>5. err' = [err EXCEPT ![m] = [o \in Ops |-> "ok"]]
        BY <1>2 DEF Disconnect
    <2>6. TypeOK'
        <3>1. http' \in [Managers \cup {"AM"} -> GuiHttp] /\ wiz' \in [Managers -> Wizard]
            BY <2>2, <2>3, <2>4 DEF SetupInv, TypeOK
        <3>2. err' \in [Managers -> [Ops -> Errs]]
            BY <2>5 DEF SetupInv, TypeOK, Errs
        <3>3. reply' \in [Managers -> [Ops -> Replies]]
            BY <1>2 DEF Disconnect, SetupInv, TypeOK, Replies
        <3>4. file' \in [Ops -> [own : Managers \cup {None}, val : Replies]]
            <4>1. ASSUME NEW o \in Ops
                  PROVE  file'[o] \in [own : Managers \cup {None}, val : Replies]
                <5>1. file[o] \in [own : Managers \cup {None}, val : Replies]
                    BY DEF SetupInv, TypeOK
                <5>2. file'[o] \in {file[o], [file[o] EXCEPT !.own = None]}
                    BY <1>2 DEF Disconnect
                <5>3. QED
                    BY <5>1, <5>2
            <4>2. file' = [o \in Ops |-> file'[o]]
                BY <1>2 DEF Disconnect
            <4>3. QED
                BY <4>1, <4>2
        <3>5. freed' \in BOOLEAN
            BY <1>2 DEF Disconnect, SetupInv, TypeOK
        <3>6. QED
            BY <2>1, <2>4, <3>1, <3>2, <3>3, <3>4, <3>5 DEF SetupInv, TypeOK
    <2>7. HttpWorksFor' /\ WizardAsks'
        BY <2>2, <2>3, <2>4, SetupAssumption
        DEF SetupInv, TypeOK, HttpWorksFor, WizardAsks
    <2>8. InProgressIsServed'
        BY <2>2, <2>4, <2>5, SetupAssumption
        DEF SetupInv, TypeOK, InProgressIsServed
    <2>9. ManagerKnown' /\ ManagedHasManager'
        BY <2>4, SetupAssumption
        DEF SetupInv, TypeOK, ManagerKnown, ManagedHasManager
    <2>10. QED
        BY <2>6, <2>7, <2>8, <2>9 DEF SetupInv
<1>3. QED
    BY <1>1, <1>2

\* A GUI_HTTP starts to work for an operation of its connection.
LEMMA WizSendInv ==
    ASSUME SetupInv, NEW m \in Managers, WizSend(m)
    PROVE  SetupInv'
<1> USE DEF connVars, mgrVars
<1> DEFINE o == wiz[m].page
           a == IF o = "config" THEN None ELSE wiz[m].want
           h == Started(o, a)
<1>1. o \in Ops /\ wiz[m].want \in Accounts
    BY DEF WizSend, SetupInv, WizardAsks
<1>2. h \in GuiHttp /\ h.st = "busy" /\ h.op = o /\ h.arg = a
    BY <1>1 DEF Started, GuiHttp, Args
<1>3. \/ o = "config" /\ a = None
      \/ o \in {"lookup", "create"} /\ a \in Accounts
    BY <1>1 DEF Ops
<1>4. /\ wiz' = [wiz EXCEPT ![m].step = "poll"]
      /\ UNCHANGED <<client, gui_rpcs, reply, freed, due, project, attachErr,
                     mgrVars, tries>>
    BY DEF WizSend
<1>5. wiz' \in [Managers -> Wizard] /\ WizardAsks'
    BY <1>4, PollsNow
<1>6. CASE /\ http[m].st = "idle"
           /\ http' = [http EXCEPT ![m] = h]
           /\ err' = [err EXCEPT ![m][o] = "progress"]
           /\ file' = [file EXCEPT ![o] = [own |-> m, val |-> "part"]]
    <2>1. /\ http' = [http EXCEPT ![m] = h]
          /\ err' = [err EXCEPT ![m][o] = "progress"]
          /\ file' = [file EXCEPT ![o] = [own |-> m, val |-> "part"]]
        BY <1>6
    <2> HIDE DEF h, o
    <2>2. http' \in [Managers \cup {"AM"} -> GuiHttp] /\ HttpWorksFor'
        BY <1>2, <1>3, <2>1, SetupAssumption
        DEF SetupInv, TypeOK, HttpWorksFor
    <2>3. err' \in [Managers -> [Ops -> Errs]] /\ InProgressIsServed'
        BY <1>1, <1>2, <1>4, <1>6, <2>1, SetupAssumption
        DEF SetupInv, TypeOK, InProgressIsServed, Errs
    <2>4. file' \in [Ops -> [own : Managers \cup {None}, val : Replies]]
        BY <1>1, <2>1 DEF SetupInv, TypeOK, Replies
    <2>5. ManagerKnown' /\ ManagedHasManager'
        BY <1>4, <2>1, SetupAssumption
        DEF SetupInv, TypeOK, ManagerKnown, ManagedHasManager
    <2>6. QED
        BY <1>4, <1>5, <2>2, <2>3, <2>4, <2>5 DEF SetupInv, TypeOK
<1>7. ASSUME NEW x \in {"retry", "fail"}, err' = [err EXCEPT ![m][o] = x],
             http' = http,
             \/ file' = file
             \/ file' = [file EXCEPT ![o] = [own |-> None, val |-> None]]
      PROVE  SetupInv'
    <2> HIDE DEF o
    <2>1. err' \in [Managers -> [Ops -> Errs]] /\ InProgressIsServed'
        BY <1>1, <1>4, <1>7 DEF SetupInv, TypeOK, InProgressIsServed, Errs
    <2>2. file' \in [Ops -> [own : Managers \cup {None}, val : Replies]]
        BY <1>1, <1>7 DEF SetupInv, TypeOK, Replies
    <2>3. QED
        BY <1>4, <1>5, <1>7, <2>1, <2>2
        DEF SetupInv, TypeOK, HttpWorksFor, ManagerKnown, ManagedHasManager
<1>8. QED
    BY <1>6, <1>7 DEF WizSend

\* The project is attached or detached by its user.
LEMMA AttachInv ==
    ASSUME SetupInv, NEW m \in Managers, WizAttach(m) \/ DetachProject(m)
    PROVE  SetupInv'
<1> USE DEF connVars, mgrVars
<1>1. CASE WizAttach(m)
    <2>1. wiz' = [wiz EXCEPT ![m].step = "poll"]
          /\ UNCHANGED <<client, connVars, http, file, freed, due, mgrVars, tries>>
        BY <1>1 DEF WizAttach
    <2>2. wiz' \in [Managers -> Wizard] /\ WizardAsks'
        BY <2>1, PollsNow
    <2>3. /\ attachErr' \in Errs
          /\ \/ UNCHANGED project
             \/ /\ project' = [acct |-> wiz[m].auth, via |-> FALSE]
                /\ wiz[m].auth # None
        BY <1>1 DEF WizAttach, Errs, SetupInv, TypeOK
    <2>4. wiz[m].auth \in Accounts \cup {None}
        BY DEF SetupInv, TypeOK, Wizard
    <2>5. /\ project' \in {NoProject} \cup [acct : Accounts, via : BOOLEAN]
          /\ ManagedHasManager'
        <3>1. CASE UNCHANGED project
            BY <2>1, <3>1 DEF SetupInv, TypeOK, ManagedHasManager
        <3>2. CASE project' = [acct |-> wiz[m].auth, via |-> FALSE]
                   /\ wiz[m].auth # None
            BY <2>1, <2>4, <3>2 DEF ManagedHasManager
        <3>3. QED
            BY <2>3, <3>1, <3>2
    <2>6. QED
        BY <2>1, <2>2, <2>3, <2>5
        DEF SetupInv, TypeOK, HttpWorksFor, ManagerKnown, InProgressIsServed
<1>2. CASE DetachProject(m)
    <2>1. tries' \in 0..MaxTries
        BY <1>2, TryKeeps DEF DetachProject
    <2>2. NoProject.via = FALSE
        BY DEF NoProject
    <2>3. QED
        BY <1>2, <2>1, <2>2
        DEF DetachProject, SetupInv, TypeOK, HttpWorksFor, WizardAsks,
            ManagerKnown, InProgressIsServed, ManagedHasManager
<1>3. QED
    BY <1>1, <1>2

\* ACCT_MGR_OP::do_rpc with a URL: the request is sent, is refused, or its
\* file cannot be opened.
LEMMA SendRequestKeeps ==
    ASSUME SetupInv, NEW url \in AcctMgrs, SendRequest(url),
           UNCHANGED <<info, err>>
    PROVE  /\ http' \in [Managers \cup {"AM"} -> GuiHttp]
           /\ ami' \in Ami
           /\ amErr' \in Errs /\ lost' \in BOOLEAN
           /\ HttpWorksFor' /\ ManagerKnown' /\ InProgressIsServed'
<1> DEFINE h == Started("mgr", url)
<1>1. h \in GuiHttp /\ h.st = "busy" /\ h.op = "mgr" /\ h.arg = url
    BY DEF Started, GuiHttp, Args
<1>2. /\ http \in [Managers \cup {"AM"} -> GuiHttp]
      /\ ami \in Ami
      /\ lost \in BOOLEAN /\ "AM" \notin Managers
    BY SetupAssumption DEF SetupInv, TypeOK
<1>3. /\ ami' \in Ami
      /\ ami'.url # None
    BY <1>2, SetupAssumption DEF SendRequest, Ami
<1>4. CASE amErr' = "progress" /\ lost' = TRUE /\ UNCHANGED http
    BY <1>2, <1>3, <1>4
    DEF SetupInv, Errs, HttpWorksFor, ManagerKnown, InProgressIsServed
<1>5. CASE UNCHANGED <<lost, http>> /\ amErr' \in {"retry", "fail"}
    BY <1>2, <1>3, <1>5
    DEF SetupInv, Errs, HttpWorksFor, ManagerKnown, InProgressIsServed
<1>6. CASE lost' = FALSE /\ amErr' = "progress" /\ http' = [http EXCEPT !["AM"] = h]
    <2> HIDE DEF h
    <2>1. /\ http' \in [Managers \cup {"AM"} -> GuiHttp]
          /\ \A m \in Managers : http'[m] = http[m]
          /\ http'["AM"] = h
        BY <1>1, <1>2, <1>6
    <2>2. HttpWorksFor'
        BY <1>1, <2>1 DEF SetupInv, HttpWorksFor
    <2>3. InProgressIsServed'
        BY <1>1, <2>1 DEF SetupInv, InProgressIsServed
    <2>4. QED
        BY <1>2, <1>3, <1>6, <2>1, <2>2, <2>3 DEF Errs, SetupInv, ManagerKnown
<1>7. QED
    BY <1>4, <1>5, <1>6 DEF SendRequest

LEMMA MgrRpcInv ==
    ASSUME SetupInv, AcctMgrPoll \/ \E m \in Managers : MgrSend(m) \/ MgrDetach(m)
    PROVE  SetupInv'
<1> USE DEF connVars, mgrVars
<1>1. CASE AcctMgrPoll
    <2>1. /\ SendRequest(info.url) /\ amDue' = FALSE
          /\ UNCHANGED <<client, connVars, file, freed, due, wiz, project,
                         attachErr, info, tries>>
        BY <1>1 DEF AcctMgrPoll
    <2>2. info.url \in AcctMgrs
        BY <1>1 DEF AcctMgrPoll, SetupInv, TypeOK
    <2>3. /\ http' \in [Managers \cup {"AM"} -> GuiHttp]
          /\ ami' \in Ami
          /\ amErr' \in Errs /\ lost' \in BOOLEAN
          /\ HttpWorksFor' /\ ManagerKnown' /\ InProgressIsServed'
        BY <2>1, <2>2, SendRequestKeeps
    <2>4. QED
        BY <2>1, <2>3 DEF SetupInv, TypeOK, WizardAsks, ManagedHasManager
<1>2. ASSUME NEW m \in Managers, MgrSend(m) PROVE SetupInv'
    <2> DEFINE url == wiz[m].want
    <2>1. url \in AcctMgrs /\ url # None
        BY <1>2, SetupAssumption DEF MgrSend, SetupInv, WizardAsks
    <2>2. do_mgr_rpc(url)
        BY <1>2 DEF MgrSend
    <2> HIDE DEF url
    <2>3. /\ UNCHANGED <<amDue, client, err, reply, info, project>>
          /\ \/ amErr' = "fail" /\ UNCHANGED <<http, ami, lost>>
             \/ SendRequest(url)
        BY <2>1, <2>2 DEF do_mgr_rpc
    <2>4. wiz' = [wiz EXCEPT ![m].step = "poll"]
          /\ UNCHANGED <<gui_rpcs, file, freed, due, attachErr, tries>>
        BY <1>2 DEF MgrSend
    <2>5. wiz' \in [Managers -> Wizard] /\ WizardAsks'
        BY <2>4, PollsNow
    <2>6. /\ http' \in [Managers \cup {"AM"} -> GuiHttp]
          /\ ami' \in Ami
          /\ amErr' \in Errs /\ lost' \in BOOLEAN
          /\ HttpWorksFor' /\ ManagerKnown' /\ InProgressIsServed'
        <3>1. CASE SendRequest(url)
            BY <2>1, <2>3, <3>1, SendRequestKeeps
        <3>2. CASE amErr' = "fail" /\ UNCHANGED <<http, ami, lost>>
            BY <2>3, <3>2
            DEF SetupInv, TypeOK, Errs, HttpWorksFor, ManagerKnown, InProgressIsServed
        <3>3. QED
            BY <2>3, <3>1, <3>2
    <2>7. QED
        BY <2>3, <2>4, <2>5, <2>6 DEF SetupInv, TypeOK, ManagedHasManager
<1>3. ASSUME NEW m \in Managers, MgrDetach(m) PROVE SetupInv'
    <2>1. tries' \in 0..MaxTries
        BY <1>3, TryKeeps DEF MgrDetach
    <2>2. do_mgr_rpc(None)
          /\ UNCHANGED <<gui_rpcs, file, freed, due, wiz, attachErr>>
        BY <1>3 DEF MgrDetach
    <2>3. /\ amErr' \in {"ok", "fail"}
          /\ info' = [url |-> None, key |-> None]
          /\ project' = IF info.url = None THEN project
                        ELSE [project EXCEPT !.via = FALSE]
          /\ UNCHANGED <<amDue, client, err, reply, http, ami, lost>>
        BY <2>2 DEF do_mgr_rpc
    <2>4. /\ info' \in [url : AcctMgrs \cup {None}, key : AcctMgrs \cup {None}]
          /\ info'.key = None /\ info'.url = None
        BY <2>3
    <2>5. /\ project' \in {NoProject} \cup [acct : Accounts, via : BOOLEAN]
          /\ ManagedHasManager'
        <3>1. CASE info.url = None
            BY <2>3, <2>4, <3>1
            DEF SetupInv, TypeOK, ManagerKnown, ManagedHasManager
        <3>2. CASE info.url # None /\ project = NoProject
            <4>1. NoProject \in [acct : {None}, via : {FALSE}]
                BY DEF NoProject
            <4>2. project' \in [acct : {None}, via : {FALSE}]
                BY <2>3, <3>2, <4>1
            <4>3. project' = NoProject
                BY <2>3, <3>2 DEF NoProject
            <4>4. QED
                BY <4>2, <4>3 DEF ManagedHasManager
        <3>3. CASE info.url # None /\ project \in [acct : Accounts, via : BOOLEAN]
            BY <2>3, <3>3 DEF ManagedHasManager
        <3>4. QED
            BY <3>1, <3>2, <3>3 DEF SetupInv, TypeOK
    <2>6. HttpWorksFor' /\ WizardAsks' /\ ManagerKnown' /\ InProgressIsServed'
        BY <2>2, <2>3, <2>4
        DEF SetupInv, HttpWorksFor, WizardAsks, ManagerKnown, InProgressIsServed
    <2>7. QED
        BY <2>1, <2>2, <2>3, <2>4, <2>5, <2>6 DEF SetupInv, TypeOK, Errs
<1>4. QED
    BY <1>1, <1>2, <1>3

\* An HTTP operation ends, and its reply file with it.
LEMMA HttpDoneInv ==
    ASSUME SetupInv, NEW x \in Managers \cup {"AM"}, HttpDone(x)
    PROVE  SetupInv'
<1> USE DEF connVars, mgrVars
<1>1. PICK r \in {"ok", "fail"} :
        http' = [http EXCEPT ![x].st = "done", ![x].ret = r]
    BY DEF HttpDone
<1> DEFINE h == [http[x] EXCEPT !.st = "done", !.ret = r]
<1>2. http \in [Managers \cup {"AM"} -> GuiHttp] /\ http[x].st = "busy"
    BY DEF SetupInv, TypeOK, HttpDone
<1>3. h \in GuiHttp /\ h.st = "done" /\ h.op = http[x].op /\ h.arg = http[x].arg
    BY <1>2 DEF GuiHttp
<1>4. http' = [http EXCEPT ![x] = h]
    BY <1>1, <1>2
<1> HIDE DEF h
<1>5. /\ http' \in [Managers \cup {"AM"} -> GuiHttp]
      /\ \A y \in Managers \cup {"AM"} :
           /\ http'[y].op = http[y].op /\ http'[y].arg = http[y].arg
           /\ http'[y].st # "idle" <=> http[y].st # "idle"
    BY <1>2, <1>3, <1>4
<1>6. UNCHANGED <<connVars, freed, due, wiz, project, attachErr, mgrVars, tries>>
      /\ client' \in {"up", "segv"}
    BY DEF HttpDone
<1>7. HttpWorksFor' /\ ManagerKnown' /\ InProgressIsServed'
    BY <1>5, <1>6
    DEF SetupInv, HttpWorksFor, ManagerKnown, InProgressIsServed
<1>8. file' \in [Ops -> [own : Managers \cup {None}, val : Replies]]
    <2> DEFINE o == http[x].op
    <2>1. CASE UNCHANGED file
        BY <2>1 DEF SetupInv, TypeOK
    <2>2. CASE o \in Ops /\ ~UNCHANGED file
        <3>1. PICK v \in {http[x].arg, "error"} :
                file' = [file EXCEPT ![o] =
                  [own |-> None,
                   val |-> IF o = "config" /\ v = None THEN "config" ELSE v]]
            BY <2>2 DEF HttpDone
        <3>2. \/ o = "config" /\ http[x].arg = None
              \/ http[x].arg \in Accounts
            BY <1>2, <2>2 DEF SetupInv, HttpWorksFor, Ops
        <3>3. (IF o = "config" /\ v = None THEN "config" ELSE v) \in Replies
            BY <3>2 DEF Replies
        <3> HIDE DEF o
        <3>4. QED
            BY <2>2, <3>1, <3>3 DEF SetupInv, TypeOK
    <2>3. QED
        BY <2>1, <2>2 DEF HttpDone
<1>9. QED
    BY <1>5, <1>6, <1>7, <1>8
    DEF SetupInv, TypeOK, WizardAsks, ManagedHasManager

\* The reply of an operation of a connection is handed over.
LEMMA HandleReplyInv ==
    ASSUME SetupInv, NEW m \in Managers, http[m].st = "done", handle_reply(m),
           http' = [http EXCEPT ![m] = IdleHttp], due' = FALSE,
           UNCHANGED <<gui_rpcs, file, freed, wiz, attachErr, tries>>
    PROVE  SetupInv'
<1> USE DEF mgrVars
<1> DEFINE o == http[m].op
<1>1. o \in Ops
    BY DEF SetupInv, HttpWorksFor, Ops
<1>2. PICK e \in {"ok", "fail"} : err' = [err EXCEPT ![m][o] = e]
    BY DEF handle_reply
<1>3. reply' \in [Managers -> [Ops -> Replies]]
    <2>1. PICK v \in {reply[m][o], file[o].val} :
            reply' = [reply EXCEPT ![m][o] = v]
        BY DEF handle_reply
    <2>2. v \in Replies
        BY <1>1, <2>1 DEF SetupInv, TypeOK
    <2> HIDE DEF o
    <2>3. QED
        BY <1>1, <2>1, <2>2 DEF SetupInv, TypeOK
<1>4. UNCHANGED <<client, project, mgrVars>>
    BY DEF handle_reply
<1>5. /\ http' \in [Managers \cup {"AM"} -> GuiHttp]
      /\ http'[m].st = "idle"
      /\ \A y \in (Managers \cup {"AM"}) \ {m} : http'[y] = http[y]
    <2>1. IdleHttp \in GuiHttp /\ IdleHttp.st = "idle"
        BY DEF IdleHttp, GuiHttp, Args
    <2>2. QED
        BY <2>1 DEF SetupInv, TypeOK
<1>6. http'["AM"] = http["AM"]
    BY <1>5, SetupAssumption
<1>7. err' \in [Managers -> [Ops -> Errs]] /\ InProgressIsServed'
    <2> HIDE DEF o
    <2>1. err' \in [Managers -> [Ops -> Errs]]
        BY <1>1, <1>2 DEF SetupInv, TypeOK, Errs
    <2>2. ASSUME NEW n \in Managers, NEW p \in Ops, err'[n][p] = "progress"
          PROVE  http'[n].st # "idle" /\ http'[n].op = p
        <3>1. err[n][p] = "progress" /\ (n = m => p # o)
            BY <1>1, <1>2, <2>2 DEF SetupInv, TypeOK
        <3>2. n # m
            BY <3>1 DEF SetupInv, InProgressIsServed, o
        <3>3. QED
            BY <1>5, <3>1, <3>2 DEF SetupInv, InProgressIsServed
    <2>3. QED
        BY <1>4, <1>6, <2>1, <2>2 DEF SetupInv, InProgressIsServed
<1>8. HttpWorksFor' /\ ManagerKnown'
    BY <1>4, <1>5, <1>6 DEF SetupInv, HttpWorksFor, ManagerKnown
<1>9. QED
    BY <1>3, <1>4, <1>5, <1>7, <1>8
    DEF SetupInv, TypeOK, WizardAsks, ManagedHasManager

\* ACCT_MGR_OP::handle_reply, for one account: the project stays a project,
\* and is an account manager's only if it was, or by this reply.
LEMMA ApplyAccountKeeps ==
    ASSUME TypeOK, NEW a \in AmAccounts \cup {NoAccounts}, ApplyAccount(a), Up
    PROVE  /\ project' \in {NoProject} \cup [acct : Accounts, via : BOOLEAN]
           /\ client' \in {"up", "segv"}
<1> USE DEF Up
<1>1. project \in {NoProject} \cup [acct : Accounts, via : BOOLEAN]
    BY DEF TypeOK
<1>2. a.acct \in Accounts \cup {None}
    BY DEF AmAccounts, NoAccounts
<1>3. CASE a.what \in {"none", "unsigned"}
    BY <1>1, <1>3 DEF ApplyAccount
<1>4. CASE a.what = "detach"
    BY <1>4 DEF ApplyAccount
<1>5. CASE a.what \in {"attach", "quiet"} /\ project = NoProject
    <2>1. project' = IF a.acct = None THEN NoProject
                     ELSE [acct |-> a.acct, via |-> TRUE]
        BY <1>5 DEF ApplyAccount
    <2>2. client' \in {"up", "segv"}
        BY <1>5 DEF ApplyAccount
    <2>3. QED
        BY <1>2, <2>1, <2>2
<1>6. CASE a.what \in {"attach", "quiet"} /\ project # NoProject
    BY <1>1, <1>6 DEF ApplyAccount
<1>7. QED
    BY <1>3, <1>4, <1>5, <1>6 DEF AmAccounts, NoAccounts

\* What ACCT_MGR_OP keeps of the account manager stays in its type when a reply
\* sets its key and its last words.
LEMMA AmiSet ==
    ASSUME NEW z \in Ami, NEW k \in AcctMgrs \cup {None},
           NEW s \in AmAccounts \cup {ErrorReply}
    PROVE  [z EXCEPT !.key = k, !.said = s] \in Ami /\ z.url \in AcctMgrs \cup {None}
BY DEF Ami

\* A reply without accounts is one of the replies of an account manager.
LEMMA NoAccountsAllowed ==
    NoAccounts \in AmAccounts
BY DEF NoAccounts, AmAccounts

LEMMA ContactedKeeps ==
    ASSUME SetupInv, Up, http["AM"].st # "idle",
           NEW key \in AcctMgrs \cup {None}, NEW a \in AmAccounts \cup {NoAccounts},
           Contacted(key, a)
    PROVE  /\ project' \in {NoProject} \cup [acct : Accounts, via : BOOLEAN]
           /\ client' \in {"up", "segv"}
           /\ ami' \in Ami
           /\ info' \in [url : AcctMgrs \cup {None}, key : AcctMgrs \cup {None}]
           /\ info'.url = None <=> info'.key = None
           /\ ManagedHasManager'
           /\ amErr' = "ok" /\ amDue' \in BOOLEAN /\ lost' \in BOOLEAN
<1>1. /\ ami \in Ami
      /\ info \in [url : AcctMgrs \cup {None}, key : AcctMgrs \cup {None}]
      /\ lost \in BOOLEAN /\ client \in {"up", "segv"}
      /\ project \in {NoProject} \cup [acct : Accounts, via : BOOLEAN]
      /\ TypeOK
    BY DEF SetupInv, TypeOK
<1>2. /\ ami' = [ami EXCEPT !.key = key, !.said = a]
      /\ amErr' = "ok" /\ amDue' = FALSE /\ lost' = lost
    BY DEF Contacted
<1>3. ami' \in Ami /\ ami.url \in AcctMgrs \cup {None}
    BY <1>1, <1>2, AmiSet, NoAccountsAllowed
<1>4. CASE key # None /\ info.key \in {None, key}
    <2>1. info' = [url |-> ami.url, key |-> key] /\ ApplyAccount(a)
        BY <1>4 DEF Contacted
    <2>2. /\ project' \in {NoProject} \cup [acct : Accounts, via : BOOLEAN]
          /\ client' \in {"up", "segv"}
        BY <1>1, <2>1, ApplyAccountKeeps
    <2>3. ami.url # None
        BY DEF SetupInv, ManagerKnown
    <2>4. /\ info' \in [url : AcctMgrs \cup {None}, key : AcctMgrs \cup {None}]
          /\ info'.url # None /\ info'.key # None
        BY <1>3, <1>4, <2>1, <2>3
    <2>5. QED
        BY <1>1, <1>2, <1>3, <2>2, <2>4 DEF ManagedHasManager
<1>5. CASE ~(key # None /\ info.key \in {None, key})
    <2>1. UNCHANGED <<client, project, info>>
        BY <1>5 DEF Contacted
    <2>2. QED
        BY <1>1, <1>2, <1>3, <2>1 DEF SetupInv, ManagerKnown, ManagedHasManager
<1>6. QED
    BY <1>4, <1>5

LEMMA MgrReplyInv ==
    ASSUME SetupInv, Up, http["AM"].st = "done", handle_mgr_reply,
           http' = [http EXCEPT !["AM"] = IdleHttp], due' = FALSE,
           UNCHANGED <<gui_rpcs, file, freed, wiz, attachErr, tries>>
    PROVE  SetupInv'
<1>1. /\ http' \in [Managers \cup {"AM"} -> GuiHttp]
      /\ http'["AM"].st = "idle"
      /\ \A m \in Managers : http'[m] = http[m]
    <2>1. IdleHttp \in GuiHttp /\ IdleHttp.st = "idle"
        BY DEF IdleHttp, GuiHttp, Args
    <2>2. QED
        BY <2>1, SetupAssumption DEF SetupInv, TypeOK
<1>2. /\ project' \in {NoProject} \cup [acct : Accounts, via : BOOLEAN]
      /\ client' \in {"up", "segv"}
      /\ ami' \in Ami
      /\ info' \in [url : AcctMgrs \cup {None}, key : AcctMgrs \cup {None}]
      /\ info'.url = None <=> info'.key = None
      /\ ManagedHasManager'
      /\ amErr' \in Errs /\ amDue' \in BOOLEAN /\ lost' \in BOOLEAN
      /\ lost' \/ amErr' # "progress"
    <2>1. CASE amErr' = "fail" /\ UNCHANGED <<client, project, ami, info, amDue, lost>>
        BY <2>1 DEF SetupInv, TypeOK, Errs, ManagerKnown, ManagedHasManager
    <2>0. ami \in Ami /\ ami.key \in AcctMgrs \cup {None}
          /\ ami.said \in AmAccounts \cup {ErrorReply}
        BY DEF SetupInv, TypeOK, Ami
    <2>2. CASE Unopened
        <3>1. CASE Contacted(ami.key, ami.said) /\ ami.said # ErrorReply
            BY <2>0, <3>1, ContactedKeeps DEF Errs
        <3>2. CASE /\ lost' = TRUE /\ amErr' \in {"fail", amErr}
                   /\ UNCHANGED <<client, project, ami, info, amDue>>
            BY <3>2 DEF SetupInv, TypeOK, Errs, ManagerKnown, ManagedHasManager
        <3>3. QED
            BY <2>2, <3>1, <3>2 DEF Unopened
    <2>3. CASE Contacted(ami.key, NoAccounts)
        BY <2>0, <2>3, ContactedKeeps DEF Errs
    <2>6. ASSUME NEW key \in {ami.key, http["AM"].arg}, NEW s \in {ErrorReply, NoAccounts},
                 amErr' = "fail", ami' = [ami EXCEPT !.key = key, !.said = s],
                 UNCHANGED <<client, project, info, amDue, lost>>
          PROVE  <1>2!:
        <3>1. key \in AcctMgrs \cup {None}
            BY <2>0 DEF SetupInv, HttpWorksFor
        <3>2. ami' \in Ami
            BY <2>0, <2>6, <3>1, AmiSet, NoAccountsAllowed
        <3>3. QED
            BY <2>6, <3>2 DEF SetupInv, TypeOK, Errs, ManagerKnown, ManagedHasManager
    <2>4. ASSUME NEW a \in AmAccounts, Contacted(http["AM"].arg, a)
          PROVE  <1>2!:
        <3>1. http["AM"].arg \in AcctMgrs
            BY DEF SetupInv, HttpWorksFor
        <3>2. QED
            BY <2>4, <3>1, ContactedKeeps DEF Errs
    <2>5. QED
        BY <2>1, <2>2, <2>3, <2>4, <2>6 DEF handle_mgr_reply
<1>3. UNCHANGED <<err, reply>>
    BY DEF handle_mgr_reply
<1>4. HttpWorksFor' /\ ManagerKnown' /\ InProgressIsServed'
    BY <1>1, <1>2, <1>3
    DEF SetupInv, HttpWorksFor, ManagerKnown, InProgressIsServed
<1>5. QED
    BY <1>1, <1>2, <1>3, <1>4 DEF SetupInv, TypeOK, WizardAsks

LEMMA PollInv == SetupInv /\ Poll => SetupInv'
<1> SUFFICES ASSUME SetupInv, Poll PROVE SetupInv'
    OBVIOUS
<1> USE DEF mgrVars
<1> DEFINE x == Turns[First]
<1>1. x \in Managers \cup {"AM"} /\ Up /\ due' = FALSE
      /\ UNCHANGED <<gui_rpcs, file, freed, wiz, attachErr, tries>>
    BY FirstTurn DEF SetupInv, Poll
<1>2. CASE http[x].st # "done"
    <2>1. UNCHANGED <<client, err, reply, http, project, mgrVars>>
        BY <1>2 DEF Poll
    <2>2. tries' \in 0..MaxTries
        BY <1>1 DEF SetupInv, TypeOK
    <2>3. due' \in BOOLEAN /\ amDue' \in BOOLEAN
        BY <1>1, <2>1 DEF SetupInv, TypeOK
    <2> HIDE DEF x
    <2>4. QED
        BY <1>1, <2>1, <2>2, <2>3, QuietStep DEF connVars
<1>3. CASE http[x].st = "done" /\ x \in Managers
    <2>1. http' = [http EXCEPT ![x] = IdleHttp] /\ handle_reply(x)
        BY <1>3, SetupAssumption DEF Poll
    <2> HIDE DEF x
    <2>2. QED
        BY <1>1, <1>3, <2>1, HandleReplyInv
<1>4. CASE http[x].st = "done" /\ x = "AM"
    <2>1. http' = [http EXCEPT !["AM"] = IdleHttp] /\ handle_mgr_reply
        BY <1>4 DEF Poll
    <2> HIDE DEF x
    <2>2. QED
        BY <1>1, <1>4, <2>1, MgrReplyInv
<1>5. QED
    BY <1>1, <1>2, <1>3, <1>4

-----------------------------------------------------------------------------
LEMMA SetupStepInv == SetupInv /\ [Next]_vars => SetupInv'
<1> SUFFICES ASSUME SetupInv, [Next]_vars PROVE SetupInv'
    OBVIOUS
<1> tries \in 0..MaxTries /\ due \in BOOLEAN /\ amDue \in BOOLEAN
    BY DEF SetupInv, TypeOK
<1>1. CASE UNCHANGED vars \/ Tick
    BY <1>1, QuietStep DEF vars, Tick, mgrVars
<1>2. CASE NextDay
    <2>1. tries' \in 0..MaxTries
        BY <1>2, TryKeeps DEF NextDay
    <2>2. QED
        BY <1>2, <2>1, QuietStep DEF NextDay
<1>3. CASE Poll
    BY <1>3, PollInv
<1>4. ASSUME NEW x \in Managers \cup {"AM"}, HttpDone(x) PROVE SetupInv'
    BY <1>4, HttpDoneInv
<1>5. ASSUME NEW m \in Managers, User(m) \/ Wiz(m) PROVE SetupInv'
    BY <1>5, ConnectionInv, WizardInv, WizSendInv, AttachInv, MgrRpcInv
    DEF User, Wiz
<1>6. CASE AcctMgrPoll
    BY <1>6, MgrRpcInv
<1>7. QED
    BY <1>1, <1>2, <1>3, <1>4, <1>5, <1>6 DEF Next, Loop

LEMMA SetupAlways == Spec => []SetupInv
BY SetupInitInv, SetupStepInv, PTL DEF Spec

\* Every variable keeps its type: no reply is ever stored where another kind
\* of reply is expected.
THEOREM TypeCorrect == Spec => []TypeOK
<1>1. SetupInv => TypeOK BY DEF SetupInv
<1>2. QED BY <1>1, SetupAlways, PTL

\* An operation of a connection that says ERR_IN_PROGRESS is the one its
\* GUI_HTTP works for, however many managers ask, give up and disconnect.
THEOREM InProgressServed == Spec => []InProgressIsServed
<1>1. SetupInv => InProgressIsServed BY DEF SetupInv
<1>2. QED BY <1>1, SetupAlways, PTL

\* A project that only the account manager may detach has an account
\* manager, whichever requests and replies cross.
THEOREM ManagedProjects == Spec => []ManagedHasManager
<1>1. SetupInv => ManagedHasManager BY DEF SetupInv
<1>2. QED BY <1>1, SetupAlways, PTL
=============================================================================
