------------------------------ MODULE StateFile ------------------------------
(***************************************************************************)
(* The state file: CLIENT_STATE::write_state_file, step by step, and the   *)
(* choice parse_state_file makes between client_state_next.xml,            *)
(* client_state.xml and client_state_prev.xml.  Every system call may      *)
(* fail, and the client may crash between any two of them.                 *)
(***************************************************************************)
EXTENDS Naturals

CONSTANTS
    Values,       \* states of the client that are written
    None,         \* no file
    Partial,      \* a file without the closing tag
    MaxAttempts   \* MAX_STATE_FILE_WRITE_ATTEMPTS

ASSUME FileAssumption ==
    /\ None \notin Values /\ Partial \notin Values /\ None # Partial
    /\ MaxAttempts \in Nat \ {0}

VARIABLES
    file,         \* what the three files hold
    wpc,          \* where write_state_file is; "idle", "done" and "failed"
                  \*   outside of it, "down" when the client does not run
    attempt,
    writing,      \* the state that is being written
    acked, maybe, loaded   \* see StateStore

fileVars == <<file, wpc, attempt, writing, acked, maybe, loaded>>

FileInit ==
    /\ file = [n \in {"next", "name", "prev"} |-> None]
    /\ wpc = "down" /\ attempt = 1 /\ writing = None
    /\ acked = None /\ maybe = {} /\ loaded = None

Valid(n) == file[n] \in Values

\* Mutant of FileFound: the previous file before the current one.
FileFoundPrev ==
    IF Valid("next") THEN file["next"]
    ELSE IF Valid("prev") THEN file["prev"]
    ELSE IF Valid("name") THEN file["name"] ELSE None

\* valid_state_file decides: the first of the three that is complete.
FileFound ==
    IF Valid("next") THEN file["next"]
    ELSE IF Valid("name") THEN file["name"]
    ELSE IF Valid("prev") THEN file["prev"] ELSE None

-----------------------------------------------------------------------------
\* The client starts, and reads what it finds.
FileRead ==
    /\ wpc = "down"
    /\ wpc' = "idle" /\ loaded' = FileFound
    /\ UNCHANGED <<file, attempt, writing, acked, maybe>>

\* A call of write_state_file.
FileBegin(v) ==
    /\ wpc = "idle"
    /\ wpc' = "open" /\ attempt' = 1 /\ writing' = v
    /\ maybe' = maybe \cup {v} /\ loaded' = None
    /\ UNCHANGED <<file, acked>>

\* Mutant of Again: one attempt too many.
AgainOnce ==
    IF attempt <= MaxAttempts
    THEN wpc' = "open" /\ attempt' = attempt + 1
    ELSE wpc' = "failed" /\ UNCHANGED attempt
\* A step has failed: another attempt, or an error code.
Again ==
    IF attempt < MaxAttempts
    THEN wpc' = "open" /\ attempt' = attempt + 1
    ELSE wpc' = "failed" /\ UNCHANGED attempt
\* A failure that the last attempt ignores.
GoOn(l) ==
    IF attempt < MaxAttempts
    THEN wpc' = "open" /\ attempt' = attempt + 1
    ELSE wpc' = l /\ UNCHANGED attempt

Same == UNCHANGED <<writing, acked, maybe, loaded>>
To(l) == wpc' = l /\ UNCHANGED attempt

\* std::ofstream(STATE_FILE_NEXT) truncates the file.
FileOpen ==
    /\ wpc = "open"
    /\ Same
    /\ \/ To("write") /\ file' = [file EXCEPT !["next"] = Partial]
       \/ Again /\ UNCHANGED file

\* write_state and close.
FileWrite ==
    /\ wpc = "write"
    /\ Same
    /\ \/ /\ To("old")
          /\ file' = [file EXCEPT !["next"] = writing]
       \/ Again /\ UNCHANGED file

\* Mutant of FileDropPrev: the previous file goes in any case.
FileDropPrevAlways ==
    /\ wpc = "old"
    /\ Same
    /\ To("keep") /\ file' = [file EXCEPT !["prev"] = None]

\* Only if there is a current file, the previous one makes room for it.
FileDropPrev ==
    /\ wpc = "old"
    /\ Same
    /\ IF file["name"] = None
       THEN To("replace") /\ UNCHANGED file
       ELSE \/ To("keep") /\ file' = [file EXCEPT !["prev"] = None]
            \/ file["prev"] # None /\ GoOn("keep") /\ UNCHANGED file

\* STATE_FILE_NAME becomes STATE_FILE_PREV.
FileKeepName ==
    /\ wpc = "keep"
    /\ Same
    /\ \/ /\ To("replace")
          /\ file' = [file EXCEPT !["prev"] = file["name"], !["name"] = None]
       \/ GoOn("replace") /\ UNCHANGED file

\* STATE_FILE_NEXT becomes STATE_FILE_NAME: the write is done.
FileReplaceName ==
    /\ wpc = "replace"
    /\ UNCHANGED <<writing, loaded>>
    /\ \/ /\ To("done")
          /\ file' = [file EXCEPT !["name"] = file["next"], !["next"] = None]
          /\ acked' = writing /\ maybe' = {}
       \/ Again /\ UNCHANGED <<file, acked, maybe>>

\* write_state_file returns to a caller that goes on whatever it returns.
FileReturn ==
    /\ wpc \in {"done", "failed"}
    /\ wpc' = "idle" /\ attempt' = 1 /\ writing' = None
    /\ UNCHANGED <<file, acked, maybe, loaded>>

\* The client stops for whatever reason: the files stay.
FileCrash ==
    /\ wpc # "down"
    /\ wpc' = "down" /\ attempt' = 1 /\ writing' = None
    /\ UNCHANGED <<file, acked, maybe, loaded>>

FileStep ==
    FileOpen \/ FileWrite \/ FileDropPrev \/ FileKeepName \/ FileReplaceName

FileNext ==
    \/ FileRead \/ (\E v \in Values : FileBegin(v)) \/ FileStep
    \/ FileReturn \/ FileCrash

FileSpec == FileInit /\ [][FileNext]_fileVars

-----------------------------------------------------------------------------
\* The refinement mapping: of the three files and the position in
\* write_state_file the store only shows what was acknowledged, what may
\* have reached the disk since, and what the last start has read.
Store == INSTANCE StateStore
             WITH Values <- Values, None <- None,
                  acked <- acked, maybe <- maybe, loaded <- loaded

(***************************************************************************)
(* write_state_file and parse_state_file keep the promise of StateStore:   *)
(* whatever fails and whenever the client stops, the next start reads the  *)
(* last state that was reported as written, or one whose write was begun   *)
(* after it.                                                               *)
(***************************************************************************)
StateKept == Store!StoreSpec

FileTypeOK ==
    /\ file \in [{"next", "name", "prev"} -> Values \cup {None, Partial}]
    /\ wpc \in {"down", "idle", "open", "write", "old", "keep", "replace",
                "done", "failed"}
    /\ attempt \in 1..MaxAttempts
    /\ writing \in Values \cup {None}
    /\ acked \in Values \cup {None} /\ loaded \in Values \cup {None}
    /\ maybe \in SUBSET Values

(***************************************************************************)
(* The last completed write is in the current file, or, while there is no  *)
(* current file, in the previous one, which must then stay; what the next  *)
(* file holds, if it is complete, is newer.                                *)
(***************************************************************************)
FileInv ==
    /\ file[IF file["name"] = None THEN "prev" ELSE "name"] = acked
    /\ file["next"] \in {None, Partial} \cup maybe
    /\ wpc \in {"open", "write", "old", "keep", "replace"} =>
         writing \in maybe
    /\ wpc \in {"old", "keep", "replace"} => file["next"] = writing
    /\ wpc = "keep" => file["name"] # None
=============================================================================
