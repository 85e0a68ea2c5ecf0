-------------------------- MODULE StateFileProofs --------------------------
(***************************************************************************)
(* write_state_file and parse_state_file implement StateStore, for every   *)
(* set of states, any number of attempts, failures and crashes.            *)
(***************************************************************************)
EXTENDS StateFile, TLAPS

FileIInv == FileTypeOK /\ FileInv

LEMMA FileInitInv == FileInit => FileIInv
BY FileAssumption DEF FileInit, FileIInv, FileTypeOK, FileInv

\* Every step keeps the last completed write in one of the files the next
\* start looks at, and nothing older in a file it looks at before.
LEMMA FileStepInv == FileIInv /\ [FileNext]_fileVars => FileIInv'
<1> SUFFICES ASSUME FileIInv, [FileNext]_fileVars PROVE FileIInv'
  OBVIOUS
<1> USE FileAssumption DEF FileIInv, FileTypeOK, FileInv, Same, To, Again, GoOn
<1>1. CASE UNCHANGED fileVars BY <1>1 DEF fileVars
<1>2. CASE FileRead BY <1>2 DEF FileRead, FileFound, Valid
<1>3. ASSUME NEW v \in Values, FileBegin(v) PROVE FileIInv'
  BY <1>3 DEF FileBegin
<1>4. CASE FileOpen BY <1>4 DEF FileOpen
<1>5. CASE FileWrite BY <1>5 DEF FileWrite
<1>6. CASE FileDropPrev BY <1>6 DEF FileDropPrev
<1>7. CASE FileKeepName BY <1>7 DEF FileKeepName
<1>8. CASE FileReplaceName BY <1>8 DEF FileReplaceName
<1>9. CASE FileReturn BY <1>9 DEF FileReturn
<1>10. CASE FileCrash BY <1>10 DEF FileCrash
<1>11. QED
  BY <1>1, <1>2, <1>3, <1>4, <1>5, <1>6, <1>7, <1>8, <1>9, <1>10
  DEF FileNext, FileStep

\* The states of the three files and of the writer are always as the step
\* of write_state_file that comes next expects them.
THEOREM FileTypeCorrect == FileSpec => []FileTypeOK
<1>1. FileIInv => FileTypeOK BY DEF FileIInv
<1>2. QED BY <1>1, FileInitInv, FileStepInv, PTL DEF FileSpec

\* The last completed write is always in the current file, or in the
\* previous one while there is no current file.
THEOREM FileInvariant == FileSpec => []FileInv
<1>1. FileIInv => FileInv BY DEF FileIInv
<1>2. QED BY <1>1, FileInitInv, FileStepInv, PTL DEF FileSpec

\* A start reads the last completed write or a later one.
LEMMA FileReadStores == FileIInv /\ FileRead => Store!StoreRead
<1> SUFFICES ASSUME FileIInv, FileRead PROVE Store!StoreRead
  OBVIOUS
<1> USE FileAssumption DEF FileIInv, FileTypeOK, FileInv, Valid
<1>1. CASE Valid("next")
  <2>1. FileFound \in maybe BY <1>1 DEF FileFound
  <2>2. QED BY <2>1 DEF FileRead, Store!StoreRead
<1>2. CASE ~Valid("next")
  <2>1. FileFound = acked BY <1>2 DEF FileFound
  <2>2. QED BY <2>1 DEF FileRead, Store!StoreRead
<1>3. QED BY <1>1, <1>2

LEMMA FileStepStores ==
  FileIInv /\ [FileNext]_fileVars => [Store!StoreNext]_(Store!storeVars)
<1> SUFFICES ASSUME FileIInv, [FileNext]_fileVars
             PROVE  [Store!StoreNext]_(Store!storeVars)
  OBVIOUS
<1> USE DEF Store!StoreNext, Store!storeVars, Same
<1>1. CASE UNCHANGED fileVars BY <1>1 DEF fileVars
<1>2. CASE FileRead BY <1>2, FileReadStores
<1>3. ASSUME NEW v \in Values, FileBegin(v) PROVE Store!StoreNext
  BY <1>3 DEF FileBegin, Store!StoreBegin
<1>4. CASE FileOpen BY <1>4 DEF FileOpen
<1>5. CASE FileWrite BY <1>5 DEF FileWrite
<1>6. CASE FileDropPrev BY <1>6 DEF FileDropPrev
<1>7. CASE FileKeepName BY <1>7 DEF FileKeepName
<1>8. CASE FileReplaceName
  <2>1. writing \in Values /\ writing \in maybe
    BY <1>8 DEF FileIInv, FileTypeOK, FileInv, FileReplaceName
  <2>2. QED BY <1>8, <2>1 DEF FileReplaceName, Store!StoreDone
<1>9. CASE FileReturn BY <1>9 DEF FileReturn
<1>10. CASE FileCrash BY <1>10 DEF FileCrash
<1>11. QED
  BY <1>1, <1>2, <1>3, <1>4, <1>5, <1>6, <1>7, <1>8, <1>9, <1>10
  DEF FileNext, FileStep

\* The refinement: whatever fails and whenever the client stops, the state
\* file behaves as the store the rest of the client relies on.
THEOREM FileImplementsStore == FileSpec => StateKept
<1>1. FileInit => Store!StoreInit BY DEF FileInit, Store!StoreInit
<1>2. FileSpec => []FileIInv BY FileInitInv, FileStepInv, PTL DEF FileSpec
<1>3. QED
  BY <1>1, <1>2, FileStepStores, PTL DEF FileSpec, StateKept, Store!StoreSpec
=============================================================================
