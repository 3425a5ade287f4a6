--------------------------- MODULE FileStoreProofs ---------------------------
(***************************************************************************)
(* FileStore implements TokenStore, for any writers, readers, token sets   *)
(* and sizes, on a disk of any size.                                       *)
(*                                                                         *)
(* Two facts about inodes carry the refinement.  Nobody but the writers    *)
(* can reach the file at the temporary name (Apart), so that what happens  *)
(* to it shows nowhere before the rename.  And if the writers take turns,  *)
(* the only descriptor that is open for writing is that of the temporary   *)
(* file, which holds all of the token set when it is renamed (InTurn).     *)
(***************************************************************************)
EXTENDS FileStore, TLAPS

\* The temporary file is neither the token file nor one that is being read.
Apart ==
  tmp # NoFile => tmp # path /\ \A r \in Readers : rfd[r] # tmp

\* A writer has a token set exactly while it saves.
Saving == \A w \in Writers : step[w] # "idle" => value[w] \in Values

InTurn ==
  /\ \A w, u \in Writers : step[w] # "idle" /\ step[u] # "idle" => w = u
  /\ \A w \in Writers :
       /\ step[w] = "opened" => wfd[w] = tmp /\ data[tmp] = Nothing
       /\ step[w] = "written" => tmp # NoFile /\ data[tmp] = value[w]

FileInv == TypeOK /\ Apart /\ Saving /\ (alone => InTurn)

-----------------------------------------------------------------------------
(* The invariant *)

\* The end of a save, however it came.
LEMMA EndEffect ==
  ASSUME TypeOK, NEW w \in Writers, End(w)
  PROVE  /\ alone' = alone /\ rfd' = rfd /\ got' = got
         /\ step' \in [Writers -> Steps] /\ wfd' \in [Writers -> File]
         /\ value' \in [Writers -> Values \cup {Nothing}]
         /\ step'[w] = "idle" /\ wfd'[w] = NoFile /\ value'[w] = Nothing
         /\ \A u \in Writers \ {w} :
              step'[u] = step[u] /\ wfd'[u] = wfd[u] /\ value'[u] = value[u]
BY DEF End, TypeOK, Steps, File, reader

\* There is no temporary file at the start, and nobody saves.
LEMMA FileInit == Init => FileInv
<1>. SUFFICES ASSUME Init PROVE FileInv
  OBVIOUS
<1>1. data \in [Inodes -> Content] /\ path \in File
  BY DEF Init, Content, File
<1>2. TypeOK
  BY <1>1, ConstantsAssumption DEF Init, TypeOK, Steps, File, Content
<1>. QED
  BY <1>2 DEF Init, FileInv, Apart, Saving, InTurn

\* Types, action by action.
LEMMA TypeStep == TypeOK /\ [Next]_vars => TypeOK'
<1>. SUFFICES ASSUME TypeOK, [Next]_vars PROVE TypeOK'
  OBVIOUS
<1>. USE ConstantsAssumption
<1>1. CASE UNCHANGED vars
  BY <1>1 DEF TypeOK, vars
<1>2. ASSUME NEW w \in Writers, Begin(w) PROVE TypeOK'
  BY <1>2 DEF TypeOK, Begin, Steps, names, reader
<1>3. ASSUME NEW w \in Writers, Open(w) PROVE TypeOK'
  <2>1. PICK i \in Inodes : /\ tmp' = i
                            /\ wfd' = [wfd EXCEPT ![w] = i]
                            /\ data' = [data EXCEPT ![i] = Nothing]
    BY <1>3 DEF Open, TypeOK, File, Free
  <2>. QED
    BY <1>3, <2>1 DEF TypeOK, Open, Steps, File, Content, reader
<1>4. ASSUME NEW w \in Writers, Write(w) PROVE TypeOK'
  <2>1. wfd[w] \in Inodes /\ value[w] \in Content
    BY <1>4 DEF Write, TypeOK, File, Content
  <2>2. Overwrite(value[w], data[wfd[w]]) \in Content
    BY <2>1 DEF Overwrite, Content
  <2>3. data' \in [Inodes -> Content]
    BY <1>4, <2>1, <2>2 DEF Write, TypeOK
  <2>. QED
    BY <1>4, <2>3 DEF TypeOK, Write, Steps, File, names, reader
<1>5. ASSUME NEW w \in Writers, WriteFails(w) PROVE TypeOK'
  <2>1. data' \in [Inodes -> Content]
    BY <1>5 DEF WriteFails, TypeOK, Content
  <2>. QED
    BY <1>5, <2>1, EndEffect DEF TypeOK, WriteFails, names
<1>6. ASSUME NEW w \in Writers, Rename(w) \/ RenameFails(w) \/ Crash(w) PROVE TypeOK'
  <2>1. End(w) /\ path' \in File /\ tmp' \in File /\ data' = data
    BY <1>6 DEF Rename, RenameFails, Crash, TypeOK, File, names
  <2>2. step[w] # "opened" \/ wfd'[w] = NoFile
    BY <2>1, EndEffect
  <2>. QED
    BY <2>1, EndEffect DEF TypeOK
<1>7. ASSUME NEW r \in Readers, OpenForRead(r) \/ Read(r) \/ ReadMissing(r) PROVE TypeOK'
  BY <1>7 DEF TypeOK, OpenForRead, Read, ReadMissing, File, Content, names, writer
<1>8. CASE Delete
  BY <1>8 DEF TypeOK, Delete, File, writer, reader
<1>. QED
  BY <1>1, <1>2, <1>3, <1>4, <1>5, <1>6, <1>7, <1>8 DEF Next

\* Only Open fills the temporary name, with a file of its own; only Rename moves it.
LEMMA ApartStep == TypeOK /\ Apart /\ [Next]_vars => Apart'
<1>. SUFFICES ASSUME TypeOK, Apart, [Next]_vars PROVE Apart'
  OBVIOUS
<1>1. CASE UNCHANGED <<path, tmp, rfd>>
  BY <1>1 DEF Apart
<1>2. ASSUME NEW w \in Writers, Open(w) PROVE Apart'
  BY <1>2 DEF Apart, Open, Free, Used, reader
<1>3. ASSUME NEW w \in Writers, Rename(w) PROVE Apart'
  BY <1>3 DEF Apart, Rename
<1>4. ASSUME NEW r \in Readers, OpenForRead(r) \/ Read(r) PROVE Apart'
  BY <1>4 DEF Apart, OpenForRead, Read, TypeOK, names, writer
<1>5. CASE Delete
  BY <1>5 DEF Apart, Delete, reader
<1>. QED
  BY <1>1, <1>2, <1>3, <1>4, <1>5
  DEF Next, Begin, Write, WriteFails, RenameFails, Crash, End, ReadMissing, names, reader, vars

\* A save keeps its token set until its end.
LEMMA SavingStep == TypeOK /\ Saving /\ [Next]_vars => Saving'
<1>. SUFFICES ASSUME TypeOK, Saving, [Next]_vars PROVE Saving'
  OBVIOUS
<1>1. CASE UNCHANGED <<step, value>>
  BY <1>1 DEF Saving
<1>2. ASSUME NEW w \in Writers, Begin(w) PROVE Saving'
  BY <1>2 DEF Saving, Begin, TypeOK
<1>3. ASSUME NEW w \in Writers, Open(w) \/ Write(w) PROVE Saving'
  BY <1>3 DEF Saving, Open, Write, TypeOK
<1>4. ASSUME NEW w \in Writers, End(w) PROVE Saving'
  BY <1>4, EndEffect DEF Saving
<1>. QED
  BY <1>1, <1>2, <1>3, <1>4
  DEF Next, WriteFails, Rename, RenameFails, Crash, OpenForRead, Read, ReadMissing, Delete,
      writer, vars

\* A writer that is alone writes the file it created, all of it, and renames that.
LEMMA InTurnStep ==
  TypeOK /\ Apart /\ Saving /\ alone /\ InTurn /\ [Next]_vars => InTurn'
<1>. SUFFICES ASSUME TypeOK, Apart, Saving, alone, InTurn, [Next]_vars PROVE InTurn'
  OBVIOUS
<1>1. CASE UNCHANGED <<tmp, data, step, wfd, value>>
  BY <1>1 DEF InTurn
<1>2. ASSUME NEW w \in Writers, Begin(w) PROVE InTurn'
  BY <1>2 DEF InTurn, Begin, TypeOK, names
<1>3. ASSUME NEW w \in Writers, Open(w) PROVE InTurn'
  <2>1. \A u \in Writers \ {w} : step[u] = "idle"
    BY <1>3 DEF InTurn, Open
  <2>2. PICK i \in Inodes : /\ tmp' = i
                            /\ wfd' = [wfd EXCEPT ![w] = i]
                            /\ data' = [data EXCEPT ![i] = Nothing]
    BY <1>3 DEF Open, TypeOK, File, Free
  <2>3. /\ step'[w] = "opened" /\ wfd'[w] = i /\ data'[i] = Nothing
        /\ \A u \in Writers \ {w} : step'[u] = "idle"
    BY <1>3, <2>1, <2>2 DEF Open, TypeOK
  <2>. QED
    BY <2>2, <2>3 DEF InTurn
<1>4. ASSUME NEW w \in Writers, Write(w) PROVE InTurn'
  <2>1. \A u \in Writers \ {w} : step[u] = "idle"
    BY <1>4 DEF InTurn, Write
  <2>2. wfd[w] = tmp /\ tmp \in Inodes /\ data[tmp] = Nothing
    BY <1>4 DEF InTurn, Write, TypeOK, File
  <2>3. /\ tmp' = tmp /\ tmp' # NoFile /\ data'[tmp] = value[w] /\ value' = value
        /\ step'[w] = "written" /\ \A u \in Writers \ {w} : step'[u] = "idle"
    BY <1>4, <2>1, <2>2, ConstantsAssumption DEF Write, Overwrite, TypeOK, names
  <2>. QED
    BY <2>3 DEF InTurn
<1>5. ASSUME NEW w \in Writers, End(w), step[w] # "idle" PROVE InTurn'
  <2>1. \A u \in Writers : step'[u] = "idle"
    BY <1>5, EndEffect DEF InTurn
  <2>. QED
    BY <2>1 DEF InTurn
<1>. QED
  BY <1>1, <1>2, <1>3, <1>4, <1>5
  DEF Next, WriteFails, Rename, RenameFails, Crash, OpenForRead, Read, ReadMissing, Delete,
      names, writer, vars

\* All of it, with writers that are alone or not for the whole run.
LEMMA FileStep == FileInv /\ [Next]_vars => FileInv'
<1>1. [Next]_vars => alone' = alone
  BY DEF Next, Begin, Open, Write, WriteFails, Rename, RenameFails, Crash, End, OpenForRead, Read,
         ReadMissing, Delete, writer, vars
<1>. QED
  BY <1>1, TypeStep, ApartStep, SavingStep, InTurnStep DEF FileInv

\* The strengthened invariant: the temporary file shows nowhere, and holds all of
\* a token set when a writer that is alone renames it (store.go:103-121).
THEOREM FileInvariant == Spec => []FileInv
BY FileInit, FileStep, PTL DEF Spec

\* Every variable keeps its type, and no descriptor leaks.
THEOREM FileTypeCorrect == Spec => []TypeOK
<1>1. FileInv => TypeOK
  BY DEF FileInv
<1>. QED
  BY <1>1, FileInvariant, PTL

\* Only a deletion removes the token file, even if savers share the temporary name.
THEOREM FileIsKept == Spec => OnlyDeleteRemoves
<1>1. [Next]_vars => [path # NoFile /\ path' = NoFile => Delete]_vars
  BY DEF Next, Begin, Open, Write, WriteFails, Rename, RenameFails, Crash, End, OpenForRead, Read,
         ReadMissing, Delete, names, vars
<1>. QED
  BY <1>1, PTL DEF Spec, OnlyDeleteRemoves

-----------------------------------------------------------------------------
(* The refinement *)

\* What writers do to another file than the token file shows nowhere.
LEMMA Unseen ==
  ASSUME TypeOK, NEW i \in Inodes, NEW c, data' = [data EXCEPT ![i] = c],
         path # i, \A r \in Readers : rfd[r] # i,
         UNCHANGED <<path, rfd, got>>
  PROVE  Reg' = Reg /\ Got' = Got
<1>1. \A j \in Inodes \ {i} : data'[j] = data[j]
  BY DEF TypeOK
<1>2. Reg' = Reg
  BY <1>1 DEF TypeOK, Reg, File, Absent
<1>3. \A r \in Readers : rfd[r] # NoFile => data'[rfd[r]] = data[rfd[r]]
  BY <1>1 DEF TypeOK, File
<1>. QED
  BY <1>2, <1>3 DEF Got

\* The end of a save takes it off the list.
LEMMA PendingEnd ==
  ASSUME TypeOK, Saving, NEW w \in Writers, End(w), step[w] # "idle"
  PROVE  Pending[w] = value[w] /\ Pending[w] # NoFile
         /\ Pending' = [Pending EXCEPT ![w] = NoFile]
<1>1. Pending[w] = value[w] /\ Pending[w] # NoFile
  BY ConstantsAssumption DEF Pending, Saving, Content, Absent
<1>2. Pending' = [Pending EXCEPT ![w] = NoFile]
  BY EndEffect DEF Pending, Absent
<1>. QED
  BY <1>1, <1>2

\* Each system call is a step of the register or shows nothing: a rename is the
\* save, an open for reading the load.
LEMMA StoreStep == FileInv /\ [Next]_vars => [Store!Next]_(Store!vars)
<1>. SUFFICES ASSUME FileInv, [Next]_vars
              PROVE  Store!Next \/ UNCHANGED <<alone, Reg, Pending, Got>>
  BY DEF Store!vars
<1>. USE DEF FileInv
<1>. DEFINE Any == Values \cup {Nothing, Torn}
<1>1. TypeOK'
  BY TypeStep
<1>2. CASE UNCHANGED vars
  BY <1>2 DEF vars, Reg, Pending, Got
<1>3. ASSUME NEW w \in Writers, Begin(w) PROVE Store!Begin(w)
  <2>1. PICK v \in Values : value' = [value EXCEPT ![w] = v]
    BY <1>3 DEF Begin
  <2>2. Pending[w] = Absent /\ Pending' = [Pending EXCEPT ![w] = v]
    BY <1>3, <2>1 DEF Begin, Pending, TypeOK
  <2>3. UNCHANGED <<alone, Reg, Got>>
    BY <1>3 DEF Begin, Reg, Got, names, reader
  <2>. QED
    BY <2>1, <2>2, <2>3 DEF Store!Begin
<1>4. ASSUME NEW w \in Writers, Open(w) PROVE UNCHANGED <<alone, Reg, Pending, Got>>
  <2>1. PICK i \in IF tmp = NoFile THEN Free ELSE {tmp} : data' = [data EXCEPT ![i] = Nothing]
    BY <1>4 DEF Open
  <2>2. i \in Inodes /\ path # i /\ \A r \in Readers : rfd[r] # i
    BY <2>1 DEF TypeOK, Apart, Free, Used, File
  <2>3. UNCHANGED <<Reg, Got>>
    BY <1>4, <2>1, <2>2, Unseen DEF Open, reader
  <2>4. UNCHANGED Pending
    BY <1>4 DEF Open, Pending, TypeOK
  <2>. QED
    BY <1>4, <2>3, <2>4 DEF Open
\* What a write does to the token file and to loads under way.
<1>5. ASSUME NEW w \in Writers, step[w] = "opened", NEW c,
             data' = [data EXCEPT ![wfd[w]] = c], UNCHANGED <<alone, path, rfd, got>>
      PROVE  UNCHANGED <<Reg, Got>> \/ Store!Spoils
  <2>1. CASE alone
    <3>1. wfd[w] = tmp /\ tmp # NoFile
      BY <1>5, <2>1 DEF InTurn, TypeOK
    <3>2. wfd[w] \in Inodes /\ path # wfd[w] /\ \A r \in Readers : rfd[r] # wfd[w]
      BY <3>1 DEF Apart, TypeOK, File
    <3>. QED
      BY <1>5, <3>2, Unseen
  <2>2. CASE ~alone
    <3>1. Reg' \in Any \cup {NoFile} /\ Got' \in [Readers -> Any \cup {NoFile}]
      BY <1>1 DEF TypeOK, Reg, Got, File, Content, Absent
    <3>2. IF Reg = Absent THEN Reg' = Absent ELSE Reg' \in Any
      BY <1>1, <1>5, ConstantsAssumption DEF Reg, Absent, TypeOK, File, Content
    <3>. QED
      BY <2>2, <3>1, <3>2 DEF Store!Spoils, Absent
  <2>. QED
    BY <2>1, <2>2
<1>6. ASSUME NEW w \in Writers, Write(w)
      PROVE  Store!Disturb \/ UNCHANGED <<alone, Reg, Pending, Got>>
  <2>1. UNCHANGED Pending
    BY <1>6 DEF Write, Pending, TypeOK
  <2>2. UNCHANGED <<Reg, Got>> \/ Store!Spoils
    BY <1>5, <1>6 DEF Write, names, reader
  <2>. QED
    BY <1>6, <2>1, <2>2 DEF Write, Store!Disturb
<1>7. ASSUME NEW w \in Writers, WriteFails(w) PROVE Store!Fail(w)
  <2>1. UNCHANGED <<Reg, Got>> \/ Store!Spoils
    BY <1>5, <1>7 DEF WriteFails, End, names, reader
  <2>2. Pending[w] # Absent /\ Pending' = [Pending EXCEPT ![w] = Absent] /\ alone' = alone
    BY <1>7, PendingEnd, EndEffect DEF WriteFails, Absent
  <2>. QED
    BY <2>1, <2>2 DEF Store!Fail
<1>8. ASSUME NEW w \in Writers, Rename(w) PROVE Store!Commit(w)
  <2>1. /\ Pending[w] = value[w] /\ Pending[w] # Absent
        /\ Pending' = [Pending EXCEPT ![w] = Absent] /\ alone' = alone
    BY <1>8, PendingEnd, EndEffect DEF Rename, Absent
  <2>2. tmp \in Inodes /\ Reg' = data[tmp] /\ data[tmp] \in Content
    BY <1>8 DEF Rename, Reg, TypeOK, File
  <2>3. alone => Reg' = Pending[w]
    BY <1>8, <2>1, <2>2 DEF Rename, InTurn
  <2>4. UNCHANGED Got
    BY <1>8 DEF Rename, End, Got, reader
  <2>. QED
    BY <2>1, <2>2, <2>3, <2>4 DEF Store!Commit, Content
<1>9. ASSUME NEW w \in Writers, RenameFails(w) \/ Crash(w) PROVE Store!Fail(w)
  <2>1. Pending[w] # Absent /\ Pending' = [Pending EXCEPT ![w] = Absent] /\ alone' = alone
    BY <1>9, PendingEnd, EndEffect DEF RenameFails, Crash, Absent
  <2>2. UNCHANGED <<Reg, Got>>
    BY <1>9 DEF RenameFails, Crash, End, Reg, Got, names, reader
  <2>. QED
    BY <2>1, <2>2 DEF Store!Fail
<1>10. ASSUME NEW r \in Readers, OpenForRead(r) \/ ReadMissing(r) PROVE Store!Load(r)
  <2>1. Got' = [Got EXCEPT ![r] = Reg]
    BY <1>10 DEF OpenForRead, ReadMissing, Got, Reg, Absent, TypeOK
  <2>2. UNCHANGED <<alone, Reg, Pending>>
    BY <1>10 DEF OpenForRead, ReadMissing, Reg, Pending, names, writer
  <2>. QED
    BY <2>1, <2>2 DEF Store!Load
<1>11. ASSUME NEW r \in Readers, Read(r) PROVE UNCHANGED <<alone, Reg, Pending, Got>>
  <2>1. UNCHANGED Got
    BY <1>11 DEF Read, Got, TypeOK
  <2>. QED
    BY <1>11, <2>1 DEF Read, Reg, Pending, names, writer
<1>12. CASE Delete
  <2>1. Reg' = Absent /\ UNCHANGED <<alone, Pending, Got>>
    BY <1>12 DEF Delete, Reg, Pending, Got, writer, reader
  <2>. QED
    BY <2>1 DEF Store!Next, Store!Delete
<1>. QED
  BY <1>2, <1>3, <1>4, <1>6, <1>7, <1>8, <1>9, <1>10, <1>11, <1>12 DEF Next, Store!Next

\* Files implement the register: a save takes effect at its rename or not at all, a
\* load returns what was there at one instant, whoever dies when.
THEOREM FilesImplementStore == Spec => ImplementsStore
<1>1. Init => Store!Init
  <2>. SUFFICES ASSUME Init PROVE Store!Init
    OBVIOUS
  <2>1. Reg \in Values \cup {Absent}
    BY DEF Init, Reg
  <2>2. Pending = [w \in Writers |-> Absent] /\ Got = [r \in Readers |-> Absent]
    BY DEF Init, Pending, Got, Absent
  <2>. QED
    BY <2>1, <2>2 DEF Init, Store!Init
<1>. QED
  BY <1>1, StoreStep, FileInvariant, PTL DEF Spec, ImplementsStore, Store!Spec
=============================================================================
