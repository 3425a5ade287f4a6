------------------------------ MODULE FileStore ------------------------------
(***************************************************************************)
(* tokens.FileStore (internal/tokens/store.go) at the level of its system  *)
(* calls.  Save writes path + ".tmp" and renames it over path; the         *)
(* temporary name is the same for every Save of every process.  Load opens *)
(* path and reads what it opened.  Files are inodes: a name refers to one, *)
(* and an open descriptor keeps referring to its inode when the name moves.*)
(*                                                                         *)
(* Within a process, service.mu keeps saves apart; a `login' beside        *)
(* `serve' has no such lock.  alone says which of the two is the case.     *)
(***************************************************************************)
EXTENDS Naturals

CONSTANTS
  Writers,    \* goroutines and processes that save
  Readers,    \* goroutines and processes that load
  Values,     \* token sets, as encoded by MarshalIndent
  Size,       \* length in bytes of each encoded value
  Inodes,     \* files the disk can hold
  NoFile,     \* what a free name, a closed descriptor refers to
  Nothing,    \* content of an empty file
  Torn        \* content that is no encoded token set

Content == Values \cup {Nothing, Torn}
File    == Inodes \cup {NoFile}

ASSUME ConstantsAssumption ==
  /\ Size \in [Values -> Nat]
  /\ NoFile \notin Inodes
  /\ Nothing \notin Values
  /\ Torn \notin Values
  /\ Nothing # Torn
  /\ NoFile \notin Content

VARIABLES
  alone,  \* whether the writers take turns, as those of one process do
  path,   \* the file at path
  tmp,    \* the file at path + ".tmp"
  data,   \* the content of each inode
  step,   \* where each writer stands in Save
  wfd,    \* the descriptor WriteFile has open
  value,  \* the token set a writer saves, or Nothing
  rfd,    \* the descriptor ReadFile has open
  got     \* what the last Load returned: a token set, NoFile (ErrNotExist), or
          \* Nothing or Torn (a decoding error)

names   == <<path, tmp>>
writer  == <<alone, step, wfd, value>>
reader  == <<rfd, got>>
vars    == <<alone, path, tmp, data, step, wfd, value, rfd, got>>

Steps == {"idle", "begun", "opened", "written"}

Init ==
  /\ alone \in BOOLEAN
  /\ \E i \in Inodes, v \in Values :
       /\ data = [j \in Inodes |-> IF j = i THEN v ELSE Nothing]
       /\ path \in {i, NoFile}
  /\ tmp = NoFile
  /\ step = [w \in Writers |-> "idle"]
  /\ wfd = [w \in Writers |-> NoFile]
  /\ value = [w \in Writers |-> Nothing]
  /\ rfd = [r \in Readers |-> NoFile]
  /\ got = [r \in Readers |-> NoFile]

Used == {path, tmp} \cup {wfd[w] : w \in Writers} \cup {rfd[r] : r \in Readers}
Free == Inodes \ Used

-----------------------------------------------------------------------------
(* Save *)

Begin(w) ==
  /\ step[w] = "idle"
  /\ alone => \A u \in Writers : step[u] = "idle"
  /\ step' = [step EXCEPT ![w] = "begun"]
  /\ \E v \in Values : value' = [value EXCEPT ![w] = v]
  /\ UNCHANGED <<alone, names, data, wfd, reader>>

\* A temporary file left by a dead process is appended to, not truncated.
OpenNoTruncate(w) ==
  /\ step[w] = "begun"
  /\ step' = [step EXCEPT ![w] = "opened"]
  /\ \E i \in IF tmp = NoFile THEN Free ELSE {tmp} :
       /\ tmp' = i
       /\ wfd' = [wfd EXCEPT ![w] = i]
  /\ UNCHANGED <<alone, path, data, value, reader>>

\* The token file written in place.
OpenInPlace(w) ==
  /\ step[w] = "begun"
  /\ step' = [step EXCEPT ![w] = "opened"]
  /\ \E i \in IF path = NoFile THEN Free ELSE {path} :
       /\ path' = i
       /\ tmp' = i
       /\ wfd' = [wfd EXCEPT ![w] = i]
       /\ data' = [data EXCEPT ![i] = Nothing]
  /\ UNCHANGED <<alone, value, reader>>

\* WriteFile opens the temporary name with O_CREATE and O_TRUNC: it empties the
\* file that is there, whoever is writing to it.
Open(w) ==
  /\ step[w] = "begun"
  /\ step' = [step EXCEPT ![w] = "opened"]
  /\ \E i \in IF tmp = NoFile THEN Free ELSE {tmp} :
       /\ tmp' = i
       /\ wfd' = [wfd EXCEPT ![w] = i]
       /\ data' = [data EXCEPT ![i] = Nothing]
  /\ UNCHANGED <<alone, path, value, reader>>

\* Writing v at the start of a file that holds old.
Overwrite(v, old) ==
  IF old = Nothing \/ (old \in Values /\ Size[v] >= Size[old]) THEN v ELSE Torn

Write(w) ==
  /\ step[w] = "opened"
  /\ step' = [step EXCEPT ![w] = "written"]
  /\ data' = [data EXCEPT ![wfd[w]] = Overwrite(value[w], @)]
  /\ wfd' = [wfd EXCEPT ![w] = NoFile]
  /\ UNCHANGED <<alone, names, value, reader>>

End(w) ==
  /\ step' = [step EXCEPT ![w] = "idle"]
  /\ wfd' = [wfd EXCEPT ![w] = NoFile]
  /\ value' = [value EXCEPT ![w] = Nothing]
  /\ UNCHANGED <<alone, reader>>

\* The descriptor is not closed on the error path.
WriteFailsOpen(w) ==
  /\ step[w] = "opened"
  /\ data' = [data EXCEPT ![wfd[w]] = Torn]
  /\ step' = [step EXCEPT ![w] = "idle"]
  /\ value' = [value EXCEPT ![w] = Nothing]
  /\ UNCHANGED <<alone, names, wfd, reader>>

\* The disk is full: WriteFile stops part of the way and Save returns its error.
WriteFails(w) ==
  /\ step[w] = "opened"
  /\ data' = [data EXCEPT ![wfd[w]] = Torn]
  /\ End(w)
  /\ UNCHANGED names

Rename(w) ==
  /\ step[w] = "written"
  /\ tmp # NoFile
  /\ path' = tmp
  /\ tmp' = NoFile
  /\ End(w)
  /\ UNCHANGED data

\* The clean-up after a failed rename removes the wrong name.
RenameFailsRemoving(w) ==
  /\ step[w] = "written"
  /\ path' = NoFile
  /\ End(w)
  /\ UNCHANGED <<tmp, data>>

\* Another process has renamed the temporary file away, or the disk fails.
RenameFails(w) ==
  /\ step[w] = "written"
  /\ End(w)
  /\ UNCHANGED <<names, data>>

\* The writer's process dies in the middle of Save.
Crash(w) ==
  /\ step[w] # "idle"
  /\ End(w)
  /\ UNCHANGED <<names, data>>

-----------------------------------------------------------------------------
(* Load and Delete *)

OpenForRead(r) ==
  /\ rfd[r] = NoFile
  /\ path # NoFile
  /\ rfd' = [rfd EXCEPT ![r] = path]
  /\ UNCHANGED <<names, data, writer, got>>

Read(r) ==
  /\ rfd[r] # NoFile
  /\ got' = [got EXCEPT ![r] = data[rfd[r]]]
  /\ rfd' = [rfd EXCEPT ![r] = NoFile]
  /\ UNCHANGED <<names, data, writer>>

ReadMissing(r) ==
  /\ rfd[r] = NoFile
  /\ path = NoFile
  /\ got' = [got EXCEPT ![r] = NoFile]
  /\ UNCHANGED <<names, data, writer, rfd>>

\* Removing a file that is not there is no error.
Delete ==
  /\ path' = NoFile
  /\ UNCHANGED <<tmp, data, writer, reader>>

Next ==
  \/ \E w \in Writers :
       Begin(w) \/ Open(w) \/ Write(w) \/ WriteFails(w) \/ Rename(w)
         \/ RenameFails(w) \/ Crash(w)
  \/ \E r \in Readers : OpenForRead(r) \/ Read(r) \/ ReadMissing(r)
  \/ Delete

Spec == Init /\ [][Next]_vars

-----------------------------------------------------------------------------
(* Properties *)

\* Every variable stays within its type, and a writer has a descriptor open
\* exactly while WriteFile is between its open and its close.
TypeOK ==
  /\ alone \in BOOLEAN
  /\ path \in File
  /\ tmp \in File
  /\ data \in [Inodes -> Content]
  /\ step \in [Writers -> Steps]
  /\ wfd \in [Writers -> File]
  /\ \A w \in Writers : wfd[w] # NoFile <=> step[w] = "opened"
  /\ value \in [Writers -> Values \cup {Nothing}]
  /\ rfd \in [Readers -> File]
  /\ got \in [Readers -> Content \cup {NoFile}]

\* A token file disappears only when somebody deletes it: two processes that
\* save at the same time, and share the temporary name, may spoil the content
\* but never lose the file (store.go:113-117).
OnlyDeleteRemoves == [][path # NoFile /\ path' = NoFile => Delete]_vars

\* Files implement the register: a Save takes effect at its Rename, a Load at
\* the instant it opens the file, and no crash in the middle of Save, no full disk
\* and no leftover temporary file ever shows through path (store.go:102-118).
\* Writers that do not take turns may spoil it, and a load that is under way, but
\* neither empty it nor bring it back.
Absent  == NoFile
Reg     == IF path = NoFile THEN Absent ELSE data[path]
Pending == [w \in Writers |-> IF step[w] = "idle" THEN Absent ELSE value[w]]
Got     == [r \in Readers |-> IF rfd[r] # NoFile THEN data[rfd[r]] ELSE got[r]]
Store   == INSTANCE TokenStore WITH
  Spoilt <- {Nothing, Torn}, reg <- Reg, pending <- Pending, got <- Got

ImplementsStore == Store!Spec
=============================================================================
