----------------------------- MODULE TokenStore -----------------------------
(***************************************************************************)
(* What tokens.Store promises its callers: a register that holds one token *)
(* set or none.  A Save takes effect all at once or not at all, a Load     *)
(* returns what the register held at one instant.  AuthService is written  *)
(* against this; FileStore implements it with files.  Writers that do not  *)
(* take turns get less: what the register holds may be spoilt.             *)
(***************************************************************************)
CONSTANTS
  Writers,  \* goroutines and processes that save
  Readers,  \* goroutines and processes that load
  Values,   \* token sets
  Spoilt,   \* what a register that is not empty may hold besides
  Absent    \* no token set

VARIABLES
  alone,    \* whether the writers take turns
  reg,      \* the register
  pending,  \* the token set each writer is saving, or Absent
  got       \* what each reader's last load returned

vars == <<alone, reg, pending, got>>

Init ==
  /\ alone \in BOOLEAN
  /\ reg \in Values \cup {Absent}
  /\ pending = [w \in Writers |-> Absent]
  /\ got = [r \in Readers |-> Absent]

\* Writers that do not take turns disturb what was saved and is being read.
Spoils ==
  /\ ~alone
  /\ reg' \in IF reg = Absent THEN {Absent} ELSE Values \cup Spoilt
  /\ got' \in [Readers -> Values \cup Spoilt \cup {Absent}]

Begin(w) ==
  /\ pending[w] = Absent
  /\ \E v \in Values : pending' = [pending EXCEPT ![w] = v]
  /\ UNCHANGED <<alone, reg, got>>

\* The save takes effect ...
Commit(w) ==
  /\ pending[w] # Absent
  /\ reg' \in {pending[w]} \cup IF alone THEN {} ELSE Values \cup Spoilt
  /\ pending' = [pending EXCEPT ![w] = Absent]
  /\ UNCHANGED <<alone, got>>

\* ... or fails (an error, or the death of the process) and leaves no trace.
Fail(w) ==
  /\ pending[w] # Absent
  /\ pending' = [pending EXCEPT ![w] = Absent]
  /\ Spoils \/ UNCHANGED <<reg, got>>
  /\ UNCHANGED alone

\* A write to what another writer has saved already, or a part of one.
Disturb ==
  /\ Spoils
  /\ UNCHANGED <<alone, pending>>

Delete ==
  /\ reg' = Absent
  /\ UNCHANGED <<alone, pending, got>>

Load(r) ==
  /\ got' = [got EXCEPT ![r] = reg]
  /\ UNCHANGED <<alone, reg, pending>>

Next ==
  \/ \E w \in Writers : Begin(w) \/ Commit(w) \/ Fail(w)
  \/ \E r \in Readers : Load(r)
  \/ Disturb
  \/ Delete

Spec == Init /\ [][Next]_vars
=============================================================================
