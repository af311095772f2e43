----------------------------- MODULE Preferences -----------------------------
(***************************************************************************)
(* The Preferences shim (shims/esp/preferences.cpp): settings that survive *)
(* a restart, one file per namespace.  Every handle keeps a copy of the    *)
(* file from when it began, and a put writes the whole copy: the file is   *)
(* truncated first and written when it is closed, so the process can die   *)
(* between the two.  Nobody looks at what fprintf and fclose return, so on *)
(* a full disk the file ends early and the put reports success.  The       *)
(* handles here share one namespace.                                       *)
(***************************************************************************)
EXTENDS Naturals

CONSTANTS Handles,  \* the Preferences objects of the firmware
          Keys,     \* numbered as std::map orders them
          Values

ASSUME PreferencesConstants == Keys \subseteq Nat /\ Values \subseteq Nat \ {0}

Absent == 0
Empty == [k \in Keys |-> Absent]
NoPut == [handle |-> "none"]

VARIABLES
  file,      \* the settings in the file
  kv,        \* kv_ of each handle
  writable,  \* the handles that are not read-only
  put,       \* the put that is being saved
  stored,    \* the last value a put has reported as stored, per key
  stale,     \* per handle, the keys whose copy is not what is stored
  spoiled    \* the keys whose stored value an older copy, a full disk or a crash
             \* destroyed, until a save puts it back

prefVars == <<file, kv, writable, put, stored, stale, spoiled>>

Settings == [Keys -> Values \cup {Absent}]

PrefTypeOK ==
  /\ {file, stored} \subseteq Settings /\ kv \in [Handles -> Settings]
  /\ writable \subseteq Handles /\ stale \in [Handles -> SUBSET Keys] /\ spoiled \subseteq Keys
  /\ put \in {NoPut} \cup [handle : Handles, key : Keys, value : Values]

PrefInit ==
  /\ file = Empty /\ kv = [h \in Handles |-> Empty] /\ writable = {} /\ put = NoPut
  /\ stored = Empty /\ stale = [h \in Handles |-> {}] /\ spoiled = {}

\* A faulty BeginAll: begin() takes the settings of a later load for granted.
BeginUnloaded(readOnly) ==
  /\ kv' = [h \in Handles |-> Empty] /\ writable' = Handles \ readOnly
  /\ stale' = [h \in Handles |-> spoiled]
  /\ UNCHANGED <<file, put, stored, spoiled>>

\* begin() and load() of every handle, those of readOnly for reading
BeginAll(readOnly) ==
  /\ kv' = [h \in Handles |-> file] /\ writable' = Handles \ readOnly
  /\ stale' = [h \in Handles |-> spoiled]
  /\ UNCHANGED <<file, put, stored, spoiled>>

\* put..(): the copy changes, and save() truncates the file.
Put(h, k, v) ==
  /\ h \in writable
  /\ kv' = [kv EXCEPT ![h][k] = v] /\ file' = Empty
  /\ put' = [handle |-> h, key |-> k, value |-> v]
  /\ UNCHANGED <<writable, stored, stale, spoiled>>

\* The file cannot be opened: the put returns 0, but the copy has changed.
PutFails(h, k, v) ==
  /\ h \in writable
  /\ kv' = [kv EXCEPT ![h][k] = v] /\ stale' = [stale EXCEPT ![h] = @ \cup {k}]
  /\ UNCHANGED <<file, writable, put, stored, spoiled>>

PutRejected(h) == h \notin writable /\ UNCHANGED prefVars

\* What load() reads where the file ends early: nothing, or the first digits of a
\* value (of ten at most).
Cut(value) == {Absent} \cup {v \in Values : \E n \in 0 .. 9 : v = value \div 10 ^ n}

\* The files save() can leave of a copy: all of it, or what the disk has room for.
Files(copy) ==
  UNION {{[k \in Keys |-> IF k < last THEN copy[k] ELSE IF k = last THEN end ELSE Absent] :
            end \in Cut(copy[last])} : last \in Keys}

\* The file is closed and the put returns, reported as stored whatever has been
\* written: what other handles stored meanwhile is overwritten by the copy.
Saved ==
  /\ put # NoPut /\ put' = NoPut
  /\ stored' = [stored EXCEPT ![put.key] = put.value]
  /\ LET old == stale[put.handle] \ {put.key}
         copy == kv[put.handle]
     IN \E written \in Files(copy) :
          /\ file' = written
          /\ spoiled' = old \cup {k \in Keys : written[k] # copy[k]}
          /\ stale' = [h \in Handles |-> IF h = put.handle THEN old ELSE stale[h] \cup {put.key}]
  /\ UNCHANGED <<kv, writable>>

\* The process dies; in the middle of a save it leaves a file that is empty, or
\* written already.
MemoryLost ==
  /\ kv' = [h \in Handles |-> Empty] /\ writable' = {} /\ put' = NoPut
  /\ stale' = [h \in Handles |-> {}]
  /\ IF put = NoPut THEN UNCHANGED <<file, spoiled>>
     ELSE file' \in {Empty} \cup Files(kv[put.handle]) /\ spoiled' = Keys
  /\ UNCHANGED stored
-----------------------------------------------------------------------------
\* What a put has reported as stored is what the next boot reads, unless an older
\* copy of another handle has been saved since, the disk was full in a save (whose
\* put reports success all the same), or the process died in one.
StoredSurvives ==
  put = NoPut => \A k \in Keys \ spoiled : file[k] = stored[k]
-----------------------------------------------------------------------------
\* Of a handle's copy, the keys a put has changed but not yet reported.
Changed(h) == IF put # NoPut /\ put.handle = h THEN {put.key} ELSE {}

\* A copy that can be saved holds what is stored, but for its stale keys; and the
\* put that is being saved has changed one.
CopiesAgree ==
  /\ \A h \in writable : \A k \in Keys \ (stale[h] \cup Changed(h)) : kv[h][k] = stored[k]
  /\ put # NoPut => put.handle \in writable /\ kv[put.handle][put.key] = put.value

\* The inductive invariant of the settings
PrefInv == PrefTypeOK /\ StoredSurvives /\ CopiesAgree
=============================================================================
