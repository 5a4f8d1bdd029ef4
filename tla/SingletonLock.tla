--------------------------- MODULE SingletonLock ---------------------------
(***************************************************************************)
(* SingletonContext (src/rcc/util.py), which main enters so that only one  *)
(* engine runs on a host.  The lock file is opened, its lock is taken      *)
(* without waiting, and on exit the file is closed, which drops the lock,  *)
(* and then its name is removed.  The lock belongs to the file (inode) the *)
(* name stood for when it was opened.                                      *)
(***************************************************************************)
EXTENDS Naturals

CONSTANTS
  Engines,   \* processes, each of which may start any number of times
  MaxFiles   \* bound on the files that ever had the name

VARIABLES
  name,     \* the file the name stands for, 0 when there is none
  created,  \* files so far
  owner,    \* the engine that holds the lock of a file, if any
  file,     \* the file an engine has open, 0 for none
  pc        \* where an engine is

vars == <<name, created, owner, file, pc>>

Files == 1..MaxFiles
Inside(e) == pc[e] = "inside"
\* The end of a process, or close(), drops the lock it holds.
Freed(e) == [f \in Files |-> owner[f] \ {e}]

Init ==
  /\ name = 0 /\ created = 0
  /\ owner = [f \in Files |-> {}]
  /\ file = [e \in Engines |-> 0]
  /\ pc = [e \in Engines |-> "out"]

\* open(name, "w") finds the file of that name or creates one.
Open(e) ==
  /\ pc[e] = "out"
  /\ IF name # 0 THEN UNCHANGED <<name, created>>
     ELSE created < MaxFiles /\ created' = created + 1 /\ name' = created + 1
  /\ file' = [file EXCEPT ![e] = name']
  /\ pc' = [pc EXCEPT ![e] = "opened"]
  /\ UNCHANGED owner

\* lockf(LOCK_EX | LOCK_NB)
Enter(e) ==
  /\ pc[e] = "opened" /\ owner[file[e]] = {}
  /\ owner' = [owner EXCEPT ![file[e]] = {e}]
  /\ pc' = [pc EXCEPT ![e] = "inside"]
  /\ UNCHANGED <<name, created, file>>

\* Somebody holds it: the file is closed and "Cannot enter singleton context"
\* raised.
Refuse(e) ==
  /\ pc[e] = "opened" /\ owner[file[e]] # {}
  /\ file' = [file EXCEPT ![e] = 0]
  /\ pc' = [pc EXCEPT ![e] = "out"]
  /\ UNCHANGED <<name, created, owner>>

Close(e) ==
  /\ pc[e] = "inside"
  /\ owner' = Freed(e)
  /\ file' = [file EXCEPT ![e] = 0]
  /\ pc' = [pc EXCEPT ![e] = "closed"]
  /\ UNCHANGED <<name, created>>

\* os.unlink removes whatever has the name by now, or raises.
Unlink(e) ==
  /\ pc[e] = "closed"
  /\ name' = 0
  /\ pc' = [pc EXCEPT ![e] = "out"]
  /\ UNCHANGED <<created, owner, file>>

\* The process is killed: nothing is removed.
Die(e) ==
  /\ pc[e] # "out"
  /\ owner' = Freed(e)
  /\ file' = [file EXCEPT ![e] = 0]
  /\ pc' = [pc EXCEPT ![e] = "out"]
  /\ UNCHANGED <<name, created>>

Next ==
  \E e \in Engines :
    Open(e) \/ Enter(e) \/ Refuse(e) \/ Close(e) \/ Unlink(e) \/ Die(e)

Spec == Init /\ [][Next]_vars

-----------------------------------------------------------------------------
\* Types; an engine has a file open from open() to close() or its death, and owns
\* the lock of a file exactly if it is inside with that file.
TypeOK ==
  /\ name \in {0} \cup Files /\ created \in 0..MaxFiles
  /\ owner \in [Files -> SUBSET Engines]
  /\ file \in [Engines -> {0} \cup Files]
  /\ pc \in [Engines -> {"out", "opened", "inside", "closed"}]
  /\ \A e \in Engines : file[e] # 0 <=> pc[e] \in {"opened", "inside"}
  /\ \A f \in Files, e \in Engines : e \in owner[f] <=> Inside(e) /\ file[e] = f

\* "uses a lock file to check if this context is being used elsewhere, failing to
\* enter if that is the case": two engines are never both inside.
MutualExclusion == \A d, e \in Engines : Inside(d) /\ Inside(e) => d = e
=============================================================================
