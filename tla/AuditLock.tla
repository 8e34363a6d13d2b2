------------------------------ MODULE AuditLock ------------------------------
(***************************************************************************)
(* The active-audit lock of src/code_mower/audit_handoff_log.py: one JSON  *)
(* file per lane, repository, pull request and head.  `start` creates it,  *)
(* `finish` removes it, and both `start` and `status` remove it when the   *)
(* process it names is gone.  No lock guards these steps: each file        *)
(* operation is an action, and processes interleave between any two.       *)
(*                                                                         *)
(* The lock file of one lock id is modelled, with the audits that compete  *)
(* for it.  An audit is a process that runs `start --pid` with its own     *)
(* pid, audits, and runs `finish`.  The event log is append-only and read  *)
(* by nobody here; only whether a lock was ever reaped is remembered.      *)
(* Process ids are not reused.                                             *)
(***************************************************************************)
EXTENDS Naturals, FiniteSets

CONSTANTS Audits,    \* processes that start and finish audits of one head
          Viewers    \* processes that run `status`

ASSUME ProcessAssumption == "none" \notin Audits /\ Audits \cap Viewers = {}

VARIABLES
  file,    \* the audit that created the file at the path, or "none"
  blank,   \* the audits whose file is created and not yet written
  pc,      \* where each process is
  seen,    \* the audit each process has read in the file, or "none"
  alive,   \* the audits whose process exists
  reaped   \* whether a lock was ever removed as stale

lockVars == <<file, blank, pc, seen, alive, reaped>>

Processes == Audits \cup Viewers

LockTypeOK ==
  /\ file \in Audits \cup {"none"}
  /\ blank \subseteq Audits
  /\ pc \in [Processes -> {"idle", "load", "judge", "unlink", "create", "write",
                           "auditing", "finish"}]
  /\ seen \in [Processes -> Audits \cup {"none"}]
  /\ alive \subseteq Audits
  /\ reaped \in BOOLEAN
  /\ \A p \in Processes : seen[p] # "none" <=> pc[p] \in {"judge", "unlink"}

LockInit ==
  /\ file = "none"
  /\ blank = {}
  /\ pc = [p \in Processes |-> "idle"]
  /\ seen = [p \in Processes |-> "none"]
  /\ alive = Audits
  /\ reaped = FALSE

\* The file can be parsed: it is there and its record is written.
Readable == file # "none" /\ file \notin blank

Goto(p, l) == pc' = [pc EXCEPT ![p] = l]

\* A dead audit runs nothing any more; a viewer is always there.
Running(p) == p \in alive \/ p \in Viewers

\* start: `path.exists()`.
StartLock(a) ==
  /\ a \in alive /\ pc[a] = "idle"
  /\ Goto(a, IF file = "none" THEN "create" ELSE "load")
  /\ UNCHANGED <<file, blank, seen, alive, reaped>>

\* status: the glob that lists the file.
List(v) ==
  /\ pc[v] = "idle" /\ file # "none"
  /\ Goto(v, "load")
  /\ UNCHANGED <<file, blank, seen, alive, reaped>>

\* load_json of a whole record.
Load(p) ==
  /\ Running(p) /\ pc[p] = "load" /\ Readable
  /\ seen' = [seen EXCEPT ![p] = file]
  /\ Goto(p, "judge")
  /\ UNCHANGED <<file, blank, alive, reaped>>

\* load_json of a file that is gone or not yet written raises, and the
\* command ends with a traceback.
LoadRaises(p) ==
  /\ Running(p) /\ pc[p] = "load" /\ ~Readable
  /\ Goto(p, "idle")
  /\ UNCHANGED <<file, blank, seen, alive, reaped>>

ProcessAlive(a) == a \in alive

\* What the process read is of no further use.
Forgotten(p) == [seen EXCEPT ![p] = "none"]

\* The pid read is alive: `start` answers "active audit already running",
\* `status` lists it.
FindsActive(p) ==
  /\ Running(p) /\ pc[p] = "judge" /\ ProcessAlive(seen[p])
  /\ seen' = Forgotten(p)
  /\ Goto(p, "idle")
  /\ UNCHANGED <<file, blank, alive, reaped>>

FindsStale(p) ==
  /\ Running(p) /\ pc[p] = "judge" /\ ~ProcessAlive(seen[p])
  /\ Goto(p, "unlink")
  /\ UNCHANGED <<file, blank, seen, alive, reaped>>

\* `path.unlink()` removes whatever the path holds now.
Unlink(p) ==
  /\ Running(p) /\ pc[p] = "unlink" /\ file # "none"
  /\ file' = "none"
  /\ reaped' = TRUE
  /\ seen' = Forgotten(p)
  /\ Goto(p, IF p \in Audits THEN "create" ELSE "idle")
  /\ UNCHANGED <<blank, alive>>

UnlinkRaises(p) ==
  /\ Running(p) /\ pc[p] = "unlink" /\ file = "none"
  /\ seen' = Forgotten(p)
  /\ Goto(p, "idle")
  /\ UNCHANGED <<file, blank, alive, reaped>>

\* O_CREAT | O_EXCL.
NobodyWrote == ~Readable
NobodyCreated == file = "none"

Create(a) ==
  /\ a \in alive /\ pc[a] = "create" /\ NobodyCreated
  /\ file' = a
  /\ blank' = blank \cup {a}
  /\ Goto(a, "write")
  /\ UNCHANGED <<seen, alive, reaped>>

\* FileExistsError: start_lock begins again with its existence check.
LostRace(a) ==
  /\ a \in alive /\ pc[a] = "create" /\ ~NobodyCreated
  /\ Goto(a, "idle")
  /\ UNCHANGED <<file, blank, seen, alive, reaped>>

\* The record is written to the open file, which may have been unlinked and
\* replaced by another audit's meanwhile.
WriteLock(a) ==
  /\ a \in alive /\ pc[a] = "write"
  /\ blank' = blank \ {a}
  /\ Goto(a, "auditing")
  /\ UNCHANGED <<file, seen, alive, reaped>>

\* finish: `path.exists()`; then the record is loaded, whoever it names, and
\* the file removed.
Finish(a) ==
  /\ a \in alive /\ pc[a] = "auditing"
  /\ Goto(a, IF file = "none" THEN "idle" ELSE "finish")
  /\ UNCHANGED <<file, blank, seen, alive, reaped>>

FinishUnlink(a) ==
  /\ a \in alive /\ pc[a] = "finish" /\ Readable
  /\ file' = "none"
  /\ Goto(a, "idle")
  /\ UNCHANGED <<blank, seen, alive, reaped>>

\* The record is gone or unwritten: `finish` ends with a traceback.
FinishRaises(a) ==
  /\ a \in alive /\ pc[a] = "finish" /\ ~Readable
  /\ Goto(a, "idle")
  /\ UNCHANGED <<file, blank, seen, alive, reaped>>

\* An audit's process dies wherever it is, with the lock it holds or is creating.
Die(a) ==
  /\ a \in alive
  /\ alive' = alive \ {a}
  /\ Goto(a, "idle")
  /\ seen' = Forgotten(a)
  /\ UNCHANGED <<file, blank, reaped>>

LockNext ==
  \/ \E a \in Audits : \/ StartLock(a) \/ Create(a) \/ LostRace(a) \/ WriteLock(a)
                       \/ Finish(a) \/ FinishUnlink(a) \/ FinishRaises(a) \/ Die(a)
  \/ \E v \in Viewers : List(v)
  \/ \E p \in Processes : \/ Load(p) \/ LoadRaises(p) \/ FindsActive(p) \/ FindsStale(p)
                          \/ Unlink(p) \/ UnlinkRaises(p)

LockSpec == LockInit /\ [][LockNext]_lockVars
-----------------------------------------------------------------------------
\* Audits that were told the lock is theirs and have not finished or died.
Auditing == {a \in Audits : pc[a] \in {"auditing", "finish"}}

(***************************************************************************)
(* What the helper promises: while one audit of a head is running, no      *)
(* second one is let in.  It is false: two starts that read the same stale *)
(* record both unlink the path, and the slower one removes the lock the    *)
(* faster one has just been given.                                         *)
(***************************************************************************)
OneActiveAudit == Cardinality(Auditing) <= 1

(***************************************************************************)
(* What does hold, by the exclusive creation of the file: for as long as   *)
(* nobody has removed a lock as stale, the path names the one audit that   *)
(* was let in, so a second `start` is turned away and told its holder.     *)
(***************************************************************************)
ExclusiveUntilReaped == reaped \/ \A a \in Auditing : file = a
=============================================================================
