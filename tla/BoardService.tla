----------------------------- MODULE BoardService ------------------------------
(***************************************************************************)
(* The managed Board service of one port: install, restart and remove a    *)
(* launchd job through commands that may fail, answer wrongly or not at    *)
(* all, take a replacement back that does not serve, and report what was   *)
(* proved of the host (board_service.py).  One operation runs at a time;   *)
(* any may be killed between two of its steps.                             *)
(***************************************************************************)
EXTENDS Naturals

CONSTANTS Defs,      \* renderings of the definition
          Junk,      \* a definition nobody can read
          MaxCode,   \* upgrades of the package, a bound of the model
          MaxOps,    \* operations, a bound of the model
          MaxFaults, \* failed commands and unread answers, a bound of the model
          None

ServiceAssumption ==
    /\ Junk \notin Defs /\ None \notin Defs /\ Junk # None
    /\ \A n \in {MaxCode, MaxOps, MaxFaults} : n \in Nat

VARIABLES
    plist,    \* the definition file
    job,      \* the definition launchd has registered
    up,       \* its process runs and listens
    serving,  \* the version that process serves
    fresh,    \* it was started since the operation began
    other,    \* another process listens on the port
    code,     \* the version of the package
    op,       \* the operation
    before,   \* the host when it began
    ops, faults

launchd == <<job, up, serving, fresh>>
serviceVars == <<plist, launchd, other, code, op, before, ops, faults>>

Idle == [pc |-> "idle", kind |-> "none", want |-> None, replace |-> FALSE, prev |-> None,
         load |-> "absent", pid |-> FALSE, text |-> None,
         ver |-> None, ok |-> TRUE, status |-> "none",
         proved |-> "nothing"]

ServiceTypeOK ==
    /\ plist \in Defs \cup {None, Junk} /\ job \in Defs \cup {None} /\ code \in 0..MaxCode
    /\ up => job # None
    /\ op.prev \in Defs \cup {None, Junk} /\ op.text \in Defs \cup {None}
    /\ op.load \in {"loaded", "absent", "unknown"}
    /\ op.proved \in {"nothing", "new", "previous", "absent"}

ServiceInit ==
    /\ plist \in Defs \cup {None, Junk} /\ job \in ({plist} \cap Defs) \cup {None}
    /\ up = FALSE /\ serving = 0 /\ fresh = FALSE /\ other \in BOOLEAN /\ code = 0
    /\ op = Idle /\ before = [disk |-> None, job |-> None] /\ ops = 0 /\ faults = 0

Fault == faults < MaxFaults /\ faults' = faults + 1
NoFault == UNCHANGED faults

(***************************************************************************)
(* launchd: a command does what it says, or fails before or after its      *)
(* effect; a query may give no answer, which is not absence                *)
(***************************************************************************)
Runs(d) == job' = d /\ up' = ~other /\ serving' = code /\ fresh' = TRUE
Same == UNCHANGED launchd
Replies(possible, effect, p) ==
    \/ possible /\ effect /\ op' = [p EXCEPT !.ok = TRUE] /\ NoFault
    \/ possible /\ effect /\ op' = [p EXCEPT !.ok = FALSE] /\ Fault
    \/ Same /\ op' = [p EXCEPT !.ok = FALSE] /\ IF possible THEN Fault ELSE NoFault
Bootstrap(p) == Replies(job = None /\ plist \in Defs, Runs(plist), p)
Bootout(p) == Replies(TRUE, job' = None /\ up' = FALSE /\ UNCHANGED <<serving, fresh>>, p)
Kickstart(p) == Replies(job # None, Runs(job), p)

Told(state) ==
    \/ state = (IF job = None THEN "absent" ELSE "loaded") /\ NoFault
    \/ state = "unknown" /\ Fault

(* validate_binding: file, job, process, port, versions, all at once.      *)
Serves(d, v) == plist = d /\ job = d /\ up /\ ~other /\ serving = v
Version(p) == IF p.ver = None THEN code ELSE p.ver
(* delayed_health: the last look of the window decides.                    *)
Gate(d, v, passed) ==
    \/ passed /\ Serves(d, v) /\ NoFault
    \/ ~passed /\ ~Serves(d, v) /\ NoFault
    \/ ~passed /\ Serves(d, v) /\ Fault

OpIs(p) == op' = p
OpGoes(pc) == OpIs([op EXCEPT !.pc = pc])
Ends(status) == OpIs([op EXCEPT !.pc = "done", !.status = status])
Proves(status, what) == OpIs([op EXCEPT !.pc = "done", !.status = status, !.proved = what])
OpAt(pc) == op.pc = pc /\ UNCHANGED <<other, code, before, ops>>
Looks == UNCHANGED <<plist, launchd>>

(***************************************************************************)
(* install and restart, up to the point where something is changed         *)
(***************************************************************************)
BeginOperation ==
    /\ op.pc \in {"idle", "done"} /\ ops < MaxOps /\ ops' = ops + 1
    /\ \E kind \in {"install", "restart", "remove"}, d \in Defs, r \in BOOLEAN :
         /\ kind = "remove" => r = FALSE
         /\ OpIs([Idle EXCEPT !.pc = "read", !.kind = kind, !.want = d, !.replace = r])
    /\ before' = [disk |-> plist, job |-> job] /\ fresh' = FALSE
    /\ UNCHANGED <<plist, job, up, serving, other, code, faults>>

(* read_service: the file, and what launchd says of the label.             *)
Known == \E s \in {"loaded", "absent", "unknown"} :
    /\ Told(s)
    /\ OpIs([op EXCEPT !.prev = plist, !.load = s, !.pid = (s = "loaded" /\ up),
                       !.pc = CASE op.kind = "remove" -> IF plist = None THEN "none" ELSE "rm out"
                                [] op.kind = "restart" -> "owner" [] OTHER -> "compare"])
ReadService == OpAt("read") /\ Known /\ Looks
(* A checkout whose origin is not the repository asked for is refused.     *)
Mismatch == OpAt("read") /\ op.kind # "remove" /\ Ends("ownership_mismatch") /\ Looks /\ NoFault
NotInstalled == OpAt("none") /\ Ends("not_installed") /\ Looks /\ NoFault

Refuses == op.prev # None /\ op.prev # op.want /\ ~op.replace
Compare ==
    /\ OpAt("compare") /\ Looks /\ NoFault
    /\ \/ Refuses /\ Ends("stale_arguments")
       \/ ~Refuses /\ op.prev = op.want /\ ~op.replace /\ OpGoes("gate same")
       \/ ~Refuses /\ (op.prev # op.want \/ op.replace) /\ OpGoes("owner")
GateSame ==
    /\ OpAt("gate same") /\ Looks
    /\ \E passed \in BOOLEAN :
         Gate(op.want, code, passed) /\ Ends(IF passed THEN "unchanged" ELSE "delayed_health_failed")

(* port_ownership: free, or held by the process launchd supervises for this*)
(* label, and by nobody else; a job that cannot be asked about is not ours.*)
Owner ==
    /\ OpAt("owner") /\ Looks
    /\ \/ ~other /\ OpGoes(IF op.kind = "restart" THEN "decide" ELSE "backup") /\ NoFault
       \/ other /\ Ends("port_conflict") /\ NoFault
       \/ up /\ Ends("external_supervisor") /\ Fault
       \/ Ends("listener_inventory_unavailable") /\ Fault

(* A restart installs what is missing, refuses what is stale, and reloads  *)
(* what launchd runs on arguments the file no longer has.                  *)
Drifted == op.load = "loaded" /\ job \notin {None, op.want}
DecideRestart ==
    /\ OpAt("decide") /\ Looks
    /\ \/ /\ op.prev = None /\ NoFault
          /\ OpIs([op EXCEPT !.kind = "install", !.replace = FALSE, !.pc = "read"])
       \/ Refuses /\ Ends("stale_arguments") /\ NoFault
       \/ ~Refuses /\ op.prev # None /\ op.prev # op.want /\ OpGoes("backup") /\ NoFault
       \/ /\ op.prev = op.want /\ Drifted
          /\ \/ OpIs(IF op.replace THEN [op EXCEPT !.pc = "backup"]
                     ELSE [op EXCEPT !.pc = "done", !.status = "stale_arguments"]) /\ NoFault
             \/ OpGoes("kick") /\ Fault
       \/ /\ op.prev = op.want /\ ~Drifted
          /\ (OpGoes("kick") /\ NoFault) \/ (Ends("apply_failed") /\ Fault)
Kick ==
    /\ OpAt("kick") /\ UNCHANGED plist
    /\ LET p == [op EXCEPT !.pc = "gate kick"] IN
       IF op.load = "loaded" THEN Kickstart(p) ELSE Bootstrap(p)
(* A kickstart that failed counts as a restart when another process than   *)
(* the one there was is seen to serve.                                     *)
Moved == op.load = "loaded" /\ ~op.ok => op.pid /\ fresh
GateKick ==
    /\ OpAt("gate kick") /\ Looks
    /\ \E passed \in BOOLEAN :
         /\ Gate(op.want, code, passed)
         /\ \/ passed /\ Moved /\ Proves("restarted", "new")
            \/ ~(passed /\ Moved) /\ Ends(IF op.ok THEN "delayed_health_failed" ELSE "apply_failed")

(***************************************************************************)
(* _apply: back up, unload, write, load, gate                              *)
(***************************************************************************)
Readable(d) == d \in Defs
Backup ==
    /\ OpAt("backup") /\ Looks
    /\ \/ /\ Readable(op.prev) /\ NoFault
          /\ \E v \in {None} \cup (IF up /\ op.load # "absent" THEN {serving} ELSE {}) :
               OpIs([op EXCEPT !.text = op.prev, !.ver = v, !.pc = "out"])
       \/ Readable(op.prev) /\ Ends("backup_failed") /\ Fault
       \/ ~Readable(op.prev) /\ OpGoes(IF op.prev = None THEN "write" ELSE "out") /\ NoFault
       \/ Ends("apply_failed") /\ Fault
Out == OpAt("out") /\ UNCHANGED plist /\ Bootout([op EXCEPT !.pc = "held"])
(* An unload that failed counts only when launchd says the job is absent.  *)
Unloaded ==
    /\ OpAt("held") /\ Looks
    /\ \/ op.ok /\ OpGoes("write") /\ NoFault
       \/ ~op.ok /\ Told("absent") /\ OpGoes("write")
       \/ /\ ~op.ok /\ (Told("loaded") \/ Told("unknown"))
          /\ IF Readable(op.prev) /\ Serves(op.prev, Version(op))
             THEN Proves("unload_failed", "previous") ELSE Ends("unload_failed")
WriteDefinition ==
    /\ OpAt("write") /\ Same
    /\ \/ plist' = op.want /\ OpGoes("boot") /\ NoFault
       \/ UNCHANGED plist /\ Fault /\ IF op.prev = None THEN Ends("apply_failed") ELSE OpGoes("reload")
(* The write failed: the untouched previous definition is loaded again.    *)
Reload == OpAt("reload") /\ UNCHANGED plist /\ Bootstrap([op EXCEPT !.pc = "gate prev"])
Boot == OpAt("boot") /\ UNCHANGED plist /\ Bootstrap([op EXCEPT !.pc = "booted"])
(* A bootstrap that reported failure may have loaded the job.              *)
Booted ==
    /\ OpAt("booted") /\ Looks
    /\ \/ op.ok /\ OpGoes("gate new") /\ NoFault
       \/ ~op.ok /\ Told("loaded") /\ OpGoes("gate new")
       \/ ~op.ok /\ (Told("absent") \/ Told("unknown")) /\ OpGoes("back out")
Accomplished == IF op.kind = "install" THEN "installed" ELSE "restarted"
GateNew ==
    /\ OpAt("gate new") /\ Looks
    /\ \E passed \in BOOLEAN :
         /\ Gate(op.want, code, passed)
         /\ IF passed THEN Proves(Accomplished, "new") ELSE OpGoes("back out")

(***************************************************************************)
(* _rollback and the proof of what it left                                 *)
(***************************************************************************)
BackOut == OpAt("back out") /\ UNCHANGED plist /\ Bootout([op EXCEPT !.pc = "back held"])
Unchecked == NoFault
Released == Told("absent")
BackHeld ==
    /\ OpAt("back held") /\ Looks
    /\ \/ Released /\ OpGoes(IF op.text = None THEN "back delete" ELSE "back write")
       \/ (Told("loaded") \/ Told("unknown")) /\ OpIs([op EXCEPT !.pc = "judge", !.ok = FALSE])
BackDelete ==
    /\ OpAt("back delete") /\ Same
    /\ \/ plist' = None /\ OpIs([op EXCEPT !.pc = "judge", !.ok = TRUE]) /\ NoFault
       \/ UNCHANGED plist /\ OpIs([op EXCEPT !.pc = "judge", !.ok = FALSE]) /\ Fault
BackWrite ==
    /\ OpAt("back write") /\ Same
    /\ \/ plist' = op.text /\ OpGoes("back boot") /\ NoFault
       \/ UNCHANGED plist /\ OpGoes("gate prev") /\ Fault
BackBoot == OpAt("back boot") /\ UNCHANGED plist /\ Bootstrap([op EXCEPT !.pc = "gate prev"])

JudgeRollback ==
    /\ OpAt("judge") /\ Looks
    /\ \/ op.prev = Junk /\ Ends("rollback_failed") /\ NoFault
       \/ Readable(op.prev) /\ OpGoes("gate prev") /\ NoFault
       \/ /\ op.prev = None
          /\ \/ /\ op.ok /\ plist = None /\ ~up /\ ~other /\ Told("absent")
                /\ Proves("apply_failed", "absent")
             \/ ~(op.ok /\ plist = None /\ job = None /\ ~other) /\ Ends("rollback_failed") /\ NoFault
             \/ Ends("rollback_failed") /\ Fault
(* The previous service is back only if it passes the gate with the version*)
(* it had, and that version was known when it was running.                 *)
Evidence == op.ver # None \/ op.load = "absent"
GatePrev ==
    /\ OpAt("gate prev") /\ Looks
    /\ \/ op.prev = Junk /\ Ends("rollback_failed") /\ NoFault
       \/ /\ Readable(op.prev)
          /\ \E passed \in BOOLEAN :
               /\ Gate(op.prev, Version(op), passed)
               /\ IF passed /\ Evidence THEN Proves("apply_failed", "previous")
                  ELSE Ends("rollback_failed")

(***************************************************************************)
(* remove                                                                  *)
(***************************************************************************)
RmOut == OpAt("rm out") /\ UNCHANGED plist /\ Bootout([op EXCEPT !.pc = "rm held"])
RmHeld ==
    /\ OpAt("rm held") /\ Looks
    /\ \/ op.ok /\ OpGoes("rm delete") /\ NoFault
       \/ ~op.ok /\ Told("absent") /\ OpGoes("rm delete")
       \/ ~op.ok /\ (Told("loaded") \/ Told("unknown")) /\ Ends("remove_incomplete")
RmDelete ==
    /\ OpAt("rm delete") /\ Same
    /\ \/ plist' = None /\ OpGoes("rm port") /\ NoFault
       \/ UNCHANGED plist /\ OpGoes("rm port") /\ Fault
RmPort ==
    /\ OpAt("rm port") /\ Looks
    /\ \/ /\ op.ok /\ plist = None /\ ~other /\ Proves("removed", "absent") /\ NoFault
       \/ ~(op.ok /\ plist = None /\ ~other) /\ Ends("remove_incomplete") /\ NoFault
       \/ Ends("remove_incomplete") /\ Fault

(***************************************************************************)
(* The host                                                                *)
(***************************************************************************)
KeepAlive ==
    /\ job # None /\ ~up /\ ~other /\ up' = TRUE /\ serving' = code /\ fresh' = TRUE
    /\ UNCHANGED <<plist, job, other, code, op, before, ops, faults>>
Dies ==
    /\ up /\ up' = FALSE /\ Fault
    /\ UNCHANGED <<plist, job, serving, fresh, other, code, op, before, ops>>
Intrude ==
    /\ other' = ~other /\ Fault
    /\ UNCHANGED <<plist, launchd, code, op, before, ops>>
Quiet == op.pc \in {"idle", "done"} /\ op' = Idle
Login ==
    /\ Quiet /\ job' = IF plist \in Defs THEN plist ELSE None
    /\ up' = FALSE /\ UNCHANGED <<plist, serving, fresh, other, code, before, ops, faults>>
Upgrade ==
    /\ Quiet /\ code < MaxCode /\ code' = code + 1
    /\ UNCHANGED <<plist, launchd, other, before, ops, faults>>
Corrupt ==
    /\ Quiet /\ plist # None /\ \E d \in Defs \cup {Junk} : d # plist /\ plist' = d
    /\ Fault /\ UNCHANGED <<launchd, other, code, before, ops>>
OpKilled ==
    /\ op.pc \notin {"idle", "done"} /\ op' = Idle /\ Fault
    /\ UNCHANGED <<plist, launchd, other, code, before, ops>>

Operation ==
    \/ ReadService \/ Mismatch \/ NotInstalled \/ Compare \/ GateSame \/ Owner
    \/ DecideRestart \/ Kick \/ GateKick \/ Backup \/ Out \/ Unloaded \/ WriteDefinition \/ Reload \/ Boot \/ Booted \/ GateNew
    \/ BackOut \/ BackHeld \/ BackDelete \/ BackWrite \/ BackBoot \/ JudgeRollback \/ GatePrev
    \/ RmOut \/ RmHeld \/ RmDelete \/ RmPort
ServiceNext ==
    \/ BeginOperation \/ Operation \/ KeepAlive \/ Dies \/ Intrude \/ Login
    \/ Upgrade \/ Corrupt \/ OpKilled
ServiceSpec == ServiceInit /\ [][ServiceNext]_serviceVars

(***************************************************************************)
(* Properties                                                              *)
(***************************************************************************)
(* A job launchd holds always has a definition, by which status, remove    *)
(* and stop find it, whatever fails and whoever is killed (_rollback,      *)
(* remove_service).                                                        *)
NothingIsStranded == job # None => plist # None

(* What an operation says it proved is so: the new service, the previous   *)
(* one or nothing is what the file and launchd hold (_reconciliation).     *)
ReportIsTrue ==
    op.pc = "done" =>
        /\ op.proved = "new" => plist = op.want /\ job = op.want
        /\ op.proved = "previous" => plist = op.prev /\ job = op.prev /\ plist = before.disk
        /\ op.proved = "absent" => plist = None /\ job = None

(* An operation that neither succeeded nor failed to roll back left the    *)
(* file as it found it, and one that refused left launchd alone (_apply).  *)
Refusals == {"stale_arguments", "port_conflict", "external_supervisor", "backup_failed",
             "ownership_mismatch",
             "listener_inventory_unavailable", "not_installed", "unchanged"}
FailureRestores ==
    op.pc = "done" =>
        /\ op.status \in Refusals \cup {"apply_failed", "unload_failed", "delayed_health_failed"} =>
             plist = before.disk
        /\ op.status \in Refusals => job = before.job

(* Whatever command of launchd fails, answers wrongly or stays unanswered  *)
(* and whoever is killed: a job launchd holds keeps the definition that    *)
(* makes it known, what an operation reports proved is so, and one that    *)
(* failed left the definition as it found it.                              *)
ServiceIsKept == ServiceTypeOK /\ NothingIsStranded /\ ReportIsTrue /\ FailureRestores

(* What a restart promises and the code does not keep: a load state that   *)
(* could not be read makes it load instead of kick, and the process that   *)
(* was there all along passes for the restarted one (restart_service).     *)
RestartIsNew == op.pc = "done" /\ op.status = "restarted" => fresh
===============================================================================
