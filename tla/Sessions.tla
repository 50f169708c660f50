------------------------------ MODULE Sessions ------------------------------
(***************************************************************************)
(* The sessions that work on one analysis: how they take its lock          *)
(* (scripts/locking.py, called by scripts/orchestrate.py), how the Stop    *)
(* hook lets them go (hooks/continuation_guard.py), and how a native       *)
(* process carries on (hooks/continuation_supervisor.py).                  *)
(*                                                                         *)
(* A resume takes one step for each of its file operations, the load and   *)
(* the save of the record apart; a launch takes one for the ticket, one    *)
(* for the process and one for its pid, all three under the ticket's file  *)
(* lock.  A heartbeat, a checkpoint with its mirror and every other phase  *)
(* command take one step.                                                  *)
(*                                                                         *)
(* Abstracted: a lock or a lease is known by the session whose command     *)
(* wrote it, and its process is alive as long as that command runs, which  *)
(* is shorter than every grace period.  The phases are the ones before Bug *)
(* Validation and Bug Validation itself; the gates of passed phases hold;  *)
(* the snapshot commit and the fingerprint of the analysis do not change.  *)
(* When a checkpoint takes the ticket's lock file away, no hook is waiting *)
(* for it: one that was would get the lock of a file that is no more.      *)
(***************************************************************************)
EXTENDS Naturals, FiniteSets

CONSTANTS
  Sessions,  \* the user's sessions and the native processes
  First,     \* the session that has prepared the analysis
  Typed,     \* the commands users type: dispatch, resume, take_over
  NoOne,     \* no session
  MaxFaults  \* bound: kills, reported failures and commands that overlap

ASSUME SessionsAssumption ==
  /\ NoOne \notin Sessions /\ First \in Sessions /\ MaxFaults \in Nat
  /\ Typed \subseteq {"dispatch", "resume", "take_over"}

VARIABLES
  session, \* session[s]: where s is in its command, its work or the hook (at), the
           \* command (how: dispatch, resume or take_over), has a Stop of it been
           \* blocked (again: stop_hook_active), the host's id of it (name), the phase
           \* of the record it has loaded (seen), the process it launches (native)
  child,   \* child[s]: the supervisor process that runs s natively
  record,  \* active.json in the worktree, and its Bug Validation jobs
  mirror,  \* the status in the copies of it in the user's project
  lock,    \* active.lock: who created it, is it written, does that command run?
  lease,   \* the live owner of the row in coordinator_leases
  ticket,  \* the continuation ticket
  flock,   \* the launch that holds the file lock of the ticket
  faults,  \* what is used up of the bound
  lost,    \* history: a launch or a supervisor may be unknown to the ticket
  exited   \* history: a native process has exited since the last checkpoint

hook == <<ticket, flock, lost, exited>>
vars == <<session, child, record, mirror, lock, lease, ticket, flock, faults, lost, exited>>

Command == {"check", "read", "unlink", "create", "write", "lease", "load", "save", "beat"}

NoLock == [by |-> NoOne, written |-> FALSE, live |-> FALSE]

\* A ticket that an update makes where none is left names no session and no analysis.
\* "failed" may be tried again; failed or finished for good is "exited".
NoTicket == [status |-> "none", name |-> NoOne, child |-> NoOne]

Resumable(r)   == r.status \in {"running", "failed", "interrupted"}
Continuable(x) == x \in {"running", "interrupted"}
Terminal(r)    == r.status \in {"succeeded", "failed"}

Gone(s) == [at |-> "off", how |-> "dispatch", again |-> FALSE, name |-> s,
            seen |-> "earlier", native |-> NoOne]

\* An analysis that has been prepared, and its session.
Init ==
  /\ session = [[s \in Sessions |-> Gone(s)] EXCEPT ![First].at = "working"]
  /\ lock = [by |-> First, written |-> TRUE, live |-> FALSE]
  /\ child = [s \in Sessions |-> "none"]
  /\ record = [status |-> "running", phase |-> "earlier", bugs |-> "none"]
  /\ mirror = "none" /\ lease = NoOne
  /\ ticket = NoTicket /\ flock = NoOne /\ lost = FALSE /\ exited = FALSE
  /\ faults = 0

-----------------------------------------------------------------------------
(* A dispatch or a resume *)

\* What a command keeps of how it was typed: past the old lock a take-over is a
\* resume, and past its end it does not matter.
Kept(how, place) ==
  IF place = "working" THEN "dispatch"
  ELSE IF place \in {"unlink", "create"} /\ how = "take_over" THEN "resume" ELSE how

Goes(s, place) ==
  session' = [session EXCEPT ![s] =
    IF place = "off" THEN Gone(s)
    ELSE [@ EXCEPT !.at = place, !.how = Kept(session[s].how, place), !.seen = "earlier", !.native = NoOne]]

\* The command of s is over: its process is not alive any more.
Over(s, l) == IF l.by = s THEN [l EXCEPT !.live = FALSE] ELSE l
LeaseOver(s) == IF lease = s THEN NoOne ELSE lease

\* The supervisor of n is alive.
Up(n) == child[n] \in {"delay", "startup", "waiting"}

\* Nobody works and no command runs.
Quiet == \A s \in Sessions :
  \/ session[s].at = "off" /\ ~Up(s)
  \/ session[s].at = "working" /\ record.status # "running"

Fault == faults < MaxFaults /\ faults' = faults + 1

\* The user starts a session on an analysis that is not finished, or types the
\* command in one that cannot go on.
Start(s, command) ==
  /\ session[s].at = "off" \/ (session[s].at = "working" /\ record.status # "running")
  /\ ~Up(s) \/ session[s].at = "working"
  /\ Resumable(record)
  /\ session' = [session EXCEPT ![s].at = "check", ![s].how = command, ![s].again = FALSE]
  /\ UNCHANGED <<child, record, mirror, lock, lease>> /\ UNCHANGED hook

UserResumes == Quiet /\ (\E s \in Sessions : Start(s, "resume")) /\ UNCHANGED faults

UserRuns ==
  \E s \in Sessions, command \in Typed :
    Start(s, command) /\ IF Quiet THEN UNCHANGED faults ELSE Fault

\* Faulty: a refused resume leaves what lies there.
RefuseKeepsLock(s) ==
  /\ Goes(s, "off")
  /\ lock' = Over(s, lock) /\ lease' = LeaseOver(s)
  /\ UNCHANGED <<child, record, mirror, faults>> /\ UNCHANGED hook

\* The command fails: a resume releases the lock and the lease, whoever's they are.
Refuse(s) ==
  /\ Goes(s, "off")
  /\ IF session[s].how = "dispatch" THEN lock' = Over(s, lock) /\ lease' = LeaseOver(s)
                            ELSE lock' = NoLock /\ lease' = NoOne
  /\ UNCHANGED <<child, record, mirror, faults>> /\ UNCHANGED hook

Step(s, place) ==
  /\ Goes(s, place)
  /\ UNCHANGED <<child, record, mirror, faults>> /\ UNCHANGED hook

\* inspect_auto_resume for a dispatch, then inspect_resume: what they refuse
\* changes nothing.
Check(s) ==
  /\ session[s].at = "check"
  /\ Step(s, IF Resumable(record) /\ (session[s].how = "dispatch" => lease \in {NoOne, s})
             THEN "read" ELSE "off")
  /\ UNCHANGED <<lock, lease>>

\* reclaim_for_resume: an empty lock file reads as none.
Read(s) ==
  /\ session[s].at = "read"
  /\ IF ~lock.written THEN Step(s, "create") /\ UNCHANGED <<lock, lease>>
     ELSE IF lock.live /\ session[s].how # "take_over" THEN Refuse(s)
     ELSE Step(s, "unlink") /\ UNCHANGED <<lock, lease>>

Unlink(s) ==
  /\ session[s].at = "unlink"
  /\ Step(s, "create") /\ lock' = NoLock /\ UNCHANGED lease

\* acquire: O_EXCL; a terminal record lets the file that is there go.
Create(s) ==
  /\ session[s].at = "create"
  /\ IF lock.by = NoOne
     THEN Step(s, "write") /\ lock' = [by |-> s, written |-> FALSE, live |-> TRUE] /\ UNCHANGED lease
     ELSE IF Terminal(record) THEN Step(s, "create") /\ lock' = NoLock /\ UNCHANGED lease
     ELSE Refuse(s)

\* Faulty: the name is written to, and the file comes back.
FillByName(s) ==
  /\ session[s].at = "write"
  /\ Step(s, "lease")
  /\ lock' = [lock EXCEPT !.written = TRUE]
  /\ UNCHANGED lease

\* The file may have been unlinked since: then nobody sees what is written.
Fill(s) ==
  /\ session[s].at = "write"
  /\ Step(s, "lease")
  /\ lock' = IF lock.by = s THEN [lock EXCEPT !.written = TRUE] ELSE lock
  /\ UNCHANGED lease

Lease(s) == session[s].at = "lease" /\ Step(s, "load") /\ lease' = s /\ UNCHANGED lock

\* `pipeline.py resume` loads the record and looks at its status, ...
Load(s) ==
  /\ session[s].at = "load"
  /\ IF Resumable(record)
     THEN /\ session' = [session EXCEPT ![s].at = "save", ![s].seen = record.phase]
          /\ UNCHANGED <<child, record, mirror, lock, lease, faults>> /\ UNCHANGED hook
     ELSE Refuse(s)

\* ... and saves it as running, whatever has become of it; not where the worktree
\* has been removed, since then there is no lock for the heartbeat either.
Save(s) ==
  /\ session[s].at = "save"
  /\ IF record.status = "removed" THEN Refuse(s)
     ELSE /\ Goes(s, "beat")
          /\ record' = [record EXCEPT !.status = "running", !.phase = session[s].seen]
          /\ UNCHANGED <<child, mirror, lock, lease, faults>> /\ UNCHANGED hook

\* heartbeat: a lock that is missing or empty fails the resume; the row of the
\* lease becomes that of this command, which is over.
Beat(s) ==
  /\ session[s].at = "beat"
  /\ IF lock.written THEN Step(s, "working") /\ lock' = Over(s, lock) /\ lease' = NoOne
     ELSE Refuse(s)

-----------------------------------------------------------------------------
(* The work of a session *)

Working(s) == session[s].at = "working" /\ record.status = "running"

\* s is in a launch, under the file lock of the ticket.
Launching(s) == session[s].at \in {"popen", "pid"}

\* A launch or a supervisor is under way.
UnderWay == (\E s \in Sessions : Launching(s)) \/ (\E n \in Sessions : Up(n))

\* publish_progress puts the control directory of the worktree in the place of the
\* user's: the ticket is gone, and so is the lock file whoever holds it.
ControlReplaced ==
  /\ ticket' = NoTicket /\ flock' = NoOne
  /\ lost' = (lost \/ UnderWay) /\ exited' = FALSE

\* Each phase that passes takes a checkpoint, which the user's project mirrors; the
\* first may find no control directory in the worktree yet.
PhasePasses ==
  /\ record.phase = "earlier"
  /\ mirror' = "running"
  /\ \/ mirror # "running" /\ UNCHANGED record
     \/ /\ mirror = "running"
        /\ \E bugs \in {"none", "open"} :
             record' = [record EXCEPT !.phase = "bug_validation", !.bugs = bugs]
  /\ ControlReplaced \/ (mirror = "none" /\ UNCHANGED hook)
  /\ UNCHANGED <<session, lock, lease>>

\* The jobs of Bug Validation are done.
BugJobs ==
  /\ record.phase = "bug_validation" /\ record.bugs = "open"
  /\ record' = [record EXCEPT !.bugs = "none"]
  /\ UNCHANGED <<session, mirror, lock, lease>> /\ UNCHANGED hook

\* `pipeline.py complete`, up to the save of the record.
Complete(s) ==
  /\ record.phase = "bug_validation" /\ record.bugs = "none"
  /\ record' = [record EXCEPT !.status = "succeeded"]
  /\ mirror' = "succeeded" /\ ControlReplaced
  /\ Goes(s, "sync")
  /\ UNCHANGED <<lock, lease>>

Work(s) ==
  /\ Working(s)
  /\ PhasePasses \/ BugJobs \/ Complete(s)
  /\ UNCHANGED <<child, faults>>

\* The rest of complete: the lock is released and the worktree removed.
Sync(s) ==
  /\ session[s].at = "sync"
  /\ Goes(s, "working")
  /\ record' = [record EXCEPT !.status = "removed"]
  /\ lock' = NoLock /\ lease' = NoOne
  /\ UNCHANGED <<child, mirror, faults>> /\ UNCHANGED hook

\* `pipeline.py fail`, which takes a checkpoint too.
Fail(s) ==
  /\ Working(s) /\ Fault
  /\ \E status \in {"failed", "interrupted"} :
       record' = [record EXCEPT !.status = status] /\ mirror' = status
  /\ ControlReplaced
  /\ lock' = NoLock /\ lease' = NoOne
  /\ UNCHANGED <<session, child>>

-----------------------------------------------------------------------------
(* The Stop hook and the ticket *)

Named == ticket.name # NoOne

ActiveTicket == Named /\ ticket.status \in {"pending", "starting", "started"}
GivenUp      == Named /\ ticket.status = "exited"

\* Faulty: a process that ended early is launched again.
RefusedOnce(s) ==
  \/ ~Continuable(mirror)
  \/ ActiveTicket /\ ticket.name # session[s].name

\* _ensure_ticket_unlocked refuses a terminal run, another session, and a
\* continuation that has ended before; else it returns or makes the ticket.
Refused(s) ==
  \/ ~Continuable(mirror)
  \/ ActiveTicket /\ ticket.name # session[s].name
  \/ GivenUp

Ensured(s) ==
  IF ActiveTicket THEN ticket
  ELSE [status |-> "pending", name |-> session[s].name, child |-> NoOne]

\* Faulty: the process of the ticket is not looked at.
AliveUnknown == FALSE

\* The supervisor process the ticket names is alive.
Alive ==
  /\ ActiveTicket /\ ticket.status # "pending"
  /\ ticket.child # NoOne /\ Up(ticket.child)

\* No Bug Validation job is open: the hook asks for no continuation.
Converged == record.phase = "bug_validation" /\ record.bugs = "none"

\* Open Bug Validation jobs of an earlier run block a Stop without a ticket.
Stale == record.phase = "earlier" /\ record.bugs = "open"

Hook(s) == session[s].at = "working"

\* The hook asks for a continuation.
Continues(s) == Hook(s) /\ Continuable(record.status) /\ ~Converged

\* No active record needs continuation, or the barrier has converged.
StopApproved(s) ==
  /\ Hook(s)
  /\ ~Continuable(record.status) \/ Converged
  /\ Goes(s, "off")
  /\ UNCHANGED <<child, record, mirror, lock, lease, faults>> /\ UNCHANGED hook

\* The first Stop leaves a ticket and is blocked.
StopBlocked(s) ==
  /\ Continues(s)
  /\ ~session[s].again /\ session' = [session EXCEPT ![s].again = TRUE]
  /\ IF Stale \/ Refused(s) THEN UNCHANGED ticket
     ELSE flock = NoOne /\ ticket' = Ensured(s)
  /\ UNCHANGED <<child, record, mirror, lock, lease, flock, faults, lost, exited>>

\* On re-entry the supervisor launches a child: it takes the file lock and writes
\* that it starts, unless there is no host executable, ...
Launch(s) ==
  /\ Continues(s) /\ ~Stale /\ session[s].again
  /\ flock = NoOne /\ ~Refused(s) /\ ~Alive
  /\ \/ /\ ticket' = [Ensured(s) EXCEPT !.status = "starting", !.child = NoOne]
        /\ Goes(s, "popen") /\ flock' = s
        /\ lost' = (lost /\ UnderWay)
     \/ /\ ticket' = [Ensured(s) EXCEPT !.status = "failed"]
        /\ UNCHANGED <<session, flock, lost>>
  /\ UNCHANGED <<child, record, mirror, lock, lease, faults, exited>>

Unlocks(s) == flock' = IF flock = s THEN NoOne ELSE flock

\* ... makes the process, which may fail, ...
Popen(s) ==
  /\ session[s].at = "popen"
  /\ \/ /\ \E n \in Sessions \ {s} :
             /\ session[n].at = "off" /\ child[n] = "none"
             /\ child' = [child EXCEPT ![n] = "delay"]
             /\ session' = [session EXCEPT ![s].at = "pid", ![s].native = n]
        /\ UNCHANGED flock
     \/ Goes(s, "working") /\ Unlocks(s) /\ UNCHANGED child
  /\ UNCHANGED <<record, mirror, lock, lease, ticket, faults, lost, exited>>

\* ... writes its pid in the ticket, all of which is what this launch remembers,
\* and lets the file lock go.
WritePid(s) ==
  /\ session[s].at = "pid"
  /\ ticket' = [status |-> "starting", name |-> session[s].name, child |-> session[s].native]
  /\ Unlocks(s)
  /\ Goes(s, "hook")
  /\ UNCHANGED <<child, record, mirror, lock, lease, faults, lost, exited>>

\* Or it finds the child of the ticket alive.
StopAccepted(s) ==
  /\ Continues(s) /\ ~Stale /\ session[s].again
  /\ flock = NoOne /\ ~Refused(s) /\ Alive /\ ticket.status = "started"
  /\ Goes(s, "off")
  /\ UNCHANGED <<child, record, mirror, lock, lease, faults>> /\ UNCHANGED hook

\* The time of the wait runs out before a slow child has started.
TimeOut ==
  IF /\ ticket.status = "starting" /\ ticket.child # NoOne
     /\ child[ticket.child] \in {"delay", "startup"}
  THEN Fault ELSE UNCHANGED faults

\* Faulty: a process that has been made is taken for one that works.
ObservePopen(s) ==
  /\ session[s].at = "hook" /\ TimeOut
  /\ Goes(s, IF ticket.status \in {"starting", "started"} THEN "off" ELSE "working")
  /\ UNCHANGED <<child, record, mirror, lock, lease>> /\ UNCHANGED hook

\* The wait ends with the state of the ticket, without a live child, or with the time.
Observe(s) ==
  /\ session[s].at = "hook" /\ TimeOut
  /\ Goes(s, IF ticket.status = "started" THEN "off" ELSE "working")
  /\ UNCHANGED <<child, record, mirror, lock, lease>> /\ UNCHANGED hook

-----------------------------------------------------------------------------
(* run_child: the process that runs a session natively *)

\* Whatever ticket is there is updated, if none is a new one made.
UpdateTicket(status) == flock = NoOne /\ ticket' = [ticket EXCEPT !.status = status]

\* A session that works, or resumes.
Busy(s) == session[s].at \notin {"off", "popen", "pid", "hook"}

\* The host resumes the session of the ticket, under its id or a new one, or without
\* a ticket the latest there is.  It works on from the checkpoint, or makes an
\* ordinary run of it.
Spawn(n) ==
  /\ child[n] = "delay"
  /\ \/ /\ child' = [child EXCEPT ![n] = "startup"]
        /\ \E place \in {"working", "check"},
              id \in IF Named THEN {ticket.name, n} ELSE Sessions :
             /\ session' = [session EXCEPT ![n] = [Gone(n) EXCEPT !.at = place, !.name = id]]
             /\ IF place = "check" /\ \E s \in Sessions : Busy(s) THEN Fault
                ELSE UNCHANGED faults
        /\ UNCHANGED ticket
     \/ /\ UpdateTicket("failed")  \* the executable has disappeared
        /\ child' = [child EXCEPT ![n] = "none"]
        /\ UNCHANGED <<session, faults>>
  /\ UNCHANGED <<record, mirror, lock, lease, flock, lost, exited>>

\* After the startup window: had it exited when it was looked at?
Startup(n) ==
  /\ child[n] = "startup"
  /\ \/ /\ session[n].at = "off"
        /\ UpdateTicket("exited") /\ child' = [child EXCEPT ![n] = "none"]
        /\ exited' = (exited \/ ~lost)
     \/ /\ UpdateTicket("started") /\ child' = [child EXCEPT ![n] = "waiting"]
        /\ UNCHANGED exited
  /\ UNCHANGED <<session, record, mirror, lock, lease, flock, faults, lost>>

ChildEnds(n) ==
  /\ child[n] = "waiting" /\ session[n].at = "off"
  /\ UpdateTicket("exited") /\ child' = [child EXCEPT ![n] = "none"]
  /\ exited' = (exited \/ ~lost)
  /\ UNCHANGED <<session, record, mirror, lock, lease, flock, faults, lost>>

-----------------------------------------------------------------------------
(* Faults *)

\* A session is killed, at its work, in its command or in the hook; of a hook the
\* launch may be killed alone, when its time is over.  Killed before the pid is
\* written, a launch leaves a process that the ticket does not name.
Kill(s) ==
  /\ session[s].at # "off" /\ Fault
  /\ Goes(s, "off") \/ (session[s].at \in {"popen", "pid", "hook"} /\ Goes(s, "working"))
  /\ lock' = Over(s, lock) /\ lease' = LeaseOver(s) /\ Unlocks(s)
  /\ lost' = (lost \/ session[s].at = "pid")
  /\ UNCHANGED <<child, record, mirror, ticket, exited>>

\* The supervisor process is killed; the native one is not.
KillChild(n) ==
  /\ Up(n) /\ Fault
  /\ child' = [child EXCEPT ![n] = "killed"]
  /\ UNCHANGED <<session, record, mirror, lock, lease>> /\ UNCHANGED hook

Commands(s) ==
  \/ Check(s) \/ Read(s) \/ Unlink(s) \/ Create(s) \/ Fill(s) \/ Lease(s)
  \/ Load(s) \/ Save(s) \/ Beat(s) \/ Sync(s)

Stop(s) == StopApproved(s) \/ StopBlocked(s) \/ Launch(s) \/ StopAccepted(s)

Wait(s) == Popen(s) \/ WritePid(s) \/ Observe(s)

Child(n) == Spawn(n) \/ Startup(n) \/ ChildEnds(n)

Next ==
  \/ UserResumes \/ UserRuns
  \/ \E s \in Sessions : \/ Commands(s) \/ Work(s) \/ Fail(s) \/ Stop(s) \/ Wait(s)
                         \/ Child(s) \/ Kill(s) \/ KillChild(s)

\* Commands, hooks and supervisors run to their ends.  A session that is sent
\* back to work again and again works at last, and a user who finds time and again
\* that nobody works on the analysis resumes it.
Fairness ==
  /\ \A s \in Sessions : /\ WF_vars(Commands(s) \/ Wait(s)) /\ SF_vars(Child(s))
                         /\ SF_vars(Work(s))
  /\ SF_vars(UserResumes)

Spec == Init /\ [][Next]_vars /\ Fairness

-----------------------------------------------------------------------------
(* Properties *)

Places   == Command \cup {"off", "working", "sync", "popen", "pid", "hook"}
Phases   == {"earlier", "bug_validation"}
Entries  == [at: Places, how: {"dispatch", "resume", "take_over"}, again: BOOLEAN,
             name: Sessions, seen: Phases, native: Sessions \cup {NoOne}]
Children == {"none", "delay", "startup", "waiting", "killed"}
Records  == [status: {"running", "failed", "interrupted", "succeeded", "removed"},
             phase: Phases, bugs: {"none", "open"}]
Mirrors  == {"none", "running", "failed", "interrupted", "succeeded"}
Locks    == [by: Sessions, written: BOOLEAN, live: BOOLEAN] \cup {NoLock}
Leases   == Sessions \cup {NoOne}
Tickets  == [status: {"none", "pending", "starting", "started", "failed", "exited"},
             name: Sessions \cup {NoOne}, child: Sessions \cup {NoOne}]

\* The files, the lease and the sessions have values of their types.
TypeOK ==
  /\ session \in [Sessions -> Entries] /\ child \in [Sessions -> Children]
  /\ record \in Records /\ mirror \in Mirrors
  /\ lock \in Locks /\ lease \in Leases
  /\ ticket \in Tickets /\ flock \in Sessions \cup {NoOne}
  /\ faults \in 0 .. MaxFaults /\ lost \in BOOLEAN /\ exited \in BOOLEAN

\* Alone: one supervisor at most, which a checkpoint that takes its ticket does not ensure.
SupervisorAlone == Cardinality({n \in Sessions : Up(n)}) <= 1

\* However Stops, launches, slow children and kills interleave, two supervisors are
\* alive at the same time only after a checkpoint has replaced the ticket of one, or
\* a launch has been killed before it wrote the pid.
OneSupervisor == ~lost => SupervisorAlone

\* "Do not repeatedly relaunch a native process which exited before the DAG
\* converged" (continuation_supervisor.py:96): none is launched after one that the
\* ticket knew has exited, until a checkpoint shows that some session has got on.
NotRelaunched ==
  [][\A n \in Sessions : Up(n)' /\ ~Up(n) => ~exited]_vars

\* "may launch the installed native Claude/Codex CLI and only then approve the current
\* stop" (skills/run/SKILL.md:600): a session of the user's that stops while the
\* analysis has work leaves a native session to a supervisor, unless that was killed.
HandedOver ==
  [][\A s \in Sessions :
       /\ Continuable(record.status) /\ ~Converged /\ faults' = faults
       /\ session[s].at \in {"working", "hook"} /\ session'[s].at = "off" /\ child[s] = "none"
       => \E n \in Sessions : child[n] \in {"waiting", "killed"}]_vars

\* Whatever a killed command leaves of lock, lease and ticket, and whichever ticket a
\* checkpoint takes away, the analysis is completed at last by sessions the user
\* resumes.
Completes == <>(record.status = "succeeded")

\* "A fresh lease is a potentially active analysis; lock takeover requires an
\* explicit user confirmation." (README.md:347): without one, and without a
\* native process, one session at most works on the analysis.
OneCoordinator ==
  ("take_over" \notin Typed /\ \A n \in Sessions : child[n] = "none")
    => Cardinality({s \in Sessions : Working(s)}) <= 1

\* "Do not repeatedly relaunch a native process which exited before the DAG
\* converged": a ticket that has been given up stays given up.
GivenUpStays == [][GivenUp => GivenUp']_vars

\* Never "rerun an earlier successful phase" (references/resume-contract.md:35): a
\* resume that was let in before the analysis completed does not reopen it.
CompletedStays ==
  [][record.status = "succeeded" => record'.status \in {"succeeded", "removed"}]_vars

\* "only then may this turn be approved" (continuation_guard.py:246): a session that
\* stops while the analysis has work, native or not, leaves another one to a supervisor.
HandedToAnother ==
  [][\A s \in Sessions :
       /\ Continuable(record.status) /\ ~Converged /\ faults' = faults
       /\ session[s].at \in {"working", "hook"} /\ session'[s].at = "off"
       => \E n \in Sessions \ {s} : child[n] \in {"waiting", "killed"}]_vars
=============================================================================
