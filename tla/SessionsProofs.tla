--------------------------- MODULE SessionsProofs ---------------------------
(***************************************************************************)
(* Proofs about Sessions, for any number of sessions and faults.           *)
(***************************************************************************)
EXTENDS Sessions, FiniteSetTheorems, TLAPS

-----------------------------------------------------------------------------
(* The operators keep their types *)

\* A session at a place, with what its command keeps, is well formed.
LEMMA PlacedEntry ==
  ASSUME NEW e \in Entries, NEW place \in Places,
         NEW how \in {"dispatch", "resume", "take_over"}
  PROVE  [e EXCEPT !.at = place, !.how = how, !.seen = "earlier", !.native = NoOne] \in Entries
BY DEF Entries, Phases

LEMMA KeptType ==
  ASSUME NEW how \in {"dispatch", "resume", "take_over"}, NEW place \in Places
  PROVE  Kept(how, place) \in {"dispatch", "resume", "take_over"}
BY DEF Kept

\* A session that goes to a place, or ends, stays well formed.
LEMMA GoesType ==
  ASSUME NEW s \in Sessions, NEW place \in Places,
         session \in [Sessions -> Entries], Goes(s, place)
  PROVE  session' \in [Sessions -> Entries]
<1>1. Gone(s) \in Entries
  BY DEF Gone, Entries, Places, Phases
<1>2. session[s].how \in {"dispatch", "resume", "take_over"}
  BY DEF Entries
<1>3. CASE place = "off"
  <2>1. session' = [session EXCEPT ![s] = Gone(s)]
    BY <1>3 DEF Goes
  <2>2. QED
    BY <2>1, <1>1
<1>4. CASE place # "off"
  <2>1. PICK how \in {"dispatch", "resume", "take_over"} : how = Kept(session[s].how, place)
    BY <1>2, KeptType
  <2>2. session' = [session EXCEPT ![s] =
           [session[s] EXCEPT !.at = place, !.how = how, !.seen = "earlier", !.native = NoOne]]
    BY <1>4, <2>1 DEF Goes
  <2>3. QED
    BY <2>2, PlacedEntry
<1>5. QED
  BY <1>3, <1>4

\* The end of a command leaves a lock and a lease.
LEMMA OverType ==
  ASSUME NEW s \in Sessions, lock \in Locks, lease \in Leases
  PROVE  Over(s, lock) \in Locks /\ LeaseOver(s) \in Leases
<1>1. CASE lock \in [by: Sessions, written: BOOLEAN, live: BOOLEAN]
  BY <1>1 DEF Over, LeaseOver, Locks, Leases
<1>2. CASE lock = NoLock
  <2>1. lock.by # s
    BY <1>2, SessionsAssumption DEF NoLock
  <2>2. QED
    BY <1>2, <2>1 DEF Over, LeaseOver, Locks, Leases
<1>3. QED
  BY <1>1, <1>2 DEF Locks

\* A lock file that a command fills is one it created.
LEMMA FillType ==
  ASSUME NEW s \in Sessions, lock \in Locks, lock.by = s
  PROVE  [lock EXCEPT !.written = TRUE] \in Locks
<1>1. lock \in [by: Sessions, written: BOOLEAN, live: BOOLEAN]
  BY SessionsAssumption DEF Locks, NoLock
<1>2. QED
  BY <1>1 DEF Locks

LEMMA FaultCounted == ASSUME TypeOK, Fault PROVE faults' \in 0 .. MaxFaults
BY SessionsAssumption DEF TypeOK, Fault

\* What a step changes of ticket, file lock and histories, it changes to values of
\* their types.
HookType ==
  /\ ticket' \in Tickets /\ flock' \in Sessions \cup {NoOne}
  /\ lost' \in BOOLEAN /\ exited' \in BOOLEAN

LEMMA HookKept == ASSUME TypeOK, UNCHANGED hook PROVE HookType
BY DEF TypeOK, hook, HookType

LEMMA Replaced == ASSUME TypeOK, ControlReplaced PROVE HookType
<1>1. NoTicket \in Tickets
  BY DEF NoTicket, Tickets
<1>2. UnderWay \in BOOLEAN
  BY DEF UnderWay
<1>3. QED
  BY <1>1, <1>2 DEF TypeOK, ControlReplaced, HookType

-----------------------------------------------------------------------------
(* Every step keeps the types: the commands *)

\* A session in which a command is typed stays well formed.
LEMMA TypedEntry ==
  ASSUME NEW e \in Entries, NEW command \in {"dispatch", "resume", "take_over"}
  PROVE  [e EXCEPT !.at = "check", !.how = command, !.again = FALSE] \in Entries
BY DEF Entries, Places, Command

LEMMA StartType ==
  ASSUME TypeOK, NEW s \in Sessions, NEW command \in {"dispatch", "resume", "take_over"},
         Start(s, command), faults' \in 0 .. MaxFaults
  PROVE  TypeOK'
<1>1. [session[s] EXCEPT !.at = "check", !.how = command, !.again = FALSE] \in Entries
  BY TypedEntry DEF TypeOK
<1>2. session' = [session EXCEPT ![s] = [session[s] EXCEPT !.at = "check", !.how = command, !.again = FALSE]]
  BY DEF Start
<1>3. session' \in [Sessions -> Entries]
  BY <1>1, <1>2 DEF TypeOK
<1>4. HookType
  BY HookKept DEF Start
<1>5. QED
  BY <1>3, <1>4 DEF TypeOK, Start, HookType

LEMMA UserType == ASSUME TypeOK, UserResumes \/ UserRuns PROVE TypeOK'
<1>1. CASE UserResumes
  BY <1>1, StartType DEF UserResumes, TypeOK
<1>2. CASE UserRuns
  <2>1. PICK s \in Sessions, command \in {"dispatch", "resume", "take_over"} :
          Start(s, command) /\ IF Quiet THEN UNCHANGED faults ELSE Fault
    BY <1>2, SessionsAssumption DEF UserRuns
  <2>2. faults' \in 0 .. MaxFaults
    BY <2>1, FaultCounted DEF TypeOK
  <2>3. QED
    BY <2>1, <2>2, StartType
<1>3. QED
  BY <1>1, <1>2

\* A command goes on, or ends, with lock and lease and the record.
LEMMA PlaceType ==
  ASSUME TypeOK, NEW s \in Sessions, NEW place \in Places, Goes(s, place),
         record' \in Records, mirror' \in Mirrors, lock' \in Locks, lease' \in Leases,
         faults' \in 0 .. MaxFaults, UNCHANGED child, HookType
  PROVE  TypeOK'
<1>1. session' \in [Sessions -> Entries]
  BY GoesType DEF TypeOK
<1>2. QED
  BY <1>1 DEF TypeOK, HookType

LEMMA RefuseType == ASSUME TypeOK, NEW s \in Sessions, Refuse(s) PROVE TypeOK'
<1>1. lock' \in Locks /\ lease' \in Leases
  BY OverType DEF TypeOK, Refuse, Locks, Leases
<1>2. HookType
  BY HookKept DEF Refuse
<1>3. QED
  BY <1>1, <1>2, PlaceType DEF Refuse, TypeOK, Places

LEMMA StepType ==
  ASSUME TypeOK, NEW s \in Sessions, NEW place \in Places, Step(s, place),
         lock' \in Locks, lease' \in Leases
  PROVE  TypeOK'
<1>1. HookType
  BY HookKept DEF Step
<1>2. QED
  BY <1>1, PlaceType DEF Step, TypeOK

LEMMA LoadType == ASSUME TypeOK, NEW s \in Sessions, Load(s) PROVE TypeOK'
<1>1. CASE Resumable(record)
  <2>1. \A e \in Entries, p \in Phases : [e EXCEPT !.at = "save", !.seen = p] \in Entries
    BY DEF Entries, Places, Command
  <2>2. record.phase \in Phases
    BY DEF TypeOK, Records
  <2>3. session' = [session EXCEPT ![s] = [session[s] EXCEPT !.at = "save", !.seen = record.phase]]
    BY <1>1 DEF Load
  <2>4. session' \in [Sessions -> Entries]
    BY <2>1, <2>2, <2>3 DEF TypeOK
  <2>5. HookType
    BY <1>1, HookKept DEF Load
  <2>6. QED
    BY <1>1, <2>4, <2>5 DEF Load, TypeOK, HookType
<1>2. CASE ~Resumable(record)
  BY <1>2, RefuseType DEF Load
<1>3. QED
  BY <1>1, <1>2

LEMMA SaveType == ASSUME TypeOK, NEW s \in Sessions, Save(s) PROVE TypeOK'
<1>1. CASE record.status # "removed"
  <2>1. session[s].seen \in Phases
    BY DEF TypeOK, Entries
  <2>2. record' \in Records
    BY <1>1, <2>1 DEF Save, TypeOK, Records
  <2>3. HookType
    BY <1>1, HookKept DEF Save
  <2>4. QED
    BY <1>1, <2>2, <2>3, PlaceType DEF Save, TypeOK, Places, Command
<1>2. CASE record.status = "removed"
  BY <1>2, RefuseType DEF Save
<1>3. QED
  BY <1>1, <1>2

LEMMA SyncType == ASSUME TypeOK, NEW s \in Sessions, Sync(s) PROVE TypeOK'
<1>1. record' \in Records
  BY DEF Sync, TypeOK, Records
<1>2. lock' \in Locks /\ lease' \in Leases
  BY DEF Sync, Locks, Leases
<1>3. HookType
  BY HookKept DEF Sync
<1>4. QED
  BY <1>1, <1>2, <1>3, PlaceType DEF Sync, TypeOK, Places

LEMMA CommandsType == ASSUME TypeOK, NEW s \in Sessions, Commands(s) PROVE TypeOK'
<1> USE DEF Places, Command
<1>1. lock \in Locks /\ lease \in Leases /\ NoLock \in Locks /\ s \in Leases /\ NoOne \in Leases
  BY DEF TypeOK, Locks, Leases
<1>2. CASE Check(s)
  BY <1>1, <1>2, StepType DEF Check
<1>3. CASE Read(s)
  BY <1>1, <1>3, StepType, RefuseType DEF Read
<1>4. CASE Unlink(s)
  BY <1>1, <1>4, StepType DEF Unlink
<1>5. CASE Create(s)
  <2>1. [by |-> s, written |-> FALSE, live |-> TRUE] \in Locks
    BY DEF Locks
  <2>2. QED
    BY <1>1, <1>5, <2>1, StepType, RefuseType DEF Create
<1>6. CASE Fill(s)
  BY <1>1, <1>6, StepType, FillType DEF Fill
<1>7. CASE Lease(s)
  BY <1>1, <1>7, StepType DEF Lease
<1>8. CASE Beat(s)
  BY <1>1, <1>8, StepType, RefuseType, OverType DEF Beat
<1>9. QED
  BY <1>2, <1>3, <1>4, <1>5, <1>6, <1>7, <1>8, LoadType, SaveType, SyncType DEF Commands

-----------------------------------------------------------------------------
(* Every step keeps the types: work, Stops and supervisors *)

LEMMA WorkType == ASSUME TypeOK, NEW s \in Sessions, Work(s) PROVE TypeOK'
<1>1. lock' \in Locks /\ lease' \in Leases /\ UNCHANGED <<child, faults>>
  BY DEF Work, PhasePasses, BugJobs, Complete, TypeOK
<1>2. CASE PhasePasses
  <2>1. record' \in Records /\ mirror' \in Mirrors
    BY <1>2 DEF PhasePasses, TypeOK, Records, Phases, Mirrors
  <2>2. HookType
    BY <1>2, Replaced, HookKept DEF PhasePasses
  <2>3. QED
    BY <1>1, <1>2, <2>1, <2>2 DEF PhasePasses, TypeOK, HookType
<1>3. CASE BugJobs
  <2>1. record' \in Records
    BY <1>3 DEF BugJobs, TypeOK, Records
  <2>2. HookType
    BY <1>3, HookKept DEF BugJobs
  <2>3. QED
    BY <1>1, <1>3, <2>1, <2>2 DEF BugJobs, TypeOK, HookType
<1>4. CASE Complete(s)
  <2>1. record' \in Records /\ mirror' \in Mirrors
    BY <1>4 DEF Complete, TypeOK, Records, Mirrors
  <2>2. HookType
    BY <1>4, Replaced DEF Complete
  <2>3. Goes(s, "sync") /\ "sync" \in Places
    BY <1>4 DEF Complete, Places
  <2>4. QED
    BY <1>1, <2>1, <2>2, <2>3, PlaceType DEF TypeOK
<1>5. QED
  BY <1>2, <1>3, <1>4 DEF Work

LEMMA FailType == ASSUME TypeOK, NEW s \in Sessions, Fail(s) PROVE TypeOK'
<1>1. record' \in Records /\ mirror' \in Mirrors
  BY DEF Fail, TypeOK, Records, Mirrors
<1>2. HookType
  BY Replaced DEF Fail
<1>3. lock' \in Locks /\ lease' \in Leases /\ faults' \in 0 .. MaxFaults
  BY FaultCounted DEF Fail, Locks, Leases
<1>4. QED
  BY <1>1, <1>2, <1>3 DEF Fail, TypeOK, HookType

\* A ticket that is made or found is well formed.
LEMMA EnsuredType == ASSUME TypeOK, NEW s \in Sessions PROVE Ensured(s) \in Tickets
<1>1. session[s].name \in Sessions
  BY DEF TypeOK, Entries
<1>2. QED
  BY <1>1 DEF Ensured, TypeOK, Tickets

\* The place of a session changes, and the ticket with its lock and histories.
LEMMA HookPlaceType ==
  ASSUME TypeOK, NEW s \in Sessions, NEW place \in Places, Goes(s, place),
         UNCHANGED <<child, record, mirror, lock, lease>>, faults' \in 0 .. MaxFaults, HookType
  PROVE  TypeOK'
BY PlaceType DEF TypeOK

LEMMA StopType == ASSUME TypeOK, NEW s \in Sessions, Stop(s) PROVE TypeOK'
<1> USE DEF Places
<1>1. CASE StopApproved(s)
  BY <1>1, HookPlaceType, HookKept DEF StopApproved, TypeOK
<1>2. CASE StopBlocked(s)
  <2>1. \A e \in Entries : [e EXCEPT !.again = TRUE] \in Entries
    BY DEF Entries
  <2>2. session' \in [Sessions -> Entries]
    BY <1>2, <2>1 DEF StopBlocked, TypeOK
  <2>3. ticket' \in Tickets
    BY <1>2, EnsuredType DEF StopBlocked, TypeOK
  <2>4. QED
    BY <1>2, <2>2, <2>3 DEF StopBlocked, TypeOK
<1>3. CASE Launch(s)
  <2>1. Ensured(s) \in Tickets
    BY EnsuredType
  <2>2. CASE /\ ticket' = [Ensured(s) EXCEPT !.status = "starting", !.child = NoOne]
             /\ Goes(s, "popen") /\ flock' = s /\ lost' = (lost /\ UnderWay)
    <3>1. ticket' \in Tickets
      BY <2>1, <2>2 DEF Tickets
    <3>2. HookType
      BY <1>3, <2>2, <3>1 DEF Launch, TypeOK, HookType, UnderWay
    <3>3. QED
      BY <1>3, <2>2, <3>2, HookPlaceType DEF Launch, TypeOK
  <2>3. CASE /\ ticket' = [Ensured(s) EXCEPT !.status = "failed"]
             /\ UNCHANGED <<session, flock, lost>>
    <3>1. ticket' \in Tickets
      BY <2>1, <2>3 DEF Tickets
    <3>2. QED
      BY <1>3, <2>3, <3>1 DEF Launch, TypeOK
  <2>4. QED
    BY <1>3, <2>2, <2>3 DEF Launch
<1>4. CASE StopAccepted(s)
  BY <1>4, HookPlaceType, HookKept DEF StopAccepted, TypeOK
<1>5. QED
  BY <1>1, <1>2, <1>3, <1>4 DEF Stop

LEMMA WaitType == ASSUME TypeOK, NEW s \in Sessions, Wait(s) PROVE TypeOK'
<1> USE DEF Places
<1>1. flock' \in Sessions \cup {NoOne} \/ ~(Popen(s) \/ WritePid(s))
  BY DEF Popen, WritePid, Unlocks, TypeOK
<1>2. CASE Popen(s)
  <2>1. HookType
    BY <1>1, <1>2 DEF Popen, TypeOK, HookType
  <2>2. CASE \E n \in Sessions \ {s} :
               /\ child' = [child EXCEPT ![n] = "delay"]
               /\ session' = [session EXCEPT ![s].at = "pid", ![s].native = n]
    <3>1. PICK n \in Sessions \ {s} :
               /\ child' = [child EXCEPT ![n] = "delay"]
               /\ session' = [session EXCEPT ![s].at = "pid", ![s].native = n]
      BY <2>2
    <3>2. \A e \in Entries : [e EXCEPT !.at = "pid", !.native = n] \in Entries
      BY DEF Entries
    <3>3. session' = [session EXCEPT ![s] = [session[s] EXCEPT !.at = "pid", !.native = n]]
      BY <3>1
    <3>4. session' \in [Sessions -> Entries]
      BY <3>2, <3>3 DEF TypeOK
    <3>5. child' \in [Sessions -> Children]
      BY <3>1 DEF TypeOK, Children
    <3>6. QED
      BY <1>2, <2>1, <3>4, <3>5 DEF Popen, TypeOK, HookType
  <2>3. CASE Goes(s, "working") /\ UNCHANGED child
    BY <1>2, <2>1, <2>3, HookPlaceType DEF Popen, TypeOK
  <2>4. QED
    BY <1>2, <2>2, <2>3 DEF Popen
<1>3. CASE WritePid(s)
  <2>1. session[s].name \in Sessions /\ session[s].native \in Sessions \cup {NoOne}
    BY DEF TypeOK, Entries
  <2>2. ticket' \in Tickets
    BY <1>3, <2>1 DEF WritePid, Tickets
  <2>3. HookType
    BY <1>1, <1>3, <2>2 DEF WritePid, TypeOK, HookType
  <2>4. QED
    BY <1>3, <2>3, HookPlaceType DEF WritePid, TypeOK
<1>4. CASE Observe(s)
  <2>1. faults' \in 0 .. MaxFaults
    BY <1>4, FaultCounted DEF Observe, TimeOut, TypeOK
  <2>2. QED
    BY <1>4, <2>1, HookPlaceType, HookKept DEF Observe
<1>5. QED
  BY <1>2, <1>3, <1>4 DEF Wait

LEMMA UpdatedType ==
  ASSUME TypeOK, NEW status \in {"started", "failed", "exited"}, UpdateTicket(status)
  PROVE  ticket' \in Tickets
BY DEF UpdateTicket, TypeOK, Tickets

LEMMA ChildType == ASSUME TypeOK, NEW n \in Sessions, Child(n) PROVE TypeOK'
<1>1. \A c \in Children : [child EXCEPT ![n] = c] \in [Sessions -> Children]
  BY DEF TypeOK
<1>2. CASE Spawn(n)
  <2>1. child' \in [Sessions -> Children]
    BY <1>1, <1>2 DEF Spawn, Children
  <2>2. ticket' \in Tickets
    BY <1>2, UpdatedType DEF Spawn, TypeOK
  <2>3. session' \in [Sessions -> Entries]
    <3>1. CASE UNCHANGED session
      BY <3>1 DEF TypeOK
    <3>2. CASE \E place \in {"working", "check"}, id \in Sessions :
                 session' = [session EXCEPT ![n] = [Gone(n) EXCEPT !.at = place, !.name = id]]
      <4>1. PICK place \in {"working", "check"}, id \in Sessions :
              session' = [session EXCEPT ![n] = [Gone(n) EXCEPT !.at = place, !.name = id]]
        BY <3>2
      <4>2. [Gone(n) EXCEPT !.at = place, !.name = id] \in Entries
        BY DEF Gone, Entries, Places, Command, Phases
      <4>3. QED
        BY <4>1, <4>2 DEF TypeOK
    <3>3. (IF Named THEN {ticket.name, n} ELSE Sessions) \subseteq Sessions
      BY DEF Named, TypeOK, Tickets
    <3>4. QED
      BY <1>2, <3>1, <3>2, <3>3 DEF Spawn
  <2>4. faults' \in 0 .. MaxFaults
    BY <1>2, FaultCounted DEF Spawn, TypeOK
  <2>5. QED
    BY <1>2, <2>1, <2>2, <2>3, <2>4 DEF Spawn, TypeOK
<1>3. CASE Startup(n) \/ ChildEnds(n)
  <2>1. child' \in [Sessions -> Children]
    BY <1>1, <1>3 DEF Startup, ChildEnds, Children
  <2>2. ticket' \in Tickets
    BY <1>3, UpdatedType DEF Startup, ChildEnds
  <2>3. exited' \in BOOLEAN
    BY <1>3 DEF Startup, ChildEnds, TypeOK
  <2>4. QED
    BY <1>3, <2>1, <2>2, <2>3 DEF Startup, ChildEnds, TypeOK
<1>4. QED
  BY <1>2, <1>3 DEF Child

LEMMA KillType ==
  ASSUME TypeOK, NEW s \in Sessions, Kill(s) \/ KillChild(s)
  PROVE  TypeOK'
<1>1. faults' \in 0 .. MaxFaults
  BY FaultCounted DEF Kill, KillChild
<1>2. CASE Kill(s)
  <2>1. PICK place \in {"off", "working"} : Goes(s, place)
    BY <1>2 DEF Kill
  <2>2. lock' \in Locks /\ lease' \in Leases
    BY <1>2, OverType DEF Kill, TypeOK
  <2>3. HookType
    BY <1>2 DEF Kill, Unlocks, TypeOK, HookType
  <2>4. QED
    BY <1>1, <1>2, <2>1, <2>2, <2>3, PlaceType DEF Kill, TypeOK, Places
<1>3. CASE KillChild(s)
  <2>1. child' \in [Sessions -> Children]
    BY <1>3 DEF KillChild, TypeOK, Children
  <2>2. HookType
    BY <1>3, HookKept DEF KillChild
  <2>3. QED
    BY <1>1, <1>3, <2>1, <2>2 DEF KillChild, TypeOK, HookType
<1>4. QED
  BY <1>2, <1>3

LEMMA NextType == ASSUME TypeOK, [Next]_vars PROVE TypeOK'
<1>1. CASE UNCHANGED vars
  BY <1>1 DEF vars, TypeOK
<1>2. CASE UserResumes \/ UserRuns
  BY <1>2, UserType
<1>3. ASSUME NEW s \in Sessions,
             \/ Commands(s) \/ Work(s) \/ Fail(s) \/ Stop(s) \/ Wait(s)
             \/ Child(s) \/ Kill(s) \/ KillChild(s)
      PROVE  TypeOK'
  BY <1>3, CommandsType, WorkType, FailType, StopType, WaitType, ChildType, KillType
<1>4. QED
  BY <1>1, <1>2, <1>3 DEF Next

-----------------------------------------------------------------------------
(* The invariant *)

\* Unless a launch or a supervisor may be unknown, a launch holds the file lock of the
\* ticket, and the process it has made, if any, is the only supervisor, and another's.
LaunchKnown ==
  ~lost => \A s \in Sessions :
    /\ Launching(s) => flock = s
    /\ session[s].at = "popen" => \A n \in Sessions : ~Up(n)
    /\ session[s].at = "pid" => \A n \in Sessions : Up(n) => n = session[s].native /\ n # s

\* Nor is a supervisor alive, outside a launch, but the one the ticket names.
SupervisorKnown ==
  ~lost /\ (\A s \in Sessions : ~Launching(s))
    => \A n \in Sessions :
         Up(n) => Named /\ ticket.child = n /\ ticket.status \in {"starting", "started"}

\* A ticket that says so has been started by a supervisor, which waits or was killed.
StartedRuns ==
  ticket.status = "started" => \E n \in Sessions : child[n] \in {"waiting", "killed"}

\* While a native process is known to have exited, nothing is under way and the
\* ticket is given up.
ExitedKnown == exited => GivenUp /\ ~UnderWay

IInv == TypeOK /\ LaunchKnown /\ SupervisorKnown /\ StartedRuns /\ ExitedKnown

LEMMA InitInv == Init => IInv
<1> SUFFICES ASSUME Init PROVE IInv
  OBVIOUS
<1>1. \A s \in Sessions : Gone(s) \in Entries /\ [Gone(s) EXCEPT !.at = "working"] \in Entries
  BY DEF Gone, Entries, Places, Phases
<1>2. session = [s \in Sessions |-> IF s = First THEN [Gone(s) EXCEPT !.at = "working"] ELSE Gone(s)]
  BY SessionsAssumption DEF Init
<1>3. session \in [Sessions -> Entries]
  BY <1>1, <1>2
<1>4. TypeOK
  <2>1. child \in [Sessions -> Children] /\ record \in Records /\ mirror \in Mirrors
    BY DEF Init, Children, Records, Phases, Mirrors
  <2>2. lock \in Locks /\ lease \in Leases /\ ticket \in Tickets
    BY SessionsAssumption DEF Init, Locks, Leases, Tickets, NoTicket
  <2>3. flock \in Sessions \cup {NoOne} /\ lost \in BOOLEAN /\ exited \in BOOLEAN
    BY DEF Init
  <2>4. faults \in 0 .. MaxFaults
    BY SessionsAssumption DEF Init
  <2>5. QED
    BY <1>3, <2>1, <2>2, <2>3, <2>4 DEF TypeOK
<1>5. \A s \in Sessions : ~Up(s) /\ ~Launching(s)
  BY <1>2 DEF Init, Up, Launching, Gone
<1>6. QED
  BY <1>4, <1>5 DEF Init, IInv, LaunchKnown, SupervisorKnown, StartedRuns, ExitedKnown, NoTicket,
                    Launching

-----------------------------------------------------------------------------
(* Steps that launch nothing *)

\* Every session that is in a launch after the step was there before.
LaunchesKept ==
  \A s \in Sessions :
    Launching(s)' => session'[s].at = session[s].at /\ session'[s].native = session[s].native

LEMMA PlaceKeepsLaunches ==
  ASSUME TypeOK, NEW s \in Sessions, NEW place, place \notin {"popen", "pid"}, Goes(s, place)
  PROVE  LaunchesKept
<1>1. \A t \in Sessions \ {s} : session'[t] = session[t]
  BY DEF Goes, TypeOK
<1>2. session'[s].at \in {place, "off"}
  <2>1. CASE place = "off"
    BY <2>1 DEF Goes, Gone, TypeOK
  <2>2. CASE place # "off"
    BY <2>2 DEF Goes, TypeOK, Entries
  <2>3. QED
    BY <2>1, <2>2
<1>3. QED
  BY <1>1, <1>2 DEF LaunchesKept, Launching

\* What is under way after such a step was so before, when no process is made.
LEMMA NothingNew ==
  ASSUME LaunchesKept, \A n \in Sessions : Up(n)' => Up(n)
  PROVE  UnderWay' => UnderWay
BY DEF LaunchesKept, Launching, UnderWay

\* A step that leaves processes, ticket and lock alone, and launches nothing.
LEMMA QuietStep ==
  ASSUME IInv, TypeOK', LaunchesKept, UNCHANGED <<child, ticket, flock, lost, exited>>,
         (\E s \in Sessions : Launching(s)) => (\E s \in Sessions : Launching(s)')
  PROVE  IInv'
<1>1. \A n \in Sessions : Up(n)' = Up(n)
  BY DEF Up
<1>2. LaunchKnown'
  BY <1>1 DEF IInv, LaunchKnown, LaunchesKept, Launching
<1>3. SupervisorKnown'
  BY <1>1 DEF IInv, SupervisorKnown, Named
<1>4. StartedRuns'
  BY DEF IInv, StartedRuns
<1>5. ExitedKnown'
  <2>1. UnderWay' => UnderWay
    BY <1>1, NothingNew
  <2>2. QED
    BY <2>1 DEF IInv, ExitedKnown, GivenUp, Named
<1>6. QED
  BY <1>2, <1>3, <1>4, <1>5 DEF IInv

\* A checkpoint takes the ticket away, and whatever is under way is lost to it.
LEMMA ReplacedStep ==
  ASSUME IInv, TypeOK', LaunchesKept, ControlReplaced, UNCHANGED child
  PROVE  IInv'
<1>1. \A n \in Sessions : Up(n)' = Up(n)
  BY DEF Up
<1>2. ~lost' => ~UnderWay'
  BY <1>1, NothingNew DEF ControlReplaced, TypeOK
<1>3. LaunchKnown' /\ SupervisorKnown'
  BY <1>2 DEF LaunchKnown, SupervisorKnown, UnderWay, Launching
<1>4. StartedRuns' /\ ExitedKnown'
  BY DEF ControlReplaced, NoTicket, StartedRuns, ExitedKnown
<1>5. QED
  BY <1>3, <1>4 DEF IInv

\* A session that is not in a launch goes to a place that is not in one.
LEMMA GoesStep ==
  ASSUME IInv, TypeOK', NEW s \in Sessions, ~Launching(s), NEW place, place \notin {"popen", "pid"},
         Goes(s, place), UNCHANGED <<child, ticket, flock, lost, exited>>
  PROVE  IInv'
<1>1. LaunchesKept
  BY PlaceKeepsLaunches DEF IInv
<1>2. \A t \in Sessions \ {s} : session'[t] = session[t]
  BY DEF Goes, IInv, TypeOK
<1>3. QED
  BY <1>1, <1>2, QuietStep DEF Launching

LEMMA UserInv == ASSUME IInv, UserResumes \/ UserRuns PROVE IInv'
<1>1. PICK s \in Sessions, command \in {"dispatch", "resume", "take_over"} : Start(s, command)
  BY SessionsAssumption DEF UserResumes, UserRuns
<1>2. TypeOK'
  BY UserType DEF IInv
<1>3. ~Launching(s) /\ ~Launching(s)'
  BY <1>1 DEF Start, Launching, IInv, TypeOK
<1>4. \A t \in Sessions \ {s} : session'[t] = session[t]
  BY <1>1 DEF Start, IInv, TypeOK
<1>5. LaunchesKept
  BY <1>3, <1>4 DEF LaunchesKept, Launching
<1>6. QED
  BY <1>1, <1>2, <1>3, <1>4, <1>5, QuietStep DEF Start, hook, Launching

LEMMA CommandsInv == ASSUME IInv, NEW s \in Sessions, Commands(s) PROVE IInv'
<1>1. TypeOK'
  BY CommandsType DEF IInv
<1>2. session[s].at \in Command \cup {"sync"} /\ ~Launching(s)
  BY DEF Commands, Check, Read, Unlink, Create, Fill, Lease, Load, Save, Beat, Sync, Command, Launching
<1>3. UNCHANGED <<child, ticket, flock, lost, exited>>
  BY DEF Commands, Check, Read, Unlink, Create, Fill, Lease, Load, Save, Beat, Sync, Refuse, Step, hook
<1>4. CASE Load(s) /\ Resumable(record)
  <2>1. session' = [session EXCEPT ![s].at = "save", ![s].seen = record.phase]
    BY <1>4 DEF Load
  <2>2. \A t \in Sessions \ {s} : session'[t] = session[t]
    BY <2>1 DEF IInv, TypeOK
  <2>3. session'[s].at = "save"
    BY <2>1 DEF IInv, TypeOK, Entries
  <2>4. LaunchesKept
    BY <2>2, <2>3 DEF LaunchesKept, Launching
  <2>5. QED
    BY <1>1, <1>2, <1>3, <2>2, <2>4, QuietStep DEF Launching
<1>5. CASE ~(Load(s) /\ Resumable(record))
  <2>1. PICK place \in Command \cup {"off", "working"} : Goes(s, place)
    BY <1>5 DEF Commands, Check, Read, Unlink, Create, Fill, Lease, Load, Save, Beat, Sync, Refuse,
                Step, Command
  <2>2. place \notin {"popen", "pid"}
    BY DEF Command
  <2>3. QED
    BY <1>1, <1>2, <1>3, <2>1, <2>2, GoesStep
<1>6. QED
  BY <1>4, <1>5

LEMMA WorkInv == ASSUME IInv, NEW s \in Sessions, Work(s) \/ Fail(s) PROVE IInv'
<1>1. TypeOK' /\ UNCHANGED child
  BY WorkType, FailType DEF IInv, Work, Fail
<1>2. CASE UNCHANGED session
  <2>1. LaunchesKept
    BY <1>2 DEF LaunchesKept, Launching
  <2>2. CASE ControlReplaced
    BY <1>1, <2>1, <2>2, ReplacedStep
  <2>3. CASE UNCHANGED hook
    BY <1>1, <1>2, <2>1, <2>3, QuietStep DEF hook, Launching
  <2>4. ControlReplaced \/ UNCHANGED hook
    BY DEF Work, PhasePasses, BugJobs, Complete, Fail
  <2>5. QED
    BY <2>2, <2>3, <2>4
<1>3. CASE Complete(s)
  <2>1. LaunchesKept
    BY <1>3, PlaceKeepsLaunches DEF Complete, IInv
  <2>2. QED
    BY <1>1, <1>3, <2>1, ReplacedStep DEF Complete
<1>4. QED
  BY <1>2, <1>3 DEF Work, PhasePasses, BugJobs, Fail

-----------------------------------------------------------------------------
(* Stops and launches *)

\* When nobody holds the file lock and nothing is lost, no launch is under way.
LEMMA LockFree ==
  ASSUME IInv, ~lost, flock = NoOne
  PROVE  \A s \in Sessions : ~Launching(s)
BY SessionsAssumption DEF IInv, LaunchKnown

\* Then a supervisor that is alive is the one the ticket names.
LEMMA OnlyAlive ==
  ASSUME IInv, ~lost, flock = NoOne, ~Alive
  PROVE  ~UnderWay
<1>1. \A s \in Sessions : ~Launching(s)
  BY LockFree
<1>2. \A n \in Sessions : ~Up(n)
  BY <1>1, SessionsAssumption DEF IInv, SupervisorKnown, Alive, ActiveTicket
<1>3. QED
  BY <1>1, <1>2 DEF UnderWay

LEMMA StopBlockedInv == ASSUME IInv, NEW s \in Sessions, StopBlocked(s) PROVE IInv'
<1>1. TypeOK'
  BY StopType DEF IInv, Stop
<1>2. \A t \in Sessions : session'[t].at = session[t].at /\ session'[t].native = session[t].native
  BY DEF StopBlocked, IInv, TypeOK
<1>3. LaunchesKept /\ \A t \in Sessions : Launching(t)' = Launching(t)
  BY <1>2 DEF LaunchesKept, Launching
<1>4. CASE UNCHANGED ticket
  BY <1>1, <1>3, <1>4, QuietStep DEF StopBlocked
<1>5. CASE flock = NoOne /\ ticket' = Ensured(s) /\ ~Refused(s) /\ ~ActiveTicket
  <2>1. ticket' = [status |-> "pending", name |-> session[s].name, child |-> NoOne]
    BY <1>5 DEF Ensured
  <2>2. ~lost => ~UnderWay
    BY <1>5, OnlyAlive DEF Alive
  <2>3. ~lost' => ~UnderWay'
    BY <1>3, <2>2 DEF StopBlocked, UnderWay, Up
  <2>4. LaunchKnown' /\ SupervisorKnown'
    BY <2>3 DEF LaunchKnown, SupervisorKnown, UnderWay, Launching
  <2>5. ~exited'
    BY <1>5 DEF StopBlocked, Refused, IInv, ExitedKnown
  <2>6. QED
    BY <1>1, <2>1, <2>4, <2>5 DEF IInv, StartedRuns, ExitedKnown
<1>6. QED
  BY <1>4, <1>5 DEF StopBlocked, Ensured

\* A launch starts only where, for all that is known, nothing is under way.
LEMMA LaunchInv == ASSUME IInv, NEW s \in Sessions, Launch(s) PROVE IInv'
<1>1. TypeOK'
  BY StopType DEF IInv, Stop
<1>2. flock = NoOne /\ ~Alive /\ ~exited /\ ~exited' /\ \A n \in Sessions : Up(n)' = Up(n)
  BY DEF Launch, Refused, IInv, ExitedKnown, Up
<1>3. ~lost => ~UnderWay
  BY <1>2, OnlyAlive
<1>4. CASE /\ ticket' = [Ensured(s) EXCEPT !.status = "starting", !.child = NoOne]
           /\ Goes(s, "popen") /\ flock' = s /\ lost' = (lost /\ UnderWay)
  <2>1. ticket'.status = "starting"
    <3>1. Ensured(s) \in Tickets
      BY EnsuredType DEF IInv
    <3>2. QED
      BY <1>4, <3>1 DEF Tickets
  <2>2. \A t \in Sessions \ {s} : session'[t] = session[t]
    BY <1>4 DEF Goes, IInv, TypeOK
  <2>3. session'[s].at = "popen"
    BY <1>4 DEF Goes, IInv, TypeOK, Entries
  <2>4. ~lost' => ~UnderWay
    BY <1>3, <1>4 DEF IInv, TypeOK
  <2>5. LaunchKnown'
    BY <1>2, <1>4, <2>2, <2>3, <2>4 DEF LaunchKnown, UnderWay, Launching
  <2>6. SupervisorKnown'
    BY <2>3 DEF SupervisorKnown, Launching
  <2>7. QED
    BY <1>1, <1>2, <2>1, <2>5, <2>6 DEF IInv, StartedRuns, ExitedKnown
<1>5. CASE /\ ticket' = [Ensured(s) EXCEPT !.status = "failed"]
           /\ UNCHANGED <<session, flock, lost>>
  <2>1. ticket'.status = "failed"
    <3>1. Ensured(s) \in Tickets
      BY EnsuredType DEF IInv
    <3>2. QED
      BY <1>5, <3>1 DEF Tickets
  <2>2. ~lost' => ~UnderWay'
    BY <1>2, <1>3, <1>5 DEF UnderWay, Launching
  <2>3. LaunchKnown' /\ SupervisorKnown'
    BY <2>2 DEF LaunchKnown, SupervisorKnown, UnderWay, Launching
  <2>4. QED
    BY <1>1, <1>2, <2>1, <2>3 DEF IInv, StartedRuns, ExitedKnown
<1>6. QED
  BY <1>4, <1>5 DEF Launch

LEMMA StopInv == ASSUME IInv, NEW s \in Sessions, Stop(s) PROVE IInv'
<1>1. CASE StopApproved(s) \/ StopAccepted(s)
  <2>1. TypeOK'
    BY StopType DEF IInv
  <2>2. ~Launching(s) /\ Goes(s, "off") /\ UNCHANGED <<child, ticket, flock, lost, exited>>
    BY <1>1 DEF StopApproved, StopAccepted, Continues, Hook, Launching, hook
  <2>3. QED
    BY <2>1, <2>2, GoesStep
<1>2. CASE StopBlocked(s)
  BY <1>2, StopBlockedInv
<1>3. CASE Launch(s)
  BY <1>3, LaunchInv
<1>4. QED
  BY <1>1, <1>2, <1>3 DEF Stop

\* The process a launch makes is the only supervisor.
LEMMA PopenInv == ASSUME IInv, NEW s \in Sessions, Popen(s) PROVE IInv'
<1>1. TypeOK'
  BY WaitType DEF IInv, Wait
<1>2. Launching(s) /\ ~exited /\ ~exited'
  BY DEF Popen, IInv, ExitedKnown, UnderWay, Launching
<1>3. CASE \E n \in Sessions \ {s} :
             /\ session[n].at = "off" /\ child[n] = "none"
             /\ child' = [child EXCEPT ![n] = "delay"]
             /\ session' = [session EXCEPT ![s].at = "pid", ![s].native = n]
             /\ UNCHANGED flock
  <2>1. PICK n \in Sessions \ {s} :
             /\ session[n].at = "off" /\ child[n] = "none"
             /\ child' = [child EXCEPT ![n] = "delay"]
             /\ session' = [session EXCEPT ![s].at = "pid", ![s].native = n]
             /\ UNCHANGED flock
    BY <1>3
  <2>2. \A t \in Sessions \ {s} : session'[t] = session[t]
    BY <2>1 DEF IInv, TypeOK
  <2>3. session'[s].at = "pid" /\ session'[s].native = n
    BY <2>1 DEF IInv, TypeOK, Entries
  <2>4. \A m \in Sessions : child'[m] = IF m = n THEN "delay" ELSE child[m]
    BY <2>1 DEF IInv, TypeOK
  <2>5. LaunchKnown'
    <3>1. SUFFICES ASSUME ~lost' PROVE LaunchKnown'
      BY DEF LaunchKnown
    <3>2. \A t \in Sessions \ {s} : ~Launching(t)'
      BY <1>2, <2>2, <3>1 DEF Popen, IInv, LaunchKnown, Launching
    <3>3. \A m \in Sessions : ~Up(m)
      BY <3>1 DEF Popen, IInv, LaunchKnown
    <3>4. \A m \in Sessions : Up(m)' => m = n
      BY <2>4, <3>3 DEF Up
    <3>5. Launching(s)' => flock' = s
      BY <1>2, <2>1, <3>1 DEF Popen, IInv, LaunchKnown
    <3>6. QED
      BY <2>3, <3>2, <3>4, <3>5 DEF LaunchKnown, Launching
  <2>6. SupervisorKnown'
    BY <2>3 DEF SupervisorKnown, Launching
  <2>7. StartedRuns'
    BY <2>1, <2>4 DEF Popen, IInv, StartedRuns
  <2>8. QED
    BY <1>1, <1>2, <2>5, <2>6, <2>7 DEF IInv, ExitedKnown
<1>4. CASE Goes(s, "working") /\ Unlocks(s) /\ UNCHANGED child
  <2>1. LaunchesKept
    BY <1>4, PlaceKeepsLaunches DEF IInv
  <2>2. ~Launching(s)'
    BY <1>4 DEF Goes, IInv, TypeOK, Entries, Launching
  <2>3. ~lost' => ~UnderWay'
    <3>1. SUFFICES ASSUME ~lost' PROVE ~UnderWay'
      OBVIOUS
    <3>2. \A t \in Sessions : ~Launching(t)'
      BY <1>2, <2>1, <2>2, <3>1 DEF Popen, IInv, LaunchKnown, LaunchesKept, Launching
    <3>3. \A m \in Sessions : ~Up(m)'
      BY <1>4, <3>1 DEF Popen, IInv, LaunchKnown, Up
    <3>4. QED
      BY <3>2, <3>3 DEF UnderWay
  <2>4. LaunchKnown' /\ SupervisorKnown'
    BY <2>3 DEF LaunchKnown, SupervisorKnown, UnderWay, Launching
  <2>5. StartedRuns'
    BY <1>4 DEF Popen, IInv, StartedRuns
  <2>6. QED
    BY <1>1, <1>2, <2>4, <2>5 DEF IInv, ExitedKnown
<1>5. QED
  BY <1>3, <1>4 DEF Popen

LEMMA WritePidInv == ASSUME IInv, NEW s \in Sessions, WritePid(s) PROVE IInv'
<1>1. TypeOK'
  BY WaitType DEF IInv, Wait
<1>2. Launching(s) /\ ~exited /\ ~exited' /\ \A n \in Sessions : Up(n)' = Up(n)
  BY DEF WritePid, IInv, ExitedKnown, UnderWay, Launching, Up
<1>3. LaunchesKept
  BY PlaceKeepsLaunches DEF WritePid, IInv
<1>4. ~Launching(s)'
  BY DEF WritePid, Goes, IInv, TypeOK, Entries, Launching
<1>5. /\ ticket'.status = "starting" /\ ticket'.child = session[s].native
      /\ ticket'.name \in Sessions /\ lost' = lost
  BY DEF WritePid, IInv, TypeOK, Entries
<1>6. ~lost' => \A t \in Sessions : ~Launching(t)'
  BY <1>2, <1>3, <1>4, <1>5 DEF IInv, LaunchKnown, LaunchesKept, Launching
<1>7. LaunchKnown'
  BY <1>6 DEF LaunchKnown, Launching
<1>8. SupervisorKnown'
  <2>1. ~lost => \A n \in Sessions : Up(n) => n = session[s].native
    BY DEF WritePid, IInv, LaunchKnown
  <2>2. QED
    BY <1>2, <1>5, <2>1, SessionsAssumption DEF SupervisorKnown, Named
<1>9. QED
  BY <1>1, <1>2, <1>5, <1>7, <1>8 DEF IInv, StartedRuns, ExitedKnown

LEMMA WaitInv == ASSUME IInv, NEW s \in Sessions, Wait(s) PROVE IInv'
<1>1. CASE Observe(s)
  <2>1. TypeOK'
    BY WaitType DEF IInv
  <2>2. PICK place \in {"off", "working"} : Goes(s, place)
    BY <1>1 DEF Observe
  <2>3. ~Launching(s) /\ UNCHANGED <<child, ticket, flock, lost, exited>>
    BY <1>1 DEF Observe, Launching, hook
  <2>4. place \notin {"popen", "pid"}
    OBVIOUS
  <2>5. QED
    BY <2>1, <2>2, <2>3, <2>4, GoesStep
<1>2. QED
  BY <1>1, PopenInv, WritePidInv DEF Wait

-----------------------------------------------------------------------------
(* Supervisors and kills *)

\* A supervisor's update goes into the ticket that is there.
LEMMA Updated ==
  ASSUME TypeOK, NEW status, UpdateTicket(status)
  PROVE  ticket'.status = status /\ ticket'.name = ticket.name /\ ticket'.child = ticket.child
BY DEF UpdateTicket, TypeOK, Tickets

\* A supervisor that finds the file lock free is, for all that is known, the only thing
\* under way, and named by the ticket.
LEMMA Alone ==
  ASSUME IInv, NEW n \in Sessions, Up(n), flock = NoOne, ~lost
  PROVE  /\ \A s \in Sessions : ~Launching(s)
         /\ \A m \in Sessions : Up(m) => m = n
         /\ Named /\ ticket.child = n
<1>1. \A s \in Sessions : ~Launching(s)
  BY LockFree
<1>2. \A m \in Sessions : Up(m) => Named /\ ticket.child = m
  BY <1>1 DEF IInv, SupervisorKnown
<1>3. QED
  BY <1>1, <1>2

\* A supervisor ends: it has updated the ticket, and nothing known is left under way.
LEMMA SupervisorEnds ==
  ASSUME IInv, TypeOK', NEW n \in Sessions, Up(n), NEW status \in {"failed", "exited"},
         UpdateTicket(status), child' = [child EXCEPT ![n] = "none"], LaunchesKept,
         UNCHANGED <<flock, lost>>, exited' => status = "exited" /\ ~lost
  PROVE  IInv'
<1>1. ticket'.status = status /\ ticket'.name = ticket.name
  BY Updated DEF IInv
<1>2. \A m \in Sessions : Up(m)' => Up(m) /\ m # n
  BY DEF Up, IInv, TypeOK
<1>3. ~lost => ~UnderWay' /\ Named
  <2>1. SUFFICES ASSUME ~lost PROVE ~UnderWay' /\ Named
    OBVIOUS
  <2>2. flock = NoOne
    BY DEF UpdateTicket
  <2>3. QED
    BY <1>2, <2>1, <2>2, Alone DEF UnderWay, LaunchesKept, Launching
<1>4. LaunchKnown' /\ SupervisorKnown'
  BY <1>3 DEF LaunchKnown, SupervisorKnown, UnderWay, Launching
<1>5. StartedRuns' /\ ExitedKnown'
  BY <1>1, <1>3 DEF StartedRuns, ExitedKnown, GivenUp, Named
<1>6. QED
  BY <1>4, <1>5 DEF IInv

LEMMA SpawnInv == ASSUME IInv, NEW n \in Sessions, Spawn(n) PROVE IInv'
<1>1. TypeOK'
  BY ChildType DEF IInv, Child
<1>2. Up(n) /\ ~exited /\ ~exited'
  BY DEF Spawn, Up, IInv, ExitedKnown, UnderWay
<1>3. CASE child' = [child EXCEPT ![n] = "startup"] /\ UNCHANGED ticket
  <2>1. PICK place \in {"working", "check"} :
          \E id : session' = [session EXCEPT ![n] = [Gone(n) EXCEPT !.at = place, !.name = id]]
    <3>1. child' # [child EXCEPT ![n] = "none"]
      BY <1>3 DEF IInv, TypeOK
    <3>2. QED
      BY <3>1 DEF Spawn
  <2>2. session'[n].at = place /\ \A t \in Sessions \ {n} : session'[t] = session[t]
    BY <2>1 DEF Gone, IInv, TypeOK
  <2>3. ~Launching(n)' /\ \A t \in Sessions \ {n} : Launching(t)' = Launching(t)
    BY <2>2 DEF Launching
  <2>4. \A m \in Sessions : Up(m)' = Up(m)
    BY <1>2, <1>3 DEF Up, IInv, TypeOK
  <2>5. \A m \in Sessions : child[m] \in {"waiting", "killed"} => child'[m] = child[m]
    BY <1>3 DEF Spawn, IInv, TypeOK
  <2>6. UNCHANGED <<flock, lost>>
    BY DEF Spawn
  <2>7. LaunchKnown'
    BY <2>2, <2>3, <2>4, <2>6 DEF IInv, LaunchKnown, Launching
  <2>8. SupervisorKnown'
    <3>1. SUFFICES ASSUME ~lost, \A t \in Sessions : ~Launching(t)' PROVE SupervisorKnown'
      BY <2>6 DEF SupervisorKnown
    <3>2. ~Launching(n)
      BY <1>2, <3>1 DEF IInv, LaunchKnown, Launching
    <3>3. QED
      BY <1>3, <2>3, <2>4, <3>1, <3>2 DEF IInv, SupervisorKnown, Named
  <2>9. StartedRuns'
    BY <1>3, <2>5 DEF IInv, StartedRuns
  <2>10. QED
    BY <1>1, <1>2, <2>7, <2>8, <2>9 DEF IInv, ExitedKnown
<1>4. CASE /\ UpdateTicket("failed") /\ child' = [child EXCEPT ![n] = "none"]
           /\ UNCHANGED session
  <2>1. LaunchesKept
    BY <1>4 DEF LaunchesKept, Launching
  <2>2. QED
    BY <1>1, <1>2, <1>4, <2>1, SupervisorEnds DEF Spawn
<1>5. QED
  BY <1>3, <1>4 DEF Spawn

\* After the startup window the ticket says whether the native process runs.
LEMMA StartupInv == ASSUME IInv, NEW n \in Sessions, Startup(n) PROVE IInv'
<1>1. TypeOK'
  BY ChildType DEF IInv, Child
<1>2. Up(n) /\ ~exited
  BY DEF Startup, Up, IInv, ExitedKnown, UnderWay
<1>3. LaunchesKept
  BY DEF Startup, LaunchesKept, Launching
<1>4. CASE UpdateTicket("exited")
  <2>1. ticket'.status = "exited"
    BY <1>4, Updated DEF IInv
  <2>2. child' = [child EXCEPT ![n] = "none"] /\ exited' = (exited \/ ~lost)
    <3>1. ~UpdateTicket("started")
      BY <2>1, Updated DEF IInv
    <3>2. QED
      BY <3>1 DEF Startup
  <2>3. exited' => ~lost
    BY <1>2, <2>2
  <2>4. QED
    BY <1>1, <1>2, <1>3, <1>4, <2>2, <2>3, SupervisorEnds DEF Startup
<1>5. CASE UpdateTicket("started")
  <2>1. /\ ticket'.status = "started" /\ ticket'.name = ticket.name
        /\ ticket'.child = ticket.child /\ flock = NoOne
    BY <1>5, Updated DEF IInv, UpdateTicket
  <2>2. child' = [child EXCEPT ![n] = "waiting"] /\ UNCHANGED exited
    <3>1. ~UpdateTicket("exited")
      BY <2>1, Updated DEF IInv
    <3>2. QED
      BY <3>1 DEF Startup
  <2>3. \A m \in Sessions : Up(m)' = Up(m)
    BY <1>2, <2>2 DEF Up, IInv, TypeOK
  <2>4. ~lost => /\ \A s \in Sessions : ~Launching(s)'
                 /\ \A m \in Sessions : Up(m)' => m = n
                 /\ Named' /\ ticket'.child = n
    BY <1>2, <1>3, <2>1, <2>3, Alone DEF LaunchesKept, Launching, Named
  <2>5. LaunchKnown' /\ SupervisorKnown'
    BY <2>1, <2>4 DEF Startup, LaunchKnown, SupervisorKnown, Launching
  <2>6. StartedRuns'
    BY <2>2 DEF StartedRuns, IInv, TypeOK
  <2>7. QED
    BY <1>1, <1>2, <2>2, <2>5, <2>6 DEF IInv, ExitedKnown
<1>6. QED
  BY <1>4, <1>5 DEF Startup

LEMMA ChildEndsInv == ASSUME IInv, NEW n \in Sessions, ChildEnds(n) PROVE IInv'
<1>1. TypeOK'
  BY ChildType DEF IInv, Child
<1>2. Up(n) /\ ~exited
  BY DEF ChildEnds, Up, IInv, ExitedKnown, UnderWay
<1>3. LaunchesKept
  BY DEF ChildEnds, LaunchesKept, Launching
<1>4. exited' => ~lost
  BY <1>2 DEF ChildEnds
<1>5. QED
  BY <1>1, <1>2, <1>3, <1>4, SupervisorEnds DEF ChildEnds

\* A killed session leaves what it had launched; killed before the pid is written, that
\* is lost.
LEMMA KillInv == ASSUME IInv, NEW s \in Sessions, Kill(s) PROVE IInv'
<1>1. TypeOK'
  BY KillType DEF IInv
<1>2. PICK place \in {"off", "working"} : Goes(s, place)
  BY DEF Kill
<1>3. place \notin {"popen", "pid"}
  OBVIOUS
<1>4. LaunchesKept
  BY <1>2, <1>3, PlaceKeepsLaunches DEF IInv
<1>5. ~Launching(s)'
  BY <1>2 DEF Goes, Gone, IInv, TypeOK, Entries, Launching
<1>6. UNCHANGED <<child, ticket, exited>> /\ \A n \in Sessions : Up(n)' = Up(n)
  BY DEF Kill, Up
<1>7. StartedRuns' /\ ExitedKnown'
  <2>1. UnderWay' => UnderWay
    BY <1>4, <1>6, NothingNew
  <2>2. QED
    BY <1>6, <2>1 DEF IInv, StartedRuns, ExitedKnown, GivenUp, Named
<1>8. CASE lost'
  BY <1>1, <1>7, <1>8 DEF IInv, LaunchKnown, SupervisorKnown
<1>9. CASE ~lost'
  <2>1. ~lost /\ session[s].at # "pid"
    BY <1>9 DEF Kill, IInv, TypeOK
  <2>2. LaunchKnown'
    <3>1. \A t \in Sessions : Launching(t)' => Launching(t) /\ t # s
      BY <1>4, <1>5 DEF LaunchesKept, Launching
    <3>2. \A t \in Sessions : Launching(t)' => flock' = t
      BY <2>1, <3>1 DEF Kill, Unlocks, IInv, LaunchKnown
    <3>3. QED
      BY <1>4, <1>6, <2>1, <3>2 DEF IInv, LaunchKnown, LaunchesKept, Launching
  <2>3. SupervisorKnown'
    <3>1. SUFFICES ASSUME \A t \in Sessions : ~Launching(t)' PROVE SupervisorKnown'
      BY DEF SupervisorKnown
    <3>2. \A t \in Sessions \ {s} : ~Launching(t)
      <4>1. \A t \in Sessions \ {s} : session'[t] = session[t]
        BY <1>2 DEF Goes, IInv, TypeOK
      <4>2. QED
        BY <3>1, <4>1 DEF Launching
    <3>3. CASE session[s].at = "popen"
      BY <1>6, <2>1, <3>3 DEF IInv, LaunchKnown, SupervisorKnown
    <3>4. CASE session[s].at # "popen"
      <4>1. \A t \in Sessions : ~Launching(t)
        BY <2>1, <3>2, <3>4 DEF Launching
      <4>2. QED
        BY <1>6, <2>1, <4>1 DEF IInv, SupervisorKnown, Named
    <3>5. QED
      BY <3>3, <3>4
  <2>4. QED
    BY <1>1, <1>7, <2>2, <2>3 DEF IInv
<1>10. QED
  BY <1>8, <1>9

LEMMA KillChildInv == ASSUME IInv, NEW n \in Sessions, KillChild(n) PROVE IInv'
<1>1. TypeOK'
  BY KillType DEF IInv
<1>2. /\ UNCHANGED <<session, ticket, flock, lost, exited>>
      /\ child' = [child EXCEPT ![n] = "killed"]
  BY DEF KillChild, hook
<1>3. \A m \in Sessions : Up(m)' => Up(m)
  BY <1>2 DEF Up, IInv, TypeOK
<1>4. LaunchesKept
  BY <1>2 DEF LaunchesKept, Launching
<1>5. LaunchKnown'
  BY <1>2, <1>3 DEF IInv, LaunchKnown, Launching
<1>6. SupervisorKnown'
  BY <1>2, <1>3 DEF IInv, SupervisorKnown, Launching, Named
<1>7. StartedRuns'
  <2>1. \A m \in Sessions : child[m] \in {"waiting", "killed"} => child'[m] \in {"waiting", "killed"}
    BY <1>2 DEF IInv, TypeOK
  <2>2. QED
    BY <1>2, <2>1 DEF IInv, StartedRuns
<1>8. ExitedKnown'
  BY <1>2, <1>3, <1>4, NothingNew DEF IInv, ExitedKnown, GivenUp, Named
<1>9. QED
  BY <1>1, <1>5, <1>6, <1>7, <1>8 DEF IInv

LEMMA StepKeepsInv == IInv /\ [Next]_vars => IInv'
<1> SUFFICES ASSUME IInv, [Next]_vars PROVE IInv'
  OBVIOUS
<1>1. CASE UNCHANGED vars
  <2>1. UNCHANGED <<session, child, ticket, flock, lost, exited>> /\ TypeOK'
    BY <1>1, NextType DEF vars, IInv
  <2>2. LaunchesKept
    BY <2>1 DEF LaunchesKept, Launching
  <2>3. QED
    BY <2>1, <2>2, QuietStep DEF Launching
<1>2. CASE UserResumes \/ UserRuns
  BY <1>2, UserInv
<1>3. ASSUME NEW s \in Sessions,
             \/ Commands(s) \/ Work(s) \/ Fail(s) \/ Stop(s) \/ Wait(s)
             \/ Child(s) \/ Kill(s) \/ KillChild(s)
      PROVE  IInv'
  BY <1>3, CommandsInv, WorkInv, StopInv, WaitInv, SpawnInv, StartupInv, ChildEndsInv, KillInv,
     KillChildInv DEF Child
<1>4. QED
  BY <1>1, <1>2, <1>3 DEF Next

LEMMA Invariance == Spec => []IInv
<1>1. QED
  BY InitInv, StepKeepsInv, PTL DEF Spec

-----------------------------------------------------------------------------
(* Theorems *)

\* Every step of every session, hook and supervisor keeps lock, lease, ticket and
\* record well formed, for any number of sessions and faults.
THEOREM TypeCorrect == Spec => []TypeOK
<1>1. IInv => TypeOK
  BY DEF IInv
<1>2. QED
  BY <1>1, Invariance, PTL

\* However Stops, launches in their three steps, slow children, checkpoints and kills
\* interleave, a second supervisor is alive only after a checkpoint has replaced the
\* ticket under one, or a launch has been killed before it wrote the pid.
THEOREM OneSupervisorAtATime == Spec => []OneSupervisor
<1>1. ASSUME IInv PROVE OneSupervisor
  <2> DEFINE S == {n \in Sessions : Up(n)}
  <2>1. SUFFICES ASSUME ~lost PROVE Cardinality(S) <= 1
    BY DEF OneSupervisor, SupervisorAlone
  <2>2. \E m : S \subseteq {m}
    <3>1. CASE \A s \in Sessions : ~Launching(s)
      BY <1>1, <2>1, <3>1 DEF IInv, SupervisorKnown
    <3>2. CASE \E s \in Sessions : session[s].at = "popen"
      BY <1>1, <2>1, <3>2 DEF IInv, LaunchKnown
    <3>3. CASE \E s \in Sessions : session[s].at = "pid"
      BY <1>1, <2>1, <3>3 DEF IInv, LaunchKnown
    <3>4. QED
      BY <3>1, <3>2, <3>3 DEF Launching
  <2>3. PICK m : S \subseteq {m}
    BY <2>2
  <2>4. CASE S = {}
    BY <2>4, FS_EmptySet
  <2>5. CASE S = {m}
    BY <2>5, FS_Singleton
  <2>6. QED
    BY <2>3, <2>4, <2>5
<1>2. QED
  BY <1>1, Invariance, PTL

\* Only a launch makes a process.
LEMMA LaunchMakes ==
  ASSUME IInv, [Next]_vars, NEW n \in Sessions, ~Up(n), Up(n)'
  PROVE  UnderWay
<1>1. child' # child
  BY DEF Up
<1>2. PICK s \in Sessions : Popen(s) \/ Child(s) \/ KillChild(s)
  <2>1. ~UNCHANGED vars /\ ~UserResumes /\ ~UserRuns
    BY <1>1 DEF vars, UserResumes, UserRuns, Start
  <2>2. ASSUME NEW s \in Sessions, Commands(s) \/ Work(s) \/ Fail(s) \/ Stop(s) \/ Kill(s)
        PROVE  FALSE
    BY <1>1, <2>2 DEF Commands, Check, Read, Unlink, Create, Fill, Lease, Load, Save, Beat, Sync,
                      Refuse, Step, Work, Fail, Stop, StopApproved, StopBlocked, Launch,
                      StopAccepted, Kill
  <2>3. ASSUME NEW s \in Sessions, Wait(s)
        PROVE  Popen(s)
    BY <1>1, <2>3 DEF Wait, WritePid, Observe
  <2>4. QED
    BY <2>1, <2>2, <2>3 DEF Next
<1>3. CASE Popen(s)
  BY <1>3 DEF Popen, UnderWay, Launching
<1>4. CASE Child(s) \/ KillChild(s)
  <2>1. Up(s)
    BY <1>4 DEF Child, Spawn, Startup, ChildEnds, KillChild, Up
  <2>2. QED
    BY <2>1 DEF UnderWay
<1>5. QED
  BY <1>2, <1>3, <1>4

\* A native process is not launched after one that is known to have exited, until a
\* checkpoint has shown that some session got on.
THEOREM NoRelaunch == Spec => NotRelaunched
<1>1. IInv /\ [Next]_vars => [\A n \in Sessions : Up(n)' /\ ~Up(n) => ~exited]_vars
  BY LaunchMakes DEF IInv, ExitedKnown
<1>2. QED
  BY <1>1, Invariance, PTL DEF Spec, NotRelaunched

\* The step of a Stop that is approved while the analysis has work.
LEMMA HandOver ==
  ASSUME IInv, [Next]_vars, NEW s \in Sessions, Continuable(record.status), ~Converged,
         faults' = faults, session[s].at \in {"working", "hook"}, session'[s].at = "off"
  PROVE  ticket.status = "started"
<1>1. faults \in Nat /\ ~Fault
  BY SessionsAssumption DEF IInv, TypeOK, Fault
<1>2. session'[s] # session[s]
  OBVIOUS
<1>3. ASSUME NEW t \in Sessions, t # s, NEW place, Goes(t, place)
      PROVE  FALSE
  BY <1>2, <1>3 DEF Goes, IInv, TypeOK
<1>4. StopApproved(s) \/ StopAccepted(s) \/ Observe(s)
  <2>1. ~UNCHANGED session
    BY <1>2
  <2>2. ~UserResumes /\ ~UserRuns
    <3>1. ASSUME NEW t \in Sessions, NEW command, Start(t, command)
          PROVE  FALSE
      BY <1>2, <3>1 DEF Start, IInv, TypeOK, Entries
    <3>2. QED
      BY <3>1 DEF UserResumes, UserRuns
  <2>3. ASSUME NEW t \in Sessions, Commands(t)
        PROVE  FALSE
    <3>1. t # s
      BY <2>3 DEF Commands, Check, Read, Unlink, Create, Fill, Lease, Load, Save, Beat, Sync
    <3>2. CASE Load(t) /\ Resumable(record)
      BY <1>2, <3>1, <3>2 DEF Load, IInv, TypeOK
    <3>3. CASE ~(Load(t) /\ Resumable(record))
      BY <1>3, <2>3, <3>1, <3>3 DEF Commands, Check, Read, Unlink, Create, Fill, Lease, Load, Save,
                                    Beat, Sync, Refuse, Step
    <3>4. QED
      BY <3>2, <3>3
  <2>4. ASSUME NEW t \in Sessions, Work(t) \/ Fail(t)
        PROVE  FALSE
    <3>1. Complete(t)
      BY <2>1, <2>4 DEF Work, PhasePasses, BugJobs, Fail
    <3>2. session'[t].at = "sync" /\ Goes(t, "sync")
      BY <3>1 DEF Complete, Goes, IInv, TypeOK, Entries
    <3>3. QED
      BY <1>3, <3>2
  <2>5. ASSUME NEW t \in Sessions, Kill(t) \/ KillChild(t)
        PROVE  FALSE
    BY <1>1, <2>5 DEF Kill, KillChild
  <2>6. ASSUME NEW t \in Sessions, Child(t)
        PROVE  FALSE
    BY <1>2, <2>6 DEF Child, Spawn, Startup, ChildEnds, Gone, IInv, TypeOK
  <2>7. ASSUME NEW t \in Sessions, StopBlocked(t) \/ Launch(t) \/ Popen(t) \/ WritePid(t)
        PROVE  FALSE
    <3>1. CASE StopBlocked(t)
      BY <1>2, <3>1 DEF StopBlocked, IInv, TypeOK, Entries
    <3>2. CASE Launch(t)
      <4>1. Goes(t, "popen")
        BY <2>1, <3>2 DEF Launch
      <4>2. session'[t].at = "popen"
        BY <4>1 DEF Goes, IInv, TypeOK, Entries
      <4>3. QED
        BY <1>3, <4>1, <4>2
    <3>3. CASE Popen(t) \/ WritePid(t)
      <4>1. t # s
        BY <3>3 DEF Popen, WritePid
      <4>2. QED
        BY <1>2, <1>3, <3>3, <4>1 DEF Popen, WritePid, IInv, TypeOK
    <3>4. QED
      BY <2>7, <3>1, <3>2, <3>3
  <2>8. ASSUME NEW t \in Sessions, StopApproved(t) \/ StopAccepted(t) \/ Observe(t)
        PROVE  t = s
    BY <1>3, <2>8 DEF StopApproved, StopAccepted, Observe
  <2>9. QED
    BY <2>1, <2>2, <2>3, <2>4, <2>5, <2>6, <2>7, <2>8 DEF Next, Stop, Wait, vars
<1>5. ~StopApproved(s)
  BY DEF StopApproved
<1>6. CASE StopAccepted(s)
  BY <1>6 DEF StopAccepted
<1>7. CASE Observe(s)
  <2>1. Goes(s, IF ticket.status = "started" THEN "off" ELSE "working")
    BY <1>7 DEF Observe
  <2>2. QED
    BY <2>1 DEF Goes, IInv, TypeOK, Entries
<1>8. QED
  BY <1>4, <1>5, <1>6, <1>7

\* A session that stops while the analysis has work leaves it to a native session whose
\* supervisor waits for it, or was killed, whichever supervisors share the ticket.
THEOREM WorkHandedOver == Spec => HandedOver
<1> DEFINE A == \A s \in Sessions :
       /\ Continuable(record.status) /\ ~Converged /\ faults' = faults
       /\ session[s].at \in {"working", "hook"} /\ session'[s].at = "off" /\ child[s] = "none"
       => \E n \in Sessions : child[n] \in {"waiting", "killed"}
<1>1. IInv /\ [Next]_vars => [A]_vars
  <2>1. ASSUME IInv, [Next]_vars PROVE A
    BY <2>1, HandOver DEF IInv, StartedRuns
  <2>2. QED
    BY <2>1
<1>2. QED
  BY <1>1, Invariance, PTL DEF Spec, HandedOver
=============================================================================
