----------------------------- MODULE RobotReports -----------------------------
(***************************************************************************)
(* RobotReportService: what the dashboards of a user, a workspace and the  *)
(* administrator show of the runs of robots.                               *)
(*                                                                         *)
(* The machines that robots run on write robot_run_overall; the service    *)
(* only queries it.  A run names its robot by process and version.  As the *)
(* entity says, a run has an id of its own and both its counts;            *)
(* log-monitor.sql alone would let a machine leave them out.               *)
(***************************************************************************)
EXTENDS Naturals, FiniteSets

CONSTANTS RobotUsers, \* accounts
          Programs,   \* a process and a version: what a robot runs
          Uuids,      \* runs ever reported
          NoRun,      \* "no row of robot_run_overall"
          NoNumber,   \* NaN, which parseInt makes of a missing sum
          MaxTime     \* bound on the clock

ASSUME RunAssumption == IsFiniteSet(Uuids)
ASSUME TimeAssumption == MaxTime \in Nat

VARIABLES fleet, \* robot, as far as reports look at it
          run,   \* robot_run_overall
          clock

reportVars == <<fleet, run, clock>>

Robot == [program: Programs, user: RobotUsers, shared: BOOLEAN]

Run == [program: Programs, user: RobotUsers, passed: 0..1, failed: 0..1, at: 0..MaxTime]

-----------------------------------------------------------------------------
(* What machines write *)

ReportRun(u, b, passed, failed) ==
  /\ run[u] = NoRun
  /\ run' = [run EXCEPT ![u] = [program |-> b.program, user |-> b.user,
                                passed |-> passed, failed |-> failed, at |-> clock]]
  /\ UNCHANGED <<fleet, clock>>

Tick ==
  /\ clock < MaxTime
  /\ clock' = clock + 1
  /\ UNCHANGED <<fleet, run>>

-----------------------------------------------------------------------------
(* Runs *)

SharedRobots == {b \in fleet : b.shared}

\* The runs that a dashboard counts.  Only those of a workspace and of the system
\* heed the date asked for: the user's has one of its own, before all runs.
Since(t) == {u \in Uuids : run[u] # NoRun /\ run[u].at >= t}
UserRuns(w) == {u \in Since(0) : run[u].user = w}
WorkspaceRuns(t) ==
  {u \in Since(t) : \E b \in SharedRobots : /\ b.program = run[u].program
                                            /\ b.user = run[u].user}

\* SUM of no rows is NULL, and parseInt of it NaN; but for the administrator 0.
Sum(rs, counted, blank) == IF rs = {} THEN blank ELSE Cardinality(counted)

\* Fault: a run without a failure is counted as a success, stopped or not.
HistoryStoppedTwice(rs, blank) ==
  [successful |-> Sum(rs, {u \in rs : run[u].failed = 0}, blank),
   faulted    |-> Sum(rs, {u \in rs : run[u].failed > 0}, blank),
   stopped    |-> Sum(rs, {u \in rs : run[u].passed = 0 /\ run[u].failed = 0}, blank),
   total      |-> Cardinality(rs)]

\* What is shown of the runs rs, and `blank` of none.
History(rs, blank) ==
  [successful |-> Sum(rs, {u \in rs : run[u].passed > 0 /\ run[u].failed = 0}, blank),
   faulted    |-> Sum(rs, {u \in rs : run[u].failed > 0}, blank),
   stopped    |-> Sum(rs, {u \in rs : run[u].passed = 0 /\ run[u].failed = 0}, blank),
   total      |-> Cardinality(rs)]

UserHistory(w) == History(UserRuns(w), NoNumber)
SystemHistory(t) == History(Since(t), 0)
WorkspaceHistory(t) == History(WorkspaceRuns(t), IF SharedRobots = {} THEN 0 ELSE NoNumber)

-----------------------------------------------------------------------------

ReportInit ==
  /\ fleet \in SUBSET Robot
  /\ run = [u \in Uuids |-> NoRun]
  /\ clock = 0

ReportNext ==
  \/ \E u \in Uuids, b \in fleet, passed, failed \in 0..1 : ReportRun(u, b, passed, failed)
  \/ Tick

-----------------------------------------------------------------------------

\* The tables hold values of their types.
ReportTypeOK ==
  /\ fleet \subseteq Robot
  /\ run \in [Uuids -> Run \union {NoRun}]
  /\ clock \in 0..MaxTime

\* A dashboard that shows numbers counts each run once, as a success, a failure
\* or one that was stopped, whatever the date, and that of the administrator
\* always shows them.
RunsAddUp ==
  LET AddsUp(h) == h.total = h.successful + h.faulted + h.stopped
  IN  /\ \A w \in RobotUsers : UserHistory(w).stopped = NoNumber \/ AddsUp(UserHistory(w))
      /\ \A t \in 0..MaxTime :
           /\ WorkspaceHistory(t).stopped = NoNumber \/ AddsUp(WorkspaceHistory(t))
           /\ AddsUp(SystemHistory(t))
=============================================================================
