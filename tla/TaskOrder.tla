---------------------------- MODULE TaskOrder ----------------------------
(***************************************************************************)
(* What executing a pipeline promises, without waves, threads, attempts or *)
(* pools: a task starts only when every task it needs has succeeded, it    *)
(* starts once, and the verdict says whether everything in scope did.      *)
(***************************************************************************)
EXTENDS FiniteSets

CONSTANT Task

VARIABLES
  need,      \* the tasks each task waits for, within the scope of this run
  scope,     \* the tasks this run has to execute
  active,    \* tasks that have started and have no result yet
  passed,    \* tasks with a successful result
  failed,    \* tasks with a failed result
  verdict    \* "planning", then "open" until the run is over, then what it reports,
             \* or "raised" when it ended in an exception and reports nothing

orderVars == <<need, scope, active, passed, failed, verdict>>

OrderInit ==
  /\ scope = {}
  /\ need = [t \in Task |-> {}]
  /\ active = {} /\ passed = {} /\ failed = {}
  /\ verdict = "planning"

\* What is to be done, and what each of it needs, is fixed before it starts.
PlanScope ==
  /\ verdict = "planning"
  /\ scope' \in SUBSET Task
  /\ need' \in [Task -> SUBSET scope']
  /\ verdict' = "open"
  /\ UNCHANGED <<active, passed, failed>>

\* Several tasks may start in one step, none of them before what it needs.
StartTasks ==
  /\ verdict = "open"
  /\ \E S \in SUBSET (scope \ (active \cup passed \cup failed)) :
        /\ S # {}
        /\ \A t \in S : need[t] \subseteq passed
        /\ active' = active \cup S
  /\ UNCHANGED <<need, scope, passed, failed, verdict>>

FinishTask ==
  /\ verdict = "open"
  /\ \E t \in active :
        /\ active' = active \ {t}
        /\ \/ passed' = passed \cup {t} /\ UNCHANGED failed
           \/ failed' = failed \cup {t} /\ UNCHANGED passed
  /\ UNCHANGED <<need, scope, verdict>>

\* The run is over only when nothing is executing any more.
EndRun ==
  /\ verdict = "open" /\ active = {}
  /\ \/ failed = {} /\ passed = scope /\ verdict' = "completed"
     \/ failed # {} /\ verdict' = "failed"
     \/ failed = {} /\ passed # scope /\ verdict' = "raised"
  /\ UNCHANGED <<need, scope, active, passed, failed>>

\* A repair is a new run over part of the pipeline.
RepairAgain ==
  /\ verdict = "failed"
  /\ scope' = {}
  /\ need' = [t \in Task |-> {}]
  /\ active' = {} /\ passed' = {} /\ failed' = {}
  /\ verdict' = "planning"

OrderNext == PlanScope \/ StartTasks \/ FinishTask \/ EndRun \/ RepairAgain

OrderSpec == OrderInit /\ [][OrderNext]_orderVars
===========================================================================
