------------------------------ MODULE Triggers ------------------------------
(***************************************************************************)
(* core/triggers.py and the /triggers endpoints: file sensors poll in      *)
(* threads of their own, completion triggers are called back by the thread *)
(* that finished the upstream run, and the triggers table lets both        *)
(* survive a restart.  Handlers run on the event loop one at a time.       *)
(***************************************************************************)
EXTENDS Lists, Naturals, Sequences, FiniteSets, SequencesExt

CONSTANTS
  Sensor,      \* ids of file_sensor triggers
  Completion,  \* ids of pipeline_completion triggers on the one upstream
  Notice,      \* successful upstream runs
  MaxChanges,  \* bound: modifications of a watched file
  MaxStarts    \* bound: starts of the process

Trigger == Sensor \cup Completion

ASSUME TriggerAssumption ==
  Sensor \cap Completion = {} /\ MaxChanges \in Nat \ {0} /\ MaxStarts \in Nat \ {0}

VARIABLES
  awake,     \* the API process is running
  starts,    \* starts of the process so far
  table,     \* ids in the triggers table
  skipped,   \* rows that the start of this process left out
  handler,   \* per trigger: "new", "saved", "active", "stopped", "joined", "removed", "unsure"
  callbacks, \* _completion_callbacks of the upstream
  running,   \* _stop_events: sensors whose stop flag is not set
  mtime,     \* per sensor: the file's modification time, 0 while there is none
  poller,    \* per sensor: the polling thread: where it is, last_mtime, what it read
  handled,   \* history, per sensor: the newest modification a firing was about
  notice,    \* per upstream run: the callbacks its notification still has to call
  fired,     \* history: firings so far, per trigger
  noticed    \* upstream runs that have notified

triggerVars == <<awake, starts, table, skipped, handler, callbacks, running, mtime, poller,
                 handled, notice, fired, noticed>>
memoryVars == <<callbacks, running, poller>>
fileVars == <<mtime, handled>>
noticeVars == <<notice, noticed>>

NoThread == [at |-> "ended", last |-> 0, read |-> 0]
FreshThread == [at |-> "poll", last |-> 0, read |-> 0]

TriggerInit ==
  /\ awake = TRUE /\ starts = 1
  /\ table = {} /\ skipped = {}
  /\ handler = [t \in Trigger |-> "new"]
  /\ callbacks = <<>> /\ running = {}
  /\ mtime \in [Sensor -> {0, 1}]
  /\ poller = [s \in Sensor |-> NoThread]
  /\ handled = [s \in Sensor |-> 0]
  /\ notice = [n \in Notice |-> <<>>]
  /\ fired = [t \in Trigger |-> 0]
  /\ noticed = {}

LoopIdle == \A t \in Trigger : handler[t] \notin {"saved", "stopped", "joined"}
Handles(t, from, to) == awake /\ handler[t] = from /\ handler' = [handler EXCEPT ![t] = to]

\* POST /triggers: the row first, then the registry.
SaveTrigger(t) ==
  /\ LoopIdle /\ Handles(t, "new", "saved")
  /\ table' = table \cup {t}
  /\ UNCHANGED <<awake, starts, skipped, memoryVars, fileVars, noticeVars, fired>>

Registers(S) ==
  /\ callbacks' = callbacks \o SetToSeq(S \cap Completion)
  /\ running' = running \cup (S \cap Sensor)
  /\ poller' = [s \in Sensor |-> IF s \in S THEN FreshThread ELSE poller[s]]

RegisterTrigger(t) ==
  /\ Handles(t, "saved", "active")
  /\ Registers({t})
  /\ skipped' = skipped \ {t}
  /\ UNCHANGED <<awake, starts, table, fileVars, noticeVars, fired>>

\* Mutant of Unregister: the thread is not told to stop.
UnregisterQuietly(t) ==
  /\ LoopIdle /\ Handles(t, "active", "stopped")
  /\ callbacks' = Filtered(callbacks, Completion \ {t})
  /\ UNCHANGED <<awake, starts, skipped, table, running, poller, fileVars, noticeVars, fired>>

\* DELETE /triggers/{id}: unregister under the lock, wait for the thread, then
\* delete the row; the wait gives up after five seconds.  A request that was
\* cut off is sent again, and nothing need be registered for it to go on.
Unregister(t) ==
  /\ LoopIdle /\ \E from \in {"active", "unsure"} : Handles(t, from, "stopped")
  /\ running' = running \ {t}
  /\ callbacks' = Filtered(callbacks, Completion \ {t})
  /\ UNCHANGED <<awake, starts, skipped, table, poller, fileVars, noticeVars, fired>>

JoinThread(t) ==
  /\ Handles(t, "stopped", "joined")
  /\ t \in Sensor => poller[t].at \in {"ended", "firing"}
  /\ UNCHANGED <<awake, starts, skipped, table, memoryVars, fileVars, noticeVars, fired>>

\* Mutant of DeleteRow: the trigger is removed from memory only.
DeleteNoRow(t) ==
  /\ Handles(t, "joined", "removed")
  /\ UNCHANGED <<awake, starts, skipped, table, memoryVars, fileVars, noticeVars, fired>>

DeleteRow(t) ==
  /\ Handles(t, "joined", "removed")
  /\ table' = table \ {t} /\ skipped' = skipped \ {t}
  /\ UNCHANGED <<awake, starts, memoryVars, fileVars, noticeVars, fired>>

\* The delete fails: the trigger is out of memory and still in the table.
DeleteFails(t) ==
  /\ Handles(t, "joined", "unsure")
  /\ UNCHANGED <<awake, starts, skipped, table, memoryVars, fileVars, noticeVars, fired>>

------------------------------------------------------------------------
(* A file sensor's thread                                                  *)

ModifyFile(s) ==
  /\ mtime[s] < MaxChanges
  /\ mtime' = [mtime EXCEPT ![s] = @ + 1]
  /\ UNCHANGED <<awake, starts, skipped, table, handler, memoryVars, handled, noticeVars, fired>>

PollGoes(s, from) == awake /\ poller[s].at = from

\* A polling thread p after it has seen modification time m, 0 for no file: the
\* first sight of the file is recorded, a later change is to be fired.
Polled(p, m) ==
  IF m # 0 /\ p.last # 0 /\ m # p.last
  THEN [p EXCEPT !.at = "changed", !.read = m]
  ELSE [p EXCEPT !.last = IF m # 0 THEN m ELSE p.last]

\* The change is a firing unless the stop flag is up by then.
PollFile(s) ==
  /\ PollGoes(s, "poll") /\ s \in running
  /\ poller' = [poller EXCEPT ![s] = Polled(poller[s], mtime[s])]
  /\ poller' # poller
  /\ UNCHANGED <<awake, starts, skipped, table, handler, callbacks, running, fileVars, noticeVars, fired>>

FireSensor(s) ==
  /\ PollGoes(s, "changed")
  /\ IF s \in running
     THEN /\ poller' = [poller EXCEPT ![s].at = "firing"]
          /\ fired' = [fired EXCEPT ![s] = @ + 1]
          /\ handled' = [handled EXCEPT ![s] = poller[s].read]
     ELSE /\ poller' = [poller EXCEPT ![s] = NoThread]
          /\ UNCHANGED <<fired, handled>>
  /\ UNCHANGED <<awake, starts, skipped, table, handler, callbacks, running, mtime, noticeVars>>

\* Mutant of SensorReturns: what is remembered is read after the callback.
SensorReturnsLater(s) ==
  /\ PollGoes(s, "firing")
  /\ poller' = [poller EXCEPT ![s] = [at |-> "poll", last |-> mtime[s], read |-> 0]]
  /\ UNCHANGED <<awake, starts, skipped, table, handler, callbacks, running, fileVars, noticeVars, fired>>

\* The callback runs the whole pipeline in this thread; what it raises is
\* logged.  The modification remembered is the one that was read before it.
SensorReturns(s) ==
  /\ PollGoes(s, "firing")
  /\ poller' = [poller EXCEPT ![s] = [at |-> "poll", last |-> poller[s].read, read |-> 0]]
  /\ UNCHANGED <<awake, starts, skipped, table, handler, callbacks, running, fileVars, noticeVars, fired>>

StopSensor(s) ==
  /\ PollGoes(s, "poll") /\ s \notin running
  /\ poller' = [poller EXCEPT ![s] = NoThread]
  /\ UNCHANGED <<awake, starts, skipped, table, handler, callbacks, running, fileVars, noticeVars, fired>>

------------------------------------------------------------------------
(* notify_pipeline_completed, in the thread of the upstream run            *)

\* The list is copied under the lock and called without it, one pipeline run
\* after the other.
NotifyCompleted(n) ==
  /\ awake /\ n \notin noticed
  /\ noticed' = noticed \cup {n}
  /\ notice' = [notice EXCEPT ![n] = callbacks]
  /\ UNCHANGED <<awake, starts, skipped, table, handler, memoryVars, fileVars, fired>>

CallBack(n) ==
  /\ awake /\ notice[n] # <<>>
  /\ fired' = [fired EXCEPT ![Head(notice[n])] = @ + 1]
  /\ notice' = [notice EXCEPT ![n] = Tail(@)]
  /\ UNCHANGED <<awake, starts, skipped, table, handler, memoryVars, fileVars, noticed>>

------------------------------------------------------------------------
(* The process                                                             *)

\* A stop clears the same memory (stop_all) as a kill.
KillProcess ==
  /\ awake
  /\ awake' = FALSE
  /\ callbacks' = <<>> /\ running' = {} /\ skipped' = {}
  /\ poller' = [s \in Sensor |-> NoThread]
  /\ notice' = [n \in Notice |-> <<>>]
  /\ handler' = [t \in Trigger |-> IF handler[t] \in {"new", "removed", "active"}
                                   THEN handler[t] ELSE "unsure"]
  /\ UNCHANGED <<starts, table, fileVars, noticed, fired>>

\* restore_triggers_from_db: a trigger whose removal never finished is back.
\* An exception, in reading the table or on a row, is logged; the server goes
\* on without the rows that were not restored by then.
StartProcess ==
  /\ ~awake /\ starts < MaxStarts
  /\ awake' = TRUE /\ starts' = starts + 1
  /\ \E restored \in SUBSET table :
       /\ Registers(restored)
       /\ skipped' = table \ restored
       /\ handler' = [t \in Trigger |-> IF t \in restored THEN "active" ELSE handler[t]]
  /\ UNCHANGED <<table, fileVars, noticeVars, fired>>

SensorStep(s) == PollFile(s) \/ FireSensor(s) \/ SensorReturns(s) \/ StopSensor(s)
TriggerHandler(t) ==
  RegisterTrigger(t) \/ JoinThread(t) \/ DeleteRow(t) \/ DeleteFails(t)
TriggerNext ==
  \/ KillProcess \/ StartProcess
  \/ \E t \in Trigger : SaveTrigger(t) \/ Unregister(t) \/ TriggerHandler(t)
  \/ \E s \in Sensor : ModifyFile(s) \/ SensorStep(s)
  \/ \E n \in Notice : NotifyCompleted(n) \/ CallBack(n)

\* Sensor threads go on polling and handlers that have begun go on.
TriggerFairness ==
  /\ \A s \in Sensor : WF_triggerVars(SensorStep(s))
  /\ \A t \in Trigger : WF_triggerVars(TriggerHandler(t))
TriggerSpec == TriggerInit /\ [][TriggerNext]_triggerVars /\ TriggerFairness

------------------------------------------------------------------------
TriggerTypeOK ==
  /\ awake \in BOOLEAN /\ starts \in 1..MaxStarts /\ {table, skipped} \subseteq SUBSET Trigger
  /\ handler \in [Trigger -> {"new", "saved", "active", "stopped", "joined", "removed", "unsure"}]
  /\ Range(callbacks) \subseteq Completion /\ running \subseteq Sensor
  /\ mtime \in [Sensor -> 0..MaxChanges] /\ handled \in [Sensor -> 0..MaxChanges]
  /\ \A s \in Sensor : poller[s].at \in {"ended", "poll", "changed", "firing"}
  /\ noticed \subseteq Notice

\* Registry and table agree about every trigger whose last request was
\* answered, through crashes at any point of a registration or a removal: an
\* active trigger is persisted, also while the process is down, registered
\* once and, if a sensor, has a thread, unless the last start logged an error
\* and left it out; a removed one is in neither, and no restart, complete or
\* not, brings it back.
RegistryMatchesTable ==
  \A t \in Trigger :
    /\ handler[t] = "active" =>
         /\ t \in table
         /\ (awake /\ t \notin skipped) =>
              /\ t \in Sensor => t \in running /\ poller[t].at # "ended"
              /\ t \in Completion => Cardinality({k \in DOMAIN callbacks : callbacks[k] = t}) = 1
    /\ handler[t] \in {"new", "removed"} =>
         t \notin table /\ t \notin running /\ t \notin Range(callbacks)

\* Once its removal is confirmed a sensor never fires again, and a completion
\* trigger only for an upstream run that had finished before the removal:
\* the notification works from the list it copied.
RemovedFiresNoMore ==
  [][\A t \in Trigger : handler[t] = "removed" =>
       \/ fired'[t] = fired[t]
       \/ \E n \in Notice : notice[n] # <<>> /\ t = Head(notice[n])]_triggerVars

\* A sensor that has seen its file fires for every later modification, or for
\* a newer one, as long as it is neither removed nor killed.
SensorCatchesUp ==
  \A s \in Sensor : \A m \in 2..MaxChanges :
    (s \in running /\ poller[s].last # 0 /\ poller[s].last < m /\ mtime[s] = m)
      ~> (handled[s] >= m \/ s \notin running)
===========================================================================
