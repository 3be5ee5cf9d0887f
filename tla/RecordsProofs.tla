---------------------------- MODULE RecordsProofs -----------------------------
(*****************************************************************************)
(* Theorems about the records that operators rely on: the schedules of       *)
(* Schedules, for any pipelines, crons and numbers of failures and           *)
(* restarts; the deployment records of Releases, for any texts, connections  *)
(* and numbers of releases; the histories of GitSync, for any files,         *)
(* contents and number of commits, whoever else pushes and whichever         *)
(* command fails; the windows of Backfill, for any schedules, ranges,        *)
(* limits and operators; and the sinks and reports of Baseline, for any      *)
(* stream, batch size and kill.                                              *)
(*****************************************************************************)
EXTENDS Schedules, Releases, GitSync, Backfill, Baseline, WellFoundedInduction, DataLemmas

(***************************************************************************)
(* Schedules                                                               *)
(***************************************************************************)

\* The columns, without the bounds on the failures.
Typed ==
  /\ loads \subseteq ConfigFile
  /\ jobs \in [ConfigFile -> Cron \cup {NoCron}]
  /\ saved \in [ConfigFile -> Cron \cup {NoCron}]
  /\ wanted \in [ConfigFile -> Cron \cup {NoCron}]
  /\ settled \in [ConfigFile -> BOOLEAN]
  /\ unsaved \subseteq ConfigFile /\ missed \subseteq ConfigFile

\* The row of a pipeline says what was asked for, whether or not the process
\* runs and whether or not its file loads.
RowAsWanted == \A f \in ConfigFile : settled[f] /\ f \notin unsaved => saved[f] = wanted[f]

\* So does its job, where there is a process and its start restored the row.
JobAsWanted ==
  online => \A f \in ConfigFile :
    settled[f] /\ f \notin unsaved /\ f \notin missed => jobs[f] = wanted[f]

\* A pipeline that was not restored has no job that could overwrite its row.
MissedHasNoJob == online => \A f \in missed : jobs[f] = NoCron

\* What is called unsaved really differs from its row.
UnsavedDiffers == \A f \in unsaved : saved[f] # wanted[f]

ScheduleInv == Typed /\ RowAsWanted /\ JobAsWanted /\ MissedHasNoJob /\ UnsavedDiffers

-----------------------------------------------------------------------------
LEMMA InitInv == ScheduleInit => ScheduleInv
BY DEF ScheduleInit, ScheduleInv, Typed, RowAsWanted, JobAsWanted, MissedHasNoJob, UnsavedDiffers

\* Each schedule in memory overwrites its row, unless the write is lost.
LEMMA ScheduleKeeps ==
  ASSUME ScheduleInv, NEW f \in ConfigFile, NEW c \in Cron, SchedulePipeline(f, c)
  PROVE  ScheduleInv'
<1>. USE DEF ScheduleInv, SchedulePipeline
<1>1. PICK lost \in SUBSET ConfigFile : Persists(jobs', lost)
  OBVIOUS
<1>2. /\ saved' = [g \in ConfigFile |-> IF g \in Scheduled(jobs') \ lost THEN jobs'[g] ELSE saved[g]]
      /\ unsaved' = {g \in unsaved \cup lost : saved'[g] # wanted'[g]}
      /\ lost \subseteq Scheduled(jobs')
  BY <1>1 DEF Persists, SavedAs
<1>3. Typed'
  BY <1>2 DEF Typed
<1>4. UnsavedDiffers'
  BY <1>2 DEF UnsavedDiffers
<1>5. MissedHasNoJob'
  BY DEF MissedHasNoJob, Typed
<1>6. JobAsWanted'
  <2>. SUFFICES ASSUME NEW g \in ConfigFile, settled'[g], g \notin unsaved', g \notin missed'
                PROVE  jobs'[g] = wanted'[g]
    BY DEF JobAsWanted
  <2>1. CASE g = f
    BY <2>1 DEF Typed
  <2>2. CASE g # f
    <3>1. jobs'[g] = jobs[g] /\ wanted'[g] = wanted[g] /\ settled[g] /\ g \notin missed /\ online
      BY <2>2 DEF Typed
    <3>2. CASE g \notin unsaved
      BY <3>1, <3>2 DEF JobAsWanted
    <3>3. CASE g \in unsaved
      <4>1. saved'[g] = wanted[g] /\ saved[g] # wanted[g]
        BY <1>2, <3>1, <3>3 DEF UnsavedDiffers
      <4>. QED
        BY <1>2, <3>1, <4>1
    <3>. QED
      BY <3>2, <3>3
  <2>. QED
    BY <2>1, <2>2
<1>7. RowAsWanted'
  <2>. SUFFICES ASSUME NEW g \in ConfigFile, settled'[g], g \notin unsaved'
                PROVE  saved'[g] = wanted'[g]
    BY DEF RowAsWanted
  <2>1. CASE g \in unsaved \cup lost
    BY <2>1, <1>2
  <2>2. CASE g \notin unsaved \cup lost
    <3>1. CASE g = f
      <4>1. jobs'[g] = c /\ wanted'[g] = c /\ c # NoCron
        BY <3>1, ScheduleAssumption DEF Typed
      <4>. QED
        BY <4>1, <2>2, <1>2 DEF Scheduled
    <3>2. CASE g # f
      <4>1. jobs'[g] = jobs[g] /\ wanted'[g] = wanted[g] /\ settled[g] /\ saved[g] = wanted[g]
        BY <3>2, <2>2 DEF Typed, RowAsWanted
      <4>2. CASE g \in missed
        BY <4>1, <4>2, <1>2 DEF MissedHasNoJob, Scheduled
      <4>3. CASE g \notin missed
        BY <4>1, <4>3, <2>2, <1>2 DEF JobAsWanted
      <4>. QED
        BY <4>2, <4>3
    <3>. QED
      BY <3>1, <3>2
  <2>. QED
    BY <2>1, <2>2
<1>. QED
  BY <1>3, <1>4, <1>5, <1>6, <1>7

LEMMA UnscheduleKeeps ==
  ASSUME ScheduleInv, NEW f \in ConfigFile, UnschedulePipeline(f)
  PROVE  ScheduleInv'
<1>. USE DEF ScheduleInv, UnschedulePipeline, SavedWithout
<1>0. f \notin missed
  BY DEF MissedHasNoJob
<1>1. Typed'
  BY DEF Typed
<1>2. RowAsWanted'
  BY DEF Typed, RowAsWanted
<1>3. JobAsWanted'
  BY DEF Typed, JobAsWanted
<1>4. MissedHasNoJob'
  BY <1>0 DEF Typed, MissedHasNoJob
<1>5. UnsavedDiffers'
  BY DEF Typed, UnsavedDiffers
<1>. QED
  BY <1>1, <1>2, <1>3, <1>4, <1>5

\* A start takes its jobs from the rows of the files that load, or has none.
LEMMA StartKeeps == ASSUME ScheduleInv, StartScheduler PROVE ScheduleInv'
BY DEF ScheduleInv, StartScheduler, Typed, RowAsWanted, JobAsWanted, MissedHasNoJob,
       UnsavedDiffers, Restorable, Scheduled

LEMMA StopKeeps == ASSUME ScheduleInv, StopScheduler PROVE ScheduleInv'
BY DEF ScheduleInv, StopScheduler, Typed, RowAsWanted, JobAsWanted, MissedHasNoJob, UnsavedDiffers

LEMMA StepInv == ScheduleInv /\ [ScheduleNext]_scheduleVars => ScheduleInv'
<1>. SUFFICES ASSUME ScheduleInv, [ScheduleNext]_scheduleVars PROVE ScheduleInv'
  OBVIOUS
<1>1. CASE StopScheduler \/ StartScheduler
  BY <1>1, StopKeeps, StartKeeps
<1>2. ASSUME NEW f \in ConfigFile, NEW c \in Cron, SchedulePipeline(f, c) PROVE ScheduleInv'
  BY <1>2, ScheduleKeeps
<1>3. ASSUME NEW f \in ConfigFile, UnschedulePipeline(f) PROVE ScheduleInv'
  BY <1>3, UnscheduleKeeps
<1>4. ASSUME NEW f \in ConfigFile, RunScheduled(f) \/ EndScheduled(f) \/ BreakFile(f) \/ MendFile(f)
      PROVE  ScheduleInv'
  BY <1>4 DEF RunScheduled, EndScheduled, BreakFile, MendFile, ScheduleInv, Typed, RowAsWanted,
              JobAsWanted, MissedHasNoJob, UnsavedDiffers
<1>5. CASE UNCHANGED scheduleVars
  BY <1>5 DEF scheduleVars, ScheduleInv, Typed, RowAsWanted, JobAsWanted, MissedHasNoJob, UnsavedDiffers
<1>. QED
  BY <1>1, <1>2, <1>3, <1>4, <1>5 DEF ScheduleNext

\* Rows are what was last asked for, and jobs are where the last start restored
\* them, for any number of pipelines, restarts, failed writes, failed reads of
\* the table and files that do not load.
THEOREM RequestsAreFollowed == ScheduleSpec => []SchedulesFollowRequests
<1>1. ScheduleInv => SchedulesFollowRequests
  BY DEF ScheduleInv, RowAsWanted, JobAsWanted, SchedulesFollowRequests
<1>. QED
  BY <1>1, InitInv, StepInv, PTL DEF ScheduleSpec
(***************************************************************************)
(* Releases                                                                *)
(***************************************************************************)

Slot == Link \cup {NoLink}
Record == [link : Slot, version : Nat, hash : Yaml, status : {"deployed", "failed", "rolled_back"},
           active : BOOLEAN, restored : Nat]
Snapshot == [yaml : Yaml, link : Slot, version : Nat]

RecordsTyped ==
  /\ yaml \in Yaml /\ versions \in Seq(Yaml) /\ links \subseteq Link
  /\ deployments \in Seq(Record)
  /\ checked = NotChecked \/ (checked \in Snapshot /\ checked.version \in 0..Len(versions))

Deployed(d) == deployments[d].status = "deployed"

\* The active record stands and none that stands is newer ...
ActiveIsNewest ==
  \A d \in DOMAIN deployments : deployments[d].active =>
    /\ Deployed(d)
    /\ \A e \in DOMAIN deployments :
         Deployed(e) /\ deployments[e].link = deployments[d].link => e <= d

\* ... there is one wherever a record stands ...
StandingHasActive ==
  \A e \in DOMAIN deployments : Deployed(e) =>
    \E d \in DOMAIN deployments : deployments[d].active /\ deployments[d].link = deployments[e].link

\* ... and a version that a record names is there and was its text.
VersionIsText ==
  \A d \in DOMAIN deployments : Deployed(d) /\ deployments[d].version # 0 =>
    /\ deployments[d].version \in DOMAIN versions
    /\ versions[deployments[d].version] = deployments[d].hash

RecordsKept == ActiveIsNewest /\ StandingHasActive /\ VersionIsText
ReleaseInv == RecordsTyped /\ RecordsKept

-----------------------------------------------------------------------------
\* The newest of some records exists.
LEMMA LastExists ==
  ASSUME NEW n \in Nat, NEW S \in SUBSET (1..n), S # {}
  PROVE  \E i \in S : \A j \in S : j <= i
<1>. DEFINE R == OpToRel(<, Nat)
            T == {k \in Nat : n - k \in S}
<1>1. R = {p \in Nat \X Nat : p[1] < p[2]}
  BY DEF OpToRel
<1>2. T \subseteq Nat /\ T # {}
  <2>1. PICK i \in S : TRUE
    OBVIOUS
  <2>2. n - i \in T
    <3>1. n - i \in Nat /\ n - (n - i) = i
      OBVIOUS
    <3>. QED
      BY <3>1
  <2>. QED
    BY <2>2
<1>3. IsWellFoundedOn(R, Nat)
  BY NatLessThanWellFounded
<1>4. PICK x \in T : \A y \in T : ~ (<<y, x>> \in R)
  <2>. HIDE DEF R, T
  <2>. QED
    BY <1>2, <1>3, WFMin
<1>5. \A y \in T : x <= y
  <2>. SUFFICES ASSUME NEW y \in T PROVE ~(y < x)
    OBVIOUS
  <2>1. <<y, x>> \notin {p \in Nat \X Nat : p[1] < p[2]}
    BY <1>1, <1>4
  <2>. QED
    BY <2>1
<1>6. n - x \in S
  OBVIOUS
<1>7. ASSUME NEW j \in S PROVE j <= n - x
  <2>1. n - j \in Nat /\ n - (n - j) = j /\ j \in Nat
    OBVIOUS
  <2>2. x <= n - j
    BY <1>5, <2>1
  <2>. QED
    BY <2>1, <2>2
<1>. QED
  BY <1>6, <1>7

\* What Max returns of records.
LEMMA MaxOfRecords ==
  ASSUME NEW n \in Nat, NEW S \in SUBSET (1..n), S # {}
  PROVE  Max(S) \in S /\ \A j \in S : j <= Max(S)
<1>1. PICK i \in S : \A j \in S : j <= i
  BY LastExists
<1>2. \A j \in S : i >= j
  BY <1>1
<1>. QED
  BY <1>2 DEF Max

\* What the three parts of the invariant say of a slot.
LEMMA SlotStands == ReleaseInv => ActiveIsNewestStanding
<1>. SUFFICES ASSUME ReleaseInv, NEW slot \in Slot
              PROVE  /\ ActiveIn(slot) = IF Standing(slot) = {} THEN {} ELSE {Max(Standing(slot))}
                     /\ \A d \in Standing(slot) : deployments[d].version # 0 =>
                          versions[deployments[d].version] = deployments[d].hash
  BY DEF ActiveIsNewestStanding, Slot
<1>1. \A d \in Standing(slot) : deployments[d].version # 0 =>
        versions[deployments[d].version] = deployments[d].hash
  BY DEF ReleaseInv, RecordsKept, VersionIsText, Standing, Deployed
<1>2. CASE Standing(slot) = {}
  <2>1. ActiveIn(slot) = {}
    BY <1>2 DEF ReleaseInv, RecordsKept, ActiveIsNewest, Standing, ActiveIn, Deployed
  <2>. QED
    BY <1>1, <1>2, <2>1
<1>3. CASE Standing(slot) # {}
  <2>1. PICK e \in Standing(slot) : TRUE
    BY <1>3
  <2>2. PICK d \in DOMAIN deployments : deployments[d].active /\ deployments[d].link = slot
    BY <2>1 DEF ReleaseInv, RecordsKept, StandingHasActive, Standing, Deployed
  <2>3. d \in Standing(slot) /\ \A j \in Standing(slot) : j <= d
    BY <2>2 DEF ReleaseInv, RecordsKept, ActiveIsNewest, Standing, Deployed
  <2>4. /\ Len(deployments) \in Nat /\ DOMAIN deployments = 1..Len(deployments)
        /\ Standing(slot) \in SUBSET (1..Len(deployments))
    BY DEF ReleaseInv, RecordsTyped, Standing
  <2>5. Max(Standing(slot)) \in Standing(slot) /\ \A j \in Standing(slot) : j <= Max(Standing(slot))
    BY <1>3, <2>4, MaxOfRecords
  <2>6. Max(Standing(slot)) = d
    <3>. DEFINE m == Max(Standing(slot))
    <3>1. m \in Standing(slot) /\ d <= m
      BY <2>3, <2>5
    <3>. HIDE DEF m
    <3>2. m <= d /\ m \in Nat /\ d \in Nat
      BY <2>3, <2>4, <3>1
    <3>3. m = d
      BY <3>1, <3>2
    <3>. QED
      BY <3>3 DEF m
  <2>7. ActiveIn(slot) = {d}
    <3>1. \A x \in ActiveIn(slot) : x \in Standing(slot) /\ d <= x /\ x <= d
      BY <2>2, <2>3 DEF ReleaseInv, RecordsKept, ActiveIsNewest, Standing, ActiveIn, Deployed
    <3>2. d \in ActiveIn(slot) /\ ActiveIn(slot) \subseteq Standing(slot)
      BY <2>2, <3>1 DEF ActiveIn
    <3>3. \A x \in ActiveIn(slot) : x = d
      BY <2>3, <2>4, <3>1, <3>2
    <3>. QED
      BY <3>2, <3>3
  <2>. QED
    BY <1>1, <1>3, <2>6, <2>7
<1>. QED
  BY <1>2, <1>3
-----------------------------------------------------------------------------
(* The steps *)

LEMMA RecordsInit == ReleaseInit => ReleaseInv
<1>. SUFFICES ASSUME ReleaseInit PROVE ReleaseInv
  OBVIOUS
<1>1. versions = <<>> /\ deployments = <<>> /\ yaml \in Loads /\ links = Link /\ checked = NotChecked
  BY DEF ReleaseInit
<1>2. DOMAIN deployments = {}
  BY <1>1
<1>3. deployments \in Seq(Record) /\ versions \in Seq(Yaml)
  BY <1>1
<1>4. RecordsTyped
  BY <1>1, <1>3, ReleaseAssumption DEF RecordsTyped
<1>. QED
  BY <1>2, <1>4 DEF ReleaseInv, RecordsKept, ActiveIsNewest, StandingHasActive, VersionIsText

\* Versions are only added.
Grows ==
  /\ versions' \in Seq(Yaml) /\ Len(versions) <= Len(versions')
  /\ \A v \in DOMAIN versions : v \in DOMAIN versions' /\ versions'[v] = versions[v]

LEMMA SavingGrows == ASSUME RecordsTyped, NEW t \in Yaml, SaveVersion(t) PROVE Grows
<1>. USE DEF RecordsTyped
<1>1. CASE versions' = versions
  BY <1>1 DEF Grows
<1>2. CASE versions' = Append(versions, t)
  <2>1. /\ versions' \in Seq(Yaml) /\ Len(versions') = Len(versions) + 1
        /\ \A v \in 1..Len(versions) : versions'[v] = versions[v]
    BY <1>2, AppendProperties
  <2>. QED
    BY <2>1 DEF Grows
<1>. QED
  BY <1>1, <1>2 DEF SaveVersion

\* What is kept while no record is touched.
LEMMA RecordsUntouched ==
  ASSUME RecordsTyped, RecordsKept, deployments' = deployments, Grows
  PROVE  RecordsKept'
<1>1. ActiveIsNewest' /\ StandingHasActive'
  BY DEF RecordsKept, ActiveIsNewest, StandingHasActive, Deployed
<1>2. VersionIsText'
  BY DEF RecordsKept, VersionIsText, Deployed, Grows
<1>. QED
  BY <1>1, <1>2 DEF RecordsKept

\* create_deployment, when its version is one of the history with its text.
LEMMA CreationKeeps ==
  ASSUME RecordsTyped, RecordsKept, Grows, NEW link \in Slot, NEW version \in Nat, NEW text \in Yaml,
         NEW status \in {"deployed", "failed"},
         CreateDeployment(link, version, text, status),
         status = "deployed" /\ version # 0 =>
           version \in DOMAIN versions' /\ versions'[version] = text
  PROVE  deployments' \in Seq(Record) /\ RecordsKept'
<1>. DEFINE n == Len(deployments)
            fresh == [link |-> link, version |-> version, hash |-> text, status |-> status,
                      active |-> status = "deployed", restored |-> 0]
            aside == [d \in DOMAIN deployments |->
                        IF status = "deployed" /\ d \in ActiveIn(link)
                        THEN [deployments[d] EXCEPT !.active = FALSE] ELSE deployments[d]]
<1>1. n \in Nat /\ DOMAIN deployments = 1..n /\ \A d \in 1..n : deployments[d] \in Record
  BY DEF RecordsTyped
<1>2. \A d \in 1..n :
        /\ aside[d] \in Record
        /\ aside[d].link = deployments[d].link /\ aside[d].status = deployments[d].status
        /\ aside[d].version = deployments[d].version /\ aside[d].hash = deployments[d].hash
        /\ aside[d].active => deployments[d].active
        /\ status = "deployed" /\ aside[d].active => deployments[d].link # link
        /\ deployments[d].active /\ (status # "deployed" \/ deployments[d].link # link) => aside[d].active
  <2>. SUFFICES ASSUME NEW d \in 1..n
                PROVE  /\ aside[d] \in Record
                       /\ aside[d].link = deployments[d].link /\ aside[d].status = deployments[d].status
                       /\ aside[d].version = deployments[d].version /\ aside[d].hash = deployments[d].hash
                       /\ aside[d].active => deployments[d].active
                       /\ status = "deployed" /\ aside[d].active => deployments[d].link # link
                       /\ deployments[d].active /\ (status # "deployed" \/ deployments[d].link # link)
                            => aside[d].active
    OBVIOUS
  <2>1. CASE status = "deployed" /\ d \in ActiveIn(link)
    <3>1. aside[d] = [deployments[d] EXCEPT !.active = FALSE] /\ deployments[d].link = link
      BY <1>1, <2>1 DEF ActiveIn
    <3>. HIDE DEF aside
    <3>. QED
      BY <1>1, <2>1, <3>1 DEF Record, ActiveIn
  <2>2. CASE ~(status = "deployed" /\ d \in ActiveIn(link))
    <3>1. aside[d] = deployments[d]
      BY <1>1, <2>2
    <3>2. status = "deployed" /\ deployments[d].active => deployments[d].link # link
      BY <1>1, <2>2 DEF ActiveIn
    <3>. HIDE DEF aside
    <3>. QED
      BY <1>1, <3>1, <3>2
  <2>. QED
    BY <2>1, <2>2
<1>3. /\ fresh \in Record /\ fresh.link = link /\ fresh.version = version /\ fresh.hash = text
      /\ fresh.status = status
      /\ fresh.active => status = "deployed"
      /\ status = "deployed" => fresh.active
  BY DEF Record
<1>4. aside \in Seq(Record) /\ Len(aside) = n
  <2>1. aside \in [1..n -> Record]
    <3>1. DOMAIN aside = 1..n /\ aside = [d \in 1..n |-> aside[d]]
      BY <1>1
    <3>. HIDE DEF aside
    <3>. QED
      BY <1>2, <3>1
  <2>. HIDE DEF aside
  <2>. QED
    BY <1>1, <2>1
<1>5. deployments' = Append(aside, fresh)
  BY DEF CreateDeployment
<1>. HIDE DEF aside, fresh
<1>6. /\ deployments' \in Seq(Record) /\ DOMAIN deployments' = 1..(n + 1)
      /\ \A d \in 1..n : deployments'[d] = aside[d]
      /\ deployments'[n + 1] = fresh
  BY <1>1, <1>3, <1>4, <1>5, AppendProperties
<1>. HIDE DEF n
<1>10. /\ deployments'[n + 1].link = link /\ deployments'[n + 1].status = status
       /\ deployments'[n + 1].version = version /\ deployments'[n + 1].hash = text
       /\ status = "deployed" => deployments'[n + 1].active
       /\ deployments'[n + 1].active => status = "deployed"
  BY <1>3, <1>6
<1>11. \A d \in 1..(n + 1) : d = n + 1 \/ d \in 1..n
  BY <1>1
<1>12. n + 1 \in 1..(n + 1) /\ \A e \in 1..(n + 1) : e <= n + 1
  BY <1>1
<1>13. 1..n \subseteq 1..(n + 1)
  BY <1>1
<1>7. ActiveIsNewest'
  <2>. SUFFICES ASSUME NEW d \in 1..(n + 1), deployments'[d].active
                PROVE  /\ deployments'[d].status = "deployed"
                       /\ \A e \in 1..(n + 1) : deployments'[e].status = "deployed"
                            /\ deployments'[e].link = deployments'[d].link => e <= d
    BY <1>6 DEF ActiveIsNewest, Deployed
  <2>1. CASE d = n + 1
    BY <1>10, <1>12, <2>1
  <2>2. CASE d \in 1..n
    <3>1. deployments[d].active /\ deployments[d].status = "deployed"
          /\ \A e \in 1..n : deployments[e].status = "deployed" /\ deployments[e].link = deployments[d].link => e <= d
      BY <1>1, <1>2, <1>6, <2>2 DEF RecordsKept, ActiveIsNewest, Deployed
    <3>2. status = "deployed" => deployments[d].link # link
      BY <1>2, <1>6, <2>2
    <3>3. ASSUME NEW e \in 1..(n + 1), deployments'[e].status = "deployed",
                 deployments'[e].link = deployments'[d].link
          PROVE  e \in 1..n
      <4>1. deployments'[d].link = deployments[d].link
        BY <1>2, <1>6, <2>2
      <4>2. CASE status = "deployed"
        BY <1>10, <1>11, <3>2, <3>3, <4>1, <4>2
      <4>3. CASE status # "deployed"
        BY <1>10, <1>11, <3>3, <4>3
      <4>. QED
        BY <4>2, <4>3
    <3>. QED
      BY <1>2, <1>6, <2>2, <3>1, <3>3
  <2>. QED
    BY <1>11, <2>1, <2>2
<1>8. StandingHasActive'
  <2>. SUFFICES ASSUME NEW e \in 1..(n + 1), deployments'[e].status = "deployed"
                PROVE  \E d \in 1..(n + 1) : deployments'[d].active /\ deployments'[d].link = deployments'[e].link
    BY <1>6 DEF StandingHasActive, Deployed
  <2>1. CASE status = "deployed" /\ deployments'[e].link = link
    BY <1>10, <1>12, <2>1
  <2>2. CASE ~(status = "deployed" /\ deployments'[e].link = link)
    <3>1. e \in 1..n
      BY <1>10, <1>11, <2>2
    <3>2. PICK d \in 1..n : deployments[d].active /\ deployments[d].link = deployments[e].link
      BY <1>1, <1>2, <1>6, <3>1 DEF RecordsKept, StandingHasActive, Deployed
    <3>3. aside[d].active /\ aside[d].link = deployments'[e].link
      BY <1>2, <1>6, <2>2, <3>1, <3>2
    <3>. QED
      BY <1>6, <1>13, <3>3
  <2>. QED
    BY <2>1, <2>2
<1>9. VersionIsText'
  <2>. SUFFICES ASSUME NEW d \in 1..(n + 1), deployments'[d].status = "deployed",
                       deployments'[d].version # 0
                PROVE  /\ deployments'[d].version \in DOMAIN versions'
                       /\ versions'[deployments'[d].version] = deployments'[d].hash
    BY <1>6 DEF VersionIsText, Deployed
  <2>1. CASE d = n + 1
    BY <1>10, <2>1
  <2>2. CASE d \in 1..n
    BY <1>1, <1>2, <1>6, <2>2 DEF RecordsKept, VersionIsText, Deployed, Grows
  <2>. QED
    BY <1>11, <2>1, <2>2
<1>. QED
  BY <1>6, <1>7, <1>8, <1>9 DEF RecordsKept
\* rollback_deployment hands the slot to the newest other record that stands.
LEMMA RollingBackKeeps ==
  ASSUME ReleaseInv, NEW d \in DOMAIN deployments, RollBack(d)
  PROVE  ReleaseInv'
<1>. DEFINE n == Len(deployments)
            others == Standing(deployments[d].link) \ {d}
            p == Max(others)
            gone == [[[deployments[d] EXCEPT !.status = "rolled_back"] EXCEPT !.active = FALSE]
                        EXCEPT !.restored = p]
            back == [deployments[p] EXCEPT !.active = TRUE]
<1>1. /\ n \in Nat /\ DOMAIN deployments = 1..n /\ d \in 1..n
      /\ \A i \in 1..n : deployments[i] \in Record
  BY DEF ReleaseInv, RecordsTyped
<1>2. others \in SUBSET (1..n) /\ others # {}
  BY <1>1 DEF RollBack, Standing
<1>3. p \in others /\ \A j \in others : j <= p
  <2>. HIDE DEF others, n
  <2>. QED
    BY <1>1, <1>2, MaxOfRecords
<1>4. /\ deployments[d].active
      /\ UNCHANGED <<yaml, versions, links, checked>>
      /\ deployments' = [deployments EXCEPT
           ![d].status = "rolled_back", ![d].active = FALSE, ![d].restored = p, ![p].active = TRUE]
  BY DEF RollBack
<1>5. /\ p \in 1..n /\ p # d /\ deployments[p].link = deployments[d].link
      /\ deployments[p].status = "deployed"
      /\ \A e \in 1..n : deployments[e].status = "deployed" /\ deployments[e].link = deployments[d].link /\ e # d
           => e <= p
  BY <1>1, <1>2, <1>3 DEF Standing
<1>. HIDE DEF p, others, n
<1>6. deployments' = [[deployments EXCEPT ![d] = gone] EXCEPT ![p] = back]
  BY <1>1, <1>4, <1>5
<1>7. /\ gone \in Record /\ gone.link = deployments[d].link /\ gone.status = "rolled_back"
      /\ ~gone.active
  <2>. DEFINE x == [deployments[d] EXCEPT !.status = "rolled_back"]
              y == [x EXCEPT !.active = FALSE]
  <2>1. x \in Record /\ x.link = deployments[d].link /\ x.status = "rolled_back"
    BY <1>1 DEF Record
  <2>. HIDE DEF x
  <2>2. y \in Record /\ y.link = deployments[d].link /\ y.status = "rolled_back" /\ ~y.active
    BY <2>1 DEF Record
  <2>. HIDE DEF y
  <2>3. p \in Nat
    BY <1>1, <1>5
  <2>4. LET z == [y EXCEPT !.restored = p]
        IN  z \in Record /\ z.link = deployments[d].link /\ z.status = "rolled_back" /\ ~z.active
    BY <2>2, <2>3 DEF Record
  <2>. QED
    BY <2>4 DEF x, y
<1>8. /\ back \in Record /\ back.link = deployments[p].link /\ back.status = "deployed" /\ back.active
      /\ back.version = deployments[p].version /\ back.hash = deployments[p].hash
  BY <1>1, <1>5 DEF Record
<1>. HIDE DEF gone, back
<1>9. /\ deployments' \in Seq(Record) /\ DOMAIN deployments' = 1..n
      /\ deployments'[d] = gone /\ deployments'[p] = back
      /\ \A i \in 1..n : i # d /\ i # p => deployments'[i] = deployments[i]
  <2>1. deployments \in [1..n -> Record]
    BY <1>1 DEF ReleaseInv, RecordsTyped, n
  <2>2. deployments' \in [1..n -> Record]
    BY <1>5, <1>6, <1>7, <1>8, <2>1
  <2>3. deployments' \in Seq(Record)
    BY <1>1, <2>2
  <2>. QED
    BY <1>1, <1>5, <1>6, <2>1, <2>2, <2>3
<1>10. \A i \in 1..n : deployments'[i].link = deployments[i].link
  BY <1>7, <1>8, <1>9
\* Only d was active in its slot.
<1>11. \A i \in 1..n : deployments[i].active /\ deployments[i].link = deployments[d].link => i = d
  <2>1. ASSUME NEW i \in 1..n, deployments[i].active, deployments[i].link = deployments[d].link
        PROVE  i <= d /\ d <= i
    BY <1>1, <1>4, <2>1 DEF ReleaseInv, RecordsKept, ActiveIsNewest, Deployed
  <2>. QED
    BY <1>1, <2>1
<1>12. \A i \in 1..n : deployments'[i].status = "deployed" => deployments[i].status = "deployed" /\ i # d
  BY <1>5, <1>7, <1>8, <1>9
<1>13. ActiveIsNewest'
  <2>. SUFFICES ASSUME NEW i \in 1..n, deployments'[i].active
                PROVE  /\ deployments'[i].status = "deployed"
                       /\ \A e \in 1..n :
                            (deployments'[e].status = "deployed" /\ deployments'[e].link = deployments'[i].link)
                              => e <= i
    BY <1>9 DEF ActiveIsNewest, Deployed
  <2>1. CASE i = p
    BY <1>5, <1>8, <1>9, <1>10, <1>12, <2>1
  <2>2. CASE i # p
    <3>1. i # d
      BY <1>7, <1>9
    <3>2. deployments'[i] = deployments[i] /\ deployments[i].active
      BY <1>9, <2>2, <3>1
    <3>3. /\ deployments[i].status = "deployed"
          /\ \A e \in 1..n :
               (deployments[e].status = "deployed" /\ deployments[e].link = deployments[i].link) => e <= i
      BY <1>1, <3>2 DEF ReleaseInv, RecordsKept, ActiveIsNewest, Deployed
    <3>. QED
      BY <1>10, <1>12, <3>2, <3>3
  <2>. QED
    BY <2>1, <2>2
<1>14. StandingHasActive'
  <2>. SUFFICES ASSUME NEW e \in 1..n, deployments'[e].status = "deployed"
                PROVE  \E i \in 1..n : deployments'[i].active /\ deployments'[i].link = deployments'[e].link
    BY <1>9 DEF StandingHasActive, Deployed
  <2>1. CASE deployments[e].link = deployments[d].link
    BY <1>5, <1>8, <1>9, <1>10, <2>1
  <2>2. CASE deployments[e].link # deployments[d].link
    <3>1. PICK i \in 1..n : deployments[i].active /\ deployments[i].link = deployments[e].link
      BY <1>1, <1>12 DEF ReleaseInv, RecordsKept, StandingHasActive, Deployed
    <3>2. i # d /\ i # p
      BY <1>5, <2>2, <3>1
    <3>. QED
      BY <1>9, <1>10, <3>1, <3>2
  <2>. QED
    BY <2>1, <2>2
<1>15. VersionIsText'
  <2>. SUFFICES ASSUME NEW i \in 1..n, deployments'[i].status = "deployed", deployments'[i].version # 0
                PROVE  /\ deployments'[i].version \in DOMAIN versions'
                       /\ versions'[deployments'[i].version] = deployments'[i].hash
    BY <1>9 DEF VersionIsText, Deployed
  <2>1. deployments'[i].version = deployments[i].version /\ deployments'[i].hash = deployments[i].hash
    BY <1>8, <1>9, <1>12
  <2>2. deployments[i].status = "deployed"
    BY <1>12
  <2>. QED
    BY <1>1, <1>4, <2>1, <2>2 DEF ReleaseInv, RecordsKept, VersionIsText, Deployed
<1>16. RecordsTyped'
  BY <1>4, <1>9 DEF ReleaseInv, RecordsTyped
<1>. QED
  BY <1>13, <1>14, <1>15, <1>16 DEF ReleaseInv, RecordsKept

LEMMA ReleaseStep == ASSUME ReleaseInv, ReleaseNext PROVE ReleaseInv'
<1>. USE DEF ReleaseInv
<1>0. /\ Loads \subseteq Yaml /\ Dumped \in [Loads -> Loads]
      /\ \A link \in Link \cup {NoLink} : link \in Slot
  BY ReleaseAssumption DEF Slot
<1>1. Grows \/ versions' # versions
  BY DEF RecordsTyped, Grows
<1>2. ASSUME NEW text \in Yaml, SavePipeline(text) PROVE ReleaseInv'
  <2>1. Grows
    BY <1>1, <1>2, SavingGrows DEF SavePipeline
  <2>2. RecordsKept' /\ yaml' \in Yaml
    BY <1>0, <1>2, <2>1, RecordsUntouched DEF SavePipeline, SaveGeneratedPipeline
  <2>. QED
    BY <1>2, <2>1, <2>2 DEF SavePipeline, RecordsTyped, Grows
<1>3. ASSUME NEW text \in Yaml, EditYaml(text) PROVE ReleaseInv'
  BY <1>1, <1>3, RecordsUntouched DEF EditYaml, RecordsTyped
<1>4. ASSUME NEW v \in DOMAIN versions, RestoreVersion(v) PROVE ReleaseInv'
  BY <1>0, <1>1, <1>4, RecordsUntouched DEF RestoreVersion, RecordsTyped
<1>5. ASSUME NEW link \in Link \cup {NoLink}, NEW v \in {0} \cup DOMAIN versions, ValidateRelease(link, v)
      PROVE  ReleaseInv'
  <2>1. checked' \in Snapshot /\ checked'.version \in 0..Len(versions)
    BY <1>0, <1>5 DEF ValidateRelease, Snapshot, RecordsTyped
  <2>. QED
    BY <1>1, <1>5, <2>1, RecordsUntouched DEF ValidateRelease, RecordsTyped
<1>6. CASE RefuseVersion
  BY <1>1, <1>6, RecordsUntouched DEF RefuseVersion, RecordsTyped
<1>7. CASE RecordFailure
  <2>1. /\ Grows /\ checked.link \in Slot /\ checked.version \in Nat /\ yaml \in Yaml
        /\ CreateDeployment(checked.link, checked.version, yaml, "failed")
    BY <1>1, <1>7 DEF RecordFailure, RecordsTyped, Snapshot
  <2>2. deployments' \in Seq(Record) /\ RecordsKept'
    BY <2>1, CreationKeeps
  <2>. QED
    BY <1>7, <2>2 DEF RecordFailure, RecordsTyped
<1>8. CASE RecordDeployment
  <2>1. checked.link \in Slot /\ checked.version \in 0..Len(versions) /\ yaml \in Yaml /\ Len(versions) \in Nat
    BY <1>8 DEF RecordDeployment, RecordsTyped, Snapshot
  <2>2. Grows
    BY <1>1, <1>8, <2>1, SavingGrows DEF RecordDeployment
  <2>3. PICK v \in Nat : /\ CreateDeployment(checked.link, v, yaml, "deployed")
                         /\ v # 0 => v \in DOMAIN versions' /\ versions'[v] = yaml
    <3>1. CASE checked.version # 0
      <4>1. /\ checked.version \in DOMAIN versions /\ versions[checked.version] = yaml
            /\ versions' = versions
            /\ CreateDeployment(checked.link, checked.version, yaml, "deployed")
        BY <1>8, <2>1, <3>1 DEF RecordDeployment, RecordsTyped
      <4>. QED
        BY <2>1, <4>1
    <3>2. CASE checked.version = 0
      <4>. DEFINE v == VersionForHash(yaml)'
      <4>1. CreateDeployment(checked.link, v, yaml, "deployed") /\ yaml' = yaml
        BY <1>8, <3>2 DEF RecordDeployment
      <4>2. v = 0 \/ (v \in DOMAIN versions' /\ versions'[v] = yaml)
        BY <4>1 DEF VersionForHash, VersionOf
      <4>3. v \in Nat
        BY <2>2, <4>2 DEF Grows
      <4>. HIDE DEF v
      <4>. QED
        BY <4>1, <4>2, <4>3
    <3>. QED
      BY <3>1, <3>2
  <2>4. deployments' \in Seq(Record) /\ RecordsKept'
    BY <2>1, <2>2, <2>3, CreationKeeps
  <2>. QED
    BY <1>8, <2>2, <2>4 DEF RecordDeployment, RecordsTyped, Grows
<1>9. ASSUME NEW d \in DOMAIN deployments, RollBack(d) PROVE ReleaseInv'
  BY <1>9, RollingBackKeeps
<1>10. ASSUME NEW link \in Link, CreateLink(link) \/ DeleteLink(link) PROVE ReleaseInv'
  BY <1>1, <1>10, RecordsUntouched DEF CreateLink, DeleteLink, EditLinks, RecordsTyped
<1>. QED
  BY <1>2, <1>3, <1>4, <1>5, <1>6, <1>7, <1>8, <1>9, <1>10 DEF ReleaseNext

\* Every step keeps it, one that changes no record too.
LEMMA ReleaseInvStep == ReleaseInv /\ [ReleaseNext]_releaseVars => ReleaseInv'
<1>. SUFFICES ASSUME ReleaseInv, [ReleaseNext]_releaseVars PROVE ReleaseInv'
  OBVIOUS
<1>1. CASE UNCHANGED releaseVars
  BY <1>1 DEF releaseVars, ReleaseInv, RecordsTyped, RecordsKept, ActiveIsNewest, StandingHasActive,
              VersionIsText, Deployed
<1>. QED
  BY <1>1, ReleaseStep

\* However many releases, failures and rollbacks there are, a slot's active
\* record is the newest that stands, and a version that it names is its text.
THEOREM NewestStandingIsActive == ReleaseSpec => []ActiveIsNewestStanding
BY RecordsInit, ReleaseInvStep, SlotStands, PTL DEF ReleaseSpec


(*****************************************************************************)
(* Versions in git                                                           *)
(*****************************************************************************)

Commit == [id : Nat, files : Files]
Log == Seq(Commit) \ {<<>>}
Clone == [log : Log, tree : Files, index : Files]

\* Histories are never empty; a clone has a whole working tree and index.
GitInv ==
  /\ remoteLog \in Log
  /\ clone = NoClone \/ clone \in Clone
  /\ local \in Files
  /\ commits \in 0..MaxCommits

-----------------------------------------------------------------------------
(* Histories *)

LEMMA PrefixMeaning ==
  ASSUME NEW S, NEW s \in Seq(S), NEW t \in Seq(S)
  PROVE  IsPrefix(s, t) <=> Len(s) <= Len(t) /\ \A i \in 1..Len(s) : s[i] = t[i]
<1>1. Len(s) \in Nat /\ Len(t) \in Nat
  BY LenProperties
<1>2. SubSeq(s, 1, Len(s)) = s
  BY SubSeqFull
<1>3. ASSUME Len(s) <= Len(t)
      PROVE  /\ SubSeq(t, 1, Len(s)) \in Seq(S)
             /\ Len(SubSeq(t, 1, Len(s))) = Len(s)
             /\ \A i \in 1..Len(s) : SubSeq(t, 1, Len(s))[i] = t[i]
  <2>1. \A i \in 1..Len(s) : t[i] \in S
    BY <1>1, <1>3, ElementOfSeq
  <2>2. /\ SubSeq(t, 1, Len(s)) \in Seq(S)
        /\ Len(SubSeq(t, 1, Len(s))) = IF 1 <= Len(s) THEN Len(s) - 1 + 1 ELSE 0
        /\ \A i \in 1..(Len(s) - 1 + 1) : SubSeq(t, 1, Len(s))[i] = t[1 + i - 1]
    BY <1>1, <2>1, SubSeqProperties
  <2>. QED
    BY <1>1, <2>2
<1>4. ASSUME Len(s) <= Len(t), \A i \in 1..Len(s) : s[i] = t[i]
      PROVE  SubSeq(t, 1, Len(s)) = s
  BY <1>3, <1>4, SeqEqual
<1>. QED
  BY <1>1, <1>2, <1>3, <1>4 DEF IsPrefix

\* A history is a prefix of itself and of what is appended to it, and two
\* that are prefixes of one another are the same.
LEMMA PrefixReflexive ==
  ASSUME NEW S, NEW s \in Seq(S) PROVE IsPrefix(s, s)
BY PrefixMeaning, LenProperties

LEMMA PrefixAppend ==
  ASSUME NEW S, NEW s \in Seq(S), NEW e \in S
  PROVE  Append(s, e) \in Seq(S) /\ IsPrefix(s, Append(s, e)) /\ Append(s, e) # <<>>
<1>1. /\ Append(s, e) \in Seq(S) /\ Len(Append(s, e)) = Len(s) + 1
      /\ \A i \in 1..Len(s) : Append(s, e)[i] = s[i]
  OBVIOUS
<1>2. Len(s) \in Nat /\ Len(s) <= Len(Append(s, e))
  BY <1>1, LenProperties
<1>3. IsPrefix(s, Append(s, e))
  BY <1>1, <1>2, PrefixMeaning
<1>4. Append(s, e) # <<>>
  <2>1. Len(<<>>) = 0
    BY EmptySeq
  <2>2. Len(Append(s, e)) # 0
    BY <1>1, <1>2
  <2>. QED
    BY <2>1, <2>2, Zenon
<1>. QED
  BY <1>1, <1>3, <1>4

LEMMA PrefixAntisymmetric ==
  ASSUME NEW S, NEW s \in Seq(S), NEW t \in Seq(S), IsPrefix(s, t), IsPrefix(t, s)
  PROVE  s = t
BY PrefixMeaning, SeqEqual, LenProperties

LEMMA LastCommit == ASSUME NEW log \in Log PROVE Last(log) \in Commit
<1>1. Len(log) \in Nat \ {0}
  BY EmptySeq DEF Log
<1>. QED
  BY <1>1, ElementOfSeq DEF Last, Log

-----------------------------------------------------------------------------
(* Bringing a clone up to date *)

LEMMA FreshCloneTyped == ASSUME NEW log \in Log PROVE FreshClone(log) \in Clone
BY LastCommit DEF FreshClone, Clone, Commit

LEMMA FastForwardTyped == ASSUME GitInv, NEW c \in Clone PROVE FastForward(c) \in Clone
<1>1. Last(remoteLog).files \in Files
  BY LastCommit DEF GitInv, Commit
<1>2. c.tree \in Files /\ c.index \in Files /\ c.log \in Log
  BY DEF Clone
<1>3. ASSUME NEW now, NEW part \in Files,
             now = [f \in YamlFile |-> IF part[f] = Checkout(c)[f] THEN Last(remoteLog).files[f] ELSE part[f]]
      PROVE now \in Files
  BY <1>1, <1>3 DEF Files
<1>. QED
  BY <1>2, <1>3 DEF FastForward, Clone, GitInv

LEMMA EnsureCloneTyped == GitInv => EnsureClone \in Clone
BY FreshCloneTyped, FastForwardTyped DEF GitInv, EnsureClone

LEMMA EnsureWorkspaceTyped == GitInv => EnsureWorkspace \in Clone
BY FreshCloneTyped DEF GitInv, EnsureWorkspace

LEMMA WithFileTyped ==
  ASSUME GitInv, NEW c \in Clone, NEW f \in YamlFile
  PROVE  /\ WithFile(c, f) \in Clone /\ WithFile(c, f).log = c.log
         /\ WithFile(c, f).index[f] = local[f]
<1>1. local[f] \in Content
  BY DEF GitInv, Files
<1>2. c.tree \in Files /\ c.index \in Files /\ c.log \in Log
  BY DEF Clone
<1>3. /\ [c.tree EXCEPT ![f] = local[f]] \in Files /\ [c.index EXCEPT ![f] = local[f]] \in Files
      /\ [c.index EXCEPT ![f] = local[f]][f] = local[f]
  BY <1>1, <1>2 DEF Files
<1>4. WithFile(c, f) = [log |-> c.log, tree |-> [c.tree EXCEPT ![f] = local[f]],
                        index |-> [c.index EXCEPT ![f] = local[f]]]
  <2>1. c = [log |-> c.log, tree |-> c.tree, index |-> c.index]
    BY DEF Clone
  <2>2. [c EXCEPT !.tree[f] = local[f]] = [log |-> c.log, tree |-> [c.tree EXCEPT ![f] = local[f]],
                                           index |-> c.index]
    BY <2>1
  <2>3. [[log |-> c.log, tree |-> [c.tree EXCEPT ![f] = local[f]], index |-> c.index]
            EXCEPT !.index[f] = local[f]]
        = [log |-> c.log, tree |-> [c.tree EXCEPT ![f] = local[f]],
           index |-> [c.index EXCEPT ![f] = local[f]]]
    OBVIOUS
  <2>4. WithFile(c, f) = [[c EXCEPT !.tree[f] = local[f]] EXCEPT !.index[f] = local[f]]
    BY DEF WithFile
  <2>. QED
    BY <2>2, <2>3, <2>4
<1>. QED
  BY <1>2, <1>3, <1>4 DEF Clone

LEMMA CommitIndexTyped ==
  ASSUME GitInv, NEW c \in Clone
  PROVE  /\ CommitIndex(c) \in Clone /\ IsPrefix(c.log, CommitIndex(c).log)
         /\ CommitIndex(c).tree = c.tree
<1>. DEFINE new == [id |-> commits + 1, files |-> c.index]
<1>1. c.tree \in Files /\ c.index \in Files /\ c.log \in Log
  BY DEF Clone
<1>2. new \in Commit
  BY <1>1, GitAssumption DEF Commit, GitInv
<1>3. Append(c.log, new) \in Log /\ IsPrefix(c.log, Append(c.log, new))
  BY <1>1, <1>2, PrefixAppend DEF Log
<1>4. CommitIndex(c) = [log |-> Append(c.log, new), tree |-> c.tree, index |-> c.index]
  BY DEF CommitIndex, Clone
<1>. QED
  BY <1>1, <1>3, <1>4 DEF Clone

\* Whatever _ensure_clone does, the remote's history is then in the clone.
LEMMA EnsureCloneHasRemote == GitInv => IsPrefix(remoteLog, EnsureClone.log)
<1>. SUFFICES ASSUME GitInv PROVE IsPrefix(remoteLog, EnsureClone.log)
  OBVIOUS
<1>1. IsPrefix(remoteLog, remoteLog)
  BY PrefixReflexive DEF GitInv, Log
<1>2. FreshClone(remoteLog).log = remoteLog
  BY DEF FreshClone
<1>3. IsPrefix(remoteLog, FastForward(clone).log)
  BY <1>1 DEF FastForward
<1>. QED
  BY <1>1, <1>2, <1>3 DEF EnsureClone

-----------------------------------------------------------------------------
(* The invariant *)

LEMMA GitInitial == GitInit => GitInv
<1>. SUFFICES ASSUME GitInit PROVE GitInv
  OBVIOUS
<1>1. FirstCommit \in Commit
  BY GitAssumption DEF FirstCommit, Commit, Files
<1>2. <<FirstCommit>> \in Log
  BY <1>1 DEF Log
<1>. QED
  BY <1>1, <1>2, GitAssumption DEF GitInit, GitInv, Commit

LEMMA CommitRepoTyped ==
  ASSUME GitInv, NEW paths \in SUBSET YamlFile, NEW push \in BOOLEAN, CommitRepoChanges(paths, push)
  PROVE  /\ clone' \in Clone /\ clone'.tree = EnsureWorkspace.tree
         /\ IsPrefix(EnsureWorkspace.log, clone'.log)
         /\ commits' \in 0..MaxCommits
<1>. DEFINE found == EnsureWorkspace
            staged == [found EXCEPT
                         !.index = [f \in YamlFile |-> IF f \in paths THEN found.tree[f] ELSE @[f]]]
<1>1. found \in Clone
  BY EnsureWorkspaceTyped
<1>2. found.tree \in Files /\ found.index \in Files /\ found.log \in Log
  BY <1>1 DEF Clone
<1>3. [f \in YamlFile |-> IF f \in paths THEN found.tree[f] ELSE found.index[f]] \in Files
  BY <1>2 DEF Files
<1>4. staged = [log |-> found.log, tree |-> found.tree,
                index |-> [f \in YamlFile |-> IF f \in paths THEN found.tree[f] ELSE found.index[f]]]
  BY <1>1 DEF Clone
<1>5. staged \in Clone /\ staged.tree = found.tree /\ staged.log = found.log
  BY <1>2, <1>3, <1>4 DEF Clone
<1>6. CASE clone' = staged /\ UNCHANGED commits
  BY <1>2, <1>5, <1>6, PrefixReflexive DEF GitInv, Log
<1>7. CASE clone' = CommitIndex(staged) /\ commits < MaxCommits /\ commits' = commits + 1
  <2>1. commits' \in 0..MaxCommits
    BY <1>7, GitAssumption DEF GitInv
  <2>. QED
    BY <1>5, <1>7, <2>1, CommitIndexTyped
<1>. HIDE DEF found, staged
<1>8. \/ clone' = staged /\ UNCHANGED commits
      \/ clone' = CommitIndex(staged) /\ commits < MaxCommits /\ commits' = commits + 1
  BY DEF CommitRepoChanges, found, staged
<1>. QED
  BY <1>6, <1>7, <1>8 DEF found

LEMMA GitStep == ASSUME GitInv, GitNext PROVE GitInv'
<1>. USE DEF GitInv
<1>1. CASE RemoteUnreachable
  BY <1>1 DEF RemoteUnreachable
<1>2. ASSUME NEW f \in YamlFile, AlreadyUpToDate(f) PROVE GitInv'
  BY <1>2, EnsureCloneTyped, WithFileTyped DEF AlreadyUpToDate
<1>3. ASSUME NEW f \in YamlFile, CommitFails(f) PROVE GitInv'
  BY <1>3, EnsureCloneTyped, WithFileTyped DEF CommitFails
<1>4. ASSUME NEW f \in YamlFile, CommitPipeline(f) PROVE GitInv'
  <2>1. WithFile(EnsureClone, f) \in Clone
    BY EnsureCloneTyped, WithFileTyped
  <2>2. clone' \in Clone
    BY <1>4, <2>1, CommitIndexTyped DEF CommitPipeline
  <2>. QED
    BY <1>4, <2>2, GitAssumption DEF CommitPipeline
<1>5. CASE PushAccepted
  <2>1. clone \in Clone \/ clone.log = <<>>
    BY DEF NoClone
  <2>2. remoteLog # <<>> /\ Len(remoteLog) \in Nat \ {0}
    BY EmptySeq DEF Log
  <2>3. clone.log # <<>>
    BY <1>5, <2>2, EmptySeq DEF PushAccepted, IsPrefix
  <2>. QED
    BY <1>5, <2>1, <2>3 DEF PushAccepted, Clone
<1>6. CASE PushFails
  BY <1>6 DEF PushFails
<1>7. CASE PullPipelines
  BY <1>7, EnsureCloneTyped DEF PullPipelines, Clone
<1>8. CASE GetStatus
  BY <1>8, EnsureCloneTyped DEF GetStatus
<1>9. CASE DeleteRemote
  BY <1>9 DEF DeleteRemote
<1>10. ASSUME NEW f \in YamlFile, NEW content \in Content, WriteRepoFile(f, content) PROVE GitInv'
  <2>1. EnsureWorkspace \in Clone /\ EnsureWorkspace.tree \in Files
    BY EnsureWorkspaceTyped DEF Clone
  <2>2. [EnsureWorkspace.tree EXCEPT ![f] = content] \in Files
    BY <2>1 DEF Files
  <2>3. [EnsureWorkspace EXCEPT !.tree[f] = content] \in Clone
    BY <2>1, <2>2 DEF Clone
  <2>. QED
    BY <1>10, <2>3 DEF WriteRepoFile
<1>11. CASE ReadRepo
  BY <1>11, EnsureWorkspaceTyped DEF ReadRepo
<1>12. CASE GetRepoStatus
  BY <1>12, EnsureWorkspaceTyped DEF GetRepoStatus
<1>13. CASE PullRepo
  BY <1>13, EnsureWorkspaceTyped, FastForwardTyped DEF PullRepo
<1>14. CASE PushRepo
  BY <1>14, EnsureWorkspaceTyped DEF PushRepo
<1>15. ASSUME NEW paths \in (SUBSET YamlFile) \ {{}}, NEW push \in BOOLEAN, CommitRepoChanges(paths, push)
       PROVE GitInv'
  BY <1>15, CommitRepoTyped DEF CommitRepoChanges
<1>16. ASSUME NEW f \in YamlFile, NEW content \in Content, EditLocal(f, content) PROVE GitInv'
  BY <1>16 DEF EditLocal, Files
<1>17. ASSUME NEW f \in YamlFile, NEW content \in Content, OtherCommit(f, content) PROVE GitInv'
  <2>. DEFINE new == [id |-> commits + 1, files |-> [Last(remoteLog).files EXCEPT ![f] = content]]
  <2>1. Last(remoteLog).files \in Files
    BY LastCommit DEF Commit
  <2>2. new \in Commit
    BY <1>17, <2>1, GitAssumption DEF Commit, Files
  <2>3. Append(remoteLog, new) \in Log
    BY <2>2, PrefixAppend DEF Log
  <2>. QED
    BY <1>17, <2>3, GitAssumption DEF OtherCommit
<1>. QED
  BY <1>1, <1>2, <1>3, <1>4, <1>5, <1>6, <1>7, <1>8, <1>9, <1>10, <1>11, <1>12, <1>13, <1>14,
     <1>15, <1>16, <1>17 DEF GitNext, WorkspaceStep

\* The clone and both histories keep their shape, and no history is ever empty.
THEOREM GitInvariance == GitSpec => []GitInv
<1>1. GitInv /\ [GitNext]_gitVars => GitInv'
  BY GitStep DEF GitInv, gitVars
<1>. QED
  BY GitInitial, <1>1, PTL DEF GitSpec

-----------------------------------------------------------------------------
(* Nothing an editor endpoint does loses a draft or a commit *)

LEMMA WorkspaceStepKeepsDrafts == ASSUME GitInv, WorkspaceStep PROVE KeepsDrafts
<1>. SUFFICES ASSUME clone # NoClone
     PROVE  /\ IsPrefix(clone.log, clone'.log)
            /\ \A f \in YamlFile : clone.tree[f] # Checkout(clone)[f] =>
                 \/ clone'.tree[f] = clone.tree[f]
                 \/ \E content \in Content : WriteRepoFile(f, content)
  BY DEF KeepsDrafts
<1>1. clone \in Clone /\ EnsureWorkspace = clone
  BY DEF GitInv, EnsureWorkspace
<1>2. IsPrefix(clone.log, clone.log) /\ clone.log \in Log /\ clone.tree \in Files
  BY <1>1, PrefixReflexive DEF Clone, Log
<1>3. CASE clone' = clone
  BY <1>2, <1>3
<1>4. ASSUME NEW f \in YamlFile, NEW content \in Content, WriteRepoFile(f, content)
      PROVE  /\ IsPrefix(clone.log, clone'.log)
             /\ \A g \in YamlFile : g = f \/ clone'.tree[g] = clone.tree[g]
  <2>1. clone' = [clone EXCEPT !.tree[f] = content]
    BY <1>1, <1>4 DEF WriteRepoFile
  <2>2. clone'.log = clone.log /\ clone'.tree = [clone.tree EXCEPT ![f] = content]
    BY <1>1, <2>1 DEF Clone
  <2>. QED
    BY <1>2, <2>2 DEF Files
<1>5. CASE PullRepo
  <2>1. CASE CleanClone(clone) /\ CanFastForward(clone) /\ clone' = FastForward(clone)
    <3>1. \A f \in YamlFile : clone.tree[f] = Checkout(clone)[f]
      BY <2>1 DEF CleanClone
    <3>2. IsPrefix(clone.log, clone'.log)
      BY <1>2, <2>1 DEF CanFastForward, FastForward
    <3>. QED
      BY <3>1, <3>2
  <2>. QED
    BY <1>1, <1>3, <1>5, <2>1 DEF PullRepo
<1>6. ASSUME NEW paths \in (SUBSET YamlFile) \ {{}}, NEW push \in BOOLEAN, CommitRepoChanges(paths, push)
      PROVE  IsPrefix(clone.log, clone'.log) /\ clone'.tree = clone.tree
  BY <1>1, <1>6, CommitRepoTyped
<1>7. ReadRepo \/ GetRepoStatus \/ PushRepo => clone' = clone
  BY <1>1 DEF ReadRepo, GetRepoStatus, PushRepo
<1>. QED
  BY <1>3, <1>4, <1>5, <1>6, <1>7 DEF WorkspaceStep

\* No endpoint of the workspace editor - tree, file, status, diff, pull,
\* commit, push - loses an uncommitted edit or a commit of the clone.
THEOREM DraftsAreKept == GitSpec => WorkspaceKeepsDrafts
<1>1. GitInv => [WorkspaceStep => KeepsDrafts]_gitVars
  BY WorkspaceStepKeepsDrafts
<1>. QED
  BY GitInvariance, <1>1, PTL DEF WorkspaceKeepsDrafts

-----------------------------------------------------------------------------
(* "Already up to date" *)

LEMMA UpToDateIsTrue ==
  ASSUME GitInv, NEW f \in YamlFile, AlreadyUpToDate(f), IsPrefix(clone'.log, remoteLog)
  PROVE  Last(remoteLog).files[f] = local[f]
<1>1. EnsureClone \in Clone
  BY EnsureCloneTyped
<1>2. /\ clone' = WithFile(EnsureClone, f) /\ clone'.log = EnsureClone.log
      /\ clone' \in Clone /\ clone'.index[f] = local[f]
  BY <1>1, WithFileTyped DEF AlreadyUpToDate
<1>3. clone'.index = Last(clone'.log).files
  BY <1>2 DEF AlreadyUpToDate, CleanClone, Checkout
<1>4. IsPrefix(remoteLog, clone'.log)
  BY <1>2, EnsureCloneHasRemote
<1>5. clone'.log = remoteLog
  BY <1>2, <1>4, PrefixAntisymmetric DEF GitInv, Clone, Log
<1>. QED
  BY <1>2, <1>3, <1>5

\* push_pipeline answers "already up to date" only of a file the remote has,
\* unless the clone holds commits the remote never got.
THEOREM UpToDateIsHonest == GitSpec => UpToDateMeansPushed
<1>1. GitInv => [\A f \in YamlFile : AlreadyUpToDate(f) /\ IsPrefix(clone'.log, remoteLog)
                   => Last(remoteLog).files[f] = local[f]]_gitVars
  BY UpToDateIsTrue
<1>. QED
  BY GitInvariance, <1>1, PTL DEF UpToDateMeansPushed

(*****************************************************************************)
(* Intervals and backfill                                                    *)
(*****************************************************************************)

Due(S, from, to) == {t \in S : from <= t /\ t <= to}
Before(D, t) == {x \in D : x < t}

\* How many fire times are before one: a number below how many there are.
LEMMA BeforeIs ==
  ASSUME NEW D \in SUBSET Nat, IsFiniteSet(D), NEW t \in D
  PROVE  /\ IsFiniteSet(Before(D, t))
         /\ Cardinality(Before(D, t)) \in 0..(Cardinality(D) - 1)
<1>1. Before(D, t) \in SUBSET (D \ {t})
  BY DEF Before
<1>2. IsFiniteSet(D \ {t}) /\ Cardinality(D \ {t}) = Cardinality(D) - 1
  BY FS_RemoveElement
<1>3. IsFiniteSet(Before(D, t)) /\ Cardinality(Before(D, t)) <= Cardinality(D \ {t})
  BY <1>1, <1>2, FS_Subset
<1>4. Cardinality(Before(D, t)) \in Nat /\ Cardinality(D) \in Nat
  BY <1>3, FS_CardinalityType
<1>. QED
  BY <1>2, <1>3, <1>4

\* A later one has more before it, and just one more when it is the next.
LEMMA BeforeGrows ==
  ASSUME NEW D \in SUBSET Nat, IsFiniteSet(D), NEW t \in D, NEW u \in D, t < u
  PROVE  /\ Cardinality(Before(D, t)) < Cardinality(Before(D, u))
         /\ (~ \E z \in D : t < z /\ z < u) =>
              Cardinality(Before(D, u)) = Cardinality(Before(D, t)) + 1
<1>1. /\ IsFiniteSet(Before(D, t)) /\ Cardinality(Before(D, t)) \in Nat
      /\ IsFiniteSet(Before(D, u)) /\ Cardinality(Before(D, u)) \in Nat
  BY BeforeIs, FS_CardinalityType
<1>2. t \notin Before(D, t)
  BY DEF Before
<1>3. IsFiniteSet(Before(D, t) \cup {t}) /\ Cardinality(Before(D, t) \cup {t}) = Cardinality(Before(D, t)) + 1
  BY <1>1, <1>2, FS_AddElement
<1>0. t \in Nat /\ u \in Nat /\ \A x \in D : x \in Nat
  OBVIOUS
<1>4. Before(D, t) \cup {t} \in SUBSET Before(D, u)
  <2>1. \A x \in Before(D, t) \cup {t} : x \in D /\ x < u
    BY <1>0 DEF Before
  <2>. QED
    BY <2>1 DEF Before
<1>5. Cardinality(Before(D, t) \cup {t}) <= Cardinality(Before(D, u))
  BY <1>1, <1>4, FS_Subset
<1>6. ASSUME ~ \E z \in D : t < z /\ z < u PROVE Before(D, u) = Before(D, t) \cup {t}
  <2>1. ASSUME NEW x \in D, x < u PROVE x < t \/ x = t
    BY <1>0, <1>6, <2>1
  <2>. QED
    BY <1>4, <2>1 DEF Before
<1>. QED
  BY <1>1, <1>3, <1>5, <1>6

\* As many before them: the same fire time.
LEMMA BeforeTells ==
  ASSUME NEW D \in SUBSET Nat, IsFiniteSet(D), NEW t \in D, NEW u \in D,
         Cardinality(Before(D, t)) = Cardinality(Before(D, u))
  PROVE  t = u
<1>1. \A x, y \in D : x < y => Cardinality(Before(D, x)) < Cardinality(Before(D, y))
  BY BeforeGrows
<1>2. Cardinality(Before(D, t)) \in Nat /\ Cardinality(Before(D, u)) \in Nat
  BY BeforeIs, FS_CardinalityType
<1>3. ~ (t < u) /\ ~ (u < t)
  BY <1>1, <1>2
<1>. QED
  BY <1>3

\* Every number below how many there are is how many one has before it.
LEMMA BeforeHas ==
  ASSUME NEW D \in SUBSET Nat, IsFiniteSet(D), NEW k \in 0..(Cardinality(D) - 1)
  PROVE  \E t \in D : Cardinality(Before(D, t)) = k
<1>. DEFINE n == Cardinality(D)
            f == [t \in D |-> Cardinality(Before(D, t))]
<1>1. n \in Nat
  BY FS_CardinalityType
<1>2. IsFiniteSet(0..(n - 1)) /\ Cardinality(0..(n - 1)) = n
  BY <1>1, FS_Interval
<1>3. f \in [D -> 0..(n - 1)]
  BY BeforeIs
<1>4. \A t, u \in D : f[t] = f[u] => t = u
  BY BeforeTells
<1>5. f \in Injection(D, 0..(n - 1))
  <2>. HIDE DEF f, n
  <2>. QED
    BY <1>3, <1>4 DEF Injection, IsInjective
<1>6. f \in Surjection(D, 0..(n - 1))
  <2>1. Cardinality(D) = Cardinality(0..(n - 1))
    BY <1>2
  <2>. HIDE DEF f, n
  <2>. QED
    BY <1>2, <1>5, <2>1, FS_Injection
<1>7. \E t \in D : f[t] = k
  <2>. HIDE DEF f
  <2>. QED
    BY <1>6 DEF Surjection
<1>. QED
  BY <1>7

\* The fire times of a range are finitely many.
LEMMA DueIs ==
  ASSUME NEW S \in SUBSET Nat, NEW from \in Nat, NEW to \in Nat
  PROVE  Due(S, from, to) \in SUBSET Nat /\ IsFiniteSet(Due(S, from, to))
         /\ Cardinality(Due(S, from, to)) \in Nat
<1>1. Due(S, from, to) \in SUBSET Nat /\ \A t \in Due(S, from, to) : t <= to
  BY DEF Due
<1>. QED
  BY <1>1, FS_BoundedSetOfNaturals, FS_CardinalityType

\* fire_times lists them in order, up to one more than the limit.
LEMMA FireTimesAre ==
  ASSUME NEW S \in SUBSET Nat, NEW from \in Nat, NEW to \in Nat, NEW limit \in Nat,
         NEW times, times = FireTimes(S, from, to, limit),
         NEW D, D = Due(S, from, to),
         NEW n, n = IF Cardinality(D) <= limit + 1 THEN Cardinality(D) ELSE limit + 1
  PROVE  /\ times \in Seq(D) /\ Len(times) = n
         /\ \A k \in 1..n : times[k] \in D /\ Cardinality(Before(D, times[k])) = k - 1
<1>. DEFINE m == Cardinality(D)
<1>1. D \in SUBSET Nat /\ IsFiniteSet(D) /\ m \in Nat
  BY DueIs
<1>2. Min({m, limit + 1}) = n
  <2>. DEFINE P == {m, limit + 1}
  <2>1. P \in SUBSET Int /\ P # {} /\ IsFiniteSet(P)
    <3>1. P = {m} \cup {limit + 1}
      OBVIOUS
    <3>2. IsFiniteSet({m})
      BY FS_Singleton
    <3>3. IsFiniteSet({m} \cup {limit + 1})
      BY <3>2, FS_AddElement
    <3>4. P \in SUBSET Int /\ P # {}
      BY <1>1
    <3>. QED
      BY <3>1, <3>3, <3>4
  <2>2. Min(P) \in P /\ \A y \in P : Min(P) <= y
    <3>. HIDE DEF P
    <3>. QED
      BY <2>1, MinIs
  <2>. QED
    BY <1>1, <2>2
<1>3. n \in 0..m
  BY <1>1
<1>4. times = [k \in 1..n |-> CHOOSE t \in D : Cardinality(Before(D, t)) = k - 1]
  BY <1>2 DEF FireTimes, Due, Before
<1>5. \A k \in 1..n : times[k] \in D /\ Cardinality(Before(D, times[k])) = k - 1
  <2>. SUFFICES ASSUME NEW k \in 1..n PROVE times[k] \in D /\ Cardinality(Before(D, times[k])) = k - 1
    OBVIOUS
  <2>1. k - 1 \in 0..(m - 1)
    BY <1>1, <1>3
  <2>2. \E t \in D : Cardinality(Before(D, t)) = k - 1
    BY <1>1, <2>1, BeforeHas
  <2>3. times[k] = CHOOSE t \in D : Cardinality(Before(D, t)) = k - 1
    BY <1>4
  <2>. QED
    BY <2>2, <2>3
<1>6. times \in [1..n -> D] /\ n \in Nat
  <2>1. DOMAIN times = 1..n /\ times = [k \in 1..n |-> times[k]]
    BY <1>4
  <2>. QED
    BY <1>3, <1>5, <2>1
<1>. QED
  BY <1>5, <1>6, FunctionIsSeq

Window == [start : Nat, end : Nat]

\* One window less than there are fire times.
LEMMA WindowsCount ==
  ASSUME NEW S \in SUBSET Nat, NEW from \in Nat, NEW to \in Nat,
         NEW D, D = Due(S, from, to), NEW W, W = WindowsOf(S, from, to)
  PROVE  /\ IsFiniteSet(W) /\ Cardinality(W) \in Nat
         /\ Cardinality(W) = IF D = {} THEN 0 ELSE Cardinality(D) - 1
<1>. DEFINE n == Cardinality(D)
            m == IF D = {} THEN 0 ELSE n - 1
            at(t) == Cardinality(Before(D, t))
            f == [w \in W |-> at(w.start) + 1]
<1>1. D \in SUBSET Nat /\ IsFiniteSet(D) /\ n \in Nat /\ (D = {} <=> n = 0)
  BY DueIs, FS_EmptySet
<1>2. m \in Nat /\ IsFiniteSet(1..m) /\ Cardinality(1..m) = m
  <2>1. m \in Nat
    BY <1>1
  <2>. HIDE DEF m
  <2>. QED
    BY <2>1, FS_Interval
<1>3. \A w \in W : /\ w.start \in D /\ w.end \in D /\ w.start < w.end
                   /\ w = [start |-> w.start, end |-> w.end]
                   /\ ~ \E z \in D : w.start < z /\ z < w.end
  <2>. SUFFICES ASSUME NEW w \in W
                PROVE  /\ w.start \in D /\ w.end \in D /\ w.start < w.end
                       /\ w = [start |-> w.start, end |-> w.end]
                       /\ ~ \E z \in D : w.start < z /\ z < w.end
    OBVIOUS
  <2>1. /\ w \in [start : S, end : S] /\ from <= w.start /\ w.start < w.end /\ w.end <= to
        /\ ~ \E z \in S : w.start < z /\ z < w.end
    BY DEF WindowsOf
  <2>2. w.start \in Nat /\ w.end \in Nat /\ w.start \in S /\ w.end \in S /\ w = [start |-> w.start, end |-> w.end]
    BY <2>1
  <2>3. from <= w.end /\ w.start <= to
    BY <2>1, <2>2
  <2>. QED
    BY <2>1, <2>2, <2>3 DEF Due
<1>4. \A t \in D : at(t) \in 0..(n - 1)
  BY <1>1, BeforeIs
<1>5. \A w \in W : at(w.end) = at(w.start) + 1
  BY <1>1, <1>3, BeforeGrows
<1>6. f \in [W -> 1..m]
  <2>. SUFFICES ASSUME NEW w \in W PROVE at(w.start) + 1 \in 1..m
    OBVIOUS
  <2>1. w.start \in D /\ w.end \in D /\ D # {}
    BY <1>3
  <2>2. at(w.start) \in 0..(n - 1) /\ at(w.end) \in 0..(n - 1) /\ at(w.end) = at(w.start) + 1
    BY <1>4, <1>5, <2>1
  <2>. HIDE DEF at
  <2>. QED
    BY <1>1, <2>1, <2>2
<1>7. ASSUME NEW v \in W, NEW w \in W, f[v] = f[w] PROVE v = w
  <2>0. /\ v.start \in D /\ v.end \in D /\ w.start \in D /\ w.end \in D
        /\ v = [start |-> v.start, end |-> v.end] /\ w = [start |-> w.start, end |-> w.end]
    BY <1>3
  <2>1. at(v.start) \in Int /\ at(w.start) \in Int /\ at(v.start) + 1 = at(w.start) + 1
    BY <1>4, <1>7, <2>0
  <2>2. at(v.start) = at(w.start) /\ at(v.end) = at(w.end)
    <3>1. at(v.start) = at(w.start)
      <4>. HIDE DEF at
      <4>. QED
        BY <2>1
    <3>. QED
      BY <1>5, <3>1
  <2>3. v.start = w.start
    BY <1>1, <2>0, <2>2, BeforeTells
  <2>4. v.end = w.end
    BY <1>1, <2>0, <2>2, BeforeTells
  <2>. QED
    BY <2>0, <2>3, <2>4
<1>8. ASSUME NEW k \in 1..m PROVE \E w \in W : f[w] = k
  <2>0. k - 1 \in 0..(n - 1) /\ k \in 0..(n - 1) /\ k \in Int
    BY <1>1
  <2>1. PICK t \in D : at(t) = k - 1
    BY <1>1, <2>0, BeforeHas
  <2>2. PICK u \in D : at(u) = k
    BY <1>1, <2>0, BeforeHas
  <2>3. t \in Nat /\ u \in Nat /\ \A x \in D : x \in Nat
    BY <1>1
  <2>4. \A x, y \in D : x < y => at(x) < at(y)
    BY <1>1, BeforeGrows
  <2>5. t < u
    <3>1. ~ (u < t)
      BY <2>0, <2>1, <2>2, <2>4
    <3>2. t # u
      BY <2>0, <2>1, <2>2
    <3>. QED
      BY <2>3, <3>1, <3>2
  <2>6. ASSUME NEW z \in S, t < z, z < u PROVE FALSE
    <3>1. t \in S /\ u \in S /\ from <= t /\ u <= to /\ z \in Nat
      BY DEF Due
    <3>2. from <= z /\ z <= to
      BY <2>3, <2>6, <3>1
    <3>3. z \in D
      BY <3>2 DEF Due
    <3>4. at(z) \in Int /\ at(t) < at(z) /\ at(z) < at(u)
      BY <1>4, <2>4, <2>6, <3>3
    <3>. HIDE DEF at
    <3>. QED
      BY <2>0, <2>1, <2>2, <3>4
  <2>. DEFINE w == [start |-> t, end |-> u]
  <2>7. w \in W
    <3>1. t \in S /\ u \in S /\ from <= t /\ u <= to
      BY DEF Due
    <3>. QED
      BY <2>5, <2>6, <3>1 DEF WindowsOf
  <2>8. f[w] = at(t) + 1
    BY <2>7
  <2>9. at(t) + 1 = k
    <3>. HIDE DEF at
    <3>. QED
      BY <2>0, <2>1
  <2>. QED
    BY <2>7, <2>8, <2>9
<1>. HIDE DEF f, m
<1>9. f \in Injection(W, 1..m) /\ f \in Surjection(W, 1..m)
  BY <1>6, <1>7, <1>8 DEF Injection, IsInjective, Surjection
<1>10. IsFiniteSet(W) /\ Cardinality(W) = Cardinality(1..m)
  BY <1>2, <1>9, FS_Injection
<1>. QED
  BY <1>2, <1>10 DEF m

\* intervals_between: the windows of the range, each once; a range is refused
\* that has as many windows as the limit or more.
LEMMA IntervalsAre ==
  ASSUME NEW S \in SUBSET Nat, NEW from \in Nat, NEW to \in Nat, NEW limit \in Nat \ {0},
         NEW W, W = WindowsOf(S, from, to)
  PROVE  /\ Refused(S, from, to, limit) => to < from \/ Cardinality(W) >= limit
         /\ ~ Refused(S, from, to, limit) =>
              /\ Cardinality(W) < limit
              /\ IntervalsBetween(S, from, to, limit) \in Seq(Window)
              /\ \A i, j \in DOMAIN IntervalsBetween(S, from, to, limit) :
                   IntervalsBetween(S, from, to, limit)[i] = IntervalsBetween(S, from, to, limit)[j] => i = j
              /\ Range(IntervalsBetween(S, from, to, limit)) = W
<1>. DEFINE D == Due(S, from, to)
            c == Cardinality(D)
            n == IF c <= limit + 1 THEN c ELSE limit + 1
            times == FireTimes(S, from, to, limit)
            m == IF times = <<>> THEN 0 ELSE Len(times) - 1
            ws == [k \in 1..m |-> [start |-> times[k], end |-> times[k + 1]]]
            at(t) == Cardinality(Before(D, t))
<1>1. D \in SUBSET Nat /\ IsFiniteSet(D) /\ c \in Nat /\ (D = {} <=> c = 0)
  BY DueIs, FS_EmptySet
<1>2. /\ times \in Seq(D) /\ Len(times) = n
      /\ \A k \in 1..n : times[k] \in D /\ at(times[k]) = k - 1
  <2>. HIDE DEF times, D
  <2>. QED
    BY FireTimesAre DEF times, D
<1>3. Cardinality(W) \in Nat /\ Cardinality(W) = IF c = 0 THEN 0 ELSE c - 1
  BY <1>1, WindowsCount
<1>4. IntervalsBetween(S, from, to, limit) = ws
  BY DEF IntervalsBetween
<1>5. Refused(S, from, to, limit) <=> to < from \/ Len(times) > limit
  BY DEF Refused
<1>6. Refused(S, from, to, limit) => to < from \/ Cardinality(W) >= limit
  <2>. HIDE DEF c, times
  <2>. QED
    BY <1>1, <1>2, <1>3, <1>5
<1>. SUFFICES ASSUME ~ Refused(S, from, to, limit)
              PROVE  /\ Cardinality(W) < limit /\ ws \in Seq(Window) /\ Range(ws) = W
                     /\ \A i, j \in DOMAIN ws : ws[i] = ws[j] => i = j
  <2>. HIDE DEF ws
  <2>. QED
    BY <1>4, <1>6
<1>7. n = c /\ c <= limit
  <2>. HIDE DEF c, times
  <2>. QED
    BY <1>1, <1>2, <1>5
<1>8. Cardinality(W) < limit
  <2>. HIDE DEF c
  <2>. QED
    BY <1>1, <1>3, <1>7
<1>9. m = IF c = 0 THEN 0 ELSE c - 1
  <2>1. times = <<>> <=> Len(times) = 0
    <3>. HIDE DEF times
    <3>. QED
      BY <1>2, EmptySeq
  <2>. HIDE DEF c, times
  <2>. QED
    BY <1>1, <1>2, <1>7, <2>1
<1>10. m \in Nat /\ \A k \in 1..m : k \in 1..n /\ k + 1 \in 1..n
  <2>. HIDE DEF c, n, m
  <2>. QED
    BY <1>1, <1>7, <1>9
<1>11. \A k \in 1..m : /\ times[k] \in D /\ times[k + 1] \in D
                       /\ at(times[k]) = k - 1 /\ at(times[k + 1]) = k
  <2>. SUFFICES ASSUME NEW k \in 1..m
                PROVE  /\ times[k] \in D /\ times[k + 1] \in D
                       /\ at(times[k]) = k - 1 /\ at(times[k + 1]) = k
    OBVIOUS
  <2>1. k \in 1..n /\ k + 1 \in 1..n /\ (k + 1) - 1 = k
    BY <1>10
  <2>. HIDE DEF n, m, D, times, at
  <2>. QED
    BY <1>2, <2>1
<1>12. \A x, y \in D : x < y => at(x) < at(y)
  BY <1>1, BeforeGrows
<1>13. \A x, y \in D : at(x) = at(y) => x = y
  BY <1>1, BeforeTells
<1>14. \A x \in D : at(x) \in Nat /\ x \in Nat /\ x \in S /\ from <= x /\ x <= to
  <2>1. \A x \in D : at(x) \in 0..(c - 1)
    BY <1>1, BeforeIs
  <2>2. \A x \in D : at(x) \in Nat
    <3>. HIDE DEF at, D, c
    <3>. QED
      BY <1>1, <2>1
  <2>. QED
    BY <2>2 DEF Due
<1>15. \A z \in S : from <= z /\ z <= to => z \in D
  BY DEF Due
<1>. HIDE DEF m, n, c, times, D, at
<1>16. \A k \in 1..m : ws[k] \in W
  <2>. SUFFICES ASSUME NEW k \in 1..m PROVE ws[k] \in W
    OBVIOUS
  <2>. DEFINE t == times[k]
              u == times[k + 1]
  <2>1. t \in D /\ u \in D /\ at(t) = k - 1 /\ at(u) = k /\ k \in Nat
    BY <1>10, <1>11
  <2>. HIDE DEF t, u
  <2>2. /\ t \in Nat /\ t \in S /\ from <= t /\ t <= to
        /\ u \in Nat /\ u \in S /\ from <= u /\ u <= to
    BY <1>14, <2>1
  <2>3. t < u
    <3>1. ~ (u < t)
      BY <1>12, <2>1
    <3>2. t # u
      BY <2>1
    <3>. QED
      BY <2>2, <3>1, <3>2
  <2>4. ASSUME NEW z \in S, t < z, z < u PROVE FALSE
    <3>0. z \in Nat
      OBVIOUS
    <3>1. z \in D
      BY <1>15, <2>2, <2>4, <3>0
    <3>2. at(t) < at(z) /\ at(z) < at(u) /\ at(z) \in Nat
      BY <1>12, <1>14, <2>1, <2>4, <3>1
    <3>. QED
      BY <2>1, <3>2
  <2>5. ws[k] = [start |-> t, end |-> u]
    BY DEF t, u
  <2>. QED
    BY <2>2, <2>3, <2>4, <2>5 DEF WindowsOf
<1>17. \A w \in W : \E k \in 1..m : ws[k] = w
  <2>. SUFFICES ASSUME NEW w \in W PROVE \E k \in 1..m : ws[k] = w
    OBVIOUS
  <2>1. /\ w \in [start : S, end : S] /\ from <= w.start /\ w.start < w.end /\ w.end <= to
        /\ ~ \E z \in S : w.start < z /\ z < w.end
    BY DEF WindowsOf
  <2>. DEFINE t == w.start
              u == w.end
  <2>2. t \in Nat /\ u \in Nat /\ t \in S /\ u \in S /\ w = [start |-> t, end |-> u]
    BY <2>1
  <2>3. from <= u /\ t <= to
    BY <2>1, <2>2
  <2>4. t \in D /\ u \in D
    BY <1>15, <2>1, <2>2, <2>3
  <2>5. at(u) = at(t) + 1
    <3>1. ~ \E z \in D : t < z /\ z < u
      BY <1>14, <2>1
    <3>. QED
      BY <1>1, <2>1, <2>4, <3>1, BeforeGrows DEF at
  <2>6. at(t) \in Nat /\ at(t) \in 0..(c - 1) /\ at(u) \in 0..(c - 1)
    BY <1>1, <1>14, <2>4, BeforeIs DEF at, c
  <2>. DEFINE k == at(t) + 1
  <2>7. k \in 1..m
    BY <1>1, <1>9, <2>5, <2>6
  <2>8. /\ times[k] \in D /\ times[k + 1] \in D
        /\ at(times[k]) = k - 1 /\ at(times[k + 1]) = k
    <3>. HIDE DEF k
    <3>. QED
      BY <1>11, <2>7
  <2>9. at(times[k]) = at(t) /\ at(times[k + 1]) = at(u)
    BY <2>5, <2>6, <2>8
  <2>10. times[k] = t /\ times[k + 1] = u
    <3>. HIDE DEF k
    <3>. QED
      BY <1>13, <2>4, <2>8, <2>9
  <2>11. ws[k] = [start |-> times[k], end |-> times[k + 1]]
    BY <2>7
  <2>. HIDE DEF k
  <2>. QED
    BY <2>2, <2>7, <2>10, <2>11
<1>18. ws \in [1..m -> Window]
  <2>. SUFFICES ASSUME NEW k \in 1..m PROVE [start |-> times[k], end |-> times[k + 1]] \in Window
    OBVIOUS
  <2>. QED
    BY <1>11, <1>14 DEF Window
<1>19. ASSUME NEW i \in 1..m, NEW j \in 1..m, ws[i] = ws[j] PROVE i = j
  <2>1. ws[i].start = times[i] /\ ws[j].start = times[j]
    OBVIOUS
  <2>2. times[i] = times[j]
    BY <1>19, <2>1
  <2>3. i - 1 = j - 1 /\ i \in Int /\ j \in Int
    BY <1>10, <1>11, <2>2
  <2>. QED
    BY <2>3
<1>20. DOMAIN ws = 1..m
  OBVIOUS
<1>. HIDE DEF ws
<1>21. ws \in Seq(Window)
  BY <1>10, <1>18, FunctionIsSeq
<1>22. Range(ws) = W
  BY <1>16, <1>17, <1>20 DEF Range
<1>. QED
  BY <1>8, <1>19, <1>20, <1>21, <1>22

Request == [stage : {"none", "planned", "refused", "raised", "submitted", "abandoned"},
            id : Nat, from : Nat, to : Nat, force : BOOLEAN, todo : Seq(Window),
            skipped : SUBSET Window]

\* The windows an operator asked for, and what is no window of any other range.
Asked(o) == WindowsOf(fires, request[o].from, request[o].to)
Gap(w) == /\ w \in [start : fires, end : fires] /\ w.start < w.end
          /\ ~ \E z \in fires : w.start < z /\ z < w.end

\* What a plan leaves out is queued, and stays so; what it does not leave out
\* nobody but its operator queues, unless two of them work at a time.
CoverInv(o) ==
  LET r == request[o]
  IN  /\ r.stage = "planned" =>
           /\ Range(r.todo) \subseteq Asked(o)
           /\ \A w \in Asked(o) : w \in Range(r.todo) \/ \E q \in queued : q.window = w
           /\ ~ raced /\ ~ r.force => \A q \in queued : q.window \in Range(r.todo) => q.by = r.id
      /\ r.stage = "submitted" => \A w \in Asked(o) : \E q \in queued : q.window = w
      /\ r.stage \in {"planned", "submitted", "abandoned", "raised"} => Cardinality(Asked(o)) < MaxRuns
      /\ r.stage = "refused" => r.to < r.from \/ Cardinality(Asked(o)) >= MaxRuns
BackInv ==
  /\ fires \in Schedules /\ request \in [Operator -> Request] /\ requests \in Nat /\ raced \in BOOLEAN
  /\ \A q \in queued : Gap(q.window)
  /\ \A o \in Operator : CoverInv(o)
  /\ ~ raced => \A o, p \in Operator : request[o].stage = "planned" /\ request[p].stage = "planned" => o = p
  /\ \A q1, q2 \in queued :
       q1.window = q2.window /\ q1.by # q2.by => raced \/ q1.forced \/ q2.forced

\* What an operator asked for are windows of the schedule.
LEMMA AskedIs ==
  ASSUME BackInv, NEW o \in Operator, NEW w \in Asked(o)
  PROVE  Gap(w)
BY DEF Asked, WindowsOf, Gap

\* Two windows of a schedule that begin together end together.
LEMMA GapsTell ==
  ASSUME fires \in SUBSET Nat, NEW v, NEW w, Gap(v), Gap(w), v.start = w.start
  PROVE  v = w
<1>1. /\ v.start \in fires /\ v.end \in fires /\ w.start \in fires /\ w.end \in fires
      /\ v = [start |-> v.start, end |-> v.end] /\ w = [start |-> w.start, end |-> w.end]
  BY DEF Gap
<1>2. v.end \in Nat /\ w.end \in Nat
  BY <1>1
<1>3. ~ (v.end < w.end) /\ ~ (w.end < v.end)
  BY <1>1 DEF Gap
<1>4. v.end = w.end
  BY <1>2, <1>3
<1>. QED
  BY <1>1, <1>4

\* A schedule fires at instants.
LEMMA FiresAre == ASSUME BackInv PROVE fires \in SUBSET Nat
BY BackfillAssumption DEF BackInv

\* An operator that is not asked about keeps its part when windows are queued
\* that its plan does not have, unless two operators work at a time.
LEMMA OthersKeep ==
  ASSUME BackInv, NEW p \in Operator, fires' = fires, request'[p] = request[p],
         queued \subseteq queued', raced => raced',
         (request[p].stage = "planned" /\ ~ raced') => queued' = queued
  PROVE  CoverInv(p)'
<1>1. CoverInv(p)
  BY DEF BackInv
<1>2. Asked(p)' = Asked(p)
  BY DEF Asked
<1>. QED
  BY <1>1, <1>2 DEF CoverInv

\* plan_backfill keeps the invariant.
LEMMA PlanKeeps == ASSUME BackInv, NEW o \in Operator, PlanBackfill(o) PROVE BackInv'
<1>0. /\ Free(o) /\ requests' = requests + 1 /\ raced' = (raced \/ OthersBusy(o))
      /\ fires' = fires /\ queued' = queued
  BY DEF PlanBackfill
<1>. DEFINE ws(from, to) == IntervalsBetween(fires, from, to, MaxRuns)
            gone(from, to) == [NoRequest EXCEPT !.stage = "refused", !.from = from, !.to = to]
            due(w, force) == force \/ ~ Covered(w)
            keep(from, to, force) == {w \in Range(ws(from, to)) : due(w, force)}
            plan(from, to, force) ==
              [stage |-> "planned", id |-> requests + 1, from |-> from, to |-> to, force |-> force,
               todo |-> Filtered(ws(from, to), keep(from, to, force)),
               skipped |-> {w \in Range(ws(from, to)) : ~ due(w, force)}]
<1>1. PICK from \in Instants, to \in Instants, force \in BOOLEAN :
        request' = [request EXCEPT ![o] = IF Refused(fires, from, to, MaxRuns) THEN gone(from, to)
                                          ELSE plan(from, to, force)]
  BY DEF PlanBackfill
<1>2. from \in Nat /\ to \in Nat /\ MaxRuns \in Nat \ {0} /\ fires \in SUBSET Nat
  BY FiresAre, BackfillAssumption
<1>. DEFINE W == WindowsOf(fires, from, to)
            I == ws(from, to)
            K == keep(from, to, force)
            x == gone(from, to)
            y == plan(from, to, force)
<1>3. /\ Refused(fires, from, to, MaxRuns) => to < from \/ Cardinality(W) >= MaxRuns
      /\ ~ Refused(fires, from, to, MaxRuns) =>
           /\ Cardinality(W) < MaxRuns /\ I \in Seq(Window) /\ Range(I) = W
           /\ \A i, j \in DOMAIN I : I[i] = I[j] => i = j
  BY <1>2, IntervalsAre
<1>4. requests \in Nat /\ raced \in BOOLEAN /\ request \in [Operator -> Request]
  BY DEF BackInv
<1>5. /\ fires' \in Schedules /\ requests' \in Nat /\ raced' \in BOOLEAN
      /\ \A q \in queued' : Gap(q.window)'
      /\ \A q1, q2 \in queued' :
           q1.window = q2.window /\ q1.by # q2.by => raced' \/ q1.forced \/ q2.forced
  <2>1. \A q \in queued' : Gap(q.window)'
    BY <1>0 DEF BackInv, Gap
  <2>2. requests' \in Nat /\ raced' \in BOOLEAN
    BY <1>0, <1>4 DEF OthersBusy
  <2>. QED
    BY <1>0, <2>1, <2>2 DEF BackInv
<1>6. ASSUME NEW z \in Request, request' = [request EXCEPT ![o] = z], z.stage \in {"planned", "refused"},
             CoverInv(o)'
      PROVE  BackInv'
  <2>1. request' \in [Operator -> Request] /\ request'[o] = z /\ \A p \in Operator \ {o} : request'[p] = request[p]
    BY <1>4, <1>6
  <2>2. \A p \in Operator : CoverInv(p)'
    <3>1. ASSUME NEW p \in Operator \ {o} PROVE CoverInv(p)'
      <4>1. request'[p] = request[p] /\ queued \subseteq queued' /\ (raced => raced')
        BY <1>0, <2>1
      <4>. QED
        BY <1>0, <4>1, OthersKeep
    <3>. QED
      BY <1>6, <3>1
  <2>3. ~ raced' => \A p, q \in Operator : request'[p].stage = "planned" /\ request'[q].stage = "planned" => p = q
    <3>1. ~ raced' => ~ raced /\ \A p \in Operator \ {o} : request[p].stage # "planned"
      BY <1>0 DEF OthersBusy
    <3>2. ~ raced' => \A p \in Operator \ {o} : request'[p].stage # "planned"
      BY <2>1, <3>1
    <3>. QED
      BY <3>2
  <2>. QED
    BY <1>5, <2>1, <2>2, <2>3 DEF BackInv
<1>7. CASE Refused(fires, from, to, MaxRuns)
  <2>. DEFINE a == [NoRequest EXCEPT !.stage = "refused"]
              b == [a EXCEPT !.from = from]
  <2>0. <<>> \in Seq(Window)
    BY EmptySeq
  <2>1. a \in Request /\ a.stage = "refused"
    BY <2>0 DEF NoRequest, Request
  <2>. HIDE DEF a
  <2>2. b \in Request /\ b.stage = "refused" /\ b.from = from
    BY <1>2, <2>1 DEF Request
  <2>3. x = [b EXCEPT !.to = to]
    BY DEF a, NoRequest
  <2>. HIDE DEF b, x
  <2>4. x \in Request /\ x.stage = "refused" /\ x.from = from /\ x.to = to
    BY <1>2, <2>2, <2>3 DEF Request
  <2>5. request' = [request EXCEPT ![o] = x]
    BY <1>1, <1>7 DEF x
  <2>6. request'[o] = x
    BY <1>4, <2>5
  <2>7. Asked(o)' = W
    BY <1>0, <2>4, <2>6 DEF Asked
  <2>8. CoverInv(o)'
    <3>. HIDE DEF W
    <3>. QED
      BY <1>3, <1>7, <2>4, <2>6, <2>7 DEF CoverInv
  <2>. QED
    BY <1>6, <2>4, <2>5, <2>8
<1>8. CASE ~ Refused(fires, from, to, MaxRuns)
  <2>. DEFINE f == Filtered(I, K)
  <2>1. /\ Cardinality(W) < MaxRuns /\ I \in Seq(Window) /\ Range(I) = W
        /\ \A i, j \in DOMAIN I : I[i] = I[j] => i = j
    BY <1>3, <1>8
  <2>. HIDE DEF W
  <2>2. W \subseteq Window
    BY <1>2 DEF W, WindowsOf, Window
  <2>3. f \in Seq(Window) /\ \A w : w \in Range(f) <=> w \in W /\ w \in K
    <3>. HIDE DEF I, K
    <3>. QED
      BY ONLY <2>1, FilteredOnce
  <2>4. \A w : w \in K <=> w \in W /\ due(w, force)
    <3>. HIDE DEF I, due
    <3>1. K = {w \in Range(I) : due(w, force)}
      BY DEF I
    <3>. HIDE DEF K
    <3>. QED
      BY <2>1, <3>1
  <2>5. \A w : w \in Range(f) <=> w \in W /\ (force \/ ~ Covered(w))
    <3>. HIDE DEF f, K, I
    <3>. QED
      BY <2>3, <2>4
  <2>6. y = [stage |-> "planned", id |-> requests + 1, from |-> from, to |-> to, force |-> force,
             todo |-> f, skipped |-> {w \in Range(I) : ~ due(w, force)}]
    OBVIOUS
  <2>7. {w \in Range(I) : ~ due(w, force)} \subseteq Window
    <3>. HIDE DEF I, due
    <3>. QED
      BY <2>1, <2>2
  <2>. DEFINE sk == {w \in Range(I) : ~ due(w, force)}
  <2>. HIDE DEF sk, f, y, I, K
  <2>8. y = [stage |-> "planned", id |-> requests + 1, from |-> from, to |-> to, force |-> force,
             todo |-> f, skipped |-> sk]
    BY <2>6 DEF sk
  <2>9. y \in Request /\ y.stage = "planned" /\ y.from = from /\ y.to = to /\ y.force = force /\ y.todo = f
    BY <1>2, <1>4, <2>3, <2>7, <2>8 DEF Request, sk
  <2>10. request' = [request EXCEPT ![o] = y]
    BY <1>1, <1>8 DEF y
  <2>11. request'[o] = y
    BY <1>4, <2>10
  <2>12. Asked(o)' = W
    BY <1>0, <2>9, <2>11 DEF Asked, W
  <2>13. \A w \in W : Gap(w)
    BY DEF W, WindowsOf, Gap
  <2>14. ASSUME NEW w \in W, w \notin Range(f) PROVE \E q \in queued : q.window = w
    <3>1. PICK q \in queued : q.window.start = w.start
      BY <2>5, <2>14 DEF Covered
    <3>2. Gap(q.window) /\ Gap(w)
      BY <2>13 DEF BackInv
    <3>3. q.window = w
      BY <1>2, <3>1, <3>2, GapsTell
    <3>. QED
      BY <3>3
  <2>15. ASSUME ~ force, NEW q \in queued, q.window \in Range(f) PROVE FALSE
    <3>1. ~ Covered(q.window)
      BY <2>5, <2>15
    <3>. QED
      BY <3>1 DEF Covered
  <2>16. CoverInv(o)'
    <3>1. \A w \in W : w \in Range(f) \/ \E q \in queued' : q.window = w
      BY <1>0, <2>14
    <3>2. Range(f) \subseteq W
      BY <2>5
    <3>3. ~ force => \A q \in queued' : q.window \in Range(f) => q.by = request'[o].id
      BY <1>0, <2>15
    <3>. QED
      BY <2>1, <2>9, <2>11, <2>12, <3>1, <3>2, <3>3 DEF CoverInv
  <2>. QED
    BY <1>6, <2>9, <2>10, <2>16
<1>. QED
  BY <1>7, <1>8
\* The entries of a list: the first one and those of the rest.
LEMMA HeadAndTail ==
  ASSUME NEW D, NEW q \in Seq(D), q # <<>>
  PROVE  /\ Head(q) \in D /\ Tail(q) \in Seq(D)
         /\ \A x : x \in Range(q) <=> x = Head(q) \/ x \in Range(Tail(q))
<1>1. /\ Head(q) \in D /\ Tail(q) \in Seq(D) /\ Head(q) = q[1]
      /\ Len(q) \in Nat \ {0} /\ DOMAIN q = 1..Len(q)
      /\ Len(Tail(q)) = Len(q) - 1 /\ DOMAIN Tail(q) = 1..Len(Tail(q))
      /\ \A i \in 1..(Len(q) - 1) : Tail(q)[i] = q[i + 1]
  BY HeadTailProperties, LenProperties, EmptySeq
<1>. DEFINE n == Len(q)
            r == Tail(q)
<1>. HIDE DEF n, r
<1>2. /\ n \in Nat \ {0} /\ DOMAIN q = 1..n /\ DOMAIN r = 1..(n - 1) /\ Head(q) = q[1]
      /\ \A i \in 1..(n - 1) : r[i] = q[i + 1]
  BY <1>1 DEF n, r
<1>3. \A x : x \in Range(q) <=> \E i \in 1..n : q[i] = x
  BY <1>2 DEF Range
<1>4. \A x : x \in Range(r) <=> \E i \in 1..(n - 1) : r[i] = x
  BY <1>2 DEF Range
<1>5. ASSUME NEW i \in 1..n PROVE q[i] = Head(q) \/ \E j \in 1..(n - 1) : r[j] = q[i]
  <2>1. CASE i = 1
    BY <1>2, <2>1
  <2>2. CASE i # 1
    <3>1. i - 1 \in 1..(n - 1) /\ (i - 1) + 1 = i
      BY <1>2, <2>2
    <3>2. r[i - 1] = q[i]
      BY <1>2, <3>1
    <3>. QED
      BY <3>1, <3>2
  <2>. QED
    BY <2>1, <2>2
<1>6. 1 \in 1..n /\ \A i \in 1..(n - 1) : i + 1 \in 1..n
  BY <1>2
<1>7. \A x : x \in Range(q) <=> x = Head(q) \/ x \in Range(r)
  BY <1>2, <1>3, <1>4, <1>5, <1>6
<1>. QED
  BY <1>1, <1>7 DEF r

\* One enqueue_run keeps the invariant, whether it queues or raises.
LEMMA SubmitKeeps == ASSUME BackInv, NEW o \in Operator, SubmitNext(o) PROVE BackInv'
<1>. DEFINE r == request[o]
            w == Head(r.todo)
            id == RunId(r.id, w)
            row == [id |-> id, window |-> w, by |-> r.id, forced |-> r.force]
<1>0. /\ r.stage = "planned" /\ r.todo # <<>> /\ UNCHANGED <<fires, requests, raced>>
      /\ \/ request' = [request EXCEPT ![o].stage = "raised"] /\ queued' = queued
         \/ queued' = queued \cup {row} /\ request' = [request EXCEPT ![o].todo = Tail(@)]
  BY DEF SubmitNext
<1>1. request \in [Operator -> Request] /\ r \in Request /\ CoverInv(o)
  BY DEF BackInv
<1>2. r.todo \in Seq(Window)
  BY <1>1 DEF Request
<1>3. /\ Tail(r.todo) \in Seq(Window)
      /\ \A x : x \in Range(r.todo) <=> x = w \/ x \in Range(Tail(r.todo))
  <2>. DEFINE t == r.todo
  <2>1. t \in Seq(Window) /\ t # <<>>
    BY <1>0, <1>2
  <2>. HIDE DEF t
  <2>2. /\ Tail(t) \in Seq(Window) /\ \A x : x \in Range(t) <=> x = Head(t) \/ x \in Range(Tail(t))
    BY <2>1, HeadAndTail
  <2>. QED
    BY <2>2 DEF t
<1>4. CASE request' = [request EXCEPT ![o].stage = "raised"] /\ queued' = queued
  <2>. DEFINE z == [r EXCEPT !.stage = "raised"]
  <2>1. z \in Request /\ z.stage = "raised" /\ z.from = r.from /\ z.to = r.to
    BY <1>1 DEF Request
  <2>2. request' = [request EXCEPT ![o] = z]
    BY <1>4
  <2>. HIDE DEF z
  <2>3. /\ request' \in [Operator -> Request] /\ request'[o] = z
        /\ \A p \in Operator \ {o} : request'[p] = request[p]
    BY <1>1, <2>1, <2>2
  <2>4. Asked(o)' = Asked(o)
    BY <1>0, <2>1, <2>3 DEF Asked
  <2>5. CoverInv(o)'
    BY <1>0, <1>1, <2>1, <2>3, <2>4 DEF CoverInv
  <2>6. \A p \in Operator \ {o} : CoverInv(p)'
    BY <1>0, <1>4, <2>3, OthersKeep
  <2>7. \A q \in queued' : Gap(q.window)'
    BY <1>0, <1>4 DEF BackInv, Gap
  <2>8. \A p \in Operator : request'[p].stage = "planned" => request[p].stage = "planned"
    BY <2>1, <2>3
  <2>9. ~ raced' => \A p, q \in Operator : request'[p].stage = "planned" /\ request'[q].stage = "planned" => p = q
    BY <1>0, <2>8 DEF BackInv
  <2>. QED
    BY <1>0, <1>4, <2>3, <2>5, <2>6, <2>7, <2>9 DEF BackInv
<1>5. CASE queued' = queued \cup {row} /\ request' = [request EXCEPT ![o].todo = Tail(@)]
  <2>. DEFINE z == [r EXCEPT !.todo = Tail(r.todo)]
  <2>1. z \in Request /\ z.stage = "planned" /\ z.from = r.from /\ z.to = r.to /\ z.todo = Tail(r.todo)
        /\ z.force = r.force /\ z.id = r.id
    BY <1>0, <1>1, <1>3 DEF Request
  <2>2. request' = [request EXCEPT ![o] = z]
    BY <1>5
  <2>. HIDE DEF z
  <2>3. /\ request' \in [Operator -> Request] /\ request'[o] = z
        /\ \A p \in Operator \ {o} : request'[p] = request[p]
    BY <1>1, <2>1, <2>2
  <2>4. Asked(o)' = Asked(o)
    BY <1>0, <2>1, <2>3 DEF Asked
  <2>5. row.window = w /\ row.by = r.id /\ row.forced = r.force
    OBVIOUS
  <2>. HIDE DEF row
  <2>6. /\ w \in Asked(o)
        /\ Range(r.todo) \subseteq Asked(o)
        /\ \A x \in Asked(o) : x \in Range(r.todo) \/ \E q \in queued : q.window = x
        /\ ~ raced /\ ~ r.force => \A q \in queued : q.window \in Range(r.todo) => q.by = r.id
        /\ Cardinality(Asked(o)) < MaxRuns
    BY <1>0, <1>1, <1>3 DEF CoverInv
  <2>7. CoverInv(o)'
    <3>1. Range(z.todo) \subseteq Asked(o)
      BY <1>3, <2>1, <2>6
    <3>2. \A x \in Asked(o) : x \in Range(z.todo) \/ \E q \in queued' : q.window = x
      BY <1>3, <1>5, <2>1, <2>5, <2>6
    <3>3. ~ raced /\ ~ z.force => \A q \in queued' : q.window \in Range(z.todo) => q.by = z.id
      BY <1>3, <1>5, <2>1, <2>5, <2>6
    <3>. QED
      BY <1>0, <2>1, <2>3, <2>4, <2>6, <3>1, <3>2, <3>3 DEF CoverInv
  <2>8. \A p \in Operator \ {o} : CoverInv(p)'
    <3>. SUFFICES ASSUME NEW p \in Operator \ {o} PROVE CoverInv(p)'
      OBVIOUS
    <3>1. request[p].stage = "planned" => raced'
      BY <1>0 DEF BackInv
    <3>. QED
      BY <1>0, <1>5, <2>3, <3>1, OthersKeep
  <2>9. Gap(w)
    BY <2>6, AskedIs
  <2>10. \A q \in queued' : Gap(q.window)'
    <3>1. \A q \in queued' : Gap(q.window)
      BY <1>5, <2>5, <2>9 DEF BackInv
    <3>. QED
      BY <1>0, <3>1 DEF Gap
  <2>11. ~ raced' => \A p, q \in Operator : request'[p].stage = "planned" /\ request'[q].stage = "planned" => p = q
    <3>1. \A p \in Operator : request'[p].stage = request[p].stage
      BY <1>0, <2>1, <2>3
    <3>. QED
      BY <1>0, <3>1 DEF BackInv
  <2>12. ASSUME NEW q \in queued, q.window = w, q.by # r.id PROVE raced \/ r.force
    BY <1>3, <2>6, <2>12
  <2>13. \A q1, q2 \in queued' :
           q1.window = q2.window /\ q1.by # q2.by => raced' \/ q1.forced \/ q2.forced
    <3>. SUFFICES ASSUME NEW q1 \in queued', NEW q2 \in queued', q1.window = q2.window, q1.by # q2.by
                  PROVE  raced \/ q1.forced \/ q2.forced
      BY <1>0
    <3>1. CASE q1 \in queued /\ q2 \in queued
      BY <3>1 DEF BackInv
    <3>2. CASE q1 = row /\ q2 \in queued
      BY <2>5, <2>12, <3>2
    <3>3. CASE q2 = row /\ q1 \in queued
      BY <2>5, <2>12, <3>3
    <3>. QED
      BY <1>5, <3>1, <3>2, <3>3
  <2>. QED
    BY <1>0, <2>3, <2>7, <2>8, <2>10, <2>11, <2>13 DEF BackInv
<1>. QED
  BY <1>0, <1>4, <1>5

\* A request that is over keeps what it has queued.
LEMMA EndKeeps ==
  ASSUME BackInv, NEW o \in Operator, FinishSubmit(o) \/ Abandon(o)
  PROVE  BackInv'
<1>. DEFINE r == request[o]
<1>0. /\ r.stage = "planned" /\ UNCHANGED <<fires, queued, requests, raced>>
      /\ \/ r.todo = <<>> /\ request' = [request EXCEPT ![o].stage = "submitted"]
         \/ request' = [request EXCEPT ![o].stage = "abandoned"]
  BY DEF FinishSubmit, Abandon
<1>1. request \in [Operator -> Request] /\ r \in Request /\ CoverInv(o)
  BY DEF BackInv
<1>2. ASSUME NEW stage \in {"submitted", "abandoned"}, request' = [request EXCEPT ![o].stage = stage],
             stage = "submitted" => r.todo = <<>>
      PROVE  BackInv'
  <2>. DEFINE z == [r EXCEPT !.stage = stage]
  <2>1. z \in Request /\ z.stage = stage /\ z.from = r.from /\ z.to = r.to
    BY <1>1 DEF Request
  <2>2. request' = [request EXCEPT ![o] = z]
    BY <1>2
  <2>. HIDE DEF z
  <2>3. /\ request' \in [Operator -> Request] /\ request'[o] = z
        /\ \A p \in Operator \ {o} : request'[p] = request[p]
    BY <1>1, <2>1, <2>2
  <2>4. Asked(o)' = Asked(o)
    BY <1>0, <2>1, <2>3 DEF Asked
  <2>5. stage = "submitted" => \A x : x \notin Range(r.todo)
    BY <1>2 DEF Range
  <2>6. CoverInv(o)'
    BY <1>0, <1>1, <1>2, <2>1, <2>3, <2>4, <2>5 DEF CoverInv
  <2>7. \A p \in Operator \ {o} : CoverInv(p)'
    BY <1>0, <2>3, OthersKeep
  <2>8. \A q \in queued' : Gap(q.window)'
    BY <1>0 DEF BackInv, Gap
  <2>9. \A p \in Operator : request'[p].stage = "planned" => request[p].stage = "planned"
    BY <1>2, <2>1, <2>3
  <2>10. ~ raced' => \A p, q \in Operator : request'[p].stage = "planned" /\ request'[q].stage = "planned" => p = q
    BY <1>0, <2>9 DEF BackInv
  <2>. QED
    BY <1>0, <2>3, <2>6, <2>7, <2>8, <2>10 DEF BackInv
<1>. QED
  BY <1>0, <1>2

\* Nothing is queued at first.
LEMMA BackBegins == BackfillInit => BackInv
<1>. SUFFICES ASSUME BackfillInit PROVE BackInv
  OBVIOUS
<1>1. /\ fires \in Schedules /\ queued = {} /\ requests = 0 /\ raced = FALSE
      /\ request = [o \in Operator |-> NoRequest]
  BY DEF BackfillInit
<1>2. NoRequest \in Request /\ NoRequest.stage = "none"
  <2>1. <<>> \in Seq(Window)
    BY EmptySeq
  <2>. QED
    BY <2>1 DEF NoRequest, Request
<1>3. request \in [Operator -> Request] /\ \A o \in Operator : request[o].stage = "none"
  BY <1>1, <1>2
<1>. QED
  BY <1>1, <1>3 DEF BackInv, CoverInv

\* Every step keeps what is queued apart.
LEMMA BackStep == BackInv /\ [BackfillNext]_backfillVars => BackInv'
<1>1. ASSUME BackInv, BackfillNext PROVE BackInv'
  BY <1>1, PlanKeeps, SubmitKeeps, EndKeeps DEF BackfillNext, OperatorStep
<1>2. ASSUME BackInv, UNCHANGED backfillVars PROVE BackInv'
  BY <1>2 DEF BackInv, CoverInv, Asked, Gap, backfillVars
<1>. QED
  BY <1>1, <1>2

\* A submitted request leaves every window of its range with a run, a range is
\* refused exactly when it has too many, and no window is queued twice unless
\* somebody forced it or two operators worked at the same time.
THEOREM WindowsSubmittedOnce == BackfillSpec => []SubmittedOnce
<1>1. BackInv => SubmittedOnce
  BY DEF BackInv, CoverInv, Asked, SubmittedOnce
<1>. QED
  BY <1>1, BackBegins, BackStep, PTL DEF BackfillSpec


(*****************************************************************************)
(* The streaming harness                                                     *)
(*****************************************************************************)

\* The rows there can be: those of the consumers and those of a hand.
Value == {Manifest[e] : e \in Event}
           \cup {Altered, [Manifest[CHOOSE e \in Event : TRUE] EXCEPT !.payload = Altered.payload]}
Line  == {Garbled, Undated} \cup [event : Event \cup {Ghost}, fields : Value, checksum : Value]

Perfect == /\ Len(sink) = Cardinality(Event)
           /\ \A e \in Event : \E k \in DOMAIN sink : sink[k] = Row(e)

\* A row names its event and agrees with the manifest.
LEMMA RowIs ==
  ASSUME NEW e \in Event
  PROVE  /\ Row(e) \in Line /\ Parses(Row(e))
         /\ Row(e).event = e /\ Row(e).fields = Manifest[e] /\ Row(e).checksum = Manifest[e]
<1>1. DOMAIN Row(e) = {"event", "fields", "checksum"} /\ DOMAIN Garbled = {"unparseable"}
      /\ DOMAIN Undated = {"undated"}
  BY DEF Row, Garbled, Undated
<1>2. Row(e) # Garbled /\ Row(e) # Undated
  BY <1>1
<1>. QED
  BY <1>2 DEF Row, Line, Value, Parses

\* A perfect sink is a list of the events.
LEMMA PerfectIs ==
  ASSUME sink \in Seq(Line), Perfect
  PROVE  /\ \A k \in DOMAIN sink : sink[k].event \in Event /\ sink[k] = Row(sink[k].event)
         /\ \A i, j \in DOMAIN sink : sink[i].event = sink[j].event => i = j
<1>. DEFINE n == Len(sink)
            c == [e \in Event |-> CHOOSE k \in 1..n : sink[k] = Row(e)]
<1>1. n \in Nat /\ DOMAIN sink = 1..n /\ IsFiniteSet(Event) /\ n = Cardinality(Event)
  BY BaselineAssumption DEF Perfect
<1>2. \A e \in Event : c[e] \in 1..n /\ sink[c[e]] = Row(e)
  BY <1>1 DEF Perfect
<1>. HIDE DEF n
<1>3. c \in [Event -> 1..n]
  BY <1>2
<1>. HIDE DEF c
<1>4. \A d, e \in Event : c[d] = c[e] => d = e
  BY <1>2, RowIs
<1>5. c \in Injection(Event, 1..n)
  BY <1>3, <1>4 DEF Injection, IsInjective
<1>6. IsFiniteSet(1..n) /\ Cardinality(1..n) = Cardinality(Event)
  BY <1>1, FS_Interval
<1>7. c \in Surjection(Event, 1..n)
  BY <1>5, <1>6, FS_Injection
<1>8. \A k \in 1..n : \E e \in Event : c[e] = k
  BY <1>7 DEF Surjection
<1>9. \A k \in 1..n : sink[k].event \in Event /\ sink[k] = Row(sink[k].event) /\ c[sink[k].event] = k
  BY <1>2, <1>8, RowIs
<1>. QED
  BY <1>1, <1>9

-----------------------------------------------------------------------------
(* What a report says of the sink it was made of.                          *)

Parsed  == {k \in DOMAIN sink : Parses(sink[k])}
Seen    == {sink[k].event : k \in Parsed}
Copies(e) == {k \in Parsed : sink[k].event = e}
Known   == {k \in Parsed : sink[k].event \in Event}

\* The parts of a report.
LEMMA ReportIs ==
  ASSUME NEW o
  PROVE  /\ Verify(Manifest, sink, o).duplicates = {e \in Seen : Cardinality(Copies(e)) > 1}
         /\ Verify(Manifest, sink, o).missing = Event \ Seen
         /\ Verify(Manifest, sink, o).corrupted = {sink[k].event : k \in {j \in Known : ~Intact(Manifest, sink[j])}}
         /\ Verify(Manifest, sink, o).unexpected = (Seen \ Event) \cup {"unparseable" : k \in DOMAIN sink \ Parsed}
         /\ Verify(Manifest, sink, o).windows
              = CompareWindows(ByWindow(Manifest), ByWindow([k \in Parsed |-> sink[k].fields]))
         /\ Verify(Manifest, sink, o).offsetGap = IF o = NoOffset THEN 0 ELSE o - Cardinality(Seen)
BY DEF Verify, Parsed, Seen, Copies, Known, Event

\* What it counts is finite.
LEMMA ParsedFinite ==
  ASSUME sink \in Seq(Line)
  PROVE  /\ IsFiniteSet(DOMAIN sink) /\ IsFiniteSet(Parsed) /\ IsFiniteSet(Seen)
         /\ \A e : IsFiniteSet(Copies(e))
<1>1. IsFiniteSet(DOMAIN sink)
  <2>1. Len(sink) \in Nat /\ DOMAIN sink = 1..Len(sink)
    OBVIOUS
  <2>. QED
    BY <2>1, FS_Interval
<1>2. IsFiniteSet(Parsed)
  BY <1>1, FS_Subset DEF Parsed
<1>3. IsFiniteSet(Seen)
  <2>. DEFINE f == [k \in Parsed |-> sink[k].event]
  <2>1. Seen = {f[k] : k \in Parsed}
    BY DEF Seen
  <2>. QED
    BY <1>2, <2>1, ImageFinite
<1>4. ASSUME NEW e PROVE IsFiniteSet(Copies(e))
  <2>1. Copies(e) \in SUBSET Parsed
    BY DEF Copies
  <2>. QED
    BY <1>2, <2>1, FS_Subset
<1>. QED
  BY <1>1, <1>2, <1>3, <1>4

\* Records are reported twice when two rows have one event.
LEMMA DuplicatesAre ==
  ASSUME sink \in Seq(Line), NEW o
  PROVE  Verify(Manifest, sink, o).duplicates # {} <=>
           \E i, j \in Parsed : i # j /\ sink[i].event = sink[j].event
<1>1. \A e : Cardinality(Copies(e)) > 1 <=> \E i, j \in Copies(e) : i # j
  BY ParsedFinite, MoreThanOne
<1>2. ASSUME NEW e \in Seen, Cardinality(Copies(e)) > 1
      PROVE  \E i, j \in Parsed : i # j /\ sink[i].event = sink[j].event
  <2>1. PICK i \in Copies(e), j \in Copies(e) : i # j
    BY <1>1, <1>2
  <2>2. i \in Parsed /\ j \in Parsed /\ sink[i].event = e /\ sink[j].event = e
    BY DEF Copies
  <2>. QED
    BY <2>1, <2>2
<1>3. ASSUME NEW i \in Parsed, NEW j \in Parsed, i # j, sink[i].event = sink[j].event
      PROVE  \E e \in Seen : Cardinality(Copies(e)) > 1
  <2>. DEFINE e == sink[i].event
  <2>1. e \in Seen /\ i \in Copies(e) /\ j \in Copies(e)
    BY <1>3 DEF Seen, Copies
  <2>. HIDE DEF e
  <2>. QED
    BY <1>1, <1>3, <2>1
<1>. QED
  BY <1>2, <1>3, ReportIs

\* A sink whose report names nothing wrong is perfect.
LEMMA CleanIsPerfect ==
  ASSUME sink \in Seq(Line), NEW o, NEW report, report = Verify(Manifest, sink, o),
         report.duplicates = {}, report.missing = {}, report.corrupted = {}, report.unexpected = {}
  PROVE  Perfect
<1>0. /\ Event \ Seen = {}
      /\ {sink[k].event : k \in {j \in Known : ~Intact(Manifest, sink[j])}} = {}
      /\ (Seen \ Event) \cup {"unparseable" : k \in DOMAIN sink \ Parsed} = {}
  BY ReportIs
<1>1. \A k \in DOMAIN sink : Parses(sink[k])
  BY <1>0 DEF Parsed
<1>2. Parsed = DOMAIN sink
  BY <1>1 DEF Parsed
<1>3. \A k \in DOMAIN sink : sink[k].event \in Event
  BY <1>0, <1>2 DEF Seen
<1>4. \A k \in DOMAIN sink : Intact(Manifest, sink[k])
  <2>1. {j \in Known : ~Intact(Manifest, sink[j])} = {}
    BY <1>0
  <2>2. Known = DOMAIN sink
    BY <1>2, <1>3 DEF Known
  <2>. QED
    BY <2>1, <2>2
<1>5. \A k \in DOMAIN sink : sink[k] = Row(sink[k].event)
  <2>. SUFFICES ASSUME NEW k \in DOMAIN sink PROVE sink[k] = Row(sink[k].event)
    OBVIOUS
  <2>1. sink[k] \in Line
    OBVIOUS
  <2>2. sink[k] \in [event : Event \cup {Ghost}, fields : Value, checksum : Value]
    BY <1>1, <2>1 DEF Line, Parses
  <2>3. sink[k].fields = Manifest[sink[k].event] /\ sink[k].checksum = Manifest[sink[k].event]
    BY <1>4 DEF Intact
  <2>. QED
    BY <2>2, <2>3 DEF Row
<1>6. \A e \in Event : \E k \in DOMAIN sink : sink[k].event = e
  <2>1. \A e \in Event : e \in Seen
    BY <1>0
  <2>. QED
    BY <1>2, <2>1 DEF Seen
<1>7. \A i, j \in DOMAIN sink : sink[i].event = sink[j].event => i = j
  BY <1>2, DuplicatesAre
<1>. DEFINE n == Len(sink)
            f == [k \in 1..n |-> sink[k].event]
<1>8. n \in Nat /\ DOMAIN sink = 1..n
  OBVIOUS
<1>9. f \in [1..n -> Event] /\ \A e \in Event : \E k \in 1..n : f[k] = e
  BY <1>3, <1>6, <1>8
<1>10. \A i, j \in 1..n : f[i] = f[j] => i = j
  BY <1>7, <1>8
<1>. HIDE DEF n, f
<1>11. f \in Surjection(1..n, Event) /\ f \in Injection(1..n, Event)
  BY <1>9, <1>10 DEF Surjection, Injection, IsInjective
<1>12. IsFiniteSet(1..n) /\ Cardinality(1..n) = n
  BY <1>8, FS_Interval
<1>13. Cardinality(Event) = n
  BY <1>11, <1>12, FS_Surjection
<1>. QED
  BY <1>5, <1>6, <1>13 DEF Perfect, n
\* The other way round, with the windows and their sums.
LEMMA PerfectIsClean ==
  ASSUME sink \in Seq(Line), Perfect, NEW o, NEW report, report = Verify(Manifest, sink, o)
  PROVE  /\ Seen = Event
         /\ report.duplicates = {} /\ report.missing = {} /\ report.corrupted = {}
         /\ report.unexpected = {} /\ report.windows = {}
<1>1. /\ \A k \in DOMAIN sink : sink[k].event \in Event /\ sink[k] = Row(sink[k].event)
      /\ \A i, j \in DOMAIN sink : sink[i].event = sink[j].event => i = j
  BY PerfectIs
<1>2. Parsed = DOMAIN sink
  <2>1. ASSUME NEW k \in DOMAIN sink PROVE Parses(sink[k])
    <3>1. sink[k].event \in Event /\ sink[k] = Row(sink[k].event)
      BY <1>1
    <3>2. Parses(Row(sink[k].event))
      BY <3>1, RowIs
    <3>. QED
      BY <3>1, <3>2
  <2>. QED
    BY <2>1 DEF Parsed
<1>3. \A e \in Event : \E k \in DOMAIN sink : sink[k] = Row(e)
  BY DEF Perfect
<1>4. \A e \in Event : \E k \in DOMAIN sink : sink[k].event = e
  BY <1>3, RowIs
<1>5. Seen = Event
  BY <1>1, <1>2, <1>4 DEF Seen
<1>6. \A k \in DOMAIN sink : Intact(Manifest, sink[k]) /\ sink[k].fields = Manifest[sink[k].event]
  BY <1>1, RowIs DEF Intact
<1>7. report.duplicates = {}
  BY <1>1, <1>2, DuplicatesAre
<1>8. report.missing = {} /\ report.corrupted = {} /\ report.unexpected = {}
  <2>1. {j \in Known : ~Intact(Manifest, sink[j])} = {}
    BY <1>2, <1>6 DEF Known
  <2>2. DOMAIN sink \ Parsed = {}
    BY <1>2
  <2>3. /\ Event \ Seen = {}
        /\ {sink[k].event : k \in {j \in Known : ~Intact(Manifest, sink[j])}} = {}
        /\ (Seen \ Event) \cup {"unparseable" : k \in DOMAIN sink \ Parsed} = {}
    BY <1>5, <2>1, <2>2
  <2>. QED
    BY <2>3, ReportIs
<1>. DEFINE K == DOMAIN sink
            g == [k \in K |-> sink[k].fields]
            b == [k \in K |-> sink[k].event]
            In(w) == {e \in Event : Manifest[e].window = w}
            Of(w) == {k \in K : g[k].window = w}
<1>9. /\ \A k \in K : b[k] \in Event /\ g[k] = Manifest[b[k]]
      /\ \A i, j \in K : b[i] = b[j] => i = j
      /\ \A e \in Event : \E k \in K : b[k] = e
  BY <1>1, <1>4, <1>6
<1>10. IsFiniteSet(K) /\ IsFiniteSet(Event)
  BY ParsedFinite, BaselineAssumption
<1>11. DOMAIN g = K
  OBVIOUS
<1>. HIDE DEF K, g, b
<1>12. ASSUME NEW w PROVE {b[k] : k \in Of(w)} = In(w)
  BY <1>9
<1>13. ASSUME NEW w
       PROVE  /\ Cardinality(Of(w)) = Cardinality(In(w))
              /\ MapThenSumSet(LAMBDA k : g[k].amount, Of(w))
                   = MapThenSumSet(LAMBDA k : Manifest[k].amount, In(w))
  <2>. DEFINE S == Of(w)
              T == In(w)
              f == [k \in K |-> g[k].amount]
              e == [x \in Event |-> Manifest[x].amount]
              c == [k \in S |-> b[k]]
  <2>1. S \in SUBSET K /\ T \in SUBSET Event
    OBVIOUS
  <2>2. IsFiniteSet(S) /\ IsFiniteSet(T)
    BY <1>10, <2>1, FS_Subset
  <2>3. {b[k] : k \in S} = T
    BY <1>12
  <2>4. /\ \A k \in S : f[k] = g[k].amount /\ f[k] \in Int /\ e[b[k]] = f[k]
        /\ \A x \in T : e[x] = Manifest[x].amount
    BY <1>9, <2>1, BaselineAssumption
  <2>5. \A x, y \in S : b[x] = b[y] => x = y
    BY <1>9, <2>1
  <2>. HIDE DEF S, T, f, e
  <2>6. Cardinality(S) = Cardinality(T)
    <3>1. c \in Bijection(S, T)
      BY <2>3, <2>5 DEF Bijection, Injection, Surjection, IsInjective
    <3>. HIDE DEF c
    <3>. QED
      BY <2>2, <3>1, FS_Bijection DEF ExistsBijection
  <2>7. Total(f, S) = Total(e, T)
    BY <2>2, <2>3, <2>4, <2>5, TotalMoved
  <2>8. MapThenSumSet(LAMBDA k : g[k].amount, S) = Total(f, S)
    BY <2>2, <2>4, AmountsTotal
  <2>9. MapThenSumSet(LAMBDA k : Manifest[k].amount, T) = Total(e, T)
    BY <2>2, <2>4, AmountsTotal
  <2>. QED
    BY <2>6, <2>7, <2>8, <2>9 DEF S, T
<1>14. {g[k].window : k \in K} = {Manifest[e].window : e \in Event}
  BY <1>9
<1>15. ByWindow(g) = ByWindow(Manifest)
  <2>1. ByWindow(g) = [w \in {g[k].window : k \in K} |->
                         [count |-> Cardinality(Of(w)),
                          sum   |-> MapThenSumSet(LAMBDA k : g[k].amount, Of(w))]]
    BY <1>11 DEF ByWindow
  <2>2. ByWindow(Manifest) = [w \in {Manifest[e].window : e \in Event} |->
                         [count |-> Cardinality(In(w)),
                          sum   |-> MapThenSumSet(LAMBDA k : Manifest[k].amount, In(w))]]
    BY DEF ByWindow, Event
  <2>. DEFINE n(w) == Cardinality(Of(w))
              m(w) == Cardinality(In(w))
              s(w) == MapThenSumSet(LAMBDA k : g[k].amount, Of(w))
              t(w) == MapThenSumSet(LAMBDA k : Manifest[k].amount, In(w))
  <2>3. \A w : n(w) = m(w) /\ s(w) = t(w)
    BY <1>13
  <2>4. /\ ByWindow(g) = [w \in {g[k].window : k \in K} |-> [count |-> n(w), sum |-> s(w)]]
        /\ ByWindow(Manifest) = [w \in {Manifest[e].window : e \in Event} |-> [count |-> m(w), sum |-> t(w)]]
    BY <2>1, <2>2
  <2>. HIDE DEF n, m, s, t
  <2>. QED
    BY <1>14, <2>3, <2>4
<1>16. CompareWindows(ByWindow(Manifest), ByWindow(g)) = {}
  <2>. DEFINE x == ByWindow(Manifest)
  <2>. HIDE DEF x
  <2>1. CompareWindows(x, x) = {}
    BY DEF CompareWindows
  <2>. QED
    BY <1>15, <2>1 DEF x
<1>17. report.windows = {}
  <2>1. g = [k \in Parsed |-> sink[k].fields]
    BY <1>2 DEF g, K
  <2>2. CompareWindows(ByWindow(Manifest), ByWindow([k \in Parsed |-> sink[k].fields])) = {}
    BY <1>16, <2>1
  <2>. QED
    BY <2>2, ReportIs
<1>. QED
  BY <1>5, <1>7, <1>8, <1>17

\* No two faults hide each other.
LEMMA OkIs ==
  ASSUME sink \in Seq(Line), NEW o \in Int
  PROVE  Ok(Verify(Manifest, sink, o)) <=> Perfect /\ o \in {NoOffset, Cardinality(Event)}
<1>. DEFINE report == Verify(Manifest, sink, o)
<1>0. report.offsetGap = IF o = NoOffset THEN 0 ELSE o - Cardinality(Seen)
  BY ReportIs
<1>. HIDE DEF report
<1>1. Cardinality(Event) \in Nat
  BY BaselineAssumption, FS_CardinalityType
<1>2. ASSUME Perfect PROVE /\ report.duplicates = {} /\ report.missing = {} /\ report.corrupted = {}
                           /\ report.unexpected = {} /\ report.windows = {} /\ Seen = Event
  BY <1>2, PerfectIsClean DEF report
<1>3. ASSUME Ok(report) PROVE Perfect
  BY <1>3, CleanIsPerfect DEF Ok, report
<1>4. ASSUME Perfect PROVE Ok(report) <=> o \in {NoOffset, Cardinality(Event)}
  BY <1>0, <1>1, <1>2, <1>4 DEF Ok
<1>. QED
  BY <1>3, <1>4 DEF report

(* The consumers.                                                          *)

Progress == [offset : Nat, committed : Nat, batches : Nat, crashed : BOOLEAN]
HarnessTypes ==
  /\ arrivals \in Seq(Event) /\ \A e \in Event : \E j \in DOMAIN arrivals : arrivals[j] = e
  /\ consumer \in {"at_least_once", "at_most_once", "transactional"}
  /\ progress \in Progress /\ progress.committed = progress.offset /\ progress.offset <= Size
  /\ sink \in Seq(Line) /\ tampers \in 0..MaxTampers

\* A report that is there is one of the sink as it is.
AuditInv ==
  \/ audit = NotVerified
  \/ /\ Consumed
     /\ \E o \in {NoOffset, progress.committed} :
          audit = [offset |-> o, report |-> Verify(Manifest, sink, o)]

\* What is in the sink before anybody tampers with it.
From(k, j) == sink[k] = Row(arrivals[j])
WroteFirst ==
  /\ \A j \in 1..progress.offset : \E k \in DOMAIN sink : From(k, j)
  /\ ~progress.crashed => Len(sink) = progress.offset /\ \A k \in DOMAIN sink : From(k, k)
  /\ progress.crashed =>
       \/ \E i, j \in DOMAIN sink : i # j /\ sink[i] = sink[j]
       \/ progress.offset < Size /\ \E k \in DOMAIN sink : From(k, progress.offset + 1)
CommittedFirst ==
  \E c, d \in 0..progress.offset :
    /\ c <= d /\ (progress.crashed <=> c < d) /\ Len(sink) + d = c + progress.offset
    /\ \A k \in DOMAIN sink : IF k <= c THEN From(k, k) ELSE From(k, (k + d) - c)
WroteTogether ==
  /\ \A j \in 1..progress.offset : \E k \in DOMAIN sink : From(k, j)
  /\ \A k \in DOMAIN sink : \E j \in 1..progress.offset : From(k, j)
  /\ \A i, j \in DOMAIN sink : sink[i] = sink[j] => i = j
SinkInv ==
  tampers = 0 =>
    /\ \A k \in DOMAIN sink : \E j \in DOMAIN arrivals : From(k, j)
    /\ consumer = "at_least_once" => WroteFirst
    /\ consumer = "at_most_once"  => CommittedFirst
    /\ consumer = "transactional" => WroteTogether

HarnessInv == HarnessTypes /\ AuditInv /\ SinkInv

-----------------------------------------------------------------------------
\* A batch: the next events, at least one.
LEMMA BatchIs ==
  ASSUME HarnessTypes, progress.offset < Size
  PROVE  /\ NextBatch \in Seq(Event) /\ Len(NextBatch) \in Nat \ {0}
         /\ DOMAIN NextBatch = 1..Len(NextBatch)
         /\ After = progress.offset + Len(NextBatch) /\ After \in Nat /\ After <= Size
         /\ \A i \in 1..Len(NextBatch) : /\ progress.offset + i \in DOMAIN arrivals
                                         /\ NextBatch[i] = arrivals[progress.offset + i]
<1>. DEFINE o == progress.offset
            m == Min({o + Batch, Size})
<1>1. /\ o \in Nat /\ Size \in Nat /\ o < Size /\ Batch \in Nat \ {0} /\ DOMAIN arrivals = 1..Size
      /\ arrivals \in Seq(Event) /\ Size = Len(arrivals)
  BY BaselineAssumption DEF HarnessTypes, Progress, Size
<1>2. m \in {o + Batch, Size} /\ \A y \in {o + Batch, Size} : m <= y
  <2>. DEFINE S == {o + Batch, Size}
  <2>1. IsFiniteSet(S)
    <3>1. S = {o + Batch} \cup {Size} /\ IsFiniteSet({o + Batch})
      BY FS_Singleton
    <3>. HIDE DEF S
    <3>. QED
      BY <3>1, FS_AddElement
  <2>2. S \in SUBSET Int /\ S # {}
    BY <1>1
  <2>. HIDE DEF S
  <2>. QED
    BY <2>1, <2>2, MinIs DEF S
<1>3. m \in Nat /\ o < m /\ m <= Size
  BY <1>1, <1>2
<1>4. NextBatch = SubSeq(arrivals, o + 1, m)
  BY DEF NextBatch
<1>. HIDE DEF o, m
<1>5. /\ NextBatch \in Seq(Event) /\ Len(NextBatch) = m - o
      /\ \A i \in 1..(m - o) : NextBatch[i] = arrivals[o + i]
  <2>1. o + 1 \in 1..Len(arrivals) /\ m \in 1..Len(arrivals) /\ o + 1 <= m /\ (m - (o + 1)) + 1 = m - o
    BY <1>1, <1>3
  <2>2. NextBatch \in Seq(Event)
    BY <1>1, <1>4, <2>1, SubSeqProperties
  <2>3. Len(NextBatch) = m - o
    BY <1>1, <1>3, <1>4
  <2>4. ASSUME NEW i \in 1..(m - o) PROVE NextBatch[i] = arrivals[o + i]
    BY <1>1, <1>3, <1>4
  <2>. QED
    BY <2>2, <2>3, <2>4
<1>. QED
  BY <1>1, <1>3, <1>5 DEF o, After

\* Rows that are appended follow those that were there.
LEMMA AppendedAre ==
  ASSUME sink \in Seq(Line), NEW b \in Seq(Event), NEW to, to = sink \o RowsOf(b)
  PROVE  /\ to \in Seq(Line) /\ Len(to) = Len(sink) + Len(b)
         /\ DOMAIN to = 1..Len(to) /\ Len(sink) \in Nat /\ Len(b) \in Nat
         /\ \A k \in DOMAIN sink : k \in DOMAIN to /\ to[k] = sink[k]
         /\ \A i \in 1..Len(b) : Len(sink) + i \in DOMAIN to /\ to[Len(sink) + i] = Row(b[i])
         /\ \A k \in DOMAIN to : k \in DOMAIN sink \/ \E i \in 1..Len(b) : k = Len(sink) + i
<1>. DEFINE r == RowsOf(b)
            n == Len(sink)
            m == Len(b)
<1>1. n \in Nat /\ m \in Nat /\ DOMAIN sink = 1..n /\ DOMAIN b = 1..m /\ \A i \in 1..m : b[i] \in Event
  OBVIOUS
<1>2. r \in [1..m -> Line] /\ \A i \in 1..m : r[i] = Row(b[i])
  BY <1>1, RowIs DEF RowsOf
<1>3. r \in Seq(Line) /\ Len(r) = m
  BY <1>1, <1>2, FunctionIsSeq
<1>4. to = sink \o r
  OBVIOUS
<1>. HIDE DEF r
<1>5. to \in Seq(Line) /\ Len(to) = n + m
  <2>1. sink \o r \in Seq(Line)
    BY <1>3
  <2>2. Len(sink \o r) = Len(sink) + Len(r)
    <3>1. \A s, t \in Seq(Line) : Len(s \o t) = Len(s) + Len(t)
      BY ConcatProperties
    <3>2. sink \in Seq(Line) /\ r \in Seq(Line)
      BY <1>3
    <3>. QED
      BY ONLY <3>1, <3>2
  <2>. QED
    BY <1>3, <1>4, <2>1, <2>2
<1>6. \A k \in 1..n : to[k] = sink[k]
  BY <1>3, <1>4
<1>7. \A k \in 1..m : to[n + k] = r[k]
  BY <1>3, <1>4
<1>8. DOMAIN to = 1..(n + m)
  BY <1>5
<1>. HIDE DEF n, m
<1>9. ASSUME NEW k \in 1..n PROVE k \in 1..(n + m) /\ to[k] = sink[k]
  BY <1>1, <1>6
<1>10. ASSUME NEW i \in 1..m PROVE n + i \in 1..(n + m) /\ to[n + i] = Row(b[i])
  <2>1. to[n + i] = r[i] /\ r[i] = Row(b[i])
    BY <1>2, <1>7
  <2>. QED
    BY <1>1, <2>1
<1>11. ASSUME NEW k \in 1..(n + m) PROVE k \in 1..n \/ \E i \in 1..m : k = n + i
  <2>1. k > n => k - n \in 1..m /\ k = n + (k - n)
    BY <1>1
  <2>. QED
    BY <1>1, <2>1
<1>. QED
  BY <1>1, <1>5, <1>8, <1>9, <1>10, <1>11 DEF n, m

\* A consumer that goes on has not been verified.
LEMMA Consuming ==
  ASSUME HarnessInv, UNCHANGED <<arrivals, consumer, tampers, audit>>, progress.offset < Size,
         progress' \in Progress, progress'.committed = progress'.offset,
         progress'.offset <= Size, sink' \in Seq(Line)
  PROVE  HarnessTypes' /\ AuditInv'
<1>1. arrivals' = arrivals /\ consumer' = consumer /\ tampers' = tampers /\ audit' = audit /\ Size' = Size
  BY DEF Size
<1>2. HarnessTypes'
  BY <1>1 DEF HarnessInv, HarnessTypes
<1>3. progress.offset \in Nat /\ Size \in Nat
  BY DEF HarnessInv, HarnessTypes, Progress, Size
<1>4. audit = NotVerified
  BY <1>3 DEF HarnessInv, AuditInv, Consumed
<1>. QED
  BY <1>1, <1>2, <1>4 DEF AuditInv, NotVerified

\* What a step of a consumer makes of its progress.
LEMMA ProceedIs ==
  ASSUME HarnessTypes, progress.offset < Size, NEW o \in {progress.offset, After}, NEW crashed \in BOOLEAN,
         Proceed(o, o, crashed)
  PROVE  /\ progress' \in Progress /\ progress'.offset = o /\ progress'.committed = o /\ o <= Size
         /\ (progress'.crashed <=> progress.crashed \/ crashed)
<1>1. o \in Nat /\ o <= Size
  BY BatchIs DEF HarnessTypes, Progress, Size
<1>2. progress \in Progress
  BY DEF HarnessTypes
<1>3. progress' = [offset |-> o, committed |-> o, batches |-> progress.batches + 1,
                   crashed |-> progress.crashed \/ crashed]
  BY DEF Proceed
<1>4. progress.batches + 1 \in Nat /\ (progress.crashed \/ crashed) \in BOOLEAN
  BY <1>2 DEF Progress
<1>. QED
  BY <1>1, <1>3, <1>4 DEF Progress

\* A consumer that writes first, killed or not.
LEMMA WriteFirstKeeps ==
  ASSUME HarnessInv, WriteFirst
  PROVE  HarnessInv'
<1>. DEFINE o == progress.offset
            n == Len(sink)
            m == Len(NextBatch)
<1>0. HarnessTypes /\ o < Size /\ consumer = "at_least_once"
  BY DEF HarnessInv, WriteFirst, Consumes
<1>1. /\ NextBatch \in Seq(Event) /\ m \in Nat \ {0} /\ After = o + m /\ After \in Nat /\ After <= Size
      /\ \A i \in 1..m : /\ o + i \in DOMAIN arrivals
                         /\ NextBatch[i] = arrivals[o + i]
  BY <1>0, BatchIs
<1>2. sink' = sink \o RowsOf(NextBatch) /\ sink \in Seq(Line)
  BY <1>0 DEF WriteFirst, HarnessTypes
<1>3. /\ sink' \in Seq(Line) /\ Len(sink') = n + m /\ DOMAIN sink' = 1..(n + m) /\ n \in Nat
      /\ \A k \in DOMAIN sink : k \in DOMAIN sink' /\ sink'[k] = sink[k]
      /\ \A i \in 1..m : n + i \in DOMAIN sink' /\ sink'[n + i] = Row(NextBatch[i])
      /\ \A k \in DOMAIN sink' : k \in DOMAIN sink \/ \E i \in 1..m : k = n + i
  BY <1>1, <1>2, AppendedAre
<1>4. /\ arrivals' = arrivals /\ consumer' = consumer /\ tampers' = tampers /\ audit' = audit
      /\ o \in Nat /\ Size \in Nat /\ progress.committed = o /\ progress.crashed \in BOOLEAN
      /\ Size' = Size /\ DOMAIN sink = 1..n /\ DOMAIN arrivals = 1..Size
  BY <1>0, <1>2 DEF WriteFirst, Proceed, HarnessTypes, Progress, Size
<1>5. /\ progress' \in Progress /\ progress'.committed = progress'.offset /\ progress'.offset <= Size
      /\ \/ ~progress.crashed /\ progress'.crashed /\ progress'.offset = o
         \/ (progress'.crashed <=> progress.crashed) /\ progress'.offset = o + m
  <2>1. CASE Killed
    <3>1. Proceed(o, o, TRUE)
      BY <1>4, <2>1 DEF WriteFirst
    <3>2. /\ progress' \in Progress /\ progress'.offset = o /\ progress'.committed = o /\ o <= Size
          /\ (progress'.crashed <=> progress.crashed \/ TRUE)
      BY <1>0, <3>1, ProceedIs
    <3>3. ~progress.crashed
      BY <2>1 DEF Killed
    <3>. QED
      BY <3>2, <3>3
  <2>2. CASE ~Killed
    <3>1. Proceed(After, After, FALSE)
      BY <2>2 DEF WriteFirst
    <3>. QED
      BY <1>0, <1>1, <3>1, ProceedIs
  <2>. QED
    BY <2>1, <2>2
<1>6. HarnessTypes' /\ AuditInv'
  BY <1>0, <1>3, <1>4, <1>5, Consuming
<1>7. ASSUME tampers = 0
      PROVE  /\ \A k \in DOMAIN sink' : \E j \in DOMAIN arrivals : sink'[k] = Row(arrivals[j])
             /\ WroteFirst'
  <2>0. /\ \A k \in DOMAIN sink : \E j \in DOMAIN arrivals : From(k, j)
        /\ WroteFirst
    BY <1>0, <1>7 DEF HarnessInv, SinkInv
  <2>1. \A i \in 1..m : o + i \in DOMAIN arrivals /\ sink'[n + i] = Row(arrivals[o + i])
    BY <1>1, <1>3
  <2>. HIDE DEF o, n, m
  <2>2. \A k \in DOMAIN sink' : \E j \in DOMAIN arrivals : sink'[k] = Row(arrivals[j])
    BY <1>3, <2>0, <2>1 DEF From
  <2>3. ASSUME NEW j \in 1..progress'.offset PROVE \E k \in DOMAIN sink' : sink'[k] = Row(arrivals[j])
    <3>1. CASE j \in 1..o
      BY <1>3, <2>0, <3>1 DEF From, WroteFirst, o
    <3>2. CASE j \notin 1..o
      <4>1. j - o \in 1..m /\ o + (j - o) = j
        BY <1>1, <1>4, <1>5, <3>2 DEF Progress
      <4>2. n + (j - o) \in DOMAIN sink' /\ sink'[n + (j - o)] = Row(arrivals[j])
        BY <1>3, <2>1, <4>1
      <4>. QED
        BY <4>2
    <3>. QED
      BY <3>1, <3>2
  <2>4. ASSUME ~progress'.crashed
        PROVE  Len(sink') = progress'.offset /\ \A k \in DOMAIN sink' : sink'[k] = Row(arrivals[k])
    <3>1. ~progress.crashed /\ progress'.offset = o + m
      BY <1>5, <2>4
    <3>2. n = o /\ \A k \in DOMAIN sink : From(k, k)
      BY <2>0, <3>1 DEF WroteFirst, o, n
    <3>. QED
      BY <1>3, <2>1, <3>1, <3>2 DEF From
  <2>5. ASSUME progress'.crashed
        PROVE  \/ \E i, j \in DOMAIN sink' : i # j /\ sink'[i] = sink'[j]
               \/ progress'.offset < Size /\ \E k \in DOMAIN sink' : sink'[k] = Row(arrivals[progress'.offset + 1])
    <3>0. 1 \in 1..m
      BY <1>1
    <3>1. n + 1 \in DOMAIN sink' /\ sink'[n + 1] = Row(arrivals[o + 1])
      BY <1>3, <2>1, <3>0
    <3>2. CASE ~progress.crashed /\ progress'.offset = o
      BY <1>0, <3>1, <3>2 DEF o
    <3>3. CASE progress.crashed
      <4>1. ASSUME NEW i \in DOMAIN sink, NEW j \in DOMAIN sink, i # j, sink[i] = sink[j]
            PROVE  \E x, y \in DOMAIN sink' : x # y /\ sink'[x] = sink'[y]
        BY <1>3, <4>1
      <4>2. ASSUME NEW k \in DOMAIN sink, From(k, o + 1)
            PROVE  \E x, y \in DOMAIN sink' : x # y /\ sink'[x] = sink'[y]
        <5>1. k \in DOMAIN sink' /\ sink'[k] = Row(arrivals[o + 1]) /\ k # n + 1
          BY <1>3, <1>4, <4>2 DEF From
        <5>. QED
          BY <3>1, <5>1
      <4>. QED
        BY <2>0, <3>3, <4>1, <4>2 DEF WroteFirst, o
    <3>. QED
      BY <1>5, <2>5, <3>2, <3>3
  <2>. QED
    BY <1>4, <2>2, <2>3, <2>4, <2>5 DEF WroteFirst, From
<1>. QED
  BY <1>0, <1>4, <1>6, <1>7 DEF HarnessInv, SinkInv, From

\* A consumer that commits first, killed or not.
LEMMA CommitFirstKeeps ==
  ASSUME HarnessInv, CommitFirst
  PROVE  HarnessInv'
<1>. DEFINE o == progress.offset
            n == Len(sink)
            m == Len(NextBatch)
<1>0. HarnessTypes /\ o < Size /\ consumer = "at_most_once"
  BY DEF HarnessInv, CommitFirst, Consumes
<1>1. /\ NextBatch \in Seq(Event) /\ m \in Nat \ {0} /\ After = o + m /\ After \in Nat /\ After <= Size
      /\ \A i \in 1..m : /\ o + i \in DOMAIN arrivals
                         /\ NextBatch[i] = arrivals[o + i]
  BY <1>0, BatchIs
<1>2. sink \in Seq(Line)
  BY <1>0 DEF HarnessTypes
<1>3. /\ arrivals' = arrivals /\ consumer' = consumer /\ tampers' = tampers /\ audit' = audit
      /\ o \in Nat /\ Size \in Nat /\ progress.committed = o /\ progress.crashed \in BOOLEAN
      /\ Size' = Size /\ n \in Nat /\ DOMAIN sink = 1..n /\ DOMAIN arrivals = 1..Size
  BY <1>0, <1>2 DEF CommitFirst, Proceed, HarnessTypes, Progress, Size
<1>4. /\ progress' \in Progress /\ progress'.committed = progress'.offset /\ progress'.offset <= Size
      /\ (progress'.crashed <=> progress.crashed \/ Killed) /\ progress'.offset = o + m
  <2>1. Proceed(After, After, Killed) /\ Killed \in BOOLEAN
    BY DEF CommitFirst, Killed
  <2>. HIDE DEF Killed
  <2>. QED
    BY <1>0, <1>1, <2>1, ProceedIs
<1>5. ASSUME ~Killed
      PROVE  /\ sink' \in Seq(Line) /\ Len(sink') = n + m /\ DOMAIN sink' = 1..(n + m)
             /\ \A k \in DOMAIN sink : k \in DOMAIN sink' /\ sink'[k] = sink[k]
             /\ \A i \in 1..m : n + i \in DOMAIN sink' /\ sink'[n + i] = Row(NextBatch[i])
             /\ \A k \in DOMAIN sink' : k \in DOMAIN sink \/ \E i \in 1..m : k = n + i
  <2>1. sink' = sink \o RowsOf(NextBatch)
    BY <1>5 DEF CommitFirst
  <2>. QED
    BY <1>1, <1>2, <2>1, AppendedAre
<1>6. Killed => ~progress.crashed /\ sink' = sink
  BY DEF CommitFirst, Killed
<1>7. HarnessTypes' /\ AuditInv'
  BY <1>0, <1>2, <1>3, <1>4, <1>5, <1>6, Consuming
<1>8. ASSUME tampers = 0
      PROVE  /\ \A k \in DOMAIN sink' : \E j \in DOMAIN arrivals : sink'[k] = Row(arrivals[j])
             /\ CommittedFirst'
  <2>0. /\ \A k \in DOMAIN sink : \E j \in DOMAIN arrivals : From(k, j)
        /\ CommittedFirst
    BY <1>0, <1>8 DEF HarnessInv, SinkInv
  <2>1. PICK c \in 0..o, d \in 0..o :
          /\ c <= d /\ (progress.crashed <=> c < d) /\ n + d = c + o
          /\ \A k \in DOMAIN sink : IF k <= c THEN From(k, k) ELSE From(k, (k + d) - c)
    BY <2>0 DEF CommittedFirst
  <2>. HIDE DEF Killed, o, n, m
  <2>2. CASE Killed
    <3>1. c = d /\ n = o
      BY <1>3, <1>6, <2>1, <2>2
    <3>2. \A k \in DOMAIN sink : k <= o /\ sink[k] = Row(arrivals[k])
      <4>1. ASSUME NEW k \in 1..n PROVE k <= o /\ sink[k] = Row(arrivals[k])
        <5>1. k <= o /\ (k + d) - c = k
          BY <1>3, <2>1, <3>1
        <5>. QED
          BY <1>3, <2>1, <5>1 DEF From
      <4>. QED
        BY <1>3, <4>1
    <3>3. /\ o \in 0..progress'.offset /\ o + m \in 0..progress'.offset /\ o < o + m
          /\ progress'.crashed /\ Len(sink') + (o + m) = o + progress'.offset
      BY <1>1, <1>3, <1>4, <1>6, <2>2, <3>1 DEF n
    <3>4. \A k \in DOMAIN sink' : k <= o /\ sink'[k] = Row(arrivals'[k])
      BY <1>3, <1>6, <2>2, <3>2
    <3>5. CommittedFirst'
      <4>. DEFINE p == o + m
      <4>1. /\ o \in 0..progress'.offset /\ p \in 0..progress'.offset /\ o <= p
            /\ (progress'.crashed <=> o < p) /\ Len(sink') + p = o + progress'.offset
        BY <1>1, <1>3, <3>3
      <4>2. \A k \in DOMAIN sink' : IF k <= o THEN sink'[k] = Row(arrivals'[k])
                                               ELSE sink'[k] = Row(arrivals'[(k + p) - o])
        BY <3>4
      <4>. HIDE DEF p
      <4>. QED
        BY <4>1, <4>2 DEF CommittedFirst, From
    <3>. QED
      BY <1>6, <2>0, <2>2, <3>5 DEF From
  <2>3. CASE ~Killed
    <3>1. \A i \in 1..m : o + i \in DOMAIN arrivals /\ sink'[n + i] = Row(arrivals[o + i])
      BY <1>1, <1>5, <2>3
    <3>2. \A k \in DOMAIN sink' : \E j \in DOMAIN arrivals : sink'[k] = Row(arrivals[j])
      BY <1>5, <2>0, <2>3, <3>1 DEF From
    <3>3. c \in 0..progress'.offset /\ d \in 0..progress'.offset
      BY <1>1, <1>3, <1>4
    <3>4. (progress'.crashed <=> c < d) /\ Len(sink') + d = c + progress'.offset
      <4>1. progress'.crashed <=> progress.crashed
        BY <1>4, <2>3
      <4>2. progress.crashed <=> c < d
        BY <2>1
      <4>3. Len(sink') + d = c + progress'.offset
        <5>1. Len(sink') = n + m /\ progress'.offset = o + m /\ n \in Nat /\ m \in Nat /\ o \in Nat
          BY <1>1, <1>3, <1>4, <1>5, <2>3
        <5>2. c \in Nat /\ d \in Nat /\ n + d = c + o
          BY <1>3, <2>1
        <5>. QED
          BY ONLY <5>1, <5>2
      <4>4. progress'.crashed <=> c < d
        BY ONLY <4>1, <4>2
      <4>. QED
        BY ONLY <4>3, <4>4
    <3>5. ASSUME NEW k \in DOMAIN sink'
          PROVE  IF k <= c THEN sink'[k] = Row(arrivals'[k]) ELSE sink'[k] = Row(arrivals'[(k + d) - c])
      <4>1. CASE k \in DOMAIN sink
        BY <1>3, <1>5, <2>1, <2>3, <4>1 DEF From
      <4>2. CASE k \notin DOMAIN sink
        <5>1. PICK i \in 1..m : k = n + i
          BY <1>5, <2>3, <4>2
        <5>2. ~(k <= c) /\ (k + d) - c = o + i
          BY <1>1, <1>3, <2>1, <5>1
        <5>. QED
          BY <1>3, <3>1, <5>1, <5>2
      <4>. QED
        BY <4>1, <4>2
    <3>6. CommittedFirst'
      BY <2>1, <3>3, <3>4, <3>5 DEF CommittedFirst, From
    <3>. QED
      BY <3>2, <3>6
  <2>. QED
    BY <2>2, <2>3
<1>. QED
  BY <1>0, <1>3, <1>7, <1>8 DEF HarnessInv, SinkInv, From

\* The transactional consumer, killed or not.
LEMMA CommitTogetherKeeps ==
  ASSUME HarnessInv, CommitTogether
  PROVE  HarnessInv'
<1>. DEFINE o == progress.offset
            n == Len(sink)
            there == {sink[k].event : k \in DOMAIN sink}
            new == ToSet(NextBatch) \ there
            b == SetToSeq(new)
            m == Len(b)
<1>0. HarnessTypes /\ o < Size /\ consumer = "transactional"
  BY DEF HarnessInv, CommitTogether, Consumes
<1>1. /\ NextBatch \in Seq(Event) /\ After = o + Len(NextBatch) /\ Len(NextBatch) \in Nat
      /\ After \in Nat /\ After <= Size /\ DOMAIN NextBatch = 1..Len(NextBatch)
      /\ \A i \in 1..Len(NextBatch) : /\ o + i \in DOMAIN arrivals
                                      /\ NextBatch[i] = arrivals[o + i]
  BY <1>0, BatchIs
<1>2. sink \in Seq(Line)
  BY <1>0 DEF HarnessTypes
<1>3. /\ arrivals' = arrivals /\ consumer' = consumer /\ tampers' = tampers /\ audit' = audit
      /\ o \in Nat /\ Size \in Nat /\ progress.committed = o /\ progress.crashed \in BOOLEAN
      /\ Size' = Size /\ n \in Nat /\ DOMAIN sink = 1..n /\ DOMAIN arrivals = 1..Size
      /\ arrivals \in Seq(Event)
  BY <1>0, <1>2 DEF CommitTogether, Proceed, HarnessTypes, Progress, Size
<1>4. /\ new = {x \in {arrivals[j] : j \in (o + 1)..After} : x \notin there}
      /\ IsFiniteSet(new) /\ new \in SUBSET Event
  <2>1. ToSet(NextBatch) = {NextBatch[i] : i \in 1..Len(NextBatch)}
    BY <1>1 DEF ToSet
  <2>2. {NextBatch[i] : i \in 1..Len(NextBatch)} = {arrivals[j] : j \in (o + 1)..After}
    <3>1. ASSUME NEW i \in 1..Len(NextBatch)
          PROVE  o + i \in (o + 1)..After /\ NextBatch[i] = arrivals[o + i]
      BY <1>1, <1>3
    <3>2. ASSUME NEW j \in (o + 1)..After
          PROVE  j - o \in 1..Len(NextBatch) /\ NextBatch[j - o] = arrivals[j]
      <4>1. j - o \in 1..Len(NextBatch) /\ o + (j - o) = j
        BY <1>1, <1>3
      <4>2. NextBatch[j - o] = arrivals[o + (j - o)]
        BY <1>1, <4>1
      <4>. QED
        BY <4>1, <4>2
    <3>. HIDE DEF o
    <3>. QED
      BY <3>1, <3>2
  <2>3. new \in SUBSET Event
    BY <1>1 DEF ToSet
  <2>4. IsFiniteSet(new)
    BY <2>3, BaselineAssumption, FS_Subset
  <2>. QED
    BY <2>1, <2>2, <2>3, <2>4
<1>. HIDE DEF new
<1>5. /\ b \in Seq(Event) /\ DOMAIN b = 1..m /\ m \in Nat
      /\ \A i \in 1..m : b[i] \in new
      /\ \A i, j \in 1..m : b[i] = b[j] => i = j
      /\ \A x \in new : \E i \in 1..m : b[i] = x
  <2>1. /\ b \in Seq(new) /\ \A i, j \in DOMAIN b : b[i] = b[j] => i = j
        /\ \A x \in new : \E i \in DOMAIN b : b[i] = x
    <3>1. b \in Seq(new)
      BY <1>4, SetToSeqIs
    <3>2. \A i, j \in DOMAIN b : b[i] = b[j] => i = j
      <4>1. \A q : q = SetToSeq(new) => \A i, j \in DOMAIN q : q[i] = q[j] => i = j
        BY <1>4, SetToSeqIs, Zenon
      <4>. QED
        BY ONLY <4>1
    <3>3. \A x \in new : \E i \in DOMAIN b : b[i] = x
      <4>1. \A q : q = SetToSeq(new) => \A x \in new : \E i \in DOMAIN q : q[i] = x
        <5>. SUFFICES ASSUME NEW q, q = SetToSeq(new) PROVE \A x \in new : \E i \in DOMAIN q : q[i] = x
          OBVIOUS
        <5>1. IsFiniteSet(new)
          BY <1>4
        <5>. QED
          BY ONLY <5>1, q = SetToSeq(new), SetToSeqIs
      <4>. QED
        BY ONLY <4>1
    <3>. HIDE DEF b
    <3>. QED
      BY <3>1, <3>2, <3>3
  <2>. HIDE DEF b
  <2>2. DOMAIN b = 1..m /\ m \in Nat /\ \A i \in 1..m : b[i] \in new
    BY <2>1
  <2>3. b \in [1..m -> Event]
    BY <1>4, <2>1, <2>2
  <2>. HIDE DEF m
  <2>4. b \in Seq(Event)
    BY <2>2, <2>3, FunctionIsSeq
  <2>. QED
    BY <2>1, <2>2, <2>4
<1>6. /\ progress' \in Progress /\ progress'.committed = progress'.offset /\ progress'.offset <= Size
      /\ \/ Killed /\ progress'.offset = o
         \/ ~Killed /\ progress'.offset = After
  <2>1. CASE Killed
    <3>1. Proceed(o, o, TRUE)
      BY <1>3, <2>1 DEF CommitTogether
    <3>2. progress' \in Progress /\ progress'.offset = o /\ progress'.committed = o /\ o <= Size
      BY <1>0, <3>1, ProceedIs
    <3>. QED
      BY <2>1, <3>2
  <2>2. CASE ~Killed
    <3>1. Proceed(After, After, FALSE)
      BY <2>2 DEF CommitTogether
    <3>2. progress' \in Progress /\ progress'.offset = After /\ progress'.committed = After
      BY <1>0, <3>1, ProceedIs
    <3>. QED
      BY <1>1, <2>2, <3>2
  <2>. QED
    BY <2>1, <2>2
<1>7. Killed => sink' = sink
  BY DEF CommitTogether
<1>8. ASSUME ~Killed
      PROVE  /\ sink' \in Seq(Line) /\ DOMAIN sink' = 1..(n + m)
             /\ \A k \in DOMAIN sink : k \in DOMAIN sink' /\ sink'[k] = sink[k]
             /\ \A i \in 1..m : n + i \in DOMAIN sink' /\ sink'[n + i] = Row(b[i])
             /\ \A k \in DOMAIN sink' : k \in DOMAIN sink \/ \E i \in 1..m : k = n + i
  <2>1. sink' = sink \o RowsOf(b)
    BY <1>8 DEF CommitTogether, new
  <2>. HIDE DEF b
  <2>2. b \in Seq(Event)
    BY <1>5
  <2>3. /\ sink' \in Seq(Line) /\ Len(sink') = Len(sink) + Len(b) /\ DOMAIN sink' = 1..Len(sink')
        /\ \A k \in DOMAIN sink : k \in DOMAIN sink' /\ sink'[k] = sink[k]
        /\ \A i \in 1..Len(b) : Len(sink) + i \in DOMAIN sink' /\ sink'[Len(sink) + i] = Row(b[i])
        /\ \A k \in DOMAIN sink' : k \in DOMAIN sink \/ \E i \in 1..Len(b) : k = Len(sink) + i
    BY <1>2, <2>1, <2>2, AppendedAre
  <2>. QED
    BY <2>3
<1>. HIDE DEF o, n, b, m, there, Killed
<1>9. HarnessTypes' /\ AuditInv'
  BY <1>0, <1>2, <1>3, <1>6, <1>7, <1>8, Consuming DEF o
<1>10. ASSUME tampers = 0
       PROVE  /\ \A k \in DOMAIN sink' : \E j \in DOMAIN arrivals : sink'[k] = Row(arrivals[j])
              /\ WroteTogether'
  <2>0. /\ \A k \in DOMAIN sink : \E j \in DOMAIN arrivals : From(k, j)
        /\ WroteTogether
    BY <1>0, <1>10 DEF HarnessInv, SinkInv
  <2>1. CASE Killed
    BY <1>3, <1>6, <1>7, <2>0, <2>1 DEF WroteTogether, From, o
  <2>2. CASE ~Killed
    <3>1. progress'.offset = After /\ o <= After
      BY <1>1, <1>3, <1>6, <2>2
    <3>2. \A k \in DOMAIN sink : sink[k].event \in Event /\ sink[k] = Row(sink[k].event) /\ sink[k].event \in there
      BY <1>3, <2>0, RowIs DEF From, there
    <3>3. ASSUME NEW j \in 1..After PROVE \E k \in DOMAIN sink' : sink'[k] = Row(arrivals[j])
      <4>1. CASE j \in 1..o
        BY <1>8, <2>0, <2>2, <4>1 DEF WroteTogether, From, o
      <4>2. CASE arrivals[j] \in there
        <5>1. PICK k \in DOMAIN sink : sink[k].event = arrivals[j]
          BY <4>2 DEF there
        <5>. QED
          BY <1>8, <2>2, <3>2, <5>1
      <4>3. CASE j \notin 1..o /\ arrivals[j] \notin there
        <5>1. j \in (o + 1)..After
          BY <1>1, <1>3, <4>3
        <5>2. PICK i \in 1..m : b[i] = arrivals[j]
          BY <1>4, <1>5, <4>3, <5>1
        <5>. QED
          BY <1>8, <2>2, <5>2
      <4>. QED
        BY <4>1, <4>2, <4>3
    <3>4. ASSUME NEW k \in DOMAIN sink' PROVE \E j \in 1..After : sink'[k] = Row(arrivals[j])
      <4>1. CASE k \in DOMAIN sink
        <5>1. PICK j \in 1..o : From(k, j)
          BY <2>0, <4>1 DEF WroteTogether, o
        <5>2. j \in 1..After
          BY <1>1, <1>3, <3>1
        <5>. QED
          BY <1>8, <2>2, <4>1, <5>1, <5>2 DEF From
      <4>2. CASE k \notin DOMAIN sink
        <5>1. PICK i \in 1..m : k = n + i
          BY <1>8, <2>2, <4>2
        <5>2. PICK j \in (o + 1)..After : arrivals[j] = b[i]
          BY <1>4, <1>5
        <5>3. j \in 1..After
          BY <1>1, <1>3
        <5>. QED
          BY <1>8, <2>2, <5>1, <5>2, <5>3
      <4>. QED
        BY <4>1, <4>2
    <3>5. ASSUME NEW i \in DOMAIN sink', NEW j \in DOMAIN sink', sink'[i] = sink'[j] PROVE i = j
      <4>1. \A k \in DOMAIN sink : \A x \in 1..m : sink'[k] # sink'[n + x]
        <5>. SUFFICES ASSUME NEW k \in DOMAIN sink, NEW x \in 1..m, sink'[k] = sink'[n + x] PROVE FALSE
          OBVIOUS
        <5>1. sink[k] = Row(b[x]) /\ b[x] \in Event
          BY <1>4, <1>5, <1>8, <2>2
        <5>2. b[x] \in there
          BY <3>2, <5>1, RowIs
        <5>. QED
          BY <1>4, <1>5, <5>2
      <4>2. \A x, y \in 1..m : sink'[n + x] = sink'[n + y] => x = y
        <5>. SUFFICES ASSUME NEW x \in 1..m, NEW y \in 1..m, sink'[n + x] = sink'[n + y] PROVE x = y
          OBVIOUS
        <5>1. b[x] \in Event /\ b[y] \in Event
          BY <1>4, <1>5
        <5>2. Row(b[x]) = Row(b[y])
          BY <1>8, <2>2
        <5>3. b[x] = b[y]
          BY <5>1, <5>2, RowIs
        <5>. QED
          BY <1>5, <5>3
      <4>3. \A x, y \in DOMAIN sink : sink'[x] = sink'[y] => x = y
        BY <1>8, <2>0, <2>2 DEF WroteTogether
      <4>4. /\ i \in DOMAIN sink \/ \E x \in 1..m : i = n + x
            /\ j \in DOMAIN sink \/ \E x \in 1..m : j = n + x
        BY <1>8, <2>2
      <4>. QED
        BY <3>5, <4>1, <4>2, <4>3, <4>4
    <3>6. ASSUME NEW k \in DOMAIN sink' PROVE \E j \in DOMAIN arrivals : sink'[k] = Row(arrivals[j])
      <4>1. PICK j \in 1..After : sink'[k] = Row(arrivals[j])
        BY <3>4
      <4>2. j \in DOMAIN arrivals
        BY <1>1, <1>3
      <4>. QED
        BY <4>1, <4>2
    <3>. QED
      BY <1>3, <3>1, <3>3, <3>4, <3>5, <3>6 DEF WroteTogether, From
  <2>. QED
    BY <2>1, <2>2
<1>. QED
  BY <1>0, <1>3, <1>9, <1>10 DEF HarnessInv, SinkInv, From

\* A row with other fields is a row.
LEMMA Altering ==
  ASSUME NEW E, NEW V, NEW q \in [event : E, fields : V, checksum : V], NEW f \in V, NEW sum \in V
  PROVE  [[q EXCEPT !.fields = f] EXCEPT !.checksum = sum] \in [event : E, fields : V, checksum : V]
OBVIOUS

\* A hand changes what is in the sink, and only that.
LEMMA TamperKeeps ==
  ASSUME HarnessInv, Tamper
  PROVE  HarnessInv'
<1>1. /\ audit = NotVerified /\ tampers < MaxTampers /\ tampers' = tampers + 1
      /\ UNCHANGED <<arrivals, consumer, crashAfter, progress, audit>>
  BY DEF Tamper
<1>2. HarnessTypes /\ sink \in Seq(Line) /\ tampers \in Nat /\ MaxTampers \in Nat
  BY BaselineAssumption DEF HarnessInv, HarnessTypes
<1>3. /\ {Garbled, Undated} \subseteq Line /\ Altered \in Value
      /\ [Manifest[CHOOSE e \in Event : TRUE] EXCEPT !.payload = Altered.payload] \in Value
  BY DEF Line, Value
<1>4. [event |-> Ghost, fields |-> Altered, checksum |-> Altered] \in Line
  BY <1>3 DEF Line
<1>5. sink' \in Seq(Line)
  <2>0. \A x \in Line : Append(sink, x) \in Seq(Line)
    BY <1>2
  <2>. DEFINE G == [Manifest[CHOOSE e \in Event : TRUE] EXCEPT !.payload = Altered.payload]
  <2>1. CASE \E row \in {Garbled, Undated} : sink' = Append(sink, row)
    BY <1>3, <2>0, <2>1
  <2>2. CASE sink' = Append(sink, [event |-> Ghost, fields |-> Altered, checksum |-> Altered])
    BY <1>4, <2>0, <2>2
  <2>3. ASSUME NEW k \in DOMAIN sink, sink' = RemoveAt(sink, k) PROVE sink' \in Seq(Line)
    <3>1. k \in 1..Len(sink) /\ Len(sink) \in Nat
      BY <1>2
    <3>2. SubSeq(sink, 1, k - 1) \in Seq(Line) /\ SubSeq(sink, k + 1, Len(sink)) \in Seq(Line)
      BY <1>2, <3>1
    <3>3. \A s, t \in Seq(Line) : s \o t \in Seq(Line)
      BY ConcatProperties
    <3>. QED
      BY <2>3, <3>2, <3>3 DEF RemoveAt
  <2>4. ASSUME NEW k \in DOMAIN sink, sink' = Append(sink, sink[k]) PROVE sink' \in Seq(Line)
    BY <1>2, <2>0, <2>4
  <2>5. ASSUME NEW k \in DOMAIN sink, Parses(sink[k]), NEW f \in {Altered, G}, NEW sum \in {f, sink[k].checksum},
               sink' = [sink EXCEPT ![k].fields = f, ![k].checksum = sum]
        PROVE  sink' \in Seq(Line)
    <3>1. sink[k] \in [event : Event \cup {Ghost}, fields : Value, checksum : Value]
      BY <1>2, <2>5 DEF Line, Parses
    <3>2. f \in Value /\ sum \in Value
      BY <1>3, <2>5, <3>1
    <3>. DEFINE r == [[sink[k] EXCEPT !.fields = f] EXCEPT !.checksum = sum]
    <3>3. r \in Line
      BY <3>1, <3>2, Altering DEF Line
    <3>4. sink' = [sink EXCEPT ![k] = r]
      BY <2>5
    <3>. HIDE DEF r
    <3>. QED
      BY <1>2, <3>3, <3>4
  <2>. HIDE DEF G
  <2>6. \/ \E row \in {Garbled, Undated} : sink' = Append(sink, row)
        \/ sink' = Append(sink, [event |-> Ghost, fields |-> Altered, checksum |-> Altered])
        \/ \E k \in DOMAIN sink :
             \/ sink' = RemoveAt(sink, k)
             \/ sink' = Append(sink, sink[k])
             \/ /\ Parses(sink[k])
                /\ \E f \in {Altered, G} : \E sum \in {f, sink[k].checksum} :
                     sink' = [sink EXCEPT ![k].fields = f, ![k].checksum = sum]
    BY DEF Tamper, G
  <2>. QED
    BY <2>1, <2>2, <2>3, <2>4, <2>5, <2>6
<1>6. tampers' \in 0..MaxTampers /\ tampers' # 0
  BY <1>1, <1>2
<1>7. HarnessTypes'
  BY <1>1, <1>2, <1>5, <1>6 DEF HarnessTypes, Size
<1>. QED
  BY <1>1, <1>6, <1>7 DEF HarnessInv, AuditInv, NotVerified, SinkInv

\* A verdict is of the sink as it is.
LEMMA VerifySinkKeeps ==
  ASSUME HarnessInv, VerifySink
  PROVE  HarnessInv'
<1>1. /\ Consumed /\ UNCHANGED <<arrivals, consumer, crashAfter, progress, sink, tampers>>
      /\ \E o \in {NoOffset, progress.committed} :
           audit' = [offset |-> o, report |-> Verify(Manifest, sink, o)]
  BY DEF VerifySink
<1>2. HarnessTypes' /\ SinkInv'
  BY <1>1 DEF HarnessInv, HarnessTypes, Size, SinkInv, From, WroteFirst, CommittedFirst, WroteTogether
<1>3. AuditInv'
  BY <1>1 DEF AuditInv, Consumed, Size
<1>. QED
  BY <1>2, <1>3 DEF HarnessInv

\* Every event arrives, once or twice.
LEMMA HarnessBegins ==
  ASSUME BaselineInit
  PROVE  HarnessInv
<1>1. PICK again \in Redelivered : arrivals = Redeliver(SetToSeq(Event), again)
  BY DEF BaselineInit
<1>. DEFINE order == SetToSeq(Event)
            n == Len(order)
            seqs == [k \in DOMAIN order |->
                       IF order[k] \in again THEN <<order[k], order[k]>> ELSE <<order[k]>>]
<1>2. order \in Seq(Event) /\ \A x \in Event : \E k \in DOMAIN order : order[k] = x
  BY BaselineAssumption, SetToSeqIs
<1>3. arrivals = FlattenSeq(seqs)
  BY <1>1 DEF Redeliver
<1>. HIDE DEF order
<1>4. n \in Nat /\ DOMAIN order = 1..n /\ \A k \in 1..n : order[k] \in Event
  BY <1>2
<1>5. \A k \in 1..n : /\ seqs[k] \in Seq(Event) /\ 1 \in DOMAIN seqs[k] /\ seqs[k][1] = order[k]
  <2>. SUFFICES ASSUME NEW k \in 1..n
                PROVE  seqs[k] \in Seq(Event) /\ 1 \in DOMAIN seqs[k] /\ seqs[k][1] = order[k]
    OBVIOUS
  <2>1. seqs[k] = IF order[k] \in again THEN <<order[k], order[k]>> ELSE <<order[k]>>
    BY <1>4
  <2>. DEFINE x == order[k]
  <2>2. x \in Event
    BY <1>4
  <2>. HIDE DEF x
  <2>3. /\ <<x, x>> \in Seq(Event) /\ 1 \in DOMAIN <<x, x>> /\ <<x, x>>[1] = x
        /\ <<x>> \in Seq(Event) /\ 1 \in DOMAIN <<x>> /\ <<x>>[1] = x
    BY <2>2
  <2>4. seqs[k] = <<x, x>> \/ seqs[k] = <<x>>
    BY <2>1 DEF x
  <2>. HIDE DEF seqs
  <2>. QED
    BY <2>3, <2>4 DEF x
<1>6. seqs \in [1..n -> Seq(Event)]
  BY <1>4, <1>5
<1>. HIDE DEF seqs, n
<1>7. seqs \in Seq(Seq(Event)) /\ DOMAIN seqs = 1..n
  BY <1>4, <1>6, FunctionIsSeq
<1>8. /\ arrivals \in Seq(Event)
      /\ \A k \in DOMAIN seqs : \A i \in DOMAIN seqs[k] :
           \E j \in DOMAIN arrivals : arrivals[j] = seqs[k][i]
  <2>1. arrivals \in Seq(Event)
    BY <1>3, <1>7, FlattenSeqIs
  <2>2. \A k \in DOMAIN seqs : \A i \in DOMAIN seqs[k] : \E j \in DOMAIN arrivals : arrivals[j] = seqs[k][i]
    <3>1. \A flat : flat = FlattenSeq(seqs) =>
            \A k \in DOMAIN seqs : \A i \in DOMAIN seqs[k] : \E j \in DOMAIN flat : flat[j] = seqs[k][i]
      <4>. SUFFICES ASSUME NEW flat, flat = FlattenSeq(seqs)
                    PROVE  \A k \in DOMAIN seqs : \A i \in DOMAIN seqs[k] : \E j \in DOMAIN flat : flat[j] = seqs[k][i]
        OBVIOUS
      <4>1. seqs \in Seq(Seq(Event))
        BY <1>7
      <4>. QED
        BY ONLY <4>1, flat = FlattenSeq(seqs), FlattenSeqIs
    <3>. QED
      BY ONLY <1>3, <3>1
  <2>. QED
    BY <2>1, <2>2
<1>9. \A e \in Event : \E j \in DOMAIN arrivals : arrivals[j] = e
  BY <1>2, <1>4, <1>5, <1>7, <1>8
<1>10. /\ consumer \in {"at_least_once", "at_most_once", "transactional"}
       /\ progress = [offset |-> 0, committed |-> 0, batches |-> 0, crashed |-> FALSE]
       /\ sink = <<>> /\ tampers = 0 /\ audit = NotVerified
  BY DEF BaselineInit
<1>11. Size \in Nat /\ MaxTampers \in Nat
  BY <1>8, BaselineAssumption DEF Size
<1>12. HarnessTypes
  BY <1>8, <1>9, <1>10, <1>11 DEF HarnessTypes, Progress
<1>13. /\ progress.offset = 0 /\ progress.crashed = FALSE /\ Len(sink) = 0 /\ DOMAIN sink = {}
  BY <1>10
<1>14. WroteFirst /\ WroteTogether
  BY <1>13 DEF WroteFirst, WroteTogether
<1>15. CommittedFirst
  <2>1. 0 \in 0..progress.offset
    BY <1>13
  <2>. QED
    BY <1>13, <2>1 DEF CommittedFirst
<1>. QED
  BY <1>10, <1>12, <1>13, <1>14, <1>15 DEF HarnessInv, AuditInv, SinkInv

\* The broker redelivered when there are more deliveries than events.
LEMMA TwiceIs ==
  ASSUME HarnessTypes
  PROVE  /\ Cardinality(Event) \in Nat /\ Size \in Nat /\ Cardinality(Event) <= Size
         /\ Size > Cardinality(Event) <=> \E i, j \in DOMAIN arrivals : i # j /\ arrivals[i] = arrivals[j]
<1>. DEFINE n == Size
<1>1. n \in Nat /\ DOMAIN arrivals = 1..n /\ arrivals \in [1..n -> Event]
  BY DEF HarnessTypes, Size
<1>2. \A e \in Event : \E j \in 1..n : arrivals[j] = e
  BY <1>1 DEF HarnessTypes
<1>. HIDE DEF n
<1>3. arrivals \in Surjection(1..n, Event)
  BY <1>1, <1>2 DEF Surjection
<1>4. IsFiniteSet(1..n) /\ Cardinality(1..n) = n
  BY <1>1, FS_Interval
<1>5. Cardinality(Event) \in Nat
  BY BaselineAssumption, FS_CardinalityType
<1>6. Cardinality(Event) <= n /\ (Cardinality(Event) = n <=> arrivals \in Injection(1..n, Event))
  BY <1>3, <1>4, FS_Surjection
<1>7. arrivals \in Injection(1..n, Event) <=> \A i, j \in 1..n : arrivals[i] = arrivals[j] => i = j
  BY <1>1 DEF Injection, IsInjective
<1>8. Cardinality(Event) = n <=> ~(n > Cardinality(Event))
  BY <1>1, <1>5, <1>6
<1>. QED
  BY <1>1, <1>5, <1>6, <1>7, <1>8 DEF n

\* A sink nobody tampered with holds rows of events that arrived.
LEMMA UntamperedIs ==
  ASSUME HarnessInv, tampers = 0, NEW o, NEW report, report = Verify(Manifest, sink, o)
  PROVE  /\ report.corrupted = {} /\ report.unexpected = {}
         /\ report.missing = {} <=> \A e \in Event : \E k \in DOMAIN sink : sink[k] = Row(e)
         /\ report.duplicates # {} <=> \E i, j \in DOMAIN sink : i # j /\ sink[i] = sink[j]
<1>1. /\ \A k \in DOMAIN sink : \E j \in DOMAIN arrivals : From(k, j)
      /\ \A j \in DOMAIN arrivals : arrivals[j] \in Event
      /\ sink \in Seq(Line)
  BY DEF HarnessInv, HarnessTypes, SinkInv
<1>2. \A k \in DOMAIN sink : sink[k].event \in Event /\ sink[k] = Row(sink[k].event)
  BY <1>1, RowIs DEF From
<1>3. \A k \in DOMAIN sink : Parses(sink[k]) /\ Intact(Manifest, sink[k])
  <2>. SUFFICES ASSUME NEW k \in DOMAIN sink PROVE Parses(sink[k]) /\ Intact(Manifest, sink[k])
    OBVIOUS
  <2>. DEFINE e == sink[k].event
  <2>1. e \in Event /\ sink[k] = Row(e)
    BY <1>2
  <2>2. Parses(Row(e)) /\ Row(e).fields = Manifest[e] /\ Row(e).checksum = Manifest[e]
    BY <2>1, RowIs
  <2>. QED
    BY <2>1, <2>2 DEF Intact
<1>4. Parsed = DOMAIN sink /\ Known = DOMAIN sink
  BY <1>2, <1>3 DEF Parsed, Known
<1>5. /\ {sink[k].event : k \in {j \in Known : ~Intact(Manifest, sink[j])}} = {}
      /\ (Seen \ Event) \cup {"unparseable" : k \in DOMAIN sink \ Parsed} = {}
  <2>1. {j \in Known : ~Intact(Manifest, sink[j])} = {}
    BY <1>3, <1>4
  <2>2. Seen \ Event = {} /\ DOMAIN sink \ Parsed = {}
    BY <1>2, <1>4 DEF Seen
  <2>. QED
    BY <2>1, <2>2
<1>6. \A e \in Event : e \in Seen <=> \E k \in DOMAIN sink : sink[k] = Row(e)
  BY <1>2, <1>4, RowIs DEF Seen
<1>7. report.missing = Event \ Seen /\ report.corrupted = {} /\ report.unexpected = {}
  BY <1>5, ReportIs
<1>8. report.duplicates # {} <=> \E i, j \in DOMAIN sink : i # j /\ sink[i].event = sink[j].event
  BY <1>1, <1>4, DuplicatesAre
<1>9. \A i, j \in DOMAIN sink : sink[i].event = sink[j].event <=> sink[i] = sink[j]
  BY <1>2
<1>. QED
  BY <1>6, <1>7, <1>8, <1>9

\* A consumer that writes first loses nothing, and repeats records when it was
\* killed or the broker redelivered.
LEMMA WritingFirst ==
  ASSUME HarnessInv, Consumed, tampers = 0, consumer = "at_least_once",
         NEW o, NEW report, report = Verify(Manifest, sink, o)
  PROVE  report.missing = {} /\ (report.duplicates # {} <=> progress.crashed \/ Size > Cardinality(Event))
<1>1. /\ HarnessTypes /\ progress.offset = Size /\ DOMAIN arrivals = 1..Size
      /\ DOMAIN sink = 1..Len(sink) /\ progress.crashed \in BOOLEAN
      /\ \A j \in DOMAIN arrivals : arrivals[j] \in Event
      /\ \A e \in Event : \E j \in DOMAIN arrivals : arrivals[j] = e
  BY DEF HarnessInv, HarnessTypes, Progress, Consumed, Size
<1>2. WroteFirst
  BY DEF HarnessInv, SinkInv
<1>3. report.missing = {}
  BY <1>1, <1>2, UntamperedIs DEF WroteFirst, From
<1>4. ASSUME progress.crashed PROVE \E i, j \in DOMAIN sink : i # j /\ sink[i] = sink[j]
  BY <1>1, <1>2, <1>4, TwiceIs DEF WroteFirst
<1>5. ASSUME ~progress.crashed
      PROVE  (\E i, j \in DOMAIN sink : i # j /\ sink[i] = sink[j])
               <=> \E i, j \in DOMAIN arrivals : i # j /\ arrivals[i] = arrivals[j]
  <2>1. DOMAIN sink = DOMAIN arrivals /\ \A k \in DOMAIN sink : sink[k] = Row(arrivals[k])
    BY <1>1, <1>2, <1>5 DEF WroteFirst, From
  <2>2. ASSUME NEW i \in DOMAIN sink, NEW j \in DOMAIN sink
        PROVE  sink[i] = sink[j] <=> arrivals[i] = arrivals[j]
    <3>1. arrivals[i] \in Event /\ arrivals[j] \in Event
      BY <1>1, <2>1
    <3>2. Row(arrivals[i]).event = arrivals[i] /\ Row(arrivals[j]).event = arrivals[j]
      BY <3>1, RowIs
    <3>. QED
      BY <2>1, <3>2
  <2>. QED
    BY <2>1, <2>2
<1>6. report.duplicates # {} <=> \E i, j \in DOMAIN sink : i # j /\ sink[i] = sink[j]
  BY UntamperedIs
<1>. QED
  BY <1>1, <1>3, <1>4, <1>5, <1>6, TwiceIs

\* A consumer that commits first repeats nothing of its own, and loses records
\* when it was killed.
LEMMA CommittingFirst ==
  ASSUME HarnessInv, Consumed, tampers = 0, consumer = "at_most_once",
         NEW o, NEW report, report = Verify(Manifest, sink, o)
  PROVE  /\ report.missing # {} => progress.crashed
         /\ report.duplicates # {} => Size > Cardinality(Event)
         /\ ~(Size > Cardinality(Event)) => (report.missing # {} <=> progress.crashed)
<1>. DEFINE n == Len(sink)
<1>1. /\ HarnessTypes /\ progress.offset = Size /\ DOMAIN arrivals = 1..Size /\ Size \in Nat
      /\ DOMAIN sink = 1..n /\ n \in Nat
      /\ \A j \in DOMAIN arrivals : arrivals[j] \in Event
      /\ \A e \in Event : \E j \in DOMAIN arrivals : arrivals[j] = e
  BY DEF HarnessInv, HarnessTypes, Progress, Consumed, Size
<1>2. PICK c \in 0..Size, d \in 0..Size :
        /\ c <= d /\ (progress.crashed <=> c < d) /\ n + d = c + Size
        /\ \A k \in DOMAIN sink : IF k <= c THEN From(k, k) ELSE From(k, (k + d) - c)
  BY <1>1 DEF HarnessInv, SinkInv, CommittedFirst
<1>. DEFINE place == [k \in 1..n |-> IF k <= c THEN k ELSE (k + d) - c]
<1>3. \A k \in 1..n : /\ place[k] \in 1..Size /\ (place[k] <= c \/ place[k] > d)
                      /\ sink[k] = Row(arrivals[place[k]])
  <2>. SUFFICES ASSUME NEW k \in 1..n
                PROVE  /\ place[k] \in 1..Size /\ (place[k] <= c \/ place[k] > d)
                       /\ sink[k] = Row(arrivals[place[k]])
    OBVIOUS
  <2>1. CASE k <= c
    BY <1>1, <1>2, <2>1 DEF From
  <2>2. CASE ~(k <= c)
    <3>1. (k + d) - c \in 1..Size /\ (k + d) - c > d
      BY <1>1, <1>2, <2>2
    <3>2. sink[k] = Row(arrivals[(k + d) - c])
      BY <1>1, <1>2, <2>2 DEF From
    <3>. QED
      BY <2>2, <3>1, <3>2
  <2>. QED
    BY <2>1, <2>2
<1>4. \A i, j \in 1..n : place[i] = place[j] => i = j
  <2>. SUFFICES ASSUME NEW i \in 1..n, NEW j \in 1..n, place[i] = place[j] PROVE i = j
    OBVIOUS
  <2>1. /\ i \in Nat /\ j \in Nat /\ c \in Nat /\ d \in Nat /\ c <= d
        /\ (IF i <= c THEN i ELSE (i + d) - c) = (IF j <= c THEN j ELSE (j + d) - c)
    BY <1>1, <1>2
  <2>. QED
    BY ONLY <2>1
<1>5. c = d => \A k \in 1..Size : k \in 1..n /\ place[k] = k
  BY <1>1, <1>2
<1>. HIDE DEF n, place
<1>6. ASSUME c = d PROVE report.missing = {}
  <2>1. \A k \in 1..Size : k \in DOMAIN sink /\ sink[k] = Row(arrivals[k])
    BY <1>1, <1>3, <1>5, <1>6
  <2>. QED
    BY <1>1, <2>1, UntamperedIs
<1>7. ASSUME report.duplicates # {} PROVE \E i, j \in DOMAIN arrivals : i # j /\ arrivals[i] = arrivals[j]
  <2>1. PICK i \in 1..n, j \in 1..n : i # j /\ sink[i] = sink[j]
    BY <1>1, <1>7, UntamperedIs
  <2>2. /\ place[i] \in DOMAIN arrivals /\ place[j] \in DOMAIN arrivals /\ place[i] # place[j]
        /\ Row(arrivals[place[i]]) = Row(arrivals[place[j]])
    BY <1>1, <1>3, <1>4, <2>1
  <2>3. arrivals[place[i]] = arrivals[place[j]]
    BY <1>1, <2>2, RowIs
  <2>. QED
    BY <2>2, <2>3
<1>8. ASSUME c < d, \A i, j \in DOMAIN arrivals : arrivals[i] = arrivals[j] => i = j
      PROVE  report.missing # {}
  <2>1. c + 1 \in 1..Size /\ ~(c + 1 <= c) /\ ~(c + 1 > d)
    BY <1>1, <1>2, <1>8
  <2>2. ASSUME NEW k \in 1..n, sink[k] = Row(arrivals[c + 1]) PROVE FALSE
    <3>1. Row(arrivals[place[k]]) = Row(arrivals[c + 1]) /\ place[k] \in 1..Size
      BY <1>3, <2>2
    <3>2. arrivals[place[k]] = arrivals[c + 1]
      BY <1>1, <2>1, <3>1, RowIs
    <3>3. place[k] = c + 1
      BY <1>1, <1>8, <2>1, <3>1, <3>2
    <3>. QED
      BY <1>3, <2>1, <3>3
  <2>3. arrivals[c + 1] \in Event
    BY <1>1, <2>1
  <2>. QED
    BY <1>1, <2>2, <2>3, UntamperedIs
<1>9. c = d <=> ~(c < d)
  BY <1>1, <1>2
<1>10. progress.crashed <=> c < d
  BY <1>2
<1>. QED
  BY <1>1, <1>6, <1>7, <1>8, <1>9, <1>10, TwiceIs

\* The transactional consumer leaves each event once.
LEMMA CommittingTogether ==
  ASSUME HarnessInv, Consumed, tampers = 0, consumer = "transactional"
  PROVE  Perfect
<1>. DEFINE report == Verify(Manifest, sink, NoOffset)
<1>1. /\ progress.offset = Size /\ DOMAIN arrivals = 1..Size
      /\ \A e \in Event : \E j \in DOMAIN arrivals : arrivals[j] = e
      /\ sink \in Seq(Line)
  BY DEF HarnessInv, HarnessTypes, Progress, Consumed, Size
<1>2. WroteTogether
  BY DEF HarnessInv, SinkInv
<1>3. report = Verify(Manifest, sink, NoOffset)
  OBVIOUS
<1>. HIDE DEF report
<1>4. report.missing = {} /\ report.duplicates = {} /\ report.corrupted = {} /\ report.unexpected = {}
  BY <1>1, <1>2, <1>3, UntamperedIs DEF WroteTogether, From
<1>. QED
  BY <1>1, <1>3, <1>4, CleanIsPerfect

\* So every verdict is deserved.
LEMMA DeservedInHarness ==
  ASSUME HarnessInv
  PROVE  VerdictsAreDeserved
<1>. SUFFICES ASSUME audit # NotVerified PROVE VerdictsAreDeserved
  BY DEF VerdictsAreDeserved
<1>1. PICK o \in {NoOffset, progress.committed} :
        audit = [offset |-> o, report |-> Verify(Manifest, sink, o)]
  BY DEF HarnessInv, AuditInv
<1>. DEFINE report == Verify(Manifest, sink, o)
            twice == Size > Cardinality(Event)
<1>2. Consumed /\ HarnessTypes /\ sink \in Seq(Line) /\ progress.committed = Size /\ Size \in Nat
  BY DEF HarnessInv, AuditInv, HarnessTypes, Progress, Consumed, Size
<1>3. audit.offset = o /\ audit.report = report /\ o \in Int /\ NoOffset = -1
  BY <1>1, <1>2 DEF NoOffset
<1>4. Ok(report) <=> Perfect /\ o \in {NoOffset, Cardinality(Event)}
  BY <1>2, <1>3, OkIs
<1>5. report = Verify(Manifest, sink, o)
  OBVIOUS
<1>. HIDE DEF report
<1>6. tampers = 0 => report.corrupted = {} /\ report.unexpected = {}
  BY <1>5, UntamperedIs
<1>7. tampers = 0 /\ consumer = "at_least_once" =>
        report.missing = {} /\ (report.duplicates # {} <=> progress.crashed \/ twice)
  BY <1>2, <1>5, WritingFirst
<1>8. tampers = 0 /\ consumer = "at_most_once" =>
        /\ report.missing # {} => progress.crashed
        /\ report.duplicates # {} => twice
        /\ ~twice => (report.missing # {} <=> progress.crashed)
  BY <1>2, <1>5, CommittingFirst
<1>9. tampers = 0 /\ consumer = "transactional" =>
        Perfect /\ (Ok(report) <=> o = NoOffset \/ ~twice)
  <2>. SUFFICES ASSUME tampers = 0, consumer = "transactional"
                PROVE  Perfect /\ (Ok(report) <=> o = NoOffset \/ ~twice)
    OBVIOUS
  <2>1. Perfect
    BY <1>2, CommittingTogether
  <2>2. /\ Cardinality(Event) \in Nat /\ Cardinality(Event) <= Size
        /\ o = NoOffset \/ o = Size
    BY <1>1, <1>2, TwiceIs
  <2>3. o \in {NoOffset, Cardinality(Event)} <=> o = NoOffset \/ ~twice
    BY <1>2, <1>3, <2>2
  <2>. QED
    BY <1>4, <2>1, <2>3
<1>. HIDE DEF twice
<1>10. /\ Ok(audit.report) <=> Perfect /\ audit.offset \in {NoOffset, Cardinality(Event)}
       /\ tampers = 0 =>
            /\ audit.report.corrupted = {} /\ audit.report.unexpected = {}
            /\ consumer = "at_least_once" =>
                 audit.report.missing = {} /\ (audit.report.duplicates # {} <=> progress.crashed \/ twice)
            /\ consumer = "at_most_once" =>
                 (audit.report.missing # {} => progress.crashed) /\ (audit.report.duplicates # {} => twice)
            /\ consumer = "at_most_once" /\ ~twice => (audit.report.missing # {} <=> progress.crashed)
            /\ consumer = "transactional" =>
                 Perfect /\ (Ok(audit.report) <=> audit.offset = NoOffset \/ ~twice)
  BY <1>3, <1>4, <1>6, <1>7, <1>8, <1>9
<1>. QED
  BY <1>10 DEF VerdictsAreDeserved, Perfect, twice

\* Every step of the harness keeps it.
LEMMA HarnessStep == HarnessInv /\ [BaselineNext]_baselineVars => HarnessInv'
<1>. SUFFICES ASSUME HarnessInv, [BaselineNext]_baselineVars PROVE HarnessInv'
  OBVIOUS
<1>1. CASE UNCHANGED baselineVars
  BY <1>1 DEF baselineVars, HarnessInv, HarnessTypes, AuditInv, NotVerified, Consumed, Size,
              SinkInv, From, WroteFirst, CommittedFirst, WroteTogether
<1>2. CASE BaselineNext
  BY <1>2, WriteFirstKeeps, CommitFirstKeeps, CommitTogetherKeeps, TamperKeeps, VerifySinkKeeps
     DEF BaselineNext
<1>. QED
  BY <1>1, <1>2

\* The harness keeps its invariant.
THEOREM HarnessInvariance == BaselineSpec => []HarnessInv
BY HarnessBegins, HarnessStep, PTL DEF BaselineSpec


\* A sink passes exactly when it holds each event once, as generated, with the
\* right offset or none; an untampered one shows the faults of its consumer, and
\* only those, for any stream, batch size, kill and redelivery.
THEOREM VerdictsDeserved == BaselineSpec => []VerdictsAreDeserved
<1>1. HarnessInv => VerdictsAreDeserved
  BY DeservedInHarness
<1>. QED
  BY <1>1, HarnessInvariance, PTL
===============================================================================
