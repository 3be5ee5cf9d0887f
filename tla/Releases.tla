------------------------------- MODULE Releases -------------------------------
(***************************************************************************)
(* One pipeline's YAML file, its version history (core/versioning.py) and  *)
(* its deployment records: save, restore, deploy and roll back, over the   *)
(* connections an operator registers.  Handlers run one at a time on the   *)
(* API's event loop; only the file is also edited from outside.            *)
(***************************************************************************)
EXTENDS Naturals, FiniteSets, Sequences, FiniteSetsExt, SequencesExt

CONSTANTS
  Yaml,        \* texts the file may hold
  Loads,       \* those that load_config accepts
  Deployable,  \* those whose plugins load and whose graph is acyclic
  Dumped,      \* the text model_dump and safe_dump make of each
  Link,        \* deployment connections
  MaxVersions, \* bound: versions kept
  MaxReleases, \* bound: deployment records
  MaxEdits     \* bound: edits of the file from outside, and of the connections

ASSUME ReleaseAssumption ==
  /\ Deployable \subseteq Loads /\ Loads \subseteq Yaml
  /\ Dumped \in [Loads -> Loads] /\ \A y \in Loads : Dumped[Dumped[y]] = Dumped[y]
  /\ MaxVersions \in Nat /\ MaxReleases \in Nat /\ MaxEdits \in Nat

VARIABLES
  yaml,        \* what the file holds
  versions,    \* pipeline_versions, oldest first; the index is the version id
  deployments, \* the deployment records, oldest first
  links,       \* connections that exist
  checked,     \* the text the deploy handler has validated, or NotChecked
  edits        \* such edits so far

releaseVars == <<yaml, versions, deployments, links, checked, edits>>

NotChecked == [yaml |-> "none", link |-> "none", version |-> 0]
NoLink == "no connection"

-----------------------------------------------------------------------------
(* Versions: unique per pipeline and hash *)

VersionOf(text) == {v \in DOMAIN versions : versions[v] = text}

SaveVersion(text) ==
  versions' = IF VersionOf(text) = {} THEN Append(versions, text) ELSE versions

\* _version_id_for_hash
VersionForHash(text) == IF VersionOf(text) = {} THEN 0 ELSE CHOOSE v \in VersionOf(text) : TRUE

RoomFor(text) == VersionOf(text) # {} \/ Len(versions) < MaxVersions

\* The file gets the normalised dump, the history the text of the request.
SaveGeneratedPipeline(text) == yaml' = Dumped[text]

SavePipeline(text) ==
  /\ checked = NotChecked /\ text \in Loads /\ RoomFor(text)
  /\ SaveGeneratedPipeline(text)
  /\ SaveVersion(text) \/ UNCHANGED versions   \* a failed snapshot is logged
  /\ UNCHANGED <<deployments, links, checked, edits>>

RestoreVersion(v) ==
  /\ checked = NotChecked /\ versions[v] \in Loads
  /\ yaml' = versions[v]
  /\ UNCHANGED <<versions, deployments, links, checked, edits>>

EditYaml(text) ==
  /\ edits < MaxEdits /\ edits' = edits + 1
  /\ yaml # text /\ yaml' = text
  /\ UNCHANGED <<versions, deployments, links, checked>>

-----------------------------------------------------------------------------
(* Deployments.  A slot is a pipeline, profile, target and connection.     *)

Standing(slot) == {d \in DOMAIN deployments : deployments[d].link = slot /\ deployments[d].status = "deployed"}
ActiveIn(slot) == {d \in DOMAIN deployments : deployments[d].link = slot /\ deployments[d].active}

\* create_deployment: deactivate the slot's active record, insert this one.
CreateDeployment(link, version, text, status) ==
  deployments' = Append(
    [d \in DOMAIN deployments |-> IF status = "deployed" /\ d \in ActiveIn(link)
                                  THEN [deployments[d] EXCEPT !.active = FALSE] ELSE deployments[d]],
    [link |-> link, version |-> version, hash |-> text, status |-> status,
     active |-> status = "deployed", restored |-> 0])

\* A request names a connection that exists, or none.
ResolvesConnection(link) == link \in links \union {NoLink}

\* _pipeline_validation_payload loads the file ...
ValidateRelease(link, version) ==
  /\ checked = NotChecked /\ Len(deployments) < MaxReleases
  /\ yaml \in Loads /\ ResolvesConnection(link)
  /\ checked' = [yaml |-> yaml, link |-> link, version |-> version]
  /\ UNCHANGED <<yaml, versions, deployments, links, edits>>

\* ... and then reads it again as the snapshot, which is what is recorded.
\* A selected version must have the snapshot's hash.
RefuseVersion ==
  /\ checked # NotChecked /\ checked.version # 0 /\ versions[checked.version] # yaml
  /\ checked' = NotChecked
  /\ UNCHANGED <<yaml, versions, deployments, links, edits>>

RecordFailure ==
  /\ checked # NotChecked /\ checked.yaml \notin Deployable
  /\ checked.version # 0 => versions[checked.version] = yaml
  /\ CreateDeployment(checked.link, checked.version, yaml, "failed")
  /\ checked' = NotChecked
  /\ UNCHANGED <<yaml, versions, links, edits>>

\* Without a selected version the snapshot is saved; if it was saved before,
\* or cannot be, the version with its hash is looked up.
RecordDeployment ==
  /\ checked # NotChecked /\ checked.yaml \in Deployable
  /\ UNCHANGED <<yaml, links, edits>>
  /\ \/ /\ checked.version # 0 /\ versions[checked.version] = yaml
        /\ UNCHANGED versions
        /\ CreateDeployment(checked.link, checked.version, yaml, "deployed")
     \/ /\ checked.version = 0
        /\ (RoomFor(yaml) /\ SaveVersion(yaml)) \/ UNCHANGED versions
        /\ CreateDeployment(checked.link, VersionForHash(yaml)', yaml, "deployed")
  /\ checked' = NotChecked

\* Mutant of RollBack: the record rolled back still counts as deployed.
RollBackSilently(d) ==
  LET others == Standing(deployments[d].link) \ {d}
  IN  /\ checked = NotChecked
      /\ deployments[d].status = "deployed" /\ deployments[d].active
      /\ others # {}
      /\ deployments' = [deployments EXCEPT
           ![d].active = FALSE, ![d].restored = Max(others), ![Max(others)].active = TRUE]
      /\ UNCHANGED <<yaml, versions, links, checked, edits>>

\* rollback_deployment: the newest other record that is still deployed.
\* Neither the file nor the connection is looked at.
RollBack(d) ==
  LET slot == deployments[d].link
      others == Standing(slot) \ {d}
      previous == Max(others)
  IN  /\ checked = NotChecked
      /\ deployments[d].status = "deployed" /\ deployments[d].active
      /\ others # {}
      /\ deployments' = [deployments EXCEPT
           ![d].status = "rolled_back", ![d].active = FALSE, ![d].restored = previous,
           ![previous].active = TRUE]
      /\ UNCHANGED <<yaml, versions, links, checked, edits>>

\* Connections come and go without regard to the deployments on them; a patch
\* keeps the id, and whatever the status a release only gets a warning.
EditLinks ==
  /\ checked = NotChecked
  /\ edits < MaxEdits /\ edits' = edits + 1
  /\ UNCHANGED <<yaml, versions, deployments, checked>>

CreateLink(link) == EditLinks /\ link \notin links /\ links' = links \union {link}

DeleteLink(link) == EditLinks /\ link \in links /\ links' = links \ {link}

-----------------------------------------------------------------------------
ReleaseInit ==
  /\ yaml \in Loads
  /\ versions = <<>> /\ deployments = <<>> /\ links = Link
  /\ checked = NotChecked /\ edits = 0

ReleaseNext ==
  \/ \E text \in Yaml : SavePipeline(text) \/ EditYaml(text)
  \/ \E v \in DOMAIN versions : RestoreVersion(v)
  \/ \E link \in Link \union {NoLink}, v \in {0} \union DOMAIN versions : ValidateRelease(link, v)
  \/ RefuseVersion \/ RecordFailure \/ RecordDeployment
  \/ \E d \in DOMAIN deployments : RollBack(d)
  \/ \E link \in Link : CreateLink(link) \/ DeleteLink(link)

ReleaseSpec == ReleaseInit /\ [][ReleaseNext]_releaseVars

-----------------------------------------------------------------------------
(* Properties *)

\* The shape of the records.
ReleaseTypeOK ==
  /\ yaml \in Yaml /\ links \subseteq Link
  /\ \A v \in DOMAIN versions : versions[v] \in Yaml
  /\ \A d \in DOMAIN deployments :
       /\ deployments[d].status \in {"deployed", "failed", "rolled_back"}
       /\ deployments[d].version \in 0 .. Len(versions)
       /\ deployments[d].restored \in 0 .. Len(deployments)

\* However deployments, failures and rollbacks alternate, exactly one record
\* of a slot that was ever deployed to is active, and it is the newest that
\* was not rolled back: rolling back twice goes two releases back and never
\* forth again.  Its version, when it has one, is the text it was made from.
ActiveIsNewestStanding ==
  \A slot \in Link \union {NoLink} :
    /\ ActiveIn(slot) = IF Standing(slot) = {} THEN {} ELSE {Max(Standing(slot))}
    /\ \A d \in Standing(slot) : deployments[d].version # 0 =>
         versions[deployments[d].version] = deployments[d].hash
=============================================================================
