------------------------------- MODULE GitSync -------------------------------
(***************************************************************************)
(* Git integration (core/git_integration.py): one registered remote, its   *)
(* local clone, the pipelines directory, and the two families of endpoints *)
(* over the clone: push, pull and status, which bring the clone up to date *)
(* first (_ensure_clone), and the workspace editor, which must not         *)
(* (_ensure_workspace).  The handlers block the event loop, so they run    *)
(* one at a time; other people push to the remote at any moment, and any   *)
(* command that talks to it can fail.                                      *)
(***************************************************************************)
EXTENDS Naturals, Sequences, SequencesExt

CONSTANTS
  YamlFile,    \* files under pipelines_path, each named for its pipeline
  Content,     \* what a file may hold
  FirstContent,
  MaxCommits   \* bound: commits made after the first

ASSUME GitAssumption == FirstContent \in Content /\ MaxCommits \in Nat

VARIABLES
  remoteLog, \* the branch of the remote: its commits, oldest first
  clone,     \* the local clone, or NoClone
  local,     \* the pipelines/ directory
  commits,   \* commits made so far
  pushing,   \* a handler has committed and is about to push
  answer     \* what the last handler answered

gitVars == <<remoteLog, clone, local, commits, pushing, answer>>

Files == [YamlFile -> Content]
FirstCommit == [id |-> 0, files |-> [f \in YamlFile |-> FirstContent]]
NoClone == [log |-> <<>>, tree |-> <<>>, index |-> <<>>]
FreshClone(log) == [log |-> log, tree |-> Last(log).files, index |-> Last(log).files]

Checkout(c) == Last(c.log).files
CleanClone(c) == c.tree = Checkout(c) /\ c.index = Checkout(c)
CommitIndex(c) == [c EXCEPT !.log = Append(@, [id |-> commits + 1, files |-> c.index])]

\* git pull --ff-only: refused when the histories have diverged or a file it
\* would change has edits.
CanFastForward(c) ==
  \/ IsPrefix(remoteLog, c.log)
  \/ /\ IsPrefix(c.log, remoteLog)
     /\ \A f \in YamlFile : Last(remoteLog).files[f] # Checkout(c)[f]
          => c.tree[f] = Checkout(c)[f] /\ c.index[f] = Checkout(c)[f]

FastForward(c) ==
  IF IsPrefix(remoteLog, c.log) THEN c
  ELSE LET now(part) == [f \in YamlFile |-> IF part[f] = Checkout(c)[f] THEN Last(remoteLog).files[f] ELSE part[f]]
       IN  [log |-> remoteLog, tree |-> now(c.tree), index |-> now(c.index)]

\* Mutant of EnsureClone: a clone that is there is not brought up to date.
EnsureStaleClone == IF clone = NoClone THEN FreshClone(remoteLog) ELSE clone

\* _ensure_clone when the remote answers: clone, fast-forward, or throw the
\* clone's own commits and edits away.
EnsureClone ==
  CASE clone = NoClone -> FreshClone(remoteLog)
    [] clone # NoClone /\ CanFastForward(clone) -> FastForward(clone)
    [] OTHER -> FreshClone(remoteLog)

\* _ensure_workspace: clone only if there is none.
EnsureWorkspace == IF clone = NoClone THEN FreshClone(remoteLog) ELSE clone

-----------------------------------------------------------------------------
HandlerIdle == pushing = "no"
Answers(a) == answer' = a

\* Clone, fetch or push failed: the clone stays as the handler found it.
RemoteUnreachable ==
  /\ HandlerIdle /\ answer # "error" /\ Answers("error")
  /\ UNCHANGED <<remoteLog, clone, local, commits, pushing>>

\* push_pipeline, up to the commit.
WithFile(c, f) == [c EXCEPT !.tree[f] = local[f], !.index[f] = local[f]]

AlreadyUpToDate(f) ==
  /\ HandlerIdle /\ CleanClone(WithFile(EnsureClone, f))
  /\ clone' = WithFile(EnsureClone, f)
  /\ Answers("noop")
  /\ UNCHANGED <<remoteLog, local, commits, pushing>>

CommitFails(f) ==
  /\ HandlerIdle /\ ~CleanClone(WithFile(EnsureClone, f))
  /\ clone' = WithFile(EnsureClone, f)
  /\ Answers("error")
  /\ UNCHANGED <<remoteLog, local, commits, pushing>>

CommitPipeline(f) ==
  LET prepared == WithFile(EnsureClone, f)
  IN  /\ HandlerIdle /\ prepared.index # Checkout(prepared) /\ commits < MaxCommits
      /\ clone' = CommitIndex(prepared)
      /\ commits' = commits + 1
      /\ pushing' = "yes"
      /\ UNCHANGED <<remoteLog, local, answer>>

\* git push HEAD:branch is accepted only as a fast-forward.
PushAccepted ==
  /\ pushing = "yes" /\ IsPrefix(remoteLog, clone.log)
  /\ remoteLog' = clone.log
  /\ pushing' = "no"
  /\ answer' \in {"success", "error"}     \* the acknowledgement may be lost
  /\ UNCHANGED <<clone, local, commits>>

PushFails ==
  /\ pushing = "yes" /\ pushing' = "no" /\ Answers("error")
  /\ UNCHANGED <<remoteLog, clone, local, commits>>

\* pull_pipelines copies the files of the clone's working tree.
PullPipelines ==
  /\ HandlerIdle
  /\ clone' = EnsureClone
  /\ local' = EnsureClone.tree
  /\ Answers("success")
  /\ UNCHANGED <<remoteLog, commits, pushing>>

GetStatus ==
  /\ HandlerIdle
  /\ clone' = EnsureClone
  /\ Answers("success")
  /\ UNCHANGED <<remoteLog, local, commits, pushing>>

-----------------------------------------------------------------------------
(* The workspace editor *)

\* list_repo_tree and read_repo_file: the first look at a remote clones it.
ReadRepo ==
  /\ HandlerIdle
  /\ clone' = EnsureWorkspace
  /\ Answers("success")
  /\ UNCHANGED <<remoteLog, local, commits, pushing>>

\* get_repo_status and get_repo_diff: what is fetched moves no branch.
GetRepoStatus ==
  /\ HandlerIdle
  /\ clone' = EnsureWorkspace
  /\ Answers(IF CleanClone(EnsureWorkspace) THEN "clean" ELSE "changed")
  /\ UNCHANGED <<remoteLog, local, commits, pushing>>

WriteRepoFile(f, content) ==
  /\ HandlerIdle
  /\ clone' = [EnsureWorkspace EXCEPT !.tree[f] = content]
  /\ Answers("success")
  /\ UNCHANGED <<remoteLog, local, commits, pushing>>

\* Mutant of PullRepo: it brings the clone up to date as push and pull do.
PullRepoAnyway ==
  /\ HandlerIdle
  /\ clone' = EnsureClone /\ Answers("success")
  /\ UNCHANGED <<remoteLog, local, commits, pushing>>

PullRepo ==
  /\ HandlerIdle
  /\ LET found == EnsureWorkspace
     IN  \/ /\ CleanClone(found) /\ CanFastForward(found)
            /\ clone' = FastForward(found) /\ Answers("success")
         \/ clone' = found /\ Answers("error")
  /\ UNCHANGED <<remoteLog, local, commits, pushing>>

\* commit_repo_changes: the given paths, or everything; commit, and push if
\* asked to.
CommitRepoChanges(paths, push) ==
  LET found == EnsureWorkspace
      staged == [found EXCEPT
                   !.index = [f \in YamlFile |-> IF f \in paths THEN found.tree[f] ELSE @[f]]]
  IN  /\ HandlerIdle
      /\ \/ /\ staged.index = Checkout(staged)
            /\ clone' = staged /\ Answers("noop")
            /\ UNCHANGED <<commits, pushing>>
         \/ /\ staged.index # Checkout(staged) /\ commits < MaxCommits
            /\ clone' = CommitIndex(staged)
            /\ commits' = commits + 1
            /\ IF push THEN pushing' = "yes" /\ UNCHANGED answer
               ELSE Answers("success") /\ UNCHANGED pushing
      /\ UNCHANGED <<remoteLog, local>>

PushRepo ==
  /\ HandlerIdle
  /\ clone' = EnsureWorkspace
  /\ pushing' = "yes"
  /\ UNCHANGED <<remoteLog, local, commits, answer>>

WorkspaceStep ==
  \/ \E f \in YamlFile, content \in Content : WriteRepoFile(f, content)
  \/ ReadRepo \/ GetRepoStatus \/ PullRepo \/ PushRepo
  \/ \E paths \in (SUBSET YamlFile) \ {{}}, push \in BOOLEAN : CommitRepoChanges(paths, push)

DeleteRemote ==
  /\ HandlerIdle /\ clone # NoClone
  /\ clone' = NoClone
  /\ Answers("success")
  /\ UNCHANGED <<remoteLog, local, commits, pushing>>

\* The pipeline editor, and everybody else with access to the remote.
EditLocal(f, content) ==
  /\ HandlerIdle /\ local[f] # content
  /\ local' = [local EXCEPT ![f] = content]
  /\ UNCHANGED <<remoteLog, clone, commits, pushing, answer>>

OtherCommit(f, content) ==
  /\ commits < MaxCommits /\ Last(remoteLog).files[f] # content
  /\ remoteLog' = Append(remoteLog, [id |-> commits + 1, files |-> [Last(remoteLog).files EXCEPT ![f] = content]])
  /\ commits' = commits + 1
  /\ UNCHANGED <<clone, local, pushing, answer>>

-----------------------------------------------------------------------------
GitInit ==
  /\ remoteLog = <<FirstCommit>>
  /\ clone = NoClone
  /\ local = FirstCommit.files
  /\ commits = 0 /\ pushing = "no" /\ answer = "none"

GitNext ==
  \/ RemoteUnreachable
  \/ \E f \in YamlFile : AlreadyUpToDate(f) \/ CommitFails(f) \/ CommitPipeline(f)
  \/ PushAccepted \/ PushFails
  \/ PullPipelines \/ GetStatus \/ DeleteRemote
  \/ WorkspaceStep
  \/ \E f \in YamlFile, content \in Content : EditLocal(f, content) \/ OtherCommit(f, content)

GitSpec == GitInit /\ [][GitNext]_gitVars

-----------------------------------------------------------------------------
(* Properties *)

\* The shape of the clone and of the two histories.
GitTypeOK ==
  /\ \A i \in DOMAIN remoteLog : remoteLog[i].files \in Files
  /\ clone # NoClone => /\ clone.tree \in Files /\ clone.index \in Files
                        /\ \A i \in DOMAIN clone.log : clone.log[i].files \in Files
  /\ local \in Files /\ commits \in 0 .. MaxCommits

\* The workspace endpoints never lose work: a file with edits keeps them
\* until they are committed (or the user writes the file again), and a commit
\* stays in the clone.  _ensure_workspace promises it ("without overwriting
\* local workspace edits"); push, pull and status do not keep to it.
KeepsDrafts ==
  clone # NoClone =>
    /\ IsPrefix(clone.log, clone'.log)
    /\ \A f \in YamlFile : clone.tree[f] # Checkout(clone)[f] =>
         \/ clone'.tree[f] = clone.tree[f]
         \/ \E content \in Content : WriteRepoFile(f, content)

WorkspaceKeepsDrafts == [][WorkspaceStep => KeepsDrafts]_gitVars

\* "Pipeline already up to date in remote - no changes pushed" is true of the
\* remote unless the clone holds commits the remote never got: after a push
\* that failed, the same request repeated finds its commit in the clone and
\* answers so without pushing (see the README).
UpToDateMeansPushed ==
  [][\A f \in YamlFile : AlreadyUpToDate(f) /\ IsPrefix(clone'.log, remoteLog)
       => Last(remoteLog).files[f] = local[f]]_gitVars
=============================================================================
