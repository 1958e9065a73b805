------------------------------- MODULE GitPlan -------------------------------
(***************************************************************************)
(* Which files a Git-aware ingest job ingests (IngestFolderGitHandler,     *)
(* worker/ingest.rs): ask git for an enclosing repository; if there is     *)
(* none, search the tree for repositories and submodules; ingest the       *)
(* tracked files of every repository found, then walk the rest of the tree *)
(* around them.  A job that fails is claimed again and starts over.        *)
(*                                                                         *)
(* A directory is its path below the requested root, a sequence of names.  *)
(* Every directory holds a tracked text file, a tracked file of a denied   *)
(* type and a file that git does not track.                                *)
(***************************************************************************)
EXTENDS Naturals, FiniteSets, Sequences, SequencesExt

CONSTANTS
  Dirs,          \* the directories, <<>> (the requested root) among them
  HiddenNames,   \* names that begin with a dot
  MaxFailing,    \* bound: things that are out of order at a time
  MaxJobs        \* bound: times the job is claimed

Root  == <<>>
Above == <<"..">>   \* a directory above the requested root
GitProgram == <<"..", "git">>   \* the executable, found somewhere else

ASSUME TreeAssumption ==
  /\ Dirs \subseteq Seq(STRING)
  /\ Root \in Dirs /\ Above \notin Dirs
  /\ \A d \in Dirs : d # Root => Front(d) \in Dirs

\* What a directory's .git entry is: none, a directory without HEAD, one with
\* HEAD, a file pointing to a worktree or into .git/modules, or an invalid file.
Markers == {"none", "headless", "repo", "worktree", "submodule", "invalid"}
Kinds == {"tracked", "denied", "untracked"}
TreeFiles == Dirs \X Kinds

VARIABLES
  marker,     \* the tree: directory -> marker
  above,      \* a repository encloses the requested root from above
  failing,    \* directories that cannot be read or used with git, and git itself
  gpc,        \* idle, ask, discover, repos, walk, done or failed
  jobRuns,    \* how often the job was claimed
  work,       \* the stack of the search
  repoRoots,  \* repositories still to ingest
  fallback,   \* fallback_root is set
  skipped,    \* skipped_walk_roots
  ingested,   \* <<file, route>> handed to the upsert; a route is a repository or Root
  misjudged   \* history: git failed where an enclosing repository exists

gitVars == <<marker, above, failing, gpc, jobRuns, work, repoRoots, fallback, skipped,
             ingested, misjudged>>
gitTree == <<marker, above>>

Children(d) == {e \in Dirs : e # Root /\ Front(e) = d}
Hidden(d) == \E i \in DOMAIN d : d[i] \in HiddenNames
Encloses(r, d) == r = Above \/ IsPrefix(r, d)

-----------------------------------------------------------------------------
(* git: which repository a directory belongs to.                            *)

GitRepo(d) == marker[d] \in {"repo", "worktree", "submodule"}

\* The repositories around d, and the directories whose files r's index may hold:
\* those with no other repository between.
ReposAround(d) == {r \in Dirs : GitRepo(r) /\ Encloses(r, d)} \cup (IF above THEN {Above} ELSE {})
TrackedDirs(r) == {d \in Dirs : /\ Encloses(r, d)
                                /\ \A e \in Dirs : Encloses(e, d) /\ GitRepo(e)
                                                     => r # Above /\ IsPrefix(e, r)}

\* rev-parse --show-toplevel at the root: the repository it names, if it succeeds.
GitFails == \/ failing \cap ReposAround(Root) # {} \/ marker[Root] = "invalid"
TopLevel == IF GitFails THEN {}
            ELSE IF GitRepo(Root) THEN {Root}
            ELSE IF above THEN {Above} ELSE {}

-----------------------------------------------------------------------------
GitInit ==
  /\ marker \in [Dirs -> Markers] /\ above \in BOOLEAN
  /\ failing \in {F \in SUBSET (Dirs \cup {Above, GitProgram}) : Cardinality(F) <= MaxFailing}
  /\ gpc = "ask" /\ jobRuns = 1
  /\ work = {} /\ repoRoots = {} /\ fallback = FALSE /\ skipped = {}
  /\ ingested = {} /\ misjudged = FALSE

\* build_git_ingest_plan, discover_enclosing_repo_root.  A git that cannot be
\* started fails the job; a git that reports an error means "no repository".
AskGit ==
  /\ gpc = "ask"
  /\ IF GitProgram \in failing
     THEN gpc' = "failed" /\ UNCHANGED <<work, repoRoots, misjudged>>
     ELSE /\ gpc' = IF TopLevel # {} THEN "repos" ELSE "discover"
          /\ repoRoots' = TopLevel
          /\ work' = IF TopLevel # {} THEN {} ELSE {Root}
          /\ misjudged' = (misjudged \/ (GitFails /\ ReposAround(Root) # {}))
  /\ UNCHANGED <<gitTree, failing, jobRuns, fallback, skipped, ingested>>

\* Mutant of VisitDir: a repository is recorded, and then entered all the same.
VisitDirEntersRepos(d) ==
  /\ gpc = "discover" /\ d \in work
  /\ marker[d] \in {"none", "headless", "repo", "worktree"} /\ d \notin failing
  /\ repoRoots' = IF GitRepo(d) THEN repoRoots \cup {d} ELSE repoRoots
  /\ work' = (work \ {d}) \cup Children(d)
  /\ UNCHANGED <<gitTree, failing, gpc, jobRuns, fallback, skipped, ingested, misjudged>>

\* One iteration of the search.  The order of read_dir is not specified, so any
\* directory on the stack may be next.  A repository or submodule is not entered.
VisitDir(d) ==
  /\ gpc = "discover" /\ d \in work
  /\ \/ /\ marker[d] \in {"repo", "worktree"}
        /\ repoRoots' = repoRoots \cup {d} /\ work' = work \ {d}
        /\ UNCHANGED <<gpc, skipped>>
     \/ /\ marker[d] = "submodule"
        /\ skipped' = skipped \cup {d} /\ work' = work \ {d}
        /\ UNCHANGED <<gpc, repoRoots>>
     \/ /\ marker[d] \in {"none", "headless"} /\ d \notin failing
        /\ work' = (work \ {d}) \cup Children(d)
        /\ UNCHANGED <<gpc, repoRoots, skipped>>
     \/ /\ marker[d] = "invalid" \/ (marker[d] \in {"none", "headless"} /\ d \in failing)
        /\ gpc' = "failed"
        /\ UNCHANGED <<work, repoRoots, skipped>>
  /\ UNCHANGED <<gitTree, failing, jobRuns, fallback, ingested, misjudged>>

\* Mutant of SearchEnds: the repositories are not added to skipped_walk_roots.
SearchEndsWithoutRepos ==
  /\ gpc = "discover" /\ work = {}
  /\ fallback' = TRUE /\ gpc' = "repos"
  /\ UNCHANGED <<gitTree, failing, jobRuns, work, repoRoots, ingested, misjudged, skipped>>

\* The stack is empty: the walk will leave out what was found.
SearchEnds ==
  /\ gpc = "discover" /\ work = {}
  /\ skipped' = skipped \cup repoRoots
  /\ fallback' = TRUE /\ gpc' = "repos"
  /\ UNCHANGED <<gitTree, failing, jobRuns, work, repoRoots, ingested, misjudged>>

\* ls-files --cached, candidates below the requested root, without denied types.
\* Entries of submodules (gitlinks) are listed too, but are no regular files.
RepoFiles(r) == {f \in TreeFiles : f[1] \in TrackedDirs(r) /\ f[2] = "tracked"}

\* ingest_git_repo: a repository that git refuses fails the job.
IngestRepo(r) ==
  /\ gpc = "repos" /\ r \in repoRoots
  /\ IF r \in failing
     THEN gpc' = "failed" /\ UNCHANGED <<repoRoots, ingested>>
     ELSE /\ ingested' = ingested \cup (RepoFiles(r) \X {r})
          /\ repoRoots' = repoRoots \ {r}
          /\ UNCHANGED gpc
  /\ UNCHANGED <<gitTree, failing, jobRuns, work, fallback, skipped, misjudged>>

ReposDone ==
  /\ gpc = "repos" /\ repoRoots = {}
  /\ gpc' = IF fallback THEN "walk" ELSE "done"
  /\ UNCHANGED <<gitTree, failing, jobRuns, work, repoRoots, fallback, skipped, ingested,
                 misjudged>>

\* should_visit_walk_entry, and the walker's own rule about hidden entries.  The
\* root itself is always visited, its entries are not when it is skipped.
Walked(d) == ~Hidden(d) /\ ~\E s \in skipped : IsPrefix(s, d)

\* ingest_walk_root: a directory that cannot be read is logged and left out (the
\* search has read every directory the walk enters, so nothing is lost here).
WalkFallback ==
  /\ gpc = "walk"
  /\ ingested' = ingested \cup
       {<<f, Root>> : f \in {g \in TreeFiles : Walked(g[1]) /\ ~\E e \in failing : IsPrefix(e, g[1])}}
  /\ gpc' = "done"
  /\ UNCHANGED <<gitTree, failing, jobRuns, work, repoRoots, fallback, skipped, misjudged>>

\* The claim of the failed job goes stale and it is claimed again; meanwhile some
\* of what was out of order may have been repaired.
RunAgain ==
  /\ gpc = "failed" /\ jobRuns < MaxJobs
  /\ failing' \in SUBSET failing
  /\ gpc' = "ask" /\ jobRuns' = jobRuns + 1
  /\ work' = {} /\ repoRoots' = {} /\ fallback' = FALSE /\ skipped' = {}
  /\ UNCHANGED <<gitTree, ingested, misjudged>>

GitNext ==
  \/ AskGit \/ SearchEnds \/ ReposDone \/ WalkFallback \/ RunAgain
  \/ \E d \in Dirs : VisitDir(d)
  \/ \E r \in Dirs \cup {Above} : IngestRepo(r)

-----------------------------------------------------------------------------
(* Properties.                                                              *)

\* The files the README promises: "git-tracked files for detected repos" and
\* "normal directory walking for plain directories under the requested root".
\* Told file by file: the outermost repository on the way from the top of the
\* search to the file decides, submodules found by the search excluded.
Selected(f) ==
  LET top == IF GitRepo(Root) THEN {Root} ELSE IF above THEN {Above} ELSE {}
      OnTheWay == {e \in Dirs : IsPrefix(e, f[1]) /\ GitRepo(e)}
      outermost == IF top # {} THEN top
                   ELSE {e \in OnTheWay : \A x \in OnTheWay : Len(e) <= Len(x)}
  IN IF outermost = {} THEN ~Hidden(f[1])
     ELSE /\ f[2] = "tracked"
          /\ \A e \in outermost :
               /\ e \in Dirs /\ top = {} => marker[e] # "submodule"
               /\ OnTheWay \subseteq {e}

\* Whatever fails on the way and however often the job starts over, only files
\* of the selection are ever ingested, and when the job completes, all of them
\* are.  The exception is a git that reports an error inside a repository, which
\* the code takes for a plain directory.
SelectionIsExact ==
  ~misjudged =>
    /\ \A i \in ingested : Selected(i[1])
    /\ gpc = "done" => \A f \in TreeFiles : Selected(f) => \E i \in ingested : i[1] = f

\* The routes do not overlap: no file is reached through two repositories, or
\* through a repository and the walk, so none is planned under two selections.
OneRoutePerFile ==
  ~misjudged => \A i, j \in ingested : i[1] = j[1] => i[2] = j[2]

=============================================================================
