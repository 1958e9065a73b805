---------------------------- MODULE ResponsePaths ----------------------------
(***************************************************************************)
(* How a stored, canonical file path is shown to the user                  *)
(* (http/response_paths.rs): the configured root it lies under is replaced *)
(* by the display directory configured for that root, for instance the     *)
(* host directory that is mounted into the container.                      *)
(*                                                                         *)
(* A stored path is the sequence of its components.  A displayed path is   *)
(* text, as a sequence of pieces: "/", "\", ".", a drive "C:", names.      *)
(***************************************************************************)
EXTENDS Naturals, Sequences, FiniteSetsExt, SequencesExt

CONSTANTS
  RootDirs,      \* directories that may be configured as a root, canonical
  DisplayDirs,   \* texts that may be configured as a display directory
  StoredPaths    \* canonical paths in the documents table

Separators == {"/", "\\"}
Signs == Separators \cup {".", "C:"}   \* pieces that are not the name of a file

\* The components of canonical paths are names; a display directory is any text.
ASSUME PathsAssumption ==
  /\ \A p \in RootDirs \cup StoredPaths :
       p \in Seq(STRING) /\ \A i \in DOMAIN p : p[i] \notin Signs
  /\ DisplayDirs \subseteq Seq(STRING \cup Signs)

VARIABLES
  rpc,                                \* waiting, translate or shown
  resourceRoot, dataRoot,             \* the roots, each with its display directory
  storedPath,                         \* filepath of a result
  shownPath                           \* what the response says

pathVars == <<rpc, resourceRoot, dataRoot, storedPath, shownPath>>

-----------------------------------------------------------------------------
\* is_windows_drive_root.
IsDriveRoot(text) == text = <<"C:", "/">>

\* trim_display_root: trailing slashes go, but not the only piece nor the slash
\* of a drive.
TrimDisplayRoot(text) ==
  SubSeq(text, 1, Max({n \in DOMAIN text : \/ n = 1 \/ text[n] # "/"
                                           \/ IsDriveRoot(SubSeq(text, 1, n))}))

\* display_path_root.
DisplayPathRoot(text) ==
  LET slashed == [i \in DOMAIN text |-> IF text[i] = "\\" THEN "/" ELSE text[i]]
  IN IF text = <<>> THEN <<".">> ELSE TrimDisplayRoot(slashed)

\* The components of a relative path, joined by slashes.
JoinComponents(names) ==
  [i \in 1..(2 * Len(names) - 1) |-> IF i % 2 = 1 THEN names[(i + 1) \div 2] ELSE "/"]

\* Mutant of JoinDisplayPath: a slash is put in between without looking.
JoinDisplayPathAlways(display, names) ==
  IF names = <<>> THEN display ELSE display \o <<"/">> \o JoinComponents(names)

\* join_display_path.
JoinDisplayPath(display, names) ==
  IF names = <<>> THEN display
  ELSE IF Last(display) = "/" THEN display \o JoinComponents(names)
  ELSE display \o <<"/">> \o JoinComponents(names)

\* ResponsePathTranslator::new: the root with more components first; the sort is
\* stable, so the resource root when they have as many.
SortedRoots ==
  IF Len(dataRoot.root) > Len(resourceRoot.root) THEN <<dataRoot, resourceRoot>>
                                                 ELSE <<resourceRoot, dataRoot>>

\* response_filepath.
ResponseFilepath(path) ==
  LET under == {i \in {1, 2} : IsPrefix(SortedRoots[i].root, path)}
      r == SortedRoots[Min(under)]
  IN IF under = {} THEN <<"/">> \o JoinComponents(path)
     ELSE JoinDisplayPath(r.display, SubSeq(path, Len(r.root) + 1, Len(path)))

-----------------------------------------------------------------------------
\* ServerState::new_with_display_dirs, once per process, and a search result
\* that was ingested under these roots or under those of an earlier process.
PathsInit ==
  /\ rpc = "waiting"
  /\ resourceRoot = [root |-> <<>>, configured |-> <<>>, display |-> <<>>]
  /\ dataRoot = resourceRoot
  /\ storedPath = <<>> /\ shownPath = <<>>

Configure ==
  /\ rpc = "translate" /\ storedPath = <<>>
  /\ \E r, d \in RootDirs, x, y \in DisplayDirs :
       /\ resourceRoot' = [root |-> r, configured |-> x, display |-> DisplayPathRoot(x)]
       /\ dataRoot' = [root |-> d, configured |-> y, display |-> DisplayPathRoot(y)]
  /\ storedPath' \in StoredPaths
  /\ UNCHANGED <<rpc, shownPath>>

\* search: the filepath of a result is translated before the page is sent.
TranslateResult ==
  /\ rpc = "translate" /\ storedPath # <<>>
  /\ shownPath' = ResponseFilepath(storedPath)
  /\ rpc' = "shown"
  /\ UNCHANGED <<resourceRoot, dataRoot, storedPath>>

PathsNext == Configure \/ TranslateResult

-----------------------------------------------------------------------------
(* Properties.                                                              *)

\* How an operating system reads a displayed path: absolute, on a drive or
\* relative, and the names on the way; "." and repeated separators mean nothing.
Anchor(text) ==
  IF text = <<>> \/ text[1] \notin Separators \cup {"C:"} THEN "."
  ELSE IF text[1] = "C:" THEN "C:" ELSE "/"
NamePlaces(text) == {i \in DOMAIN text : text[i] \notin Signs}
Names(text) ==
  [k \in 1..Cardinality(NamePlaces(text)) |->
     text[CHOOSE i \in NamePlaces(text) :
            Cardinality({j \in NamePlaces(text) : j < i}) = k - 1]]

\* Names and separators alternate, except where they do not in what was configured.
AlternatesAt(text, i) == (text[i] \in Separators) # (text[i + 1] \in Separators)
Joined(text, configured) ==
  \A i \in 1..(Len(text) - 1) :
    AlternatesAt(text, i) \/ (i < Len(configured) /\ ~AlternatesAt(configured, i))

\* The user finds the file where the response says: what is shown is the path
\* below the display directory, as it was configured, of the deepest root that
\* holds the file, and the file's own path when no root does.  Where they
\* are joined no two names run together and no separator is doubled.
ShownPathNamesFile ==
  rpc = "shown" =>
    LET holding == {r \in {resourceRoot, dataRoot} : IsPrefix(r.root, storedPath)}
        deepest == {r \in holding : \A q \in holding : Len(q.root) <= Len(r.root)}
    IN IF holding = {}
       THEN /\ Anchor(shownPath) = "/" /\ Names(shownPath) = storedPath
            /\ Joined(shownPath, <<>>)
       ELSE \E r \in deepest :
              /\ Anchor(shownPath) = Anchor(r.configured)
              /\ Names(shownPath) = Names(r.configured) \o
                   SubSeq(storedPath, Len(r.root) + 1, Len(storedPath))
              /\ Joined(shownPath, r.configured)

=============================================================================
