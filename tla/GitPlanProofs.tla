--------------------------- MODULE GitPlanProofs ----------------------------
(***************************************************************************)
(* Proofs about GitPlan as a part of FileJourney: for any tree of          *)
(* directories, any placement of repositories and any failures of git, the *)
(* job selects the right files and selects each along one route.           *)
(***************************************************************************)
EXTENDS FileJourney, OrderLemmas, SequenceTheorems, TLAPS

-----------------------------------------------------------------------------
(* Paths and their prefixes.                                                *)

Path == Seq(STRING)

\* A prefix has the same names as far as it goes.
LEMMA PrefixNames ==
  ASSUME NEW s \in Path, NEW t \in Path
  PROVE  /\ Len(s) \in Nat /\ Len(t) \in Nat
         /\ IsPrefix(s, t) <=> (Len(s) <= Len(t) /\ \A i \in 1..Len(s) : s[i] = t[i])
<1>1. Len(s) \in Nat /\ Len(t) \in Nat
  BY LenProperties DEF Path
<1>2. ASSUME Len(s) <= Len(t)
      PROVE  SubSeq(s, 1, Len(s)) = SubSeq(t, 1, Len(s)) <=> \A i \in 1..Len(s) : s[i] = t[i]
  <2> DEFINE u == SubSeq(t, 1, Len(s))
  <2>1. SubSeq(s, 1, Len(s)) = s
    BY SubSeqFull DEF Path
  <2>2. \A i \in 1..Len(s) : t[i] \in STRING
    BY <1>1, <1>2, ElementOfSeq DEF Path
  <2>3. /\ u \in Path
        /\ Len(u) = IF 1 <= Len(s) THEN Len(s) - 1 + 1 ELSE 0
        /\ \A i \in 1..(Len(s) - 1 + 1) : u[i] = t[1 + i - 1]
    <3>1. 1 \in Int /\ Len(s) \in Int
      BY <1>1
    <3> QED
      BY <2>2, <3>1, SubSeqProperties DEF Path
  <2>4. Len(u) = Len(s) /\ \A i \in 1..Len(s) : u[i] = t[i]
    BY <1>1, <2>3
  <2> HIDE DEF u
  <2>5. (\A i \in 1..Len(s) : s[i] = u[i]) => s = u
    BY <2>3, <2>4, SeqEqual DEF Path
  <2> QED
    BY <2>1, <2>4, <2>5 DEF u
<1> QED
  BY <1>1, <1>2 DEF IsPrefix

\* Prefixes of one path are ordered by their length.
LEMMA PrefixOrder ==
  ASSUME NEW s \in Path, NEW t \in Path, NEW u \in Path
  PROVE  /\ IsPrefix(s, s)
         /\ IsPrefix(s, t) /\ IsPrefix(t, u) => IsPrefix(s, u)
         /\ IsPrefix(s, u) /\ IsPrefix(t, u) /\ Len(s) <= Len(t) => IsPrefix(s, t)
         /\ IsPrefix(s, t) /\ Len(t) <= Len(s) => s = t
<1>1. Len(s) \in Nat /\ Len(t) \in Nat /\ Len(u) \in Nat
  BY PrefixNames
<1>2. IsPrefix(s, s)
  BY <1>1, PrefixNames
<1>3. ASSUME IsPrefix(s, t), IsPrefix(t, u)
      PROVE  IsPrefix(s, u)
  <2>1. \A i \in 1..Len(s) : i \in 1..Len(t)
    BY <1>1, <1>3, PrefixNames
  <2> QED
    BY <1>1, <1>3, <2>1, PrefixNames
<1>4. ASSUME IsPrefix(s, u), IsPrefix(t, u), Len(s) <= Len(t)
      PROVE  IsPrefix(s, t)
  <2>1. \A i \in 1..Len(s) : i \in 1..Len(t)
    BY <1>1, <1>4
  <2> QED
    BY <1>1, <1>4, <2>1, PrefixNames
<1>5. ASSUME IsPrefix(s, t), Len(t) <= Len(s)
      PROVE  s = t
  <2>1. Len(s) = Len(t) /\ \A i \in 1..Len(s) : s[i] = t[i]
    BY <1>1, <1>5, PrefixNames
  <2> QED
    BY <2>1, SeqEqual DEF Path
<1> QED
  BY <1>2, <1>3, <1>4, <1>5

\* Without its last name a path is its longest strict prefix.
LEMMA FrontIsPrefix ==
  ASSUME NEW t \in Path, t # <<>>
  PROVE  /\ Front(t) \in Path /\ Len(Front(t)) = Len(t) - 1
         /\ IsPrefix(Front(t), t) /\ Front(t) # t
         /\ \A s \in Path : IsPrefix(s, t) /\ s # t => IsPrefix(s, Front(t))
<1>1. Len(t) \in Nat /\ Len(t) > 0
  BY EmptySeq DEF Path
<1>2. /\ Front(t) \in Path /\ Len(Front(t)) = Len(t) - 1
      /\ \A i \in 1..(Len(t) - 1) : Front(t)[i] = t[i]
  <2>1. \A i \in 1..(Len(t) - 1) : t[i] \in STRING
    BY <1>1, ElementOfSeq DEF Path
  <2>2. 1 \in Int /\ Len(t) - 1 \in Int
    BY <1>1
  <2>3. /\ SubSeq(t, 1, Len(t) - 1) \in Seq(STRING)
        /\ Len(SubSeq(t, 1, Len(t) - 1)) =
             IF 1 <= Len(t) - 1 THEN (Len(t) - 1) - 1 + 1 ELSE 0
        /\ \A i \in 1..((Len(t) - 1) - 1 + 1) : SubSeq(t, 1, Len(t) - 1)[i] = t[1 + i - 1]
    BY <2>1, <2>2, SubSeqProperties
  <2>4. Len(SubSeq(t, 1, Len(t) - 1)) = Len(t) - 1 /\ (Len(t) - 1) - 1 + 1 = Len(t) - 1
    <3>1. \A k \in Nat : (IF 1 <= k THEN k - 1 + 1 ELSE 0) = k /\ k - 1 + 1 = k
      OBVIOUS
    <3>2. Len(t) - 1 \in Nat
      BY <1>1
    <3> QED
      BY <2>3, <3>1, <3>2
  <2>5. \A i \in 1..(Len(t) - 1) : SubSeq(t, 1, Len(t) - 1)[i] = t[i]
    <3>1. \A i \in 1..(Len(t) - 1) : 1 + i - 1 = i
      BY <1>1
    <3> QED
      BY <2>3, <2>4, <3>1
  <2> QED
    BY <2>3, <2>4, <2>5 DEF Front, Path
<1>3. IsPrefix(Front(t), t)
  BY <1>1, <1>2, PrefixNames
<1>4. ASSUME NEW s \in Path, IsPrefix(s, t), s # t
      PROVE  IsPrefix(s, Front(t))
  <2>1. Len(s) \in Nat /\ Len(s) <= Len(t)
    BY <1>4, PrefixNames
  <2>2. ~(Len(t) <= Len(s))
    BY <1>4, PrefixOrder
  <2>3. Len(s) <= Len(Front(t))
    BY <1>1, <1>2, <2>1, <2>2
  <2> QED
    BY <1>2, <1>3, <1>4, <2>3, PrefixOrder
<1> QED
  BY <1>1, <1>2, <1>3, <1>4

-----------------------------------------------------------------------------
(* The tree.                                                                *)

\* Directories are paths.
LEMMA DirsArePaths ==
  ASSUME NEW d \in Dirs
  PROVE  d \in Path /\ Len(d) \in Nat
<1>1. d \in Path
  BY TreeAssumption DEF Path
<1> QED
  BY <1>1, PrefixNames

\* What encloses a directory is a directory.
LEMMA PrefixClosed ==
  ASSUME NEW d \in Dirs, NEW e \in Path, IsPrefix(e, d)
  PROVE  e \in Dirs
<1> DEFINE Missing == {n \in Nat : \E p \in Dirs : IsPrefix(e, p) /\ Len(p) = n}
<1>1. Len(d) \in Missing
  BY DirsArePaths
<1>2. PICK n \in Missing : \A m \in Missing : n <= m
  <2>1. Missing \in SUBSET Nat /\ Missing # {}
    BY <1>1
  <2> HIDE DEF Missing
  <2> QED
    BY <2>1, LeastNatural
<1>3. PICK p \in Dirs : IsPrefix(e, p) /\ Len(p) = n
  BY <1>2
<1>4. CASE e = p
  BY <1>3, <1>4
<1>5. CASE e # p
  <2>1. p \in Path /\ Len(p) \in Nat
    BY DirsArePaths
  <2>2. p # <<>>
    <3>1. ASSUME p = <<>>
          PROVE  e = p
      <4>1. Len(p) = 0 /\ Len(e) \in Nat
        BY <3>1, PrefixNames
      <4> QED
        BY <1>3, <2>1, <4>1, PrefixOrder
    <3> QED
      BY <1>5, <3>1
  <2>3. Front(p) \in Dirs
    BY <2>2, TreeAssumption DEF Root
  <2>4. IsPrefix(e, Front(p)) /\ Len(Front(p)) = Len(p) - 1
    BY <1>3, <1>5, <2>1, <2>2, FrontIsPrefix
  <2>5. Len(p) - 1 \in Missing
    BY <2>3, <2>4, DirsArePaths
  <2> QED
    BY <1>2, <1>3, <2>1, <2>5
<1> QED
  BY <1>4, <1>5

\* Of what may fail, only directories lie on the way to a directory.
LEMMA FailingOnTheWay ==
  ASSUME NEW d \in Dirs, NEW e \in Dirs \cup {Above, GitProgram}, IsPrefix(e, d)
  PROVE  e \in Dirs
<1> SUFFICES ASSUME e = <<"..">> \/ e = <<"..", "git">>
             PROVE  e \in Dirs
  BY DEF Above, GitProgram
<1> DEFINE Names == STRING \cup {"..", "git"}
<1>1. e \in Seq(Names) /\ Len(e) \in Nat
  <2>1. \A S : \A a, b \in S : /\ <<a>> \in Seq(S) /\ <<a, b>> \in Seq(S)
                               /\ Len(<<a>>) \in Nat /\ Len(<<a, b>>) \in Nat
    OBVIOUS
  <2>2. ".." \in Names /\ "git" \in Names
    OBVIOUS
  <2> HIDE DEF Names
  <2> QED
    BY <2>1, <2>2
<1>2. SubSeq(e, 1, Len(e)) = e
  <2> HIDE DEF Names
  <2> QED
    BY <1>1, SubSeqFull
<1>3. d \in Seq(STRING) /\ Len(d) \in Nat /\ Len(e) <= Len(d)
  BY DirsArePaths DEF Path, IsPrefix
<1>4. \A i \in 1..Len(e) : d[i] \in STRING
  BY <1>1, <1>3, ElementOfSeq
<1>5. SubSeq(d, 1, Len(e)) \in Seq(STRING)
  <2>1. 1 \in Int /\ Len(e) \in Int
    BY <1>1
  <2> QED
    BY <1>4, <2>1, SubSeqProperties
<1>6. e \in Path
  BY <1>2, <1>5 DEF IsPrefix, Path
<1> QED
  BY <1>6, PrefixClosed

\* A directory below d lies in d or below one of d's subdirectories.
LEMMA ChildOnTheWay ==
  ASSUME NEW d \in Dirs, NEW x \in Dirs, IsPrefix(d, x), d # x
  PROVE  \E c \in Children(d) : IsPrefix(c, x)
<1> DEFINE Below == {n \in Nat : \E p \in Dirs : /\ IsPrefix(d, p) /\ d # p
                                                /\ IsPrefix(p, x) /\ Len(p) = n}
<1>1. Len(x) \in Below
  BY DirsArePaths, PrefixOrder
<1>2. PICK n \in Below : \A m \in Below : n <= m
  <2>1. Below \in SUBSET Nat /\ Below # {}
    BY <1>1
  <2> HIDE DEF Below
  <2> QED
    BY <2>1, LeastNatural
<1>3. PICK p \in Dirs : IsPrefix(d, p) /\ d # p /\ IsPrefix(p, x) /\ Len(p) = n
  BY <1>2
<1>4. /\ d \in Path /\ p \in Path /\ x \in Path /\ Len(p) \in Nat /\ Len(d) \in Nat
  BY DirsArePaths
<1>5. p # <<>>
  <2>1. ASSUME p = <<>>
        PROVE  d = p
    <3>1. Len(p) = 0
      BY <2>1
    <3>2. Len(p) <= Len(d)
      BY <1>4, <3>1
    <3> QED
      BY <1>3, <1>4, <3>2, PrefixOrder
  <2> QED
    BY <1>3, <2>1
<1>6. /\ Front(p) \in Dirs /\ Front(p) \in Path /\ IsPrefix(d, Front(p))
      /\ IsPrefix(Front(p), p) /\ Len(Front(p)) = Len(p) - 1
  BY <1>3, <1>4, <1>5, FrontIsPrefix, TreeAssumption DEF Root
<1>7. IsPrefix(Front(p), x)
  BY <1>3, <1>4, <1>6, PrefixOrder
<1>8. Front(p) = d
  <2> SUFFICES ASSUME Front(p) # d
               PROVE  FALSE
    OBVIOUS
  <2>1. Len(p) - 1 \in Nat
    BY <1>4, <1>6, PrefixNames
  <2>2. Len(p) - 1 \in Below
    BY <1>6, <1>7, <2>1
  <2> QED
    BY <1>2, <1>3, <1>4, <2>2
<1> QED
  BY <1>3, <1>5, <1>8 DEF Children, Root

\* The strict prefixes of a subdirectory are the directory and its strict prefixes.
LEMMA PrefixesOfChild ==
  ASSUME NEW d \in Dirs, NEW c \in Children(d), NEW e \in Dirs, IsPrefix(e, c), e # c
  PROVE  IsPrefix(e, d)
<1>1. c \in Path /\ c # <<>> /\ e \in Path /\ Front(c) = d
  BY DirsArePaths DEF Children, Root
<1> QED
  BY <1>1, FrontIsPrefix

\* The requested root encloses everything.
LEMMA RootEncloses ==
  ASSUME NEW d \in Dirs
  PROVE  IsPrefix(Root, d)
<1>1. Root \in Path /\ d \in Path /\ Len(Root) = 0 /\ Len(d) \in Nat
  BY DirsArePaths, TreeAssumption DEF Root
<1> QED
  BY <1>1, PrefixNames

\* For directories, to enclose is to be a prefix.
LEMMA EnclosesIsPrefix ==
  ASSUME NEW e \in Dirs, NEW d \in Dirs
  PROVE  e # Above /\ (Encloses(e, d) <=> IsPrefix(e, d))
BY TreeAssumption DEF Encloses

-----------------------------------------------------------------------------
(* Which repository a file belongs to.                                      *)

\* The repository git names at the requested root, when nothing fails.
Top == IF GitRepo(Root) THEN {Root} ELSE IF above THEN {Above} ELSE {}

\* Repositories that no other one in the tree encloses.
Outermost(r) ==
  /\ r \in Dirs /\ GitRepo(r)
  /\ \A e \in Dirs : IsPrefix(e, r) /\ e # r => ~GitRepo(e)

\* No repository of the tree encloses the directory.
Plain(d) == \A e \in Dirs : IsPrefix(e, d) => ~GitRepo(e)

\* The routes the code is meant to take: the files of the repository around the
\* root, or those of the outermost repositories that are no submodules, and
\* between these the files of the walk.
RightRoute(f, r) ==
  IF Top # {} THEN r \in Top /\ f \in RepoFiles(r)
  ELSE \/ Outermost(r) /\ marker[r] # "submodule" /\ f \in RepoFiles(r)
       \/ r = Root /\ f \in TreeFiles /\ ~Hidden(f[1]) /\ Plain(f[1])

\* Every directory is plain or has exactly one outermost repository around it.
LEMMA OutermostExists ==
  ASSUME NEW d \in Dirs
  PROVE  Plain(d) \/ \E r \in Dirs : Outermost(r) /\ IsPrefix(r, d)
<1> SUFFICES ASSUME ~Plain(d)
             PROVE  \E r \in Dirs : Outermost(r) /\ IsPrefix(r, d)
  OBVIOUS
<1> DEFINE Lens == {n \in Nat : \E e \in Dirs : IsPrefix(e, d) /\ GitRepo(e) /\ Len(e) = n}
<1>1. Lens # {}
  BY DirsArePaths DEF Plain
<1>2. PICK n \in Lens : \A m \in Lens : n <= m
  <2>1. Lens \in SUBSET Nat
    OBVIOUS
  <2> HIDE DEF Lens
  <2> QED
    BY <1>1, <2>1, LeastNatural
<1>3. PICK r \in Dirs : IsPrefix(r, d) /\ GitRepo(r) /\ Len(r) = n
  BY <1>2
<1>4. ASSUME NEW e \in Dirs, IsPrefix(e, r), e # r, GitRepo(e)
      PROVE  FALSE
  <2>1. e \in Path /\ r \in Path /\ d \in Path /\ Len(e) \in Nat /\ Len(r) \in Nat
    BY DirsArePaths
  <2>2. IsPrefix(e, d)
    BY <1>3, <1>4, <2>1, PrefixOrder
  <2>3. Len(e) \in Lens
    BY <1>4, <2>1, <2>2
  <2>4. Len(r) <= Len(e)
    BY <1>2, <1>3, <2>3
  <2> QED
    BY <1>4, <2>1, <2>4, PrefixOrder
<1> QED
  BY <1>3, <1>4 DEF Outermost

\* The outermost repository above a directory is unique, and none is shorter.
LEMMA OutermostIsUnique ==
  ASSUME NEW d \in Dirs, NEW r \in Dirs, NEW e \in Dirs, Outermost(r), IsPrefix(r, d),
         GitRepo(e), IsPrefix(e, d)
  PROVE  /\ Len(r) <= Len(e)
         /\ Len(e) <= Len(r) \/ Outermost(e) => e = r
<1>1. /\ d \in Path /\ r \in Path /\ e \in Path /\ Len(r) \in Nat /\ Len(e) \in Nat
  BY DirsArePaths
<1>2. ASSUME Len(e) <= Len(r)
      PROVE  e = r
  <2>1. IsPrefix(e, r)
    BY <1>1, <1>2, PrefixOrder
  <2> QED
    BY <2>1 DEF Outermost
<1>3. Len(r) <= Len(e)
  <2>1. Len(e) <= Len(r) \/ Len(r) <= Len(e)
    BY <1>1
  <2> QED
    BY <1>1, <1>2, <2>1
<1>4. ASSUME Outermost(e)
      PROVE  e = r
  <2>1. IsPrefix(r, e)
    BY <1>1, <1>3, PrefixOrder
  <2> QED
    BY <1>4, <2>1 DEF Outermost
<1> QED
  BY <1>2, <1>3, <1>4

\* What a file's repository has to do with its directory.
LEMMA RepoFilesOf ==
  ASSUME NEW f \in TreeFiles, NEW r \in Dirs \cup {Above}
  PROVE  /\ f[1] \in Dirs
         /\ f \in RepoFiles(r) <=>
              /\ f[2] = "tracked"
              /\ r # Above => IsPrefix(r, f[1])
              /\ \A e \in Dirs : IsPrefix(e, f[1]) /\ GitRepo(e) => r # Above /\ IsPrefix(e, r)
<1>1. f[1] \in Dirs
  BY DEF TreeFiles
<1> QED
  BY <1>1, EnclosesIsPrefix DEF RepoFiles, TrackedDirs, Encloses

\* No file has two right routes.
LEMMA OneRightRoute ==
  ASSUME NEW f \in TreeFiles, NEW r, NEW s, RightRoute(f, r), RightRoute(f, s)
  PROVE  r = s
<1>1. CASE Top # {}
  BY <1>1 DEF RightRoute, Top
<1>2. CASE Top = {}
  <2>1. f[1] \in Dirs
    BY DEF TreeFiles
  <2>2. ASSUME NEW q, Outermost(q), f \in RepoFiles(q)
        PROVE  IsPrefix(q, f[1]) /\ ~Plain(f[1])
    <3>1. q \in Dirs /\ q # Above /\ GitRepo(q)
      BY <2>2, EnclosesIsPrefix, TreeAssumption DEF Outermost
    <3>2. IsPrefix(q, f[1])
      BY <2>2, <3>1, RepoFilesOf
    <3> QED
      BY <3>1, <3>2 DEF Plain
  <2>3. CASE Plain(f[1])
    BY <1>2, <2>2, <2>3 DEF RightRoute
  <2>4. CASE ~Plain(f[1])
    <3>1. Outermost(r) /\ Outermost(s) /\ IsPrefix(r, f[1]) /\ IsPrefix(s, f[1])
      BY <1>2, <2>2, <2>4 DEF RightRoute
    <3> QED
      BY <2>1, <3>1, OutermostIsUnique DEF Outermost
  <2> QED
    BY <2>3, <2>4
<1> QED
  BY <1>1, <1>2

\* The selection, told file by file, is what has a right route.
LEMMA SelectedIsRouted ==
  ASSUME NEW f \in TreeFiles
  PROVE  Selected(f) <=> \E r \in Dirs \cup {Above} : RightRoute(f, r)
<1> DEFINE way == {e \in Dirs : IsPrefix(e, f[1]) /\ GitRepo(e)}
           outer == {e \in way : \A x \in way : Len(e) <= Len(x)}
<1>0. f[1] \in Dirs /\ \A e \in Dirs : e # Above
  BY EnclosesIsPrefix DEF TreeFiles
<1>1. CASE Top # {}
  <2>1. PICK r \in Dirs \cup {Above} : Top = {r} /\ (r = Root \/ r = Above)
    BY <1>1, TreeAssumption DEF Top
  <2>2. Selected(f) <=> f[2] = "tracked" /\ way \subseteq {r}
    BY <1>1, <2>1 DEF Selected, Top
  <2>3. f \in RepoFiles(r) <=> f[2] = "tracked" /\ way \subseteq {r}
    <3>1. r # Above => IsPrefix(r, f[1])
      BY <1>0, <2>1, RootEncloses
    <3>2. CASE r = Above
      BY <1>0, <3>2, RepoFilesOf
    <3>3. CASE r = Root
      <4>1. \A e \in Dirs : IsPrefix(e, Root) <=> e = Root
        <5> TAKE e \in Dirs
        <5>1. Root \in Path /\ e \in Path /\ Len(Root) = 0 /\ Len(e) \in Nat
          BY DirsArePaths, TreeAssumption DEF Root
        <5>2. Len(Root) <= Len(e)
          BY <5>1
        <5> QED
          BY <5>1, <5>2, PrefixOrder
      <4>2. r # Above
        BY <3>3, TreeAssumption
      <4> QED
        BY <3>1, <3>3, <4>1, <4>2, RepoFilesOf
    <3> QED
      BY <2>1, <3>2, <3>3
  <2> QED
    BY <1>1, <2>1, <2>2, <2>3 DEF RightRoute
<1>2. CASE Top = {} /\ Plain(f[1])
  <2>1. way = {}
    BY <1>2 DEF Plain
  <2>2. Selected(f) <=> ~Hidden(f[1])
    BY <1>2, <2>1 DEF Selected, Top
  <2>3. ASSUME NEW r, Outermost(r), f \in RepoFiles(r)
        PROVE  FALSE
    <3>1. r \in Dirs /\ r # Above /\ GitRepo(r)
      BY <1>0, <2>3 DEF Outermost
    <3>2. IsPrefix(r, f[1])
      BY <2>3, <3>1, RepoFilesOf
    <3> QED
      BY <1>2, <3>1, <3>2 DEF Plain
  <2> QED
    BY <1>2, <2>2, <2>3, TreeAssumption DEF RightRoute
<1>3. CASE Top = {} /\ ~Plain(f[1])
  <2>1. PICK r \in Dirs : Outermost(r) /\ IsPrefix(r, f[1])
    BY <1>0, <1>3, OutermostExists
  <2>2. outer = {r}
    <3>1. r \in way
      BY <2>1 DEF Outermost
    <3>2. \A x \in way : Len(r) <= Len(x) /\ (Len(x) <= Len(r) => x = r)
      BY <1>0, <2>1, OutermostIsUnique
    <3> QED
      BY <3>1, <3>2
  <2>3. Selected(f) <=> f[2] = "tracked" /\ marker[r] # "submodule" /\ way \subseteq {r}
    <3>1. Selected(f) <=> IF outer = {} THEN ~Hidden(f[1])
                          ELSE /\ f[2] = "tracked"
                               /\ \A e \in outer : /\ e \in Dirs /\ TRUE => marker[e] # "submodule"
                                                   /\ way \subseteq {e}
      BY <1>3 DEF Selected, Top
    <3> HIDE DEF way, outer
    <3> QED
      BY <2>1, <2>2, <3>1
  <2>4. f \in RepoFiles(r) <=> f[2] = "tracked" /\ way \subseteq {r}
    <3>1. r # Above /\ IsPrefix(r, r)
      BY <1>0, DirsArePaths, PrefixOrder
    <3>2. \A e \in way : IsPrefix(e, r) <=> e = r
      BY <2>1, <3>1 DEF Outermost
    <3> QED
      BY <2>1, <3>1, <3>2, RepoFilesOf
  <2>5. \A q : RightRoute(f, q) => q = r
    <3> TAKE q
    <3>1. SUFFICES ASSUME RightRoute(f, q)
                   PROVE  q = r
      OBVIOUS
    <3>2. Outermost(q) /\ f \in RepoFiles(q)
      BY <1>3, <3>1 DEF RightRoute
    <3>3. q \in Dirs /\ GitRepo(q) /\ IsPrefix(q, f[1])
      BY <1>0, <3>2, RepoFilesOf DEF Outermost
    <3> QED
      BY <1>0, <2>1, <3>2, <3>3, OutermostIsUnique
  <2>6. RightRoute(f, r) <=> marker[r] # "submodule" /\ f \in RepoFiles(r)
    BY <1>3, <2>1 DEF RightRoute
  <2> QED
    BY <2>3, <2>4, <2>5, <2>6
<1> QED
  BY <1>1, <1>2, <1>3

-----------------------------------------------------------------------------
(* The inductive invariant of the job.                                      *)

GitTypeOK ==
  /\ marker \in [Dirs -> Markers] /\ above \in BOOLEAN /\ failing \subseteq Dirs \cup {Above, GitProgram}
  /\ gpc \in {"idle", "ask", "discover", "repos", "walk", "done", "failed"}
  /\ work \subseteq Dirs /\ repoRoots \subseteq Dirs \cup {Above} /\ skipped \subseteq Dirs \cup {Above}
  /\ fallback \in BOOLEAN /\ misjudged \in BOOLEAN
  /\ ingested \subseteq TreeFiles \X (Dirs \cup {Above})

\* An attempt begins with nothing.
AttemptBegins == gpc = "ask" => work = {} /\ repoRoots = {} /\ skipped = {} /\ ~fallback

\* The search enters a directory that is no repository and can be read.
Enterable(d) == ~GitRepo(d) /\ d \notin failing

\* What is on the stack or found was reached through such directories; the roots
\* found are repositories, the directories left out are submodules.
SearchIsOutward ==
  /\ \A d \in work \cup repoRoots \cup skipped :
       \A e \in Dirs : IsPrefix(e, d) /\ e # d => Enterable(e)
  /\ \A d \in repoRoots : d \in Dirs /\ GitRepo(d) /\ marker[d] # "submodule"
  /\ \A d \in skipped : d \in Dirs /\ marker[d] = "submodule"

\* Every directory is still ahead, in something found, or was entered.
SearchCovers ==
  \A d \in Dirs :
    \/ \E e \in work \cup repoRoots \cup skipped : IsPrefix(e, d)
    \/ \A e \in Dirs : IsPrefix(e, d) => Enterable(e)

Searching == gpc = "discover" => Top = {} /\ ~fallback /\ SearchIsOutward /\ SearchCovers

\* The walk leaves out what lies in a repository, and can read the rest.
WalkIsRight ==
  \A d \in Dirs :
    /\ Plain(d) => \A e \in failing : ~IsPrefix(e, d)
    /\ Plain(d) <=> ~\E s \in skipped : IsPrefix(s, d)

\* A repository to ingest is at hand or ingested.
Ingesting ==
  gpc \in {"repos", "walk"} =>
    /\ \A r \in repoRoots : IF fallback THEN Outermost(r) /\ marker[r] # "submodule"
                                        ELSE r \in Top
    /\ IF fallback
       THEN /\ Top = {} /\ WalkIsRight
            /\ \A r \in Dirs : Outermost(r) /\ marker[r] # "submodule" =>
                 r \in repoRoots \/ RepoFiles(r) \X {r} \subseteq ingested
       ELSE /\ Top # {}
            /\ \A r \in Top : r \in repoRoots \/ RepoFiles(r) \X {r} \subseteq ingested
    /\ gpc = "walk" => fallback /\ repoRoots = {}

RoutesAreRight == \A i \in ingested : RightRoute(i[1], i[2])

DoneIsComplete ==
  gpc = "done" => \A f \in TreeFiles, r \in Dirs \cup {Above} : RightRoute(f, r) => <<f, r>> \in ingested

GitInv ==
  /\ GitTypeOK /\ AttemptBegins
  /\ ~misjudged => Searching /\ Ingesting /\ RoutesAreRight /\ DoneIsComplete

-----------------------------------------------------------------------------
(* Steps.                                                                   *)

\* What is read off the tree stays while the tree does.
LEMMA SameTree ==
  ASSUME UNCHANGED gitTree
  PROVE  /\ Top' = Top
         /\ \A d : /\ GitRepo(d)' = GitRepo(d) /\ Outermost(d)' = Outermost(d)
                   /\ Plain(d)' = Plain(d) /\ RepoFiles(d)' = RepoFiles(d)
         /\ \A f, r : RightRoute(f, r)' = RightRoute(f, r)
<1>1. marker' = marker /\ above' = above
  BY DEF gitTree
<1>2. \A d : GitRepo(d)' = GitRepo(d)
  BY <1>1 DEF GitRepo
<1>3. Top' = Top
  BY <1>1, <1>2 DEF Top
<1>4. \A d : Outermost(d)' = Outermost(d) /\ Plain(d)' = Plain(d)
  BY <1>2 DEF Outermost, Plain
<1>5. \A d : RepoFiles(d)' = RepoFiles(d)
  <2>1. \A d : TrackedDirs(d)' = TrackedDirs(d)
    BY <1>2 DEF TrackedDirs
  <2> QED
    BY <2>1 DEF RepoFiles
<1>6. \A f, r : RightRoute(f, r)' = RightRoute(f, r)
  BY <1>1, <1>3, <1>4, <1>5 DEF RightRoute
<1> QED
  BY <1>2, <1>3, <1>4, <1>5, <1>6

\* No attempt has begun.
LEMMA GitStarts == GitInit => GitInv
<1> SUFFICES ASSUME GitInit PROVE GitInv
  OBVIOUS
<1>1. GitTypeOK
  <2>1. failing \subseteq Dirs \cup {Above, GitProgram}
    BY DEF GitInit
  <2> QED
    BY <2>1 DEF GitInit, GitTypeOK
<1> QED
  BY <1>1 DEF GitInit, GitInv, AttemptBegins, Searching, Ingesting, RoutesAreRight, DoneIsComplete

\* git is asked: without a misjudged failure its answer is the top, and none if
\* there is none.
LEMMA AskGitStep ==
  ASSUME GitInv, AskGit
  PROVE  GitInv'
<1>1. /\ gpc = "ask" /\ work = {} /\ repoRoots = {} /\ skipped = {} /\ ~fallback
      /\ UNCHANGED <<gitTree, failing, fallback, skipped, ingested>> /\ GitTypeOK
  BY DEF AskGit, GitInv, AttemptBegins
<1>2. /\ Top' = Top /\ \A d : RepoFiles(d)' = RepoFiles(d)
      /\ \A d : GitRepo(d)' = GitRepo(d)
      /\ \A f, r : RightRoute(f, r)' = RightRoute(f, r)
  BY <1>1, SameTree
<1>3. ~misjudged => RoutesAreRight
  BY DEF GitInv
<1>4. ~misjudged => RoutesAreRight'
  BY <1>1, <1>2, <1>3 DEF RoutesAreRight
<1>5. CASE gpc' = "failed" /\ UNCHANGED <<work, repoRoots, misjudged>>
  <2>1. GitTypeOK'
    BY <1>1, <1>5 DEF GitTypeOK, gitTree
  <2> QED
    BY <1>4, <1>5, <2>1 DEF GitInv, AttemptBegins, Searching, Ingesting, DoneIsComplete
<1>6. CASE /\ gpc' = IF TopLevel # {} THEN "repos" ELSE "discover"
           /\ repoRoots' = TopLevel
           /\ work' = IF TopLevel # {} THEN {} ELSE {Root}
           /\ misjudged' = (misjudged \/ (GitFails /\ ReposAround(Root) # {}))
  <2>1. GitTypeOK'
    <3>1. TopLevel \subseteq Dirs \cup {Above} /\ Root \in Dirs
      BY TreeAssumption DEF TopLevel
    <3>2. misjudged' \in BOOLEAN
      BY <1>1, <1>6 DEF GitTypeOK
    <3> QED
      BY <1>1, <1>6, <3>1, <3>2 DEF GitTypeOK, gitTree
  <2>2. ~misjudged' => TopLevel = Top
    <3>1. GitFails /\ ReposAround(Root) = {} => Top = {}
      <4>1. IsPrefix(Root, Root) /\ Root \in Dirs
        BY RootEncloses, TreeAssumption
      <4> QED
        BY <4>1 DEF ReposAround, Top, Encloses
    <3>2. GitFails => TopLevel = {}
      BY DEF TopLevel
    <3>3. ~GitFails => TopLevel = Top
      BY DEF TopLevel, Top
    <3> QED
      BY <1>6, <3>1, <3>2, <3>3
  <2>3. ASSUME ~misjudged'
        PROVE  Searching'
    <3> SUFFICES ASSUME gpc' = "discover"
                 PROVE  Top' = {} /\ ~fallback' /\ SearchIsOutward' /\ SearchCovers'
      BY DEF Searching
    <3>1. TopLevel = {} /\ work' = {Root} /\ repoRoots' = {} /\ skipped' = {} /\ Top = {}
      BY <1>1, <1>6, <2>2, <2>3
    <3>2. \A e \in Dirs : IsPrefix(e, Root) => e = Root
      <4> TAKE e \in Dirs
      <4>1. Root \in Path /\ e \in Path /\ Len(Root) = 0 /\ Len(e) \in Nat
        BY DirsArePaths, TreeAssumption DEF Root
      <4>2. Len(Root) <= Len(e)
        BY <4>1
      <4> QED
        BY <4>1, <4>2, PrefixOrder
    <3>3. SearchIsOutward'
      BY <3>1, <3>2 DEF SearchIsOutward
    <3>4. SearchCovers'
      BY <3>1, RootEncloses DEF SearchCovers
    <3> QED
      BY <1>1, <1>2, <3>1, <3>3, <3>4
  <2>4. ASSUME ~misjudged'
        PROVE  Ingesting'
    <3> SUFFICES ASSUME gpc' \in {"repos", "walk"}
                 PROVE  Ingesting'
      BY DEF Ingesting
    <3>1. gpc' = "repos" /\ repoRoots' = Top /\ Top # {} /\ ~fallback'
      BY <1>1, <1>6, <2>2, <2>4
    <3> QED
      BY <1>2, <3>1 DEF Ingesting
  <2>5. gpc' # "done" /\ gpc' # "ask"
    BY <1>6
  <2> QED
    BY <1>4, <1>6, <2>1, <2>3, <2>4, <2>5 DEF GitInv, AttemptBegins, DoneIsComplete
<1> QED
  BY <1>5, <1>6 DEF AskGit

\* A directory of the stack is visited.
LEMMA VisitDirStep ==
  ASSUME GitInv, NEW d \in Dirs, VisitDir(d)
  PROVE  GitInv'
<1>1. /\ gpc = "discover" /\ d \in work /\ GitTypeOK
      /\ UNCHANGED <<gitTree, failing, fallback, ingested, misjudged>>
  BY DEF VisitDir, GitInv
<1>2. /\ Top' = Top /\ \A e : GitRepo(e)' = GitRepo(e)
      /\ \A f, r : RightRoute(f, r)' = RightRoute(f, r)
      /\ marker' = marker /\ \A e : Enterable(e)' = Enterable(e)
  <2>1. \A e : GitRepo(e)' = GitRepo(e)
    BY <1>1, SameTree
  <2>2. \A e : Enterable(e)' = Enterable(e)
    BY <1>1, <2>1 DEF Enterable
  <2> QED
    BY <1>1, <2>1, <2>2, SameTree DEF gitTree
<1>3. \/ /\ gpc' = "failed" /\ UNCHANGED <<work, repoRoots, skipped>>
      \/ /\ gpc' = gpc
         /\ \/ /\ marker[d] \in {"repo", "worktree"}
               /\ repoRoots' = repoRoots \cup {d} /\ work' = work \ {d} /\ UNCHANGED skipped
            \/ /\ marker[d] = "submodule"
               /\ skipped' = skipped \cup {d} /\ work' = work \ {d} /\ UNCHANGED repoRoots
            \/ /\ marker[d] \in {"none", "headless"} /\ d \notin failing
               /\ work' = (work \ {d}) \cup Children(d) /\ UNCHANGED <<repoRoots, skipped>>
  BY DEF VisitDir
<1>4. GitTypeOK'
  <2>1. Children(d) \subseteq Dirs
    BY DEF Children
  <2> QED
    BY <1>1, <1>3, <2>1 DEF GitTypeOK, gitTree
<1>5. ~misjudged => RoutesAreRight'
  BY <1>1, <1>2 DEF GitInv, RoutesAreRight
<1>6. CASE gpc' = "failed"
  BY <1>1, <1>4, <1>5, <1>6 DEF GitInv, AttemptBegins, Searching, Ingesting, DoneIsComplete
<1>7. CASE gpc' = gpc
  <2>1. ASSUME ~misjudged
        PROVE  SearchIsOutward' /\ SearchCovers'
    <3>1. SearchIsOutward /\ SearchCovers
      BY <1>1, <2>1 DEF GitInv, Searching
    <3>2. CASE \/ /\ marker[d] \in {"repo", "worktree"}
                  /\ repoRoots' = repoRoots \cup {d} /\ work' = work \ {d} /\ UNCHANGED skipped
               \/ /\ marker[d] = "submodule"
                  /\ skipped' = skipped \cup {d} /\ work' = work \ {d} /\ UNCHANGED repoRoots
      <4>1. work' \cup repoRoots' \cup skipped' = work \cup repoRoots \cup skipped
        BY <1>1, <3>2
      <4>2. SearchCovers'
        BY <1>2, <3>1, <4>1 DEF SearchCovers
      <4>3. /\ \A e \in repoRoots' : e \in Dirs /\ GitRepo(e) /\ marker[e] # "submodule"
            /\ \A e \in skipped' : e \in Dirs /\ marker[e] = "submodule"
        BY <3>1, <3>2 DEF SearchIsOutward, GitRepo
      <4> QED
        BY <1>2, <3>1, <4>1, <4>2, <4>3 DEF SearchIsOutward
    <3>3. CASE /\ marker[d] \in {"none", "headless"} /\ d \notin failing
               /\ work' = (work \ {d}) \cup Children(d) /\ UNCHANGED <<repoRoots, skipped>>
      <4>1. Enterable(d)
        BY <3>3 DEF Enterable, GitRepo
      <4>2. \A e \in Dirs : IsPrefix(e, d) => Enterable(e)
        BY <1>1, <3>1, <4>1 DEF SearchIsOutward
      <4>3. \A c \in Children(d), e \in Dirs : IsPrefix(e, c) /\ e # c => Enterable(e)
        BY <4>2, PrefixesOfChild
      <4>4. SearchIsOutward'
        BY <1>2, <3>1, <3>3, <4>3 DEF SearchIsOutward
      <4>5. SearchCovers'
        <5> SUFFICES ASSUME NEW x \in Dirs
                     PROVE  \/ \E e \in work' \cup repoRoots' \cup skipped' : IsPrefix(e, x)
                            \/ \A e \in Dirs : IsPrefix(e, x) => Enterable(e)
          BY <1>2 DEF SearchCovers
        <5>1. CASE \A e \in Dirs : IsPrefix(e, x) => Enterable(e)
          BY <5>1
        <5>2. CASE \E e \in work \cup repoRoots \cup skipped : IsPrefix(e, x)
          <6>1. PICK e \in work \cup repoRoots \cup skipped : IsPrefix(e, x)
            BY <5>2
          <6>2. CASE e # d
            BY <3>3, <6>1, <6>2
          <6>3. CASE e = d /\ x = d
            BY <4>2, <6>3
          <6>4. CASE e = d /\ x # d
            <7>1. PICK c \in Children(d) : IsPrefix(c, x)
              BY <6>1, <6>4, ChildOnTheWay
            <7> QED
              BY <3>3, <7>1
          <6> QED
            BY <6>2, <6>3, <6>4
        <5> QED
          BY <3>1, <5>1, <5>2 DEF SearchCovers
      <4> QED
        BY <4>4, <4>5
    <3> QED
      BY <1>1, <1>3, <1>7, <3>2, <3>3
  <2> QED
    BY <1>1, <1>2, <1>4, <1>5, <1>7, <2>1
       DEF GitInv, AttemptBegins, Searching, Ingesting, DoneIsComplete
<1> QED
  BY <1>3, <1>6, <1>7

\* The search ends: everything that lies in a repository is in something found.
LEMMA SearchEndsStep ==
  ASSUME GitInv, SearchEnds
  PROVE  GitInv'
<1>1. /\ gpc = "discover" /\ work = {} /\ GitTypeOK /\ gpc' = "repos" /\ fallback' = TRUE
      /\ skipped' = skipped \cup repoRoots
      /\ UNCHANGED <<gitTree, failing, work, repoRoots, ingested, misjudged>>
  BY DEF SearchEnds, GitInv
<1>2. /\ Top' = Top /\ marker' = marker
      /\ \A e : Plain(e)' = Plain(e) /\ Outermost(e)' = Outermost(e)
      /\ \A f, r : RightRoute(f, r)' = RightRoute(f, r)
  BY <1>1, SameTree DEF gitTree
<1>3. ASSUME ~misjudged
      PROVE  /\ repoRoots \subseteq Dirs /\ RoutesAreRight' /\ Ingesting'
  <2>1. Top = {} /\ SearchIsOutward /\ SearchCovers /\ RoutesAreRight
    BY <1>1, <1>3 DEF GitInv, Searching
  <2>2. RoutesAreRight'
    BY <1>1, <1>2, <2>1 DEF RoutesAreRight
  <2>3. repoRoots \subseteq Dirs /\ skipped \subseteq Dirs
    BY <1>1, <2>1 DEF SearchIsOutward, GitTypeOK
  <2>4. \A s \in skipped \cup repoRoots : s \in Dirs /\ GitRepo(s)
    BY <2>1, <2>3 DEF SearchIsOutward, GitRepo
  <2>5. \A r \in repoRoots \cup skipped : Outermost(r)
    BY <2>1, <2>4 DEF SearchIsOutward, Outermost, Enterable
  <2>6. ASSUME NEW x \in Dirs
        PROVE  /\ Plain(x) => \A e \in failing : ~IsPrefix(e, x)
               /\ Plain(x) <=> ~\E s \in skipped \cup repoRoots : IsPrefix(s, x)
    <3>1. CASE \E s \in skipped \cup repoRoots : IsPrefix(s, x)
      BY <2>4, <3>1 DEF Plain
    <3>2. CASE ~\E s \in skipped \cup repoRoots : IsPrefix(s, x)
      <4>1. \A e \in Dirs : IsPrefix(e, x) => Enterable(e)
        BY <1>1, <2>1, <3>2 DEF SearchCovers
      <4>2. Plain(x)
        BY <4>1 DEF Plain, Enterable
      <4>3. ASSUME NEW e \in failing, IsPrefix(e, x)
            PROVE  FALSE
        <5>1. e \in Dirs
          BY <1>1, <4>3, FailingOnTheWay DEF GitTypeOK
        <5> QED
          BY <4>1, <4>3, <5>1 DEF Enterable
      <4> QED
        BY <3>2, <4>2, <4>3
    <3> QED
      BY <3>1, <3>2
  <2>7. ASSUME NEW r \in Dirs, Outermost(r), marker[r] # "submodule"
        PROVE  r \in repoRoots
    <3>1. IsPrefix(r, r) /\ ~Enterable(r)
      BY <2>7, DirsArePaths, PrefixOrder DEF Outermost, Enterable
    <3>2. PICK e \in repoRoots \cup skipped : IsPrefix(e, r)
      BY <1>1, <2>1, <3>1 DEF SearchCovers
    <3>3. e = r
      BY <2>4, <2>7, <3>2 DEF Outermost
    <3> QED
      BY <2>1, <2>7, <3>2, <3>3 DEF SearchIsOutward
  <2>8. \A r \in repoRoots : Outermost(r) /\ marker[r] # "submodule"
    BY <2>1, <2>5 DEF SearchIsOutward
  <2>9. WalkIsRight'
    BY <1>1, <1>2, <2>6 DEF WalkIsRight
  <2>10. Ingesting'
    BY <1>1, <1>2, <2>1, <2>7, <2>8, <2>9 DEF Ingesting
  <2> QED
    BY <2>2, <2>3, <2>10
<1>4. GitTypeOK'
  BY <1>1, <1>3 DEF GitTypeOK, gitTree
<1> QED
  BY <1>1, <1>3, <1>4 DEF GitInv, AttemptBegins, Searching, DoneIsComplete

\* A repository is ingested.
LEMMA IngestRepoStep ==
  ASSUME GitInv, NEW r \in Dirs \cup {Above}, IngestRepo(r)
  PROVE  GitInv'
<1>1. /\ gpc = "repos" /\ r \in repoRoots /\ GitTypeOK
      /\ UNCHANGED <<gitTree, failing, fallback, skipped, misjudged>>
  BY DEF IngestRepo, GitInv
<1>2. /\ Top' = Top /\ marker' = marker
      /\ \A e : Plain(e)' = Plain(e) /\ Outermost(e)' = Outermost(e) /\ RepoFiles(e)' = RepoFiles(e)
      /\ \A f, q : RightRoute(f, q)' = RightRoute(f, q)
  BY <1>1, SameTree DEF gitTree
<1>3. RepoFiles(r) \subseteq TreeFiles
  BY DEF RepoFiles
<1>4. CASE gpc' = "failed" /\ UNCHANGED <<repoRoots, ingested>>
  <2>1. GitTypeOK'
    BY <1>1, <1>4 DEF IngestRepo, GitTypeOK, gitTree
  <2>2. ~misjudged => RoutesAreRight'
    BY <1>2, <1>4 DEF GitInv, RoutesAreRight
  <2> QED
    BY <1>1, <1>4, <2>1, <2>2 DEF GitInv, AttemptBegins, Searching, Ingesting, DoneIsComplete
<1>5. CASE /\ ingested' = ingested \cup (RepoFiles(r) \X {r})
           /\ repoRoots' = repoRoots \ {r} /\ UNCHANGED gpc
  <2>1. GitTypeOK'
    BY <1>1, <1>3, <1>5 DEF IngestRepo, GitTypeOK, gitTree
  <2>2. ASSUME ~misjudged
        PROVE  Ingesting' /\ RoutesAreRight'
    <3>1. Ingesting /\ RoutesAreRight
      BY <2>2 DEF GitInv
    <3>2. \A f \in RepoFiles(r) : RightRoute(f, r)
      BY <1>1, <3>1 DEF Ingesting, RightRoute
    <3>3. RoutesAreRight'
      BY <1>2, <1>5, <3>1, <3>2 DEF RoutesAreRight
    <3>4. WalkIsRight' = WalkIsRight
      BY <1>1, <1>2 DEF WalkIsRight
    <3>5. \A q : (q \in repoRoots \/ RepoFiles(q) \X {q} \subseteq ingested)
                 => (q \in repoRoots' \/ RepoFiles(q) \X {q} \subseteq ingested')
      BY <1>5
    <3>6. Ingesting'
      BY <1>1, <1>2, <1>5, <3>1, <3>4, <3>5 DEF Ingesting
    <3> QED
      BY <3>3, <3>6
  <2> QED
    BY <1>1, <1>5, <2>1, <2>2 DEF IngestRepo, GitInv, AttemptBegins, Searching, DoneIsComplete
<1> QED
  BY <1>4, <1>5 DEF IngestRepo

\* The last repository is ingested: the walk follows, or the job is done.
LEMMA ReposDoneStep ==
  ASSUME GitInv, ReposDone
  PROVE  GitInv'
<1>1. /\ gpc = "repos" /\ repoRoots = {} /\ GitTypeOK
      /\ gpc' = IF fallback THEN "walk" ELSE "done"
      /\ UNCHANGED <<gitTree, failing, work, repoRoots, fallback, skipped, ingested, misjudged>>
  BY DEF ReposDone, GitInv
<1>2. /\ Top' = Top /\ marker' = marker
      /\ \A e : Plain(e)' = Plain(e) /\ Outermost(e)' = Outermost(e) /\ RepoFiles(e)' = RepoFiles(e)
      /\ \A f, q : RightRoute(f, q)' = RightRoute(f, q)
  BY <1>1, SameTree DEF gitTree
<1>3. GitTypeOK'
  BY <1>1 DEF GitTypeOK, gitTree
<1>4. ASSUME ~misjudged
      PROVE  Ingesting' /\ RoutesAreRight' /\ DoneIsComplete'
  <2>1. Ingesting /\ RoutesAreRight
    BY <1>4 DEF GitInv
  <2>2. RoutesAreRight' /\ WalkIsRight' = WalkIsRight
    BY <1>1, <1>2, <2>1 DEF RoutesAreRight, WalkIsRight
  <2>3. Ingesting'
    BY <1>1, <1>2, <2>1, <2>2 DEF Ingesting
  <2>4. DoneIsComplete'
    <3> SUFFICES ASSUME ~fallback, NEW f \in TreeFiles, NEW r \in Dirs \cup {Above},
                        RightRoute(f, r)
                 PROVE  <<f, r>> \in ingested
      BY <1>1, <1>2 DEF DoneIsComplete
    <3>1. Top # {} /\ \A q \in Top : RepoFiles(q) \X {q} \subseteq ingested
      BY <1>1, <2>1 DEF Ingesting
    <3>2. r \in Top /\ f \in RepoFiles(r)
      BY <3>1 DEF RightRoute
    <3> QED
      BY <3>1, <3>2
  <2> QED
    BY <2>2, <2>3, <2>4
<1> QED
  BY <1>1, <1>3, <1>4 DEF GitInv, AttemptBegins, Searching

\* The walk takes what lies in no repository.
LEMMA WalkFallbackStep ==
  ASSUME GitInv, WalkFallback
  PROVE  GitInv'
<1> DEFINE files == {g \in TreeFiles : Walked(g[1]) /\ ~\E e \in failing : IsPrefix(e, g[1])}
<1>1. /\ gpc = "walk" /\ gpc' = "done" /\ GitTypeOK
      /\ ingested' = ingested \cup {<<f, Root>> : f \in files}
      /\ UNCHANGED <<gitTree, failing, work, repoRoots, fallback, skipped, misjudged>>
  BY DEF WalkFallback, GitInv
<1>2. /\ Top' = Top /\ marker' = marker
      /\ \A f, q : RightRoute(f, q)' = RightRoute(f, q)
  BY <1>1, SameTree DEF gitTree
<1>3. GitTypeOK'
  <2>1. {<<f, Root>> : f \in files} \subseteq TreeFiles \X (Dirs \cup {Above})
    BY TreeAssumption
  <2> HIDE DEF files
  <2> QED
    BY <1>1, <2>1 DEF GitTypeOK, gitTree
<1>4. ASSUME ~misjudged
      PROVE  RoutesAreRight' /\ DoneIsComplete'
  <2>1. RoutesAreRight /\ Ingesting /\ fallback /\ repoRoots = {} /\ Top = {} /\ WalkIsRight
    BY <1>1, <1>4 DEF GitInv, Ingesting
  <2>2. \A f \in TreeFiles : f[1] \in Dirs
    BY DEF TreeFiles
  <2>3. \A f \in TreeFiles : f \in files <=> ~Hidden(f[1]) /\ Plain(f[1])
    BY <2>1, <2>2 DEF WalkIsRight, Walked
  <2>4. \A f \in TreeFiles : f \in files => RightRoute(f, Root)
    BY <2>1, <2>3 DEF RightRoute
  <2> HIDE DEF files
  <2>5. files \subseteq TreeFiles
    BY DEF files
  <2>6. RoutesAreRight'
    BY <1>1, <1>2, <2>1, <2>4, <2>5 DEF RoutesAreRight
  <2>7. DoneIsComplete'
    <3> SUFFICES ASSUME NEW f \in TreeFiles, NEW r \in Dirs \cup {Above}, RightRoute(f, r)
                 PROVE  <<f, r>> \in ingested'
      BY <1>2 DEF DoneIsComplete
    <3>1. CASE Outermost(r) /\ marker[r] # "submodule" /\ f \in RepoFiles(r)
      <4>1. r \in Dirs /\ RepoFiles(r) \X {r} \subseteq ingested
        BY <1>1, <2>1, <3>1 DEF Ingesting, Outermost
      <4> QED
        BY <1>1, <3>1, <4>1
    <3>2. CASE r = Root /\ ~Hidden(f[1]) /\ Plain(f[1])
      BY <1>1, <2>3, <3>2
    <3> QED
      BY <2>1, <3>1, <3>2 DEF RightRoute
  <2> QED
    BY <2>6, <2>7
<1> QED
  BY <1>1, <1>3, <1>4 DEF GitInv, AttemptBegins, Searching, Ingesting

\* The job starts over.
LEMMA RunAgainStep ==
  ASSUME GitInv, RunAgain
  PROVE  GitInv'
<1>1. /\ gpc' = "ask" /\ work' = {} /\ repoRoots' = {} /\ fallback' = FALSE /\ skipped' = {}
      /\ failing' \subseteq failing /\ GitTypeOK /\ UNCHANGED <<gitTree, ingested, misjudged>>
  BY DEF RunAgain, GitInv
<1>2. GitTypeOK'
  BY <1>1 DEF GitTypeOK, gitTree
<1>3. ~misjudged => RoutesAreRight'
  BY <1>1, SameTree DEF GitInv, RoutesAreRight
<1> QED
  BY <1>1, <1>2, <1>3 DEF GitInv, AttemptBegins, Searching, Ingesting, DoneIsComplete

\* The plan is carried out; the job's state is dropped.
LEMMA PlanDoneStep ==
  ASSUME GitInv, PlanDone
  PROVE  GitInv'
<1>1. /\ gpc' = "idle" /\ marker' = [d \in Dirs |-> "none"] /\ above' = FALSE /\ failing' = {}
      /\ work' = {} /\ repoRoots' = {} /\ fallback' = FALSE
      /\ skipped' = {} /\ ingested' = {} /\ misjudged' = FALSE
  BY DEF PlanDone
<1>2. GitTypeOK'
  <2>1. [d \in Dirs |-> "none"] \in [Dirs -> Markers]
    BY DEF Markers
  <2> QED
    BY <1>1, <2>1 DEF GitTypeOK
<1> QED
  BY <1>1, <1>2 DEF GitInv, AttemptBegins, Searching, Ingesting, RoutesAreRight, DoneIsComplete

\* The other parts of the journey leave the job alone.
LEMMA GitFrame ==
  ASSUME GitInv, UNCHANGED gitVars
  PROVE  GitInv'
<1>1. /\ UNCHANGED <<gitTree, failing, gpc, work, repoRoots, fallback, skipped, ingested, misjudged>>
      /\ marker' = marker /\ above' = above
  BY DEF gitVars, gitTree
<1>2. /\ Top' = Top
      /\ \A e : /\ GitRepo(e)' = GitRepo(e) /\ Outermost(e)' = Outermost(e)
                /\ Plain(e)' = Plain(e) /\ RepoFiles(e)' = RepoFiles(e)
      /\ \A f, q : RightRoute(f, q)' = RightRoute(f, q)
  BY <1>1, SameTree
<1>3. \A e : Enterable(e)' = Enterable(e)
  BY <1>1, <1>2 DEF Enterable
<1>4. GitTypeOK' = GitTypeOK /\ AttemptBegins' = AttemptBegins
  BY <1>1 DEF GitTypeOK, AttemptBegins
<1>5. SearchIsOutward' = SearchIsOutward /\ SearchCovers' = SearchCovers
  BY <1>1, <1>2, <1>3 DEF SearchIsOutward, SearchCovers
<1>6. WalkIsRight' = WalkIsRight
  BY <1>1, <1>2 DEF WalkIsRight
<1>7. Searching' = Searching /\ Ingesting' = Ingesting
  BY <1>1, <1>2, <1>5, <1>6 DEF Searching, Ingesting
<1>8. RoutesAreRight' = RoutesAreRight /\ DoneIsComplete' = DoneIsComplete
  BY <1>1, <1>2 DEF RoutesAreRight, DoneIsComplete
<1> QED
  BY <1>1, <1>4, <1>7, <1>8 DEF GitInv

\* Every step keeps the invariant of the job.
LEMMA NextGit == GitInv /\ [JourneyNext]_journeyVars => GitInv'
<1> SUFFICES ASSUME GitInv, [JourneyNext]_journeyVars PROVE GitInv'
  OBVIOUS
<1>1. CASE GitNext
  BY <1>1, AskGitStep, SearchEndsStep, ReposDoneStep, WalkFallbackStep, RunAgainStep,
     VisitDirStep, IngestRepoStep DEF GitNext
<1>2. CASE PlanDone
  BY <1>2, PlanDoneStep
<1>3. CASE UNCHANGED gitVars
  BY <1>3, GitFrame
<1> QED
  BY <1>1, <1>2, <1>3 DEF JourneyNext, ReadCandidate, HandOff, journeyVars

-----------------------------------------------------------------------------
(* Theorems.                                                                *)

\* The invariant of the Git-aware ingest job holds on every tree and whatever
\* fails on the way.
THEOREM GitInvariant == JourneySpec => []GitInv
<1>1. JourneyInit => GitInv
  BY GitStarts DEF JourneyInit
<1> QED
  BY <1>1, NextGit, PTL DEF JourneySpec

\* Only selected files are ingested, and all of them once the job is done
\* (build_git_ingest_plan, ingest_git_repo, ingest_walk_root).
THEOREM SelectionAlwaysExact == JourneySpec => []SelectionIsExact
<1>1. GitInv => SelectionIsExact
  <2> SUFFICES ASSUME GitInv, ~misjudged
               PROVE  /\ \A i \in ingested : Selected(i[1])
                      /\ gpc = "done" =>
                           \A f \in TreeFiles : Selected(f) => \E i \in ingested : i[1] = f
    BY DEF SelectionIsExact
  <2>1. RoutesAreRight /\ DoneIsComplete /\ ingested \subseteq TreeFiles \X (Dirs \cup {Above})
    BY DEF GitInv, GitTypeOK
  <2>2. \A i \in ingested : i[1] \in TreeFiles /\ i[2] \in Dirs \cup {Above}
    BY <2>1
  <2>3. \A i \in ingested : Selected(i[1])
    BY <2>1, <2>2, SelectedIsRouted DEF RoutesAreRight
  <2>4. ASSUME gpc = "done", NEW f \in TreeFiles, Selected(f)
        PROVE  \E i \in ingested : i[1] = f
    <3>1. PICK r \in Dirs \cup {Above} : RightRoute(f, r)
      BY <2>4, SelectedIsRouted
    <3>2. <<f, r>> \in ingested /\ <<f, r>>[1] = f
      BY <2>1, <2>4, <3>1 DEF DoneIsComplete
    <3> QED
      BY <3>2
  <2> QED
    BY <2>3, <2>4
<1> QED
  BY <1>1, GitInvariant, PTL

\* No file reaches the upsert along two routes, however many attempts the job
\* needs: the repositories found do not overlap, nor does the walk with them.
THEOREM RoutesNeverOverlap == JourneySpec => []OneRoutePerFile
<1>1. GitInv => OneRoutePerFile
  <2> SUFFICES ASSUME GitInv, ~misjudged, NEW i \in ingested, NEW j \in ingested, i[1] = j[1]
               PROVE  i[2] = j[2]
    BY DEF OneRoutePerFile
  <2>1. /\ i[1] \in TreeFiles /\ j[1] \in TreeFiles
        /\ RightRoute(i[1], i[2]) /\ RightRoute(j[1], j[2])
    BY DEF GitInv, GitTypeOK, RoutesAreRight
  <2> QED
    BY <2>1, OneRightRoute
<1> QED
  BY <1>1, GitInvariant, PTL

=============================================================================
