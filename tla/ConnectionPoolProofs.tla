------------------------ MODULE ConnectionPoolProofs ------------------------
(***************************************************************************)
(* Proofs about ConnectionPool, for any pool size and any number of        *)
(* workers and requests.  The invariant says that a task never holds more  *)
(* than one connection, holds one exactly while it is at database work or  *)
(* rereads the file it replans, and owns the write lock only in a write.   *)
(***************************************************************************)
EXTENDS ConnectionPool, FiniteSetTheorems, TLAPS

\* One connection for a task.
OneConnection ==
  \A c, d \in Conns : holder[c] = holder[d] /\ holder[c] # Nobody => c = d

\* Who holds a connection is past pool.get() and not yet past its block.
HoldersWork ==
  \A c \in Conns : holder[c] # Nobody => HasConnection(holder[c])

\* Database work needs a connection, and a replan keeps it at its file.
WorkIsConnected ==
  \A t \in Tasks : HasConnection(t) => \E c \in Conns : holder[c] = t

\* The write lock belongs to a task in a write transaction.
WriterWorks ==
  writer # Nobody => AtDatabase(writer) /\ phase[writer] \in Writes

PoolInv == PoolTypeOK /\ OneConnection /\ HoldersWork /\ WorkIsConnected /\ WriterWorks

-----------------------------------------------------------------------------
\* The phases that follow a phase are phases.
LEMMA NextPhasesType ==
  ASSUME NEW p \in Database \cup Elsewhere
  PROVE  NextPhases(p) \subseteq Database \cup Elsewhere
BY DEF NextPhases, Database, Elsewhere, Reads, Writes

\* A block that keeps its connection is at database work or rereads its file, and
\* only such a block gets to that file.
LEMMA SameConnectionPhases ==
  ASSUME NEW p, NEW q
  PROVE  /\ <<p, q>> \in SameConnection =>
              p \in Database \cup {"reread"} /\ q \in Writes \cup {"reread"}
         /\ q \in NextPhases(p) /\ q = "reread" /\ p \in Database \cup Elsewhere =>
              <<p, q>> \in SameConnection
<1>1. <<p, q>> \in SameConnection =>
        p \in Database \cup {"reread"} /\ q \in Writes \cup {"reread"}
  BY DEF SameConnection, Reads, Writes, Database
<1>2. ASSUME q \in NextPhases(p), q = "reread", p \in Database \cup Elsewhere
      PROVE  p = "drop_job"
  BY <1>2 DEF NextPhases, Database, Elsewhere, Reads, Writes
<1> QED  BY <1>1, <1>2 DEF SameConnection

\* Reading, writing and other phases are told apart.
LEMMA PhasesDisjoint == Elsewhere \cap Database = {}
BY DEF Elsewhere, Database, Reads, Writes

\* Going on to another phase preserves the invariant; only a task that has a
\* connection can take it along.
LEMMA EnterPreserves ==
  ASSUME PoolInv, NEW t \in Tasks, NEW p \in Database \cup Elsewhere, Enter(t, p),
         <<phase[t], p>> \in SameConnection => HasConnection(t),
         p = "reread" => <<phase[t], p>> \in SameConnection
  PROVE  PoolInv'
<1> DEFINE stays == <<phase[t], p>> \in SameConnection
<1> USE DEF PoolInv
<1>1. /\ phase' = [phase EXCEPT ![t] = p]
      /\ waiting' = IF p \in Database /\ ~stays THEN waiting \cup {t} ELSE waiting \ {t}
      /\ holder' = IF stays THEN holder ELSE Without(t)
      /\ writer' = IF writer = t THEN Nobody ELSE writer
  BY DEF Enter
<1>2. phase'[t] = p /\ \A u \in Tasks \ {t} : phase'[u] = phase[u]
  BY <1>1 DEF PoolTypeOK
<1>3. \A c \in Conns : holder'[c] # Nobody => holder'[c] = holder[c]
  BY <1>1 DEF Without
<1>4. \A u \in Tasks \ {t} : HasConnection(u)' <=> HasConnection(u)
  BY <1>1, <1>2 DEF HasConnection, AtDatabase
<1>5. \A c \in Conns : ~stays => holder'[c] # t
  BY <1>1, PoolAssumption DEF Without, Tasks
<1>6. stays => p \in Database \cup {"reread"} /\ t \notin waiting'
  BY <1>1, SameConnectionPhases DEF Database
<1>7. stays <=> HasConnection(t)'
  BY <1>1, <1>2, <1>6 DEF HasConnection, AtDatabase
<1> HIDE DEF stays
<1>8. PoolTypeOK'
  <2>1. waiting' \subseteq {u \in Tasks : phase'[u] \in Database}
    BY <1>1, <1>2 DEF PoolTypeOK
  <2>2. holder' \in [Conns -> Tasks \cup {Nobody}]
    BY <1>1 DEF PoolTypeOK, Without
  <2> QED  BY <2>1, <2>2, <1>1 DEF PoolTypeOK
<1>9. OneConnection'
  BY <1>3 DEF OneConnection
<1>10. HoldersWork'
  <2> SUFFICES ASSUME NEW c \in Conns, holder'[c] # Nobody
               PROVE  HasConnection(holder[c])' /\ holder'[c] = holder[c]
    BY <1>3 DEF HoldersWork
  <2>1. holder'[c] = holder[c] /\ HasConnection(holder[c]) /\ holder[c] \in Tasks
    BY <1>3 DEF HoldersWork, PoolTypeOK
  <2>2. CASE holder[c] = t
    BY <2>1, <2>2, <1>5, <1>7
  <2>3. CASE holder[c] # t
    BY <2>1, <2>3, <1>4
  <2> QED  BY <2>1, <2>2, <2>3
<1>11. WorkIsConnected'
  <2> SUFFICES ASSUME NEW u \in Tasks, HasConnection(u)'
               PROVE  \E c \in Conns : holder'[c] = u
    BY DEF WorkIsConnected
  <2>1. CASE u = t
    BY <2>1, <1>1, <1>7 DEF WorkIsConnected, stays
  <2>2. CASE u # t
    <3>1. PICK c \in Conns : holder[c] = u
      BY <2>2, <1>4 DEF WorkIsConnected
    <3> QED  BY <3>1, <2>2, <1>1 DEF Without
  <2> QED  BY <2>1, <2>2
<1>12. WriterWorks'
  <2> SUFFICES ASSUME writer' # Nobody
               PROVE  AtDatabase(writer)' /\ phase'[writer'] \in Writes
    BY DEF WriterWorks
  <2>1. writer' = writer /\ writer # t /\ writer \in Tasks
    BY <1>1 DEF PoolTypeOK
  <2>2. AtDatabase(writer) /\ phase[writer] \in Writes
    BY <2>1 DEF WriterWorks
  <2> QED  BY <2>1, <2>2, <1>1, <1>2 DEF AtDatabase
<1> QED  BY <1>8, <1>9, <1>10, <1>11, <1>12

\* Checking out a free connection.
LEMMA AcquirePreserves ==
  ASSUME PoolInv, NEW t \in Tasks, Acquire(t)
  PROVE  PoolInv'
<1> USE DEF PoolInv
<1>1. PICK c \in Free : /\ holder' = [holder EXCEPT ![c] = t]
                        /\ waiting' = waiting \ {t}
                        /\ UNCHANGED <<phase, writer>>
  BY DEF Acquire
<1>2. c \in Conns /\ holder[c] = Nobody /\ t # Nobody
  BY <1>1, PoolAssumption DEF Free, Tasks
<1>3. holder'[c] = t /\ \A d \in Conns \ {c} : holder'[d] = holder[d]
  BY <1>1, <1>2 DEF PoolTypeOK
<1>4. t \in waiting /\ phase[t] \in Database /\ phase[t] # "reread"
  BY PhasesDisjoint DEF Acquire, PoolTypeOK, Elsewhere
<1>5. \A d \in Conns : holder[d] # t
  BY <1>2, <1>4 DEF HoldersWork, HasConnection, AtDatabase
<1>6. HasConnection(t)' /\ \A u \in Tasks \ {t} : HasConnection(u)' <=> HasConnection(u)
  BY <1>1, <1>4 DEF HasConnection, AtDatabase
<1>7. PoolTypeOK'
  BY <1>1, <1>2 DEF PoolTypeOK
<1>8. OneConnection'
  BY <1>2, <1>3, <1>5 DEF OneConnection
<1>9. HoldersWork'
  <2> SUFFICES ASSUME NEW d \in Conns, holder'[d] # Nobody
               PROVE  HasConnection(holder[d])'
    BY DEF HoldersWork
  <2>1. CASE d = c
    BY <2>1, <1>3, <1>6
  <2>2. CASE d # c
    BY <2>2, <1>1, <1>3 DEF HoldersWork, HasConnection, AtDatabase
  <2> QED  BY <2>1, <2>2
<1>10. WorkIsConnected'
  <2> SUFFICES ASSUME NEW u \in Tasks, HasConnection(u)'
               PROVE  \E d \in Conns : holder'[d] = u
    BY DEF WorkIsConnected
  <2>1. CASE u = t  BY <2>1, <1>2, <1>3
  <2>2. CASE u # t
    <3>1. PICK d \in Conns : holder[d] = u
      BY <2>2, <1>6 DEF WorkIsConnected
    <3>2. d # c
      BY <3>1, <1>2, PoolAssumption DEF Tasks
    <3> QED  BY <3>1, <3>2, <1>3
  <2> QED  BY <2>1, <2>2
<1>11. WriterWorks'
  BY <1>1 DEF WriterWorks, AtDatabase
<1> QED  BY <1>7, <1>8, <1>9, <1>10, <1>11

\* Taking the write lock.
LEMMA LockPreserves ==
  ASSUME PoolInv, NEW t \in Tasks, LockDatabase(t)
  PROVE  PoolInv'
BY DEF LockDatabase, PoolInv, PoolTypeOK, OneConnection, HoldersWork, WorkIsConnected,
       WriterWorks, HasConnection, AtDatabase, Conns

\* Every step of the pool's users preserves the invariant.
LEMMA PoolStep ==
  ASSUME PoolInv, PoolNext
  PROVE  PoolInv'
<1>1. \A u \in Tasks : phase[u] \in Database \cup Elsewhere
  BY DEF PoolInv, PoolTypeOK
<1>2. ASSUME NEW t \in Tasks, StepElsewhere(t)  PROVE PoolInv'
  <2>1. PICK p \in NextPhases(phase[t]) : Enter(t, p)
    BY <1>2 DEF StepElsewhere
  <2>2. p \in Database \cup Elsewhere
    BY <1>1, <2>1, NextPhasesType
  <2>3. <<phase[t], p>> \in SameConnection => HasConnection(t)
    BY <1>2, SameConnectionPhases, PhasesDisjoint DEF StepElsewhere, HasConnection
  <2>4. p = "reread" => <<phase[t], p>> \in SameConnection
    BY <1>1, <2>1, SameConnectionPhases
  <2> QED  BY <2>1, <2>2, <2>3, <2>4, EnterPreserves
<1>3. ASSUME NEW t \in Tasks, FinishDatabase(t)  PROVE PoolInv'
  <2>1. PICK p \in NextPhases(phase[t]) : Enter(t, p)
    BY <1>3 DEF FinishDatabase
  <2>2. p \in Database \cup Elsewhere
    BY <1>1, <2>1, NextPhasesType
  <2>3. HasConnection(t)
    BY <1>3 DEF FinishDatabase, HasConnection
  <2>4. p = "reread" => <<phase[t], p>> \in SameConnection
    BY <1>1, <2>1, SameConnectionPhases
  <2> QED  BY <2>1, <2>2, <2>3, <2>4, EnterPreserves
<1>4. ASSUME NEW t \in Tasks, StatementFails(t) \/ TimeOut(t)  PROVE PoolInv'
  <2>1. Enter(t, Home(t))
    BY <1>4 DEF StatementFails, TimeOut
  <2>2. /\ Home(t) \in Elsewhere /\ Home(t) # "reread"
        /\ <<phase[t], Home(t)>> \notin SameConnection
    BY DEF Home, Elsewhere, SameConnection
  <2> QED  BY <2>1, <2>2, EnterPreserves
<1>5. ASSUME NEW r \in Requests, NEW q \in Entries, StartRequest(r, q)  PROVE PoolInv'
  <2>1. Enter(r, q) /\ r \in Tasks /\ phase[r] = "idle"
    BY <1>5 DEF StartRequest, Tasks
  <2>2. q \in Database /\ q # "reread" /\ <<phase[r], q>> \notin SameConnection
    BY <2>1 DEF Entries, Database, Reads, Writes, SameConnection
  <2> QED  BY <2>1, <2>2, EnterPreserves
<1> QED
  BY <1>2, <1>3, <1>4, <1>5, AcquirePreserves, LockPreserves DEF PoolNext, TaskStep

\* The invariant holds in every behaviour of the pool.
LEMMA PoolInvariant == PoolSpec => []PoolInv
<1>1. PoolInit => PoolInv
  <2> SUFFICES ASSUME PoolInit  PROVE PoolInv
    OBVIOUS
  <2>1. PoolTypeOK
    BY DEF PoolInit, PoolTypeOK, Elsewhere, Database
  <2>2. \A t \in Tasks : ~HasConnection(t)
    BY PhasesDisjoint DEF PoolInit, HasConnection, AtDatabase, Elsewhere
  <2> QED
    BY <2>1, <2>2 DEF PoolInit, PoolInv, OneConnection, HoldersWork, WorkIsConnected, WriterWorks
<1>2. PoolInv /\ UNCHANGED poolVars => PoolInv'
  BY DEF poolVars, PoolInv, PoolTypeOK, OneConnection, HoldersWork, WorkIsConnected,
         WriterWorks, HasConnection, AtDatabase, Conns
<1>3. PoolInv /\ [PoolNext]_poolVars => PoolInv'
  BY <1>2, PoolStep
<1> QED  BY <1>1, <1>3, PTL DEF PoolSpec

-----------------------------------------------------------------------------
\* Types of the tasks, the pool and the lock, for any size.
THEOREM PoolTypeCorrect == PoolSpec => []PoolTypeOK
<1>1. PoolInv => PoolTypeOK
  BY DEF PoolInv
<1> QED  BY <1>1, PoolInvariant, PTL

\* README.md:52 for every pool size and every number of workers and requests: if
\* the pool is larger than the number of workers, not all connections can be
\* with workers, since no worker ever holds two.
THEOREM RequestsAreNotStarved == PoolSpec => []NoRequestBehindWorkers
<1>1. PoolInv => NoRequestBehindWorkers
  <2> SUFFICES ASSUME PoolInv, PoolSize > Cardinality(Workers),
                      \A c \in Conns : holder[c] \in Workers
               PROVE  FALSE
    BY DEF NoRequestBehindWorkers
  <2>1. IsFiniteSet(Conns) /\ Cardinality(Conns) = PoolSize
    BY FS_Interval, PoolAssumption DEF Conns
  <2>2. IsFiniteSet(Workers) /\ Cardinality(Workers) \in Nat
    BY FS_CardinalityType, PoolAssumption
  <2>3. holder \in [Conns -> Workers]
    BY DEF PoolInv, PoolTypeOK
  <2>4. \E c, d \in Conns : c # d /\ holder[c] = holder[d]
    BY <2>1, <2>2, <2>3, FS_PigeonHole, PoolAssumption
  <2> QED
    BY <2>4, PoolAssumption DEF PoolInv, OneConnection
<1> QED  BY <1>1, PoolInvariant, PTL

\* For every pool size and number of tasks: when nobody can get a connection, some
\* holder waits for nobody (it is at its statements, or rereads the file it
\* replans), and who has the write lock is at its statements.  Waiting cannot
\* become circular.
THEOREM WaitsAreNotCircular == PoolSpec => []WaitersHaveRunner
<1>1. PoolInv => WaitersHaveRunner
  <2> SUFFICES ASSUME PoolInv  PROVE WaitersHaveRunner
    OBVIOUS
  <2>1. ASSUME writer # Nobody
        PROVE  /\ AtDatabase(writer) /\ Running(writer)
               /\ \E c \in Conns : holder[c] = writer
    <3>1. AtDatabase(writer) /\ phase[writer] \in Writes /\ writer \in Tasks
      BY <2>1 DEF PoolInv, WriterWorks, PoolTypeOK
    <3> QED  BY <3>1 DEF PoolInv, WorkIsConnected, HasConnection, Running
  <2>2. ASSUME Free = {}  PROVE \E c \in Conns : Running(holder[c])
    <3>1. 1 \in Conns /\ holder[1] # Nobody
      BY <2>2, PoolAssumption DEF Conns, Free
    <3>2. HasConnection(holder[1])
      BY <3>1 DEF PoolInv, HoldersWork
    <3>3. CASE writer = Nobody
      BY <3>1, <3>2, <3>3 DEF Running, HasConnection
    <3>4. CASE writer # Nobody
      BY <3>4, <2>1
    <3> QED  BY <3>3, <3>4
  <2> QED  BY <2>1, <2>2 DEF WaitersHaveRunner, Held
<1> QED  BY <1>1, PoolInvariant, PTL

=============================================================================
