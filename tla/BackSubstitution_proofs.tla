------------------------ MODULE BackSubstitution_proofs ------------------------
(***************************************************************************)
(* Proofs about the parallel loop of my_dgesv, for every order, number of  *)
(* right-hand sides, team size, schedule and arithmetic.                   *)
(***************************************************************************)
EXTENDS BackSubstitutionSerial, FiniteSetTheorems, TLAPS

\* Where the threads are in each phase of the region.  A thread waits at the
\* barrier only when its schedule has nothing left for it.
TeamInv ==
  /\ region = "before" => \A th \in Threads : tpc[th] = "idle"
  /\ region = "after" => \A th \in Threads : tpc[th] = "barrier"
  /\ \A th \in Threads : tpc[th] = "barrier" => pending \cap Share(th) = {}

\* my_dgesv returns when it leaves the region.
LeftInv == ret # Running <=> region = "after"

\* A thread works on the column.
Owned(c) == \E th \in Threads : Active(th) /\ tj[th] = c

\* The column was handed out and the thread that took it is done with it.
Solved(c) == region # "before" /\ c \notin pending /\ ~Owned(c)

\* The rows whose diagonal entry the thread has already tested.
Tested(th) == {w \in Row : w > ti[th] \/ (w = ti[th] /\ tpc[th] = "store")}

TinyPivot == \E w \in Row : Tiny(a[w][w])

\* The flag is up only for a reason, and it is up as soon as anybody has come
\* across a tiny entry.
FlagInv ==
  /\ error_flag = 1 => Col # {} /\ TinyPivot
  /\ \A th \in Threads : Active(th) =>
       \A w \in Tested(th) : Tiny(a[w][w]) => error_flag = 1
  /\ \A c \in Col : Solved(c) /\ TinyPivot => error_flag = 1
  /\ region = "after" => (ret = -1 <=> error_flag = 1)

\* The serial result for the a and b the region was entered with.
X  == SerialX(a, bIn)
ST == SerialT(a, bIn)

\* How far a column is: its rows below ti[th] are solved, the others are as
\* they were, and t is the serial accumulator after the iterations done.
ThreadSerial(th) ==
  /\ \A w \in Row :
       b[w][tj[th]] = IF w > ti[th] THEN X[w][tj[th]] ELSE bIn[w][tj[th]]
  /\ tpc[th] \in {"inner", "store"} =>
       /\ tk[th] \subseteq Above(ti[th])
       /\ tt[th] = ST[ti[th]][tj[th]][Above(ti[th]) \ tk[th]]
  /\ tpc[th] = "store" => tk[th] = {}

\* Every column is untouched, in work or equal to the serial result.
SerialInv ==
  region # "before" /\ IsSerial(a, bIn, X, ST) =>
    /\ \A c \in pending : \A w \in Row : b[w][c] = bIn[w][c]
    /\ \A c \in Col : Solved(c) => \A w \in Row : b[w][c] = X[w][c]
    /\ \A th \in Threads : Active(th) => ThreadSerial(th)

-----------------------------------------------------------------------------
USE DEF Remaining, InnerLoop, StartInner, Flag, NextRow, Result

\* Every step keeps indices and types.
LEMMA BackTypeStep ==
  BackTypeOK /\ [BackNext \/ BackReturned]_backVars => BackTypeOK'
<1> SUFFICES ASSUME BackTypeOK, [BackNext \/ BackReturned]_backVars PROVE BackTypeOK'
  OBVIOUS
<1> USE SizeAssumption
<1>1. CASE Fork
  BY <1>1 DEF Fork, BackTypeOK, Active
<1>2. ASSUME NEW th \in Threads, Fetch(th) PROVE BackTypeOK'
  BY <1>2 DEF Fetch, BackTypeOK, Active, Col
<1>3. ASSUME NEW th \in Threads, Arrive(th) PROVE BackTypeOK'
  BY <1>3 DEF Arrive, BackTypeOK, Active
<1>4. ASSUME NEW th \in Threads, LoadRow(th) PROVE BackTypeOK'
  BY <1>4 DEF LoadRow, BackTypeOK, Active, Row, MatrixB
<1>5. ASSUME NEW th \in Threads, ColumnDone(th) PROVE BackTypeOK'
  BY <1>5 DEF ColumnDone, BackTypeOK, Active
<1>6. ASSUME NEW th \in Threads, Inner(th) PROVE BackTypeOK'
  BY <1>6, NumClosed DEF Inner, BackTypeOK, Active, MatrixA, MatrixB
<1>7. ASSUME NEW th \in Threads, Test(th) PROVE BackTypeOK'
  BY <1>7 DEF Test, BackTypeOK, Active
<1>8. ASSUME NEW th \in Threads, Store(th) PROVE BackTypeOK'
  BY <1>8, NumClosed DEF Store, BackTypeOK, Active, MatrixA, MatrixB, Row
<1>9. CASE Join
  BY <1>9 DEF Join, BackTypeOK, Active, threadVars
<1>10. CASE UNCHANGED backVars
  BY <1>10 DEF backVars, regionVars, BackTypeOK, Active
<1> QED
  BY <1>1, <1>2, <1>3, <1>4, <1>5, <1>6, <1>7, <1>8, <1>9, <1>10
     DEF BackNext, Step, BackReturned

\* All indices of the loop stay within a and b, and all variables keep their
\* types (lines 48-69).
THEOREM BackTypeCorrect == BackSpec => []BackTypeOK
<1>1. BackInit => BackTypeOK
  BY NumClosed, SizeAssumption, InputAssumption
     DEF BackInit, BackTypeOK, Active, Running
<1> QED
  BY <1>1, BackTypeStep, PTL DEF BackSpec

\* Every step keeps the threads on columns of their own.
LEMMA OneThreadStep ==
  BackTypeOK /\ OneThreadPerColumn /\ [BackNext \/ BackReturned]_backVars
    => OneThreadPerColumn'
<1> SUFFICES ASSUME BackTypeOK, OneThreadPerColumn, [BackNext \/ BackReturned]_backVars
             PROVE  OneThreadPerColumn'
  OBVIOUS
<1> USE DEF OneThreadPerColumn, Active, BackTypeOK
<1>1. CASE Fork
  BY <1>1 DEF Fork
<1>2. ASSUME NEW th \in Threads, Fetch(th) PROVE OneThreadPerColumn'
  BY <1>2 DEF Fetch
<1>3. ASSUME NEW th \in Threads, Arrive(th) PROVE OneThreadPerColumn'
  BY <1>3 DEF Arrive
<1>4. ASSUME NEW th \in Threads, LoadRow(th) PROVE OneThreadPerColumn'
  BY <1>4 DEF LoadRow
<1>5. ASSUME NEW th \in Threads, ColumnDone(th) PROVE OneThreadPerColumn'
  BY <1>5 DEF ColumnDone
<1>6. ASSUME NEW th \in Threads, Inner(th) PROVE OneThreadPerColumn'
  BY <1>6 DEF Inner
<1>7. ASSUME NEW th \in Threads, Test(th) PROVE OneThreadPerColumn'
  BY <1>7 DEF Test
<1>8. ASSUME NEW th \in Threads, Store(th) PROVE OneThreadPerColumn'
  BY <1>8 DEF Store
<1>9. CASE Join
  BY <1>9 DEF Join, threadVars
<1>10. CASE UNCHANGED backVars
  BY <1>10 DEF backVars, regionVars
<1> QED
  BY <1>1, <1>2, <1>3, <1>4, <1>5, <1>6, <1>7, <1>8, <1>9, <1>10
     DEF BackNext, Step, BackReturned

\* No two threads ever work on one column (lines 49-63), so their accesses to
\* b do not race.
THEOREM NoTwoThreadsOnAColumn == BackSpec => []OneThreadPerColumn
<1>1. BackInit => OneThreadPerColumn
  BY DEF BackInit, OneThreadPerColumn, Active
<1> QED
  BY <1>1, OneThreadStep, BackTypeCorrect, PTL DEF BackSpec

\* Every step keeps the phases of the region.
LEMMA TeamStep ==
  BackTypeOK /\ TeamInv /\ [BackNext \/ BackReturned]_backVars => TeamInv'
<1> SUFFICES ASSUME BackTypeOK, TeamInv, [BackNext \/ BackReturned]_backVars PROVE TeamInv'
  OBVIOUS
<1> USE DEF TeamInv, BackTypeOK
<1>1. CASE Fork
  BY <1>1 DEF Fork
<1>2. ASSUME NEW th \in Threads, Fetch(th) PROVE TeamInv'
  BY <1>2 DEF Fetch
<1>3. ASSUME NEW th \in Threads, Arrive(th) PROVE TeamInv'
  BY <1>3 DEF Arrive
<1>4. ASSUME NEW th \in Threads, LoadRow(th) PROVE TeamInv'
  BY <1>4 DEF LoadRow
<1>5. ASSUME NEW th \in Threads, ColumnDone(th) PROVE TeamInv'
  BY <1>5 DEF ColumnDone
<1>6. ASSUME NEW th \in Threads, Inner(th) PROVE TeamInv'
  BY <1>6 DEF Inner
<1>7. ASSUME NEW th \in Threads, Test(th) PROVE TeamInv'
  BY <1>7 DEF Test
<1>8. ASSUME NEW th \in Threads, Store(th) PROVE TeamInv'
  BY <1>8 DEF Store
<1>9. CASE Join
  BY <1>9 DEF Join, threadVars, Running
<1>10. CASE UNCHANGED backVars
  BY <1>10 DEF backVars, regionVars
<1> QED
  BY <1>1, <1>2, <1>3, <1>4, <1>5, <1>6, <1>7, <1>8, <1>9, <1>10
     DEF BackNext, Step, BackReturned

\* The phases of the region and what waiting at the barrier means.
LEMMA TeamInvariant == BackSpec => []TeamInv
<1>1. BackInit => TeamInv
  BY DEF BackInit, TeamInv
<1> QED
  BY <1>1, TeamStep, BackTypeCorrect, PTL DEF BackSpec

\* When the loop is over every column was handed out and nobody works on it.
LEMMA AllSolved ==
  ASSUME BackTypeOK, TeamInv, region # "before",
         \A th \in Threads : tpc[th] = "barrier",
         NEW c \in Col
  PROVE  Solved(c)
<1>1. PICK th \in Threads : c \in Share(th)
  BY ScheduleCovers
<1>2. c \notin pending
  BY <1>1 DEF TeamInv
<1>3. ~Owned(c)
  BY DEF Owned, Active
<1> QED
  BY <1>2, <1>3 DEF Solved

\* Every step keeps the flag up exactly when it has to be.
LEMMA FlagStep ==
  BackTypeOK /\ TeamInv /\ FlagInv /\ [BackNext \/ BackReturned]_backVars => FlagInv'
<1> SUFFICES ASSUME BackTypeOK, TeamInv, FlagInv, [BackNext \/ BackReturned]_backVars
             PROVE  FlagInv'
  OBVIOUS
<1>1. CASE Fork
  BY <1>1 DEF Fork, FlagInv, Active, Solved, TinyPivot, TeamInv
<1>2. ASSUME NEW th \in Threads, Fetch(th) PROVE FlagInv'
  <2>1. PICK c \in pending : /\ pending' = pending \ {c}
                             /\ tj' = [tj EXCEPT ![th] = c]
    BY <1>2 DEF Fetch
  <2>2. Owned(c)'
    BY <1>2, <2>1 DEF Fetch, Owned, Active, BackTypeOK
  <2>3. ASSUME NEW d \in Col, Solved(d)' PROVE Solved(d)
    <3>1. d # c
      BY <2>2, <2>3 DEF Solved
    <3>2. ASSUME NEW o \in Threads, Active(o), tj[o] = d PROVE FALSE
      <4>1. o # th
        BY <3>2, <1>2 DEF Fetch, Active
      <4>2. Active(o)' /\ tj'[o] = d
        BY <3>2, <4>1, <2>1, <1>2 DEF Fetch, Active, BackTypeOK
      <4> QED
        BY <4>2, <2>3 DEF Solved, Owned
    <3> QED
      BY <3>1, <3>2, <2>1, <2>3, <1>2 DEF Solved, Owned, Fetch
  <2>4. Tested(th)' = {}
    BY <1>2, SizeAssumption DEF Fetch, Tested, BackTypeOK, Row
  <2>5. ASSUME NEW o \in Threads, Active(o)', o # th
        PROVE  Active(o) /\ Tested(o)' = Tested(o)
    BY <2>5, <1>2 DEF Fetch, Active, Tested, BackTypeOK
  <2> QED
    BY <1>2, <2>3, <2>4, <2>5 DEF Fetch, FlagInv, TinyPivot
<1>3. ASSUME NEW th \in Threads, Arrive(th) PROVE FlagInv'
  <2>1. \A o \in Threads : Active(o)' <=> Active(o)
    BY <1>3 DEF Arrive, Active, BackTypeOK
  <2>2. \A o \in Threads : Active(o) => Tested(o)' = Tested(o)
    BY <1>3 DEF Arrive, Active, Tested, BackTypeOK
  <2>3. \A c \in Col : Solved(c)' <=> Solved(c)
    BY <2>1, <1>3 DEF Solved, Owned, Arrive
  <2> QED
    BY <2>1, <2>2, <2>3, <1>3 DEF Arrive, FlagInv, TinyPivot
<1>4. ASSUME NEW th \in Threads, LoadRow(th) PROVE FlagInv'
  <2>1. \A o \in Threads : Active(o)' <=> Active(o)
    BY <1>4 DEF LoadRow, Active, BackTypeOK
  <2>2. \A o \in Threads : Tested(o)' = Tested(o)
    BY <1>4 DEF LoadRow, Tested, BackTypeOK
  <2>3. \A c \in Col : Solved(c)' <=> Solved(c)
    BY <2>1, <1>4 DEF Solved, Owned, LoadRow
  <2> QED
    BY <2>1, <2>2, <2>3, <1>4 DEF LoadRow, FlagInv, TinyPivot
<1>5. ASSUME NEW th \in Threads, ColumnDone(th) PROVE FlagInv'
  <2>1. \A o \in Threads \ {th} :
          (Active(o)' <=> Active(o)) /\ Tested(o)' = Tested(o)
    BY <1>5 DEF ColumnDone, Active, Tested, BackTypeOK
  <2>2. Active(th) /\ ~Active(th)'
    BY <1>5 DEF ColumnDone, Active, BackTypeOK
  <2>3. TinyPivot => error_flag = 1
    <3>1. Tested(th) = Row
      BY <1>5 DEF ColumnDone, Tested, Row, BackTypeOK
    <3> QED
      BY <3>1, <2>2 DEF FlagInv, TinyPivot
  <2>4. TinyPivot' <=> TinyPivot
    BY <1>5 DEF ColumnDone, TinyPivot
  <2> QED
    BY <2>1, <2>2, <2>3, <2>4, <1>5 DEF ColumnDone, FlagInv
<1>6. ASSUME NEW th \in Threads, Inner(th) PROVE FlagInv'
  <2>1. \A o \in Threads : (Active(o)' <=> Active(o)) /\ Tested(o)' = Tested(o)
    BY <1>6 DEF Inner, Active, Tested
  <2>2. \A c \in Col : Solved(c)' <=> Solved(c)
    BY <2>1, <1>6 DEF Solved, Owned, Inner
  <2> QED
    BY <2>1, <2>2, <1>6 DEF Inner, FlagInv, TinyPivot
<1>7. ASSUME NEW th \in Threads, Test(th) PROVE FlagInv'
  <2>1. \A o \in Threads : Active(o)' <=> Active(o)
    BY <1>7 DEF Test, Active, BackTypeOK
  <2>2. \A o \in Threads \ {th} : Tested(o)' = Tested(o)
    BY <1>7 DEF Test, Tested, BackTypeOK
  <2>3. Tested(th)' = Tested(th) \cup {ti[th]}
    BY <1>7 DEF Test, Tested, BackTypeOK
  <2>4. \A c \in Col : Solved(c)' <=> Solved(c)
    BY <2>1, <1>7 DEF Solved, Owned, Test
  <2>5. Tiny(a[ti[th]][ti[th]]) => Col # {} /\ TinyPivot
    BY <1>7 DEF Test, TinyPivot, BackTypeOK, Active
  <2> QED
    BY <2>1, <2>2, <2>3, <2>4, <2>5, <1>7 DEF Test, FlagInv, TinyPivot, TeamInv
<1>8. ASSUME NEW th \in Threads, Store(th) PROVE FlagInv'
  <2>1. \A o \in Threads : Active(o)' <=> Active(o)
    BY <1>8 DEF Store, Active, BackTypeOK
  <2>2. \A o \in Threads : Tested(o)' = Tested(o)
    BY <1>8 DEF Store, Tested, BackTypeOK, Row
  <2>3. \A c \in Col : Solved(c)' <=> Solved(c)
    BY <2>1, <1>8 DEF Solved, Owned, Store
  <2> QED
    BY <2>1, <2>2, <2>3, <1>8 DEF Store, FlagInv, TinyPivot
<1>9. CASE Join
  <2>1. \A c \in Col : Solved(c)' <=> Solved(c)
    BY <1>9 DEF Join, threadVars, Solved, Owned, Active
  <2> QED
    BY <2>1, <1>9 DEF Join, threadVars, FlagInv, TinyPivot, Active, Tested, Running, BackTypeOK
<1>10. CASE UNCHANGED backVars
  BY <1>10 DEF backVars, regionVars, FlagInv, TinyPivot, Active, Tested, Solved, Owned
<1> QED
  BY <1>1, <1>2, <1>3, <1>4, <1>5, <1>6, <1>7, <1>8, <1>9, <1>10
     DEF BackNext, Step, BackReturned

\* The flag is up exactly when it has to be.
LEMMA FlagInvariant == BackSpec => []FlagInv
<1>1. BackInit => FlagInv
  BY DEF BackInit, FlagInv, Active, Solved
<1> QED
  BY <1>1, FlagStep, BackTypeCorrect, TeamInvariant, PTL DEF BackSpec

\* my_dgesv returns -1 after the parallel loop exactly when a diagonal entry
\* is tiny and there is a column (lines 57-69), for every schedule that
\* covers the columns.
THEOREM ErrorsAreReported == BackSpec => []ErrorReported
<1>1. BackTypeOK /\ TeamInv /\ FlagInv /\ LeftInv => ErrorReported
  <2> SUFFICES ASSUME BackTypeOK, TeamInv, FlagInv, LeftInv, ret # Running
               PROVE  ret = -1 <=> Col # {} /\ TinyPivot
    BY DEF ErrorReported, TinyPivot
  <2>1. \A c \in Col : Solved(c)
    BY AllSolved DEF TeamInv, LeftInv
  <2> QED
    BY <2>1 DEF FlagInv, LeftInv
<1>2. BackInit => LeftInv
  BY DEF BackInit, LeftInv
<1>3. LeftInv /\ [BackNext \/ BackReturned]_backVars => LeftInv'
  <2> SUFFICES ASSUME LeftInv, [BackNext \/ BackReturned]_backVars PROVE LeftInv'
    OBVIOUS
  <2>1. CASE Fork
    BY <2>1 DEF Fork, LeftInv
  <2>2. CASE Join
    BY <2>2 DEF Join, LeftInv, Running
  <2>3. CASE UNCHANGED <<region, ret>>
    BY <2>3 DEF LeftInv
  <2> QED
    BY <2>1, <2>2, <2>3
       DEF BackNext, BackReturned, backVars, regionVars, Step, Fetch, Arrive,
           LoadRow, ColumnDone, Inner, Test, Store
<1> QED
  BY <1>1, <1>2, <1>3, BackTypeCorrect, TeamInvariant, FlagInvariant, PTL
     DEF BackSpec

\* A step that leaves a thread and its column of b alone.
LEMMA Undisturbed ==
  ASSUME NEW o \in Threads, ThreadSerial(o),
         X' = X, ST' = ST, bIn' = bIn,
         tpc'[o] = tpc[o], tj'[o] = tj[o], ti'[o] = ti[o],
         tk'[o] = tk[o], tt'[o] = tt[o],
         \A w \in Row : b'[w][tj[o]] = b[w][tj[o]]
  PROVE  ThreadSerial(o)'
BY DEF ThreadSerial, Above

\* Every column is untouched, in work or equal to the serial result.
LEMMA SerialInvariant == BackSpec /\ [][InOrder]_backVars => []SerialInv
<1>1. BackInit => SerialInv
  BY DEF BackInit, SerialInv
<1>2. BackTypeOK /\ TeamInv /\ OneThreadPerColumn /\ SerialInv
        /\ [BackNext \/ BackReturned]_backVars /\ [InOrder]_backVars => SerialInv'
  <2> SUFFICES ASSUME BackTypeOK, TeamInv, OneThreadPerColumn, SerialInv,
                      [BackNext \/ BackReturned]_backVars, [InOrder]_backVars,
                      region' # "before", IsSerial(a, bIn, X, ST)'
               PROVE  /\ \A c \in pending' : \A w \in Row : b'[w][c] = bIn'[w][c]
                      /\ \A c \in Col : Solved(c)' => \A w \in Row : b'[w][c] = X'[w][c]
                      /\ \A th \in Threads : Active(th)' => ThreadSerial(th)'
    BY DEF SerialInv
  <2> DEFINE Goal ==
        /\ \A c \in pending' : \A w \in Row : b'[w][c] = bIn'[w][c]
        /\ \A c \in Col : Solved(c)' => \A w \in Row : b'[w][c] = X'[w][c]
        /\ \A th \in Threads : Active(th)' => ThreadSerial(th)'
  <2>1. CASE Fork
    BY <2>1 DEF Fork, Active, Solved, BackTypeOK
  <2>a. ASSUME UNCHANGED <<a, bIn, region>>
        PROVE  /\ X' = X /\ ST' = ST
               /\ IsSerial(a, bIn, X, ST)
               /\ \A c \in pending : \A w \in Row : b[w][c] = bIn[w][c]
               /\ \A c \in Col : Solved(c) => \A w \in Row : b[w][c] = X[w][c]
               /\ \A th \in Threads : Active(th) => ThreadSerial(th)
    <3>1. X' = X /\ ST' = ST
      BY <2>a DEF X, ST
    <3>2. IsSerial(a, bIn, X, ST)
      BY <2>a, <3>1 DEF IsSerial
    <3> QED
      BY <2>a, <3>1, <3>2 DEF SerialInv
  <2>2. ASSUME NEW th \in Threads, Fetch(th) PROVE Goal
    <3>1. PICK c \in pending : /\ pending' = pending \ {c}
                               /\ tj' = [tj EXCEPT ![th] = c]
      BY <2>2 DEF Fetch
    <3>2. Owned(c)'
      BY <2>2, <3>1 DEF Fetch, Owned, Active, BackTypeOK
    <3>3. ASSUME NEW d \in Col, Solved(d)' PROVE Solved(d)
      <4>1. d # c
        BY <3>2, <3>3 DEF Solved
      <4>2. ASSUME NEW o \in Threads, Active(o), tj[o] = d PROVE FALSE
        <5>1. o # th
          BY <4>2, <2>2 DEF Fetch, Active
        <5>2. Active(o)' /\ tj'[o] = d
          BY <4>2, <5>1, <3>1, <2>2 DEF Fetch, Active, BackTypeOK
        <5> QED
          BY <5>2, <3>3 DEF Solved, Owned
      <4> QED
        BY <4>1, <4>2, <3>1, <3>3, <2>2 DEF Solved, Owned, Fetch
    <3>4. ThreadSerial(th)'
      BY <2>2, <2>a, <3>1, SizeAssumption DEF Fetch, ThreadSerial, BackTypeOK, Row
    <3>5. ASSUME NEW o \in Threads, Active(o)', o # th PROVE ThreadSerial(o)'
      <4>1. Active(o)
        BY <3>5, <2>2 DEF Fetch, Active, BackTypeOK
      <4> QED
        BY <4>1, <3>1, <3>5, <2>2, <2>a DEF Fetch, ThreadSerial, BackTypeOK
    <3> QED
      BY <2>2, <2>a, <3>1, <3>3, <3>4, <3>5 DEF Fetch
  <2>3. ASSUME NEW th \in Threads, Arrive(th) PROVE Goal
    <3>1. \A o \in Threads : Active(o)' <=> Active(o)
      BY <2>3 DEF Arrive, Active, BackTypeOK
    <3>2. \A c \in Col : Solved(c)' <=> Solved(c)
      BY <3>1, <2>3 DEF Solved, Owned, Arrive
    <3>3. ASSUME NEW o \in Threads, Active(o) PROVE ThreadSerial(o)'
      BY <3>3, <2>3, <2>a DEF Arrive, ThreadSerial, Active, BackTypeOK
    <3> QED
      BY <3>1, <3>2, <3>3, <2>3, <2>a DEF Arrive
  <2>4. ASSUME NEW th \in Threads, LoadRow(th) PROVE Goal
    <3>1. \A o \in Threads : Active(o)' <=> Active(o)
      BY <2>4 DEF LoadRow, Active, BackTypeOK
    <3>2. \A c \in Col : Solved(c)' <=> Solved(c)
      BY <3>1, <2>4 DEF Solved, Owned, LoadRow
    <3>3. ASSUME NEW o \in Threads, Active(o), o # th PROVE ThreadSerial(o)'
      BY <3>3, <2>4, <2>a DEF LoadRow, ThreadSerial, BackTypeOK
    <3>4. ThreadSerial(th)'
      <4>1. Active(th) /\ ti[th] \in Row /\ tj[th] \in Col
        BY <2>4 DEF LoadRow, Active, BackTypeOK, Row
      <4>2. ThreadSerial(th) /\ X' = X /\ ST' = ST /\ IsSerial(a, bIn, X, ST)
        BY <4>1, <2>4, <2>a DEF LoadRow
      <4>3. b[ti[th]][tj[th]] = bIn[ti[th]][tj[th]]
        BY <4>1, <4>2 DEF ThreadSerial, Row
      <4>4. Above(ti[th]) \ Above(ti[th]) = {}
        OBVIOUS
      <4>5. ST[ti[th]][tj[th]][{}] = bIn[ti[th]][tj[th]]
        BY <4>1, <4>2 DEF IsSerial
      <4>6. /\ tk'[th] = Above(ti[th]) /\ tt'[th] = b[ti[th]][tj[th]]
            /\ tpc'[th] = "inner" /\ UNCHANGED <<ti, tj, b, bIn>>
        BY <2>4 DEF LoadRow, Above, BackTypeOK
      <4>7. tt'[th] = ST[ti[th]][tj[th]][Above(ti[th]) \ tk'[th]]
        BY <4>3, <4>4, <4>5, <4>6
      <4> QED
        BY <4>6, <4>2, <4>7 DEF ThreadSerial, Above
    <3> QED
      BY <3>1, <3>2, <3>3, <3>4, <2>4, <2>a DEF LoadRow
  <2>5. ASSUME NEW th \in Threads, ColumnDone(th) PROVE Goal
    <3>1. \A o \in Threads \ {th} : Active(o)' <=> Active(o)
      BY <2>5 DEF ColumnDone, Active, BackTypeOK
    <3>2. Active(th) /\ ~Active(th)' /\ tj[th] \in Col
      BY <2>5 DEF ColumnDone, Active, BackTypeOK
    <3>3. ThreadSerial(th) /\ ti[th] < 0 /\ ti[th] \in -1 .. N
      BY <3>2, <2>5, <2>a DEF ColumnDone, BackTypeOK
    <3>4. \A w \in Row : b[w][tj[th]] = X[w][tj[th]]
      BY <3>3 DEF ThreadSerial, Row
    <3>5. \A c \in Col : Solved(c)' => Solved(c) \/ c = tj[th]
      BY <3>1, <3>2, <2>5 DEF Solved, Owned, ColumnDone
    <3>6. ASSUME NEW o \in Threads, Active(o)' PROVE ThreadSerial(o)'
      <4>1. o # th /\ Active(o) /\ tpc'[o] = tpc[o]
        BY <3>6, <3>1, <3>2, <2>5 DEF ColumnDone, BackTypeOK
      <4> QED
        BY <4>1, <2>5, <2>a DEF ColumnDone, ThreadSerial, BackTypeOK
    <3> QED
      BY <3>4, <3>5, <3>6, <2>5, <2>a DEF ColumnDone
  <2>6. ASSUME NEW th \in Threads, Inner(th) PROVE Goal
    <3>1. \A o \in Threads : Active(o)' <=> Active(o)
      BY <2>6 DEF Inner, Active
    <3>2. \A c \in Col : Solved(c)' <=> Solved(c)
      BY <3>1, <2>6 DEF Solved, Owned, Inner
    <3>3. ASSUME NEW o \in Threads, Active(o), o # th PROVE ThreadSerial(o)'
      BY <3>3, <2>6, <2>a DEF Inner, ThreadSerial, BackTypeOK
    <3>4. ThreadSerial(th)'
      <4>1. /\ Active(th) /\ ti[th] \in Row /\ tj[th] \in Col /\ ThreadSerial(th)
            /\ X' = X /\ ST' = ST /\ IsSerial(a, bIn, X, ST)
        BY <2>6, <2>a DEF Inner, Active, BackTypeOK
      <4>2. PICK k \in tk[th] :
              /\ tt'[th] = Sub(tt[th], Mul(a[ti[th]][k], b[k][tj[th]]))
              /\ tk'[th] = tk[th] \ {k}
        BY <2>6 DEF Inner, BackTypeOK
      <4>3. k \in Above(ti[th]) /\ k \in Row /\ k > ti[th]
        BY <4>1, <4>2, <2>6 DEF Inner, ThreadSerial, Above, Row, BackTypeOK
      <4>4. b[k][tj[th]] = X[k][tj[th]]
        BY <4>1, <4>3 DEF ThreadSerial
      <4> DEFINE S == Above(ti[th]) \ tk[th]
      <4>a. k \in Order(ti[th], tk[th])
        <5>1. tk' # tk
          BY <4>2
        <5>2. InOrder
          BY <5>1 DEF backVars, regionVars
        <5>3. tk[th] \ tk'[th] = {k} /\ tpc[th] = "inner"
          BY <2>6, <4>2 DEF Inner
        <5> QED
          BY <5>2, <5>3 DEF InOrder
      <4>5. /\ S \in SUBSET Above(ti[th]) /\ Above(ti[th]) \ S = tk[th]
            /\ k \in (Above(ti[th]) \ S) \cap Order(ti[th], Above(ti[th]) \ S)
        <5>1. tk[th] \subseteq Above(ti[th])
          BY <2>6, <4>1 DEF Inner, ThreadSerial
        <5>2. Above(ti[th]) \ S = tk[th]
          BY <5>1
        <5> QED
          BY <4>2, <4>a, <5>2
      <4>6. ST[ti[th]][tj[th]][S \cup {k}]
              = Sub(ST[ti[th]][tj[th]][S], Mul(a[ti[th]][k], X[k][tj[th]]))
        <5>1. \A R \in SUBSET Above(ti[th]) :
              \A q \in (Above(ti[th]) \ R) \cap Order(ti[th], Above(ti[th]) \ R) :
                ST[ti[th]][tj[th]][R \cup {q}]
                  = Sub(ST[ti[th]][tj[th]][R], Mul(a[ti[th]][q], X[q][tj[th]]))
          BY <4>1 DEF IsSerial
        <5> QED
          BY <4>5, <5>1
      <4>7. tt[th] = ST[ti[th]][tj[th]][S]
        BY <4>1, <2>6 DEF ThreadSerial, Inner
      <4>8. Above(ti[th]) \ (tk[th] \ {k}) = S \cup {k}
        BY <4>2, <4>3
      <4>9. tt'[th] = ST[ti[th]][tj[th]][Above(ti[th]) \ tk'[th]]
        BY <4>2, <4>4, <4>6, <4>7, <4>8
      <4> QED
        BY <4>1, <4>2, <4>9, <2>6 DEF Inner, ThreadSerial, Above
    <3> QED
      BY <3>1, <3>2, <3>3, <3>4, <2>6, <2>a DEF Inner
  <2>7. ASSUME NEW th \in Threads, Test(th) PROVE Goal
    <3>1. \A o \in Threads : Active(o)' <=> Active(o)
      BY <2>7 DEF Test, Active, BackTypeOK
    <3>2. \A c \in Col : Solved(c)' <=> Solved(c)
      BY <3>1, <2>7 DEF Solved, Owned, Test
    <3>3. ASSUME NEW o \in Threads, Active(o) PROVE ThreadSerial(o)'
      BY <3>3, <2>7, <2>a DEF Test, ThreadSerial, Above, BackTypeOK
    <3> QED
      BY <3>1, <3>2, <3>3, <2>7, <2>a DEF Test
  <2>8. ASSUME NEW th \in Threads, Store(th) PROVE Goal
    <3>1. \A o \in Threads : Active(o)' <=> Active(o)
      BY <2>8 DEF Store, Active, BackTypeOK
    <3>2. \A c \in Col : Solved(c)' <=> Solved(c)
      BY <3>1, <2>8 DEF Solved, Owned, Store
    <3>3. Active(th) /\ ti[th] \in Row /\ tj[th] \in Col /\ ThreadSerial(th)
      BY <2>8, <2>a DEF Store, Active, BackTypeOK
    <3>4. Div(tt[th], a[ti[th]][ti[th]]) = X[ti[th]][tj[th]]
      <4>1. Above(ti[th]) \ {} = Above(ti[th])
        OBVIOUS
      <4>2. tt[th] = ST[ti[th]][tj[th]][Above(ti[th])]
        BY <3>3, <4>1, <2>8 DEF ThreadSerial, Store
      <4> QED
        BY <3>3, <4>2, <2>8, <2>a DEF Store, IsSerial
    <3>5. ASSUME NEW w \in Row, NEW c \in Col
          PROVE  b'[w][c] = IF w = ti[th] /\ c = tj[th]
                            THEN X[w][c] ELSE b[w][c]
      BY <3>3, <3>4, <2>8 DEF Store, BackTypeOK, MatrixB
    <3>6. ASSUME NEW o \in Threads, Active(o), o # th PROVE ThreadSerial(o)'
      <4>1. tj[o] # tj[th] /\ tj[o] \in Col
        BY <3>6, <3>3 DEF OneThreadPerColumn, BackTypeOK
      <4>2. \A w \in Row : b'[w][tj[o]] = b[w][tj[o]]
        BY <3>5, <4>1
      <4>3. ThreadSerial(o) /\ X' = X /\ ST' = ST
        BY <3>6, <2>8, <2>a DEF Store
      <4> QED
        BY <3>6, <4>2, <4>3, <2>8, Undisturbed DEF Store, BackTypeOK
    <3>7. ThreadSerial(th)'
      <4>1. /\ tpc'[th] = "row" /\ tj' = tj /\ bIn' = bIn
            /\ ti'[th] = ti[th] - 1
        BY <2>8 DEF Store, BackTypeOK
      <4>2. ASSUME NEW w \in Row
            PROVE  b'[w][tj[th]] = IF w > ti[th] - 1 THEN X[w][tj[th]]
                                                     ELSE bIn[w][tj[th]]
        BY <3>3, <3>5 DEF ThreadSerial, Row
      <4> QED
        BY <4>1, <4>2, <2>8, <2>a DEF Store, ThreadSerial
    <3>8. ASSUME NEW c \in Col, c \in pending \/ Solved(c), NEW w \in Row
          PROVE  b'[w][c] = b[w][c]
      <4>1. c # tj[th]
        BY <3>3, <3>8 DEF OneThreadPerColumn, Solved, Owned
      <4> QED
        BY <3>5, <4>1
    <3>9. pending' = pending /\ pending \subseteq Col
      BY <2>8 DEF Store, BackTypeOK
    <3> QED
      BY <3>1, <3>2, <3>6, <3>7, <3>8, <3>9, <2>8, <2>a DEF Store
  <2>9. CASE Join
    <3>1. X' = X /\ ST' = ST
      BY <2>9 DEF Join, X, ST
    <3>2. IsSerial(a, bIn, X, ST)
      BY <3>1, <2>9 DEF Join, IsSerial
    <3>3. \A c \in Col : Solved(c)' <=> Solved(c)
      BY <2>9 DEF Join, threadVars, Solved, Owned, Active
    <3>4. \A th \in Threads : ~Active(th)'
      BY <2>9 DEF Join, threadVars, Active
    <3> QED
      BY <3>1, <3>2, <3>3, <3>4, <2>9 DEF Join, SerialInv
  <2>10. CASE UNCHANGED backVars
    <3>1. UNCHANGED <<a, b, bIn, region, pending, tpc, tj, ti, tk, tt>>
      BY <2>10 DEF backVars, regionVars
    <3>2. \A c \in Col : Solved(c)' <=> Solved(c)
      BY <3>1 DEF Solved, Owned, Active
    <3>3. \A th \in Threads : Active(th)' => Active(th)
      BY <3>1 DEF Active
    <3>4. \A th \in Threads : ThreadSerial(th) => ThreadSerial(th)'
      BY <3>1, <2>a DEF ThreadSerial
    <3> QED
      BY <3>1, <3>2, <3>3, <3>4, <2>a
  <2> QED
    BY <2>1, <2>2, <2>3, <2>4, <2>5, <2>6, <2>7, <2>8, <2>9, <2>10
       DEF BackNext, Step, BackReturned
<1> QED
  BY <1>1, <1>2, BackTypeCorrect, TeamInvariant, NoTwoThreadsOnAColumn, PTL DEF BackSpec

\* Whatever the team, the schedule and the interleaving, the parallel loop
\* (lines 48-63) computes what the serial one does, if the k loop is run in the
\* same order.
THEOREM OrderedEqualsSerial == BackSpec /\ [][InOrder]_backVars => []SerialResult
<1>1. BackTypeOK /\ TeamInv /\ SerialInv => SerialResult
  <2> SUFFICES ASSUME BackTypeOK, TeamInv, SerialInv, region = "after",
                      IsSerial(a, bIn, X, ST)
               PROVE  b = X
    BY DEF SerialResult, X, ST
  <2>1. \A c \in Col : Solved(c)
    BY AllSolved DEF TeamInv
  <2>2. \A w \in Row, c \in Col : b[w][c] = X[w][c]
    BY <2>1 DEF SerialInv
  <2>3. b \in MatrixB /\ X \in MatrixB
    BY DEF BackTypeOK, IsSerial
  <2>4. ASSUME NEW w \in Row PROVE b[w] = X[w]
    BY <2>2, <2>3, <2>4 DEF MatrixB
  <2> QED
    BY <2>3, <2>4 DEF MatrixB
<1> QED
  BY <1>1, BackTypeCorrect, TeamInvariant, SerialInvariant, PTL

\* Where the order of the k loop does not matter, the parallel loop computes
\* what the serial one does in whatever order the simd loop takes it.
THEOREM ParallelEqualsSerial ==
  ASSUME \A w, S : Order(w, S) = S
  PROVE  BackSpec => []SerialResult
<1>1. InOrder
  BY DEF InOrder
<1> QED
  BY <1>1, OrderedEqualsSerial, PTL

-----------------------------------------------------------------------------
\* A step of thread th that leaves the other threads as they are, adds nothing
\* to what th has to do and does step s of row w.
LEMMA WorkShrinks ==
  ASSUME BackTypeOK, OneThreadPerColumn, pending' = pending,
         NEW th \in Threads, Active(th),
         \A o \in Threads \ {th} :
           /\ Active(o)' <=> Active(o)
           /\ tj'[o] = tj[o]
           /\ \A w, s : ToDo(o, w, s)' <=> ToDo(o, w, s),
         Active(th)' => /\ tj'[th] = tj[th]
                        /\ \A w, s : ToDo(th, w, s)' => ToDo(th, w, s),
         \E r \in -1 .. N, e \in 0 .. N + 1 :
           ToDo(th, r, e) /\ (Active(th)' => ~ToDo(th, r, e)')
  PROVE  Left' \subseteq Left /\ Left' # Left
<1> PICK r \in -1 .. N, e \in 0 .. N + 1 :
      ToDo(th, r, e) /\ (Active(th)' => ~ToDo(th, r, e)')
  OBVIOUS
<1> DEFINE u == <<tj[th], r, e>>
<1>1. u \in Left
  BY DEF Left, BackTypeOK
<1>2. u \notin Left'
  BY DEF Left, OneThreadPerColumn
<1>3. Left' \subseteq Left
  BY DEF Left
<1> QED
  BY <1>1, <1>2, <1>3

\* Every step of a thread does something that was left to do.
LEMMA StepAdvances ==
  ASSUME BackTypeOK, OneThreadPerColumn, NEW th \in Threads, Step(th)
  PROVE  /\ region' = region
         /\ Left' \subseteq Left /\ Late' \subseteq Late
         /\ Left' # Left \/ Late' # Late
<1> USE SizeAssumption
<1> DEFINE Others ==
      \A o \in Threads \ {th} :
        /\ Active(o)' <=> Active(o)
        /\ tj'[o] = tj[o]
        /\ \A w, s : ToDo(o, w, s)' <=> ToDo(o, w, s)
<1>1. CASE Fetch(th)
  <2>1. PICK c \in pending : /\ pending' = pending \ {c}
                             /\ tj' = [tj EXCEPT ![th] = c]
    BY <1>1 DEF Fetch
  <2>2. Late' \subseteq Late
    BY <1>1 DEF Fetch, Late, BackTypeOK
  <2>3. Others
    BY <1>1, <2>1 DEF Fetch, Active, ToDo, BackTypeOK
  <2>4. Left' \subseteq Left
    <3> SUFFICES ASSUME NEW v \in Left' PROVE v \in Left
      OBVIOUS
    <3>1. CASE v[1] \in pending'
      BY <3>1, <2>1 DEF Left
    <3>2. CASE v[1] = c
      BY <3>2 DEF Left
    <3>3. ASSUME NEW o \in Threads \ {th}, Active(o)', tj'[o] = v[1],
                 ToDo(o, v[2], v[3])'
          PROVE  v \in Left
      BY <3>3, <2>3 DEF Left
    <3>4. tj'[th] = c
      BY <2>1 DEF BackTypeOK
    <3> QED
      BY <3>1, <3>2, <3>3, <3>4 DEF Left
  <2>5. <<c, N, 0>> \in Left
    BY <2>1 DEF Left, BackTypeOK
  <2>6. ~ToDo(th, N, 0)'
    BY <1>1 DEF Fetch, ToDo, BackTypeOK
  <2>7. \A o \in Threads \ {th} : Active(o)' => tj'[o] # c
    BY <2>1, <2>3 DEF OneThreadPerColumn
  <2>8. <<c, N, 0>> \notin Left'
    BY <2>1, <2>6, <2>7 DEF Left
  <2> QED
    BY <1>1, <2>2, <2>4, <2>5, <2>8 DEF Fetch
<1>2. CASE Arrive(th)
  <2>1. Late' = Late \ {th} /\ th \in Late
    BY <1>2 DEF Arrive, Late, BackTypeOK
  <2>2. \A o \in Threads : Active(o)' <=> Active(o)
    BY <1>2 DEF Arrive, Active, BackTypeOK
  <2>3. \A o \in Threads : \A w, s : Active(o) => (ToDo(o, w, s)' <=> ToDo(o, w, s))
    BY <1>2 DEF Arrive, Active, ToDo, BackTypeOK
  <2>4. Left' \subseteq Left
    BY <1>2, <2>2, <2>3 DEF Arrive, Left
  <2> QED
    BY <1>2, <2>1, <2>4 DEF Arrive
<1>3. ASSUME LoadRow(th) \/ ColumnDone(th) \/ Inner(th) \/ Test(th) \/ Store(th)
      PROVE  /\ region' = region /\ pending' = pending /\ tj' = tj
             /\ Active(th) /\ Late' \subseteq Late /\ Others
  BY <1>3 DEF LoadRow, ColumnDone, Inner, Test, Store, Active, Late, ToDo, BackTypeOK
<1>4. CASE LoadRow(th)
  <2>1. PICK r \in Row : r = ti[th] /\ ti' = ti /\ tpc[th] = "row" /\ tpc'[th] = "inner"
    BY <1>4 DEF LoadRow, BackTypeOK, Active, Row
  <2>2. tk'[th] = (ti[th] + 1) .. (N - 1)
    BY <1>4 DEF LoadRow, BackTypeOK
  <2>3. \A w, s : ToDo(th, w, s)' => ToDo(th, w, s)
    BY <2>1, <2>2 DEF ToDo, Row
  <2>4. ToDo(th, r, r) /\ ~ToDo(th, r, r)'
    BY <2>1, <2>2 DEF ToDo, Row
  <2>5. r \in -1 .. N /\ r \in 0 .. N + 1
    BY <2>1 DEF Row
  <2>6. \E w \in -1 .. N, s \in 0 .. N + 1 : ToDo(th, w, s) /\ ~ToDo(th, w, s)'
    BY <2>4, <2>5
  <2> QED
    BY <1>3, <1>4, <2>3, <2>6, WorkShrinks
<1>5. CASE ColumnDone(th)
  <2>1. \E r \in -1 .. N, e \in 0 .. N + 1 : ToDo(th, r, e)
    BY DEF ToDo
  <2>2. ~Active(th)'
    BY <1>5 DEF ColumnDone, Active, BackTypeOK
  <2> QED
    BY <1>3, <1>5, <2>1, <2>2, WorkShrinks
<1>6. CASE Inner(th)
  <2>1. PICK k \in tk[th] : tk'[th] = tk[th] \ {k}
    BY <1>6 DEF Inner, BackTypeOK
  <2>2. PICK r \in Row : /\ r = ti[th] /\ ti' = ti
                         /\ tpc[th] = "inner" /\ tpc' = tpc /\ k \in Row
    BY <1>6 DEF Inner, BackTypeOK
  <2>3. \A w, s : ToDo(th, w, s)' => ToDo(th, w, s)
    BY <2>1, <2>2 DEF ToDo, Row
  <2>4. ToDo(th, r, k) /\ ~ToDo(th, r, k)'
    BY <2>1, <2>2 DEF ToDo, Row
  <2>5. r \in -1 .. N /\ k \in 0 .. N + 1
    BY <2>2 DEF Row
  <2>6. \E w \in -1 .. N, s \in 0 .. N + 1 : ToDo(th, w, s) /\ ~ToDo(th, w, s)'
    BY <2>4, <2>5
  <2> QED
    BY <1>3, <1>6, <2>3, <2>6, WorkShrinks
<1>7. CASE Test(th)
  <2>1. PICK r \in Row : /\ r = ti[th] /\ UNCHANGED <<ti, tk>>
                         /\ tpc[th] = "inner" /\ tpc'[th] = "store"
    BY <1>7 DEF Test, BackTypeOK
  <2>2. \A w, s : ToDo(th, w, s)' => ToDo(th, w, s)
    BY <2>1 DEF ToDo, Row
  <2>3. ToDo(th, r, N) /\ ~ToDo(th, r, N)'
    BY <2>1 DEF ToDo, Row
  <2>4. r \in -1 .. N /\ N \in 0 .. N + 1
    BY <2>1 DEF Row
  <2>5. \E w \in -1 .. N, s \in 0 .. N + 1 : ToDo(th, w, s) /\ ~ToDo(th, w, s)'
    BY <2>3, <2>4
  <2> QED
    BY <1>3, <1>7, <2>2, <2>5, WorkShrinks
<1>8. CASE Store(th)
  <2>1. PICK r \in Row : /\ r = ti[th] /\ ti'[th] = r - 1 /\ tk' = tk
                         /\ tpc[th] = "store" /\ tpc'[th] = "row"
    BY <1>8 DEF Store, BackTypeOK
  <2>2. ASSUME NEW w, NEW s, ToDo(th, w, s)' PROVE ToDo(th, w, s)
    <3>1. CASE w = ti[th] - 1 /\ w >= 0 /\ s \in w .. (N + 1)
      BY <3>1, <2>1 DEF ToDo, Row
    <3>2. CASE w \in 0 .. (ti[th] - 2) /\ s \in w .. (N + 1)
      BY <3>2, <2>1 DEF ToDo, Row
    <3> QED
      BY <2>2, <2>1, <3>1, <3>2 DEF ToDo, Row
  <2>3. ToDo(th, r, N + 1) /\ ~ToDo(th, r, N + 1)'
    <3>1. ToDo(th, r, N + 1)
      BY <2>1 DEF ToDo, Row
    <3>2. ~ToDo(th, r, N + 1)'
      BY <2>1 DEF ToDo, Row
    <3> QED
      BY <3>1, <3>2
  <2>4. r \in -1 .. N /\ N + 1 \in 0 .. N + 1
    BY <2>1 DEF Row
  <2>5. \E w \in -1 .. N, s \in 0 .. N + 1 : ToDo(th, w, s) /\ ~ToDo(th, w, s)'
    BY <2>3, <2>4
  <2> QED
    BY <1>3, <1>8, <2>2, <2>5, WorkShrinks
<1> QED
  BY <1>1, <1>2, <1>4, <1>5, <1>6, <1>7, <1>8 DEF Step

\* Whoever takes a step of the parallel loop (lines 48-63) uses up some of the
\* work that is left and adds none.
THEOREM TeamUsesUpItsWork == BackSpec => TeamAdvances
<1>1. BackTypeOK /\ OneThreadPerColumn /\ [BackNext \/ BackReturned]_backVars
        => [Advances]_backVars
  <2> SUFFICES ASSUME BackTypeOK, OneThreadPerColumn, BackNext PROVE Advances
    BY DEF BackReturned
  <2>1. CASE Fork
    BY <2>1 DEF Fork, Advances
  <2>2. ASSUME NEW th \in Threads, Step(th) PROVE Advances
    BY <2>2, StepAdvances DEF Advances
  <2>3. CASE Join
    BY <2>3 DEF Join, Advances
  <2> QED
    BY <2>1, <2>2, <2>3 DEF BackNext
<1> QED
  BY <1>1, BackTypeCorrect, NoTwoThreadsOnAColumn, PTL DEF BackSpec, TeamAdvances

\* The work that is left can be counted.
LEMMA WorkIsFinite == IsFiniteSet(Left) /\ IsFiniteSet(Late)
<1> USE SizeAssumption, TeamAssumption
<1> DEFINE Steps == (-1 .. N) \X (0 .. N + 1)
           f == [p \in Col \X Steps |-> <<p[1], p[2][1], p[2][2]>>]
           All == Col \X (-1 .. N) \X (0 .. N + 1)
<1>1. IsFiniteSet(Col) /\ IsFiniteSet(-1 .. N) /\ IsFiniteSet(0 .. N + 1)
  BY FS_Interval DEF Col
<1>2. IsFiniteSet(Col \X Steps)
  BY <1>1, FS_Product
<1>3. f \in Surjection(Col \X Steps, All)
  <2>1. f \in [Col \X Steps -> All]
    OBVIOUS
  <2>2. ASSUME NEW v \in All PROVE \E p \in Col \X Steps : f[p] = v
    <3>1. <<v[1], <<v[2], v[3]>>>> \in Col \X Steps
      OBVIOUS
    <3>2. f[<<v[1], <<v[2], v[3]>>>>] = v
      BY <3>1
    <3> QED
      BY <3>1, <3>2
  <2> QED
    BY <2>1, <2>2 DEF Surjection
<1>4. IsFiniteSet(All)
  BY <1>2, <1>3, FS_Surjection
<1>5. Left \subseteq All
  BY DEF Left
<1>6. IsFiniteSet(Threads) /\ Late \subseteq Threads
  BY FS_Interval DEF Threads, Late
<1> QED
  BY <1>4, <1>5, <1>6, FS_Subset

\* What the team still has to do, as a number.
Remainder == Cardinality(Left) + Cardinality(Late)
CountsDown == /\ Remainder \in Nat
              /\ region' = region => Remainder' < Remainder

\* The parallel loop has a variant: inside the region every step of whatever
\* thread makes the number of things left to do smaller, so no interleaving of
\* the team is infinite (lines 48-63).
THEOREM TeamCountsDown == BackSpec => [][CountsDown]_backVars
<1>1. ASSUME [Advances]_backVars PROVE [CountsDown]_backVars
  <2> SUFFICES ASSUME Advances PROVE CountsDown
    BY <1>1
  <2>1. IsFiniteSet(Left) /\ IsFiniteSet(Late)
    BY WorkIsFinite
  <2>2. Cardinality(Left) \in Nat /\ Cardinality(Late) \in Nat
    BY <2>1, FS_CardinalityType
  <2>3. ASSUME region' = region PROVE Remainder' < Remainder
    <3>1. /\ Left' \subseteq Left /\ Late' \subseteq Late
          /\ Left' # Left \/ Late' # Late
      BY <2>3 DEF Advances
    <3>2. /\ IsFiniteSet(Left')
          /\ Cardinality(Left') <= Cardinality(Left)
          /\ Cardinality(Left) = Cardinality(Left') => Left = Left'
      BY <2>1, <3>1, FS_Subset
    <3>3. /\ IsFiniteSet(Late')
          /\ Cardinality(Late') <= Cardinality(Late)
          /\ Cardinality(Late) = Cardinality(Late') => Late = Late'
      BY <2>1, <3>1, FS_Subset
    <3>4. Cardinality(Left') \in Nat /\ Cardinality(Late') \in Nat
      BY <3>2, <3>3, FS_CardinalityType
    <3> QED
      BY <2>2, <3>1, <3>2, <3>3, <3>4 DEF Remainder
  <2> QED
    BY <2>2, <2>3 DEF Remainder, CountsDown
<1> QED
  BY <1>1, TeamUsesUpItsWork, PTL DEF TeamAdvances

-----------------------------------------------------------------------------
(* The schedules of the two versions satisfy ScheduleCovers. *)

Sched == INSTANCE OmpSchedules

LEMMA Quotients ==
  ASSUME NEW n \in Nat, NEW d \in Nat \ {0}
  PROVE  \E q, r \in Nat : /\ q = n \div d /\ r = n % d
                           /\ n = d * q + r /\ r < d
<1>1. n \div d \in Nat
  BY Z3
<1>2. n % d \in Nat /\ n % d < d
  BY Z3
<1>3. n = d * (n \div d) + (n % d)
  BY Z3
<1> QED
  BY <1>1, <1>2, <1>3

\* The blocks of the static schedule (dgesv-optimal1.c, line 47) and the one
\* queue of the dynamic schedule (dgesv.c, line 48) leave no column out, for
\* any number of threads and columns.
THEOREM SchedulesCover ==
  \A c \in Col : /\ \E th \in Threads : c \in Sched!StaticShare(th)
                 /\ \E th \in Threads : c \in Sched!DynamicShare(th)
<1> SUFFICES ASSUME NEW c \in Col
             PROVE  /\ \E th \in Threads : c \in Sched!StaticShare(th)
                    /\ \E th \in Threads : c \in Sched!DynamicShare(th)
  OBVIOUS
<1>0. c \in Nat /\ c < NRHS /\ NRHS \in Nat /\ T \in Nat \ {0}
  BY SizeAssumption, TeamAssumption DEF Col
<1>1. PICK q, r \in Nat : q = NRHS \div T /\ r = NRHS % T /\ NRHS = T * q + r /\ r < T
  BY <1>0, Quotients
<1> DEFINE Start(th) == th * q + (IF th < r THEN th ELSE r)
<1>2. \A th \in Nat : Sched!StaticShare(th) = Start(th) .. (Start(th + 1) - 1)
  BY <1>1 DEF Sched!StaticShare, Sched!BlockStart
<1>3. SUFFICES \E th \in Threads : Start(th) <= c /\ c < Start(th + 1)
  <2>1. \A th \in Threads : th \in Nat /\ Start(th) \in Int /\ Start(th + 1) \in Int
    BY <1>0, <1>1 DEF Threads
  <2>2. 0 \in Threads /\ c \in Sched!DynamicShare(0)
    BY <1>0 DEF Threads, Col, Sched!DynamicShare
  <2>3. PICK th \in Threads : Start(th) <= c /\ c < Start(th + 1)
    BY <1>3
  <2> HIDE DEF Start
  <2>4. c \in Start(th) .. (Start(th + 1) - 1)
    BY <1>0, <2>1, <2>3
  <2>5. c \in Sched!StaticShare(th)
    BY <1>2, <2>1, <2>4
  <2> QED
    BY <2>2, <2>5
<1>4. CASE c < r * (q + 1)
  <2>0. PICK p \in Nat \ {0} : p = q + 1
    BY <1>1
  <2>a. ASSUME NEW x \in Nat
        PROVE  p * x \in Nat /\ p * x = x * q + x /\ p * x = x * (q + 1)
    <3>1. (q + 1) * x \in Nat /\ (q + 1) * x = x * q + x /\ (q + 1) * x = x * (q + 1)
      BY <1>1, Z3
    <3> QED
      BY <2>0, <3>1, Zenon
  <2>1. PICK th, m \in Nat : c = p * th + m /\ m < p
    BY <1>0, Quotients, Zenon
  <2>2. th < r
    <3>1. SUFFICES ASSUME th >= r PROVE FALSE
      BY <1>1, <2>1
    <3>2. p * th >= p * r
      BY <1>1, <2>0, <2>1, <3>1, Z3
    <3>3. p * th \in Nat /\ p * r \in Nat /\ p * r = r * (q + 1)
      BY <1>1, <2>1, <2>a, Zenon
    <3> QED
      BY <1>0, <1>4, <2>1, <3>2, <3>3
  <2>3. Start(th) = p * th
    <3>1. Start(th) = th * q + th
      BY <2>2
    <3>2. th * q + th = p * th
      BY <2>1, <2>a, Zenon
    <3> QED
      BY <3>1, <3>2
  <2>4. Start(th + 1) = p * th + p
    <3>1. Start(th + 1) = (th + 1) * q + (th + 1)
      BY <1>1, <2>1, <2>2
    <3>2. th + 1 \in Nat /\ p * (th + 1) = p * th + p
      BY <2>0, <2>1, Z3
    <3>3. p * (th + 1) = (th + 1) * q + (th + 1)
      BY <2>a, <3>2, Zenon
    <3> QED
      BY <3>1, <3>2, <3>3
  <2>5. p * th \in Nat
    BY <2>1, <2>a
  <2>6. th \in Threads
    BY <1>0, <1>1, <2>1, <2>2 DEF Threads
  <2> HIDE DEF Start
  <2>7. Start(th) <= c /\ c < Start(th + 1)
    BY <2>0, <2>1, <2>3, <2>4, <2>5
  <2> QED
    BY <2>6, <2>7
<1>5. CASE c >= r * (q + 1)
  <2>1. q # 0
    BY <1>0, <1>1, <1>5, Z3
  <2>2. r * (q + 1) \in Nat /\ c - r * (q + 1) \in Nat
    BY <1>0, <1>1, <1>5, Z3
  <2>3. PICK e, m \in Nat : c - r * (q + 1) = q * e + m /\ m < q
    <3>1. q \in Nat \ {0}
      BY <1>1, <2>1
    <3> QED
      BY <3>1, <2>2, Quotients, Zenon
  <2>4. e < T - r
    <3>1. SUFFICES ASSUME e >= T - r PROVE FALSE
      BY <1>0, <1>1, <2>3
    <3>2. q * e >= q * (T - r)
      BY <1>0, <1>1, <2>3, <3>1, Z3
    <3>3. q * (T - r) + r * (q + 1) = NRHS
      BY <1>0, <1>1, Z3
    <3>4. q * e \in Nat
      BY <1>1, <2>3, Z3
    <3>5. q * (T - r) \in Int
      BY <1>0, <1>1, Z3
    <3> QED
      BY <1>0, <1>1, <2>2, <2>3, <3>2, <3>3, <3>4, <3>5
  <2>5. Start(r + e) = (r + e) * q + r /\ Start((r + e) + 1) = ((r + e) + 1) * q + r
    BY <1>1, <2>3
  <2>6. (r + e) * q + r = r * (q + 1) + q * e
    BY <1>1, <2>3, Z3
  <2>7. ((r + e) + 1) * q + r = (r * (q + 1) + q * e) + q
    BY <1>1, <2>3, Z3
  <2>8. q * e \in Nat
    BY <1>1, <2>3, Z3
  <2>9. r + e \in Threads
    BY <1>0, <1>1, <2>3, <2>4 DEF Threads
  <2> HIDE DEF Start
  <2>10. Start(r + e) <= c /\ c < Start((r + e) + 1)
    BY <1>0, <1>1, <2>2, <2>3, <2>5, <2>6, <2>7, <2>8
  <2> QED
    BY <2>9, <2>10
<1> QED
  BY <1>0, <1>1, <1>4, <1>5, Z3

=============================================================================
