--------------------------- MODULE BackSubstitution ---------------------------
(***************************************************************************)
(* The second half of my_dgesv (dgesv.c, lines 47-69): back substitution   *)
(* on the upper triangular matrix left by the elimination, one right-hand  *)
(* side (column of b) per iteration of an OpenMP parallel loop.            *)
(*                                                                         *)
(* A team of T threads runs the loop.  The runtime hands every column to   *)
(* one thread; which thread may get which column is the schedule clause,   *)
(* the parameter Share.  A thread owns private copies of j, i, k and t;    *)
(* a, b and error_flag are shared.  The k loop is an "omp simd" loop: the  *)
(* compiler may take its iterations in any order, so the model does.       *)
(***************************************************************************)
EXTENDS SolverCall

CONSTANTS
  T,          \* the size of the team of threads
  Share(_)    \* the columns the schedule lets a thread take

Threads == 0 .. (T - 1)

ASSUME TeamAssumption == T \in Nat \ {0}
ASSUME ScheduleCovers == \A c \in Col : \E th \in Threads : c \in Share(th)

VARIABLES
  bIn,          \* history: b when the region was entered
  error_flag,   \* shared, set by an atomic write
  region,       \* "before", "parallel" or "after" the parallel loop
  pending,      \* the columns the runtime has not handed out yet
  tpc,          \* where each thread is in the loop body
  tj, ti,       \* the private j and i
  tk,           \* the iterations of the private k loop still to be done
  tt            \* the private accumulator t

threadVars == <<tpc, tj, ti, tk, tt>>
regionVars == <<bIn, error_flag, region, pending, tpc, tj, ti, tk, tt>>
backVars == <<a, b, regionVars, ret>>

BackInit ==
  /\ a \in InputA
  /\ b \in InputB
  /\ bIn = b
  /\ error_flag = 0
  /\ region = "before"
  /\ pending = {}
  /\ tpc = [th \in Threads |-> "idle"]
  /\ tj = [th \in Threads |-> 0]
  /\ ti = [th \in Threads |-> 0]
  /\ tk = [th \in Threads |-> {}]
  /\ tt = [th \in Threads |-> Zero]
  /\ ret = Running

\* The master thread reaches the pragma: the team starts on all columns.
Fork ==
  /\ region = "before"
  /\ region' = "parallel"
  /\ bIn' = b
  /\ pending' = Col
  /\ tpc' = [th \in Threads |-> "fetch"]
  /\ UNCHANGED <<a, b, error_flag, tj, ti, tk, tt, ret>>

\* What is left to hand out after column c.  Mutant: c itself is, still.
Remaining_kept(c) == pending
Remaining(c) == pending \ {c}

\* The runtime hands thread th the first column its schedule has left.
Fetch(th) ==
  /\ tpc[th] = "fetch"
  /\ \E c \in pending \cap Share(th) :
       /\ \A d \in pending \cap Share(th) : c <= d
       /\ pending' = Remaining(c)
       /\ tj' = [tj EXCEPT ![th] = c]
  /\ ti' = [ti EXCEPT ![th] = N - 1]
  /\ tpc' = [tpc EXCEPT ![th] = "row"]
  /\ UNCHANGED <<a, b, bIn, error_flag, region, tk, tt, ret>>

\* No column is left for th: it waits at the barrier that ends the loop.
Arrive(th) ==
  /\ tpc[th] = "fetch"
  /\ pending \cap Share(th) = {}
  /\ tpc' = [tpc EXCEPT ![th] = "barrier"]
  /\ UNCHANGED <<a, b, bIn, error_flag, region, pending, tj, ti, tk, tt, ret>>

\* The iterations of the k loop for row w.  Mutant: it runs to k <= n.
InnerLoop_toN(w) == (w + 1) .. N
InnerLoop(w) == (w + 1) .. (N - 1)

\* Thread th starts its k loop.  Mutant: k is missing from the private clause.
StartInner_sharedK(th) == [any \in Threads |-> InnerLoop(ti[th])]
StartInner(th) == [tk EXCEPT ![th] = InnerLoop(ti[th])]

\* The next row of the column: t = b[i*nrhs + j].
LoadRow(th) ==
  /\ tpc[th] = "row"
  /\ ti[th] >= 0
  /\ tt' = [tt EXCEPT ![th] = b[ti[th]][tj[th]]]
  /\ tk' = StartInner(th)
  /\ tpc' = [tpc EXCEPT ![th] = "inner"]
  /\ UNCHANGED <<a, b, bIn, error_flag, region, pending, tj, ti, ret>>

\* The i loop is over: th asks for another column.
ColumnDone(th) ==
  /\ tpc[th] = "row"
  /\ ti[th] < 0
  /\ tpc' = [tpc EXCEPT ![th] = "fetch"]
  /\ UNCHANGED <<a, b, bIn, error_flag, region, pending, tj, ti, tk, tt, ret>>

\* One iteration of the k loop: t -= a[i*n + k] * b[k*nrhs + j].
Inner(th) ==
  /\ tpc[th] = "inner"
  /\ \E k \in tk[th] :
       /\ tt' = [tt EXCEPT ![th] = Sub(@, Mul(a[ti[th]][k], b[k][tj[th]]))]
       /\ tk' = [tk EXCEPT ![th] = @ \ {k}]
  /\ UNCHANGED <<a, b, bIn, error_flag, region, pending, tpc, tj, ti, ret>>

\* The flag once th has tested its row.  Mutant: every test assigns it.
Flag_overwritten(th) == IF Tiny(a[ti[th]][ti[th]]) THEN 1 ELSE 0
Flag(th) == IF Tiny(a[ti[th]][ti[th]]) THEN 1 ELSE error_flag

\* A tiny diagonal entry raises the shared flag; the row goes on all the same.
Test(th) ==
  /\ tpc[th] = "inner"
  /\ tk[th] = {}
  /\ error_flag' = Flag(th)
  /\ tpc' = [tpc EXCEPT ![th] = "store"]
  /\ UNCHANGED <<a, b, bIn, region, pending, tj, ti, tk, tt, ret>>

\* i-- of thread th.  Mutant: i stays.
NextRow_same(th) == ti
NextRow(th) == [ti EXCEPT ![th] = @ - 1]

\* b[i*nrhs + j] = t / a[i*n + i], then i--.
Store(th) ==
  /\ tpc[th] = "store"
  /\ b' = [b EXCEPT ![ti[th]][tj[th]] = Div(tt[th], a[ti[th]][ti[th]])]
  /\ ti' = NextRow(th)
  /\ tpc' = [tpc EXCEPT ![th] = "row"]
  /\ UNCHANGED <<a, bIn, error_flag, region, pending, tj, tk, tt, ret>>

\* What the master returns.  Mutant: it does not look at the flag.
Result_ignoresFlag == 0
Result == IF error_flag = 1 THEN -1 ELSE 0

\* The whole team is at the barrier: the master leaves the region, reads the
\* flag and returns.
Join ==
  /\ region = "parallel"
  /\ \A th \in Threads : tpc[th] = "barrier"
  /\ region' = "after"
  /\ ret' = Result
  /\ UNCHANGED <<a, b, bIn, error_flag, pending, threadVars>>

Step(th) ==
  \/ Fetch(th) \/ Arrive(th) \/ LoadRow(th) \/ ColumnDone(th)
  \/ Inner(th) \/ Test(th) \/ Store(th)

BackNext == Fork \/ (\E th \in Threads : Step(th)) \/ Join

\* my_dgesv has returned.
BackReturned == ret # Running /\ UNCHANGED backVars

\* Every thread of the team, and the master outside the region, runs
\* whenever it can: they are operating system threads that never block
\* anywhere but at the barrier.
BackFairness ==
  /\ WF_backVars(Fork)
  /\ WF_backVars(Join)
  /\ \A th \in Threads : WF_backVars(Step(th))

BackSpec == BackInit /\ [][BackNext \/ BackReturned]_backVars
BackFairSpec == BackSpec /\ BackFairness

-----------------------------------------------------------------------------
\* A thread is in the body of the j loop.
Active(th) == tpc[th] \in {"row", "inner", "store"}

\* Every variable keeps its type: the C types, and indices within the arrays.
BackTypeOK ==
  /\ a \in MatrixA
  /\ b \in MatrixB
  /\ bIn \in MatrixB
  /\ error_flag \in {0, 1}
  /\ region \in {"before", "parallel", "after"}
  /\ pending \in SUBSET Col
  /\ tpc \in [Threads -> {"idle", "fetch", "row", "inner", "store", "barrier"}]
  /\ tj \in [Threads -> Nat]
  /\ ti \in [Threads -> -1 .. N]
  /\ tk \in [Threads -> SUBSET Row]
  /\ tt \in [Threads -> Num]
  /\ ret \in {-1, 0, Running}
  /\ \A th \in Threads :
       /\ Active(th) => tj[th] \in Col /\ ti[th] \in -1 .. (N - 1)
       /\ tpc[th] \in {"inner", "store"} => ti[th] \in Row

\* No two threads work on the same column, and none works on a column that is
\* still to be handed out: the unsynchronised reads and writes of b in lines
\* 51-61 of dgesv.c never touch an entry that another thread writes.
OneThreadPerColumn ==
  \A th \in Threads : Active(th) =>
    /\ tj[th] \notin pending
    /\ \A other \in Threads \ {th} : Active(other) => tj[other] # tj[th]

\* my_dgesv returns -1 exactly when some diagonal entry is tiny and there is
\* a right-hand side to solve for, whichever thread met the entry and however
\* late it wrote the flag that the master reads after the barrier.
ErrorReported ==
  ret # Running =>
    (ret = -1 <=> Col # {} /\ \E w \in Row : Tiny(a[w][w]))

\* Step s of row w is still to be done in the column of th: w is the load,
\* w + 1 to N - 1 are the iterations of the k loop, N is the test and N + 1 the
\* store.  Row -1 is the end of the i loop.
ToDo(th, w, s) ==
  \/ w = -1 /\ s = 0
  \/ w \in 0 .. (ti[th] - 1) /\ s \in w .. (N + 1)
  \/ /\ w = ti[th] /\ w >= 0
     /\ \/ tpc[th] = "row" /\ s \in w .. (N + 1)
        \/ tpc[th] = "inner" /\ s \in tk[th] \cup {N, N + 1}
        \/ tpc[th] = "store" /\ s = N + 1

\* What is left to do: all of a column that was not handed out (row N is the
\* handing out), the rest of those in work; and the threads not yet done.
Left ==
  {u \in Col \X (-1 .. N) \X (0 .. N + 1) :
     \/ u[1] \in pending
     \/ \E th \in Threads : Active(th) /\ tj[th] = u[1] /\ ToDo(th, u[2], u[3])}
Late == {th \in Threads : tpc[th] # "barrier"}

\* A step that enters or leaves the region, or does some of what is left.
Advances ==
  \/ <<region, region'>> \in {<<"before", "parallel">>, <<"parallel", "after">>}
  \/ /\ region' = region
     /\ Left' \subseteq Left /\ Late' \subseteq Late
     /\ <<Left', Late'>> # <<Left, Late>>

\* No thread does anything twice or for another one (lines 48-63): whoever takes
\* a step, some of the work that is left is done and none is added.  So the team
\* cannot run for ever, however its threads get in each other's way.
TeamAdvances == [][Advances]_backVars

\* "#pragma vector aligned" (line 53): the entries of a that the k loop starts
\* with are at a multiple of 32 bytes, 4 doubles, from the start of the array,
\* which main.c aligns to 32.
AlignedAsAsserted ==
  \A th \in Threads :
    tpc[th] = "inner" /\ tk[th] = InnerLoop(ti[th]) /\ tk[th] # {} =>
      (ti[th] * N + (ti[th] + 1)) % 4 = 0

\* The parallel loop ends and my_dgesv returns.
BackTermination == <>(ret # Running)

=============================================================================
