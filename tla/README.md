# A verification project for hpctools

The repository is the work of a course on performance tools. Its own program is
small: a dense linear solver `my_dgesv`, written three times (serial, vectorised,
parallel with OpenMP), a benchmark that runs it against `LAPACKE_dgesv`, and a
timer. Everything else in the tree is vendored (Valgrind 3.22.0 and its build, a
Perl IO module) or generated (Intel Advisor projects, flame graphs, perf
reports) and is left out.

This directory holds TLA+ models of that program, TLC configurations that check
them on small instances, and TLAPS proofs of the main properties for all
instances.

## The system

| Component | Source | State | Operations |
|---|---|---|---|
| elimination with partial pivoting | `dgesv.c` 11-45 | `a`, `b`, `k`, `i`, `maxIndex`, `maxVal` | search of the pivot, row exchange, pivot test, elimination of a row |
| parallel back substitution | `dgesv.c` 48-69 | shared `a`, `b`, `error_flag`; private `j`, `i`, `k`, `t` | fork, take a column, load a row, one iteration of the simd loop, test, store, barrier and return |
| statically scheduled version | `dgesv-optimal1.c` | the same | the same, another schedule |
| serial version | `task1/dgesv.c` | `a`, `b`, `i`, `j`, `k` | no pivoting, early return from back substitution |
| benchmark | `main.c` | two copies of the system, five buffers, two timestamps | generate, duplicate, call both solvers, time them, compare, free |
| benchmark of task 1 | `task1/main.c` | the same | the same with the serial solver; frees nothing |
| array sizes | `main.c`, `dgesv.c` | the size, as `int` and as `unsigned int` | `size * size` in two widths, the loops over it, the indices of the solver |
| test programs | `test.c`, `task1/test.c` | one fixed system and its copy | solve with both solvers, print |
| timer | `timer.c`, `timer.h` | `struct timespec` | `timestamp`, four differences |
| build | `makefile`, `task1/makefile` | | not modelled |

`main` calls `LAPACKE_dgesv` (external) on `aref`, `bref` and `my_dgesv` on `a`,
`b`; both overwrite their arguments. Inside `my_dgesv` the calling thread does
the elimination alone and then becomes the master of an OpenMP team. The threads
of the team share `b`, each writes its own columns, and communicate only through
`error_flag` and the barrier at the end of the loop.

What is hard here: the interleavings of the team, the private and shared
variables, the flag that is read long after it was raised, the simd loop whose
order is the compiler's; giving up half way through an elimination that works in
place; two different places where a singular matrix is detected; truncation in
the timer; unchecked allocation; products that wrap around in one width and not
in another; a verdict that looks at the numbers and not at the return value.
`PROJECT.json` lists each hazard at its line.

## Modules

| Module | Models |
|---|---|
| `Arithmetic` | doubles as a parameter: the operations, `fabs`, `<`, the threshold; assumed: closure, `<` is a strict order (true of IEEE with NaN) |
| `Rationals` | the instance of the test programs: fractions, and NaN |
| `Matrices` | the arrays, as matrices with rows and columns from 0 |
| `ExactArithmetic` | the laws that hold when the arithmetic is exact on a set `Fin` of finite numbers (those of a field, with division by what is not tiny), a dot product that grows term by term, solutions and singular matrices |
| `FiniteField` | the instance TLC uses: integers modulo a prime, and NaN for a division by zero |
| `SolverCall` | the arguments and the return value of `my_dgesv`, shared by its halves and its callers |
| `ForwardElimination` | `dgesv.c` 11-45, one action per iteration of the search, per exchange, test and eliminated row |
| `ForwardEliminationExact` | what the elimination achieves in exact arithmetic |
| `BackSubstitution` | `dgesv.c` 48-69, a team of `T` threads under any schedule `Share` |
| `BackSubstitutionSerial` | the result of the parallel loop against the serial one, for a k loop that runs in any order (`Order`) or in the one the code writes |
| `OmpSchedules` | the two schedules: `schedule(dynamic)` and the static default |
| `LinearSolver` | the abstract specification of `my_dgesv` for its caller |
| `Dgesv` | `dgesv.c`: the two halves composed, shown to implement `LinearSolver` |
| `DgesvOptimal1` | `dgesv-optimal1.c`: the same with the static schedule |
| `SerialDgesv` | `task1/dgesv.c` |
| `Timer` | `timer.c`, `timer.h` |
| `Benchmark` | the main function common to `main.c` and `task1/main.c`, with the timestamps of `Timer` |
| `Harness` | `main.c`: `Benchmark` with `Dgesv` running inside it, and the frees |
| `SerialHarness` | `task1/main.c`: `Benchmark` with `SerialDgesv` running inside it |
| `ArraySizes` | the widths of sizes, counts and indices in `main.c` and `dgesv.c` |
| `TestProgram` | `test.c`: both solvers on its system, in fractions |
| `MC...` | instances for TLC |
| `..._proofs` | theorems and proofs |

How the code becomes actions:

- *Granularity.* In the parallel loop every access to shared memory is a step of
  its own: the load of `b[i][j]`, each iteration of the `k` loop, the test with
  the atomic write, the store. Inner loops of the sequential elimination (the
  exchange of two rows, the update of one row) are one action, as nobody can
  look in between.
- *The simd loop* takes its iterations in any order, which is what `omp simd`
  permits; the accumulator has no reduction clause and the shipped binary does
  reassociate it. Over exact numbers the order must not matter, and
  `SerialResult` says so; over doubles the results of two orders differ by
  rounding. Where the compiler keeps the order of the loop (`InOrder`),
  `SerialResult` is proved for doubles as well. Partial accumulators in the lanes
  of a vector register are not modelled.
- *The flag.* The test and the write that it guards are one action: the only
  value ever written is 1.
- *The default build* (`makefile`, gcc without `-fopenmp`) ignores the pragmas:
  that is `T = 1`.
- *NaN and infinity* are one value outside `Fin`. Back substitution divides by
  a tiny last pivot after raising the flag, and the model does, too.
- *Allocation* may fail at each of the five calls. Nobody tests the result, so
  `main` crashes unless the system is empty. The program promises nothing for that
  case and no property is about it; `MainEnds` counts the crash as an end.
- *`info`* is assigned twice in `main` and never read; the model has no variable
  for it.
- *A comparison with NaN* is false in IEEE arithmetic, but the shipped binary was
  built by icx, whose default is fast arithmetic, in which it may be true:
  `NaNCompares` is the set of both, and `nanEqual` the one of the build that runs.
- *The verdict* is compared with what it should be by definitions of their own
  (`Near`, `NearlySolves`), which do not use `check_result`; a broken comparison
  is one of the bugs the properties detect.
- *`LAPACKE_dgesv`* is external: it solves a regular system and leaves `bref`
  alone on a singular one. In `TestProgram` it is Cramer's rule.
- *Widths.* `ArraySizes` keeps the two widths of `main.c` (32 and 64 bits) as `W`
  and `W * W` and looks only at counts and indices. A row of the solver is one
  step with the largest index it computes. Undefined behaviour ends a behaviour
  with a `fault` that names its kind.

A definition whose name ends in a suffix (`SwappedB_not`, `Flag_overwritten`, ...)
stands before the one it is a plausible bug of; each property is shown to detect
one of them.

## Runs

| Run | Instance | Checks |
|---|---|---|
| `back_dynamic` | N=3, 3 columns, 2 threads, all triangular matrices modulo 2 | `BackTypeOK`, `OneThreadPerColumn`, `ErrorReported`, `SerialResult`, `TeamAdvances`, `BackTermination` |
| `vector_aligned` | the same | `AlignedAsAsserted`, which is violated: see below |
| `elimination_threshold` | all matrices of order 3 with entries 0, 1, 3 modulo 5, threshold 2 | `ElimTypeOK`, `PivotsNotTiny`, `StaysFinite`, `GivesUpOnSingular` |
| `elimination_order3` | all matrices of order 3 modulo 3 | `PivotDominates`, `Echelon`, `SolutionsPreserved` |
| `dgesv` | all matrices of order 2 modulo 3, 3 columns, 2 threads | `ZeroMeansSolved`, `SolvesOrGivesUp` (refinement of `LinearSolver`), `Termination` |
| `dgesv_optimal1` | all matrices of order 2 modulo 3, 2 columns, 3 threads | `SolvesOrGivesUp`, `Termination` with an idle thread |
| `serial_dgesv` | all matrices of order 3 modulo 3, 2 columns | `ZeroMeansSolved`, `GivesUpOnZeroMinor`, `FailureKeepsSystem`, `Termination` |
| `timer` | `Kilo` = 2, clock up to 19 | `Accurate` |
| `harness` | all matrices of order 2 modulo 3, threshold 2, no tolerance, 2 threads, five durations, two clock starts, both kinds of build | `RegularIsOk`, `VerdictIsRight`, `OkOfSingular`, `TimesAreOwn`, `MainEnds` |
| `serial_harness` | all systems of order 2 modulo 3, tolerance 1 | `VerdictIsRight`, `OkOfSingular`, `MainEnds` |
| `array_sizes` | every int of 7 bits as the size | `LoopsInBounds`, `SmallIsDefined`, `OkCoversSystem` |
| `test_program` | the system of `test.c` in fractions, both solvers, 3 threads | `PrintsTheExpected` |

Why the bounds are enough to be interesting:

- Order 3 is the smallest in which an exchange happens after an elimination, the
  update starts at a column other than the first, and the simd loop has two
  iterations to reorder. Order 2 already has singular matrices found by the
  elimination (first column zero) and by back substitution (last pivot zero).
- A prime field has exact division, so that `t / a[i][i]` and the checks of a
  solution are exact, and all matrices are enumerated, singular ones included.
  Its order is that of the representatives: enough for the search of the
  maximum, which only compares.
- With `Eps` = 2 there are tiny numbers other than zero, as 1e-10 makes them:
  `elimination_threshold` gives up on regular matrices in the second column,
  after an exchange and an elimination, and `harness` compares what such a refusal
  leaves in `b`, which by chance may even be the solution.
- With `RelEps` = 1 in `serial_harness` 0 is near 0 only, 1 near 0 and 1, and 2
  near all three values: results that are not exact pass, and it matters whose
  magnitude the tolerance is relative to.
- More columns than threads makes threads come back for another one; fewer
  makes a thread go straight to the barrier.
- With `Kilo` = 2 a second has 8 ns: the clock passes two second boundaries and
  every remainder.
- With 7-bit ints (`W8` = 16) the product of the size with itself wraps around
  many times in the width of an `unsigned int` and, for the larger sizes taken
  as bytes, in that of a `size_t`.
- The fractions of `test_program` stay small enough for TLC; its `Eps` is 1/1000
  for 1e-10, and no number but 0 that is compared with it lies below either.

Fairness: each thread of the team, and the master before and after the region,
is weakly fair. They are operating system threads that never block except at the
barrier, and no lock is involved. `SerialDgesv` and the benchmark programs are
single threads (with the team inside `my_dgesv`) that keep running. Clocks and
durations need no fairness: a call takes its time in one step.

What the runs show about the code:

- `my_dgesv` and `dgesv-optimal1.c` implement `LinearSolver`: 0 with the solution
  for every regular matrix, -1 for every singular one, when zero is the only tiny
  number. With the absolute threshold 1e-10 they also refuse regular matrices of
  small scale, and `GivesUpOnSingular` says that this is the only other reason: the
  largest candidate for a pivot is nonzero and below the threshold. With `nrhs = 0` a matrix whose only small pivot is the last returns 0.
- On -1 from line 34 the system in `a` and `b` still has the solutions of the
  call; on -1 from line 66 `b` is lost.
- The serial version refuses every matrix with a singular leading block, so also
  regular ones, and another one only for a nonzero diagonal entry below the
  threshold; it fails in back substitution only at the very first entry,
  and then `a` and `b` still hold an equivalent system.
- `main` calls a regular system ok, unless `my_dgesv` refused it for a nonzero
  pivot below the threshold (`RegularIsOk`). Even then its verdict is right, `ok`
  exactly if `b` nearly solves the system (`VerdictIsRight`), except that a NaN in
  `b` may pass in a build that takes a comparison with it for true.
- `main` ignores `info`, so a singular system is called ok when both solvers refuse
  it and the numbers in `b` are still near what they were. `OkOfSingular` says that
  there is no other way: `my_dgesv` returned -1, so a `main` that looked at `info`
  would not print it, and the NaNs of a failed back substitution pass only in a
  build that takes them for equal.
- In task 1 the solver refuses regular systems, too, and `info` is ignored as
  well; the verdict on a regular system is right all the same, and on a singular
  one it is `ok` under the same condition. `b` never holds a NaN there.
- The loops of `main.c` never leave their buffers, whatever the size on the
  command line: the count of entries wraps around earlier than the count of
  bytes. The solver's do: from 46341 on its indices overflow, at 65536 nothing
  was generated for it to read, and at 1518500250 the buffer itself is too small.
  A size of 65536 or -65536 compares no entry, so its verdict, if the program
  gets there, is `ok`. Up to 46340 none of this happens.
- **Finding.** `#pragma vector aligned` (`dgesv.c` 53, `dgesv-optimal1.c` 52) says
  that the accesses of the `k` loop are aligned. `main.c` aligns the start of `a`
  to 32 bytes, but the loop starts at `a[i*n + i + 1]`, and for `i = n - 2` that
  index is `n*n - n - 1`, which is odd for every `n`. gcc ignores the pragma; a
  compiler that believes it may use loads that fault.

## Proofs

Checked by TLAPS for every value of the constants.

`BackSubstitution_proofs` (any arithmetic, any team, any schedule that gives
every column to some thread):

- `BackTypeCorrect`: `BackTypeOK` is inductive as it stands.
- `NoTwoThreadsOnAColumn`: `OneThreadPerColumn`, inductive with `BackTypeOK`.
- `ErrorsAreReported`: `ErrorReported` speaks of the final state only. The
  inductive invariant adds `TeamInv` (a thread at the barrier has nothing left to
  take, so with `ScheduleCovers` everything was handed out) and `FlagInv` (a
  thread that has tested a tiny entry, and a column that was finished, have the
  flag up).
- `OrderedEqualsSerial`: `SerialResult`. `SerialInv` says how far each column
  is: untouched, in work (rows below `i` solved, `t` the serial accumulator after
  the set of iterations done), or equal to the serial result. It needs
  `OneThreadPerColumn` so that a store disturbs no other thread. The serial
  result enters as a function that satisfies the recurrence of the loop
  (`IsSerial`) for the iterations that `Order` allows next, and every step has to
  respect that order (`InOrder`). Nothing is assumed of the arithmetic: rounding
  and NaN are the same for the team as for one thread.
- `ParallelEqualsSerial` is the case in which `Order` allows everything, so that
  `InOrder` holds of itself. Its premise, accumulators that depend only on the set
  of terms taken off, is what exact arithmetic gives.
- Neither premise is empty: `AscendingLoopExists` of `Dgesv_proofs` shows, for any
  arithmetic, that the loop in ascending order has a serial result, and
  `SerialLoopExists` that in exact arithmetic there is one for all orders.
- `TeamUsesUpItsWork`: `TeamAdvances`, the part of termination that needs no
  fairness. `Left` is the set of steps the team still has to take, `Late` the
  threads that have not reached the barrier. Every step removes something from
  one of them and adds to none; that a step removes only its own work needs
  `OneThreadPerColumn`. `TeamCountsDown` counts the two sets, which are finite for
  every size: the sum is a natural number that decreases with each step inside
  the region.
- `SchedulesCover`: both schedules of the code satisfy `ScheduleCovers`, for any
  number of threads and columns.

`ForwardElimination_proofs`:

- `ElimTypeCorrect`, `PivotIsLargest` (from `PivotInv`, the invariant of the search),
  `PivotsAreNotTiny`: any arithmetic with a strict order, NaN included.
- `EliminationStaysFinite`, `EliminationIsEchelon`,
  `EliminationPreservesSolutions`: from the laws of `ExactArithmetic`.
  They build on each other: only tested pivots are divided by, so numbers stay
  finite, so the entry below the pivot becomes exactly zero, so the update from
  column `k` on is an operation on the whole row, so solutions are kept (the
  addition cancels).
- `GivingUpMeansSingular`: `GivesUpOnSingular`. The same row operations keep the
  kernel of the matrix (`KernelKept`). When the largest candidate for a pivot is
  zero, `PivotInv` makes the whole rest of the column zero, and with `Echelon` the
  lemma `ZeroColumn` gives a nonzero vector that the matrix maps to zero.

`ExactArithmetic_proofs` holds the algebra both solvers rest on. From the laws of a
field it derives how sums behave (`SumAdditive`, `SumLinear`, `SumSame`), that a row
operation keeps the solutions (`RowOperation`), that a row of a triangular system
has one solution once those below it are known (`SolvedRow`), that a matrix in which
the elimination finds a column of zeros maps some nonzero vector to zero
(`ZeroColumn`), that a triangular one without tiny diagonal entries does not
(`OnlyZero`), and that a regular system has at most one solution
(`UniqueSolution`). `RegularHasOneSolution` adds that it has one, where the threshold
refuses nothing but zero: as long as the matrix is regular, every column has a
pivot (`ZeroColumn` again), an exchange and a row operation clear it without
changing solutions or kernel (`OneMoreColumn`), and the triangular system is solved
from its last row up (`TriangularSolvable`). So what `LinearSolver` asks of
`my_dgesv`, and what the benchmark expects of `LAPACKE_dgesv`, can be done for every
regular matrix: neither action of the models is ever blocked for want of a
solution. The statements about all rows or all terms are inductions over
the index. The induction theorems of the library cannot be instantiated by the
provers, so the lemma `UpTo` does it with sets: a set of numbers that holds 0, and
with each `n < m` also `n + 1`, holds `m`, because otherwise the numbers missing from
it would have a least element.

`Dgesv_proofs`, `ReturnsTheSolution`: when `my_dgesv` returns 0, `b` is the one
solution of the system it was called with. The invariant `CallInv` joins those of
the two halves: the facts of the elimination hold until it ends and are then
frozen with `a`; while the team runs, every column is untouched, in work or
solved (`ColumnsInv`). `Form(c, m)` says what a column whose rows after `m` are
solved has become: a vector solves the system of the call exactly if it has the
stored values in those rows and satisfies the equations of the others.
`Accumulated` says that `t` and the terms already taken off add up to the
right-hand side, whatever the order; so a store moves `Form` up by one row.
The flag connects the halves: a return of 0
means that no diagonal entry was tiny, so that each of these values exists.

`CallRefinesLinearSolver`: `Dgesv` implements `LinearSolver`, under the mapping that
shows the caller `b` only after the return. Steps before the return stutter
(`StepsWhileRunning`). A return of 0 maps to `Solve`: with a right-hand side no
diagonal entry was tiny, so the triangular matrix, and with `KernelKept` that of the
call, is regular (`ZeroMeansRegular`). A return of -1 maps to `GiveUp`: the entry
that was tiny, found by line 33 or by line 57, is zero if the threshold refuses
nothing else, and then the matrix is singular (`Outcome`). The theorem holds for every
schedule that covers the columns.

`Optimal1RefinesLinearSolver`: so does `dgesv-optimal1.c`. The module `DgesvOptimal1` is
instantiated next to `Dgesv`; its steps are those of `Dgesv` with the blocks of the
static schedule for `Share` (`SameElimination`, `SameTeam`), and `StepsRefine`, the
refinement without the fairness, carries over. Its hypothesis only says that
`Share` is that schedule; `SchedulesCover` says that it covers the columns.

`SerialLoopExists`: a triangular system without tiny diagonal entries has a
serial result, and accumulators that depend only on the set of the terms taken
off. The matrix is built row by row from the last one up. `AscendingLoopExists`
does the same without any law of the arithmetic, for the order of the source.

`SerialDgesv_proofs`: `SerialReturnsTheSolution` and `SerialFailureKeepsSystem`,
from an invariant of the same form for one thread. `SerialFailureKeepsSystem` needs that a
failing back substitution has not stored anything: rows are tested from the last
one up, all but the last were tested by the elimination, and the last is tested
before the first store. `SerialGivesUpOnMinors` (`GivesUpOnZeroMinor`) follows the
kernel of each leading block through the elimination (`MinorInv`): without exchanges
a row operation inside a block is one of the block alone.
`SerialVerdictIsRight` and `SerialOkOfSingularIsRefused` are about `task1/main.c` around
it (`MainInv`): the solver is called with the generated system; LAPACK's result is the
only solution of a regular one, so the comparison with it decides whether `b` nearly is
one; and it is the untouched copy of a singular one, for which `NoSingularBlock` excludes
a return of 0.

`Timer_proofs`: `DifferencesAreAccurate`, from the lemma that each function
computes times rounded down to its unit.

`Harness_proofs`: `TimesAreTheirOwn`, from `TimesInv`, how much time has passed
since the shared `start` was taken. `RegularSystemsPass`, `VerdictOnRegularIsRight` and
`OkOfSingularIsRefused`, from two invariants: `CalledInv` (the system `my_dgesv` is
called with is the generated one, and from the call on the invariant of `Dgesv_proofs`
holds) and `CopiesInv` (the copies LAPACK works on are of that system, and what it
leaves in `bref` is the only solution, or the copy if the matrix is singular). A
refused `b` may hold anything, quotients by a tiny number included, so
`ComparisonIsRight` assumes nothing of it.

`ArraySizes_proofs`: `LoopsStayInBounds`, `SmallSizesAreDefined` and
`OkIsAboutTheSystem`, for ints of any width: the real one is not an instance TLC
can enumerate. The invariant bounds the loop variable by the count, and the
arithmetic is in `SmallerModulus` (a remainder is no more than the one by a
multiple of the modulus), `CountFits` and `LastInRow`.

Assumptions: the named `ASSUME`s of the modules. Those on the arithmetic
(`FinClosed`, `FinAddition`, `FinMultiplication`, `FinDivision`, `FinNonzero`, `DotTerms`)
are the laws of a field in which what is not tiny can be divided by, and hold of
doubles up to rounding. `ToleranceAssumption` says that a number is nearly equal to
itself. TLC evaluates them on every instance it checks, except the fractions,
which are infinitely many.

Only model-checked:

- termination and the other liveness properties, which need fairness and
  `ENABLED`; for the parallel loop `TeamCountsDown` proves the other half, that the
  team cannot run for ever;
- `PrintsTheExpected`, a computation with the numbers of one system in fractions
  kept in lowest terms, whose greatest common divisor is a recursive function.

## Not modelled

- Rounding. The algebraic results are about exact arithmetic; nothing is claimed
  about the accuracy of the doubles, nor about whether the tolerance 1e-5 of
  `is_nearly_equal` is wide enough for it. In particular a reference value of
  exactly 0 tolerates no rounding error, as the tolerance is relative to it.
- The lanes of the simd loop as accumulators of their own: an iteration reads and
  writes `t` in one step, so `SerialResult` is about their order and not about
  updates that lanes without a reduction clause could lose.
- The text that is printed, and `atoi` on arguments that are not numbers.
- The makefiles. They build with gcc without `-fopenmp`, so the default program
  runs the loop with one thread; their comments name icx, the compiler of the
  binary in the repository.
- Valgrind 3.22.0 (`task3/`) and the Perl module IO 1.55. They are unmodified
  third-party sources, no code of the repository calls them, and they make up all
  but a few hundred of its lines; a share of modelled lines taken over the whole
  tree is therefore close to zero, while every function the repository wrote
  itself is modelled.
- Profiles, flame graphs and Advisor projects, which are generated.

## What is left

A model of rounding would need error bounds on reals, which neither tool offers. The
lanes of a vectorised `k` loop, each with an accumulator of its own, would be a
refinement of `Inner`. If the partial sums are added up at the end it changes nothing
in exact arithmetic; what a compiler may do without a reduction clause is another
question, of which the model says nothing.
