------------------------------ MODULE ArraySizes ------------------------------
(***************************************************************************)
(* The widths of the sizes and indices of main.c and dgesv.c.  The size is *)
(* an int; the functions of main.c take it as an unsigned int, allocate    *)
(* size * size doubles computed in size_t, and fill, copy and compare as   *)
(* many as size * size is in unsigned int.  my_dgesv computes its indices  *)
(* in int.  What the arrays hold plays no part here; allocations succeed.  *)
(***************************************************************************)
EXTENDS Integers

CONSTANT W8       \* an eighth of the number of values of an int

ASSUME WordAssumption == W8 \in Nat \ {0}

W    == 8 * W8    \* 2^32: the values of an int, and of an unsigned int
Half == 4 * W8    \* 2^31: an int is in -Half .. Half - 1
Wide == W * W     \* 2^64: the values of a size_t

VARIABLES
  size,       \* the matrix size of the command line
  phase,      \* "generate", "duplicate", "solve", "check", "ok", "wrong"
  i,          \* the loop variable
  filled,     \* how many entries of the matrix have been generated
  compared,   \* how many entries check_result has compared
  fault       \* "none", or what goes wrong with an access

vars == <<size, phase, i, filled, compared, fault>>

unsigned == size % W

\* The doubles in a buffer of sizeof(double) * size * size bytes.  Mutant: the
\* product is computed in unsigned int.
Capacity_unsigned == ((8 * (unsigned * unsigned)) % W) \div 8
Capacity == ((8 * (unsigned * unsigned)) % Wide) \div 8

\* size * size in unsigned int.
Count == (unsigned * unsigned) % W

\* How many entries check_result compares.  Mutant: one row.
CheckCount_oneRow == unsigned
CheckCount == Count

Init ==
  /\ size \in -Half .. (Half - 1)
  /\ phase = "generate"
  /\ i = 0 /\ filled = 0 /\ compared = 0
  /\ fault = "none"

InBuffer(index) == IF index < Capacity THEN "none" ELSE "out_of_bounds"

\* generate_matrix: matrix[i] = rand() % 100.
Generate ==
  /\ phase = "generate"
  /\ i < Count
  /\ fault' = InBuffer(i)
  /\ filled' = i + 1
  /\ i' = i + 1
  /\ UNCHANGED <<size, phase, compared>>

Generated ==
  /\ phase = "generate"
  /\ i >= Count
  /\ phase' = "duplicate"
  /\ UNCHANGED <<size, i, filled, compared, fault>>

\* duplicate_matrix: one memcpy between buffers of the same size.
Duplicate ==
  /\ phase = "duplicate"
  /\ fault' = IF Count <= Capacity THEN "none" ELSE "out_of_bounds"
  /\ phase' = "solve"
  /\ i' = 0
  /\ UNCHANGED <<size, filled, compared>>

\* The last index my_dgesv computes in row r.  Mutant: it is one row further.
LastIndex_nextRow(r) == (r + 1) * size + (size - 1)
LastIndex(r) == r * size + (size - 1)

\* The bound n - 1 of the outer loop is computed, then row i is worked on.
SolveRow ==
  /\ phase = "solve"
  /\ i < size
  /\ fault' = IF LastIndex(i) >= Half \/ LastIndex(i) >= Capacity THEN "undefined"
              ELSE IF LastIndex(i) >= filled THEN "uninitialized" ELSE "none"
  /\ i' = i + 1
  /\ UNCHANGED <<size, phase, filled, compared>>

\* my_dgesv returns, after the last row or because of a tiny pivot.  With the
\* least int n - 1 overflows.
SolveReturns ==
  /\ phase = "solve"
  /\ fault' = IF size - 1 < -Half THEN "undefined" ELSE "none"
  /\ phase' = "check"
  /\ i' = 0
  /\ UNCHANGED <<size, filled, compared>>

\* check_result: the entries at i agree,
Agree ==
  /\ phase = "check"
  /\ i < CheckCount
  /\ fault' = InBuffer(i)
  /\ compared' = i + 1
  /\ i' = i + 1
  /\ UNCHANGED <<size, phase, filled>>

\* or they do not,
Differ ==
  /\ phase = "check"
  /\ i < CheckCount
  /\ fault' = InBuffer(i)
  /\ phase' = "wrong"
  /\ UNCHANGED <<size, i, filled, compared>>

\* or all of them have been found to agree.
AllAgree ==
  /\ phase = "check"
  /\ i >= CheckCount
  /\ phase' = "ok"
  /\ UNCHANGED <<size, i, filled, compared, fault>>

Next ==
  /\ fault = "none"
  /\ \/ Generate \/ Generated \/ Duplicate \/ SolveRow \/ SolveReturns
     \/ Agree \/ Differ \/ AllAgree

Stopped == (fault # "none" \/ phase \in {"ok", "wrong"}) /\ UNCHANGED vars

Spec == Init /\ [][Next \/ Stopped]_vars

-----------------------------------------------------------------------------
\* The loops of main.c and its memcpy stay within their buffers for any int
\* size, negative ones included: where size * size wraps around, the number
\* of entries wraps earlier than the number of bytes.
LoopsInBounds == fault # "out_of_bounds"

\* While size * size is at most 2^31 (size up to 46340) no index of my_dgesv
\* overflows or leaves its buffer, and it reads no entry that was not
\* generated.
SmallIsDefined ==
  fault \in {"undefined", "uninitialized"} => size * size > Half

\* For those sizes "Result is ok!" is about the whole system.
OkCoversSystem ==
  phase = "ok" /\ size >= 0 /\ size * size <= Half =>
    compared = size * size /\ filled = size * size

=============================================================================
