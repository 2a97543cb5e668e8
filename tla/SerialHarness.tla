---------------------------- MODULE SerialHarness ----------------------------
(***************************************************************************)
(* The benchmark program of task 1 (task1/main.c): main as in Benchmark,   *)
(* my_dgesv as in SerialDgesv.  It frees nothing before it returns.        *)
(***************************************************************************)
EXTENDS SerialDgesv, Benchmark

allVars == <<vars, mainVars>>

\* my_dgesv has not been called: its variables have no meaning yet.
NotCalled == INSTANCE SerialDgesv WITH InputA <- {ZeroA}, InputB <- {ZeroB}

HarnessInit == MainInit /\ NotCalled!Init

\* my_dgesv is entered,
Call ==
  /\ EnterMyDgesv
  /\ a0' = a /\ b0' = b
  /\ UNCHANGED <<k, i, j, t, pc>>

\* and runs.
Run ==
  /\ mpc = "in_my_dgesv"
  /\ Next
  /\ UNCHANGED mainVars

HarnessNext ==
  \/ (MainStep \/ Exit({})) /\ UNCHANGED localVars
  \/ Call
  \/ Run

Ended == MainEnded /\ UNCHANGED allVars

HarnessSpec ==
  /\ HarnessInit /\ [][HarnessNext \/ Ended]_allVars
  /\ WF_allVars(HarnessNext)

-----------------------------------------------------------------------------
\* For a regular system the verdict is right: "ok" exactly if b nearly solves
\* it.  my_dgesv refuses regular systems too, those with a singular leading
\* block; main ignores its result, and the comparison has to find them out.
VerdictIsRight ==
  verdict # "none" /\ ~IsSingular(a0) =>
    (verdict = "ok" <=> NearlySolves(a0, b0, b))

\* main calls a singular system "ok" only if my_dgesv returned -1 and b, from
\* which rows may have been subtracted before, is still near what it was.
\* There is never a NaN in it.
OkOfSingular ==
  verdict = "ok" /\ IsSingular(a0) =>
    ret = -1 /\ NearWhereNumber(b0, b) /\ ~HoldsNaN(b)

=============================================================================
