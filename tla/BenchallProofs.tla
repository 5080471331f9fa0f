--------------------------- MODULE BenchallProofs ---------------------------
(***************************************************************************)
(* Proofs about the harness: for every number of rounds and every b.N, the *)
(* files that benchstat compares hold what the README says they hold.      *)
(***************************************************************************)
EXTENDS Benchall, TLAPS

AllInstalled == installed = {"go1.9", "go.tip", "benchstat"}

(* Which processes can be alive, and where they can be, at each point of   *)
(* the script.                                                             *)
Control ==
  /\ sh = "check" => /\ at \in 1 .. 3 /\ tester = "none"
                     /\ at > 1 => "go1.9" \in installed
                     /\ at > 2 => "go.tip" \in installed
  /\ sh \in {"pass", "benchstat"} => AllInstalled
  /\ tee \in {"opening", "copying"} => sh = "pass"
  /\ tester = "run" => sh = "pass"
  /\ tester = "none" <=> tee = "none"
  /\ tee = "exited" => pipe = NoLines /\ tester # "run"
  /\ building => tester = "run" /\ k < n
  /\ n > 0 => bench \in Bench

(* The file of pass p holds lines of no other pass.                        *)
Clean(p) == \A q \in Sources \ {p} : file[Passes[p]][q] = NoLines

(* The truncation by the current pass, and by the third one, lasts.        *)
Truncation ==
  /\ (sh = "pass" /\ tee \in {"copying", "exited"} /\ teeStatus = 0) => Clean(at)
  /\ (sh = "pass" /\ at = 4) => Clean(3)
  /\ sh = "benchstat" => Clean(3) /\ Clean(4)

(* The lines that a pass without failures has printed for b.               *)
Printed(b) == IF b < bench THEN Count ELSE IF b = bench THEN round - 1 ELSE 0

(* Every line printed is in the pipe or in the file.                       *)
Conserved ==
  (sh = "pass" /\ tester \in {"run", "ok"} /\ ~failed) =>
    /\ tee = "opening" => \A b \in Bench : pipe[b] = Printed(b)
    /\ (tee \in {"copying", "exited"} /\ teeStatus = 0) =>
         \A b \in Bench : file[Passes[at]][at][b] + pipe[b] = Printed(b)

(* If pass p succeeded, its file is complete.                              *)
Full(p) == p \in okPasses => \A b \in Bench : file[Passes[p]][p][b] = Count

Completeness ==
  /\ tester = "ok" => bench = 4 /\ ~failed
  /\ \A p \in okPasses : p <= at
  /\ (sh = "pass" /\ at \in okPasses) => tester = "ok"
  /\ sh = "check" => okPasses = {}
  /\ (sh = "pass" /\ at = 4) => Full(3)
  /\ sh = "benchstat" => Full(3) /\ Full(4)

Inv == TypeOK /\ Control /\ Truncation /\ Conserved /\ Completeness

-----------------------------------------------------------------------------
(* The loop list of benchall.bash names compilers; its third and fourth    *)
(* words are the second passes of go1.9 and of go.tip.                     *)
LEMMA PassesFacts ==
  /\ \A p \in Pass : Passes[p] \in Compilers
  /\ Passes[3] = "go1.9" /\ Passes[4] = "go.tip"
BY DEF Passes, Pass, Compilers

(* The script starts in a state of the inductive invariant.                *)
LEMMA InitInv == Init => Inv
<1> SUFFICES ASSUME Init PROVE Inv
  OBVIOUS
<1> USE CountAssumption, MaxNAssumption DEF Init
<1>1. TypeOK
  <2>1. Truncated \in [Sources -> [Bench -> Nat]] /\ Stale \in [Sources -> [Bench -> Nat]]
    BY DEF Truncated, Stale, NoLines
  <2>2. file \in [Compilers -> [Sources -> [Bench -> Nat]]]
    BY <2>1
  <2>3. pipe \in [Bench -> Nat]
    BY DEF NoLines
  <2>4. building \in BOOLEAN /\ failed \in BOOLEAN
    BY Zenon
  <2> QED
    BY <2>2, <2>3, <2>4 DEF TypeOK, Pass
<1>2. Control
  BY DEF Control, Bench
<1>3. Truncation /\ Conserved /\ Completeness
  BY DEF Truncation, Conserved, Completeness
<1> QED
  BY <1>1, <1>2, <1>3 DEF Inv

(* Every step keeps the types: a round is never 0 or above Count, and the  *)
(* test binary never runs past the last benchmark.                         *)
LEMMA TypeStep == TypeOK /\ Control /\ [Next]_vars => TypeOK'
<1> SUFFICES ASSUME TypeOK, Control, [Next]_vars PROVE TypeOK'
  OBVIOUS
<1> USE CountAssumption, MaxNAssumption DEF TypeOK, testVars, teeVars, Pass
<1>1. CASE CheckPrerequisite
  BY <1>1 DEF CheckPrerequisite, Exit, Control
<1>2. CASE StartPipeline
  <2>1. building' \in BOOLEAN /\ failed' \in BOOLEAN
    BY <1>2, Zenon DEF StartPipeline
  <2> QED
    BY <1>2, <2>1 DEF StartPipeline, NoLines, Bench
<1>3. CASE PipelineDone
  BY <1>3 DEF PipelineDone, Exit
<1>4. CASE Benchstat
  BY <1>4 DEF Benchstat, Exit
<1>5. CASE TeeOpen
  <2>1. Truncated \in [Sources -> [Bench -> Nat]]
    BY DEF Truncated, NoLines
  <2> QED
    BY <1>5, <2>1, PassesFacts DEF TeeOpen
<1>6. CASE TeeCopy
  <2>1. NoLines \in [Bench -> Nat]
    BY DEF NoLines
  <2>2. Passes[at] \in Compilers /\ at \in Sources
    BY PassesFacts DEF Sources
  <2>3. [b \in Bench |-> file[Passes[at]][at][b] + pipe[b]] \in [Bench -> Nat]
    BY <2>2
  <2>4. file' \in [Compilers -> [Sources -> [Bench -> Nat]]]
    <3> DEFINE lines == [b \in Bench |-> file[Passes[at]][at][b] + pipe[b]]
    <3>1. CASE UNCHANGED file
      BY <3>1
    <3>2. CASE file' = [file EXCEPT ![Passes[at]][at] = lines]
      <4>1. lines \in [Bench -> Nat]
        BY <2>3
      <4> HIDE DEF lines
      <4> QED
        BY <3>2, <2>2, <4>1
    <3> QED
      BY <1>6, <3>1, <3>2 DEF TeeCopy
  <2> QED
    BY <1>6, <2>1, <2>4 DEF TeeCopy
<1>7. CASE TeeExit
  BY <1>7 DEF TeeExit
<1>8. CASE CallBenchmark
  BY <1>8 DEF CallBenchmark
<1>9. CASE StartBuild
  BY <1>9 DEF StartBuild
<1>10. CASE BuildOK
  <2>1. building' \in BOOLEAN /\ failed' \in BOOLEAN
    BY <1>10, Zenon DEF BuildOK
  <2> QED
    BY <1>10, <2>1 DEF BuildOK, Control
<1>11. CASE BuildFails
  <2>1. bench \in Bench
    BY <1>11 DEF BuildFails, Control
  <2>2. building' \in BOOLEAN /\ failed' \in BOOLEAN
    BY <1>11, Zenon DEF BuildFails
  <2> QED
    BY <1>11, <2>1, <2>2 DEF BuildFails, GoTo, Bench
<1>12. CASE PrintResult
  BY <1>12 DEF PrintResult, GoTo, Bench
<1>13. CASE TestExit
  BY <1>13 DEF TestExit
<1>14. CASE TestDies
  <2>1. building' \in BOOLEAN /\ failed' \in BOOLEAN
    BY <1>14, Zenon DEF TestDies
  <2> QED
    BY <1>14, <2>1 DEF TestDies
<1>15. CASE OrphanExits
  BY <1>15 DEF OrphanExits
<1>16. CASE UNCHANGED vars
  BY <1>16 DEF vars
<1> QED
  BY <1>1, <1>2, <1>3, <1>4, <1>5, <1>6, <1>7, <1>8, <1>9, <1>10, <1>11, <1>12,
     <1>13, <1>14, <1>15, <1>16 DEF Next, Terminated

(* Every step keeps the processes within the point the script is at.       *)
LEMMA ControlStep == TypeOK /\ Control /\ [Next]_vars => Control'
<1> SUFFICES ASSUME TypeOK, Control, [Next]_vars PROVE Control'
  OBVIOUS
<1> USE DEF TypeOK, Control, AllInstalled, testVars, teeVars, Pass, Bench
<1>1. CASE CheckPrerequisite
  <2>1. CASE at < 3
    BY <1>1, <2>1 DEF CheckPrerequisite, Exit, Prerequisites
  <2>2. CASE at = 3
    <3>1. "benchstat" \in installed => installed = {"go1.9", "go.tip", "benchstat"}
      <4>1. "go1.9" \in installed /\ "go.tip" \in installed
        BY <1>1, <2>2 DEF CheckPrerequisite
      <4>2. installed \subseteq {"go1.9", "go.tip", "benchstat"}
        OBVIOUS
      <4> QED
        BY ONLY <4>1, <4>2, Zenon
    <3> QED
      BY <1>1, <2>2, <3>1 DEF CheckPrerequisite, Exit, Prerequisites
  <2> QED
    BY <1>1, <2>1, <2>2 DEF CheckPrerequisite
<1>2. CASE StartPipeline
  BY <1>2 DEF StartPipeline
<1>3. CASE PipelineDone
  BY <1>3 DEF PipelineDone, Exit
<1>4. CASE Benchstat
  BY <1>4 DEF Benchstat, Exit
<1>5. CASE TeeOpen
  BY <1>5 DEF TeeOpen
<1>6. CASE TeeCopy
  BY <1>6 DEF TeeCopy
<1>7. CASE TeeExit
  BY <1>7 DEF TeeExit, PipeClosed
<1>8. CASE CallBenchmark
  BY <1>8 DEF CallBenchmark
<1>9. CASE StartBuild
  BY <1>9 DEF StartBuild
<1>10. CASE BuildOK
  BY <1>10 DEF BuildOK
<1>11. CASE BuildFails
  BY <1>11 DEF BuildFails, GoTo
<1>12. CASE PrintResult
  BY <1>12 DEF PrintResult, GoTo
<1>13. CASE TestExit
  BY <1>13 DEF TestExit
<1>14. CASE TestDies
  BY <1>14 DEF TestDies
<1>15. CASE OrphanExits
  BY <1>15 DEF OrphanExits
<1>16. CASE UNCHANGED vars
  BY <1>16 DEF vars
<1> QED
  BY <1>1, <1>2, <1>3, <1>4, <1>5, <1>6, <1>7, <1>8, <1>9, <1>10, <1>11, <1>12,
     <1>13, <1>14, <1>15, <1>16 DEF Next, Terminated

(* tee's truncation is never undone by the steps that follow it.           *)
LEMMA TruncationStep == TypeOK /\ Control /\ Truncation /\ [Next]_vars => Truncation'
<1> SUFFICES ASSUME TypeOK, Control, Truncation, [Next]_vars PROVE Truncation'
  OBVIOUS
<1> USE DEF testVars, teeVars
<1>1. CASE UNCHANGED <<sh, at, teeVars, file>>
  BY <1>1 DEF Truncation, Clean
<1>2. CASE CheckPrerequisite
  BY <1>2 DEF CheckPrerequisite, Exit, Truncation, Control
<1>3. CASE StartPipeline
  BY <1>3 DEF StartPipeline, Truncation, Clean
<1>4. CASE PipelineDone
  BY <1>4 DEF PipelineDone, Exit, Truncation, Clean, TypeOK, Pass
<1>5. CASE Benchstat
  BY <1>5 DEF Benchstat, Exit, Truncation
<1>6. CASE TeeOpen
  <2>1. sh = "pass" /\ sh' = "pass" /\ at' = at /\ at \in Pass
    BY <1>6 DEF TeeOpen, Control, TypeOK
  <2>2. ASSUME teeStatus' = 0 PROVE Clean(at)'
    <3>1. file'[Passes[at]] = Truncated
      BY <1>6, <2>1, <2>2, PassesFacts DEF TeeOpen, TypeOK
    <3> QED
      BY <2>1, <3>1 DEF Clean, Truncated
  <2>3. at = 4 => Clean(3)'
    BY <1>6, <2>1, PassesFacts DEF TeeOpen, TypeOK, Truncation, Clean, Compilers
  <2> QED
    BY <2>1, <2>2, <2>3 DEF Truncation
<1>7. CASE TeeCopy
  <2>1. sh = "pass" /\ sh' = "pass" /\ at' = at /\ at \in Pass
    BY <1>7 DEF TeeCopy, Control, TypeOK
  <2>2. \A f \in Compilers, q \in Sources :
          f # Passes[at] \/ q # at => file'[f][q] = file[f][q]
    BY <1>7, <2>1, PassesFacts DEF TeeCopy, TypeOK
  <2>3. ASSUME teeStatus' = 0 PROVE Clean(at)'
    BY <1>7, <2>1, <2>2, <2>3, PassesFacts DEF TeeCopy, Truncation, Clean, TypeOK
  <2>4. at = 4 => Clean(3)'
    BY <2>1, <2>2, PassesFacts DEF Truncation, Clean, Compilers
  <2> QED
    BY <2>1, <2>3, <2>4 DEF Truncation
<1>8. CASE TeeExit
  BY <1>8 DEF TeeExit, Truncation, Clean
<1> QED
  BY <1>1, <1>2, <1>3, <1>4, <1>5, <1>6, <1>7, <1>8 DEF Next, vars, Terminated,
     CallBenchmark, StartBuild, BuildOK, BuildFails, PrintResult, TestExit, TestDies,
     OrphanExits

(* No step loses or invents a line of a pass that has not failed.          *)
LEMMA ConservedStep == TypeOK /\ Control /\ Conserved /\ [Next]_vars => Conserved'
<1> SUFFICES ASSUME TypeOK, Control, Conserved, [Next]_vars PROVE Conserved'
  OBVIOUS
<1> USE CountAssumption DEF testVars, teeVars
<1>1. CASE UNCHANGED <<sh, at, teeVars, file, tester, failed, pipe, bench, round>>
  BY <1>1 DEF Conserved, Printed
<1>2. CASE CheckPrerequisite
  BY <1>2 DEF CheckPrerequisite, Exit, Conserved, Control
<1>3. CASE StartPipeline
  BY <1>3 DEF StartPipeline, Conserved, Printed, NoLines, Bench
<1>4. CASE PipelineDone
  BY <1>4 DEF PipelineDone, Exit, Conserved
<1>5. CASE Benchstat
  BY <1>5 DEF Benchstat, Exit, Conserved
<1>6. CASE TeeOpen
  BY <1>6, PassesFacts DEF TeeOpen, Conserved, Control, TypeOK, Truncated, NoLines, Printed, Pass, Sources
<1>7. CASE TeeCopy
  <2>1. Passes[at] \in Compilers /\ at \in Sources
    BY PassesFacts DEF TypeOK, Pass, Sources
  <2>2. \A b \in Bench : pipe[b] \in Nat /\ file[Passes[at]][at][b] \in Nat /\ pipe'[b] = 0
    BY <1>7, <2>1 DEF TeeCopy, TypeOK, NoLines
  <2>3. ASSUME teeStatus' = 0, NEW b \in Bench
        PROVE  file'[Passes[at]][at][b] = file[Passes[at]][at][b] + pipe[b]
    BY <1>7, <2>1, <2>3 DEF TeeCopy, TypeOK
  <2>4. teeStatus' = 0 => teeStatus = 0
    BY <1>7 DEF TeeCopy
  <2>5. UNCHANGED <<sh, at, tester, failed, tee, bench, round>> /\ tee = "copying"
    BY <1>7 DEF TeeCopy
  <2> QED
    BY <2>2, <2>3, <2>4, <2>5 DEF Conserved, Printed
<1>8. CASE TeeExit
  BY <1>8 DEF TeeExit, Conserved, Printed
<1>9. CASE PrintResult
  <2>1. Passes[at] \in Compilers /\ at \in Sources
    BY PassesFacts DEF TypeOK, Pass, Sources
  <2>2. \A b \in Bench : pipe[b] \in Nat /\ file[Passes[at]][at][b] \in Nat
    BY <2>1 DEF TypeOK
  <2>3. \A b \in Bench : pipe'[b] = IF b = bench THEN pipe[b] + 1 ELSE pipe[b]
    BY <1>9 DEF PrintResult, TypeOK
  <2>4. \A b \in Bench : Printed(b)' = IF b = bench THEN Printed(b) + 1 ELSE Printed(b)
    <3>1. bench \in 1 .. 3 /\ round \in 1 .. Count
      BY <1>9 DEF PrintResult, TypeOK, Bench
    <3>2. CASE round + 1 <= Count
      BY <1>9, <3>1, <3>2 DEF PrintResult, GoTo, Printed, Bench
    <3>3. CASE ~(round + 1 <= Count)
      BY <1>9, <3>1, <3>3 DEF PrintResult, GoTo, Printed, Bench
    <3> QED
      BY <3>2, <3>3
  <2>5. UNCHANGED <<sh, at, tester, failed, tee, teeStatus, file>>
    BY <1>9 DEF PrintResult
  <2>6. \A b \in Bench : Printed(b) \in Nat
    BY DEF Printed, TypeOK
  <2> QED
    BY <2>2, <2>3, <2>4, <2>5, <2>6 DEF Conserved
<1>10. CASE BuildFails
  BY <1>10 DEF BuildFails, Conserved
<1>11. CASE TestExit
  BY <1>11 DEF TestExit, Conserved, Printed
<1>12. CASE TestDies
  BY <1>12 DEF TestDies, Conserved
<1> QED
  BY <1>1, <1>2, <1>3, <1>4, <1>5, <1>6, <1>7, <1>8, <1>9, <1>10, <1>11, <1>12
     DEF Next, vars, Terminated, CallBenchmark, StartBuild, BuildOK, OrphanExits

(* When the script moves on from a pass that succeeded, its file holds     *)
(* every line, and no later pass of the other compiler changes that.       *)
LEMMA CompletenessStep == Inv /\ [Next]_vars => Completeness'
<1> SUFFICES ASSUME Inv, [Next]_vars PROVE Completeness'
  OBVIOUS
<1> USE DEF testVars, teeVars
<1>0. TypeOK /\ Control /\ Conserved /\ Completeness
  BY DEF Inv
<1>1. CASE UNCHANGED <<sh, at, tester, failed, bench, okPasses, file>>
  BY <1>0, <1>1 DEF Completeness, Full
<1>2. CASE CheckPrerequisite
  BY <1>0, <1>2 DEF CheckPrerequisite, Exit, Completeness, Control, TypeOK, Full, Pass
<1>3. CASE StartPipeline
  BY <1>0, <1>3 DEF StartPipeline, Completeness, Full
<1>4. CASE PipelineDone
  <2>1. ASSUME teeStatus = 0, sh' # "done" PROVE Full(at)
    <3>1. SUFFICES ASSUME at \in okPasses, NEW b \in Bench
                   PROVE  file[Passes[at]][at][b] = Count
      BY DEF Full
    <3>2. tester = "ok" /\ ~failed /\ bench = 4 /\ pipe[b] = 0 /\ tee = "exited" /\ sh = "pass"
      BY <1>0, <1>4, <3>1 DEF PipelineDone, Completeness, Control, NoLines
    <3>3. file[Passes[at]][at][b] \in Nat
      <4>1. Passes[at] \in Compilers /\ at \in Sources
        BY <1>0, PassesFacts DEF TypeOK, Pass, Sources
      <4> QED
        BY <1>0, <4>1 DEF TypeOK
    <3>4. file[Passes[at]][at][b] + pipe[b] = Printed(b)
      BY <1>0, <2>1, <3>2 DEF Conserved
    <3> QED
      BY <3>2, <3>3, <3>4 DEF Printed, Bench
  <2>2. \A p : Full(p)' <=> Full(p)
    BY <1>4 DEF PipelineDone, Full
  <2> QED
    BY <1>0, <1>4, <2>1, <2>2 DEF PipelineDone, Exit, Completeness, TypeOK, Pass
<1>5. CASE Benchstat
  BY <1>0, <1>5 DEF Benchstat, Exit, Completeness
<1>6. CASE TeeOpen \/ TeeCopy
  <2>1. sh = "pass" /\ at \in Pass /\ UNCHANGED <<sh, at, tester, failed, bench, okPasses>>
    BY <1>0, <1>6 DEF TeeOpen, TeeCopy, Control, TypeOK
  <2>2. \A f \in Compilers : f # Passes[at] => file'[f] = file[f]
    BY <1>0, <1>6, PassesFacts DEF TeeOpen, TeeCopy, TypeOK
  <2>3. at = 4 => Full(3)'
    BY <1>0, <2>1, <2>2, PassesFacts DEF Completeness, Full, Compilers
  <2> QED
    BY <1>0, <2>1, <2>3 DEF Completeness
<1>7. CASE TestExit
  <2>1. sh = "pass" /\ sh' = "pass" /\ UNCHANGED <<at, bench, failed, file>> /\ bench = 4
    BY <1>0, <1>7 DEF TestExit, Control
  <2>2. CASE failed
    BY <1>0, <1>7, <2>1, <2>2 DEF TestExit, Completeness, Full
  <2>3. CASE ~failed
    <3>1. tester' = "ok" /\ okPasses' = okPasses \cup {at}
      BY <1>7, <2>3 DEF TestExit
    <3>2. \A p \in okPasses' : p <= at'
      BY <1>0, <2>1, <3>1 DEF Completeness, TypeOK, Pass
    <3>3. at = 4 => Full(3)'
      BY <1>0, <2>1, <3>1 DEF Completeness, Full
    <3> QED
      BY <2>1, <2>3, <3>1, <3>2, <3>3 DEF Completeness
  <2> QED
    BY <2>2, <2>3
<1>8. CASE BuildFails \/ PrintResult \/ TestDies
  BY <1>0, <1>8 DEF BuildFails, PrintResult, TestDies, Completeness, Full
<1> QED
  BY <1>1, <1>2, <1>3, <1>4, <1>5, <1>6, <1>7, <1>8
     DEF Next, vars, Terminated, CallBenchmark, StartBuild, BuildOK, OrphanExits, TeeExit

(* The inductive invariant holds in every reachable state.                 *)
LEMMA Invariance == Spec => []Inv
<1>1. Inv /\ [Next]_vars => Inv'
  BY TypeStep, ControlStep, TruncationStep, ConservedStep, CompletenessStep DEF Inv
<1> QED
  BY <1>1, InitInv, PTL DEF Spec

(* Every variable keeps its type, for every Count and MaxN.                *)
THEOREM TypeCorrect == Spec => []TypeOK
BY Invariance, PTL DEF Inv

(* What benchstat reads in benchall.bash is free of lines of a first pass or *)
(* of an earlier run, for every Count and MaxN.                            *)
THEOREM SecondPassKept == Spec => []OnlySecondPassKept
<1>1. Inv => OnlySecondPassKept
  BY DEF Inv, Truncation, Clean, OnlySecondPassKept
<1> QED
  BY <1>1, Invariance, PTL

(* The file of a second pass whose `go test` succeeded is complete when    *)
(* benchstat reads it, although the script looks at tee's status only.     *)
THEOREM EveryRoundCompared == Spec => []ComparesEveryRound
<1>1. Inv => ComparesEveryRound
  BY DEF Inv, Completeness, Full, ComparesEveryRound
<1> QED
  BY <1>1, Invariance, PTL

(* benchall.bash neither truncates a result file nor starts a build unless *)
(* the two compilers and benchstat are all installed.                      *)
THEOREM NothingBeforePrerequisites == Spec => PrerequisitesFirst
<1> DEFINE A == (file' # file \/ building') => AllInstalled
<1>1. Inv /\ [Next]_vars => [A]_vars
  <2> SUFFICES ASSUME Inv, Next, file' # file \/ building' PROVE AllInstalled
    OBVIOUS
  <2>1. sh = "pass"
    BY DEF Inv, Control, Next, vars, testVars, teeVars, Terminated, CheckPrerequisite,
       StartPipeline, PipelineDone, Benchstat, TeeOpen, TeeCopy, TeeExit, CallBenchmark,
       StartBuild, BuildOK, BuildFails, PrintResult, TestExit, TestDies, OrphanExits
  <2> QED
    BY <2>1 DEF Inv, Control
<1> QED
  BY <1>1, Invariance, PTL DEF Spec, PrerequisitesFirst, AllInstalled
=============================================================================
