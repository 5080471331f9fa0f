------------------------------ MODULE Benchall ------------------------------
(***************************************************************************)
(* The benchmark harness: the driver benchall.bash and the three           *)
(* benchmarks of benchall_test.go that it runs through `go test`.          *)
(*                                                                         *)
(* The driver runs four pipelines `<compiler> test ... | tee <file>`.  The *)
(* two ends of a pipeline are processes of their own, and every iteration  *)
(* of a benchmark forks a third one, a `go build`.  The script only looks  *)
(* at tee's exit status (set -e without pipefail).  A result line printed  *)
(* by the test binary is abstracted to the pass and the benchmark it       *)
(* belongs to, a result file to how many lines of each kind it holds.      *)
(***************************************************************************)
EXTENDS Naturals, Sequences

CONSTANTS
  Count,   \* rounds of each benchmark in one pass (-count=10)
  MaxN     \* bound on the b.N the testing package asks for

ASSUME CountAssumption == Count \in Nat \ {0}
ASSUME MaxNAssumption  == MaxN \in Nat \ {0}

Prerequisites == <<"go1.9", "go.tip", "benchstat">>
Passes        == <<"go1.9", "go.tip", "go1.9", "go.tip">>
Compilers     == {"go1.9", "go.tip"}
Benchmarks    == <<"Juju", "Kube", "Gogs">>

Bench   == 1 .. 3     \* positions in Benchmarks
Pass    == 1 .. 4     \* positions in Passes
Sources == 0 .. 4     \* where a line comes from: a pass, or 0, an earlier run

VARIABLES
  installed,  \* the commands found on $PATH
  sh,         \* what the script is doing: "check", "pass", "benchstat", "done"
  at,         \* position in Prerequisites, then in Passes
  status,     \* exit status of the script
  tester,     \* `go test`: "none", "run", or how it exited: "ok", "fail"
  bench, round, \* the benchmark and the round the test binary is in
  n, k,       \* b.N of the benchmark call in progress (0: no call), iterations done
  building,   \* the iteration's `go build` is running
  failed,     \* some benchmark of this pass has failed
  orphans,    \* passes whose build outlived its test binary
  tee,        \* "none", "opening", "copying", "exited"
  teeStatus,  \* tee's exit status
  pipe,       \* lines written by the test binary, not yet read by tee
  file,       \* file[f]: the lines in f.txt
  okPasses    \* history: the passes whose `go test` exited 0

testVars == <<tester, bench, round, n, k, building, failed>>
teeVars  == <<tee, teeStatus>>
vars == <<installed, sh, at, status, testVars, orphans, teeVars, pipe, file,
          okPasses>>

NoLines == [b \in Bench |-> 0]
Truncated == [p \in Sources |-> NoLines]
Stale     == [p \in Sources |-> [b \in Bench |-> IF p = 0 THEN 1 ELSE 0]]

(* The script starts with any set of commands installed and with result    *)
(* files that an earlier run may have left behind.                         *)
Init ==
  /\ installed \in SUBSET {"go1.9", "go.tip", "benchstat"}
  /\ sh = "check" /\ at = 1 /\ status = 0
  /\ tester = "none" /\ bench = 1 /\ round = 1 /\ n = 0 /\ k = 0
  /\ building = FALSE /\ failed = FALSE /\ orphans = {}
  /\ tee = "none" /\ teeStatus = 0
  /\ pipe = NoLines
  /\ file \in [Compilers -> {Truncated, Stale}]
  /\ okPasses = {}

-----------------------------------------------------------------------------
(* benchall.bash.                                                          *)

Exit(s) == sh' = "done" /\ status' = s

(* Defect: only the compilers are checked.                                 *)
CheckCompilersOnly ==
  /\ sh = "check"
  /\ \/ Prerequisites[at] \notin installed /\ Exit(1) /\ UNCHANGED at
     \/ /\ Prerequisites[at] \in installed
        /\ IF at < 2 THEN at' = at + 1 /\ UNCHANGED sh ELSE at' = 1 /\ sh' = "pass"
        /\ UNCHANGED status
  /\ UNCHANGED <<installed, testVars, orphans, teeVars, pipe, file, okPasses>>

(* One `command -v ... || exit 1`.                                         *)
CheckPrerequisite ==
  /\ sh = "check"
  /\ \/ /\ Prerequisites[at] \notin installed
        /\ Exit(1) /\ UNCHANGED at
     \/ /\ Prerequisites[at] \in installed
        /\ IF at < 3 THEN at' = at + 1 /\ UNCHANGED sh
                     ELSE at' = 1 /\ sh' = "pass"
        /\ UNCHANGED status
  /\ UNCHANGED <<installed, testVars, orphans, teeVars, pipe, file, okPasses>>

(* The shell forks both ends of the pipeline of the current pass.          *)
StartPipeline ==
  /\ sh = "pass" /\ tester = "none" /\ tee = "none"
  /\ tester' = "run" /\ bench' = 1 /\ round' = 1 /\ failed' = FALSE
  /\ tee' = "opening" /\ teeStatus' = 0
  /\ pipe' = NoLines
  /\ UNCHANGED <<installed, sh, at, status, n, k, building, orphans, file, okPasses>>

(* Defect: the shell waits for `go test` only.                             *)
PipelineDoneNoWait ==
  /\ sh = "pass" /\ tester \in {"ok", "fail"} /\ tee # "none"
  /\ IF at < 4 THEN at' = at + 1 /\ tester' = "none" /\ tee' = "none" /\ UNCHANGED sh
               ELSE sh' = "benchstat" /\ UNCHANGED <<at, tester, tee>>
  /\ UNCHANGED <<installed, status, bench, round, n, k, building, failed, orphans,
                 teeStatus, pipe, file, okPasses>>

(* The shell has reaped both ends.  The status of the pipeline is tee's;   *)
(* that of `go test` is never looked at.                                   *)
PipelineDone ==
  /\ sh = "pass" /\ tester \in {"ok", "fail"} /\ tee = "exited"
  /\ \/ teeStatus # 0 /\ Exit(1) /\ UNCHANGED <<at, tester, tee>>
     \/ /\ teeStatus = 0 /\ UNCHANGED status
        /\ IF at < 4 THEN /\ at' = at + 1 /\ UNCHANGED sh
                          /\ tester' = "none" /\ tee' = "none"
                     ELSE /\ sh' = "benchstat"
                          /\ UNCHANGED <<at, tester, tee>>
  /\ UNCHANGED <<installed, bench, round, n, k, building, failed, orphans,
                 teeStatus, pipe, file, okPasses>>

(* benchstat compares the two files; its status is the script's.           *)
Benchstat ==
  /\ sh = "benchstat"
  /\ \E s \in {0, 1} : Exit(s)
  /\ UNCHANGED <<installed, at, testVars, orphans, teeVars, pipe, file, okPasses>>

-----------------------------------------------------------------------------
(* tee (external): truncates the file when it opens it, copies what it     *)
(* reads, and goes on without the file, to exit 1, when an open or a write *)
(* fails.                                                                  *)

(* Defect: `tee -a`.                                                       *)
TeeOpenAppends ==
  /\ tee = "opening" /\ tee' = "copying"
  /\ UNCHANGED <<installed, sh, at, status, testVars, orphans, pipe, teeStatus,
                 file, okPasses>>

TeeOpen ==
  /\ tee = "opening" /\ tee' = "copying"
  /\ \/ file' = [file EXCEPT ![Passes[at]] = Truncated] /\ UNCHANGED teeStatus
     \/ teeStatus' = 1 /\ UNCHANGED file
  /\ UNCHANGED <<installed, sh, at, status, testVars, orphans, pipe, okPasses>>

TeeCopy ==
  /\ tee = "copying" /\ pipe # NoLines
  /\ pipe' = NoLines
  /\ \/ /\ teeStatus = 0
        /\ file' = [file EXCEPT ![Passes[at]][at] =
                      [b \in Bench |-> file[Passes[at]][at][b] + pipe[b]]]
        /\ UNCHANGED teeStatus
     \/ teeStatus' = 1 /\ UNCHANGED file
  /\ UNCHANGED <<installed, sh, at, status, testVars, orphans, tee, okPasses>>

(* Defect: the builds inherit the output of the test binary.               *)
PipeClosedByAll == tester \in {"ok", "fail"} /\ orphans = {}

(* End of file: nothing is buffered and no process holds the write end.    *)
(* An orphaned build does not: os/exec gives it /dev/null as its output.   *)
PipeClosed == tester \in {"ok", "fail"}

TeeExit ==
  /\ tee = "copying" /\ pipe = NoLines /\ PipeClosed
  /\ tee' = "exited"
  /\ UNCHANGED <<installed, sh, at, status, testVars, orphans, teeStatus, pipe, file, okPasses>>

-----------------------------------------------------------------------------
(* The test binary: testing.B (external) around the three benchmarks.      *)

(* Go on to round r of benchmark b, or to the next benchmark after Count.  *)
GoTo(b, r) ==
  /\ n' = 0 /\ k' = 0
  /\ IF r <= Count THEN bench' = b /\ round' = r
                   ELSE bench' = b + 1 /\ round' = 1

(* The testing package calls the benchmark function, with a larger b.N     *)
(* when the last call was too short to measure.                            *)
CallBenchmark ==
  /\ tester = "run" /\ bench \in Bench /\ k = n /\ ~building
  /\ \E m \in n + 1 .. MaxN : n' = m
  /\ k' = 0
  /\ UNCHANGED <<installed, sh, at, status, tester, bench, round, building,
                 failed, orphans, teeVars, pipe, file, okPasses>>

(* cmd.Run: `go build` is forked for the next iteration of the loop.       *)
StartBuild ==
  /\ tester = "run" /\ k < n /\ ~building
  /\ building' = TRUE
  /\ UNCHANGED <<installed, sh, at, status, tester, bench, round, n, k, failed,
                 orphans, teeVars, pipe, file, okPasses>>

BuildOK ==
  /\ tester = "run" /\ building
  /\ building' = FALSE /\ k' = k + 1
  /\ UNCHANGED <<installed, sh, at, status, tester, bench, round, n, failed,
                 orphans, teeVars, pipe, file, okPasses>>

(* b.Fatal: the round prints no result.  The testing package goes on with  *)
(* the next round, or drops the benchmark when its first call failed.      *)
BuildFails ==
  /\ tester = "run" /\ building
  /\ building' = FALSE /\ failed' = TRUE
  /\ \E r \in {round + 1, Count + 1} : GoTo(bench, r)
  /\ UNCHANGED <<installed, sh, at, status, tester, orphans, teeVars, pipe, file, okPasses>>

(* The round is over: its result line is printed.                          *)
PrintResult ==
  /\ tester = "run" /\ bench \in Bench /\ n > 0 /\ k = n /\ ~building
  /\ pipe' = [pipe EXCEPT ![bench] = @ + 1]
  /\ GoTo(bench, round + 1)
  /\ UNCHANGED <<installed, sh, at, status, tester, building, failed, orphans,
                 teeVars, file, okPasses>>

TestExit ==
  /\ tester = "run" /\ bench = 4
  /\ tester' = IF failed THEN "fail" ELSE "ok"
  /\ okPasses' = IF failed THEN okPasses ELSE okPasses \cup {at}
  /\ UNCHANGED <<installed, sh, at, status, bench, round, n, k, building, failed,
                 orphans, teeVars, pipe, file>>

(* The test binary dies: -timeout=60m expired, or it could not be built or *)
(* run.  A build in flight is not killed with it.                          *)
TestDies ==
  /\ tester = "run" /\ bench \in Bench
  /\ tester' = "fail" /\ failed' = TRUE
  /\ n' = 0 /\ k' = 0 /\ building' = FALSE
  /\ orphans' = IF building THEN orphans \cup {at} ELSE orphans
  /\ UNCHANGED <<installed, sh, at, status, bench, round, teeVars, pipe, file, okPasses>>

OrphanExits ==
  /\ \E p \in orphans : orphans' = orphans \ {p}
  /\ UNCHANGED <<installed, sh, at, status, testVars, teeVars, pipe, file, okPasses>>

-----------------------------------------------------------------------------
Terminated == sh = "done" /\ UNCHANGED vars

Next ==
  \/ CheckPrerequisite \/ StartPipeline \/ PipelineDone \/ Benchstat
  \/ TeeOpen \/ TeeCopy \/ TeeExit
  \/ CallBenchmark \/ StartBuild \/ BuildOK \/ BuildFails \/ PrintResult
  \/ TestExit \/ TestDies \/ OrphanExits
  \/ Terminated

(* The shell, tee and the test binary are scheduled, and the test alarm    *)
(* goes off.  Nothing says that a build ever ends.                         *)
Fairness ==
  /\ WF_vars(CheckPrerequisite \/ StartPipeline \/ PipelineDone \/ Benchstat)
  /\ WF_vars(TeeOpen \/ TeeCopy \/ TeeExit)
  /\ WF_vars(CallBenchmark \/ StartBuild \/ PrintResult \/ TestExit)
  /\ WF_vars(TestDies)

Spec == Init /\ [][Next]_vars /\ Fairness

-----------------------------------------------------------------------------
TypeOK ==
  /\ installed \subseteq {"go1.9", "go.tip", "benchstat"}
  /\ sh \in {"check", "pass", "benchstat", "done"}
  /\ at \in Pass /\ status \in {0, 1}
  /\ tester \in {"none", "run", "ok", "fail"}
  /\ bench \in 1 .. 4 /\ round \in 1 .. Count
  /\ n \in 0 .. MaxN /\ k \in 0 .. n
  /\ building \in BOOLEAN /\ failed \in BOOLEAN
  /\ orphans \subseteq Pass
  /\ tee \in {"none", "opening", "copying", "exited"} /\ teeStatus \in {0, 1}
  /\ pipe \in [Bench -> Nat]
  /\ file \in [Compilers -> [Sources -> [Bench -> Nat]]]
  /\ okPasses \subseteq Pass

(* "Only the second pass of each compiler is kept" (README.md): when       *)
(* benchstat reads the files they hold no line of a first pass, nor of an  *)
(* earlier run of the script.                                              *)
OnlySecondPassKept ==
  sh = "benchstat" =>
    \A p \in {3, 4} : \A q \in Sources \ {p} : file[Passes[p]][q] = NoLines

(* Although a failed `go test` does not stop the script, benchstat never   *)
(* reads a file that is short of a line when the second pass of its        *)
(* compiler succeeded: tee has drained the pipe before the loop goes on.   *)
ComparesEveryRound ==
  sh = "benchstat" =>
    \A p \in {3, 4} \cap okPasses : \A b \in Bench : file[Passes[p]][p][b] = Count

(* benchall.bash checks every prerequisite before it does any work: no     *)
(* result file of an earlier run is touched, and no build is started, when *)
(* one of them, benchstat included, is missing.                            *)
PrerequisitesFirst ==
  [][(file' # file \/ building') =>
       installed = {"go1.9", "go.tip", "benchstat"}]_vars

(* The script ends, even if a build hangs for ever: the test alarm ends    *)
(* `go test`, and the orphaned build does not keep tee's input open.       *)
Terminates == <>(sh = "done")
=============================================================================
