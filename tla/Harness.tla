-------------------------------- MODULE Harness --------------------------------
(***************************************************************************)
(* The programs that check the others and carry them to the boards:        *)
(*   auto_golden_check.py    golden packages against their generators, at  *)
(*                           the desk, as a git hook and in CI;            *)
(*   run_module_smoke.py, run_regression.py, run_all_validations.py,       *)
(*   run_e2e_validation.py, simulation/run_all.py                          *)
(*                           the suites, what each tells of a world where  *)
(*                           a case raises, says FAIL, misses or hangs;    *)
(*   run_dsp_regression.py, run_golden_tests.py                            *)
(*                           verdicts on testbenches and on the board;     *)
(*   scp_to_arm.py, sync_to_arm.py                                         *)
(*                           what is on the server afterwards.             *)
(* A package is told by the version of the generator that wrote it.        *)
(***************************************************************************)
LOCAL INSTANCE Integers
LOCAL INSTANCE FiniteSets

CONSTANTS Packages,      \* golden packages, each of a directory of RTL
          MaxGenerator,  \* versions of a generator
          Files          \* files to send

ASSUME HarnessAssumption ==
  /\ IsFiniteSet(Packages) /\ IsFiniteSet(Files)
  /\ MaxGenerator \in Nat \ {0}

VARIABLES desk,    \* the working tree and the packages in it
          checked, \* the last call of the golden check
          suites,  \* how the programs do, and what each suite told last
          ship     \* a transfer to the server

harnessVars == <<desk, checked, suites, ship>>

Missing == 0
Cut == -1                \* a package whose generator died while writing it

-----------------------------------------------------------------------------
(* get_changed_rtl_files: with --staged-only the index alone, else what is *)
(* not staged, and files git does not know; never both.                    *)
ChangedRtl(stagedOnly) == IF stagedOnly THEN desk.staged ELSE desk.worked

(* classify_changes: a package is triggered by a file of its directory.    *)
Triggered(changed) == changed

(* What a call of run_check leaves of package p: a generator that failed   *)
(* has left what it likes; --regen keeps what was generated; a check puts  *)
(* the old contents back if there were any.                                *)
AfterCheck(mode, seen, failed, cut, p) ==
  CASE p \notin seen -> desk.pkg[p]
    [] p \in failed -> IF cut THEN Cut ELSE desk.pkg[p]
    [] mode = "regen" \/ desk.pkg[p] = Missing -> desk.generator[p]
    [] OTHER -> desk.pkg[p]

CheckStatus(seen, failed) ==
  CASE seen \cap failed # {} -> "error"
    [] \E p \in seen : desk.pkg[p] # desk.generator[p] -> "stale"
    [] OTHER -> "ok"

(* main: --ci alone fails on stale packages; an error always fails.        *)
CheckExit(mode, status) ==
  IF status = "error" \/ (mode = "ci" /\ status = "stale") THEN 1 ELSE 0

NotChecked == [mode |-> "none", seen |-> {}, failed |-> {}, exit |-> 0,
               was |-> [p \in Packages |-> Missing]]

(* One call, of which somebody then reads the report.                      *)
RunCheck(mode, seen, failed, cut, commit) ==
  LET code == CheckExit(mode, CheckStatus(seen, failed)) IN
  /\ checked.mode = "none"
  /\ checked' = [mode |-> mode, seen |-> seen, failed |-> failed, exit |-> code,
                 was |-> desk.pkg]
  /\ desk' = [desk EXCEPT
       !.pkg = [p \in Packages |-> AfterCheck(mode, seen, failed, cut, p)],
       !.staged = IF commit /\ code = 0 THEN {} ELSE @]

(* A call by hand or in CI: all packages, or those the changes trigger;    *)
(* at most one generator fails.                                            *)
CheckGolden ==
  \E mode \in {"check", "ci", "regen"}, stagedOnly, cut \in BOOLEAN :
    \E seen \in {Packages, Triggered(ChangedRtl(stagedOnly))} :
      \E failed \in {{}} \cup {{p} : p \in seen} :
        /\ cut => failed # {}
        /\ RunCheck(mode, seen, failed, cut, FALSE)

(* git commit, with the hook installed: --check and nothing else.          *)
CommitWithHook ==
  /\ desk.staged # {}
  /\ \E failed \in {{}} \cup {{p} : p \in desk.worked}, cut \in BOOLEAN :
       /\ cut => failed # {}
       /\ RunCheck("check", Triggered(ChangedRtl(FALSE)), failed, cut, TRUE)

ReadReport == checked' = NotChecked /\ UNCHANGED desk

EditRtl(p) ==
  /\ desk' = [desk EXCEPT !.worked = @ \cup {p}]
  /\ checked' = NotChecked

StageAll ==
  /\ desk' = [desk EXCEPT !.staged = @ \cup desk.worked, !.worked = {}]
  /\ checked' = NotChecked

EditGenerator(p) ==
  /\ desk.generator[p] < MaxGenerator
  /\ desk' = [desk EXCEPT !.generator[p] = @ + 1]
  /\ checked' = NotChecked

DeskNext ==
  /\ \/ CheckGolden \/ CommitWithHook \/ StageAll \/ ReadReport
     \/ \E p \in Packages : EditRtl(p) \/ EditGenerator(p)
  /\ UNCHANGED <<suites, ship>>

-----------------------------------------------------------------------------
(* The suites.  world: whether a smoke case raises and whether one returns *)
(* a status FAIL, whether an experiment misses its target or raises, what  *)
(* the serving simulation does, and what a testbench prints before vvp     *)
(* ends well or badly.                                                     *)
Programs == {"smoke", "regression", "experiments", "validations", "e2e", "bench", "board"}

(* run_case of the smoke tests looks for an exception and nothing else.    *)
SmokePasses(world) == ~world.raised

(* A section of the regression: the experiments are judged by their        *)
(* targets; a hang is caught like any exception.                           *)
SectionPasses(world, section) ==
  CASE section = "smoke" -> SmokePasses(world)
    [] section = "experiments" -> world.experiments = "ok"
    [] section = "serving" -> world.serving = "ok"

RegressionExit(world, skip) ==
  IF \A s \in {"smoke", "experiments", "serving"} \ skip : SectionPasses(world, s)
  THEN 0 ELSE 1

(* simulation/run_all.py returns whether all passed, and nobody looks.     *)
ExperimentsExit(world) == IF world.experiments = "raises" THEN 1 ELSE 0

(* The validations: exit codes of four programs; one that hangs ends the   *)
(* run before the report is written.  The integration demos catch what     *)
(* they raise.                                                             *)
ValidationsPassed(world) ==
  {c \in {"smoke", "experiments", "demos", "serving"} :
     CASE c = "smoke" -> SmokePasses(world)
       [] c = "experiments" -> ExperimentsExit(world) = 0
       [] c = "demos" -> TRUE
       [] c = "serving" -> world.serving = "ok"}

(* run_dsp_regression.py: a testbench passes by what it prints, whatever   *)
(* vvp's exit code is.                                                     *)
BenchPasses(world) ==
  world.bench \in {"says PASS", "says PASS and dies"}

(* run_golden_tests.py: registers are not read yet, so done is never seen  *)
(* and each test fails, with a board or without.                           *)
StatusRead == 0
DoneSeen == StatusRead % 2 = 1

(* What a program tells: its exit code and the report it leaves behind,    *)
(* old when it is cut off by a hang.                                       *)
Told(program, skip) ==
  LET w == suites.world
      old == suites.told[program].report IN
  CASE program = "smoke" ->
         [exit |-> IF SmokePasses(w) THEN 0 ELSE 1, report |-> {w}, skip |-> {}]
    [] program = "regression" -> [exit |-> RegressionExit(w, skip), report |-> {w}, skip |-> skip]
    [] program = "experiments" -> [exit |-> ExperimentsExit(w), report |-> {w}, skip |-> {}]
    [] program = "validations" ->
         IF w.serving = "hangs" THEN [exit |-> 1, report |-> old, skip |-> {}]
         ELSE [exit |-> IF Cardinality(ValidationsPassed(w)) = 4 THEN 0 ELSE 1,
               report |-> {w}, skip |-> {}]
    [] program = "e2e" ->
         IF w.serving = "hangs" THEN [exit |-> 1, report |-> old, skip |-> {}]
         ELSE [exit |-> 0, report |-> {w}, skip |-> {}]
    [] program = "bench" ->
         [exit |-> IF BenchPasses(w) THEN 0 ELSE 1, report |-> {w}, skip |-> {}]
    [] program = "board" ->
         [exit |-> IF DoneSeen THEN 0 ELSE 1, report |-> {w}, skip |-> {}]

Worlds ==
  [raised : BOOLEAN, saidFail : BOOLEAN, experiments : {"ok", "misses", "raises"},
   serving : {"ok", "fails", "hangs"},
   bench : {"says PASS", "says PASS and dies", "says FAIL", "hangs"}]
GoodWorld ==
  [raised |-> FALSE, saidFail |-> FALSE, experiments |-> "ok", serving |-> "ok",
   bench |-> "says PASS"]

Untold == [exit |-> 2, report |-> {}, skip |-> {}]

RunSuite(program) ==
  \E skip \in IF program = "regression"
              THEN {{}, {"serving"}, {"smoke", "experiments", "serving"}} ELSE {{}} :
    suites' = [suites EXCEPT !.told[program] = Told(program, skip), !.calls = @ + 1]

(* Somebody puts everything right.                                         *)
RepairAll ==
  suites' = [suites EXCEPT !.world = GoodWorld]

SuitesNext ==
  /\ suites.calls < 2
  /\ RepairAll \/ \E program \in Programs : RunSuite(program)
  /\ UNCHANGED <<desk, checked, ship>>

-----------------------------------------------------------------------------
(* Transfers.  scp_to_arm.py starts rm -rf and then the mkdirs, and waits  *)
(* a second for each; sync_to_arm.py waits until the remote shell has done *)
(* both, and makes the directories before each file.                       *)
Absent == [f \in Files |-> "absent"]

ShipBegin(by) ==
  /\ ship.by = "nobody"
  /\ ship' = [ship EXCEPT !.by = by, !.rm = "running"]

(* rm takes a file, or comes to its end: with the directories, but perhaps *)
(* for those made meanwhile.                                               *)
RemoteRemoves ==
  /\ ship.rm = "running"
  /\ \/ \E f \in Files :
          /\ ship.remote[f] # "absent"
          /\ ship' = [ship EXCEPT !.remote[f] = "absent"]
     \/ /\ \A f \in Files : ship.remote[f] = "absent"
        /\ \E kept \in BOOLEAN :
             /\ kept => ship.made
             /\ ship' = [ship EXCEPT !.rm = "done", !.dirs = kept]

RemoteMakesDirs ==
  /\ ship.by = "scp" /\ ~ship.made
  /\ ship' = [ship EXCEPT !.made = TRUE, !.dirs = TRUE, !.raced = @ \/ ship.rm = "running"]

(* A file goes when the server can take it; a put that fails may leave     *)
(* part of it.                                                             *)
MayPut(f) ==
  /\ ship.by # "nobody" /\ f \notin ship.sent \cup ship.failed
  /\ ship.by = "sync" => ship.rm = "done"

PutFile(f) ==
  /\ MayPut(f)
  /\ \/ /\ ship.by = "scp" => ship.dirs
        /\ ship' = [ship EXCEPT !.remote[f] = "whole", !.sent = @ \cup {f},
                      !.raced = @ \/ ship.rm = "running"]
     \/ \E left \in {"absent", "part"} :
          /\ left = "part" /\ ship.by = "scp" => ship.dirs
          /\ ship' = [ship EXCEPT !.remote[f] = left, !.failed = @ \cup {f},
                        !.raced = @ \/ ship.rm = "running"]

ShipNext ==
  /\ \/ \E by \in {"scp", "sync"} : ShipBegin(by)
     \/ RemoteRemoves \/ RemoteMakesDirs
     \/ \E f \in Files : PutFile(f)
  /\ UNCHANGED <<desk, checked, suites>>

-----------------------------------------------------------------------------
HarnessInit ==
  /\ desk = [staged |-> {}, worked |-> {}, generator |-> [p \in Packages |-> 1],
             pkg |-> [p \in Packages |-> Missing]]
  /\ checked = NotChecked
  /\ \E w \in Worlds :
       suites = [world |-> w, told |-> [p \in Programs |-> Untold], calls |-> 0]
  /\ \E r \in [Files -> {"absent", "whole"}] :
       ship = [by |-> "nobody", remote |-> r, rm |-> "no", dirs |-> TRUE, made |-> FALSE,
               sent |-> {}, failed |-> {}, raced |-> FALSE]

HarnessSpec ==
  HarnessInit /\ [][DeskNext \/ SuitesNext \/ ShipNext]_harnessVars

-----------------------------------------------------------------------------
(* What a call of the golden check left: a check writes no package that    *)
(* was there, unless its generator failed; a call that fails nowhere after *)
(* --regen or --ci has seen every package it looked at as the generator    *)
(* makes it; and no package is cut short by a call that exits well.  What  *)
(* it looked at is another matter: staged files are not among it, so a     *)
(* commit may leave the hook with packages that are not current.           *)
PackagesTold ==
  /\ checked.mode \in {"check", "ci"} =>
       \A p \in Packages \ checked.failed :
         desk.pkg[p] # checked.was[p] => checked.was[p] = Missing
  /\ checked.mode \in {"regen", "ci"} /\ checked.exit = 0 =>
       \A p \in checked.seen : desk.pkg[p] = desk.generator[p]
  /\ checked.mode # "none" /\ checked.exit = 0 =>
       \A p \in Packages : desk.pkg[p] = Cut => checked.was[p] = Cut

(* Of one world the suites tell the same: what fails the smoke tests fails *)
(* the regression and the validations, and no others fail the regression   *)
(* but a missed target and the serving simulation; what passes the whole   *)
(* regression, which alone looks at the targets, passes the experiments    *)
(* and the validations.  The validations and the end-to-end runs leave no  *)
(* report of a world in which the simulation hangs.                        *)
SuitesAgree ==
  LET About(p, q) == suites.told[p].report = suites.told[q].report
                     /\ suites.told[p].report # {}
      Exit(p) == suites.told[p].exit
      Whole == suites.told["regression"].skip = {}
  IN /\ About("smoke", "validations") /\ Exit("smoke") = 1 => Exit("validations") = 1
     /\ About("smoke", "regression") /\ Whole /\ Exit("smoke") = 1 => Exit("regression") = 1
     /\ About("smoke", "regression") /\ Exit("regression") = 1 =>
          \/ Exit("smoke") = 1
          \/ \E w \in suites.told["smoke"].report : w.experiments # "ok" \/ w.serving # "ok"
     /\ About("regression", "validations") /\ Whole /\ Exit("regression") = 0 =>
          Exit("validations") = 0
     /\ About("regression", "experiments") /\ Whole /\ Exit("regression") = 0 =>
          Exit("experiments") = 0
     /\ Whole /\ Exit("regression") = 0 =>
          \A w \in suites.told["regression"].report : w.experiments = "ok" /\ w.serving = "ok"
     /\ \A p \in {"validations", "e2e"} :
          \A w \in suites.told[p].report : w.serving # "hangs"

(* What sync_to_arm.py sent is there, whole, and nothing from before; what *)
(* scp_to_arm.py sent and is not there was sent, or its directory made,    *)
(* while rm still ran.                                                     *)
ShippedWhole ==
  /\ ship.by = "sync" /\ ship.rm = "done" =>
       \A f \in Files :
         /\ f \in ship.sent => ship.remote[f] = "whole"
         /\ f \notin ship.sent \cup ship.failed => ship.remote[f] = "absent"
  /\ ship.by = "scp" /\ ship.rm = "done" =>
       \A f \in ship.sent : ship.remote[f] # "whole" => ship.raced
=============================================================================
