------------------------ MODULE BenchmarkJob_proofs ------------------------
(***************************************************************************)
(* Proofs about BenchmarkJob, for any benchmarks, launches, requests and   *)
(* restarts of the gateway, wherever a launch is killed and whatever it    *)
(* leaves on the volume.                                                   *)
(***************************************************************************)
EXTENDS BenchmarkJob, TLAPS

Reports == [launch : Nat, name : Names, mode : Modes]

Counts == (0 .. MaxRequests) \cup {None}

Runs ==
  [made : BOOLEAN, requests : Nat, first : {"whole", "none", "old", "cut"},
   second : {"whole", "none", "old", "cut"}, restarted : BOOLEAN]

\* The files, the counter and the history variable.
FilesTyped ==
  /\ json \in [Names \X Modes -> Reports \cup {None}]
  /\ before \in [Names -> Counts]
  /\ after \in [Names -> Counts]
  /\ counter \in 0 .. MaxRequests
  /\ starts \in Nat \ {0}
  /\ run \in Runs

Inv ==
  /\ TypeOK
  /\ FilesTyped
  /\ phase # "gone" => launch # 0

-----------------------------------------------------------------------------
(* The order of the phases.                                                *)

\* The phases by their names.
RunningPhases ==
  {"baseline", "parse baseline", "before", "gateway", "parse gateway", "after", "delta"}

LEMMA PhaseNames ==
  /\ Phases[1] = "baseline" /\ Phases[2] = "parse baseline" /\ Phases[3] = "before"
  /\ Phases[4] = "gateway" /\ Phases[5] = "parse gateway" /\ Phases[6] = "after"
  /\ Phases[7] = "delta"
  BY DEF Phases

LEMMA PhasesAreSeven ==
  /\ Len(Phases) = 7 /\ DOMAIN Phases = 1 .. 7
  /\ Head(Phases) = "baseline"
  /\ \A i \in 1 .. 7 : i = 1 \/ i = 2 \/ i = 3 \/ i = 4 \/ i = 5 \/ i = 6 \/ i = 7
<1>1. Phases \in Seq(RunningPhases)
  BY DEF Phases, RunningPhases
<1>2. Len(Phases) = 7
  BY DEF Phases
<1>3. Head(Phases) = "baseline"
  BY DEF Phases
<1>4. DOMAIN Phases = 1 .. 7
  BY <1>1, <1>2
<1>5. \A i \in 1 .. 7 : i = 1 \/ i = 2 \/ i = 3 \/ i = 4 \/ i = 5 \/ i = 6 \/ i = 7
  OBVIOUS
<1>6. QED
  BY <1>2, <1>3, <1>4, <1>5

LEMMA PhaseIsUnique ==
  ASSUME NEW i \in 1 .. 7, phase = Phases[i]
  PROVE  (CHOOSE j \in DOMAIN Phases : Phases[j] = phase) = i
<1>1. \A j \in 1 .. 7 : Phases[j] = Phases[i] => j = i
  BY PhaseNames, PhasesAreSeven
<1>2. QED
  BY <1>1, PhasesAreSeven

LEMMA NextPhaseIs ==
  ASSUME NEW i \in 1 .. 7, phase = Phases[i], NextPhase
  PROVE  /\ i # 7 => phase' = Phases[i + 1] /\ current' = current
         /\ i = 7 /\ current < Len(Benchmarks) => phase' = "baseline" /\ current' = current + 1
         /\ i = 7 /\ ~(current < Len(Benchmarks)) => phase' = "finish" /\ current' = current
<1>1. (CHOOSE j \in DOMAIN Phases : Phases[j] = phase) = i
  BY PhaseIsUnique
<1>2. Len(Phases) = 7 /\ Head(Phases) = "baseline"
  BY PhasesAreSeven
<1>3. IF i < 7 THEN phase' = Phases[i + 1] /\ UNCHANGED current
      ELSE IF current < Len(Benchmarks) THEN phase' = "baseline" /\ current' = current + 1
      ELSE phase' = "finish" /\ UNCHANGED current
  BY <1>1, <1>2 DEF NextPhase
<1>4. QED
  BY <1>3

\* run.sh goes through a benchmark in order, and through the benchmarks in order.
LEMMA PhasesFollow ==
  ASSUME NextPhase
  PROVE  /\ phase = "baseline" => phase' = "parse baseline" /\ current' = current
         /\ phase = "parse baseline" => phase' = "before" /\ current' = current
         /\ phase = "before" => phase' = "gateway" /\ current' = current
         /\ phase = "gateway" => phase' = "parse gateway" /\ current' = current
         /\ phase = "parse gateway" => phase' = "after" /\ current' = current
         /\ phase = "after" => phase' = "delta" /\ current' = current
         /\ phase = "delta" => \/ /\ current < Len(Benchmarks)
                                  /\ phase' = "baseline" /\ current' = current + 1
                               \/ phase' = "finish" /\ current' = current
<1>1. /\ phase = Phases[1] => phase' = Phases[2] /\ current' = current
      /\ phase = Phases[2] => phase' = Phases[3] /\ current' = current
      /\ phase = Phases[3] => phase' = Phases[4] /\ current' = current
  BY NextPhaseIs
<1>2. /\ phase = Phases[4] => phase' = Phases[5] /\ current' = current
      /\ phase = Phases[5] => phase' = Phases[6] /\ current' = current
      /\ phase = Phases[6] => phase' = Phases[7] /\ current' = current
  BY NextPhaseIs
<1>3. phase = Phases[7] => \/ /\ current < Len(Benchmarks)
                              /\ phase' = "baseline" /\ current' = current + 1
                           \/ phase' = "finish" /\ current' = current
  BY NextPhaseIs
<1>4. QED
  BY <1>1, <1>2, <1>3, PhaseNames

LEMMA PhasesByName ==
  /\ Range(Phases) = RunningPhases
  /\ ParsePhase["baseline"] = "parse baseline" /\ ParsePhase["gateway"] = "parse gateway"
<1>1. Range(Phases) = {Phases[i] : i \in 1 .. 7}
  BY PhasesAreSeven DEF Range
<1>2. Range(Phases) \subseteq RunningPhases
  BY <1>1, PhaseNames, PhasesAreSeven DEF RunningPhases
<1>3. {Phases[1], Phases[2], Phases[3], Phases[4], Phases[5], Phases[6], Phases[7]}
        \subseteq Range(Phases)
  BY <1>1
<1>4. RunningPhases \subseteq Range(Phases)
  BY <1>3, PhaseNames DEF RunningPhases
<1>5. QED
  BY <1>2, <1>4 DEF ParsePhase

\* The benchmark run.sh is at has a name; no other benchmark has it.
LEMMA BenchmarkNames ==
  /\ Len(Benchmarks) \in Nat \ {0}
  /\ DOMAIN Benchmarks = 1 .. Len(Benchmarks)
  /\ \A i \in 1 .. Len(Benchmarks) : Benchmarks[i] \in Names
  /\ \A i, j \in 1 .. Len(Benchmarks) : Benchmarks[i] = Benchmarks[j] => i = j
<1>1. Benchmarks \in Seq(Range(Benchmarks)) /\ Benchmarks # <<>>
  BY BenchmarkAssumption
<1>2. Len(Benchmarks) \in Nat \ {0} /\ DOMAIN Benchmarks = 1 .. Len(Benchmarks)
  BY <1>1
<1>3. QED
  BY <1>2, BenchmarkAssumption DEF Names, Range, IsInjective

-----------------------------------------------------------------------------
(* Types.                                                                  *)

LEMMA Bounds ==
  MaxLaunches \in Nat \ {0} /\ MaxRequests \in Nat \ {0} /\ MaxGatewayStarts \in Nat \ {0}
  BY BenchmarkAssumption

LEMMA RunningIsNotGone ==
  ASSUME phase \in RunningPhases
  PROVE  phase # "gone" /\ phase # "finish"
  BY DEF RunningPhases

\* How a scrape may go.
LEMMA ScrapeOutcomes ==
  ASSUME NEW old, NEW scrape \in Scrapes(old)
  PROVE  \/ scrape.went = "whole" /\ scrape.file = counter
         \/ scrape.went = "none" /\ scrape.file = None
         \/ scrape.went = "old" /\ scrape.file = old /\ old # None
         \/ scrape.went = "cut" /\ scrape.file \in 0 .. counter
<1>1. CASE scrape = [file |-> counter, went |-> "whole"]
  BY <1>1
<1>2. CASE scrape = [file |-> None, went |-> "none"]
  BY <1>2
<1>3. CASE scrape = [file |-> old, went |-> IF old = None THEN "none" ELSE "old"]
  BY <1>3
<1>4. ASSUME NEW part \in Parts(counter), scrape = [file |-> part, went |-> "cut"]
      PROVE  scrape.went = "cut" /\ scrape.file \in 0 .. counter
  BY <1>4 DEF Parts
<1>5. QED
  BY <1>1, <1>2, <1>3, <1>4 DEF Scrapes

LEMMA ScrapeTyped ==
  ASSUME FilesTyped, NEW old \in Counts, NEW scrape \in Scrapes(old)
  PROVE  scrape.file \in Counts /\ scrape.went \in {"whole", "none", "old", "cut"}
<1>1. counter \in 0 .. MaxRequests /\ MaxRequests \in Nat
  BY Bounds DEF FilesTyped
<1>2. \A c \in 0 .. counter : c \in 0 .. MaxRequests
  BY <1>1
<1>3. QED
  BY <1>1, <1>2, ScrapeOutcomes DEF Counts

LEMMA InvInit == Init => Inv
<1> SUFFICES ASSUME Init PROVE Inv
  OBVIOUS
<1>1. 1 \in 1 .. Len(Benchmarks) /\ 0 \in 0 .. MaxLaunches /\ 0 \in 0 .. MaxRequests
  BY BenchmarkNames, Bounds
<1>2. TypeOK
  BY <1>1 DEF Init, TypeOK
<1>3. FilesTyped
  BY <1>1 DEF Init, FilesTyped, NoRun, Runs, Counts
<1>4. QED
  BY <1>2, <1>3 DEF Inv, Init

\* A step of a benchmark preserves the invariant when it leaves the files typed and appends
\* no row to plugin_latency.csv that counts nothing.
LEMMA BenchmarkStep ==
  ASSUME Inv, NextPhase, phase \in RunningPhases, UNCHANGED <<launch, monitor, stopFile>>,
         FilesTyped',
         \A d \in Names \X Modes :
           json'[d] = json[d] \/ json'[d] = None \/ json'[d].launch = launch,
         row' # None /\ row'.csv = "plugin_latency" => row'.requests \in 1 .. MaxRequests
  PROVE  Inv'
<1>1. phase' \in RunningPhases \cup {"finish"} /\ current' \in 1 .. Len(Benchmarks)
  <2>1. current \in 1 .. Len(Benchmarks) /\ Len(Benchmarks) \in Nat
    BY BenchmarkNames DEF Inv, TypeOK
  <2>2. phase' \in RunningPhases \cup {"finish"} /\ current' \in {current, current + 1}
    BY PhasesFollow DEF RunningPhases
  <2>3. current' = current \/ (current < Len(Benchmarks) /\ current' = current + 1)
    BY PhasesFollow DEF RunningPhases
  <2>4. QED
    BY <2>1, <2>2, <2>3
<1>2. launch \in 1 .. MaxLaunches
  BY Bounds, RunningIsNotGone DEF Inv, TypeOK
<1>3. \A d \in Names \X Modes : json'[d] # None => json'[d].launch \in 1 .. launch
  <2>1. launch \in 1 .. launch
    BY <1>2, Bounds
  <2>2. QED
    BY <2>1 DEF Inv, TypeOK
<1>4. phase' \in Range(Phases) \cup {"gone", "finish", "wait", "ready"}
  BY <1>1, PhasesByName
<1>5. TypeOK'
  BY <1>1, <1>3, <1>4 DEF Inv, TypeOK
<1>6. QED
  BY <1>2, <1>5, Bounds DEF Inv

LEMMA InvStep == Inv /\ [Next]_vars => Inv'
<1> SUFFICES ASSUME Inv, [Next]_vars PROVE Inv'
  OBVIOUS
<1>0. TypeOK /\ FilesTyped
  BY DEF Inv
<1>l. launch \in 0 .. MaxLaunches /\ launch \in Nat /\ MaxLaunches \in Nat /\ MaxRequests \in Nat
  BY <1>0, Bounds DEF TypeOK
<1>n. Name \in Names /\ 1 \in 1 .. Len(Benchmarks)
  BY <1>0, BenchmarkNames DEF TypeOK, Name
<1>1. ASSUME Launch
      PROVE  Inv'
  <2>1. /\ launch' = launch + 1 /\ launch' \in 1 .. MaxLaunches
        /\ phase' = "baseline" /\ current' = 1 /\ monitor' = "watching" /\ row' = None
        /\ UNCHANGED <<stopFile, json, before, after, counter, starts, run>>
    BY <1>1, <1>l, PhasesAreSeven DEF Launch, NoRow, files, gateway, history
  <2>2. "baseline" \in Range(Phases)
    BY PhasesByName DEF RunningPhases
  <2>3. \A l \in 1 .. launch : l \in 1 .. launch'
    BY <1>l, <2>1
  <2>4. TypeOK'
    BY <1>0, <1>l, <1>n, <2>1, <2>2, <2>3 DEF TypeOK
  <2>5. QED
    BY <1>0, <1>l, <2>1, <2>4 DEF Inv, FilesTyped
<1>2. ASSUME Kill
      PROVE  Inv'
  <2>1. NoRun \in Runs
    BY DEF NoRun, Runs
  <2>2. QED
    BY <1>0, <1>2, <1>n, <2>1 DEF Kill, LeaveVolume, NoRow, files, gateway, Inv, TypeOK, FilesTyped
<1>3. ASSUME CleanUp
      PROVE  Inv'
  <2>1. /\ UNCHANGED <<launch, phase, current, monitor, counter, starts, run>>
        /\ row' = None /\ stopFile' = FALSE /\ phase = "gone"
        /\ json' = [d \in Names \X Modes |-> None]
        /\ before' = [n \in Names |-> None] /\ after' = [n \in Names |-> None]
    BY <1>3 DEF CleanUp, EmptyVolume, NoRow, script, gateway
  <2>2. TypeOK'
    BY <1>0, <2>1 DEF TypeOK
  <2>3. FilesTyped'
    BY <1>0, <2>1 DEF FilesTyped, Counts
  <2>4. QED
    BY <2>1, <2>2, <2>3 DEF Inv
<1>4. ASSUME NEW mode \in Modes, RunBench(mode)
      PROVE  Inv'
  <2>1. /\ phase \in {"baseline", "gateway"} /\ NextPhase /\ row' = None
        /\ UNCHANGED <<launch, monitor, stopFile, before, after, starts>>
    BY <1>4 DEF RunBench, Modes, NoRow
  <2>2. PICK made \in BOOLEAN,
             n \in IF mode = "gateway" THEN 0 .. (MaxRequests - counter) ELSE {0} :
          /\ json' = IF made THEN [json EXCEPT ![Dir(mode)] =
                                     [launch |-> launch, name |-> Name, mode |-> mode]]
                     ELSE json
          /\ counter' = counter + n
          /\ run' = [run EXCEPT !.made = made, !.requests = n]
    BY <1>4 DEF RunBench
  <2>3. n \in Nat /\ counter' \in 0 .. MaxRequests
    BY <1>0, <1>l, <2>2 DEF FilesTyped
  <2>4. run' \in Runs
    BY <1>0, <2>2, <2>3 DEF FilesTyped, Runs
  <2>5. [launch |-> launch, name |-> Name, mode |-> mode] \in Reports
    BY <1>l, <1>n DEF Reports
  <2>6. /\ json' \in [Names \X Modes -> Reports \cup {None}]
        /\ \A d \in Names \X Modes : json'[d] = json[d] \/ json'[d].launch = launch
    BY <1>0, <2>2, <2>5 DEF FilesTyped
  <2>7. FilesTyped'
    BY <1>0, <2>1, <2>3, <2>4, <2>6 DEF FilesTyped
  <2>8. QED
    BY <2>1, <2>6, <2>7, BenchmarkStep DEF RunningPhases
<1>5. ASSUME NEW mode \in Modes, ParseReport(mode)
      PROVE  Inv'
  <2>a. phase \in {"parse baseline", "parse gateway"}
    BY <1>5, PhasesByName DEF ParseReport, Modes
  <2>b. \/ row' = None /\ json' = json
        \/ /\ row'.csv = "summary"
           /\ json' \in {json, [json EXCEPT ![Dir(mode)] = None]}
    BY <1>5 DEF ParseReport, Failing, NoRow
  <2>1. /\ NextPhase
        /\ UNCHANGED <<launch, monitor, stopFile, before, after, counter, starts, run>>
        /\ json' \in {json, [json EXCEPT ![Dir(mode)] = None]}
        /\ row' # None => row'.csv = "summary"
    BY <1>5, <2>b DEF ParseReport, gateway, history
  <2>2. FilesTyped' /\ \A d \in Names \X Modes : json'[d] = json[d] \/ json'[d] = None
    BY <1>0, <2>1 DEF FilesTyped
  <2>3. QED
    BY <2>a, <2>1, <2>2, BenchmarkStep DEF RunningPhases
<1>6. ASSUME ScrapeBefore
      PROVE  Inv'
  <2>1. /\ phase = "before" /\ NextPhase /\ row' = None
        /\ UNCHANGED <<launch, monitor, stopFile, json, after, counter, starts>>
    BY <1>6 DEF ScrapeBefore, NoRow, gateway
  <2>2. PICK scrape \in Scrapes(before[Name]) :
          /\ before' = [before EXCEPT ![Name] = scrape.file]
          /\ run' = [NoRun EXCEPT !.first = scrape.went]
    BY <1>6 DEF ScrapeBefore
  <2>3. before[Name] \in Counts
    BY <1>0, <1>n DEF FilesTyped
  <2>4. scrape.file \in Counts /\ scrape.went \in {"whole", "none", "old", "cut"}
    BY <1>0, <2>2, <2>3, ScrapeTyped
  <2>5. run' \in Runs
    BY <2>2, <2>4 DEF NoRun, Runs
  <2>6. FilesTyped'
    BY <1>0, <2>1, <2>2, <2>4, <2>5 DEF FilesTyped
  <2>7. QED
    BY <2>1, <2>6, BenchmarkStep DEF RunningPhases
<1>7. ASSUME ScrapeAfter
      PROVE  Inv'
  <2>1. /\ phase = "after" /\ NextPhase /\ row' = None
        /\ UNCHANGED <<launch, monitor, stopFile, json, before, counter, starts>>
    BY <1>7 DEF ScrapeAfter, NoRow, gateway
  <2>2. PICK scrape \in Scrapes(after[Name]) :
          /\ after' = [after EXCEPT ![Name] = scrape.file]
          /\ run' = [run EXCEPT !.second = scrape.went]
    BY <1>7 DEF ScrapeAfter
  <2>3. after[Name] \in Counts
    BY <1>0, <1>n DEF FilesTyped
  <2>4. scrape.file \in Counts /\ scrape.went \in {"whole", "none", "old", "cut"}
    BY <1>0, <2>2, <2>3, ScrapeTyped
  <2>5. run' \in Runs
    BY <1>0, <2>2, <2>4 DEF FilesTyped, Runs
  <2>6. FilesTyped'
    BY <1>0, <2>1, <2>2, <2>4, <2>5 DEF FilesTyped
  <2>7. QED
    BY <2>1, <2>6, BenchmarkStep DEF RunningPhases
<1>8. ASSUME PluginDelta
      PROVE  Inv'
  <2>1. /\ phase = "delta" /\ NextPhase /\ run' = NoRun
        /\ UNCHANGED <<launch, monitor, stopFile, json, counter, starts>>
        /\ before' \in {before, [before EXCEPT ![Name] = None]}
        /\ after' \in {after, [after EXCEPT ![Name] = None]}
    BY <1>8 DEF PluginDelta, gateway
  <2>2. NoRun \in Runs
    BY DEF NoRun, Runs
  <2>3. FilesTyped'
    BY <1>0, <2>1, <2>2 DEF FilesTyped, Counts
  <2>4. ASSUME row' # None
        PROVE  row'.requests \in 1 .. MaxRequests
    <3>1. /\ before[Name] # None /\ after[Name] # None /\ after[Name] > before[Name]
          /\ row'.requests = after[Name] - before[Name]
      BY <1>8, <2>4 DEF PluginDelta, BothScraped, NoRow, Failing, Grew, First
    <3>2. before[Name] \in 0 .. MaxRequests /\ after[Name] \in 0 .. MaxRequests
      BY <1>0, <1>n, <3>1 DEF FilesTyped, Counts
    <3>3. QED
      BY <1>l, <3>1, <3>2
  <2>5. QED
    BY <2>1, <2>3, <2>4, BenchmarkStep DEF RunningPhases
<1>9. ASSUME Finish \/ Ready
      PROVE  Inv'
  <2>1. /\ phase \in {"finish", "wait"} /\ phase' \in {"wait", "ready"} /\ row' = None
        /\ UNCHANGED <<launch, current, monitor, json, before, after, counter, starts, run>>
        /\ stopFile' \in BOOLEAN
    BY <1>0, <1>9 DEF Finish, Ready, LeaveStopFile, NoRow, files, gateway, history, TypeOK
  <2>2. TypeOK' /\ FilesTyped'
    BY <1>0, <2>1 DEF TypeOK, FilesTyped
  <2>3. QED
    BY <2>1, <2>2 DEF Inv
<1>10. ASSUME MonitorStops \/ MonitorCrashes
       PROVE  Inv'
  <2>1. /\ UNCHANGED <<launch, phase, current, stopFile, json, before, after, counter, starts,
                       run>>
        /\ monitor' \in {"stopped", "crashed"} /\ row' = None
    BY <1>10 DEF MonitorStops, MonitorCrashes, NoRow, script, files, gateway, history
  <2>2. TypeOK' /\ FilesTyped'
    BY <1>0, <2>1 DEF TypeOK, FilesTyped
  <2>3. QED
    BY <2>1, <2>2 DEF Inv
<1>11. ASSUME GatewayRestarts
       PROVE  Inv'
  <2>1. /\ UNCHANGED <<launch, phase, current, monitor, stopFile, json, before, after>>
        /\ counter' = 0 /\ starts' = starts + 1 /\ row' = None
        /\ run' = [run EXCEPT !.restarted = @ \/ phase \in BetweenScrapes]
    BY <1>11 DEF GatewayRestarts, NoRow, script, files
  <2>2. run' \in Runs
    BY <1>0, <2>1, Zenon DEF FilesTyped, Runs
  <2>3. starts' \in Nat \ {0} /\ counter' \in 0 .. MaxRequests
    BY <1>0, <1>l, <2>1 DEF FilesTyped
  <2>4. TypeOK' /\ FilesTyped'
    BY <1>0, <2>1, <2>2, <2>3 DEF TypeOK, FilesTyped
  <2>5. QED
    BY <2>1, <2>4 DEF Inv
<1>12. ASSUME UNCHANGED vars
       PROVE  Inv'
  BY <1>0, <1>12 DEF vars, script, files, gateway, history, Inv, TypeOK, FilesTyped
<1>13. QED
  BY <1>1, <1>2, <1>3, <1>4, <1>5, <1>6, <1>7, <1>8, <1>9, <1>10, <1>11, <1>12
     DEF Next, ScriptStep

LEMMA InvAlways == Spec => []Inv
  BY InvInit, InvStep, PTL DEF Spec

\* Every report on the volume is of a launch there has been and every row of
\* plugin_latency.csv counts at least one request, whatever stays on the volume and wherever
\* the job is killed.
THEOREM TypeCorrect == Spec => []TypeOK
<1>1. Inv => TypeOK
  BY DEF Inv
<1>2. QED
  BY <1>1, InvAlways, PTL

-----------------------------------------------------------------------------
(* The monitor.                                                            *)

\* A stop file is there only where a launch has come to its end, and no other file stops the
\* monitor.
Watched ==
  /\ stopFile => ended
  /\ Running => monitor # "off" /\ (monitor = "stopped" => ended)

LEMMA WatchedStep == Inv /\ Watched /\ [Next]_vars => Watched'
<1> SUFFICES ASSUME Inv, Watched, [Next]_vars PROVE Watched'
  OBVIOUS
<1>1. CASE Launch
  BY <1>1 DEF Launch, files, history, Watched
<1>2. CASE Kill
  BY <1>2 DEF Kill, LeaveVolume, files, Watched, Running
<1>3. CASE CleanUp
  BY <1>3 DEF CleanUp, EmptyVolume, script, Watched, Running
<1>4. ASSUME Running, UNCHANGED <<monitor, stopFile, ended>>
      PROVE  Watched'
  BY <1>4 DEF Watched
<1>5. ASSUME NEW mode \in Modes, RunBench(mode) \/ ParseReport(mode)
      PROVE  Watched'
  <2>1. Running
    BY <1>5, PhasesByName DEF RunBench, ParseReport, Modes, Running
  <2>2. UNCHANGED <<monitor, stopFile, ended>>
    BY <1>5 DEF RunBench, ParseReport, history
  <2>3. QED
    BY <1>4, <2>1, <2>2
<1>6. CASE ScrapeBefore \/ ScrapeAfter \/ PluginDelta
  <2>1. Running
    BY <1>6 DEF ScrapeBefore, ScrapeAfter, PluginDelta, Running
  <2>2. UNCHANGED <<monitor, stopFile, ended>>
    BY <1>6 DEF ScrapeBefore, ScrapeAfter, PluginDelta
  <2>3. QED
    BY <1>4, <2>1, <2>2
<1>7. CASE Finish \/ Ready
  BY <1>7 DEF Finish, Ready, LeaveStopFile, files, history, Watched, Running
<1>8. CASE MonitorStops \/ MonitorCrashes
  <2>1. /\ UNCHANGED <<phase, stopFile, ended>>
        /\ \/ monitor' = "stopped" /\ stopFile
           \/ monitor' = "crashed"
    <3>1. CASE MonitorStops
      BY <3>1 DEF MonitorStops, script, files, history
    <3>2. CASE MonitorCrashes
      BY <3>2 DEF MonitorCrashes, script, files, history
    <3>3. QED
      BY <1>8, <3>1, <3>2
  <2>2. QED
    BY <2>1 DEF Watched, Running
<1>9. CASE GatewayRestarts \/ UNCHANGED vars
  <2>1. UNCHANGED <<phase, monitor, stopFile, ended>>
    <3>1. CASE GatewayRestarts
      BY <3>1 DEF GatewayRestarts, script, files
    <3>2. CASE UNCHANGED vars
      BY <3>2 DEF vars, script, files, history
    <3>3. QED
      BY <1>9, <3>1, <3>2
  <2>2. QED
    BY <2>1 DEF Watched, Running
<1>10. QED
  BY <1>1, <1>2, <1>3, <1>5, <1>6, <1>7, <1>8, <1>9 DEF Next, ScriptStep

\* On a volume on which no launch has come to its end the monitor is there during every
\* benchmark unless it fails, however many launches have been killed there before.
THEOREM MonitorWatches == Spec => []OnlyAnEndStopsTheMonitor
<1>1. Init => Watched
  BY DEF Init, Watched, Running
<1>2. Inv /\ Watched /\ [Next]_vars => Watched'
  BY WatchedStep
<1>3. Inv /\ Watched => OnlyAnEndStopsTheMonitor
  BY DEF Inv, TypeOK, Watched, OnlyAnEndStopsTheMonitor, MonitorCoversBenchmarks
<1>4. QED
  BY <1>1, <1>2, <1>3, InvAlways, PTL DEF Spec

-----------------------------------------------------------------------------
(* The rows of summary.csv.                                                *)

\* Every directory has the reports of its own runs, and behind a run that has made one it is
\* there.
OwnReports ==
  /\ \A n \in Names, m \in Modes :
       json[<<n, m>>] # None => json[<<n, m>>].name = n /\ json[<<n, m>>].mode = m
  /\ \A m \in Modes :
       phase = ParsePhase[m] /\ run.made => json[<<Name, m>>].launch = launch

SummaryInv == OwnReports /\ SummaryRowsAreOfTheirRun

LEMMA SummaryStep == Inv /\ SummaryInv /\ [Next]_vars => SummaryInv'
<1> SUFFICES ASSUME Inv, SummaryInv, [Next]_vars PROVE SummaryInv'
  OBVIOUS
<1>0. /\ json \in [Names \X Modes -> Reports \cup {None}] /\ Name \in Names
      /\ OwnReports /\ SummaryRowsAreOfTheirRun /\ run \in Runs
      /\ phase \in RunningPhases \cup {"gone", "finish", "wait", "ready"}
  BY BenchmarkNames, PhasesByName DEF Inv, FilesTyped, TypeOK, Name, SummaryInv
\* Outside of the phases that look for a report only its place matters.
<1>p. ASSUME \A m \in Modes : phase' # ParsePhase[m], row' = None \/ row'.csv # "summary",
             \A d \in Names \X Modes : json'[d] = json[d] \/ json'[d] = None
      PROVE  SummaryInv'
  BY <1>0, <1>p DEF SummaryInv, OwnReports, SummaryRowsAreOfTheirRun
<1>m. ASSUME phase' \notin {"parse baseline", "parse gateway"}
      PROVE  \A m \in Modes : phase' # ParsePhase[m]
  BY <1>m, PhasesByName DEF Modes
<1>1. CASE Launch
  <2>1. phase' = "baseline" /\ row' = None /\ json' = json
    BY <1>1, PhasesAreSeven DEF Launch, NoRow, files
  <2>2. QED
    BY <1>p, <1>m, <2>1
<1>2. CASE Kill \/ CleanUp
  <2>1. phase' = "gone" /\ row' = None
    BY <1>2 DEF Kill, CleanUp, NoRow, script
  <2>2. \A d \in Names \X Modes : json'[d] = json[d] \/ json'[d] = None
    BY <1>2 DEF Kill, LeaveVolume, CleanUp, EmptyVolume, files
  <2>3. QED
    BY <1>p, <1>m, <2>1, <2>2
<1>3. ASSUME NEW mode \in Modes, RunBench(mode)
      PROVE  SummaryInv'
  <2>1. /\ phase = mode /\ NextPhase /\ row' = None /\ launch' = launch
    BY <1>3 DEF RunBench, NoRow
  <2>2. PICK made \in BOOLEAN :
          /\ json' = IF made THEN [json EXCEPT ![<<Name, mode>>] =
                                     [launch |-> launch, name |-> Name, mode |-> mode]]
                     ELSE json
          /\ run'.made = made
    BY <1>0, <1>3 DEF RunBench, Dir, Runs
  <2>3. phase' = ParsePhase[mode] /\ Name' = Name
    BY <2>1, PhasesFollow, PhasesByName DEF Modes, Name
  <2>4. \A m \in Modes : phase' = ParsePhase[m] => m = mode
    BY <2>3, PhasesByName DEF Modes
  <2>5. \A n \in Names, m \in Modes :
          json'[<<n, m>>] # None => json'[<<n, m>>].name = n /\ json'[<<n, m>>].mode = m
    BY <1>0, <2>2 DEF OwnReports
  <2>6. run'.made => json'[<<Name, mode>>].launch = launch
    BY <1>0, <2>2
  <2>7. OwnReports'
    BY <2>1, <2>3, <2>4, <2>5, <2>6 DEF OwnReports
  <2>8. QED
    BY <2>1, <2>7 DEF SummaryInv, SummaryRowsAreOfTheirRun
<1>4. ASSUME NEW mode \in Modes, ParseReport(mode)
      PROVE  SummaryInv'
  <2>1. phase = ParsePhase[mode] /\ NextPhase /\ launch' = launch
    BY <1>4 DEF ParseReport
  <2>2. phase' \notin {"parse baseline", "parse gateway"}
    BY <2>1, PhasesFollow, PhasesByName DEF Modes
  <2>3. \/ row' = None /\ json' = json
        \/ /\ json[<<Name, mode>>] # None
           /\ row' = [csv |-> "summary", name |-> Name, mode |-> mode,
                      of |-> json[<<Name, mode>>], made |-> run.made]
           /\ json' \in {json, [json EXCEPT ![<<Name, mode>>] = None]}
    BY <1>4 DEF ParseReport, Failing, NoRow, Dir
  <2>4. \A d \in Names \X Modes : json'[d] = json[d] \/ json'[d] = None
    BY <1>0, <2>3
  <2>5. \A n \in Names, m \in Modes :
          json'[<<n, m>>] # None => json'[<<n, m>>].name = n /\ json'[<<n, m>>].mode = m
    BY <1>0, <2>4 DEF OwnReports
  <2>6. OwnReports'
    BY <1>m, <2>2, <2>5 DEF OwnReports
  <2>7. SummaryRowsAreOfTheirRun'
    <3>1. CASE row' = None
      BY <3>1 DEF SummaryRowsAreOfTheirRun
    <3>2. CASE row' # None
      <4>1. /\ json[<<Name, mode>>] # None
            /\ row'.name = Name /\ row'.mode = mode /\ row'.of = json[<<Name, mode>>]
            /\ row'.made = run.made
        BY <2>3, <3>2
      <4>2. json[<<Name, mode>>].name = Name /\ json[<<Name, mode>>].mode = mode
        BY <1>0, <4>1 DEF OwnReports
      <4>3. run.made => json[<<Name, mode>>].launch = launch
        BY <1>0, <2>1 DEF OwnReports
      <4>4. QED
        BY <2>1, <4>1, <4>2, <4>3 DEF SummaryRowsAreOfTheirRun
    <3>3. QED
      BY <3>1, <3>2
  <2>8. QED
    BY <2>6, <2>7 DEF SummaryInv
<1>5. CASE ScrapeBefore \/ ScrapeAfter \/ PluginDelta
  <2>1. phase \in {"before", "after", "delta"} /\ NextPhase /\ json' = json
    BY <1>5 DEF ScrapeBefore, ScrapeAfter, PluginDelta
  <2>2. phase' \notin {"parse baseline", "parse gateway"}
    BY <2>1, PhasesFollow
  <2>3. row' = None \/ row'.csv # "summary"
    BY <1>5 DEF ScrapeBefore, ScrapeAfter, PluginDelta, Failing, NoRow
  <2>4. QED
    BY <1>p, <1>m, <2>1, <2>2, <2>3
<1>6. CASE Finish \/ Ready
  <2>1. phase' \in {"wait", "ready"} /\ json' = json /\ row' = None
    BY <1>6 DEF Finish, Ready, NoRow, files
  <2>2. QED
    BY <1>p, <1>m, <2>1
<1>7. CASE MonitorStops \/ MonitorCrashes \/ GatewayRestarts
  <2>1. /\ UNCHANGED <<launch, phase, current, json>> /\ row' = None
        /\ run'.made = run.made
    BY <1>0, <1>7 DEF MonitorStops, MonitorCrashes, GatewayRestarts, NoRow, script, files, history,
                Runs
  <2>2. OwnReports'
    BY <1>0, <2>1 DEF OwnReports, Name
  <2>3. QED
    BY <2>1, <2>2 DEF SummaryInv, SummaryRowsAreOfTheirRun
<1>8. CASE UNCHANGED vars
  <2>1. UNCHANGED <<launch, phase, current, json, row, run>>
    BY <1>8 DEF vars, script, files, history
  <2>2. QED
    BY <1>0, <2>1 DEF SummaryInv, OwnReports, SummaryRowsAreOfTheirRun, Name
<1>9. QED
  BY <1>1, <1>2, <1>3, <1>4, <1>5, <1>6, <1>7, <1>8 DEF Next, ScriptStep

\* A row of summary.csv is of a report of the same benchmark and mode, and of this launch
\* when this launch's run has made one, whatever failed runs and killed launches have left on
\* the volume.
THEOREM SummaryRowsAreRight == Spec => []SummaryRowsAreOfTheirRun
<1>1. Init => SummaryInv
  BY DEF Init, SummaryInv, OwnReports, SummaryRowsAreOfTheirRun, NoRun
<1>2. Inv /\ SummaryInv /\ [Next]_vars => SummaryInv'
  BY SummaryStep
<1>3. SummaryInv => SummaryRowsAreOfTheirRun
  BY DEF SummaryInv
<1>4. QED
  BY <1>1, <1>2, <1>3, InvAlways, PTL DEF Spec

-----------------------------------------------------------------------------
(* The rows of plugin_latency.csv.                                         *)

\* A payload-processing that was never restarted has counted at least what a second scrape says.
NeverAhead == starts = 1 => \A n \in Names : after[n] # None => after[n] <= counter

\* No file is there behind a first scrape that left none.
NoneIsMissing ==
  phase \in BetweenScrapes \cup {"delta"} /\ run.first = "none" => before[Name] = None

\* How far the counter, and then the second scrape, are ahead of a first scrape that is whole.
Ahead ==
  phase \in BetweenScrapes \cup {"delta"} /\ run.first = "whole" =>
    /\ before[Name] # None
    /\ phase = "gateway" => run.requests = 0
    /\ phase \in BetweenScrapes =>
         /\ counter <= before[Name] + run.requests
         /\ ~run.restarted => counter = before[Name] + run.requests
    /\ phase = "delta" /\ after[Name] # None =>
         /\ run.second # "old" => after[Name] <= before[Name] + run.requests
         /\ run.second = "whole" /\ ~run.restarted =>
              after[Name] = before[Name] + run.requests
    /\ starts = 1 /\ (phase = "delta" => run.second = "old") /\ after[Name] # None =>
         after[Name] <= before[Name]

PluginInv == NeverAhead /\ NoneIsMissing /\ Ahead /\ PluginRowsCountTheirRun

LEMMA PluginStep == Inv /\ PluginInv /\ [Next]_vars => PluginInv'
<1> SUFFICES ASSUME Inv, PluginInv, [Next]_vars PROVE PluginInv'
  OBVIOUS
<1>0. NeverAhead /\ NoneIsMissing /\ Ahead /\ PluginRowsCountTheirRun
  BY DEF PluginInv
<1>t. /\ before \in [Names -> Counts] /\ after \in [Names -> Counts]
      /\ counter \in Nat /\ starts \in Nat \ {0} /\ run \in Runs /\ Name \in Names
      /\ \A c \in Counts : c # None => c \in Nat
  BY BenchmarkNames, Bounds DEF Inv, FilesTyped, TypeOK, Name, Counts
\* Outside of a gateway run, and without a row, only NeverAhead is left.
<1>q. ASSUME phase' \notin BetweenScrapes \cup {"delta"},
             row' = None \/ row'.csv # "plugin_latency", NeverAhead'
      PROVE  PluginInv'
  BY <1>q DEF PluginInv, NoneIsMissing, Ahead, PluginRowsCountTheirRun
\* NeverAhead needs files that are not new, and a counter that has not gone back.
<1>a. ASSUME starts' = starts, counter' \in Nat, counter <= counter',
             \A n \in Names : after'[n] = after[n] \/ after'[n] = None
      PROVE  NeverAhead'
  <2> SUFFICES ASSUME starts = 1, NEW n \in Names
               PROVE  after'[n] # None => after'[n] <= counter'
    BY <1>a DEF NeverAhead
  <2>1. after'[n] # None => after[n] <= counter /\ after'[n] = after[n] /\ after[n] \in Nat
    BY <1>0, <1>a, <1>t DEF NeverAhead
  <2>2. QED
    BY <1>a, <1>t, <2>1
<1>1. CASE Launch
  <2>1. /\ phase' = "baseline" /\ row' = None
        /\ UNCHANGED <<before, after, counter, starts>>
    BY <1>1, PhasesAreSeven DEF Launch, NoRow, files, gateway
  <2>2. NeverAhead'
    BY <1>a, <1>t, <2>1
  <2>3. QED
    BY <1>q, <2>1, <2>2 DEF BetweenScrapes
<1>2. CASE Kill
  <2>1. phase' = "gone" /\ row' = None /\ UNCHANGED <<before, after, counter, starts>>
    BY <1>2 DEF Kill, LeaveVolume, NoRow, files, gateway
  <2>2. NeverAhead'
    BY <1>a, <1>t, <2>1
  <2>3. QED
    BY <1>q, <2>1, <2>2 DEF BetweenScrapes
<1>3. CASE CleanUp
  <2>1. /\ phase' = "gone" /\ row' = None /\ UNCHANGED <<counter, starts>>
        /\ before' = [n \in Names |-> None] /\ after' = [n \in Names |-> None]
    BY <1>3 DEF CleanUp, EmptyVolume, NoRow, script, gateway
  <2>2. NeverAhead'
    BY <1>a, <1>t, <2>1
  <2>3. QED
    BY <1>q, <2>1, <2>2 DEF BetweenScrapes
<1>4. CASE RunBench("baseline") \/ ParseReport("baseline")
  <2>1. phase \in {"baseline", "parse baseline"} /\ NextPhase
    BY <1>4, PhasesByName DEF RunBench, ParseReport
  <2>2. /\ UNCHANGED <<before, after, starts>> /\ counter' = counter
        /\ row' = None \/ row'.csv # "plugin_latency"
    <3>1. CASE RunBench("baseline")
      <4>1. \E n \in {0} : counter' = counter + n
        BY <3>1 DEF RunBench
      <4>2. UNCHANGED <<before, after, starts>> /\ row' = None
        BY <3>1 DEF RunBench, NoRow
      <4>3. QED
        BY <1>t, <4>1, <4>2
    <3>2. CASE ParseReport("baseline")
      <4>1. row' = None \/ row'.csv # "plugin_latency"
        BY <3>2 DEF ParseReport, Failing, NoRow
      <4>2. QED
        BY <3>2, <4>1 DEF ParseReport, gateway
    <3>3. QED
      BY <1>4, <3>1, <3>2
  <2>4. phase' \in {"parse baseline", "before"}
    BY <2>1, PhasesFollow
  <2>5. NeverAhead'
    BY <1>a, <1>t, <2>2
  <2>6. QED
    BY <1>q, <2>2, <2>4, <2>5 DEF BetweenScrapes
<1>5. CASE ScrapeBefore
  <2>1. /\ phase = "before" /\ NextPhase /\ row' = None
        /\ UNCHANGED <<after, counter, starts>>
    BY <1>5 DEF ScrapeBefore, NoRow, gateway
  <2>2. PICK scrape \in Scrapes(before[Name]) :
          /\ before' = [before EXCEPT ![Name] = scrape.file]
          /\ run' = [NoRun EXCEPT !.first = scrape.went]
    BY <1>5 DEF ScrapeBefore
  <2>3. phase' = "gateway" /\ Name' = Name
    BY <2>1, PhasesFollow DEF Name
  <2>4. /\ before'[Name] = scrape.file
        /\ run'.first = scrape.went /\ run'.requests = 0 /\ run'.restarted = FALSE
    BY <1>t, <2>2 DEF NoRun
  <2>5. \/ scrape.went = "whole" /\ scrape.file = counter
        \/ scrape.went = "none" /\ scrape.file = None
        \/ scrape.went = "old" /\ scrape.file = before[Name] /\ before[Name] # None
        \/ scrape.went = "cut" /\ scrape.file \in 0 .. counter
    BY <2>2, ScrapeOutcomes
  <2>6. NeverAhead'
    BY <1>0, <2>1 DEF NeverAhead
  <2>7. NoneIsMissing'
    BY <2>3, <2>4, <2>5 DEF NoneIsMissing
  <2>8. Ahead'
    <3>1. run'.first = "whole" => before'[Name] = counter
      BY <2>4, <2>5
    <3>2. counter # None
      BY <1>t, BenchmarkAssumption
    <3>3. starts = 1 /\ after[Name] # None => after[Name] <= counter
      BY <1>0, <1>t DEF NeverAhead
    <3>4. QED
      BY <1>t, <2>1, <2>3, <2>4, <3>1, <3>2, <3>3 DEF Ahead, BetweenScrapes
  <2>9. QED
    BY <2>1, <2>6, <2>7, <2>8 DEF PluginInv, PluginRowsCountTheirRun
<1>6. CASE RunBench("gateway")
  <2>1. /\ phase = "gateway" /\ NextPhase /\ row' = None
        /\ UNCHANGED <<before, after, starts>>
    BY <1>6 DEF RunBench, NoRow
  <2>2. PICK made \in BOOLEAN, n \in 0 .. (MaxRequests - counter) :
          counter' = counter + n /\ run' = [run EXCEPT !.made = made, !.requests = n]
    BY <1>6 DEF RunBench
  <2>3. phase' = "parse gateway" /\ Name' = Name
    BY <2>1, PhasesFollow DEF Name
  <2>4. n \in Nat /\ counter' \in Nat /\ counter <= counter'
    BY <1>t, <2>2, Bounds
  <2>5. NeverAhead'
    BY <1>a, <2>1, <2>4
  <2>6. run'.first = run.first /\ run'.requests = n /\ run'.restarted = run.restarted
    BY <1>t, <2>2 DEF Runs
  <2>7. NoneIsMissing'
    BY <1>0, <2>1, <2>3, <2>6 DEF NoneIsMissing, BetweenScrapes
  <2>8. Ahead'
    <3>1. ASSUME run.first = "whole"
          PROVE  /\ before[Name] # None
                 /\ counter' <= before[Name] + n
                 /\ ~run.restarted => counter' = before[Name] + n
                 /\ starts = 1 /\ after[Name] # None => after[Name] <= before[Name]
      <4>1. /\ before[Name] # None /\ run.requests = 0
            /\ starts = 1 /\ after[Name] # None => after[Name] <= before[Name]
            /\ counter <= before[Name] + run.requests
            /\ ~run.restarted => counter = before[Name] + run.requests
        BY <1>0, <2>1, <3>1 DEF Ahead, BetweenScrapes
      <4>2. before[Name] \in Nat
        BY <1>t, <4>1
      <4>3. QED
        BY <1>t, <2>2, <2>4, <4>1, <4>2
    <3>2. QED
      BY <2>1, <2>3, <2>6, <3>1 DEF Ahead
  <2>9. QED
    BY <2>1, <2>5, <2>7, <2>8 DEF PluginInv, PluginRowsCountTheirRun
<1>7. CASE ParseReport("gateway")
  <2>1. phase = "parse gateway" /\ NextPhase
    BY <1>7, PhasesByName DEF ParseReport
  <2>2. UNCHANGED <<before, after, counter, starts, run>>
    BY <1>7 DEF ParseReport, gateway, history
  <2>3. row' = None \/ row'.csv # "plugin_latency"
    BY <1>7 DEF ParseReport, Failing, NoRow
  <2>4. phase' = "after" /\ Name' = Name
    BY <2>1, PhasesFollow DEF Name
  <2>5. NeverAhead'
    BY <1>a, <1>t, <2>2
  <2>6. NoneIsMissing' /\ Ahead'
    BY <1>0, <2>1, <2>2, <2>4 DEF NoneIsMissing, Ahead, BetweenScrapes
  <2>7. QED
    BY <2>3, <2>5, <2>6 DEF PluginInv, PluginRowsCountTheirRun
<1>8. CASE ScrapeAfter
  <2>1. /\ phase = "after" /\ NextPhase /\ row' = None
        /\ UNCHANGED <<before, counter, starts>>
    BY <1>8 DEF ScrapeAfter, NoRow, gateway
  <2>2. PICK scrape \in Scrapes(after[Name]) :
          /\ after' = [after EXCEPT ![Name] = scrape.file]
          /\ run' = [run EXCEPT !.second = scrape.went]
    BY <1>8 DEF ScrapeAfter
  <2>3. phase' = "delta" /\ Name' = Name
    BY <2>1, PhasesFollow DEF Name
  <2>4. /\ after'[Name] = scrape.file /\ run'.second = scrape.went
        /\ run'.first = run.first /\ run'.requests = run.requests
        /\ run'.restarted = run.restarted
    BY <1>t, <2>2 DEF Runs
  <2>5. \/ scrape.went = "whole" /\ scrape.file = counter
        \/ scrape.went = "none" /\ scrape.file = None
        \/ scrape.went = "old" /\ scrape.file = after[Name] /\ after[Name] # None
        \/ scrape.went = "cut" /\ scrape.file \in 0 .. counter
    BY <2>2, ScrapeOutcomes
  <2>6. NeverAhead'
    <3> SUFFICES ASSUME starts = 1, NEW n \in Names
                 PROVE  after'[n] # None => after'[n] <= counter
      BY <2>1 DEF NeverAhead
    <3>1. after[n] # None => after[n] <= counter
      BY <1>0 DEF NeverAhead
    <3>2. CASE n = Name
      BY <1>t, <2>4, <2>5, <3>1, <3>2
    <3>3. CASE n # Name
      BY <1>t, <2>2, <3>1, <3>3
    <3>4. QED
      BY <3>2, <3>3
  <2>7. NoneIsMissing'
    BY <1>0, <2>1, <2>3, <2>4 DEF NoneIsMissing, BetweenScrapes
  <2>8. Ahead'
    <3>1. ASSUME run.first = "whole", after'[Name] # None
          PROVE  /\ scrape.went # "old" => after'[Name] <= before[Name] + run.requests
                 /\ scrape.went = "whole" /\ ~run.restarted =>
                      after'[Name] = before[Name] + run.requests
                 /\ starts = 1 /\ scrape.went = "old" => after'[Name] <= before[Name]
      <4>1. /\ before[Name] # None
            /\ starts = 1 /\ after[Name] # None => after[Name] <= before[Name]
            /\ counter <= before[Name] + run.requests
            /\ ~run.restarted => counter = before[Name] + run.requests
        BY <1>0, <2>1, <3>1 DEF Ahead, BetweenScrapes
      <4>2. before[Name] \in Nat /\ run.requests \in Nat
        BY <1>t, <4>1 DEF Runs
      <4>3. CASE scrape.went = "whole"
        BY <1>t, <2>4, <2>5, <4>1, <4>2, <4>3
      <4>4. CASE scrape.went = "cut"
        BY <1>t, <2>4, <2>5, <4>1, <4>2, <4>4
      <4>5. CASE scrape.went = "old"
        BY <2>4, <2>5, <4>1, <4>5
      <4>6. QED
        BY <2>4, <2>5, <3>1, <4>3, <4>4, <4>5
    <3>2. run.first = "whole" => before[Name] # None
      BY <1>0, <2>1 DEF Ahead, BetweenScrapes
    <3>3. QED
      BY <2>1, <2>3, <2>4, <3>1, <3>2 DEF Ahead, BetweenScrapes
  <2>9. QED
    BY <2>1, <2>6, <2>7, <2>8 DEF PluginInv, PluginRowsCountTheirRun
<1>9. CASE PluginDelta
  <2>1. phase = "delta" /\ NextPhase /\ UNCHANGED <<counter, starts>>
    BY <1>9 DEF PluginDelta, gateway
  <2>2. phase' \notin BetweenScrapes \cup {"delta"}
    BY <2>1, PhasesFollow DEF BetweenScrapes
  <2>3. NeverAhead'
    <3>1. \A n \in Names : after'[n] = after[n] \/ after'[n] = None
      BY <1>t, <1>9 DEF PluginDelta
    <3>2. QED
      BY <1>a, <1>t, <2>1, <3>1
  <2>4. NoneIsMissing' /\ Ahead'
    BY <2>2 DEF NoneIsMissing, Ahead
  <2>5. ASSUME row' # None
        PROVE  /\ before[Name] # None /\ after[Name] # None
               /\ row'.of = run /\ row'.requests = after[Name] - before[Name]
    BY <1>9, <2>5 DEF PluginDelta, BothScraped, Failing, NoRow, First
  <2>6. PluginRowsCountTheirRun'
    <3> SUFFICES ASSUME row' # None, run.first \in {"whole", "none"}
                 PROVE  /\ run.second = "old" => starts > 1
                        /\ run.second # "old" => row'.requests <= run.requests
                        /\ run.second = "whole" /\ ~run.restarted =>
                             row'.requests = run.requests
      BY <2>1, <2>5 DEF PluginRowsCountTheirRun
    <3>1. run.first = "whole"
      BY <1>0, <2>1, <2>5 DEF NoneIsMissing
    <3>2. /\ run.second # "old" => after[Name] <= before[Name] + run.requests
          /\ run.second = "whole" /\ ~run.restarted =>
               after[Name] = before[Name] + run.requests
          /\ starts = 1 /\ run.second = "old" => after[Name] <= before[Name]
      BY <1>0, <2>1, <2>5, <3>1 DEF Ahead
    <3>3. before[Name] \in Nat /\ after[Name] \in Nat /\ run.requests \in Nat
      BY <1>t, <2>5 DEF Runs
    <3>4. after[Name] > before[Name]
      BY <1>9, <2>5 DEF PluginDelta, BothScraped, Failing, NoRow, Grew, First
    <3>5. QED
      BY <1>t, <2>5, <3>2, <3>3, <3>4
  <2>7. QED
    BY <2>3, <2>4, <2>6 DEF PluginInv
<1>10. CASE Finish \/ Ready
  <2>1. /\ phase' \in {"wait", "ready"} /\ row' = None
        /\ UNCHANGED <<before, after, counter, starts>>
    BY <1>10 DEF Finish, Ready, NoRow, files, gateway
  <2>2. NeverAhead'
    BY <1>a, <1>t, <2>1
  <2>3. QED
    BY <1>q, <2>1, <2>2 DEF BetweenScrapes
<1>11. CASE GatewayRestarts
  <2>1. /\ UNCHANGED <<phase, current, before, after>> /\ row' = None
        /\ counter' = 0 /\ starts' = starts + 1
        /\ run' = [run EXCEPT !.restarted = @ \/ phase \in BetweenScrapes]
    BY <1>11 DEF GatewayRestarts, NoRow, script, files
  <2>2. /\ run'.first = run.first /\ run'.second = run.second /\ run'.requests = run.requests
        /\ run'.restarted = (run.restarted \/ phase \in BetweenScrapes)
    BY <1>t, <2>1, Zenon DEF Runs
  <2>3. starts' # 1 /\ Name' = Name
    BY <1>t, <2>1 DEF Name
  <2>4. NeverAhead'
    BY <2>3 DEF NeverAhead
  <2>5. NoneIsMissing'
    BY <1>0, <2>1, <2>2, <2>3 DEF NoneIsMissing
  <2>6. Ahead'
    <3> SUFFICES ASSUME phase \in BetweenScrapes \cup {"delta"}, run.first = "whole"
                 PROVE  Ahead'
      BY <2>1, <2>2 DEF Ahead
    <3>1. before[Name] # None /\ (phase = "gateway" => run.requests = 0)
      BY <1>0 DEF Ahead
    <3>2. before[Name] \in Nat /\ run.requests \in Nat
      BY <1>t, <3>1 DEF Runs
    <3>3. counter' <= before[Name] + run.requests
      BY <2>1, <3>2
    <3>4. CASE phase \in BetweenScrapes
      <4>1. run'.restarted
        BY <2>2, <3>4
      <4>2. phase # "delta"
        BY <3>4 DEF BetweenScrapes
      <4>3. QED
        BY <2>1, <2>2, <2>3, <3>1, <3>3, <4>1, <4>2 DEF Ahead
    <3>5. CASE phase = "delta"
      <4>1. phase \notin BetweenScrapes
        BY <3>5 DEF BetweenScrapes
      <4>2. ~run'.restarted => ~run.restarted
        BY <2>2, <4>1
      <4>3. after[Name] # None =>
              /\ run.second # "old" => after[Name] <= before[Name] + run.requests
              /\ run.second = "whole" /\ ~run.restarted =>
                   after[Name] = before[Name] + run.requests
        BY <1>0, <3>5 DEF Ahead
      <4>4. QED
        BY <2>1, <2>2, <2>3, <3>1, <3>5, <4>1, <4>2, <4>3 DEF Ahead
    <3>6. QED
      BY <3>4, <3>5
  <2>7. QED
    BY <2>1, <2>4, <2>5, <2>6 DEF PluginInv, PluginRowsCountTheirRun
<1>12. CASE MonitorStops \/ MonitorCrashes \/ UNCHANGED vars
  <2>1. /\ UNCHANGED <<phase, current, before, after, counter, starts, run>>
        /\ row' = None \/ row' = row
    <3>1. CASE MonitorStops \/ MonitorCrashes
      BY <3>1 DEF MonitorStops, MonitorCrashes, NoRow, script, files, gateway, history
    <3>2. CASE UNCHANGED vars
      BY <3>2 DEF vars, script, files, gateway, history
    <3>3. QED
      BY <1>12, <3>1, <3>2
  <2>2. NeverAhead'
    BY <1>a, <1>t, <2>1
  <2>3. NoneIsMissing' /\ Ahead'
    BY <1>0, <2>1 DEF NoneIsMissing, Ahead, Name
  <2>4. PluginRowsCountTheirRun'
    BY <1>0, <2>1 DEF PluginRowsCountTheirRun
  <2>5. QED
    BY <2>2, <2>3, <2>4 DEF PluginInv
<1>13. QED
  BY <1>1, <1>2, <1>3, <1>4, <1>5, <1>6, <1>7, <1>8, <1>9, <1>10, <1>11, <1>12
     DEF Next, ScriptStep, Modes

\* On a kept volume as on an empty one, with scrapes that fail or are cut off anywhere and a
\* gateway that is restarted, a row of plugin_latency.csv with a whole first scrape never
\* counts a request of another run, and none is missing when the second is whole too and
\* nothing was restarted; without a first scrape there is no row.
THEOREM PluginRowsAreRight == Spec => []PluginRowsCountTheirRun
<1>1. Init => PluginInv
  BY DEF Init, PluginInv, NeverAhead, NoneIsMissing, Ahead, PluginRowsCountTheirRun,
         BetweenScrapes
<1>2. Inv /\ PluginInv /\ [Next]_vars => PluginInv'
  BY PluginStep
<1>3. PluginInv => PluginRowsCountTheirRun
  BY DEF PluginInv
<1>4. QED
  BY <1>1, <1>2, <1>3, InvAlways, PTL DEF Spec
=============================================================================
