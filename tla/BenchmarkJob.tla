---------------------------- MODULE BenchmarkJob ----------------------------
(***************************************************************************)
(* The benchmark job of performance_and_scale_evaluation/phase1: run.sh    *)
(* runs every benchmark twice, against the simulator (baseline) and        *)
(* through the gateway, scrapes the gateway's plugin metrics around the    *)
(* second, and appends rows to CSV files; prom_monitor.py samples in the   *)
(* background until run.sh leaves a stop file.  All of it happens on a     *)
(* volume, which run_benchmark.sh keeps from one launch of the job to the  *)
(* next and the last step of the README deletes.                           *)
(*                                                                         *)
(* A report is the run that made it; the requests of a gateway run are     *)
(* counted, their latencies are not modelled.  A scrape is the count of    *)
(* one plugin.  Of the CSV files, which no step reads, only the row that   *)
(* the last step has appended is kept.                                     *)
(***************************************************************************)
EXTENDS Naturals, Sequences, SequencesExt

CONSTANTS
  Benchmarks,      \* the sequence of benchmark names, none twice
  None,            \* no file, no row
  Radix,           \* counts are written in this base: ten
  MaxLaunches,     \* bound on the launches of the job
  MaxRequests,     \* bound on the requests between two starts of payload-processing
  MaxGatewayStarts, \* bound on the starts of payload-processing
  MaxFailures      \* bound on what fails: commands, the monitor, payload-processing

ASSUME BenchmarkAssumption ==
  /\ Benchmarks \in Seq(Range(Benchmarks)) \ {<<>>}
  /\ IsInjective(Benchmarks)
  /\ None \notin Nat
  /\ Radix \in Nat \ {0, 1}
  /\ {MaxLaunches, MaxRequests, MaxGatewayStarts, MaxFailures} \subseteq Nat \ {0}

Names == Range(Benchmarks)
Modes == {"baseline", "gateway"}
ParsePhase == [baseline |-> "parse baseline", gateway |-> "parse gateway"]
Phases == <<"baseline", "parse baseline", "before", "gateway", "parse gateway", "after", "delta">>

\* Between the two scrapes of a gateway run.
BetweenScrapes == {"gateway", "parse gateway", "after"}

VARIABLES
  launch,     \* how often the job has been launched
  phase,      \* where run.sh is in the benchmark, or before, behind or outside all of them
  current,    \* the index of the benchmark
  monitor,    \* prom_monitor.py: off, watching, stopped (by the stop file) or crashed
  stopFile,   \* .monitor_stop exists
  json,       \* json[n, mode]: the benchmarks.json of that directory
  before, after,   \* before[n], after[n]: the counts in the scrapes of a gateway run
  row,        \* the row the last step has appended to a CSV file
  counter,    \* the request counter of payload-processing
  starts,     \* how often payload-processing has been started
  failures,   \* how much has failed
  run,        \* history variable: what happened in the run run.sh is at
  ended       \* history variable: a launch has come to its end on this volume

script == <<launch, phase, current>>
files == <<stopFile, json, before, after>>
gateway == <<counter, starts>>
history == <<run, ended>>
vars == <<script, monitor, files, row, gateway, failures, history>>

\* made: guidellm has written a report; requests: those of the gateway run; first, second:
\* how its two scrapes went; restarted: payload-processing was, between them.
NoRun == [made |-> FALSE, requests |-> 0, first |-> "none", second |-> "none",
          restarted |-> FALSE]

EmptyVolume ==
  /\ stopFile' = FALSE
  /\ json' = [d \in Names \X Modes |-> None]
  /\ before' = [n \in Names |-> None]
  /\ after' = [n \in Names |-> None]

Init ==
  /\ launch = 0 /\ phase = "gone" /\ current = 1
  /\ monitor = "off"
  /\ stopFile = FALSE
  /\ json = [d \in Names \X Modes |-> None]
  /\ before = [n \in Names |-> None]
  /\ after = [n \in Names |-> None]
  /\ row = None
  /\ counter = 0 /\ starts = 1
  /\ failures = 0
  /\ run = NoRun /\ ended = FALSE

Name == Benchmarks[current]

MutDir(mode) == <<Name, "baseline">>

\* dir="$RESULTS/${provider_label}/${name}/${mode}"
Dir(mode) == <<Name, mode>>

\* Something fails, or not: a bound, the code has none.
Failing(fails) ==
  /\ failures' = IF fails THEN failures + 1 ELSE failures
  /\ failures' <= MaxFailures

\* Nothing is appended to a CSV file.
NoRow == row' = None

\* The job's pod starts run.sh, which truncates summary.csv and no other file, and starts the
\* monitor.
Launch ==
  /\ phase = "gone"
  /\ launch < MaxLaunches
  /\ launch' = launch + 1
  /\ phase' = Head(Phases)
  /\ current' = 1
  /\ monitor' = "watching"
  /\ NoRow
  /\ UNCHANGED <<files, gateway, failures, history>>

MutLeaveVolume ==
  /\ stopFile' = TRUE
  /\ UNCHANGED <<json, before, after>>

\* run.sh has no trap: when it is killed it leaves the volume as it is.
LeaveVolume == UNCHANGED files

\* The job is deleted, by hand or by run_benchmark.sh, or meets its deadline: its pod goes,
\* wherever run.sh is.
Kill ==
  /\ phase # "gone"
  /\ phase' = "gone"
  /\ monitor' = "off"
  /\ current' = 1
  /\ run' = NoRun
  /\ LeaveVolume
  /\ NoRow
  /\ UNCHANGED <<launch, gateway, failures, ended>>

\* The volume is deleted as well.
CleanUp ==
  /\ phase = "gone"
  /\ EmptyVolume
  /\ ended' = FALSE
  /\ NoRow
  /\ UNCHANGED <<script, monitor, gateway, failures, run>>

\* run.sh goes on to the next phase, benchmark or, at last, to the end.
NextPhase ==
  LET i == CHOOSE j \in DOMAIN Phases : Phases[j] = phase
  IN  IF i < Len(Phases)
        THEN phase' = Phases[i + 1] /\ UNCHANGED current
      ELSE IF current < Len(Benchmarks)
        THEN phase' = Head(Phases) /\ current' = current + 1
      ELSE phase' = "finish" /\ UNCHANGED current

-----------------------------------------------------------------------------
(* run_bench.                                                              *)

\* guidellm writes its report, or fails, or runs into the timeout; its exit status is
\* ignored.  Only the runs through the gateway reach payload-processing.
RunBench(mode) ==
  /\ phase = mode
  /\ \E made \in BOOLEAN, n \in IF mode = "gateway" THEN 0 .. (MaxRequests - counter) ELSE {0} :
       /\ json' = IF made THEN [json EXCEPT ![Dir(mode)] =
                                  [launch |-> launch, name |-> Name, mode |-> mode]]
                  ELSE json
       /\ counter' = counter + n
       /\ run' = [run EXCEPT !.made = made, !.requests = n]
       /\ Failing(~made)
  /\ NextPhase
  /\ NoRow
  /\ UNCHANGED <<launch, monitor, stopFile, before, after, starts, ended>>

\* parse.py appends a row and removes the report.  It may fail before the first, or between
\* the two, and the benchmark still counts as passed.
ParseReport(mode) ==
  LET report == json[Dir(mode)]
      line == [csv |-> "summary", name |-> Name, mode |-> mode, of |-> report,
               made |-> run.made]
  IN  /\ phase = ParsePhase[mode]
      /\ \/ NoRow /\ UNCHANGED json /\ Failing(report # None)
         \/ /\ report # None
            /\ row' = line
            /\ \/ json' = [json EXCEPT ![Dir(mode)] = None] /\ Failing(FALSE)
               \/ UNCHANGED json /\ Failing(TRUE)
      /\ NextPhase
      /\ UNCHANGED <<launch, monitor, stopFile, before, after, gateway, history>>

-----------------------------------------------------------------------------
(* The rest of run_ab.                                                     *)

\* The numbers whose digits a count begins with, and zero, for a text that ends before them.
Parts(count) == {part \in 0 .. count : \E i \in 0 .. count : part = count \div (Radix ^ i)}

\* What a scrape may leave in a file, and how it went.  It may fail, which is ignored: before
\* the file is opened, when an older one stays, or while it is written, when the text may end
\* anywhere.  An empty file is as good as none.
Scrapes(old) ==
  {[file |-> counter, went |-> "whole"],
   [file |-> None, went |-> "none"],
   [file |-> old, went |-> IF old = None THEN "none" ELSE "old"]}
    \cup {[file |-> part, went |-> "cut"] : part \in Parts(counter)}

ScrapeBefore ==
  /\ phase = "before"
  /\ \E scrape \in Scrapes(before[Name]) :
       /\ before' = [before EXCEPT ![Name] = scrape.file]
       /\ run' = [NoRun EXCEPT !.first = scrape.went]
       /\ Failing(scrape.went # "whole")
  /\ NextPhase
  /\ NoRow
  /\ UNCHANGED <<launch, monitor, stopFile, json, after, gateway, ended>>

ScrapeAfter ==
  /\ phase = "after"
  /\ \E scrape \in Scrapes(after[Name]) :
       /\ after' = [after EXCEPT ![Name] = scrape.file]
       /\ run' = [run EXCEPT !.second = scrape.went]
       /\ Failing(scrape.went # "whole")
  /\ NextPhase
  /\ NoRow
  /\ UNCHANGED <<launch, monitor, stopFile, json, before, gateway, ended>>

\* before.get((labels, 'count'), 0)
First(n) == IF before[n] = None THEN 0 ELSE before[n]

MutGrew(n) == after[n] # First(n)

\* if dc > 0
Grew(n) == after[n] > First(n)

MutBothScraped(n) == after[n] # None

BothScraped(n) == before[n] # None /\ after[n] # None

\* plugin_delta.py writes a row when the counter grew, unless it fails, as it does when the
\* text ends in the exponent of another number.
PluginDelta ==
  /\ phase = "delta"
  /\ IF BothScraped(Name)
       THEN /\ \/ NoRow /\ Failing(Grew(Name))
               \/ /\ Grew(Name)
                  /\ Failing(FALSE)
                  /\ row' = [csv |-> "plugin_latency", name |-> Name,
                             requests |-> after[Name] - First(Name), of |-> run]
            /\ before' = [before EXCEPT ![Name] = None]
            /\ after' = [after EXCEPT ![Name] = None]
       ELSE NoRow /\ UNCHANGED <<before, after, failures>>
  /\ run' = NoRun
  /\ NextPhase
  /\ UNCHANGED <<launch, monitor, stopFile, json, gateway, ended>>

-----------------------------------------------------------------------------
(* The end, the monitor and the gateway.                                   *)

MutLeaveStopFile == UNCHANGED stopFile

\* touch /results/.monitor_stop
LeaveStopFile == stopFile' = TRUE

Finish ==
  /\ phase = "finish"
  /\ LeaveStopFile
  /\ phase' = "wait"
  /\ ended' = TRUE
  /\ NoRow
  /\ UNCHANGED <<launch, current, monitor, json, before, after, gateway, failures, run>>

\* wait "$MONITOR_PID"; then the results are ready and the pod is kept alive.
Ready ==
  /\ phase = "wait"
  /\ monitor \in {"stopped", "crashed"}
  /\ phase' = "ready"
  /\ NoRow
  /\ UNCHANGED <<launch, current, monitor, files, gateway, failures, history>>

\* The monitor looks for the stop file before every sample and while it sleeps.
MonitorStops ==
  /\ monitor = "watching"
  /\ stopFile
  /\ monitor' = "stopped"
  /\ NoRow
  /\ UNCHANGED <<script, files, gateway, failures, history>>

\* It may also end by an exception: no token, a file it cannot write.
MonitorCrashes ==
  /\ monitor = "watching"
  /\ monitor' = "crashed"
  /\ Failing(TRUE)
  /\ NoRow
  /\ UNCHANGED <<script, files, gateway, history>>

\* The gateway's process is restarted, and its counters start at zero.
GatewayRestarts ==
  /\ starts < MaxGatewayStarts
  /\ starts' = starts + 1
  /\ counter' = 0
  /\ Failing(TRUE)
  /\ run' = [run EXCEPT !.restarted = @ \/ phase \in BetweenScrapes]
  /\ NoRow
  /\ UNCHANGED <<script, monitor, files, ended>>

ScriptStep ==
  \/ \E mode \in Modes : RunBench(mode) \/ ParseReport(mode)
  \/ ScrapeBefore \/ ScrapeAfter \/ PluginDelta
  \/ Finish \/ Ready

Next ==
  \/ Launch \/ Kill \/ CleanUp
  \/ ScriptStep
  \/ MonitorStops \/ MonitorCrashes
  \/ GatewayRestarts

Spec == Init /\ [][Next]_vars

\* A shell script runs on, every command of it ends (guidellm under its timeout), and the
\* monitor is scheduled.
FairSpec == Spec /\ WF_vars(ScriptStep) /\ WF_vars(MonitorStops)

-----------------------------------------------------------------------------
(* Properties.                                                             *)

Running == phase \notin {"gone", "finish", "wait", "ready"}

\* Every variable has its type; a row of plugin_latency.csv counts at least one request.
TypeOK ==
  /\ launch \in 0 .. MaxLaunches
  /\ phase \in Range(Phases) \cup {"gone", "finish", "wait", "ready"}
  /\ current \in 1 .. Len(Benchmarks)
  /\ monitor \in {"off", "watching", "stopped", "crashed"}
  /\ stopFile \in BOOLEAN
  /\ \A d \in Names \X Modes : json[d] # None => json[d].launch \in 1 .. launch
  /\ row # None /\ row.csv = "plugin_latency" => row.requests \in 1 .. MaxRequests

\* README.md, "Monitoring": the pod runs a monitor that queries the cluster while the
\* benchmarks run.  It is there during every benchmark, unless it fails.
MonitorCoversBenchmarks == Running => monitor \in {"watching", "crashed"}

\* On a volume on which no launch has come to its end the monitor is not stopped before the
\* last benchmark is done, however many launches have been killed there (run.sh:245).
OnlyAnEndStopsTheMonitor == ~ended => MonitorCoversBenchmarks

\* A row of plugin_latency.csv counts the requests of the gateway run it is named after when
\* the scrapes around it are whole and payload-processing is not restarted between them
\* (run.sh:123-128).  A restart or a second scrape cut short makes it count too few of them,
\* never those of another run.  A run whose first scrape leaves no file has no row, nor has
\* one whose second leaves an old file, until payload-processing has been restarted.
PluginRowsCountTheirRun ==
  row # None /\ row.csv = "plugin_latency" /\ row.of.first \in {"whole", "none"} =>
    /\ row.of.second = "old" => starts > 1
    /\ row.of.second # "old" => row.requests <= row.of.requests
    /\ row.of.second = "whole" /\ ~row.of.restarted => row.requests = row.of.requests

\* A row of summary.csv is made from a report of the same benchmark and the same mode, and
\* when guidellm has made a report in this run, from that one: what failed runs, failures of
\* parse.py and killed launches leave on the volume gets into no other row (run.sh:66).
SummaryRowsAreOfTheirRun ==
  row # None /\ row.csv = "summary" =>
    /\ row.of.name = row.name /\ row.of.mode = row.mode
    /\ row.made => row.of.launch = launch

\* Every launch that is not killed comes to its results: run.sh does not wait for ever for
\* the monitor it has told to stop.
JobEnds == phase = "baseline" ~> phase \in {"ready", "gone"}
=============================================================================
