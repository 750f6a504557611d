---------------------------- MODULE PlotSession -----------------------------
(***************************************************************************)
(* Python processes that call the scripts' do_plot() functions, and the    *)
(* state those calls share: pyplot's registry of open figures, its current *)
(* figure, and the output files in the working directory.  A process runs *)
(* do_plot() of one script (as `python script.py` does) or of several in  *)
(* a row (a caller that imports them); files outlive the process.          *)
(*                                                                         *)
(* One call of do_plot() is one step: nothing else runs while it runs.     *)
(* The library behaviour the scripts rely on is part of the environment:   *)
(*  - plt.figure(1, figsize) returns figure 1 if it is open, with the size  *)
(*    it already has, and creates it with figsize otherwise;               *)
(*  - plt.subplots() creates figure max(open numbers) + 1, or 1;           *)
(*  - plt.clf() removes every axes of the current figure;                  *)
(*  - plt.savefig() writes the current figure, truncating the file first;  *)
(*  - plt.show() blocks until the windows are closed, which closes every   *)
(*    figure, under an interactive backend, and does nothing under a       *)
(*    non-interactive one (Agg, headless runs).                            *)
(***************************************************************************)
EXTENDS Naturals, Sequences, FiniteSets, FiniteSetsExt, Functions, TLC, ChartScripts

CONSTANTS
    Scripts,    \* the scripts a process may call, a subset of DOMAIN Catalog
    MaxCalls,   \* bound on do_plot() calls over the whole behaviour
    Backends    \* backends a process may get: a subset of {"interactive", "agg"}

ASSUME /\ Scripts \subseteq DOMAIN Catalog
       /\ MaxCalls \in Nat
       /\ Backends \subseteq {"interactive", "agg"} /\ Backends # {}

\* How a do_plot() call that raises ends: a ValueError from matplotlib when
\* the data lists do not fit, or an OSError from savefig before the file
\* is opened (unwritable path) or while writing it (disk full).
Failures == {"value_error", "unwritable", "partial_write"}

VARIABLES
    alive,      \* a Python process is running
    backend,    \* the matplotlib backend of the running process
    figs,       \* open figure number -> [size, axes]; axes owned <<script, i>>
    cur,        \* number of pyplot's current figure, NoFigure if none
    files,      \* output file name -> what is on disk
    writers,    \* output file name -> scripts that have written it
    calls,      \* do_plot() calls so far
    lastError   \* how the last call ended: "none" or one of Failures

vars == <<alive, backend, figs, cur, files, writers, calls, lastError>>

NoFigure == 0

Out(s) == Catalog[s].out
Outputs == {Out(s) : s \in Scripts}

\* The axes script s creates, tagged with their owner, in creation order.
AxesOf(s) == [i \in 1..Len(Catalog[s].axes) |-> <<s, i>>]

Absent == [state |-> "absent", size |-> <<0, 0>>, axes |-> {}]

NoFigures == [n \in {} |-> [size |-> <<0, 0>>, axes |-> <<>>]]

\* matplotlib's rcParams["figure.max_open_warning"]: plt.figure() and
\* plt.subplots() warn once more figures than this are open.
MaxOpenWarning == 20

-----------------------------------------------------------------------------
(* The steps of do_plot().                                                 *)

\* Fault used by the mutation checks: plt.clf() left out.
NoClf(fig) == fig

\* plt.clf(): the current figure loses all its axes.
Clf(fig) == [fig EXCEPT !.axes = <<>>]

\* f = plt.figure(1, figsize=size): figure 1, created with size if closed.
FigureOne(s) ==
    IF 1 \in DOMAIN figs THEN figs[1]
    ELSE [size |-> Catalog[s].size, axes |-> <<>>]

\* plt.figure(1, ...); plt.clf(); ax = f.add_subplot(1, 1, 1): the figure
\* number and the figure after the axes are added.
OpenFigureOne(s) ==
    [num |-> 1, fig |-> [Clf(FigureOne(s)) EXCEPT !.axes = @ \o AxesOf(s)]]

\* plt.subplots(rows, 1, figsize=size), and ax.twinx() where the script
\* has a twin axes: a new figure under the next free number.
NextNum == IF DOMAIN figs = {} THEN 1 ELSE Max(DOMAIN figs) + 1

OpenSubplots(s) ==
    [num |-> NextNum, fig |-> [size |-> Catalog[s].size, axes |-> AxesOf(s)]]

Opened(s) ==
    IF Catalog[s].mode = "figure1" THEN OpenFigureOne(s) ELSE OpenSubplots(s)

\* plot/errorbar raise ValueError when x and y differ in length;
\* set_xticklabels raises it when the labels do not match the fixed ticks.
ShapeError(s) ==
    \E a \in Range(Catalog[s].axes) :
        \/ \E ser \in Range(a.series) : ser.nx # ser.ny
        \/ a.ticks > 0 /\ \E k \in DOMAIN a.labels : a.labels[k] # a.ticks

\* plt.savefig(out): the current figure as written to disk.
Saved(fig) == [state |-> "complete", size |-> fig.size, axes |-> Range(fig.axes)]

\* Fault used by the mutation checks: a script without plt.show().
ShowFigsOmitted(openFigs) == openFigs

\* plt.show(): the open figures once it returns.
ShowFigs(openFigs) == IF backend = "interactive" THEN NoFigures ELSE openFigs

-----------------------------------------------------------------------------
(* Actions.                                                                *)

Init ==
    /\ alive = TRUE
    /\ backend \in Backends
    /\ figs = NoFigures
    /\ cur = NoFigure
    /\ files = [f \in Outputs |-> Absent]
    /\ writers = [f \in Outputs |-> {}]
    /\ calls = 0
    /\ lastError = "none"

\* do_plot() of script s runs to the end: the figure is drawn, saved to
\* Out(s) and shown.
RunScript(s) ==
    /\ alive
    /\ calls < MaxCalls
    /\ ~ShapeError(s)
    /\ LET o == Opened(s)
           openFigs == (o.num :> o.fig) @@ figs
       IN /\ files' = [files EXCEPT ![Out(s)] = Saved(o.fig)]
          /\ figs' = ShowFigs(openFigs)
          /\ cur' = IF figs' = NoFigures THEN NoFigure ELSE o.num
    /\ writers' = [writers EXCEPT ![Out(s)] = @ \cup {s}]
    /\ calls' = calls + 1
    /\ lastError' = "none"
    /\ UNCHANGED <<alive, backend>>

\* do_plot() of script s raises, and the uncaught exception ends the
\* process.  A ValueError is raised while drawing exactly when the data
\* does not fit; otherwise savefig may fail, before the file is opened or
\* after it was truncated and partly written.
RunScriptFails(s) ==
    /\ alive
    /\ calls < MaxCalls
    /\ \E e \in Failures :
         /\ (e = "value_error") <=> ShapeError(s)
         /\ files' = IF e = "partial_write"
                     THEN [files EXCEPT ![Out(s)] =
                             [Saved(Opened(s).fig) EXCEPT !.state = "truncated"]]
                     ELSE files
         /\ writers' = IF e = "partial_write"
                       THEN [writers EXCEPT ![Out(s)] = @ \cup {s}]
                       ELSE writers
         /\ lastError' = e
    /\ alive' = FALSE
    /\ figs' = NoFigures
    /\ cur' = NoFigure
    /\ calls' = calls + 1
    /\ UNCHANGED backend

\* The process returns normally after its calls.
Exit ==
    /\ alive
    /\ alive' = FALSE
    /\ figs' = NoFigures
    /\ cur' = NoFigure
    /\ UNCHANGED <<backend, files, writers, calls, lastError>>

\* A new process starts, with the backend its environment selects.
Start(b) ==
    /\ ~alive
    /\ calls < MaxCalls
    /\ alive' = TRUE
    /\ backend' = b
    /\ UNCHANGED <<figs, cur, files, writers, calls, lastError>>

Next ==
    \/ \E s \in Scripts : RunScript(s) \/ RunScriptFails(s)
    \/ Exit
    \/ \E b \in Backends : Start(b)

Spec == Init /\ [][Next]_vars

-----------------------------------------------------------------------------
(* Properties.                                                             *)

FileState == [state : {"absent", "complete", "truncated"},
              size : Nat \X Nat,
              axes : SUBSET (Scripts \X (1..MaxAxes))]

TypeOK ==
    /\ alive \in BOOLEAN
    /\ backend \in {"interactive", "agg"}
    /\ \A n \in DOMAIN figs : n \in 1..MaxCalls
    /\ cur \in {NoFigure} \cup DOMAIN figs
    /\ files \in [Outputs -> FileState]
    /\ writers \in [Outputs -> SUBSET Scripts]
    /\ calls \in 0..MaxCalls
    /\ lastError \in {"none"} \cup Failures

\* The refinement mappings to RenderedCharts: a file on disk read as the
\* chart of the script it matches by Holds.  A file that matches no script
\* (another script's leftover axes, a reused size) is of kind "foreign",
\* which no render of RenderedCharts produces.
HoldsChartOf(file, s) == file.axes = Range(AxesOf(s)) /\ file.size = Catalog[s].size

HoldsAxesOf(file, s) == file.axes = Range(AxesOf(s))

View(file, Holds(_, _)) ==
    IF file.state = "absent" THEN [kind |-> "absent", chart |-> "none"]
    ELSE IF \E s \in Scripts : Holds(file, s)
         THEN [kind |-> IF file.state = "complete" THEN "complete" ELSE "damaged",
               chart |-> CHOOSE s \in Scripts : Holds(file, s)]
         ELSE [kind |-> "foreign", chart |-> "none"]

Rendered == INSTANCE RenderedCharts
                WITH disk <- [f \in Outputs |-> View(files[f], HoldsChartOf)]

RenderedAxes == INSTANCE RenderedCharts
                    WITH disk <- [f \in Outputs |-> View(files[f], HoldsAxesOf)]

\* The processes implement RenderedCharts: every do_plot() call leaves every
\* other script's file as it was and its own file holding its own chart at
\* its own size, whole or damaged, whatever ran before it in the process.
RenderedChartsSpec == Rendered!Spec

\* The same with the figure size left out, under either backend: a call,
\* completed or failed at savefig, changes only its own file and leaves it
\* holding exactly the axes it drew, none left on a reused figure 1 by an
\* earlier call in the process (plt.clf() in the plt.figure(1) scripts is
\* what ensures it).
RenderedAxesSpec == RenderedAxes!Spec

\* No script's data makes matplotlib raise: every series has as many x as
\* y values and every set_xticklabels call matches its fixed ticks.
NoDataShapeError == lastError # "value_error"

\* Each output file is only ever written by one script, so no script's
\* chart overwrites another's (the scripts save to hard-coded names in the
\* current directory).
SingleWriterPerOutput == \A f \in Outputs : Cardinality(writers[f]) <= 1

\* A saved chart has the figsize its script asks for.
SavedChartHasRequestedSize ==
    \A s \in Scripts :
        files[Out(s)].state = "complete" => files[Out(s)].size = Catalog[s].size

\* A chart is discarded once its image is written, so a process that calls
\* do_plot() many times never holds more open figures than matplotlib's
\* warning limit (no script calls plt.close(); the plt.subplots() scripts
\* open a new figure on every call).
OpenFiguresWithinWarningLimit == Cardinality(DOMAIN figs) <= MaxOpenWarning
=============================================================================
