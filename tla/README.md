# TLA+ models of the Phalanx benchmark plotting scripts

The repository's code is 14 independent matplotlib scripts. Each one turns
hard-coded benchmark measurements of the Phalanx consensus work into one
PDF chart. This project models what those scripts do to shared state and
checks it with TLC. The shared state is pyplot's figure registry, which is
global to a Python process, and the output files in the working directory.
It also models the one non-trivial computation in the scripts: the
mean/error-bar loop.

## 1. Inventory

### Components

| Component | Sources | State it keeps | Operations |
|---|---|---|---|
| Line-chart scripts (`plt.figure(1)` family) | attack.py, multi_evaluation.py, phalanx-hs-n10-tps-faulty.py, scalability_fmax_latency.py, adversarial.py, evaluation.py, both phalanx-hs-n10-faulty.py | a module-level `bsize` table of `(name, entries, style, color)` | `do_plot()`: `plt.figure(1, figsize)`, `plt.clf()`, `add_subplot`, then one `ax.plot` per series (after unzipping `(c, t)` pairs), styling, `plt.savefig(<name>.pdf)`, `plt.show()` |
| Error-bar / twin-axes scripts (`plt.subplots` family) | proposers_tps.py, scalability.py (docs), adversarial-comparison.py, proposers.py, proposers_new.py, scalability_f1.py | x lists, tick and label lists, tables local to `do_plot` | `do_plot()`: `plt.subplots(rows, 1, figsize)`, one `ax.errorbar` per series (y = mean of a pair or first element, yerr = `abs(a-b)` or 0), `ax.twinx()` for "Block Rate", `set_xticks`/`set_xticklabels`, `plt.savefig`, `plt.show()` |
| Measurement tables | all scripts | literal lists | none (read only) |
| Process entry points | every `if __name__ == '__main__': do_plot()` | the Python process | start, run `do_plot`, exit or die on an uncaught exception |
| pyplot registry and backend (matplotlib, outside the repository) | called by every script | open figures by number, current figure, backend | `figure(num)`, `subplots`, `clf`, `savefig`, `show` |
| Styling and layout | all scripts | axes attributes | legend, grid, ylim, labels, `f.text`, `tight_layout` |

### How the components interact

The scripts never call each other. They interact only through shared state.

- **pyplot's global figure registry.** `plt.figure(1)` returns figure 1 if
  it is already open, and keeps that figure's size. `plt.subplots()` takes
  the next free figure number. `plt.show()` closes the figures only under
  an interactive backend, once its windows are closed. Under Agg or a
  headless run it closes nothing.
- **The working directory.** Every script saves to a hard-coded relative
  file name.

A process runs one script (`python x.py`), or a caller imports several
scripts and calls each `do_plot()`. Spec section 5 names this case. Output
files outlive the process.

### What is hard here

- **Ordering of calls within one process.** A figure left open by one call
  is reused by the next: figure 1 keeps its size, and its old axes stay
  unless `plt.clf()` removes them.
- **Partial failure.** `savefig` truncates the file and then writes it. An
  `OSError` in between leaves a damaged chart. A `ValueError` from
  mismatched lists ends the process before `savefig`. The damaged file is
  in the model (a "damaged" file in `RenderedCharts`), but no property
  forbids it: nothing in the spec or the code promises atomic output, and
  failures are neither handled nor recovered.
- **Hand-maintained list lengths.** x lists, tick lists and label tuples
  are written out separately from the tables they must match.
- **The error-bar loop.** It rebinds the name of the list it iterates
  (`for ... in thru: thru = []`). It also passes `abs(a-b)` as a symmetric
  half-error.

### What makes each component correct

- A saved chart holds exactly its own script's axes, at its own figsize.
- No script's data makes matplotlib raise.
- Each output file is written by one script only.
- A failed render leaves the previous file intact.
- Each error bar is drawn from the script's own series. It has one value
  per x position and spans the two measurements it represents.
- Every series of a loop is drawn.
- Every line is drawn in increasing x order, and every point lies inside
  its axes' y-limits.
- A process that renders many charts does not accumulate open figures.

## 2. Modules

| Module | Models | Main correspondence |
|---|---|---|
| `ChartScripts` | what every script asks pyplot to draw | one definition per script (`attack`, `proposers`, ...). Each is a `Chart(mode, size, axes, out)`: the figure mode (`figure1` or `subplots`), the figsize, the axes in creation order (twins last) with every series' x and y list lengths, the fixed tick count and every `set_xticklabels` length, and the `savefig` name. `Catalog` maps the names to these definitions. |
| `PlotSession` | processes calling `do_plot()`, pyplot's registry, the output files | variables `alive`, `backend`, `figs` (open figure number -> size and owned axes), `cur`, `files` (name -> absent/complete/truncated with size and axes), `writers`, `calls`, `lastError`. Actions: `RunScript(s)` is a whole `do_plot()` (open the figure, draw, `savefig`, `show`). `RunScriptFails(s)` is a `do_plot()` that raises: a `ValueError` exactly when the data lists do not fit, otherwise an `OSError` at `savefig` before or after truncation. The uncaught exception ends the process. `Exit` is a normal process end and `Start(b)` starts a new process with backend `b`, one of the constant `Backends`. Step operators: `FigureOne`, `Clf`, `OpenFigureOne`, `OpenSubplots`, `ShapeError`, `Saved`, `ShowFigs`. |
| `ErrorBarLoop` | the `for name, entries, ... in thru` loop of adversarial-comparison.py (the same as in proposers.py) | `StartSeries` is the `for` header with `thru = []; errs = []`. `AppendItem` is one inner iteration: mean and `abs` difference, kept doubled so that `/ 2.0` stays exact. `DrawSeries` is `ax.errorbar` and `EndLoop` is the end of the loop. The outer iterator is its own variable `it`, because Python keeps iterating the original list after the name `thru` is rebound. |
| `RenderedCharts` | the renderer's contract (spec section 4.1), as an abstract specification | one variable `disk`: output file -> `absent`, or the chart of one script, `complete` or `damaged`. One action `Render(s)` replaces script `s`'s file, and only that file, with its own chart, whole or damaged. `PlotSession` maps onto it twice. `Rendered` uses `View(_, HoldsChartOf)`, which reads a file as the chart of the script whose axes it holds at that script's figsize. `RenderedAxes` uses `View(_, HoldsAxesOf)`, which compares the axes only. A file with leftover axes or a reused size maps to `foreign`, which no abstract step produces. |
| `SeriesLoop` | the loops that build the lists handed to `ax.plot` / `ax.errorbar` in the other 12 scripts: `for c, t in entries` (line charts), `thru.append(item[0])` and `real.append(item)` (the `yerr=0` charts) | `StartSeries` is the `for` header with its empty lists. `AppendPair`, `AppendFirst` and `AppendValue` are one inner iteration of each form. `DrawSeries` is the plot/errorbar call, with x the list built by the loop or the script's fixed `replica_no`. `DrawOnTwin` is the real_block form: `ax_real = ax.twinx()` followed by `ax_real.errorbar`, counted in `twins`, since the code creates the twin axes inside the loop. `EndLoop` ends the loop. Each loop record carries its axes' `set_ylim` limits. |
| `MCPlotSession` | all 14 scripts, `MaxCalls = 3`, both backends. Also: one `plt.subplots` and one `plt.figure(1)` script with 21 calls, and the interactive backend alone | |
| `MCSeriesLoop` | the 19 series loops of the repository (17 distinct: two loops of proposers_new.py equal those of proposers_tps.py), with their real tables in hundredths, rounded down | |
| `MCErrorBarLoop` | the three real error-bar tables (in fixed-point integers) plus every table of 1-2 series x 1-2 items over values 0..1 | |

Each call of `do_plot()` is one atomic step. The scripts are
single-threaded, and nothing else runs in the process during a call, so
no interleaving inside a call can be observed.

## 3. Runs

| Run | Expect | Properties | What it shows |
|---|---|---|---|
| `plot_session` | pass | `TypeOK`, `RenderedAxesSpec`, `NoDataShapeError`, `SingleWriterPerOutput` | Any 3 calls of any scripts, across restarts, under either backend, with I/O failures. The processes implement `RenderedCharts` with the figure size left out (mapping `View(_, HoldsAxesOf)`). Each call changes only its own file, which then holds exactly the axes it drew, whole or damaged. `plt.clf()` is what ensures this for a reused figure 1. Every x list, tick list and label tuple matches its data. The 14 output names are distinct. About 44k states. |
| `plot_session_size` | violation | `SavedChartHasRequestedSize` | In one Agg process, attack.py then multi_evaluation.py saves `multi_evaluation.pdf` at 6x3 inches instead of 8x4. This contradicts "they share no state" in spec section 5. |
| `plot_session_figs` | violation | `OpenFiguresWithinWarningLimit` | No script calls `plt.close()`. Spec section 3 says a chart "is discarded after the image is written". In TLC's trace, one Agg process calls attack.py's `do_plot()` (figure 1 stays open) and then scalability.py's `do_plot()` 20 times, each opening a new figure: 21 figures are open, and matplotlib warns at the 21st. |
| `plot_session_refine` | pass | `RenderedChartsSpec` | Under an interactive backend, any 3 calls of any scripts, with restarts and I/O failures, implement `RenderedCharts`. Each call leaves every other file alone and gives its own file its own chart at its own size, whole or damaged. The mapping is `View(_, HoldsChartOf)`. Under Agg this refinement fails, for the reason `plot_session_size` shows. Only the size-free refinement of `plot_session` holds there. About 10k states. |
| `series_loop` | pass | `TypeOK`, `DrawnSeriesAreTableColumns`, `LinesDrawnLeftToRight`, `PointsWithinYLim`, `OneTwinAxes`, `AllSeriesDrawn` (liveness) | Over every real table, the k-th call draws exactly the k-th series' columns (checked against a projection of the table). Every series is drawn, although the yerr=0 loops rebind `thru`. Every line's x list is strictly increasing. Matplotlib joins points in list order, and no code sorts them. Every point lies inside the y-limits its axes set, so `set_ylim` clips none. No chart gets a second twin axes: `twinx()` runs once per real_block series, and every real_block has one series, so a second right-hand scale and legend never appear. 414 states. |
| `errorbar_loop` | pass | `TypeOK`, `DrawnSeriesAreOwnMeans`, `AllSeriesDrawn` (liveness) | Every `errorbar` call gets its own series' means, with one value per x position. Every series is drawn despite the rebinding of `thru`. |
| `errorbar_span` | violation | `ErrorBarSpansMeasurements` | With the real data, "Phalanx strategy" at 4 nodes (0.0, 0.028) is drawn from -0.014 to 0.042. Each bar is twice the measured range. |

Every property of a passing run has a mutant in `PROJECT.json`: a
plausible fault of the code under which TLC finds that property violated.
The mutants are:

- `plt.clf()` removed;
- `plt.show()` removed (the refinement);
- the two appends of the `for c, t` loop swapped;
- the per-series reset dropped, and the last series skipped, in `SeriesLoop`;
- `item[1]` taken instead of `item[0]`;
- the series loop run one index past the end;
- a hidden-label tuple one element short;
- the 6w-tps copy saving under its original's name;
- a second twin axes;
- a second block-rate series in a real_block table;
- `abs` dropped;
- the per-series reset dropped;
- the last series skipped.

**Bounds.**

- *Three calls.* Two calls in one process are enough for every cross-call
  effect: figure reuse, leftover axes, and two writers of one file. The
  third call lets a restart follow a failure or an exit.
- *All 14 scripts.* All of them are in the run, so every pair of scripts
  is tried.
- *21 calls* (`plot_session_figs`): the smallest number that opens one
  figure more than matplotlib's limit of 20. Two scripts are enough: a
  `plt.subplots` script that opens a figure per call, and a `plt.figure(1)`
  script that reuses figure 1.
- *Refinement.* It uses the same 3 calls and 14 scripts as `plot_session`,
  with one backend.
- *Series loops.* All of them, over their real tables, so nothing is
  sampled. Values are in hundredths, rounded down. No value lies within
  0.01 of a limit, so no comparison changes.
- *Error-bar tables.* The real tables are checked exactly. The small tables
  cover empty differences, equal and unequal pairs, and one or two series.

**Fairness.** `errorbar_loop` assumes weak fairness of the loop's next
step. The loop is straight-line Python with no blocking or waiting, so
each step is always taken. `plot_session` and `plot_session_refine` check no liveness, because a
caller may stop calling at any time. Its cfg disables the deadlock check
because the processes stop once the call bound is reached. The loop's
final state after `EndLoop` is also terminal, in both loop modules.
`series_loop` assumes the same weak fairness as `errorbar_loop`, for the
same reason. `RenderedCharts` has no fairness: a render may never happen.

## 4. Not modelled, and why

- **Rendering, styling and layout** (legend placement, grid, label text,
  `tight_layout`, `f.text`): presentation whose outcome is pixels, with no
  state that a property reads. The styling calls that a property does read
  are modelled: tick and label list lengths (`ChartScripts`), `set_ylim`
  limits and the twin axes of the real_block loops (`SeriesLoop`).
- **The module-level `bsize` of adversarial-comparison.py (lines 7-36):**
  no code reads it, because `do_plot()` draws its local `thru`.
- **Whiskers against y-limits:** the error bars of adversarial-comparison.py
  reach below its `set_ylim([0, 30])` only because of the doubled `yerr`
  (`errorbar_span`). With half the range, every bar lies between its two
  measurements, all of which are at least 0.
- **matplotlib internals beyond the registry contract listed at the top of
  `PlotSession.tla`.**
- **Interactive windows:** a user who never closes a window blocks
  `plt.show()` forever. This is outside the program's control.

## 5. Plan

Done:

- First sitting: `ChartScripts`, `PlotSession` with its MC module and
  three runs, and `ErrorBarLoop` with its MC module and two runs.
- Second sitting:
  - the open-figure run, for the resource-bound hazard at scalability.py:5;
  - the abstract `RenderedCharts` and the refinement run;
  - `SeriesLoop`, over all the other loops and tables.

- Third sitting:
  - the size-free refinement `RenderedAxesSpec` under both backends,
    replacing the invariant `SavedChartIsOwn`;
  - the reference, length and liveness properties of `SeriesLoop`.
- Fourth sitting: `DrawOnTwin` and `OneTwinAxes`, for the `twinx()` call
  inside the real_block loops (proposers_tps.py:42, scalability.py:60,
  proposers_new.py:44, scalability_f1.py:50).
- Fifth sitting, after review: removed `OutputNeverTruncated` (it only
  restated the modelled savefig failure, which nothing promises against)
  and `XAndYListsAgree` (the same length check as `NoDataShapeError`);
  dropped four hazards that needed a future edit of correct code to arise
  (the `thru` rebinding, the `item[0]` index, the real_block twin axes).

Next: nothing of the code is left that the properties could tell apart.
The unmapped lines are the `import` lines, the `__main__` guards (modelled
together by `Start`, `RunScript` and `Exit`) and the unused `bsize` of
adversarial-comparison.py.
