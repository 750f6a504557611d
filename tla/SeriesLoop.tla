----------------------------- MODULE SeriesLoop -----------------------------
(***************************************************************************)
(* The series loops that turn a table into the lists handed to ax.plot or  *)
(* ax.errorbar, in their three forms:                                      *)
(*                                                                         *)
(*   line charts (attack.py and the other plt.figure(1) scripts):          *)
(*     for name, entries, style, color in bsize:                           *)
(*         throughput = []; replica_no = []                                *)
(*         for c, t in entries:                                            *)
(*             throughput.append(t); replica_no.append(c)                  *)
(*         ax.plot(replica_no, throughput, ...)                            *)
(*                                                                         *)
(*   yerr=0 charts, first column (proposers_tps.py, scalability.py, ...):  *)
(*     for name, entries, style, color in thru:                            *)
(*         thru = []                                                       *)
(*         for item in entries: thru.append(item[0])                      *)
(*         ax.errorbar(replica_no, thru, yerr=0, ...)                      *)
(*                                                                         *)
(*   yerr=0 charts, plain values (the real_block loops):                   *)
(*     for item in entries: real.append(item)                             *)
(*     ax_real.errorbar(replica_no, real, yerr=0, ...)                     *)
(*                                                                         *)
(* followed by the axes' set_ylim([lo, hi]).  Values are integers in a     *)
(* fixed unit (hundredths in the MC module).                               *)
(***************************************************************************)
EXTENDS Integers, Sequences

CONSTANT
    Loops   \* the loops to run: [kind, x, ylim, series]; kind "pairs",
            \* "first" or "values"; x the fixed x list of the errorbar
            \* scripts (replica_no), <<>> for "pairs"; ylim <<lo, hi>>;
            \* series a Seq of [name, entries]

VARIABLES
    loop,    \* the loop being run, one of Loops
    pc,      \* "outer" (at the for header), "inner", "done"
    it,      \* how many series the outer iterator has produced
    j,       \* how many items of the current series were appended
    xs,      \* the list replica_no built by the "pairs" loop
    ys,      \* the y list being built (throughput, thru, cpus, real)
    drawn,   \* plot/errorbar calls so far: << [name, x, y] >>
    twins    \* ax.twinx() calls so far

vars == <<loop, pc, it, j, xs, ys, drawn, twins>>

Table == loop.series

Entries == Table[it].entries

Init ==
    /\ loop \in Loops
    /\ pc = "outer"
    /\ it = 0
    /\ j = 0
    /\ xs = <<>>
    /\ ys = <<>>
    /\ drawn = <<>>
    /\ twins = 0

\* Fault used by the mutation checks: the loop run by index one series
\* past the end (range(len(bsize) + 1)).
StartSeriesPastEnd ==
    /\ pc = "outer"
    /\ it <= Len(Table)
    /\ it' = it + 1
    /\ j' = 0
    /\ pc' = "inner"
    /\ xs' = <<>>
    /\ ys' = <<>>
    /\ UNCHANGED <<loop, drawn, twins>>

\* Fault used by the mutation checks: the lists not emptied per series.
StartSeriesNoReset ==
    /\ pc = "outer"
    /\ it < Len(Table)
    /\ it' = it + 1
    /\ j' = 0
    /\ pc' = "inner"
    /\ UNCHANGED <<loop, xs, ys, drawn, twins>>

\* Fault used by the mutation checks: the last series never taken
\* (for ... in thru[:-1]).
StartSeriesSkipsLast ==
    /\ pc = "outer"
    /\ it < Len(Table) - 1
    /\ it' = it + 1
    /\ j' = 0
    /\ pc' = "inner"
    /\ xs' = <<>>
    /\ ys' = <<>>
    /\ UNCHANGED <<loop, drawn, twins>>

\* The for header takes the next series and starts empty lists.
StartSeries ==
    /\ pc = "outer"
    /\ it < Len(Table)
    /\ it' = it + 1
    /\ j' = 0
    /\ pc' = "inner"
    /\ xs' = <<>>
    /\ ys' = <<>>
    /\ UNCHANGED <<loop, drawn, twins>>

\* Fault used by the mutation checks: the two appends of the pair loop
\* given each other's list.
AppendPairSwapped ==
    /\ pc = "inner"
    /\ loop.kind = "pairs"
    /\ j < Len(Entries)
    /\ LET ct == Entries[j + 1]
       IN /\ ys' = Append(ys, ct[1])
          /\ xs' = Append(xs, ct[2])
    /\ j' = j + 1
    /\ UNCHANGED <<loop, pc, it, drawn, twins>>

\* for c, t in entries: throughput.append(t); replica_no.append(c)
AppendPair ==
    /\ pc = "inner"
    /\ loop.kind = "pairs"
    /\ j < Len(Entries)
    /\ LET ct == Entries[j + 1]
       IN /\ ys' = Append(ys, ct[2])
          /\ xs' = Append(xs, ct[1])
    /\ j' = j + 1
    /\ UNCHANGED <<loop, pc, it, drawn, twins>>

\* Fault used by the mutation checks: the second column taken.
AppendFirstWrongColumn ==
    /\ pc = "inner"
    /\ loop.kind = "first"
    /\ j < Len(Entries)
    /\ ys' = Append(ys, Entries[j + 1][2])
    /\ j' = j + 1
    /\ UNCHANGED <<loop, pc, it, xs, drawn, twins>>

\* for item in entries: thru.append(item[0])
AppendFirst ==
    /\ pc = "inner"
    /\ loop.kind = "first"
    /\ j < Len(Entries)
    /\ ys' = Append(ys, Entries[j + 1][1])
    /\ j' = j + 1
    /\ UNCHANGED <<loop, pc, it, xs, drawn, twins>>

\* for item in entries: real.append(item)
AppendValue ==
    /\ pc = "inner"
    /\ loop.kind = "values"
    /\ j < Len(Entries)
    /\ ys' = Append(ys, Entries[j + 1])
    /\ j' = j + 1
    /\ UNCHANGED <<loop, pc, it, xs, drawn, twins>>

\* ax.plot(replica_no, throughput) or ax.errorbar(replica_no, thru): the
\* x list is the one built by the loop or the script's fixed list.
DrawSeries ==
    /\ pc = "inner"
    /\ loop.kind # "values"
    /\ j = Len(Entries)
    /\ drawn' = Append(drawn, [name |-> Table[it].name,
                               x |-> IF loop.kind = "pairs" THEN xs ELSE loop.x,
                               y |-> ys])
    /\ pc' = "outer"
    /\ UNCHANGED <<loop, it, j, xs, ys, twins>>

\* ax_real = ax.twinx(); ax_real.errorbar(replica_no, real): the real_block
\* loops create the twin axes inside the loop, once per series.
DrawOnTwin ==
    /\ pc = "inner"
    /\ loop.kind = "values"
    /\ j = Len(Entries)
    /\ twins' = twins + 1
    /\ drawn' = Append(drawn, [name |-> Table[it].name, x |-> loop.x, y |-> ys])
    /\ pc' = "outer"
    /\ UNCHANGED <<loop, it, j, xs, ys>>

\* The iterator is exhausted.
EndLoop ==
    /\ pc = "outer"
    /\ it = Len(Table)
    /\ pc' = "done"
    /\ UNCHANGED <<loop, it, j, xs, ys, drawn, twins>>

Next ==
    \/ StartSeries
    \/ AppendPair \/ AppendFirst \/ AppendValue
    \/ DrawSeries \/ DrawOnTwin
    \/ EndLoop

\* The loop is straight-line Python: its next step is always taken.
Spec == Init /\ [][Next]_vars /\ WF_vars(Next)

-----------------------------------------------------------------------------
(* Properties.                                                             *)

TypeOK ==
    /\ loop \in Loops
    /\ pc \in {"outer", "inner", "done"}
    /\ it \in 0..Len(Table)
    /\ j \in Nat
    /\ xs \in Seq(Int)
    /\ ys \in Seq(Int)
    /\ drawn \in Seq([name : {Table[k].name : k \in 1..Len(Table)},
                      x : Seq(Int), y : Seq(Int)])
    /\ twins \in Nat

\* What each drawn series should be, by projection of its table entry: the
\* y column ("pairs": the second, "first": the first, "values": the item)
\* and the x list (the first column, or the script's fixed list).
ColumnY(ser) ==
    [i \in DOMAIN ser.entries |->
        CASE loop.kind = "pairs" -> ser.entries[i][2]
          [] loop.kind = "first" -> ser.entries[i][1]
          [] OTHER               -> ser.entries[i]]

ColumnX(ser) ==
    IF loop.kind = "pairs" THEN [i \in DOMAIN ser.entries |-> ser.entries[i][1]]
    ELSE loop.x

\* The k-th plot/errorbar call draws the k-th series of the table, with
\* exactly that series' columns, although the loop reuses (and in the
\* yerr=0 scripts rebinds) the names of the lists it fills.
DrawnSeriesAreTableColumns ==
    \A k \in 1..Len(drawn) :
        /\ drawn[k].name = Table[k].name
        /\ drawn[k].x = ColumnX(Table[k])
        /\ drawn[k].y = ColumnY(Table[k])

\* The loop ends with every series of its table drawn, although the
\* yerr=0 scripts rebind the name of the list they iterate (thru = []).
AllSeriesDrawn == <>(pc = "done" /\ Len(drawn) = Len(Table))

\* A chart has at most one twin axes: every right-hand series shares one y
\* scale and one legend ("lower right"), although ax.twinx() is called
\* inside the loop, once per real_block series.
OneTwinAxes == twins <= 1

\* Every line is drawn left to right: the x list handed to plot/errorbar
\* is strictly increasing, so matplotlib joins the points in x order (the
\* tables and the fixed x lists are written by hand, and the code does not
\* sort them).
LinesDrawnLeftToRight ==
    \A k \in 1..Len(drawn) :
        \A i \in 1..Len(drawn[k].x) - 1 : drawn[k].x[i] < drawn[k].x[i + 1]

\* Every point drawn lies inside the y-limits the axes set afterwards, so
\* set_ylim hides no measurement.
PointsWithinYLim ==
    \A k \in 1..Len(drawn) : \A i \in DOMAIN drawn[k].y :
        loop.ylim[1] <= drawn[k].y[i] /\ drawn[k].y[i] <= loop.ylim[2]
=============================================================================
