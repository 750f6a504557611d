---------------------------- MODULE ErrorBarLoop ----------------------------
(***************************************************************************)
(* The series loop of the error-bar scripts (adversarial-comparison.py,    *)
(* proposers.py):                                                          *)
(*                                                                         *)
(*   for name, entries, style, color in thru:                              *)
(*       thru = []; errs = []                                              *)
(*       for item in entries:                                              *)
(*           thru.append((item[0] + item[1]) / 2.0)                        *)
(*           errs.append(abs(item[0] - item[1]))                           *)
(*       ax.errorbar(x, thru, yerr=errs, ...)                              *)
(*                                                                         *)
(* The loop rebinds the name `thru` it iterates over; Python's for keeps   *)
(* the iterator of the original list, so the outer position is a separate *)
(* variable.  Each item is a pair of measurements (two runs of the same    *)
(* experiment).  Values are integers in a fixed unit, and y values and     *)
(* errors are kept doubled so that the division by 2.0 stays exact.       *)
(***************************************************************************)
EXTENDS Naturals, Integers, Sequences

CONSTANT
    Tables   \* the loops to run: [series |-> << [name, entries] >>, xlen]
             \* where entries is a Seq of pairs and xlen the length of the x
             \* list handed to errorbar (replicaNo, proposer_no)

VARIABLES
    table,   \* the loop being run, one of Tables
    pc,      \* "outer" (at the for header), "inner", "done"
    it,      \* how many series the outer iterator has produced
    j,       \* how many items of the current series were appended
    thru,    \* the list bound to the name thru (doubled y values)
    errs,    \* the list bound to errs (doubled errors)
    drawn    \* errorbar calls so far: << [name, y, err] >>

vars == <<table, pc, it, j, thru, errs, drawn>>

Abs(x) == IF x < 0 THEN -x ELSE x

Table == table.series

Entries == Table[it].entries

Init ==
    /\ table \in Tables
    /\ pc = "outer"
    /\ it = 0
    /\ j = 0
    /\ thru = <<>>
    /\ errs = <<>>
    /\ drawn = <<>>

\* Faults used by the mutation checks: the lists not reset per series; the
\* last series skipped; abs() left out of the error.
StartSeriesNoReset ==
    /\ pc = "outer"
    /\ it < Len(Table)
    /\ it' = it + 1
    /\ j' = 0
    /\ pc' = "inner"
    /\ UNCHANGED <<table, thru, errs, drawn>>

StartSeriesSkipsLast ==
    /\ pc = "outer"
    /\ it < Len(Table) - 1
    /\ it' = it + 1
    /\ j' = 0
    /\ pc' = "inner"
    /\ thru' = <<>>
    /\ errs' = <<>>
    /\ UNCHANGED <<table, drawn>>

AppendItemNoAbs ==
    /\ pc = "inner"
    /\ j < Len(Entries)
    /\ LET item == Entries[j + 1]
       IN /\ thru' = Append(thru, item[1] + item[2])
          /\ errs' = Append(errs, 2 * (item[1] - item[2]))
    /\ j' = j + 1
    /\ UNCHANGED <<table, pc, it, drawn>>

\* The for header takes the next series; thru = []; errs = [].
StartSeries ==
    /\ pc = "outer"
    /\ it < Len(Table)
    /\ it' = it + 1
    /\ j' = 0
    /\ pc' = "inner"
    /\ thru' = <<>>
    /\ errs' = <<>>
    /\ UNCHANGED <<table, drawn>>

\* One item: its mean and the distance between its measurements.
AppendItem ==
    /\ pc = "inner"
    /\ j < Len(Entries)
    /\ LET item == Entries[j + 1]
       IN /\ thru' = Append(thru, item[1] + item[2])
          /\ errs' = Append(errs, 2 * Abs(item[1] - item[2]))
    /\ j' = j + 1
    /\ UNCHANGED <<table, pc, it, drawn>>

\* ax.errorbar(x, thru, yerr=errs, label=name): the series is drawn.
DrawSeries ==
    /\ pc = "inner"
    /\ j = Len(Entries)
    /\ drawn' = Append(drawn, [name |-> Table[it].name, y |-> thru, err |-> errs])
    /\ pc' = "outer"
    /\ UNCHANGED <<table, it, j, thru, errs>>

\* The iterator is exhausted.
EndLoop ==
    /\ pc = "outer"
    /\ it = Len(Table)
    /\ pc' = "done"
    /\ UNCHANGED <<table, it, j, thru, errs, drawn>>

Next == StartSeries \/ AppendItem \/ DrawSeries \/ EndLoop

Spec == Init /\ [][Next]_vars /\ WF_vars(Next)

-----------------------------------------------------------------------------
(* Properties.                                                             *)

TypeOK ==
    /\ table \in Tables
    /\ pc \in {"outer", "inner", "done"}
    /\ it \in 0..Len(Table)
    /\ j \in Nat
    /\ thru \in Seq(Int)
    /\ errs \in Seq(Nat)
    /\ drawn \in Seq([name : {Table[k].name : k \in 1..Len(Table)},
                      y : Seq(Int), err : Seq(Nat)])

\* The k-th errorbar call draws the k-th series of the table, with one
\* value per x position and each value the mean of that series' own items,
\* although the loop rebinds the list it iterates over.
DrawnSeriesAreOwnMeans ==
    \A k \in 1..Len(drawn) :
        /\ drawn[k].name = Table[k].name
        /\ Len(drawn[k].y) = table.xlen
        /\ \A i \in 1..table.xlen :
              drawn[k].y[i] = Table[k].entries[i][1] + Table[k].entries[i][2]

\* The loop ends with every series of the table drawn.
AllSeriesDrawn == <>(pc = "done" /\ Len(drawn) = Len(Table))

\* Each error bar reaches from the smaller to the larger of its two
\* measurements (errorbar's yerr is the half-length of a symmetric bar).
ErrorBarSpansMeasurements ==
    \A k \in 1..Len(drawn) : \A i \in DOMAIN drawn[k].y :
        LET item == Table[k].entries[i]
            lo == IF item[1] <= item[2] THEN item[1] ELSE item[2]
            hi == IF item[1] <= item[2] THEN item[2] ELSE item[1]
        IN /\ drawn[k].y[i] - drawn[k].err[i] = 2 * lo
           /\ drawn[k].y[i] + drawn[k].err[i] = 2 * hi
=============================================================================
