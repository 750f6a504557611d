--------------------------- MODULE RenderedCharts ---------------------------
(***************************************************************************)
(* What a render promises about the files it writes, as the renderer's     *)
(* contract states it: each script renders its own chart description into *)
(* the file at its hard-coded path, overwriting whatever was there; a      *)
(* render that fails on I/O may leave that file damaged; no render touches *)
(* any other script's file.  A file is "absent" or holds one script's      *)
(* chart, whole or damaged.  How the chart is drawn, and in which process, *)
(* is not visible at this level.                                          *)
(***************************************************************************)
EXTENDS ChartScripts

CONSTANT Scripts    \* the scripts that may render, a subset of DOMAIN Catalog

VARIABLE disk       \* output file name -> [kind, chart]

Outputs == {Catalog[s].out : s \in Scripts}

NoFile == [kind |-> "absent", chart |-> "none"]

FileView == {NoFile} \cup [kind : {"complete", "damaged"}, chart : Scripts]

Init == disk = [f \in Outputs |-> NoFile]

\* Script s renders: its file now holds its own chart, complete or damaged.
Render(s) ==
    \E kind \in {"complete", "damaged"} :
        disk' = [disk EXCEPT ![Catalog[s].out] = [kind |-> kind, chart |-> s]]

Next == \E s \in Scripts : Render(s)

Spec == Init /\ [][Next]_disk

TypeOK == disk \in [Outputs -> FileView]
=============================================================================
