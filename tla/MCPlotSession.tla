--------------------------- MODULE MCPlotSession ----------------------------
(* PlotSession over every script of the repository.                        *)
EXTENDS PlotSession

\* All fourteen scripts.
MCScripts == DOMAIN Catalog

\* Three calls: enough for a figure left open by one call to be reused by
\* a second, and for a third call after a restart.
MCMaxCalls == 3

\* Either backend: a desktop session or Agg (headless, MPLBACKEND=Agg).
MCBackends == {"interactive", "agg"}

\* One plt.subplots() script and one plt.figure(1) script, with enough calls
\* for one process to open one figure more than matplotlib's warning limit.
MCFigScripts == {"scalability_docs", "attack"}

MCFigCalls == MaxOpenWarning + 1

\* Only a desktop session, where plt.show() closes the figures.
MCInteractive == {"interactive"}
=============================================================================
