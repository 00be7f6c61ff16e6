----------------------------- MODULE PanicWatch -----------------------------
(***************************************************************************)
(* What `run` relies on of the task that watches a node's log, and what    *)
(* TestRunner assumes of it: a line that the watcher recognises and has    *)
(* still before it is reported, once, unless the node is stopped first.    *)
(***************************************************************************)
EXTENDS Naturals

VARIABLES
  watching,    \* the task runs
  logged,      \* there is such a line in the log ahead of it
  reports      \* how many reports it and those before it have sent

vars == <<watching, logged, reports>>

Init == watching = FALSE /\ logged = FALSE /\ reports = 0

Attach ==
  /\ ~watching
  /\ watching' = TRUE
  /\ UNCHANGED <<logged, reports>>

PanicLine ==
  /\ watching /\ ~logged
  /\ logged' = TRUE
  /\ UNCHANGED <<watching, reports>>

ReportPanic ==
  /\ watching /\ logged
  /\ watching' = FALSE /\ logged' = FALSE
  /\ reports' = reports + 1

(* NodeT::stop aborts the task; it may also end without having read, when  *)
(* the log cannot be opened.                                               *)
PreStop ==
  /\ watching' = FALSE /\ logged' = FALSE
  /\ UNCHANGED reports

Next == Attach \/ PanicLine \/ ReportPanic \/ PreStop

Spec == Init /\ [][Next]_vars /\ (logged ~> ~logged)
=============================================================================
