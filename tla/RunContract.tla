---------------------------- MODULE RunContract ----------------------------
(***************************************************************************)
(* What TestCaseRunner::run promises, without saying how: processes are    *)
(* asked for only while the test runs, and come up when they were asked    *)
(* for, if need be later; the outcome is decided once, "ok" is decided by  *)
(* the test alone, and later it can only get worse.  TestRunner implements *)
(* this when the configuration has a Citrea node.                          *)
(***************************************************************************)
CONSTANT Node

VARIABLES
  stage,     \* "running" the select!, "ending" the tear-down, or "returned"
  passed,    \* the test has passed
  verdict,   \* "none" while running
  asked,     \* the processes whose start is requested
  live       \* the processes running on the host

vars == <<stage, passed, verdict, asked, live>>

Init ==
  /\ stage = "running" /\ passed = FALSE /\ verdict = "none"
  /\ asked = {} /\ live = {}

Ask(n) ==
  /\ stage = "running"
  /\ asked' = asked \cup {n}
  /\ UNCHANGED <<stage, passed, verdict, live>>

Launch(n) ==
  /\ stage = "running" \/ n \in asked
  /\ live' = live \cup {n}
  /\ asked' = asked \ {n}
  /\ UNCHANGED <<stage, passed, verdict>>

Quit(n) ==
  /\ live' = live \ {n}
  /\ asked' = asked \ {n}
  /\ UNCHANGED <<stage, passed, verdict>>

(* A test that passes or fails is followed by the tear-down; a run whose   *)
(* framework could not be built returns its error at once.                 *)
Decide ==
  /\ stage = "running"
  /\ \/ stage' = "ending" /\ passed' = TRUE /\ verdict' = "ok"
     \/ stage' = "ending" /\ verdict' \in {"err", "panic"} /\ UNCHANGED passed
     \/ stage' = "returned" /\ verdict' = "err" /\ UNCHANGED passed
  /\ UNCHANGED <<asked, live>>

Return ==
  /\ stage = "ending"
  /\ stage' = "returned"
  /\ verdict' \in {verdict, "err"}
  /\ UNCHANGED <<passed, asked, live>>

Next == (\E n \in Node : Ask(n) \/ Launch(n) \/ Quit(n)) \/ Decide \/ Return

Spec == Init /\ [][Next]_vars
=============================================================================
