----------------------------- MODULE LogWatcher -----------------------------
(***************************************************************************)
(* watch_log_for_panics (src/src/test_case.rs) and the log it reads: how   *)
(* what one Citrea node prints over its restarts reaches the file, and     *)
(* which of it the watcher sees.                                           *)
(*                                                                         *)
(* A child writes to the file itself.  What a container prints is kept by  *)
(* the docker daemon (external) and written to the file by the task of     *)
(* extract_container_logs (src/src/docker.rs), which truncates it first.   *)
(* Node::start copies the directory of the node, its old log included, so  *)
(* that a restarted container has a log before its task has run.           *)
(*                                                                         *)
(* A log is a sequence of pieces <<run, kind>>, each written at once:      *)
(*   info    a line without any of the keywords                            *)
(*   panic   a line with one of them                                       *)
(*   head    the first part of such a line, without the end of the line    *)
(*   tail    the rest of it; neither part holds the whole keyword          *)
(*   binary  a line with a keyword that is not UTF-8                       *)
(***************************************************************************)
EXTENDS Naturals, Sequences, SequencesExt

CONSTANTS
  MaxRuns,     \* bound: how often the node is started
  MaxPieces    \* bound: pieces a process prints

ASSUME LogAssumption == MaxRuns \in Nat \ {0} /\ MaxPieces \in Nat

VARIABLES
  run,         \* how many times the node has been started
  up,          \* its process is running
  docked,      \* it is a container
  printed,     \* what it has printed in this run
  exists,      \* there is a file at its log_path
  file,        \* its content
  task,        \* the task of extract_container_logs of this run
  watcher,     \* where the watch_log_for_panics of this run is
  read,        \* its position: how many pieces it has read or skipped
  before,      \* how much the process had printed when it sought that position
  cut,         \* the file has been truncated since then
  ends,        \* the positions at which it was at the end of the file after a read
  sent         \* what it has sent to failure_tx, over all runs: <<run, piece>>

processVars == <<run, up, docked, printed>>
fileVars == <<exists, file>>
watcherVars == <<watcher, read, before, cut, ends, sent>>
vars == <<processVars, fileVars, task, watcherVars>>

Kinds == {"info", "panic", "head", "tail", "binary"}
Piece == (1 .. MaxRuns) \X Kinds

TypeOK ==
  /\ run \in 0 .. MaxRuns
  /\ up \in BOOLEAN /\ docked \in BOOLEAN
  /\ exists \in BOOLEAN /\ cut \in BOOLEAN
  /\ printed \in Seq(Piece) /\ file \in Seq(Piece)
  /\ task \in {"none", "spawned", "copying", "ended", "failed"}
  /\ watcher \in {"none", "waiting", "opened", "reading", "returned", "panicked", "aborted"}
  /\ read \in Nat /\ before \in Nat /\ ends \subseteq Nat
  /\ sent \in Seq((1 .. MaxRuns) \X Piece)

Init ==
  /\ run = 0 /\ up = FALSE /\ docked = FALSE /\ printed = <<>>
  /\ exists = FALSE /\ file = <<>>
  /\ task = "none"
  /\ watcher = "none" /\ read = 0 /\ before = 0 /\ cut = FALSE /\ ends = {}
  /\ sent = <<>>

-----------------------------------------------------------------------------
(* Starting and stopping                                                   *)

(* Whoever starts the process: the file of a child is created, the old log *)
(* of a container is left until its task runs.                             *)
Launch(inDocker) ==
  /\ ~up /\ run < MaxRuns
  /\ run' = run + 1 /\ up' = TRUE
  /\ docked' = inDocker /\ printed' = <<>>
  /\ watcher' = "none" /\ read' = 0 /\ before' = 0 /\ cut' = FALSE /\ ends' = {}
  /\ IF inDocker
     THEN task' = "spawned" /\ UNCHANGED fileVars
     ELSE task' = "none" /\ exists' = TRUE /\ file' = <<>>
  /\ UNCHANGED sent

(* The first run is that of Node::new, the others are those of Node::start,*)
(* which finds a copy of the log of the run before.                        *)
(* The test has called wait_until_stopped before.                          *)
Start == (run = 0 \/ watcher = "aborted") /\ \E inDocker \in BOOLEAN : Launch(inDocker)

(* watch_log_for_panics is called when the process has been spawned, in    *)
(* Node::new after the RPC client has been made, which may fail.           *)
Attach ==
  /\ run > 0 /\ watcher = "none"
  /\ watcher' = "waiting"
  /\ UNCHANGED <<processVars, fileVars, task, read, before, cut, ends, sent>>

(* NodeT::stop: pre_stop aborts the watcher before the process is told to  *)
(* end; a watcher that has returned is merely forgotten.                   *)
Stop ==
  /\ watcher \notin {"none", "aborted"}
  /\ watcher' = "aborted"
  /\ UNCHANGED <<processVars, fileVars, task, read, before, cut, ends, sent>>

(* It ends because of that, or by itself.                                  *)
ProcessEnds ==
  /\ up /\ up' = FALSE
  /\ UNCHANGED <<run, docked, printed, fileVars, task, watcherVars>>

-----------------------------------------------------------------------------
(* Printing                                                                *)

InHead == printed # <<>> /\ Last(printed)[2] = "head"

(* The process prints a line, or a part of one: on the terminal of its     *)
(* container, or as a child on its standard output.  (What a child writes  *)
(* to its standard error goes to another file, which no one watches.)      *)
Prints(kind) ==
  /\ up /\ Len(printed) < MaxPieces
  /\ InHead <=> kind = "tail"
  /\ printed' = Append(printed, <<run, kind>>)
  /\ file' = IF docked THEN file ELSE Append(file, <<run, kind>>)
  /\ UNCHANGED <<run, up, docked, exists, task, watcherVars>>

(* extract_container_logs: create_dir_all and File::create.                *)
CreateLog ==
  /\ task = "spawned"
  /\ task' = "copying"
  /\ exists' = TRUE /\ file' = <<>>
  /\ cut' = (watcher = "reading")
  /\ UNCHANGED <<processVars, watcher, read, before, ends, sent>>

(* The next piece of the stream of `docker logs`, from its beginning.      *)
CopyPiece ==
  /\ task = "copying" /\ Len(file) < Len(printed)
  /\ file' = Append(file, printed[Len(file) + 1])
  /\ UNCHANGED <<processVars, exists, task, watcherVars>>

(* The stream ends with the container.                                     *)
StreamEnds ==
  /\ task = "copying" /\ ~up /\ Len(file) = Len(printed)
  /\ task' = "ended"
  /\ UNCHANGED <<processVars, fileVars, watcherVars>>

(* File::create or a write fails, or the stream yields an error: the task  *)
(* ends, and no one looks at its result.                                   *)
TaskFails ==
  /\ task \in {"spawned", "copying"}
  /\ task' = "failed"
  /\ UNCHANGED <<processVars, fileVars, watcherVars>>

-----------------------------------------------------------------------------
(* The watcher                                                             *)

(* The loop on log_path.exists(), then File::open: its unwrap may end the  *)
(* watcher, unnoticed.                                                     *)
Open ==
  /\ watcher = "waiting" /\ exists
  /\ watcher' = "opened"
  /\ UNCHANGED <<processVars, fileVars, task, read, before, cut, ends, sent>>

OpenFails ==
  /\ watcher = "waiting" /\ exists
  /\ watcher' = "panicked"
  /\ UNCHANGED <<processVars, fileVars, task, read, before, cut, ends, sent>>

(* The error of the seek is ignored; the seek of a file that has been      *)
(* opened to its end has none.                                             *)
SeekTo(pos) ==
  /\ watcher = "opened"
  /\ watcher' = "reading"
  /\ read' = pos /\ before' = Len(printed)
  /\ UNCHANGED <<processVars, fileVars, task, cut, ends, sent>>

(* Mutant: the log is read from its start.                                 *)
SeekToStart == SeekTo(0)

(* Mutant: the position is one before the end.                             *)
SeekBeforeEnd == SeekTo(Len(file) - 1)

SeekToEnd == SeekTo(Len(file))

(* read_line returns what there is up to the end of the line, or of the    *)
(* file: a head is joined with its tail only if that is already there.     *)
Chunk ==
  LET next == file[read + 1]
      joined == next[2] = "head" /\ read + 2 <= Len(file)
  IN [line |-> IF joined THEN <<next[1], "panic">> ELSE next,
      size |-> IF joined THEN 2 ELSE 1]

(* The file has grown past the position: a file that was truncated under   *)
(* the watcher is at its end for it until then.                            *)
HasMore == watcher = "reading" /\ read < Len(file)

HasKeyword(line) == line[2] = "panic"

(* n pieces are read.                                                      *)
Take(n) ==
  /\ read' = read + n
  /\ ends' = IF read + n = Len(file) THEN ends \cup {read + n} ELSE ends

(* Mutant: the watcher goes on after a report.                             *)
ReportAndGoOn ==
  /\ HasMore /\ HasKeyword(Chunk.line)
  /\ sent' = Append(sent, <<run, Chunk.line>>)
  /\ Take(Chunk.size)
  /\ UNCHANGED <<processVars, fileVars, task, watcher, before, cut>>

(* A line with a keyword is sent, and the watcher returns.                 *)
ReadPanic ==
  /\ HasMore /\ HasKeyword(Chunk.line)
  /\ sent' = Append(sent, <<run, Chunk.line>>)
  /\ Take(Chunk.size)
  /\ watcher' = "returned"
  /\ UNCHANGED <<processVars, fileVars, task, before, cut>>

(* Mutant: an error of read_line ends the watcher.                         *)
ReadOtherOrQuit ==
  /\ HasMore /\ ~HasKeyword(Chunk.line)
  /\ Take(Chunk.size)
  /\ watcher' = IF Chunk.line[2] = "binary" THEN "returned" ELSE watcher
  /\ UNCHANGED <<processVars, fileVars, task, before, cut, sent>>

(* Mutant: a read takes everything there is for one line.                  *)
ReadToEnd ==
  /\ HasMore /\ ~HasKeyword(Chunk.line)
  /\ Take(Len(file) - read)
  /\ UNCHANGED <<processVars, fileVars, task, watcher, before, cut, sent>>

(* Any other line is passed over, as is one that cannot be decoded, which  *)
(* read_line has consumed when it returns the error.                       *)
ReadOther ==
  /\ HasMore /\ ~HasKeyword(Chunk.line)
  /\ Take(Chunk.size)
  /\ UNCHANGED <<processVars, fileVars, task, watcher, before, cut, sent>>

-----------------------------------------------------------------------------

Watcher == Open \/ SeekToEnd \/ ReadPanic \/ ReadOther
Extractor == CreateLog \/ CopyPiece \/ StreamEnds

Next ==
  \/ Start \/ Attach \/ Stop \/ ProcessEnds
  \/ \E kind \in Kinds : Prints(kind)
  \/ Extractor \/ TaskFails
  \/ Watcher \/ OpenFails

Spec == Init /\ [][Next]_vars

(* The watcher polls its file every 100 ms and tokio polls its task; the   *)
(* same holds of the task that copies the log as long as the daemon sends  *)
(* what it has.                                                            *)
FairSpec == Spec /\ WF_vars(Watcher) /\ WF_vars(Extractor)

-----------------------------------------------------------------------------
(* Properties                                                              *)

(* A report is about a line of the run it was sent in: a node is never     *)
(* reported for what it printed before it was restarted, although a copy   *)
(* of its old log may be at the path the new watcher opens, and may hold   *)
(* lines that no watcher has read (those of a node that was being stopped).*)
ReportsAreFresh == \A i \in DOMAIN sent : sent[i][1] = sent[i][2][1]

(* A watcher passes over a line with a keyword for one of four reasons     *)
(* only: the process printed it, or the first part of it, before the       *)
(* watcher had found its position; the log was truncated under the watcher,*)
(* as that of a restarted container is when its watcher waits at the end   *)
(* of the old one; the line is not UTF-8, which is an error of read_line;  *)
(* or its first part was the last thing in the log when the watcher read   *)
(* it, so that it saw the line in two parts, neither with the keyword.     *)
MissesExplained ==
  watcher = "reading" =>
    \A k \in DOMAIN file :
      k <= read /\ file[k][1] = run /\ file[k][2] \in {"panic", "binary", "head"} =>
        \/ k <= before
        \/ cut
        \/ file[k][2] = "binary"
        \/ file[k][2] = "head" /\ k \in ends

(* A line with a keyword that is ahead of the watcher, whole.              *)
Ahead ==
  /\ watcher = "reading"
  /\ \E k \in DOMAIN file :
       /\ k > read
       /\ file[k][2] = "panic" \/ (file[k][2] = "head" /\ k < Len(file))

Watch == INSTANCE PanicWatch WITH
  watching <- watcher \in {"waiting", "opened", "reading"},
  logged <- Ahead,
  reports <- Len(sent)

(* The watcher is the one TestRunner assumes: whole lines that have come   *)
(* into its log ahead of it are lost neither to reads of other lines, nor  *)
(* to a truncation, nor to an error, and end in one report.                *)
ImplementsWatch == Watch!Spec

(* What the node prints once its watcher is at the end of its log, and the *)
(* log will not be truncated any more, is on its way to a report, even     *)
(* when the process ends of it: for a container the daemon and the task of *)
(* extract_container_logs still have to bring it to the log, unless that   *)
(* task has failed.                                                        *)
PanicReported ==
  \A k \in 1 .. MaxPieces :
    /\ watcher = "reading" /\ task # "spawned"
    /\ k \in DOMAIN printed /\ k > read
    /\ printed[k][2] = "panic"
    ~> \/ \E i \in DOMAIN sent : sent[i][1] = run
       \/ watcher = "aborted"
       \/ task = "failed"
=============================================================================
