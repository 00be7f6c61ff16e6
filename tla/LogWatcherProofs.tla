-------------------------- MODULE LogWatcherProofs --------------------------
(***************************************************************************)
(* Theorems about LogWatcher, for every number of restarts and every       *)
(* output: type correctness, that reports are about the current run, and   *)
(* what the watcher can miss.                                              *)
(***************************************************************************)
EXTENDS LogWatcher, TLAPS, SequenceTheorems

-----------------------------------------------------------------------------
(* The inductive invariant                                                 *)

(* Before its first start there is nothing of a node.                      *)
NotStarted == run = 0 => ~up /\ watcher = "none" /\ task = "none"

(* Only the log of a container has a task.                                 *)
TaskInv == task # "none" => docked

(* The log holds nothing of a later run, and of this run no more than the  *)
(* process has printed; that of a child holds all of it.                   *)
LogInv ==
  /\ \A k \in DOMAIN printed : printed[k][1] = run
  /\ \A k \in DOMAIN file : file[k][1] <= run
  /\ \A k \in DOMAIN file : file[k][1] = run => k <= Len(printed)
  /\ up /\ ~docked => Len(file) = Len(printed)

(* What is ahead of the watcher is of its run; the end of the log is       *)
(* behind it only when the log was truncated.                              *)
AheadInv ==
  watcher = "reading" =>
    /\ \A k \in DOMAIN file : k > read => file[k][1] = run
    /\ ~cut => read <= Len(file)

Inv ==
  /\ TypeOK /\ NotStarted /\ TaskInv /\ LogInv /\ AheadInv
  /\ ReportsAreFresh /\ MissesExplained

-----------------------------------------------------------------------------

LEMMA BoundFacts == MaxRuns \in Nat \ {0} /\ MaxPieces \in Nat
  BY LogAssumption DEF LogAssumption

(* A piece that is printed goes to the end of what is printed, and in a    *)
(* child to the end of the log.                                            *)
LEMMA AppendFacts ==
  ASSUME NEW S, NEW s \in Seq(S), NEW e \in S
  PROVE  /\ Append(s, e) \in Seq(S)
         /\ Len(Append(s, e)) = Len(s) + 1
         /\ DOMAIN Append(s, e) = 1 .. Len(s) + 1
         /\ DOMAIN s = 1 .. Len(s) /\ Len(s) \in Nat
         /\ \A k \in 1 .. Len(s) : Append(s, e)[k] = s[k]
         /\ Append(s, e)[Len(s) + 1] = e
  OBVIOUS

LEMMA LaunchKeeps ==
  ASSUME Inv, NEW inDocker \in BOOLEAN, Launch(inDocker)
  PROVE  Inv'
<1> USE DEF Inv
<1>1. /\ run' = run + 1 /\ run' \in 1 .. MaxRuns /\ run \in Nat
      /\ up' = TRUE /\ docked' = inDocker /\ printed' = <<>>
      /\ watcher' = "none" /\ read' = 0 /\ before' = 0 /\ cut' = FALSE /\ ends' = {}
      /\ sent' = sent
  BY BoundFacts DEF Launch, TypeOK
<1>2. printed' \in Seq(Piece) /\ Len(printed') = 0 /\ DOMAIN printed' = {}
  BY <1>1
<1>5. /\ run' \in 0 .. MaxRuns /\ up' \in BOOLEAN /\ docked' \in BOOLEAN
      /\ cut' \in BOOLEAN /\ printed' \in Seq(Piece)
      /\ watcher' \in {"none", "waiting", "opened", "reading", "returned", "panicked", "aborted"}
      /\ read' \in Nat /\ before' \in Nat /\ ends' \subseteq Nat
      /\ sent' \in Seq((1 .. MaxRuns) \X Piece)
  <2>1. run' \in 0 .. MaxRuns BY <1>1, BoundFacts
  <2>2. sent' \in Seq((1 .. MaxRuns) \X Piece) BY <1>1 DEF TypeOK
  <2>3. up' \in BOOLEAN /\ docked' \in BOOLEAN /\ cut' \in BOOLEAN
    BY <1>1, Zenon
  <2> QED BY <1>1, <1>2, <2>1, <2>2, <2>3
<1>6. NotStarted' /\ AheadInv' /\ ReportsAreFresh' /\ MissesExplained'
  <2>1. run' # 0 /\ watcher' # "reading" BY <1>1, BoundFacts
  <2> QED BY <1>1, <2>1 DEF NotStarted, AheadInv, ReportsAreFresh, MissesExplained
<1>3. CASE inDocker
  <2>1. task' = "spawned" /\ exists' = exists /\ file' = file
    BY <1>3 DEF Launch, fileVars
  <2>2. \A k \in DOMAIN file : file[k][1] \in Nat /\ file[k][1] <= run
    <3>1. file \in Seq(Piece) BY DEF TypeOK
    <3>2. \A k \in DOMAIN file : file[k] \in Piece BY <3>1
    <3>3. \A p \in Piece : p[1] \in Nat BY BoundFacts DEF Piece
    <3> QED BY <3>2, <3>3 DEF LogInv
  <2>3. \A k \in DOMAIN file : file[k][1] <= run' /\ file[k][1] # run'
    BY <1>1, <2>2
  <2>4. TypeOK'
    <3>1. task' \in {"none", "spawned", "copying", "ended", "failed"} BY <2>1
    <3>2. exists' \in BOOLEAN /\ file' \in Seq(Piece) BY <2>1 DEF TypeOK
    <3> QED BY <1>5, <3>1, <3>2 DEF TypeOK
  <2>5. LogInv' BY <1>1, <1>2, <1>3, <2>1, <2>3 DEF LogInv
  <2>6. TaskInv' BY <1>1, <1>3 DEF TaskInv
  <2> QED BY <1>6, <2>4, <2>5, <2>6
<1>4. CASE ~inDocker
  <2>1. task' = "none" /\ exists' = TRUE /\ file' = <<>> BY <1>4 DEF Launch
  <2>2. file' \in Seq(Piece) /\ Len(file') = 0 /\ DOMAIN file' = {} BY <2>1
  <2>3. TypeOK'
    <3>1. task' \in {"none", "spawned", "copying", "ended", "failed"} BY <2>1
    <3>2. exists' \in BOOLEAN BY <2>1
    <3> QED BY <1>5, <2>2, <3>1, <3>2 DEF TypeOK
  <2>4. LogInv' BY <1>1, <1>2, <2>2 DEF LogInv
  <2>5. TaskInv' BY <2>1 DEF TaskInv
  <2> QED BY <1>6, <2>3, <2>4, <2>5
<1> QED BY <1>3, <1>4

(* A piece added to the log comes after what the watcher has read, unless  *)
(* the log was truncated.                                                  *)
LEMMA GrowKeeps ==
  ASSUME Inv, NEW e \in Piece, e[1] = run, Len(file) + 1 <= Len(printed'),
         file' = Append(file, e), UNCHANGED <<run, watcher, read, before, cut, ends, sent>>
  PROVE  /\ file' \in Seq(Piece) /\ Len(file') = Len(file) + 1
         /\ \A k \in DOMAIN file' : file'[k][1] <= run
         /\ (\A k \in DOMAIN file : file[k][1] = run => k <= Len(printed')) =>
               \A k \in DOMAIN file' : file'[k][1] = run => k <= Len(printed')
         /\ AheadInv' /\ ReportsAreFresh' /\ MissesExplained'
<1> USE DEF Inv
<1>1. /\ file \in Seq(Piece) /\ run \in Nat /\ read \in Nat BY DEF TypeOK
<1>2. /\ file' \in Seq(Piece) /\ Len(file') = Len(file) + 1
      /\ DOMAIN file' = 1 .. Len(file) + 1 /\ DOMAIN file = 1 .. Len(file)
      /\ Len(file) \in Nat
      /\ \A k \in 1 .. Len(file) : file'[k] = file[k]
      /\ file'[Len(file) + 1] = e
  BY <1>1, AppendFacts
<1>3. \A k \in DOMAIN file' : k \in DOMAIN file \/ k = Len(file) + 1 BY <1>2
<1>4. \A k \in DOMAIN file' : file'[k][1] <= run
  BY <1>1, <1>2, <1>3 DEF LogInv
<1>5. (\A k \in DOMAIN file : file[k][1] = run => k <= Len(printed')) =>
         \A k \in DOMAIN file' : file'[k][1] = run => k <= Len(printed')
  BY <1>2, <1>3
<1>6. AheadInv' BY <1>1, <1>2, <1>3 DEF AheadInv
<1>7. MissesExplained'
  <2> SUFFICES ASSUME watcher = "reading", ~cut, NEW k \in DOMAIN file', k <= read,
                      file'[k][1] = run, file'[k][2] \in {"panic", "binary", "head"}
               PROVE  k <= before \/ file'[k][2] = "binary" \/ (file'[k][2] = "head" /\ k \in ends)
    BY DEF MissesExplained
  <2>1. read <= Len(file) BY DEF AheadInv
  <2>2. k \in DOMAIN file BY <1>1, <1>2, <1>3, <2>1
  <2> QED BY <1>2, <2>2 DEF MissesExplained
<1>8. ReportsAreFresh' BY DEF ReportsAreFresh
<1> QED BY <1>2, <1>4, <1>5, <1>6, <1>7, <1>8

LEMMA PrintsKeeps ==
  ASSUME Inv, NEW kind \in Kinds, Prints(kind)
  PROVE  Inv'
<1> DEFINE e == <<run, kind>>
<1> USE DEF Inv
<1>1. /\ printed' = Append(printed, e) /\ up /\ printed \in Seq(Piece)
      /\ UNCHANGED <<run, up, docked, exists, task, watcher, read, before, cut, ends, sent>>
  BY DEF Prints, watcherVars, TypeOK
<1>2. run \in 1 .. MaxRuns /\ e \in Piece /\ e[1] = run
  BY <1>1, BoundFacts DEF NotStarted, TypeOK, Piece
<1>3. /\ printed' \in Seq(Piece) /\ Len(printed') = Len(printed) + 1 /\ Len(printed) \in Nat
      /\ DOMAIN printed' = 1 .. Len(printed) + 1 /\ DOMAIN printed = 1 .. Len(printed)
      /\ \A k \in 1 .. Len(printed) : printed'[k] = printed[k]
      /\ printed'[Len(printed) + 1] = e
  BY <1>1, <1>2, AppendFacts
<1> HIDE DEF e
<1>4. \A k \in DOMAIN printed' : printed'[k][1] = run'
  BY <1>1, <1>2, <1>3 DEF LogInv
<1>5. \A k \in DOMAIN file : file[k][1] = run => k <= Len(printed')
  <2>1. \A k \in DOMAIN file : k \in Nat
    <3>1. file \in Seq(Piece) BY DEF TypeOK
    <3> QED BY <3>1
  <2> QED BY <1>3, <2>1 DEF LogInv
<1>6. CASE docked
  <2>1. file' = file BY <1>6 DEF Prints
  <2>2. TypeOK' BY <1>1, <1>3, <2>1 DEF TypeOK
  <2>3. LogInv' BY <1>1, <1>4, <1>5, <1>6, <2>1 DEF LogInv
  <2> QED BY <1>1, <2>1, <2>2, <2>3
          DEF NotStarted, TaskInv, AheadInv, ReportsAreFresh, MissesExplained
<1>7. CASE ~docked
  <2>1. file' = Append(file, e) BY <1>7 DEF Prints, e
  <2>2. Len(file) = Len(printed) BY <1>1, <1>7 DEF LogInv
  <2>3. /\ file' \in Seq(Piece) /\ Len(file') = Len(file) + 1
        /\ \A k \in DOMAIN file' : file'[k][1] <= run
        /\ \A k \in DOMAIN file' : file'[k][1] = run => k <= Len(printed')
        /\ AheadInv' /\ ReportsAreFresh' /\ MissesExplained'
    BY <1>1, <1>2, <1>3, <1>5, <2>1, <2>2, GrowKeeps
  <2>4. TypeOK' BY <1>1, <1>3, <2>3 DEF TypeOK
  <2>5. LogInv' BY <1>1, <1>3, <1>4, <2>2, <2>3 DEF LogInv
  <2> QED BY <1>1, <2>3, <2>4, <2>5 DEF NotStarted, TaskInv
<1> QED BY <1>6, <1>7

LEMMA ExtractorKeeps ==
  ASSUME Inv, Extractor \/ TaskFails
  PROVE  Inv'
<1> USE DEF Inv
<1>1. CASE CreateLog
  <2>1. /\ task = "spawned" /\ task' = "copying" /\ exists' = TRUE /\ file' = <<>>
        /\ cut' = (watcher = "reading")
        /\ UNCHANGED <<run, up, docked, printed, watcher, read, before, ends, sent>>
    BY <1>1 DEF CreateLog, processVars
  <2>2. file' \in Seq(Piece) /\ Len(file') = 0 /\ DOMAIN file' = {} BY <2>1
  <2>3. TypeOK' BY <2>1, <2>2 DEF TypeOK
  <2>4. CASE docked
    BY <2>1, <2>2, <2>3, <2>4
       DEF NotStarted, TaskInv, LogInv, AheadInv, ReportsAreFresh, MissesExplained
  <2>5. CASE ~docked BY <2>1, <2>5 DEF TaskInv
  <2> QED BY <2>4, <2>5
<1>2. CASE CopyPiece
  <2>1. /\ task = "copying" /\ Len(file) < Len(printed)
        /\ file' = Append(file, printed[Len(file) + 1])
        /\ UNCHANGED <<run, up, docked, printed, exists, task, watcher, read, before, cut, ends, sent>>
    BY <1>2 DEF CopyPiece, processVars, watcherVars
  <2>2. /\ printed \in Seq(Piece) /\ file \in Seq(Piece) BY DEF TypeOK
  <2>3. Len(file) + 1 \in DOMAIN printed /\ Len(file) + 1 <= Len(printed)
    BY <2>1, <2>2
  <2>4. printed[Len(file) + 1] \in Piece /\ printed[Len(file) + 1][1] = run
    BY <2>2, <2>3 DEF LogInv
  <2>5. /\ file' \in Seq(Piece)
        /\ \A k \in DOMAIN file' : file'[k][1] <= run
        /\ \A k \in DOMAIN file' : file'[k][1] = run => k <= Len(printed)
        /\ AheadInv' /\ ReportsAreFresh' /\ MissesExplained'
    BY <2>1, <2>3, <2>4, GrowKeeps DEF LogInv
  <2>6. TypeOK' BY <2>1, <2>5 DEF TypeOK
  <2>7. LogInv' BY <2>1, <2>5 DEF LogInv, TaskInv
  <2> QED BY <2>1, <2>5, <2>6, <2>7 DEF NotStarted, TaskInv
<1>3. CASE StreamEnds \/ TaskFails
  BY <1>3 DEF StreamEnds, TaskFails, processVars, fileVars, watcherVars, TypeOK, TaskInv,
     NotStarted, LogInv, AheadInv, ReportsAreFresh, MissesExplained
<1> QED BY <1>1, <1>2, <1>3 DEF Extractor

LEMMA WatcherKeeps ==
  ASSUME Inv, Watcher \/ OpenFails
  PROVE  Inv'
<1> USE DEF Inv
<1>1. file \in Seq(Piece) /\ Len(file) \in Nat /\ Len(printed) \in Nat /\ read \in Nat
  BY DEF TypeOK
<1>2. CASE Open \/ OpenFails
  <2>1. /\ watcher' \in {"opened", "panicked"}
        /\ UNCHANGED <<run, up, docked, printed, exists, file, task, read, before, cut, ends, sent>>
    BY <1>2 DEF Open, OpenFails, processVars, fileVars
  <2>2. TypeOK' BY <2>1 DEF TypeOK
  <2>3. run # 0 BY <1>2 DEF Open, OpenFails, NotStarted
  <2> QED BY <2>1, <2>2, <2>3
          DEF NotStarted, TaskInv, LogInv, AheadInv, ReportsAreFresh, MissesExplained
<1>3. CASE SeekToEnd
  <2>1. /\ watcher = "opened" /\ watcher' = "reading"
        /\ read' = Len(file) /\ before' = Len(printed)
        /\ UNCHANGED <<run, up, docked, printed, exists, file, task, cut, ends, sent>>
    BY <1>3 DEF SeekToEnd, SeekTo, processVars, fileVars
  <2>2. TypeOK' BY <1>1, <2>1 DEF TypeOK
  <2>3. run # 0 BY <2>1 DEF NotStarted
  <2>4. \A k \in DOMAIN file : k \in Nat /\ k <= Len(file) BY <1>1
  <2>5. AheadInv' BY <1>1, <2>1, <2>4 DEF AheadInv
  <2>6. MissesExplained'
    <3> SUFFICES ASSUME NEW k \in DOMAIN file, file[k][1] = run
                 PROVE  k <= Len(printed)
      BY <2>1 DEF MissesExplained
    <3> QED BY DEF LogInv
  <2> QED BY <2>1, <2>2, <2>3, <2>5, <2>6 DEF NotStarted, TaskInv, LogInv, ReportsAreFresh
<1>4. ASSUME HasMore
      PROVE  /\ run \in 1 .. MaxRuns /\ read + 1 \in DOMAIN file
             /\ file[read + 1] \in Piece /\ file[read + 1][1] = run
             /\ Chunk.line \in Piece /\ Chunk.line[1] = run
             /\ Chunk.size \in {1, 2} /\ read + Chunk.size <= Len(file)
  <2>1. watcher = "reading" /\ read < Len(file) BY <1>4 DEF HasMore
  <2>2. run \in 1 .. MaxRuns BY <2>1, BoundFacts DEF NotStarted, TypeOK
  <2>3. read + 1 \in DOMAIN file /\ read + 1 > read BY <1>1, <2>1
  <2>4. file[read + 1] \in Piece BY <1>1, <2>3
  <2>5. file[read + 1][1] = run BY <2>1, <2>3 DEF AheadInv
  <2>6. <<run, "panic">> \in Piece BY <2>2 DEF Piece, Kinds
  <2>7. CASE file[read + 1][2] = "head" /\ read + 2 <= Len(file)
    <3>1. Chunk = [line |-> <<file[read + 1][1], "panic">>, size |-> 2]
      BY <2>7 DEF Chunk
    <3> QED BY <1>1, <2>2, <2>3, <2>4, <2>5, <2>6, <2>7, <3>1
  <2>8. CASE ~(file[read + 1][2] = "head" /\ read + 2 <= Len(file))
    <3>1. Chunk = [line |-> file[read + 1], size |-> 1] BY <2>8 DEF Chunk
    <3> QED BY <1>1, <2>1, <2>2, <2>3, <2>4, <2>5, <3>1
  <2> QED BY <2>7, <2>8
<1>5. CASE ReadPanic
  <2>1. /\ HasMore /\ sent' = Append(sent, <<run, Chunk.line>>)
        /\ read' = read + Chunk.size /\ watcher' = "returned"
        /\ ends' \in {ends, ends \cup {read + Chunk.size}}
        /\ UNCHANGED <<run, up, docked, printed, exists, file, task, before, cut>>
    BY <1>5 DEF ReadPanic, Take, processVars, fileVars
  <2> DEFINE report == <<run, Chunk.line>>
  <2>2. /\ report \in (1 .. MaxRuns) \X Piece /\ report[1] = report[2][1]
        /\ Chunk.size \in {1, 2}
    BY <1>4, <2>1
  <2>3. sent \in Seq((1 .. MaxRuns) \X Piece) /\ sent' = Append(sent, report)
    BY <2>1 DEF TypeOK
  <2> HIDE DEF report
  <2>4. /\ sent' \in Seq((1 .. MaxRuns) \X Piece)
        /\ DOMAIN sent' = 1 .. Len(sent) + 1 /\ DOMAIN sent = 1 .. Len(sent)
        /\ Len(sent) \in Nat
        /\ \A i \in 1 .. Len(sent) : sent'[i] = sent[i]
        /\ sent'[Len(sent) + 1] = report
    BY <2>2, <2>3, AppendFacts
  <2>5. ReportsAreFresh'
    <3> SUFFICES ASSUME NEW i \in DOMAIN sent' PROVE sent'[i][1] = sent'[i][2][1]
      BY DEF ReportsAreFresh
    <3>1. i \in 1 .. Len(sent) \/ i = Len(sent) + 1 BY <2>4
    <3> QED BY <2>2, <2>4, <3>1 DEF ReportsAreFresh
  <2>6. TypeOK'
    <3>1. read' \in Nat BY <1>1, <2>1, <2>2
    <3>2. ends' \subseteq Nat BY <2>1, <3>1 DEF TypeOK
    <3> QED BY <2>1, <2>4, <3>1, <3>2 DEF TypeOK
  <2>7. run # 0 BY <1>4, <2>1
  <2> QED BY <2>1, <2>5, <2>6, <2>7 DEF NotStarted, TaskInv, LogInv, AheadInv, MissesExplained
<1>6. CASE ReadOther
  <2>1. /\ HasMore /\ ~HasKeyword(Chunk.line)
        /\ read' = read + Chunk.size
        /\ ends' = IF read + Chunk.size = Len(file) THEN ends \cup {read + Chunk.size} ELSE ends
        /\ UNCHANGED <<run, up, docked, printed, exists, file, task, watcher, before, cut, sent>>
    BY <1>6 DEF ReadOther, Take, processVars, fileVars
  <2>2. Chunk.size \in {1, 2} /\ read + Chunk.size <= Len(file) BY <1>4, <2>1
  <2>3. TypeOK'
    <3>1. read' \in Nat BY <1>1, <2>1, <2>2
    <3>2. ends' \subseteq Nat BY <2>1, <3>1 DEF TypeOK
    <3> QED BY <2>1, <3>1, <3>2 DEF TypeOK
  <2>4. \A k \in DOMAIN file : k \in Nat BY <1>1
  <2>5. AheadInv'
    <3>1. read' <= Len(file) /\ \A k \in DOMAIN file : k > read' => k > read
      BY <1>1, <2>1, <2>2, <2>4
    <3> QED BY <2>1, <3>1 DEF AheadInv
  <2>6. MissesExplained'
    <3> SUFFICES ASSUME watcher = "reading", ~cut, NEW k \in DOMAIN file, k <= read',
                        file[k][1] = run, file[k][2] \in {"panic", "binary", "head"}
                 PROVE  k <= before \/ file[k][2] = "binary" \/ (file[k][2] = "head" /\ k \in ends')
      BY <2>1 DEF MissesExplained
    <3>0. ends \subseteq ends' BY <2>1
    <3>1. CASE k <= read
      <4>1. k <= before \/ file[k][2] = "binary" \/ (file[k][2] = "head" /\ k \in ends)
        BY <3>1 DEF MissesExplained
      <4> QED BY <3>0, <4>1
    <3>2. CASE k > read
      <4>1. ~(file[read + 1][2] = "head" /\ read + 2 <= Len(file))
        <5>1. ASSUME file[read + 1][2] = "head" /\ read + 2 <= Len(file) PROVE FALSE
          <6>1. Chunk.line = <<file[read + 1][1], "panic">> BY <5>1 DEF Chunk
          <6> QED BY <2>1, <6>1 DEF HasKeyword
        <5> QED BY <5>1
      <4>2. Chunk = [line |-> file[read + 1], size |-> 1] BY <4>1 DEF Chunk
      <4>3. Chunk.size = 1 /\ Chunk.line = file[read + 1] BY <4>2
      <4>4. k = read + 1 BY <1>1, <2>1, <2>4, <3>2, <4>3
      <4>5. file[k][2] # "panic" BY <2>1, <4>3, <4>4 DEF HasKeyword
      <4>6. CASE file[k][2] = "head"
        <5>1. read + 1 = Len(file) BY <1>1, <4>1, <4>4, <4>6
        <5>2. k \in ends' BY <2>1, <4>3, <4>4, <5>1
        <5> QED BY <4>6, <5>2
      <4> QED BY <4>5, <4>6
    <3> QED BY <1>1, <2>4, <3>1, <3>2
  <2>7. run # 0 BY <1>4, <2>1
  <2> QED BY <2>1, <2>3, <2>5, <2>6, <2>7 DEF NotStarted, TaskInv, LogInv, ReportsAreFresh
<1> QED BY <1>2, <1>3, <1>5, <1>6 DEF Watcher

(* Attach, Stop and ProcessEnds touch neither the log nor a position.      *)
LEMMA RestKeeps ==
  ASSUME Inv, Attach \/ Stop \/ ProcessEnds
  PROVE  Inv'
<1> USE DEF Inv
<1>1. CASE Attach \/ Stop
  <2>1. /\ run # 0 /\ watcher' \in {"waiting", "aborted"}
        /\ UNCHANGED <<run, up, docked, printed, exists, file, task, read, before, cut, ends, sent>>
    BY <1>1, BoundFacts DEF Attach, Stop, NotStarted, TypeOK, processVars, fileVars
  <2>2. TypeOK' BY <2>1 DEF TypeOK
  <2> QED BY <2>1, <2>2
          DEF NotStarted, TaskInv, LogInv, AheadInv, ReportsAreFresh, MissesExplained
<1>2. CASE ProcessEnds
  <2>1. /\ up' = FALSE
        /\ UNCHANGED <<run, docked, printed, exists, file, task, watcher, read, before, cut, ends, sent>>
    BY <1>2 DEF ProcessEnds, fileVars, watcherVars
  <2>2. TypeOK' BY <2>1 DEF TypeOK
  <2> QED BY <2>1, <2>2
          DEF NotStarted, TaskInv, LogInv, AheadInv, ReportsAreFresh, MissesExplained
<1> QED BY <1>1, <1>2

-----------------------------------------------------------------------------

LEMMA InitInv == Init => Inv
<1> SUFFICES ASSUME Init PROVE Inv
  OBVIOUS
<1>1. TypeOK
  <2>1. up \in BOOLEAN /\ docked \in BOOLEAN /\ exists \in BOOLEAN /\ cut \in BOOLEAN
    BY Zenon DEF Init
  <2>2. run \in 0 .. MaxRuns BY BoundFacts DEF Init
  <2>3. /\ printed \in Seq(Piece) /\ file \in Seq(Piece)
        /\ sent \in Seq((1 .. MaxRuns) \X Piece)
    BY DEF Init
  <2> QED BY <2>1, <2>2, <2>3 DEF Init, TypeOK
<1> QED BY <1>1
        DEF Init, Inv, NotStarted, TaskInv, LogInv, AheadInv, ReportsAreFresh, MissesExplained

LEMMA StepInv == Inv /\ [Next]_vars => Inv'
<1> SUFFICES ASSUME Inv, [Next]_vars PROVE Inv'
  OBVIOUS
<1>1. CASE Start BY <1>1, LaunchKeeps DEF Start
<1>2. CASE Attach \/ Stop \/ ProcessEnds BY <1>2, RestKeeps
<1>3. CASE \E kind \in Kinds : Prints(kind) BY <1>3, PrintsKeeps
<1>4. CASE Extractor \/ TaskFails BY <1>4, ExtractorKeeps
<1>5. CASE Watcher \/ OpenFails BY <1>5, WatcherKeeps
<1>6. CASE UNCHANGED vars
  BY <1>6 DEF vars, processVars, fileVars, watcherVars, Inv, TypeOK, NotStarted, TaskInv,
     LogInv, AheadInv, ReportsAreFresh, MissesExplained
<1> QED BY <1>1, <1>2, <1>3, <1>4, <1>5, <1>6 DEF Next

LEMMA InvCorrect == Spec => []Inv
  BY InitInv, StepInv, PTL DEF Spec

(* The variables keep their types over any number of restarts.             *)
THEOREM TypeCorrect == Spec => []TypeOK
<1>1. Inv => TypeOK BY DEF Inv
<1> QED BY InvCorrect, <1>1, PTL

(* A report of watch_log_for_panics is about the run it is sent in, however*)
(* often the node has been restarted and whatever its copied log holds.    *)
THEOREM ReportsFresh == Spec => []ReportsAreFresh
<1>1. Inv => ReportsAreFresh BY DEF Inv
<1> QED BY InvCorrect, <1>1, PTL

(* The watcher passes over no line with a keyword but those it came too    *)
(* late for, those it can no longer see because the log was truncated,     *)
(* those that are not UTF-8, and those it reads in two parts.              *)
THEOREM MissesCorrect == Spec => []MissesExplained
<1>1. Inv => MissesExplained BY DEF Inv
<1> QED BY InvCorrect, <1>1, PTL

-----------------------------------------------------------------------------
(* The abstract watcher                                                    *)

Watching == watcher \in {"waiting", "opened", "reading"}

(* A piece that is, or begins, a whole line with a keyword.                *)
Telling(k) == file[k][2] = "panic" \/ (file[k][2] = "head" /\ k < Len(file))

(* Before the task of extract_container_logs runs, nothing is written to   *)
(* the log of a container, so that its truncation takes nothing from the   *)
(* watcher.                                                                *)
NothingBeforeTask == watcher = "reading" /\ task = "spawned" => Len(file) <= read

LEMMA NothingBeforeTaskStep ==
  ASSUME Inv, NothingBeforeTask, [Next]_vars
  PROVE  NothingBeforeTask'
<1> USE DEF NothingBeforeTask
<1>1. CASE Start BY <1>1 DEF Start, Launch
<1>2. CASE Attach \/ Stop \/ ProcessEnds
  BY <1>2 DEF Attach, Stop, ProcessEnds, fileVars, watcherVars
<1>3. ASSUME NEW kind \in Kinds, Prints(kind) PROVE NothingBeforeTask'
  BY <1>3 DEF Prints, watcherVars, Inv, TaskInv
<1>4. CASE Extractor \/ TaskFails
  BY <1>4 DEF Extractor, CreateLog, CopyPiece, StreamEnds, TaskFails
<1>5. CASE Open \/ OpenFails BY <1>5 DEF Open, OpenFails
<1>6. CASE SeekToEnd
  <2>1. read' = Len(file) /\ UNCHANGED file BY <1>6 DEF SeekToEnd, SeekTo, fileVars
  <2>2. Len(file) \in Nat BY DEF Inv, TypeOK
  <2> QED BY <2>1, <2>2
<1>7. CASE ReadPanic BY <1>7 DEF ReadPanic
<1>8. CASE ReadOther
  <2>1. watcher = "reading" /\ read < Len(file) /\ UNCHANGED task
    BY <1>8 DEF ReadOther, HasMore
  <2>2. read \in Nat /\ Len(file) \in Nat BY DEF Inv, TypeOK
  <2> QED BY <2>1, <2>2
<1>9. CASE UNCHANGED vars BY <1>9 DEF vars, fileVars, watcherVars
<1> QED BY <1>1, <1>2, <1>3, <1>4, <1>5, <1>6, <1>7, <1>8, <1>9 DEF Next, Watcher

LEMMA AheadMeans ==
  Ahead <=> watcher = "reading" /\ \E k \in DOMAIN file : k > read /\ Telling(k)
BY DEF Ahead, Telling

(* Nothing but a watcher that reads has something ahead.                   *)
LEMMA AheadIfReading == Ahead => Watching
BY DEF Ahead, Watching

(* A longer log: what is ahead of the watcher stays ahead of it.           *)
LEMMA GrowAhead ==
  ASSUME Inv, NEW e \in Piece, file' = Append(file, e) \/ file' = file,
         UNCHANGED <<watcher, read>>
  PROVE  Ahead => Ahead'
<1>1. /\ file \in Seq(Piece) /\ read \in Nat BY DEF Inv, TypeOK
<1>2. CASE file' = file BY <1>2 DEF Ahead
<1>3. CASE file' = Append(file, e)
  <2>1. /\ DOMAIN file' = 1 .. Len(file) + 1 /\ DOMAIN file = 1 .. Len(file)
        /\ Len(file') = Len(file) + 1 /\ Len(file) \in Nat
        /\ \A k \in 1 .. Len(file) : file'[k] = file[k]
    BY <1>1, <1>3, AppendFacts
  <2>2. ASSUME NEW k \in DOMAIN file, k > read, Telling(k)
        PROVE  k \in DOMAIN file' /\ Telling(k)'
    BY <2>1, <2>2 DEF Telling
  <2> QED BY <2>2, AheadMeans DEF Ahead, Telling
<1> QED BY <1>2, <1>3

(* A report takes the line the abstract watcher has before it; any other   *)
(* read leaves what is ahead as it was.                                    *)
LEMMA ReadAhead ==
  ASSUME Inv, HasMore
  PROVE  /\ HasKeyword(Chunk.line) => Ahead
         /\ ~HasKeyword(Chunk.line) => Chunk.size = 1 /\ ~Telling(read + 1)
<1>1. /\ file \in Seq(Piece) /\ read \in Nat /\ Len(file) \in Nat
      /\ watcher = "reading" /\ read < Len(file)
  BY DEF Inv, TypeOK, HasMore
<1>2. read + 1 \in DOMAIN file /\ read + 1 > read BY <1>1
<1>3. read + 2 <= Len(file) <=> read + 1 < Len(file) BY <1>1
<1>4. CASE file[read + 1][2] = "head" /\ read + 2 <= Len(file)
  <2>1. Chunk.line = <<file[read + 1][1], "panic">> BY <1>4 DEF Chunk
  <2>2. Telling(read + 1) BY <1>3, <1>4 DEF Telling
  <2> QED BY <1>1, <1>2, <2>1, <2>2, AheadMeans DEF HasKeyword
<1>5. CASE ~(file[read + 1][2] = "head" /\ read + 2 <= Len(file))
  <2>1. Chunk = [line |-> file[read + 1], size |-> 1] BY <1>5 DEF Chunk
  <2>2. Chunk.line = file[read + 1] /\ Chunk.size = 1 BY <2>1
  <2>3. Telling(read + 1) <=> file[read + 1][2] = "panic" BY <1>3, <1>5 DEF Telling
  <2> QED BY <1>1, <1>2, <2>2, <2>3, AheadMeans DEF HasKeyword
<1> QED BY <1>4, <1>5

(* A step that changes neither side, one that puts a line in the log.      *)
LEMMA WatchStutters ==
  ASSUME Watching' <=> Watching, Ahead' <=> Ahead, UNCHANGED sent
  PROVE  [Watch!Next]_(Watch!vars)
<1>1. (watcher \in {"waiting", "opened", "reading"})' = (watcher \in {"waiting", "opened", "reading"})
  BY DEF Watching
<1>2. Ahead' = Ahead BY DEF Ahead
<1>3. Len(sent)' = Len(sent) OBVIOUS
<1> QED BY <1>1, <1>2, <1>3 DEF Watch!vars

LEMMA WatchGrows ==
  ASSUME Ahead => Ahead', UNCHANGED <<watcher, sent>>
  PROVE  [Watch!Next]_(Watch!vars)
<1>1. Watching' <=> Watching BY DEF Watching
<1>2. CASE Ahead' <=> Ahead BY <1>1, <1>2, WatchStutters
<1>3. CASE ~Ahead /\ Ahead'
  <2>1. Watching BY <1>1, <1>3 DEF Ahead, Watching
  <2>2. Ahead' = TRUE BY <1>3 DEF Ahead
  <2>3. Watch!PanicLine
    BY <1>3, <2>1, <2>2 DEF Watch!PanicLine, Watching
  <2> QED BY <2>3 DEF Watch!Next
<1> QED BY <1>2, <1>3

LEMMA WatchStep ==
  ASSUME Inv, NothingBeforeTask, [Next]_vars
  PROVE  [Watch!Next]_(Watch!vars)
<1>0. /\ file \in Seq(Piece) /\ Len(file) \in Nat /\ DOMAIN file = 1 .. Len(file)
      /\ read \in Nat /\ sent \in Seq((1 .. MaxRuns) \X Piece)
  BY DEF Inv, TypeOK
<1>1. CASE Start
  <2>1. watcher \notin {"waiting", "opened", "reading"}
    BY <1>1 DEF Start, Inv, NotStarted
  <2>2. watcher' = "none" /\ UNCHANGED sent BY <1>1 DEF Start, Launch
  <2> QED BY <2>1, <2>2, WatchStutters DEF Watching, Ahead
<1>2. CASE Attach
  <2>1. /\ ~Watching /\ Watching' /\ ~Ahead /\ ~Ahead' /\ UNCHANGED sent
    BY <1>2 DEF Attach, Watching, Ahead
  <2>2. (watcher \in {"waiting", "opened", "reading"})' = TRUE /\ Ahead' = Ahead
    BY <2>1 DEF Watching, Ahead
  <2>3. Watch!Attach BY <2>1, <2>2 DEF Watch!Attach, Watching
  <2> QED BY <2>3 DEF Watch!Next
<1>3. CASE Stop
  <2>1. ~Watching' /\ ~Ahead' /\ UNCHANGED sent BY <1>3 DEF Stop, Watching, Ahead
  <2>2. (watcher \in {"waiting", "opened", "reading"})' = FALSE /\ Ahead' = FALSE
    BY <2>1 DEF Watching, Ahead
  <2>3. Watch!PreStop BY <2>1, <2>2 DEF Watch!PreStop
  <2> QED BY <2>3 DEF Watch!Next
<1>4. CASE ProcessEnds \/ StreamEnds \/ TaskFails \/ UNCHANGED vars
  <2>1. UNCHANGED <<watcher, file, read, sent>>
    BY <1>4 DEF ProcessEnds, StreamEnds, TaskFails, vars, fileVars, watcherVars
  <2> QED BY <2>1, WatchStutters DEF Watching, Ahead
<1>5. ASSUME NEW kind \in Kinds, Prints(kind) PROVE [Watch!Next]_(Watch!vars)
  <2>1. /\ UNCHANGED <<watcher, read, sent>>
        /\ file' = Append(file, <<run, kind>>) \/ file' = file
    BY <1>5 DEF Prints, watcherVars
  <2>2. <<run, kind>> \in Piece
    BY <1>5, BoundFacts DEF Prints, Inv, NotStarted, TypeOK, Piece
  <2> QED BY <2>1, <2>2, GrowAhead, WatchGrows
<1>6. CASE CopyPiece
  <2>1. /\ UNCHANGED <<watcher, read, sent>> /\ Len(file) < Len(printed)
        /\ file' = Append(file, printed[Len(file) + 1])
    BY <1>6 DEF CopyPiece, watcherVars
  <2>2. printed[Len(file) + 1] \in Piece BY <1>0, <2>1 DEF Inv, TypeOK
  <2> QED BY <2>1, <2>2, GrowAhead, WatchGrows
<1>7. CASE CreateLog
  <2>1. /\ UNCHANGED <<watcher, sent>> /\ file' = <<>> /\ task = "spawned"
    BY <1>7 DEF CreateLog
  <2>2. ~Ahead BY <1>0, <2>1 DEF Ahead, NothingBeforeTask
  <2>3. ~Ahead' BY <2>1 DEF Ahead
  <2> QED BY <2>1, <2>2, <2>3, WatchStutters DEF Watching
<1>8. CASE Open BY <1>8, WatchStutters DEF Open, Watching, Ahead
<1>12. CASE OpenFails
  <2>1. ~Ahead' /\ UNCHANGED sent /\ watcher' \notin {"waiting", "opened", "reading"}
    BY <1>12 DEF OpenFails, Ahead
  <2>2. (watcher \in {"waiting", "opened", "reading"})' = FALSE /\ Ahead' = FALSE
    BY <2>1 DEF Ahead
  <2>3. Watch!PreStop BY <2>1, <2>2 DEF Watch!PreStop
  <2> QED BY <2>3 DEF Watch!Next
<1>9. CASE SeekToEnd
  <2>1. /\ watcher = "opened" /\ watcher' = "reading" /\ read' = Len(file)
        /\ UNCHANGED <<file, sent>>
    BY <1>9 DEF SeekToEnd, SeekTo, fileVars
  <2>2. ~Ahead BY <2>1 DEF Ahead
  <2>3. ~Ahead' BY <1>0, <2>1 DEF Ahead
  <2> QED BY <2>1, <2>2, <2>3, WatchStutters DEF Watching
<1>10. CASE ReadPanic
  <2>1. /\ HasMore /\ HasKeyword(Chunk.line) /\ watcher' = "returned"
        /\ sent' = Append(sent, <<run, Chunk.line>>)
    BY <1>10 DEF ReadPanic
  <2>2. Ahead /\ Watching BY <2>1, ReadAhead, AheadIfReading
  <2>3. (watcher \in {"waiting", "opened", "reading"})' = FALSE /\ Ahead' = FALSE
    BY <2>1 DEF Ahead
  <2>4. Len(sent)' = Len(sent) + 1 BY <1>0, <2>1
  <2>5. Watch!ReportPanic BY <2>2, <2>3, <2>4 DEF Watch!ReportPanic, Watching
  <2> QED BY <2>5 DEF Watch!Next
<1>11. CASE ReadOther
  <2>1. /\ HasMore /\ ~HasKeyword(Chunk.line) /\ read' = read + Chunk.size
        /\ UNCHANGED <<watcher, file, sent>>
    BY <1>11 DEF ReadOther, Take, fileVars
  <2>2. Chunk.size = 1 /\ ~Telling(read + 1) BY <2>1, ReadAhead
  <2>3. \A k \in DOMAIN file : k > read + 1 <=> k > read /\ k # read + 1 BY <1>0
  <2>4. Ahead' <=> Ahead BY <2>1, <2>2, <2>3 DEF Ahead, Telling
  <2> QED BY <2>1, <2>4, WatchStutters DEF Watching
<1> QED
  BY <1>1, <1>2, <1>3, <1>4, <1>5, <1>6, <1>7, <1>8, <1>9, <1>10, <1>11, <1>12
  DEF Next, Extractor, Watcher

(* Every step of the log, of the watcher and of what writes to the log is  *)
(* a step of the watcher TestRunner assumes, or none for it: no line with  *)
(* a keyword that was before it is lost, and there is one report of it.    *)
(* (That it comes at all is the fairness part of ImplementsWatch.)         *)
THEOREM WatchSteps == Spec => Watch!Init /\ [][Watch!Next]_(Watch!vars)
<1>1. ASSUME Init PROVE Watch!Init /\ NothingBeforeTask
  <2>1. (watcher \in {"waiting", "opened", "reading"}) = FALSE /\ Ahead = FALSE
    BY <1>1 DEF Init, Ahead
  <2>2. Len(sent) = 0 BY <1>1 DEF Init
  <2> QED BY <1>1, <2>1, <2>2 DEF Watch!Init, Init, NothingBeforeTask
<1>2. Inv /\ NothingBeforeTask /\ [Next]_vars => NothingBeforeTask' /\ [Watch!Next]_(Watch!vars)
  BY NothingBeforeTaskStep, WatchStep
<1> QED BY <1>1, <1>2, InvCorrect, PTL DEF Spec
=============================================================================
