------------------------- MODULE NodeRestartProofs -------------------------
(***************************************************************************)
(* Proofs about NodeRestart for all sets of nodes and tests, every size of *)
(* the index and any number of starts.                                     *)
(***************************************************************************)
EXTENDS NodeRestart, TLAPS

-----------------------------------------------------------------------------
(* Type correctness                                                        *)

LEMMA PathFacts ==
  /\ \A m, n \in Node : Home(m) = Home(n) => m = n
  /\ \A m, n \in Node : Database(m) = Database(n) => m = n
  /\ \A m, n \in Node : Home(m) # Database(n)
  /\ \A t, u \in Test, k, l \in Index : Restarted(t, k) = Restarted(u, l) => t = u /\ k = l
  /\ \A n \in Node, t \in Test, k \in Index :
       Home(n) # Restarted(t, k) /\ Database(n) # Restarted(t, k)
<1>1. \A m \in Node : Home(m).home = m /\ DOMAIN Home(m) = {"home"}
  BY DEF Home
<1>2. \A m \in Node : Database(m).database = m /\ DOMAIN Database(m) = {"database"}
  BY DEF Database
<1>3. \A t \in Test, k \in Index :
        /\ Restarted(t, k).test = t /\ Restarted(t, k).index = k
        /\ DOMAIN Restarted(t, k) = {"test", "index"}
  BY DEF Restarted
<1> QED BY <1>1, <1>2, <1>3

LEMMA NewDirType ==
  ASSUME TypeOK, NEW n \in Node
  PROVE  NewDir(n) \in Path
  BY RestartAssumption DEF RestartAssumption, TypeOK, NewDir, Path

LEMMA IndexType ==
  ASSUME TypeOK
  PROVE  (INDEX + 1) % IndexSize \in Index
  BY RestartAssumption DEF RestartAssumption, TypeOK, Index

LEMMA OverlayType ==
  ASSUME NEW d \in [Path -> SUBSET Version], NEW from \in Path, NEW to \in Path
  PROVE  Overlay(d, from, to) \in [Path -> SUBSET Version]
  BY DEF Overlay

(* The directories a start copies are directories, before and after.       *)
LEMMA CopiesType ==
  ASSUME TypeOK, NEW n \in Node
  PROVE  /\ NewDir(n) \in Path /\ oldDir[n] \in Path
         /\ config[n] \in Config /\ config[n].store \in Path /\ config[n].dir \in Path
         /\ DirCopied(n) \in [Path -> SUBSET Version]
         /\ StorageCopied(n) \in [Path -> SUBSET Version]
<1>1. NewDir(n) \in Path BY NewDirType
<1>2. oldDir[n] \in Path /\ config[n] \in Config BY DEF TypeOK
<1>3. config[n].store \in Path /\ config[n].dir \in Path BY <1>2 DEF Config
<1>4. DirCopied(n) \in [Path -> SUBSET Version]
  BY <1>1, <1>2, OverlayType DEF TypeOK, DirCopied
<1>5. StorageCopied(n) \in [Path -> SUBSET Version]
  BY <1>1, <1>3, <1>4, OverlayType DEF StorageCopied
<1> QED BY <1>1, <1>2, <1>3, <1>4, <1>5

LEMMA CopyType ==
  ASSUME TypeOK, NEW n \in Node, NEW h \in {"network", "local"}, Copy(n, h)
  PROVE  TypeOK'
<1> DEFINE stored == DirCopied(n)[config[n].store] # {}
<1>1. /\ NewDir(n) \in Path /\ config[n] \in Config /\ config[n].store \in Path
      /\ DirCopied(n) \in [Path -> SUBSET Version]
      /\ StorageCopied(n) \in [Path -> SUBSET Version]
  BY CopiesType
<1>2. disk' \in [Path -> SUBSET Version] BY <1>1 DEF Copy
<1>3. [config[n] EXCEPT !.dir = NewDir(n), !.host = h,
                        !.store = IF stored THEN NewDir(n) ELSE config[n].store] \in Config
  BY <1>1 DEF Config
<1>4. config' \in [Node -> Config] BY <1>3 DEF Copy, TypeOK
<1>5. phase' \in [Node -> Phases] BY DEF Copy, TypeOK, Phases
<1> QED BY <1>2, <1>4, <1>5 DEF Copy, TypeOK

LEMMA TypeInduction ==
  ASSUME TypeOK, [Next]_vars
  PROVE  TypeOK'
<1>1. ASSUME NEW n \in Node, Write(n) PROVE TypeOK'
  <2>1. version[n] + 1 \in Version
    BY <1>1, RestartAssumption DEF Write, TypeOK, Version, RestartAssumption
  <2> QED BY <1>1, <2>1 DEF Write, TypeOK
<1>2. ASSUME NEW n \in Node, WaitUntilStopped(n) PROVE TypeOK'
  BY <1>2 DEF WaitUntilStopped, TypeOK, Phases
<1>3. ASSUME NEW n \in Node, SaveConfig(n) PROVE TypeOK'
  BY <1>3 DEF SaveConfig, TypeOK
<1>4. ASSUME NEW n \in Node, SetPolicy(n) PROVE TypeOK'
  <2>1. PICK p \in {"Docker", "Spawn"} : config' = [config EXCEPT ![n].policy = p]
    BY <1>4 DEF SetPolicy
  <2>2. [config[n] EXCEPT !.policy = p] \in Config BY DEF TypeOK, Config
  <2>3. config' \in [Node -> Config] BY <2>1, <2>2 DEF TypeOK
  <2> QED BY <1>4, <2>3 DEF SetPolicy, TypeOK
<1>5. ASSUME NEW n \in Node, FetchAdd(n) PROVE TypeOK'
  <2>1. config[n] \in Config /\ saved[n] \in Config BY DEF TypeOK
  <2>2. config' \in [Node -> Config] /\ oldDir' \in [Node -> Path]
    BY <1>5, <2>1 DEF FetchAdd, Begin, TypeOK, Config
  <2>3. INDEX' \in Index BY <1>5, IndexType DEF FetchAdd, Begin
  <2>4. starts' \in Nat /\ phase' \in [Node -> Phases]
    BY <1>5 DEF FetchAdd, Begin, TypeOK, Phases
  <2>5. UNCHANGED <<place, saved, disk, version>> BY <1>5 DEF FetchAdd, Begin
  <2>6. stale' \in BOOLEAN BY <1>5 DEF FetchAdd, Begin, TypeOK
  <2> QED BY <2>2, <2>3, <2>4, <2>5, <2>6 DEF TypeOK
<1>6. ASSUME NEW n \in Node, CopyDirectoryFails(n) \/ CopyStorageFails(n) PROVE TypeOK'
  <2>1. /\ NewDir(n) \in Path /\ config[n] \in Config
        /\ DirCopied(n) \in [Path -> SUBSET Version]
        /\ StorageCopied(n) \in [Path -> SUBSET Version]
    BY CopiesType
  <2>2. [config[n] EXCEPT !.dir = NewDir(n)] \in Config BY <2>1 DEF Config
  <2>3. CASE CopyDirectoryFails(n)
    BY <2>1, <2>3 DEF CopyDirectoryFails, TypeOK, Phases
  <2>4. CASE CopyStorageFails(n)
    BY <2>1, <2>2, <2>4 DEF CopyStorageFails, TypeOK, Phases
  <2> QED BY <1>6, <2>3, <2>4
<1>7. ASSUME NEW n \in Node, CopyAndConfigure(n) PROVE TypeOK'
  <2>1. config[n].host \in {"network", "local"} BY DEF TypeOK, Config
  <2> QED BY <1>7, <2>1, CopyType DEF CopyAndConfigure
<1>8. ASSUME NEW n \in Node, Spawn(n) PROVE TypeOK'
  BY <1>8 DEF Spawn, TypeOK, Phases
<1>9. ASSUME NEW n \in Node, SpawnFails(n) PROVE TypeOK'
  BY <1>9 DEF SpawnFails, TypeOK, Phases
<1>10. CASE UNCHANGED vars BY <1>10 DEF vars, TypeOK
<1> QED
  BY <1>1, <1>2, <1>3, <1>4, <1>5, <1>6, <1>7, <1>8, <1>9, <1>10 DEF Next

LEMMA TypeInit ==
  ASSUME Init
  PROVE  TypeOK
<1> USE RestartAssumption DEF RestartAssumption
<1>1. 0 \in Index /\ 1 \in Version BY DEF Index, Version
<1>2. \A n \in Node : Generated(n) \in Config /\ Home(n) \in Path
  BY DEF Generated, Config, Path
<1>3. disk \in [Path -> SUBSET Version] BY <1>1 DEF Init
<1> QED BY <1>1, <1>2, <1>3 DEF Init, TypeOK, Phases

(* Every state of every process has the declared types: the AtomicU8 wraps *)
(* and never leaves its range.                                             *)
THEOREM TypeCorrect == Spec => []TypeOK
<1>1. Init => TypeOK BY TypeInit
<1>2. TypeOK /\ [Next]_vars => TypeOK' BY TypeInduction
<1> QED BY <1>1, <1>2, PTL DEF Spec

-----------------------------------------------------------------------------
(* The inductive invariant                                                 *)

(* The starts that read an index: fetch_add returns 0 last.                *)
Ord(k) == IF k = 0 THEN IndexSize ELSE k

Starting(t) == \E m \in Node : TestOf[m] = t /\ phase[m] = "added"

(* The directories a start of n may read or replace.                       *)
Mine(n) == {config[n].store, config[n].dir, oldDir[n], saved[n].store, saved[n].dir}

Taken(p) == disk[p] # {} \/ \E n \in Node : p \in Mine(n)

(* No two nodes of one test are being started.                             *)
AloneInv ==
  \A m, n \in Node :
    phase[m] = "added" =>
      /\ starts > 0
      /\ phase[n] = "added" /\ TestOf[m] = TestOf[n] => m = n

(* Until the counter wraps for the first time it tells the starts.         *)
IndexInv ==
  EveryIndexIsNew =>
    /\ starts = 0 => INDEX = 0
    /\ starts > 0 => Ord(INDEX) = starts

(* A directory that holds or may hold something is of an index that was    *)
(* given out, and not of the one a test is about to use.                   *)
FreshInv ==
  EveryIndexIsNew =>
    \A t \in Test, k \in Index : Taken(Restarted(t, k)) =>
      /\ Ord(k) <= starts
      /\ Starting(t) => Ord(k) < starts

OwnInv == EveryIndexIsNew => \A m, n \in Node : m # n => Mine(m) \cap Mine(n) = {}

(* The storage is what the node wrote; the directories a start may copy    *)
(* along with it add no other version to it.                               *)
StateOf(n) ==
  /\ disk[config[n].store] = {version[n]}
  /\ disk[config[n].dir] \subseteq {version[n]}
  /\ saved[n].store = config[n].store => disk[saved[n].dir] \subseteq {version[n]}
  /\ phase[n] = "added" => disk[oldDir[n]] \subseteq {version[n]}
  /\ phase[n] \in {"up", "spawning"} =>
       /\ config[n].dir = config[n].store \/ disk[config[n].dir] = {}
       /\ saved[n].store = config[n].store =>
            saved[n].dir = saved[n].store \/ disk[saved[n].dir] = {}

StateInv == EveryConfigIsCurrent => \A n \in Node : StateOf(n)

(* A child has local URLs, and so has what the test may replace them by.   *)
UrlInv ==
  EveryConfigIsCurrent =>
    \A n \in Node :
      /\ place[n] = "child" =>
           /\ config[n].host = "local"
           /\ saved[n].store = config[n].store => saved[n].host = "local"
      /\ phase[n] = "spawning" =>
           /\ RestartInDocker(n) \/ config[n].host = "local"
           /\ config[n].store # saved[n].store

DirsInv == AloneInv /\ IndexInv /\ FreshInv /\ OwnInv

-----------------------------------------------------------------------------
(* The indices and the directories                                         *)

(* The three steps of a start that copy files.                             *)
Copies(n) == CopyDirectoryFails(n) \/ CopyStorageFails(n) \/ CopyAndConfigure(n)

LEMMA NextIndex ==
  ASSUME NEW k \in Index
  PROVE  (k + 1) % IndexSize = IF k + 1 = IndexSize THEN 0 ELSE k + 1
  BY RestartAssumption DEF RestartAssumption, Index

(* The directory a start is about to use is nobody's, and empty.           *)
LEMMA NewDirFree ==
  ASSUME TypeOK, DirsInv, EveryIndexIsNew, NEW n \in Node, phase[n] = "added"
  PROVE  ~Taken(NewDir(n))
<1>1. TestOf[n] \in Test /\ INDEX \in Index
  BY RestartAssumption DEF RestartAssumption, TypeOK
<1>2. starts > 0 /\ Ord(INDEX) = starts BY DEF DirsInv, AloneInv, IndexInv
<1>3. Starting(TestOf[n]) BY DEF Starting
<1>4. Ord(INDEX) \in Nat /\ starts \in Nat
  BY RestartAssumption DEF RestartAssumption, Ord, Index, TypeOK
<1> QED BY <1>1, <1>2, <1>3, <1>4 DEF DirsInv, FreshInv, NewDir

(* What is copied to an empty directory replaces nothing.                  *)
LEMMA CopyKeeps ==
  ASSUME NEW d \in [Path -> SUBSET Version], NEW from \in Path, NEW to \in Path
  PROVE  /\ Overlay(d, from, to) \in [Path -> SUBSET Version]
         /\ \A p \in Path : p # to => Overlay(d, from, to)[p] = d[p]
         /\ from # to => Overlay(d, from, to)[to] = d[to] \cup d[from]
  BY DEF Overlay

(* A copy changes the new directory and the paths of its own node.         *)
LEMMA CopyFrame ==
  ASSUME TypeOK, NEW n \in Node, Copies(n)
  PROVE  /\ phase[n] = "added"
         /\ UNCHANGED <<INDEX, starts, stale, place, oldDir, saved, version>>
         /\ \A p \in Path : p # NewDir(n) => disk'[p] = disk[p]
         /\ \A m \in Node : m # n => config'[m] = config[m] /\ phase'[m] = phase[m]
         /\ phase'[n] # "added"
         /\ config'[n].store \in {config[n].store, NewDir(n)}
         /\ config'[n].dir \in {config[n].dir, NewDir(n)}
<1>1. /\ NewDir(n) \in Path /\ oldDir[n] \in Path
      /\ config[n] \in Config /\ config[n].store \in Path
      /\ DirCopied(n) \in [Path -> SUBSET Version]
  BY CopiesType
<1>2. \A p \in Path : p # NewDir(n) => DirCopied(n)[p] = disk[p]
  <2>1. disk \in [Path -> SUBSET Version] BY DEF TypeOK
  <2>2. \A p \in Path : p # NewDir(n) => Overlay(disk, oldDir[n], NewDir(n))[p] = disk[p]
    BY <1>1, <2>1, CopyKeeps
  <2> QED BY <2>2 DEF DirCopied
<1>3. \A p \in Path : p # NewDir(n) => StorageCopied(n)[p] = disk[p]
  BY <1>1, <1>2, CopyKeeps DEF StorageCopied
<1>4. /\ phase[n] = "added"
      /\ UNCHANGED <<INDEX, starts, stale, place, oldDir, saved, version>>
      /\ disk' \in {disk, DirCopied(n), StorageCopied(n)}
  BY DEF Copies, CopyDirectoryFails, CopyStorageFails, CopyAndConfigure, Copy
<1>5. \A p \in Path : p # NewDir(n) => disk'[p] = disk[p] BY <1>2, <1>3, <1>4
<1>6. /\ \A m \in Node : m # n => config'[m] = config[m] /\ phase'[m] = phase[m]
      /\ phase'[n] # "added"
      /\ config'[n].store \in {config[n].store, NewDir(n)}
      /\ config'[n].dir \in {config[n].dir, NewDir(n)}
  <2>1. CASE CopyDirectoryFails(n) BY <2>1 DEF CopyDirectoryFails, TypeOK
  <2>2. CASE CopyStorageFails(n) BY <1>1, <2>2 DEF CopyStorageFails, TypeOK, Config
  <2>3. ASSUME NEW h, Copy(n, h)
        PROVE  /\ \A m \in Node : m # n => config'[m] = config[m] /\ phase'[m] = phase[m]
               /\ phase'[n] # "added"
               /\ config'[n].store \in {config[n].store, NewDir(n)}
               /\ config'[n].dir \in {config[n].dir, NewDir(n)}
    BY <1>1, <2>3 DEF Copy, TypeOK, Config
  <2> QED BY <2>1, <2>2, <2>3 DEF Copies, CopyAndConfigure
<1> QED BY <1>4, <1>5, <1>6

(* A step that starts nothing and makes nothing a node's own.              *)
LEMMA DirsKept ==
  ASSUME TypeOK, DirsInv, UNCHANGED <<INDEX, starts>>,
         \A m \in Node : (phase'[m] = "added") <=> (phase[m] = "added"),
         \A m \in Node : Mine(m)' \subseteq Mine(m),
         \A p \in Path : disk'[p] # {} => disk[p] # {}
  PROVE  DirsInv'
<1>1. AloneInv' BY DEF DirsInv, AloneInv
<1>2. IndexInv' BY DEF DirsInv, IndexInv, EveryIndexIsNew, Ord
<1>3. FreshInv'
  <2>1. \A t \in Test : Starting(t)' => Starting(t) BY DEF Starting
  <2>2. \A t \in Test, k \in Index : Restarted(t, k) \in Path BY DEF Path
  <2>3. \A p \in Path : Taken(p)' => Taken(p) BY DEF Taken
  <2> QED BY <2>1, <2>2, <2>3 DEF DirsInv, FreshInv, EveryIndexIsNew, Ord
<1>4. OwnInv'
  BY DEF DirsInv, OwnInv, EveryIndexIsNew
<1> QED BY <1>1, <1>2, <1>3, <1>4 DEF DirsInv

LEMMA DirsFetchAdd ==
  ASSUME TypeOK, DirsInv, NEW n \in Node, FetchAdd(n)
  PROVE  DirsInv'
<1>1. /\ starts \in Nat /\ starts' = starts + 1
      /\ INDEX \in Index /\ INDEX' = (INDEX + 1) % IndexSize
      /\ UNCHANGED <<saved, disk>>
  BY DEF FetchAdd, Begin, TypeOK
<1>2. EveryIndexIsNew' => EveryIndexIsNew /\ starts < IndexSize
  BY <1>1, RestartAssumption DEF EveryIndexIsNew, RestartAssumption
<1>3. AloneInv' BY <1>1 DEF DirsInv, AloneInv, FetchAdd, Begin, TypeOK
<1>4. IndexInv'
  <2>1. INDEX' = IF INDEX + 1 = IndexSize THEN 0 ELSE INDEX + 1 BY <1>1, NextIndex
  <2>2. EveryIndexIsNew' => INDEX = starts
    BY <1>1, <1>2, RestartAssumption
       DEF DirsInv, IndexInv, Ord, Index, RestartAssumption
  <2> QED
    BY <1>1, <2>1, <2>2, RestartAssumption
       DEF IndexInv, Ord, RestartAssumption, Index
<1>5. \A m \in Node : Mine(m)' \subseteq Mine(m)
  <2>1. \A m \in Node : /\ config'[m] \in {config[m], saved[m]}
                        /\ oldDir'[m] \in {oldDir[m], config[m].dir}
    BY DEF FetchAdd, Begin, TypeOK
  <2> QED BY <1>1, <2>1 DEF Mine
<1>6. FreshInv'
  <2>1. \A p : Taken(p)' => Taken(p) BY <1>1, <1>5 DEF Taken
  <2>2. \A k \in Index : Ord(k) \in Nat
    BY RestartAssumption DEF RestartAssumption, Ord, Index
  <2> QED BY <1>1, <1>2, <2>1, <2>2 DEF DirsInv, FreshInv, Ord
<1>7. OwnInv' BY <1>2, <1>5 DEF DirsInv, OwnInv
<1> QED BY <1>3, <1>4, <1>6, <1>7 DEF DirsInv

LEMMA DirsCopies ==
  ASSUME TypeOK, DirsInv, NEW n \in Node, Copies(n)
  PROVE  DirsInv'
<1>1. /\ phase[n] = "added"
      /\ UNCHANGED <<INDEX, starts, stale, place, oldDir, saved, version>>
      /\ \A p \in Path : p # NewDir(n) => disk'[p] = disk[p]
      /\ \A m \in Node : m # n => config'[m] = config[m] /\ phase'[m] = phase[m]
      /\ phase'[n] # "added"
      /\ config'[n].store \in {config[n].store, NewDir(n)}
      /\ config'[n].dir \in {config[n].dir, NewDir(n)}
  BY CopyFrame
<1>2. EveryIndexIsNew => ~Taken(NewDir(n)) BY <1>1, NewDirFree
<1>3. EveryIndexIsNew' <=> EveryIndexIsNew BY <1>1 DEF EveryIndexIsNew
<1>4. \A m \in Node : Mine(m)' \subseteq IF m = n THEN Mine(m) \cup {NewDir(n)} ELSE Mine(m)
  BY <1>1 DEF Mine
<1>5. AloneInv' BY <1>1 DEF DirsInv, AloneInv
<1>6. IndexInv' BY <1>1, <1>3 DEF DirsInv, IndexInv, Ord
<1>7. FreshInv'
  <2> SUFFICES ASSUME EveryIndexIsNew, NEW t \in Test, NEW k \in Index,
                      Taken(Restarted(t, k))'
               PROVE  /\ Ord(k) <= starts
                      /\ Starting(t)' => Ord(k) < starts
    BY <1>1, <1>3 DEF FreshInv, Ord
  <2>1. CASE Restarted(t, k) = NewDir(n)
    <3>1. TestOf[n] \in Test /\ INDEX \in Index
      BY RestartAssumption DEF RestartAssumption, TypeOK
    <3>2. t = TestOf[n] /\ k = INDEX BY <2>1, <3>1, PathFacts DEF NewDir
    <3>3. starts > 0 /\ Ord(INDEX) = starts
      BY <1>1 DEF DirsInv, AloneInv, IndexInv
    <3>4. ~Starting(t)' BY <1>1, <3>2 DEF Starting, DirsInv, AloneInv
    <3> QED BY <3>2, <3>3, <3>4 DEF TypeOK
  <2>2. CASE Restarted(t, k) # NewDir(n)
    <3>1. Restarted(t, k) \in Path BY DEF Path
    <3>2. Taken(Restarted(t, k)) BY <1>1, <1>4, <2>2, <3>1 DEF Taken
    <3>3. Starting(t)' => Starting(t) BY <1>1 DEF Starting
    <3> QED BY <3>2, <3>3 DEF DirsInv, FreshInv
  <2> QED BY <2>1, <2>2
<1>8. OwnInv'
  <2> SUFFICES ASSUME EveryIndexIsNew PROVE OwnInv' BY <1>3 DEF OwnInv
  <2>1. \A m \in Node : NewDir(n) \notin Mine(m) BY <1>2 DEF Taken
  <2> QED BY <1>4, <2>1 DEF DirsInv, OwnInv
<1> QED BY <1>5, <1>6, <1>7, <1>8 DEF DirsInv

LEMMA DirsInduction ==
  ASSUME TypeOK, DirsInv, [Next]_vars
  PROVE  DirsInv'
<1>1. ASSUME NEW n \in Node, Write(n) PROVE DirsInv'
  <2>1. config[n].store \in Path BY DEF TypeOK, Config
  <2>2. \A p \in Path : disk'[p] # {} => disk[p] # {} BY <1>1, <2>1 DEF Write, TypeOK
  <2> QED BY <1>1, <2>2, DirsKept DEF Write, Mine
<1>2. ASSUME NEW n \in Node, WaitUntilStopped(n) \/ Spawn(n) \/ SpawnFails(n) PROVE DirsInv'
  <2>1. \A m \in Node : (phase'[m] = "added") <=> (phase[m] = "added")
    BY <1>2 DEF WaitUntilStopped, Spawn, SpawnFails, TypeOK
  <2>2. UNCHANGED <<INDEX, starts, config, oldDir, saved, disk>>
    BY <1>2 DEF WaitUntilStopped, Spawn, SpawnFails
  <2> QED BY <2>1, <2>2, DirsKept DEF Mine
<1>3. ASSUME NEW n \in Node, SaveConfig(n) PROVE DirsInv'
  <2>1. \A m \in Node : Mine(m)' \subseteq Mine(m)
    BY <1>3 DEF SaveConfig, Mine, TypeOK
  <2> QED BY <1>3, <2>1, DirsKept DEF SaveConfig
<1>4. ASSUME NEW n \in Node, SetPolicy(n) PROVE DirsInv'
  <2>1. config[n] \in Config BY DEF TypeOK
  <2>2. \A m \in Node : config'[m].store = config[m].store /\ config'[m].dir = config[m].dir
    BY <1>4, <2>1 DEF SetPolicy, TypeOK, Config
  <2>3. UNCHANGED <<INDEX, starts, phase, oldDir, saved, disk>> BY <1>4 DEF SetPolicy
  <2> QED BY <2>2, <2>3, DirsKept DEF Mine
<1>5. ASSUME NEW n \in Node, FetchAdd(n) PROVE DirsInv' BY <1>5, DirsFetchAdd
<1>6. ASSUME NEW n \in Node, Copies(n) PROVE DirsInv' BY <1>6, DirsCopies
<1>7. CASE UNCHANGED vars BY <1>7, DirsKept DEF vars, Mine
<1> QED BY <1>1, <1>2, <1>3, <1>4, <1>5, <1>6, <1>7 DEF Next, Copies

LEMMA DirsInit ==
  ASSUME Init
  PROVE  DirsInv
<1>1. \A n \in Node : Mine(n) = {Database(n), Home(n)}
  BY DEF Init, Generated, Mine
<1>2. \A t \in Test, k \in Index : ~Taken(Restarted(t, k))
  <2>1. \A t \in Test, k \in Index : Restarted(t, k) \in Path BY DEF Path
  <2> QED BY <1>1, <2>1, PathFacts DEF Init, Taken
<1>3. AloneInv /\ IndexInv BY DEF Init, AloneInv, IndexInv
<1>4. FreshInv BY <1>2 DEF FreshInv
<1>5. OwnInv BY <1>1, PathFacts DEF OwnInv
<1> QED BY <1>3, <1>4, <1>5 DEF DirsInv

LEMMA DirsAlways == Spec => [](TypeOK /\ DirsInv)
<1>1. Init => TypeOK /\ DirsInv BY TypeInit, DirsInit
<1>2. TypeOK /\ DirsInv /\ [Next]_vars => (TypeOK /\ DirsInv)'
  BY TypeInduction, DirsInduction
<1> QED BY <1>1, <1>2, PTL DEF Spec

(* Before the counter wraps no two nodes of a process share a storage      *)
(* directory, whatever configs the tests pass to start.                    *)
THEOREM OwnStorageCorrect == Spec => []OwnStorage
<1>1. DirsInv => OwnStorage BY DEF DirsInv, OwnInv, OwnStorage, Mine
<1> QED BY <1>1, DirsAlways, PTL

(* Before the counter wraps a start overwrites no directory that holds     *)
(* anything, whatever configs the tests pass to it.                        *)
THEOREM PreviousDatadirsKept == Spec => KeepsPreviousDatadirs
<1> DEFINE Keeps == EveryIndexIsNew => DatadirsKept
<1>1. ASSUME TypeOK, DirsInv, Next PROVE Keeps
  <2>1. ASSUME NEW n \in Node, Write(n) PROVE Keeps
    BY <1>1, <2>1 DEF Write, TypeOK, DatadirsKept
  <2>2. ASSUME NEW n \in Node, Copies(n) PROVE Keeps
    <3>1. /\ phase[n] = "added"
          /\ \A p \in Path : p # NewDir(n) => disk'[p] = disk[p]
      BY <1>1, <2>2, CopyFrame
    <3>2. EveryIndexIsNew => disk[NewDir(n)] = {}
      BY <1>1, <3>1, NewDirFree DEF Taken
    <3> QED BY <3>1, <3>2 DEF DatadirsKept
  <2>3. ASSUME NEW n \in Node,
               \/ WaitUntilStopped(n) \/ SaveConfig(n) \/ SetPolicy(n)
               \/ FetchAdd(n) \/ Spawn(n) \/ SpawnFails(n)
        PROVE  Keeps
    BY <2>3 DEF WaitUntilStopped, SaveConfig, SetPolicy, FetchAdd, Begin, Spawn, SpawnFails,
       DatadirsKept
  <2> QED BY <1>1, <2>1, <2>2, <2>3 DEF Next, Copies
<1>2. TypeOK /\ DirsInv /\ [Next]_vars => [Keeps]_vars BY <1>1
<1> QED BY <1>2, DirsAlways, PTL DEF Spec, KeepsPreviousDatadirs

-----------------------------------------------------------------------------
(* The contents of the directories                                         *)

(* What a copy leaves in the new directory: the files of the old one, the  *)
(* storage, which is all of one version, or nothing.                       *)
LEMMA CopyResult ==
  ASSUME TypeOK, DirsInv, StateInv, EveryConfigIsCurrent, NEW n \in Node, Copies(n)
  PROVE  /\ CopyDirectoryFails(n) \/ CopyStorageFails(n) =>
              /\ disk'[NewDir(n)] \subseteq {version[n]}
              /\ config'[n].store = config[n].store
              /\ phase'[n] = "down"
         /\ CopyAndConfigure(n) =>
              /\ disk'[NewDir(n)] = {version[n]}
              /\ config'[n].store = NewDir(n) /\ config'[n].dir = NewDir(n)
              /\ phase'[n] = "spawning"
<1> DEFINE to == NewDir(n)
<1>1. /\ to \in Path /\ oldDir[n] \in Path
      /\ config[n] \in Config /\ config[n].store \in Path
      /\ DirCopied(n) \in [Path -> SUBSET Version]
      /\ disk \in [Path -> SUBSET Version]
  BY CopiesType DEF TypeOK
<1>2. phase[n] = "added" /\ EveryIndexIsNew BY CopyFrame DEF EveryConfigIsCurrent
<1>3. disk[to] = {} /\ to # oldDir[n] /\ to # config[n].store
  BY <1>2, NewDirFree DEF Taken, Mine
<1>4. disk[config[n].store] = {version[n]} /\ disk[oldDir[n]] \subseteq {version[n]}
  BY <1>2 DEF StateInv, StateOf
<1>5. /\ DirCopied(n)[to] = disk[to] \cup disk[oldDir[n]]
      /\ DirCopied(n)[config[n].store] = disk[config[n].store]
  <2> HIDE DEF to
  <2>1. /\ \A p \in Path : p # to => Overlay(disk, oldDir[n], to)[p] = disk[p]
        /\ oldDir[n] # to => Overlay(disk, oldDir[n], to)[to] = disk[to] \cup disk[oldDir[n]]
    BY <1>1, CopyKeeps
  <2>2. /\ Overlay(disk, oldDir[n], to)[to] = disk[to] \cup disk[oldDir[n]]
        /\ Overlay(disk, oldDir[n], to)[config[n].store] = disk[config[n].store]
    BY <1>1, <1>3, <2>1
  <2> QED BY <2>2 DEF DirCopied, to
<1>6. /\ DirCopied(n)[to] \subseteq {version[n]}
      /\ DirCopied(n)[config[n].store] = {version[n]}
  BY <1>3, <1>4, <1>5
<1>7. StorageCopied(n)[to] = {version[n]}
  <2>1. StorageCopied(n)[to] = DirCopied(n)[to] \cup DirCopied(n)[config[n].store]
    BY <1>1, <1>3, CopyKeeps DEF StorageCopied
  <2> QED BY <1>6, <2>1
<1> HIDE DEF to
<1>8. CASE CopyDirectoryFails(n)
  <2>1. disk' = disk \/ disk' = DirCopied(n) BY <1>8 DEF CopyDirectoryFails
  <2>2. config' = config /\ phase'[n] = "down" BY <1>8 DEF CopyDirectoryFails, TypeOK
  <2>3. ~CopyAndConfigure(n) BY <2>2 DEF CopyAndConfigure, Copy, TypeOK
  <2> QED BY <1>3, <1>6, <2>1, <2>2, <2>3 DEF to
<1>9. CASE CopyStorageFails(n)
  <2>1. disk' = DirCopied(n) \/ disk' = StorageCopied(n) BY <1>9 DEF CopyStorageFails
  <2>2. config'[n].store = config[n].store /\ phase'[n] = "down"
    BY <1>1, <1>9 DEF CopyStorageFails, TypeOK, Config
  <2>3. ~CopyAndConfigure(n) BY <2>2 DEF CopyAndConfigure, Copy, TypeOK
  <2> QED BY <1>6, <1>7, <2>1, <2>2, <2>3 DEF to
<1>10. CASE CopyAndConfigure(n)
  <2>1. PICK h : Copy(n, h) BY <1>10 DEF CopyAndConfigure
  <2>2. disk' = StorageCopied(n) BY <1>6, <2>1 DEF Copy
  <2>3. config'[n].store = to /\ config'[n].dir = to
    BY <1>1, <1>6, <2>1 DEF Copy, to, TypeOK, Config
  <2>4. phase'[n] = "spawning" BY <2>1 DEF Copy, TypeOK
  <2> QED BY <1>7, <2>2, <2>3, <2>4 DEF CopyDirectoryFails, CopyStorageFails, TypeOK, to
<1> QED BY <1>8, <1>9, <1>10 DEF Copies

LEMMA StateCopies ==
  ASSUME TypeOK, DirsInv, StateInv, NEW n \in Node, Copies(n)
  PROVE  StateInv'
<1> SUFFICES ASSUME EveryConfigIsCurrent PROVE StateInv'
  BY CopyFrame DEF StateInv, StateOf, EveryConfigIsCurrent, EveryIndexIsNew
<1>1. /\ phase[n] = "added" /\ UNCHANGED <<oldDir, saved, version>>
      /\ \A p \in Path : p # NewDir(n) => disk'[p] = disk[p]
      /\ \A m \in Node : m # n => config'[m] = config[m] /\ phase'[m] = phase[m]
      /\ phase'[n] # "added"
      /\ config'[n].store \in {config[n].store, NewDir(n)}
      /\ config'[n].dir \in {config[n].dir, NewDir(n)}
  BY CopyFrame
<1>2. ~Taken(NewDir(n)) BY <1>1, NewDirFree DEF EveryConfigIsCurrent
<1>3. \A m \in Node : /\ config[m].store \in Path \ {NewDir(n)}
                      /\ config[m].dir \in Path \ {NewDir(n)}
                      /\ oldDir[m] \in Path \ {NewDir(n)}
                      /\ saved[m].store \in Path \ {NewDir(n)}
                      /\ saved[m].dir \in Path \ {NewDir(n)}
  BY <1>2 DEF Taken, Mine, TypeOK, Config
<1>4. \A m \in Node : /\ disk'[config[m].store] = disk[config[m].store]
                      /\ disk'[config[m].dir] = disk[config[m].dir]
                      /\ disk'[oldDir[m]] = disk[oldDir[m]]
                      /\ disk'[saved[m].dir] = disk[saved[m].dir]
  BY <1>1, <1>3
<1>5. ASSUME NEW m \in Node, m # n PROVE StateOf(m)'
  <2>1. StateOf(m) BY DEF StateInv
  <2>2. /\ config'[m] = config[m] /\ phase'[m] = phase[m] /\ oldDir' = oldDir
        /\ saved' = saved /\ version' = version
    BY <1>1, <1>5
  <2>3. /\ disk'[config'[m].store] = disk[config[m].store]
        /\ disk'[config'[m].dir] = disk[config[m].dir]
        /\ disk'[oldDir'[m]] = disk[oldDir[m]]
        /\ disk'[saved'[m].dir] = disk[saved[m].dir]
    BY <1>4, <2>2
  <2> QED BY <2>1, <2>2, <2>3 DEF StateOf
<1>6. CASE CopyDirectoryFails(n) \/ CopyStorageFails(n)
  <2>1. /\ disk'[NewDir(n)] \subseteq {version[n]}
        /\ config'[n].store = config[n].store
        /\ phase'[n] = "down"
    BY <1>6, CopyResult
  <2>2. StateOf(n)'
    <3>1. config'[n].dir = config[n].dir \/ config'[n].dir = NewDir(n) BY <1>1
    <3>2. disk'[config'[n].dir] \subseteq {version[n]}
      BY <1>4, <2>1, <3>1 DEF StateInv, StateOf
    <3>3. disk'[config'[n].store] = {version[n]} BY <1>4, <2>1 DEF StateInv, StateOf
    <3>4. saved[n].store = config[n].store => disk'[saved[n].dir] \subseteq {version[n]}
      BY <1>4 DEF StateInv, StateOf
    <3> QED BY <1>1, <2>1, <3>2, <3>3, <3>4 DEF StateOf
  <2> QED BY <1>5, <2>2 DEF StateInv
<1>7. CASE CopyAndConfigure(n)
  <2>1. /\ disk'[NewDir(n)] = {version[n]}
        /\ config'[n].store = NewDir(n) /\ config'[n].dir = NewDir(n)
    BY <1>7, CopyResult
  <2>2. saved[n].store # config'[n].store BY <1>3, <2>1
  <2>3. StateOf(n)' BY <1>1, <2>1, <2>2 DEF StateOf
  <2> QED BY <1>5, <2>3 DEF StateInv
<1> QED BY <1>6, <1>7 DEF Copies

LEMMA StateInduction ==
  ASSUME TypeOK, DirsInv, StateInv, [Next]_vars
  PROVE  StateInv'
<1>1. ASSUME NEW n \in Node, Write(n) PROVE StateInv'
  <2> SUFFICES ASSUME EveryConfigIsCurrent PROVE StateInv'
    BY <1>1 DEF StateInv, StateOf, Write, EveryConfigIsCurrent, EveryIndexIsNew
  <2>1. \A m \in Node : /\ config[m].store \in Path /\ config[m].dir \in Path
                        /\ oldDir[m] \in Path /\ saved[m].dir \in Path
    BY DEF TypeOK, Config
  <2>2. \A m \in Node \ {n} : config[n].store \notin Mine(m)
    BY DEF DirsInv, OwnInv, Mine, EveryConfigIsCurrent
  <2>3. /\ disk' = [disk EXCEPT ![config[n].store] = {version[n] + 1}]
        /\ version' = [version EXCEPT ![n] = version[n] + 1]
        /\ phase[n] = "up"
        /\ UNCHANGED <<phase, config, oldDir, saved>>
    BY <1>1 DEF Write
  <2>4. ASSUME NEW m \in Node, m # n
        PROVE  /\ disk'[config[m].store] = disk[config[m].store]
               /\ disk'[config[m].dir] = disk[config[m].dir]
               /\ disk'[oldDir[m]] = disk[oldDir[m]]
               /\ disk'[saved[m].dir] = disk[saved[m].dir]
               /\ version'[m] = version[m]
    BY <2>1, <2>2, <2>3, <2>4 DEF TypeOK, Mine
  <2>5. /\ disk'[config[n].store] = {version[n] + 1}
        /\ version'[n] = version[n] + 1
        /\ config[n].dir # config[n].store => disk'[config[n].dir] = disk[config[n].dir]
        /\ saved[n].dir # config[n].store => disk'[saved[n].dir] = disk[saved[n].dir]
    BY <2>1, <2>3 DEF TypeOK
  <2>6. /\ config[n].dir = config[n].store \/ disk[config[n].dir] = {}
        /\ saved[n].store = config[n].store =>
             saved[n].dir = saved[n].store \/ disk[saved[n].dir] = {}
    BY <2>3 DEF StateInv, StateOf
  <2>7. /\ config[n].dir = config[n].store \/ disk'[config[n].dir] = {}
        /\ saved[n].store = config[n].store =>
             saved[n].dir = saved[n].store \/ disk'[saved[n].dir] = {}
    BY <2>5, <2>6
  <2>8. /\ disk'[config[n].dir] \subseteq {version'[n]}
        /\ saved[n].store = config[n].store => disk'[saved[n].dir] \subseteq {version'[n]}
    BY <2>5, <2>7
  <2>9. ASSUME NEW m \in Node
        PROVE  /\ disk'[config[m].store] = {version'[m]}
               /\ disk'[config[m].dir] \subseteq {version'[m]}
               /\ saved[m].store = config[m].store =>
                    disk'[saved[m].dir] \subseteq {version'[m]}
               /\ phase[m] = "added" => disk'[oldDir[m]] \subseteq {version'[m]}
               /\ phase[m] \in {"up", "spawning"} =>
                    /\ config[m].dir = config[m].store \/ disk'[config[m].dir] = {}
                    /\ saved[m].store = config[m].store =>
                         saved[m].dir = saved[m].store \/ disk'[saved[m].dir] = {}
    <3>1. CASE m = n BY <2>3, <2>5, <2>7, <2>8, <3>1
    <3>2. CASE m # n BY <2>4, <3>2 DEF StateInv, StateOf
    <3> QED BY <3>1, <3>2
  <2> QED BY <2>3, <2>9 DEF StateInv, StateOf
<1>2. ASSUME NEW n \in Node, WaitUntilStopped(n) \/ Spawn(n) \/ SpawnFails(n)
      PROVE  StateInv'
  <2>1. \A m \in Node :
          /\ phase'[m] \in {"up", "spawning"} => phase[m] \in {"up", "spawning"}
          /\ phase'[m] = "added" => phase[m] = "added"
    BY <1>2 DEF WaitUntilStopped, Spawn, SpawnFails, TypeOK
  <2>2. UNCHANGED <<starts, stale, config, oldDir, saved, disk, version>>
    BY <1>2 DEF WaitUntilStopped, Spawn, SpawnFails
  <2> QED BY <2>1, <2>2 DEF StateInv, StateOf, EveryConfigIsCurrent, EveryIndexIsNew
<1>3. ASSUME NEW n \in Node, SaveConfig(n) PROVE StateInv'
  <2>1. saved' = [saved EXCEPT ![n] = config[n]] /\ phase[n] = "down"
    BY <1>3 DEF SaveConfig
  <2>2. saved'[n] = config[n] /\ \A m \in Node : m # n => saved'[m] = saved[m]
    BY <2>1 DEF TypeOK
  <2>3. UNCHANGED <<starts, stale, phase, config, oldDir, disk, version>>
    BY <1>3 DEF SaveConfig
  <2> QED BY <2>1, <2>2, <2>3 DEF StateInv, StateOf, EveryConfigIsCurrent, EveryIndexIsNew
<1>4. ASSUME NEW n \in Node, SetPolicy(n) PROVE StateInv'
  <2>1. config[n] \in Config BY DEF TypeOK
  <2>2. \A m \in Node : config'[m].store = config[m].store /\ config'[m].dir = config[m].dir
    BY <1>4, <2>1 DEF SetPolicy, TypeOK, Config
  <2>3. UNCHANGED <<starts, stale, phase, oldDir, saved, disk, version>> BY <1>4 DEF SetPolicy
  <2> QED BY <2>2, <2>3 DEF StateInv, StateOf, EveryConfigIsCurrent, EveryIndexIsNew
<1>5. ASSUME NEW n \in Node, FetchAdd(n) PROVE StateInv'
  <2>1. starts' = starts + 1 /\ starts \in Nat BY <1>5 DEF FetchAdd, Begin, TypeOK
  <2>2. EveryConfigIsCurrent' => EveryConfigIsCurrent /\ ~stale'
    <3>1. ~stale' => ~stale BY <1>5 DEF FetchAdd, Begin
    <3>2. EveryIndexIsNew' => EveryIndexIsNew
      BY <2>1, RestartAssumption DEF EveryIndexIsNew, RestartAssumption
    <3> QED BY <3>1, <3>2 DEF EveryConfigIsCurrent
  <2>3. /\ \A m \in Node : m # n => /\ config'[m] = config[m] /\ phase'[m] = phase[m]
                                    /\ oldDir'[m] = oldDir[m]
        /\ phase'[n] = "added" /\ oldDir'[n] = config[n].dir
        /\ UNCHANGED <<saved, disk, version>>
    BY <1>5 DEF FetchAdd, Begin, TypeOK
  <2>4. \/ config'[n] = config[n]
        \/ (~stale' => saved[n].store = config[n].store) /\ config'[n] = saved[n]
    BY <1>5 DEF FetchAdd, Begin, TypeOK
  <2>5. ASSUME EveryConfigIsCurrent', NEW m \in Node PROVE StateOf(m)'
    <3>1. StateOf(m) BY <2>2, <2>5 DEF StateInv
    <3>2. CASE m # n BY <2>3, <3>1, <3>2 DEF StateOf
    <3>3. CASE m = n BY <2>2, <2>3, <2>4, <2>5, <3>1, <3>3 DEF StateOf
    <3> QED BY <3>2, <3>3
  <2> QED BY <2>5 DEF StateInv
<1>6. ASSUME NEW n \in Node, Copies(n) PROVE StateInv' BY <1>6, StateCopies
<1>7. CASE UNCHANGED vars BY <1>7 DEF vars, StateInv, StateOf, EveryConfigIsCurrent, EveryIndexIsNew
<1> QED BY <1>1, <1>2, <1>3, <1>4, <1>5, <1>6, <1>7 DEF Next, Copies

LEMMA StateInit ==
  ASSUME Init
  PROVE  StateInv
<1>1. \A n \in Node : Home(n) \in Path /\ Database(n) \in Path BY DEF Path
<1>2. \A n \in Node : disk[Home(n)] = {} /\ disk[Database(n)] = {1}
  BY <1>1, PathFacts DEF Init
<1> QED BY <1>2 DEF Init, Generated, StateInv, StateOf

(* Across any number of starts that succeed or fail half way, the storage  *)
(* a node is configured with is what it wrote last, if the tests pass no   *)
(* config that was replaced since.                                         *)
THEOREM StateKept == Spec => []KeepsState
<1>1. Init => StateInv BY StateInit
<1>2. TypeOK /\ DirsInv /\ StateInv /\ [Next]_vars => StateInv' BY StateInduction
<1>3. StateInv => KeepsState BY DEF StateInv, StateOf, KeepsState
<1> QED BY <1>1, <1>2, <1>3, DirsAlways, PTL DEF Spec

-----------------------------------------------------------------------------
(* The URLs                                                                *)

(* A copy that succeeds leaves local URLs, unless docker goes on.          *)
LEMMA UrlCopy ==
  ASSUME TypeOK, DirsInv, StateInv, UrlInv, NEW n \in Node, CopyAndConfigure(n)
  PROVE  UrlInv'
<1> SUFFICES ASSUME EveryConfigIsCurrent PROVE UrlInv'
  BY CopyFrame DEF UrlInv, EveryConfigIsCurrent, EveryIndexIsNew, Copies
<1>1. /\ phase[n] = "added"
      /\ UNCHANGED <<starts, stale, place, saved>>
      /\ \A m \in Node : m # n => config'[m] = config[m] /\ phase'[m] = phase[m]
  BY CopyFrame DEF Copies
<1>2. ~Taken(NewDir(n)) BY <1>1, NewDirFree DEF EveryConfigIsCurrent
<1>3. config'[n].store = NewDir(n) BY CopyResult DEF Copies
<1>4. config'[n].store # saved[n].store BY <1>2, <1>3 DEF Taken, Mine
<1>5. config[n] \in Config /\ config \in [Node -> Config] BY DEF TypeOK
<1>6. /\ config'[n].host = IF place[n] = "container" /\ ~RestartInDocker(n)
                           THEN "local" ELSE config[n].host
      /\ config'[n].policy = config[n].policy
  BY <1>5 DEF CopyAndConfigure, Copy, Config
<1>7. RestartInDocker(n)' <=> RestartInDocker(n) BY <1>6 DEF RestartInDocker
<1>8. place[n] \in {"container", "child"} BY DEF TypeOK
<1>9. place[n] = "child" => config[n].host = "local" BY DEF UrlInv
<1>10. /\ place[n] = "child" => config'[n].host = "local"
       /\ RestartInDocker(n)' \/ config'[n].host = "local"
  BY <1>6, <1>7, <1>8, <1>9
<1>11. \A m \in Node : m # n => (RestartInDocker(m)' <=> RestartInDocker(m))
  BY <1>1 DEF RestartInDocker
<1> QED BY <1>1, <1>4, <1>10, <1>11 DEF UrlInv

LEMMA UrlInduction ==
  ASSUME TypeOK, DirsInv, StateInv, UrlInv, [Next]_vars
  PROVE  UrlInv'
<1> USE DEF RestartInDocker
<1>1. ASSUME NEW n \in Node, Write(n) \/ WaitUntilStopped(n) PROVE UrlInv'
  <2>1. UNCHANGED <<starts, stale, place, config, saved>>
    BY <1>1 DEF Write, WaitUntilStopped
  <2>2. \A m \in Node : phase'[m] = "spawning" => phase[m] = "spawning"
    BY <1>1 DEF Write, WaitUntilStopped, TypeOK
  <2> QED BY <2>1, <2>2 DEF UrlInv, EveryConfigIsCurrent, EveryIndexIsNew
<1>2. ASSUME NEW n \in Node, SaveConfig(n) PROVE UrlInv'
  <2>1. UNCHANGED <<starts, stale, phase, place, config>> /\ phase[n] = "down"
    BY <1>2 DEF SaveConfig
  <2>2. saved'[n] = config[n] /\ \A m \in Node : m # n => saved'[m] = saved[m]
    BY <1>2 DEF SaveConfig, TypeOK
  <2> QED BY <2>1, <2>2 DEF UrlInv, EveryConfigIsCurrent, EveryIndexIsNew
<1>3. ASSUME NEW n \in Node, SetPolicy(n) PROVE UrlInv'
  <2>1. UNCHANGED <<starts, stale, phase, place, saved>> /\ phase[n] = "down"
    BY <1>3 DEF SetPolicy
  <2>2. config[n] \in Config /\ config \in [Node -> Config] BY DEF TypeOK
  <2>3. /\ config'[n].store = config[n].store /\ config'[n].host = config[n].host
        /\ \A m \in Node : m # n => config'[m] = config[m]
    BY <1>3, <2>2 DEF SetPolicy, Config
  <2> QED BY <2>1, <2>3 DEF UrlInv, EveryConfigIsCurrent, EveryIndexIsNew
<1>4. ASSUME NEW n \in Node, FetchAdd(n) PROVE UrlInv'
  <2>1. starts' = starts + 1 /\ starts \in Nat BY <1>4 DEF FetchAdd, Begin, TypeOK
  <2>2. EveryConfigIsCurrent' => EveryConfigIsCurrent /\ ~stale'
    <3>1. ~stale' => ~stale BY <1>4 DEF FetchAdd, Begin
    <3>2. EveryIndexIsNew' => EveryIndexIsNew
      BY <2>1, RestartAssumption DEF EveryIndexIsNew, RestartAssumption
    <3> QED BY <3>1, <3>2 DEF EveryConfigIsCurrent
  <2>3. saved[n] \in Config /\ config \in [Node -> Config] BY DEF TypeOK
  <2>4. /\ \A m \in Node : m # n => config'[m] = config[m] /\ phase'[m] = phase[m]
        /\ phase'[n] = "added"
    BY <1>4, <2>3 DEF FetchAdd, Begin, TypeOK
  <2>5. \/ config'[n] = config[n]
        \/ (~stale' => saved[n].store = config[n].store) /\ config'[n] = saved[n]
    BY <1>4, <2>3 DEF FetchAdd, Begin
  <2>6. UNCHANGED <<place, saved>> BY <1>4 DEF FetchAdd, Begin
  <2> QED BY <2>2, <2>4, <2>5, <2>6 DEF UrlInv
<1>5. ASSUME NEW n \in Node, CopyDirectoryFails(n) \/ CopyStorageFails(n) PROVE UrlInv'
  <2>1. /\ UNCHANGED <<starts, stale, place, saved>>
        /\ \A m \in Node : m # n => config'[m] = config[m] /\ phase'[m] = phase[m]
    BY <1>5, CopyFrame DEF Copies
  <2>2. config \in [Node -> Config] /\ config[n] \in Config BY DEF TypeOK
  <2>3. /\ config'[n].store = config[n].store /\ config'[n].host = config[n].host
        /\ phase'[n] = "down"
    BY <1>5, <2>2 DEF CopyDirectoryFails, CopyStorageFails, TypeOK, Config
  <2> QED BY <2>1, <2>3 DEF UrlInv, EveryConfigIsCurrent, EveryIndexIsNew
<1>6. ASSUME NEW n \in Node, CopyAndConfigure(n) PROVE UrlInv' BY <1>6, UrlCopy
<1>7. ASSUME NEW n \in Node, Spawn(n) PROVE UrlInv'
  <2>1. /\ phase[n] = "spawning" /\ UNCHANGED <<starts, stale, config, saved>>
        /\ phase' = [phase EXCEPT ![n] = "up"]
        /\ place' = [place EXCEPT ![n] = IF RestartInDocker(n) THEN "container" ELSE "child"]
    BY <1>7 DEF Spawn
  <2>2. \A m \in Node : m # n => place'[m] = place[m] /\ phase'[m] = phase[m]
    BY <2>1 DEF TypeOK
  <2>3. phase'[n] = "up" /\ (place'[n] = "child" => ~RestartInDocker(n))
    BY <2>1 DEF TypeOK
  <2> QED BY <2>1, <2>2, <2>3 DEF UrlInv, EveryConfigIsCurrent, EveryIndexIsNew
<1>8. ASSUME NEW n \in Node, SpawnFails(n) PROVE UrlInv'
  BY <1>8 DEF SpawnFails, UrlInv, EveryConfigIsCurrent, EveryIndexIsNew, TypeOK
<1>9. CASE UNCHANGED vars BY <1>9 DEF vars, UrlInv, EveryConfigIsCurrent, EveryIndexIsNew
<1> QED BY <1>1, <1>2, <1>3, <1>4, <1>5, <1>6, <1>7, <1>8, <1>9 DEF Next

(* A node that was moved out of docker, or has always been a child, is     *)
(* never configured with a name of the docker network.                     *)
THEOREM ChildrenUseLocalUrls == Spec => []ChildUsesLocalUrls
<1>1. Init => StateInv /\ UrlInv
  <2>1. ASSUME Init PROVE UrlInv BY <2>1 DEF Init, Generated, UrlInv
  <2> QED BY <2>1, StateInit
<1>2. TypeOK /\ DirsInv /\ StateInv /\ UrlInv /\ [Next]_vars => (StateInv /\ UrlInv)'
  BY StateInduction, UrlInduction
<1>3. UrlInv => ChildUsesLocalUrls BY DEF UrlInv, ChildUsesLocalUrls
<1> QED BY <1>1, <1>2, <1>3, DirsAlways, PTL DEF Spec
=============================================================================
