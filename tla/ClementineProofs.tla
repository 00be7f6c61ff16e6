-------------------------- MODULE ClementineProofs --------------------------
(***************************************************************************)
(* Theorems about Clementine, for any tests, nodes, lists of nodes and     *)
(* length of the download: type correctness, that no two downloads of the  *)
(* docker client race, that a container gets a whole client, and what a    *)
(* test leaves in docker.                                                  *)
(***************************************************************************)
EXTENDS Clementine, TLAPS

-----------------------------------------------------------------------------
(* The inductive invariant                                                 *)

(* The lock is held from starting curl until the binary is in place.       *)
LockInv == \A n \in Node : lock = n <=> pc[n] \in {"curl", "tar"}

(* A curl runs for the node that holds the lock, or for one that was       *)
(* dropped while it did; its file exists and has parts to come.            *)
CurlOK(n) ==
  /\ curl[n].state # "none" => pc[n] \in {"curl", "dropped"}
  /\ pc[n] = "curl" => curl[n].state \notin {"none", "moved"}
  /\ curl[n].state \in {"none", "started"} => curl[n].wrote = 0
  /\ curl[n].state \in {"open", "moved"} => curl[n].wrote < Parts
  /\ curl[n].state = "ok" => curl[n].wrote = Parts
  /\ curl[n].state = "open" => partial \subseteq Whole
  /\ curl[n].state = "ok" /\ pc[n] = "curl" => partial \subseteq Whole
  /\ curl[n].state = "moved" => url = "binary" /\ binary \subseteq Whole
  /\ curl[n].state # "none" /\ pc[n] = "dropped" => <<"curl", n>> \in cut

CurlInv == \A n \in Node : CurlOK(n)

(* What the curl of the node that holds the lock has written is all that   *)
(* the file holds, unless a curl without the lock writes to it too.        *)
Stray == \E m \in Node : pc[m] = "dropped" /\ curl[m].state # "none"

LoadOK(n) ==
  /\ pc[n] = "curl" /\ curl[n].state \in {"open", "ok"} =>
       partial = 1 .. curl[n].wrote \/ Stray
  /\ pc[n] = "tar" => url = "archive" /\ (partial = Whole \/ Stray)

LoadInv == \A n \in Node : LoadOK(n)

(* A test was cut off where the client was written.                        *)
Tampered == \E m \in Node : <<IF url = "archive" THEN "tar" ELSE "curl", m>> \in cut

CleanInv ==
  \/ Tampered
  \/ binary \in {None, Whole} /\ \A n \in Node : client[n] \in {None, Whole}

(* The nodes for which the daemon was asked for something, and nobody      *)
(* waited for the answer.                                                  *)
Lost == {r[2] : r \in {c \in cut : c[1] \in {"volume", "container"}}}
LostVolumes == {Volume(n) : n \in Lost}

DockerInv ==
  /\ \A n \in Node : <<"curl", n>> \notin late
  /\ \A t \in Test :
       /\ phase[t] \in {"volumes", "ended"} /\ ~refused[t] =>
            containers \cap Members[t] \subseteq Lost
       /\ \A v \in volumes : v[1] = t =>
            \/ phase[t] # "ended" /\ v \in tracked[t]
            \/ refused[t]
            \/ v \in LostVolumes

-----------------------------------------------------------------------------
(* Each node belongs to one test.                                          *)
LEMMA OneTest ==
  \A n \in Node : TestOf[n] \in Test /\ \A t \in Test : n \in Members[t] <=> t = TestOf[n]
<1> SUFFICES ASSUME NEW n \in Node
             PROVE  TestOf[n] \in Test /\ \A t \in Test : n \in Members[t] <=> t = TestOf[n]
  OBVIOUS
<1>1. \A t \in Test : n \in Members[t] <=> \E k \in DOMAIN Batches[t] : n \in Batches[t][k]
  BY DEF Members
<1>2. PICK u \in Test : \A t \in Test : n \in Members[t] <=> t = u
  BY <1>1, ClementineAssumption DEF ClementineAssumption
<1>3. TestOf[n] = CHOOSE t \in Test : n \in Members[t] BY DEF TestOf
<1>4. TestOf[n] = u BY <1>2, <1>3
<1> QED BY <1>2, <1>4

LEMMA CurrentNodes ==
  ASSUME NEW t \in Test, batch[t] \in DOMAIN Batches[t]
  PROVE  Current(t) \subseteq Node /\ \A n \in Current(t) : TestOf[n] = t
<1>1. Batches[t] \in Seq(SUBSET Node) BY ClementineAssumption DEF ClementineAssumption
<1>2. Current(t) \subseteq Node BY <1>1 DEF Current
<1>3. Current(t) \subseteq Members[t] BY DEF Current, Members
<1> QED BY <1>2, <1>3, OneTest

LEMMA LostNodes ==
  ASSUME cut \subseteq Request
  PROVE  \A n : n \in Lost <=> <<"volume", n>> \in cut \/ <<"container", n>> \in cut
<1>1. \A c \in cut : c = <<c[1], c[2]>> BY DEF Request
<1>2. ASSUME NEW n, NEW w \in {"volume", "container"}, <<w, n>> \in cut PROVE n \in Lost
  BY <1>2 DEF Lost
<1>3. ASSUME NEW n \in Lost PROVE <<"volume", n>> \in cut \/ <<"container", n>> \in cut
  BY <1>1 DEF Lost
<1> QED BY <1>2, <1>3

-----------------------------------------------------------------------------
(* Type correctness                                                        *)

LEMMA TypeInit == Init => TypeOK
<1> SUFFICES ASSUME Init PROVE TypeOK OBVIOUS
<1>1. \A t \in Test : batch[t] \in DOMAIN Batches[t]
  BY ClementineAssumption DEF ClementineAssumption, Init
<1>2. curl \in [Node -> [state : {"none", "started", "open", "moved", "ok", "failed"},
                         wrote : 0 .. Parts]]
  BY ClementineAssumption DEF ClementineAssumption, Init, NoCurl
<1> QED BY <1>1, <1>2 DEF Init, TypeOK, IsFile

(* The content that the node's future has found in the archive.            *)
LEMMA TarFile ==
  ASSUME TarSucceeds, NEW file \in Extracted
  PROVE  /\ file \subseteq Whole
         /\ (\A m \in Node : <<"tar", m>> \notin late) => file = Whole
BY DEF TarSucceeds, Extracted

LEMMA NodeType ==
  ASSUME TypeOK, CurlInv, NEW n \in Node, NodeStep(n)
  PROVE  TypeOK'
<1>0. NoCurl \in [state : {"none", "started", "open", "moved", "ok", "failed"}, wrote : 0 .. Parts]
  BY ClementineAssumption DEF ClementineAssumption, NoCurl
<1> USE DEF TypeOK, Goto, Polled, testVars, fileVars, daemonVars, IsFile
<1>1. CASE CheckClient(n) BY <1>1 DEF CheckClient
<1>2. CASE TryLock(n) BY <1>2 DEF TryLock, Locked
<1>3. CASE LockTimesOut(n) BY <1>3 DEF LockTimesOut
<1>4. CASE CurlReturns(n) BY <1>0, <1>4 DEF CurlReturns, Unlock
<1>5. CASE BinaryReturns(n) BY <1>0, <1>5 DEF BinaryReturns, Unlock, CurlInv, CurlOK
<1>6. CASE TarReturns(n) BY <1>0, <1>6, TarFile DEF TarReturns, Unlock
<1>7. CASE CreateVolume(n) BY <1>7 DEF CreateVolume, Mounts
<1>8. CASE VolumeCreated(n) BY <1>8, OneTest DEF VolumeCreated, VolumeExists, Mounts
<1>9. CASE ContainerCreated(n) BY <1>9 DEF ContainerCreated
<1>10. CASE Ready(n) BY <1>10 DEF Ready
<1> QED
  BY <1>1, <1>2, <1>3, <1>4, <1>5, <1>6, <1>7, <1>8, <1>9, <1>10 DEF NodeStep

CurlRecord ==
  [state : {"none", "started", "open", "moved", "ok", "failed"}, wrote : 0 .. Parts]

(* curl has written one part more, and is done after the last.             *)
LEMMA WritesOne ==
  ASSUME TypeOK, CurlInv, NEW n \in Node, CurlWrites(n)
  PROVE  /\ curl[n].state \in {"open", "moved"}
         /\ curl[n].wrote + 1 \in 1 .. Parts
         /\ curl' \in [Node -> CurlRecord]
         /\ curl'[n].wrote = curl[n].wrote + 1
         /\ curl'[n].state = IF curl[n].wrote + 1 = Parts THEN "ok" ELSE curl[n].state
         /\ \A m \in Node : m # n => curl'[m] = curl[m]
<1>1. Parts \in Nat \ {0} BY ClementineAssumption DEF ClementineAssumption
<1>2. /\ curl[n].state \in {"open", "moved"} /\ curl[n].wrote < Parts
      /\ curl[n] \in CurlRecord /\ curl \in [Node -> CurlRecord]
  BY DEF CurlWrites, CurlInv, CurlOK, TypeOK, CurlRecord
<1>3. curl[n].wrote + 1 \in 1 .. Parts BY <1>1, <1>2 DEF CurlRecord
<1> DEFINE s == IF curl[n].wrote + 1 = Parts THEN "ok" ELSE curl[n].state
<1>4. curl' = [curl EXCEPT ![n].wrote = curl[n].wrote + 1, ![n].state = s]
  BY DEF CurlWrites
<1>5. s \in {"open", "moved", "ok"} BY <1>2
<1> HIDE DEF s
<1>6. curl' = [curl EXCEPT ![n] = [[@ EXCEPT !.wrote = curl[n].wrote + 1] EXCEPT !.state = s]]
  BY <1>4
<1>7. /\ curl'[n].wrote = curl[n].wrote + 1 /\ curl'[n].state = s
      /\ \A m \in Node : m # n => curl'[m] = curl[m]
  BY <1>2, <1>6 DEF CurlRecord
<1>8. curl'[n] \in CurlRecord
  <2> DEFINE w == curl[n].wrote + 1
             r == [curl[n] EXCEPT !.wrote = w]
  <2>1. w \in 0 .. Parts BY <1>1, <1>3
  <2> HIDE DEF w
  <2>2. r \in CurlRecord BY <1>2, <2>1 DEF CurlRecord
  <2>3. curl'[n] = [r EXCEPT !.state = s] BY <1>2, <1>6 DEF w
  <2> HIDE DEF r
  <2> QED BY <1>5, <2>2, <2>3 DEF CurlRecord
<1>9. curl' \in [Node -> CurlRecord]
  BY <1>2, <1>6, <1>7, <1>8
<1> QED BY <1>2, <1>3, <1>7, <1>9 DEF s

LEMMA CurlType ==
  ASSUME TypeOK, CurlInv, NEW n \in Node, CurlStep(n)
  PROVE  TypeOK'
<1> USE DEF TypeOK, testVars, daemonVars, IsFile
<1>1. CASE CurlOpens(n) BY <1>1 DEF CurlOpens
<1>2. CASE CurlWrites(n)
  <2>1. /\ curl[n].wrote + 1 \in 1 .. Parts
        /\ curl[n].state = "open" => partial \subseteq Whole
        /\ curl[n].state = "moved" => binary \subseteq Whole
        /\ curl[n].state \in {"open", "moved"}
        /\ curl' \in [Node -> CurlRecord]
    BY <1>2, WritesOne DEF CurlInv, CurlOK
  <2>2. {curl[n].wrote + 1} \subseteq Whole BY <2>1 DEF Whole
  <2> QED BY <1>2, <2>1, <2>2 DEF CurlWrites, CurlRecord
<1>3. CASE CurlFails(n) BY <1>3 DEF CurlFails
<1> QED BY <1>1, <1>2, <1>3 DEF CurlStep

LEMMA TestType ==
  ASSUME TypeOK, NEW t \in Test, TestStep(t)
  PROVE  TypeOK'
<1>0. Current(t) \subseteq Node BY CurrentNodes DEF TypeOK
<1> USE DEF TypeOK, fileVars, daemonVars, IsFile
<1>1. CASE BatchJoined(t)
  <2>1. CASE LastBatch(t) BY <1>1, <2>1 DEF BatchJoined
  <2>2. CASE ~LastBatch(t)
    <3>1. Batches[t] \in Seq(SUBSET Node) BY ClementineAssumption DEF ClementineAssumption
    <3>2. batch[t] + 1 \in DOMAIN Batches[t] BY <2>2, <3>1 DEF LastBatch
    <3>3. batch' \in [Test -> Nat] /\ \A u \in Test : batch'[u] \in DOMAIN Batches[u]
      BY <1>1, <2>2, <3>2 DEF BatchJoined
    <3> QED BY <1>1, <2>2, <3>3 DEF BatchJoined
  <2> QED BY <2>1, <2>2
<1>2. CASE StartAborts(t) BY <1>0, <1>2 DEF StartAborts, Request
<1>3. CASE TestEnds(t) BY <1>3 DEF TestEnds
<1>4. CASE RemoveContainers(t) BY <1>4 DEF RemoveContainers
<1>5. CASE RemoveVolumes(t) BY <1>5 DEF RemoveVolumes, Ended
<1>6. CASE CleanupFails(t) BY <1>6 DEF CleanupFails, Ended
<1> QED BY <1>1, <1>2, <1>3, <1>4, <1>5, <1>6 DEF TestStep

LEMMA TypeStep ==
  ASSUME TypeOK, CurlInv, [Next]_vars
  PROVE  TypeOK'
<1>1. ASSUME NEW request \in Request, LateRequest(request) PROVE TypeOK'
  <2>1. request[2] \in Node BY <1>1 DEF Request
  <2> QED BY <1>1, <2>1 DEF LateRequest, TypeOK, testVars, fileVars
<1>2. CASE UNCHANGED vars
  BY <1>2 DEF vars, testVars, fileVars, daemonVars, TypeOK
<1> QED BY <1>1, <1>2, NodeType, CurlType, TestType DEF Next
-----------------------------------------------------------------------------
(* The lock and the curls                                                  *)

(* The steps of a node that touch neither the lock nor a file.             *)
Aside(n) ==
  \/ CheckClient(n) \/ LockTimesOut(n) \/ CreateVolume(n) \/ VolumeCreated(n)
  \/ ContainerCreated(n) \/ Ready(n)

LEMMA AsideKeeps ==
  ASSUME TypeOK, NEW n \in Node, Aside(n)
  PROVE  /\ UNCHANGED <<fileVars, url, cut, late>>
         /\ pc[n] \notin {"curl", "tar", "dropped"} /\ pc'[n] \notin {"curl", "tar", "dropped"}
         /\ \A m \in Node : m # n => pc'[m] = pc[m]
         /\ \A m \in Node : client'[m] \in {client[m], binary}
<1> USE DEF TypeOK, Polled, Goto, Mounts, testVars, fileVars, daemonVars
<1>1. CASE CheckClient(n) BY <1>1 DEF CheckClient
<1>2. CASE LockTimesOut(n) BY <1>2 DEF LockTimesOut
<1>3. CASE CreateVolume(n) BY <1>3 DEF CreateVolume
<1>4. CASE VolumeCreated(n) BY <1>4 DEF VolumeCreated, VolumeExists
<1>5. CASE ContainerCreated(n) BY <1>5 DEF ContainerCreated
<1>6. CASE Ready(n) BY <1>6 DEF Ready
<1> QED BY <1>1, <1>2, <1>3, <1>4, <1>5, <1>6 DEF Aside

(* The steps of a test but the abort of its start leave its nodes alone.   *)
Outside(t) ==
  BatchJoined(t) \/ TestEnds(t) \/ RemoveContainers(t) \/ RemoveVolumes(t) \/ CleanupFails(t)

LEMMA OutsideKeeps ==
  ASSUME TypeOK, NEW t \in Test, Outside(t)
  PROVE  /\ UNCHANGED <<fileVars, pc, url, cut, late>>
         /\ \A m \in Node : client'[m] \in {client[m], None}
<1> USE DEF TypeOK, fileVars, daemonVars
<1>1. CASE BatchJoined(t) BY <1>1 DEF BatchJoined
<1>2. CASE TestEnds(t) BY <1>2 DEF TestEnds
<1>3. CASE RemoveContainers(t) BY <1>3 DEF RemoveContainers
<1>4. CASE RemoveVolumes(t) BY <1>4 DEF RemoveVolumes
<1>5. CASE CleanupFails(t) BY <1>5 DEF CleanupFails
<1> QED BY <1>1, <1>2, <1>3, <1>4, <1>5 DEF Outside

LEMMA CurlKeeps ==
  ASSUME NEW n \in Node, CurlStep(n)
  PROVE  UNCHANGED <<pc, client, lock, url, cut, late>>
BY DEF CurlStep, CurlOpens, CurlWrites, CurlFails, daemonVars

(* A start that is aborted drops its nodes, and the lock if one holds it.  *)
LEMMA AbortDrops ==
  ASSUME TypeOK, NEW t \in Test, StartAborts(t)
  PROVE  /\ UNCHANGED <<client, url, binary, partial, curl>>
         /\ Current(t) \subseteq Node
         /\ \A n \in Node : pc'[n] = IF n \in Current(t) THEN "dropped" ELSE pc[n]
         /\ lock' = IF lock \in Current(t) THEN None ELSE lock
         /\ cut \subseteq cut'
         /\ \A n \in Current(t) : pc[n] = "curl" => <<"curl", n>> \in cut'
         /\ \A n \in Node : <<"tar", n>> \in late' => <<"tar", n>> \in cut'
<1>1. Current(t) \subseteq Node BY CurrentNodes DEF TypeOK
<1> QED BY <1>1 DEF StartAborts, TypeOK

LEMMA LateKeeps ==
  ASSUME NEW request \in Request, LateRequest(request)
  PROVE  UNCHANGED <<fileVars, pc, client, url, cut>> /\ late' \subseteq late
BY DEF LateRequest

(* What every step is, seen from the docker client.                        *)
LEMMA Steps ==
  ASSUME [Next]_vars
  PROVE  \/ \E n \in Node : Aside(n) \/ TryLock(n) \/ CurlReturns(n) \/ BinaryReturns(n)
                            \/ TarReturns(n) \/ CurlStep(n)
         \/ \E t \in Test : Outside(t) \/ StartAborts(t)
         \/ \E request \in Request : LateRequest(request)
         \/ UNCHANGED vars
BY DEF Next, NodeStep, TestStep, Aside, Outside

LEMMA LockStep ==
  ASSUME TypeOK, LockInv, [Next]_vars
  PROVE  LockInv'
<1>0. None \notin Node BY ClementineAssumption DEF ClementineAssumption
<1>1. ASSUME NEW n \in Node, Aside(n) PROVE LockInv'
  BY <1>1, AsideKeeps DEF LockInv, fileVars
<1> USE DEF TypeOK, Polled, Goto, Unlock
<1>2. ASSUME NEW n \in Node, TryLock(n) PROVE LockInv'
  BY <1>0, <1>2 DEF TryLock, Locked, LockInv
<1>3. ASSUME NEW n \in Node, CurlReturns(n) PROVE LockInv'
  BY <1>0, <1>3 DEF CurlReturns, LockInv
<1>4. ASSUME NEW n \in Node, BinaryReturns(n) PROVE LockInv'
  BY <1>0, <1>4 DEF BinaryReturns, LockInv
<1>5. ASSUME NEW n \in Node, TarReturns(n) PROVE LockInv'
  BY <1>0, <1>5 DEF TarReturns, LockInv
<1>6. ASSUME NEW n \in Node, CurlStep(n) PROVE LockInv'
  BY <1>6, CurlKeeps DEF LockInv
<1>7. ASSUME NEW t \in Test, Outside(t) PROVE LockInv'
  BY <1>7, OutsideKeeps DEF LockInv, fileVars
<1>8. ASSUME NEW t \in Test, StartAborts(t) PROVE LockInv'
  BY <1>0, <1>8, AbortDrops DEF LockInv
<1>9. ASSUME NEW request \in Request, LateRequest(request) PROVE LockInv'
  BY <1>9, LateKeeps DEF LockInv, fileVars
<1>10. CASE UNCHANGED vars BY <1>10 DEF LockInv, vars, fileVars
<1> QED BY <1>1, <1>2, <1>3, <1>4, <1>5, <1>6, <1>7, <1>8, <1>9, <1>10, Steps

(* The node that gets the lock starts curl.                                *)
LEMMA Starts ==
  ASSUME TypeOK, NEW n \in Node, TryLock(n), binary = None
  PROVE  /\ curl'[n].state = "started" /\ curl'[n].wrote = curl[n].wrote
         /\ pc[n] = "lock" /\ pc'[n] = "curl"
         /\ \A m \in Node : m # n => curl'[m] = curl[m] /\ pc'[m] = pc[m]
         /\ UNCHANGED <<client, binary, partial, url, cut>>
<1>1. curl' = [curl EXCEPT ![n] = [@ EXCEPT !.state = "started"]]
  BY DEF TryLock, Locked
<1>2. curl \in [Node -> CurlRecord] BY DEF TypeOK, CurlRecord
<1>3. /\ curl'[n].state = "started" /\ curl'[n].wrote = curl[n].wrote
      /\ \A m \in Node : m # n => curl'[m] = curl[m]
  BY <1>1, <1>2 DEF CurlRecord
<1> QED BY <1>3 DEF TryLock, Locked, Polled, Goto, TypeOK

(* curl has ended, and the node goes on without it.                        *)
LEMMA CurlEnds ==
  ASSUME TypeOK, NEW n \in Node, CurlReturns(n)
  PROVE  /\ pc[n] = "curl" /\ curl'[n].state = "none" /\ curl'[n].wrote = 0
         /\ \/ curl[n].state = "ok" /\ url = "archive" /\ pc'[n] = "tar"
            \/ curl[n].state = "failed" /\ pc'[n] = "volume"
         /\ \A m \in Node : m # n => curl'[m] = curl[m] /\ pc'[m] = pc[m]
         /\ UNCHANGED <<client, binary, partial, url, cut>>
<1>1. /\ curl'[n] = NoCurl /\ NoCurl.state = "none" /\ NoCurl.wrote = 0
      /\ \A m \in Node : m # n => curl'[m] = curl[m]
  BY DEF CurlReturns, TypeOK, NoCurl
<1> QED BY <1>1 DEF CurlReturns, Polled, Goto, TypeOK, testVars

(* A binary is in place, and a curl without the lock goes on with it.      *)
LEMMA BinaryPlaced ==
  ASSUME TypeOK, NEW n \in Node, BinaryReturns(n)
  PROVE  /\ pc[n] = "curl" /\ curl[n].state = "ok" /\ pc'[n] = "volume" /\ url = "binary"
         /\ curl'[n].state = "none" /\ curl'[n].wrote = 0
         /\ \A m \in Node : m # n =>
              /\ pc'[m] = pc[m] /\ curl'[m].wrote = curl[m].wrote
              /\ curl'[m].state = IF curl[m].state = "open" THEN "moved" ELSE curl[m].state
         /\ binary' = partial /\ UNCHANGED <<client, url, cut>>
<1>1. curl'[n] = NoCurl /\ NoCurl.state = "none" /\ NoCurl.wrote = 0
  BY DEF BinaryReturns, NoCurl
<1>2. ASSUME NEW m \in Node, m # n
      PROVE  /\ curl'[m].wrote = curl[m].wrote
             /\ curl'[m].state = IF curl[m].state = "open" THEN "moved" ELSE curl[m].state
  <2>1. curl'[m] = IF curl[m].state = "open" THEN [curl[m] EXCEPT !.state = "moved"] ELSE curl[m]
    BY <1>2 DEF BinaryReturns
  <2>2. curl[m] \in CurlRecord BY DEF TypeOK, CurlRecord
  <2> QED BY <2>1, <2>2 DEF CurlRecord
<1> QED BY <1>1, <1>2 DEF BinaryReturns, Polled, Goto, TypeOK, testVars

(* tar has ended: the binary is in place, or nothing has happened.         *)
LEMMA TarEnds ==
  ASSUME TypeOK, NEW n \in Node, TarReturns(n)
  PROVE  /\ pc[n] = "tar" /\ pc'[n] = "volume"
         /\ \A m \in Node : m # n => pc'[m] = pc[m]
         /\ \/ /\ \A m \in Node :
                    IF curl[m].state = "open"
                    THEN curl'[m].state = "none" /\ curl'[m].wrote = 0
                    ELSE curl'[m] = curl[m]
               /\ binary' \subseteq Whole
               /\ (\A m \in Node : <<"tar", m>> \notin late) => binary' = Whole
            \/ UNCHANGED <<binary, partial, curl>>
         /\ UNCHANGED <<client, url, cut>>
<1>1. NoCurl.state = "none" /\ NoCurl.wrote = 0 BY DEF NoCurl
<1>2. pc[n] = "tar" /\ pc'[n] = "volume" /\ \A m \in Node : m # n => pc'[m] = pc[m]
  BY DEF TarReturns, Polled, Goto, TypeOK
<1>3. UNCHANGED <<client, url, cut>> BY DEF TarReturns
<1>4. CASE UNCHANGED <<binary, partial, curl>> BY <1>2, <1>3, <1>4
<1>5. CASE TarSucceeds /\ \E file \in Extracted : binary' = file
  <2>1. binary' \subseteq Whole /\ ((\A m \in Node : <<"tar", m>> \notin late) => binary' = Whole)
    BY <1>5, TarFile
  <2>2. CASE curl' = [m \in Node |-> IF curl[m].state = "open" THEN NoCurl ELSE curl[m]]
    BY <1>1, <1>2, <1>3, <2>1, <2>2
  <2> QED BY <1>4, <2>2 DEF TarReturns
<1> QED BY <1>4, <1>5 DEF TarReturns

(* curl has opened its file, or failed.                                    *)
LEMMA CurlMoves ==
  ASSUME TypeOK, NEW n \in Node, CurlOpens(n) \/ CurlFails(n)
  PROVE  /\ curl'[n].wrote = curl[n].wrote
         /\ \A m \in Node : m # n => curl'[m] = curl[m]
         /\ curl[n].state # "none" /\ UNCHANGED binary
         /\ \/ curl[n].state = "started" /\ curl'[n].state = "open" /\ partial' = {}
            \/ curl'[n].state = "failed" /\ UNCHANGED partial
<1>1. curl \in [Node -> CurlRecord] BY DEF TypeOK, CurlRecord
<1>2. CASE CurlOpens(n)
  <2>1. curl' = [curl EXCEPT ![n] = [@ EXCEPT !.state = "open"]] BY <1>2 DEF CurlOpens
  <2>2. /\ curl'[n].wrote = curl[n].wrote /\ curl'[n].state = "open"
        /\ \A m \in Node : m # n => curl'[m] = curl[m]
    BY <1>1, <2>1 DEF CurlRecord
  <2> QED BY <1>2, <2>2 DEF CurlOpens
<1>3. CASE CurlFails(n)
  <2>1. curl' = [curl EXCEPT ![n] = [@ EXCEPT !.state = "failed"]] BY <1>3 DEF CurlFails
  <2>2. /\ curl'[n].wrote = curl[n].wrote /\ curl'[n].state = "failed"
        /\ \A m \in Node : m # n => curl'[m] = curl[m]
    BY <1>1, <2>1 DEF CurlRecord
  <2> QED BY <1>3, <2>2 DEF CurlFails
<1> QED BY <1>2, <1>3

LEMMA CurlInvStep ==
  ASSUME TypeOK, LockInv, CurlInv, [Next]_vars
  PROVE  CurlInv'
<1>0. /\ Parts \in Nat \ {0} /\ {} \subseteq Whole
      /\ \A n \in Node : curl[n].wrote \in 0 .. Parts
  BY ClementineAssumption DEF ClementineAssumption, TypeOK
<1> USE DEF CurlInv
<1>1. ASSUME NEW n \in Node, Aside(n) PROVE CurlInv'
  BY <1>1, AsideKeeps DEF CurlOK, fileVars
<1>2. ASSUME NEW n \in Node, TryLock(n) PROVE CurlInv'
  <2>1. CASE binary # None
    <3>1. /\ UNCHANGED <<binary, partial, curl, url, cut>>
          /\ pc[n] = "lock" /\ pc'[n] = "volume" /\ \A m \in Node : m # n => pc'[m] = pc[m]
      BY <1>2, <2>1 DEF TryLock, Locked, TypeOK, Polled, Goto, testVars
    <3> QED BY <3>1 DEF CurlOK
  <2>2. CASE binary = None
    <3> SUFFICES ASSUME NEW m \in Node PROVE CurlOK(m)' OBVIOUS
    <3>1. CASE m = n BY <1>0, <1>2, <2>2, <3>1, Starts DEF CurlOK
    <3>2. CASE m # n BY <1>2, <2>2, <3>2, Starts DEF CurlOK
    <3> QED BY <3>1, <3>2
  <2> QED BY <2>1, <2>2
<1>3. ASSUME NEW n \in Node, CurlReturns(n) PROVE CurlInv'
  BY <1>0, <1>3, CurlEnds DEF CurlOK
<1>4. ASSUME NEW n \in Node, BinaryReturns(n) PROVE CurlInv'
  <2>1. \A m \in Node : m # n => pc[m] # "curl" BY <1>4, BinaryPlaced DEF LockInv
  <2> SUFFICES ASSUME NEW m \in Node PROVE CurlOK(m)' OBVIOUS
  <2>2. CASE m = n BY <1>0, <1>4, <2>2, BinaryPlaced DEF CurlOK
  <2>3. CASE m # n
    <3>1. CurlOK(n) /\ CurlOK(m) OBVIOUS
    <3>2. binary' \subseteq Whole BY <1>4, <3>1, BinaryPlaced DEF CurlOK
    <3>3. curl'[m].state # "open" /\ url' = url /\ cut' = cut /\ url = "binary"
      BY <1>4, <2>3, BinaryPlaced
    <3> QED BY <1>4, <2>1, <2>3, <3>1, <3>2, <3>3, BinaryPlaced DEF CurlOK
  <2> QED BY <2>2, <2>3
<1>5. ASSUME NEW n \in Node, TarReturns(n) PROVE CurlInv'
  <2>1. \A m \in Node : m # n => pc[m] # "curl" BY <1>5, TarEnds DEF LockInv
  <2> SUFFICES ASSUME NEW m \in Node PROVE CurlOK(m)' OBVIOUS
  <2> QED BY <1>0, <1>5, <2>1, TarEnds DEF CurlOK
<1>6. ASSUME NEW n \in Node, CurlStep(n) PROVE CurlInv'
  <2> SUFFICES ASSUME NEW m \in Node PROVE CurlOK(m)' OBVIOUS
  <2>1. UNCHANGED <<pc, url, cut>> BY <1>6, CurlKeeps
  <2>2. CASE CurlWrites(n)
    <3>1. /\ partial \subseteq Whole => partial' \subseteq Whole
          /\ binary \subseteq Whole => binary' \subseteq Whole
      <4>1. curl[n].wrote + 1 \in Whole BY <2>2, WritesOne DEF Whole
      <4> QED BY <2>2, <4>1 DEF CurlWrites
    <3>2. CASE m # n BY <2>1, <2>2, <3>1, <3>2, WritesOne DEF CurlOK
    <3>3. CASE m = n BY <1>0, <2>1, <2>2, <3>1, <3>3, WritesOne DEF CurlOK
    <3> QED BY <3>2, <3>3
  <2>3. CASE CurlOpens(n) \/ CurlFails(n)
    BY <1>0, <2>1, <2>3, CurlMoves DEF CurlOK
  <2> QED BY <1>6, <2>2, <2>3 DEF CurlStep
<1>7. ASSUME NEW t \in Test, Outside(t) PROVE CurlInv'
  BY <1>7, OutsideKeeps DEF CurlOK, fileVars
<1>8. ASSUME NEW t \in Test, StartAborts(t) PROVE CurlInv'
  BY <1>8, AbortDrops DEF CurlOK
<1>9. ASSUME NEW request \in Request, LateRequest(request) PROVE CurlInv'
  BY <1>9, LateKeeps DEF CurlOK, fileVars
<1>10. CASE UNCHANGED vars BY <1>10 DEF CurlOK, vars, fileVars
<1> QED BY <1>1, <1>2, <1>3, <1>4, <1>5, <1>6, <1>7, <1>8, <1>9, <1>10, Steps
-----------------------------------------------------------------------------
(* What the files hold                                                     *)

(* Only the node that holds the lock has anything to say of the download.  *)
LEMMA HolderOnly ==
  ASSUME LockInv, NEW n \in Node, pc[n] \in {"curl", "tar"},
         \A m \in Node : m # n => pc'[m] = pc[m], LoadOK(n)'
  PROVE  LoadInv'
BY DEF LockInv, LoadInv, LoadOK

LEMMA LoadStep ==
  ASSUME TypeOK, LockInv, CurlInv, LoadInv, [Next]_vars
  PROVE  LoadInv'
<1>0. /\ Parts \in Nat \ {0}
      /\ \A n \in Node : curl[n].wrote \in 0 .. Parts /\ CurlOK(n) /\ LoadOK(n)
  BY ClementineAssumption DEF ClementineAssumption, TypeOK, CurlInv, LoadInv
<1>1. ASSUME UNCHANGED fileVars, UNCHANGED url,
             \A m \in Node : \/ pc'[m] = pc[m]
                             \/ pc[m] # "dropped" /\ pc'[m] \notin {"curl", "tar"}
      PROVE  LoadInv'
  <2>1. Stray => Stray' BY <1>1 DEF Stray, fileVars
  <2> QED BY <1>0, <1>1, <2>1 DEF LoadInv, LoadOK, fileVars
<1>2. ASSUME NEW n \in Node, TryLock(n) PROVE LoadInv'
  <2>1. CASE binary # None
    <3>1. /\ UNCHANGED <<fileVars, url>> /\ pc[n] = "lock" /\ pc'[n] = "volume"
          /\ \A m \in Node : m # n => pc'[m] = pc[m]
      BY <1>2, <2>1 DEF TryLock, Locked, TypeOK, Polled, Goto, fileVars
    <3> QED BY <1>1, <3>1
  <2>2. CASE binary = None
    <3>1. \A m \in Node : pc[m] \notin {"curl", "tar"}
      BY <1>2, ClementineAssumption DEF ClementineAssumption, TryLock, LockInv
    <3> QED BY <1>2, <2>2, <3>1, Starts DEF LoadInv, LoadOK
  <2> QED BY <2>1, <2>2
<1>3. ASSUME NEW n \in Node, CurlReturns(n) PROVE LoadInv'
  <2>1. Stray => Stray' BY <1>3, CurlEnds DEF Stray
  <2>2. LoadOK(n)'
    <3>1. CASE pc'[n] = "tar"
      <4>1. partial = 1 .. Parts \/ Stray BY <1>0, <1>3, <3>1, CurlEnds DEF CurlOK, LoadOK
      <4> QED BY <1>3, <2>1, <3>1, <4>1, CurlEnds DEF LoadOK, Whole
    <3>2. CASE pc'[n] = "volume" BY <3>2 DEF LoadOK
    <3> QED BY <1>3, <3>1, <3>2, CurlEnds
  <2> QED BY <1>3, <2>2, CurlEnds, HolderOnly
<1>4. ASSUME NEW n \in Node, BinaryReturns(n) PROVE LoadInv'
  <2>1. LoadOK(n)' BY <1>4, BinaryPlaced DEF LoadOK
  <2> QED BY <1>4, <2>1, BinaryPlaced, HolderOnly
<1>5. ASSUME NEW n \in Node, TarReturns(n) PROVE LoadInv'
  <2>1. LoadOK(n)' BY <1>5, TarEnds DEF LoadOK
  <2> QED BY <1>5, <2>1, TarEnds, HolderOnly
<1>6. ASSUME NEW n \in Node, CurlStep(n) PROVE LoadInv'
  <2>1. UNCHANGED <<pc, url>> BY <1>6, CurlKeeps
  <2>2. /\ \A m \in Node : m # n => curl'[m] = curl[m]
        /\ curl[n].state # "none" /\ curl'[n].state # "none"
    <3>1. CASE CurlWrites(n) BY <3>1, WritesOne
    <3>2. CASE CurlOpens(n) \/ CurlFails(n) BY <3>2, CurlMoves
    <3> QED BY <1>6, <3>1, <3>2 DEF CurlStep
  <2>3. Stray => Stray' BY <2>1, <2>2 DEF Stray
  <2>4. CASE pc[n] = "dropped"
    <3>1. Stray' BY <2>1, <2>2, <2>4 DEF Stray
    <3> QED BY <1>0, <2>1, <3>1 DEF LoadInv, LoadOK
  <2>5. CASE pc[n] = "curl"
    <3>1. CASE CurlOpens(n) \/ CurlFails(n)
      <4>1. curl[n].state = "started" => curl[n].wrote = 0 BY <1>0 DEF CurlOK
      <4>2. 1 .. 0 = {} OBVIOUS
      <4>3. partial' = {} /\ curl'[n].wrote = 0 => partial' = 1 .. curl'[n].wrote BY <4>2
      <4>4. LoadOK(n)' BY <2>1, <2>5, <3>1, <4>1, <4>3, CurlMoves DEF LoadOK
      <4> QED BY <2>1, <2>5, <4>4, HolderOnly
    <3>2. CASE CurlWrites(n)
      <4>1. curl[n].state = "open" BY <1>0, <2>5, <3>2, WritesOne DEF CurlOK
      <4>2. partial = 1 .. curl[n].wrote \/ Stray BY <1>0, <2>5, <4>1 DEF LoadOK
      <4>3. partial' = partial \cup {curl[n].wrote + 1} BY <3>2, <4>1 DEF CurlWrites
      <4>4. \A w \in Nat : (1 .. w) \cup {w + 1} = 1 .. (w + 1) OBVIOUS
      <4>5. partial' = 1 .. curl'[n].wrote \/ Stray'
        BY <1>0, <2>3, <3>2, <4>2, <4>3, <4>4, WritesOne
      <4>6. LoadOK(n)' BY <2>1, <2>5, <4>5 DEF LoadOK
      <4> QED BY <2>1, <2>5, <4>6, HolderOnly
    <3> QED BY <1>6, <3>1, <3>2 DEF CurlStep
  <2> QED BY <1>0, <2>2, <2>4, <2>5 DEF CurlOK
<1>7. ASSUME NEW t \in Test, StartAborts(t) PROVE LoadInv'
  <2>1. Stray => Stray' BY <1>7, AbortDrops DEF Stray
  <2> QED BY <1>0, <1>7, <2>1, AbortDrops DEF LoadInv, LoadOK
<1>8. ASSUME NEW n \in Node, Aside(n) PROVE LoadInv'
  BY <1>1, <1>8, AsideKeeps
<1>9. ASSUME NEW t \in Test, Outside(t) PROVE LoadInv'
  BY <1>1, <1>9, OutsideKeeps
<1>10. ASSUME NEW request \in Request, LateRequest(request) PROVE LoadInv'
  BY <1>1, <1>10, LateKeeps
<1>11. CASE UNCHANGED vars BY <1>1, <1>11 DEF vars
<1> QED BY <1>2, <1>3, <1>4, <1>5, <1>6, <1>7, <1>8, <1>9, <1>10, <1>11, Steps

(* A curl that has lost the lock was cut off.                              *)
LEMMA StrayTampers ==
  ASSUME CurlInv, Stray, url = "binary"
  PROVE  Tampered
BY DEF CurlInv, CurlOK, Stray, Tampered

LEMMA CleanStep ==
  ASSUME TypeOK, CurlInv, LoadInv, CleanInv, [Next]_vars
  PROVE  CleanInv'
<1>1. CASE UNCHANGED <<binary, url, cut>> /\ \A m \in Node : client'[m] \in {client[m], binary, None}
  <2>1. Tampered => Tampered' BY <1>1 DEF Tampered
  <2> QED BY <1>1, <2>1 DEF CleanInv
<1>2. ASSUME NEW n \in Node, BinaryReturns(n) PROVE CleanInv'
  <2>1. Tampered => Tampered' BY <1>2, BinaryPlaced DEF Tampered
  <2>2. binary' = Whole \/ Tampered
    <3>1. partial = Whole \/ Stray
      BY <1>2, BinaryPlaced DEF LoadInv, LoadOK, CurlInv, CurlOK, Whole
    <3> QED BY <1>2, <3>1, BinaryPlaced, StrayTampers
  <2> QED BY <1>2, <2>1, <2>2, BinaryPlaced DEF CleanInv
<1>3. ASSUME NEW n \in Node, TarReturns(n) PROVE CleanInv'
  <2>1. Tampered => Tampered' BY <1>3, TarEnds DEF Tampered
  <2>2. url = "archive" BY <1>3, TarEnds DEF LoadInv, LoadOK
  <2>3. ~Tampered => \A m \in Node : <<"tar", m>> \notin late
    BY <2>2 DEF Tampered, TypeOK
  <2> QED BY <1>3, <2>1, <2>3, TarEnds DEF CleanInv
<1>4. ASSUME NEW n \in Node, CurlWrites(n) PROVE CleanInv'
  <2>1. UNCHANGED <<url, cut, client>> BY <1>4 DEF CurlWrites
  <2>2. CASE curl[n].state = "open" BY <1>1, <1>4, <2>1, <2>2 DEF CurlWrites
  <2>3. CASE curl[n].state = "moved"
    <3>1. url = "binary" /\ <<"curl", n>> \in cut BY <2>3 DEF CurlInv, CurlOK
    <3> QED BY <2>1, <3>1 DEF CleanInv, Tampered
  <2> QED BY <1>4, <2>2, <2>3, WritesOne
<1>5. ASSUME NEW t \in Test, StartAborts(t) PROVE CleanInv'
  <2>1. Tampered => Tampered' BY <1>5, AbortDrops DEF Tampered
  <2> QED BY <1>5, <2>1, AbortDrops DEF CleanInv
<1>6. ASSUME NEW n \in Node, TryLock(n) PROVE CleanInv'
  BY <1>1, <1>6 DEF TryLock, Locked
<1>7. ASSUME NEW n \in Node, CurlReturns(n) PROVE CleanInv'
  BY <1>1, <1>7, CurlEnds
<1>8. ASSUME NEW n \in Node, Aside(n) PROVE CleanInv'
  BY <1>1, <1>8, AsideKeeps DEF fileVars
<1>9. ASSUME NEW n \in Node, CurlOpens(n) \/ CurlFails(n) PROVE CleanInv'
  BY <1>1, <1>9 DEF CurlOpens, CurlFails
<1>10. ASSUME NEW t \in Test, Outside(t) PROVE CleanInv'
  BY <1>1, <1>10, OutsideKeeps DEF fileVars
<1>11. ASSUME NEW request \in Request, LateRequest(request) PROVE CleanInv'
  BY <1>1, <1>11, LateKeeps DEF fileVars
<1>12. CASE UNCHANGED vars BY <1>1, <1>12 DEF vars, fileVars
<1> QED
  BY <1>2, <1>3, <1>4, <1>5, <1>6, <1>7, <1>8, <1>9, <1>10, <1>11, <1>12, Steps DEF CurlStep
-----------------------------------------------------------------------------
(* What is left in docker                                                  *)

(* Most steps are none of docker's business, or move a test that has not   *)
(* begun to clean up.                                                      *)
LEMMA DockerIdle ==
  ASSUME DockerInv, UNCHANGED <<tracked, refused, daemonVars, cut>>,
         \A t \in Test : \/ phase'[t] = phase[t]
                         \/ phase'[t] \notin {"volumes", "ended"}
  PROVE  DockerInv'
BY DEF DockerInv, LostVolumes, Lost, Volume, daemonVars

(* The more was cut off, the more may be left.                             *)
LEMMA LostGrows ==
  ASSUME cut \subseteq cut'
  PROVE  Lost \subseteq Lost' /\ LostVolumes \subseteq LostVolumes'
BY DEF Lost, LostVolumes, Volume

LEMMA DockerStep ==
  ASSUME TypeOK, DockerInv, [Next]_vars
  PROVE  DockerInv'
<1>0. /\ phase \in [Test -> {"starting", "running", "cleanup", "volumes", "ended"}]
      /\ tracked \in [Test -> SUBSET {Volume(n) : n \in Node}] /\ refused \in [Test -> BOOLEAN]
      /\ volumes \subseteq {Volume(n) : n \in Node} /\ late \subseteq cut /\ cut \subseteq Request
  BY DEF TypeOK
<1>1. ASSUME NEW n \in Node, VolumeCreated(n) PROVE DockerInv'
  <2>1. /\ volumes' = volumes \cup {Volume(n)}
        /\ tracked' = [tracked EXCEPT ![TestOf[n]] = @ \cup {Volume(n)}]
        /\ phase[TestOf[n]] = "starting"
        /\ UNCHANGED <<phase, refused, containers, late, cut>>
    BY <1>1 DEF VolumeCreated, VolumeExists, Polled
  <2>2. \A t \in Test : tracked[t] \subseteq tracked'[t] BY <1>0, <2>1
  <2>3. Volume(n) \in tracked'[TestOf[n]] /\ Volume(n)[1] = TestOf[n]
    BY <1>0, <2>1, OneTest DEF Volume
  <2> QED BY <2>1, <2>2, <2>3 DEF DockerInv, LostVolumes, Lost
<1>2. ASSUME NEW n \in Node, ContainerCreated(n) PROVE DockerInv'
  <2>1. /\ containers' = containers \cup {n} /\ phase[TestOf[n]] = "starting"
        /\ UNCHANGED <<testVars, volumes, late, cut>>
    BY <1>2 DEF ContainerCreated, Polled
  <2>2. \A t \in Test : n \in Members[t] => phase[t] = "starting" BY <2>1, OneTest
  <2> QED BY <2>1, <2>2 DEF DockerInv, LostVolumes, Lost, testVars
<1>3. ASSUME NEW t \in Test, StartAborts(t) PROVE DockerInv'
  <2>1. /\ phase' = [phase EXCEPT ![t] = "cleanup"] /\ cut \subseteq cut'
        /\ phase[t] = "starting"
        /\ UNCHANGED <<tracked, refused, volumes, containers>>
        /\ \A n \in Node : <<"curl", n>> \in late' => <<"curl", n>> \in late
    BY <1>3 DEF StartAborts
  <2>2. Lost \subseteq Lost' /\ LostVolumes \subseteq LostVolumes' BY <2>1, LostGrows
  <2>3. \A u \in Test : phase'[u] = phase[u] \/ phase'[u] = "cleanup" BY <1>0, <2>1
  <2> QED BY <2>1, <2>2, <2>3 DEF DockerInv
<1>4. ASSUME NEW t \in Test, RemoveContainers(t) PROVE DockerInv'
  <2>1. /\ phase' = [phase EXCEPT ![t] = "volumes"] /\ containers' = containers \ Members[t]
        /\ UNCHANGED <<tracked, refused, volumes, late, cut>>
    BY <1>4 DEF RemoveContainers
  <2>2. \A u \in Test : phase'[u] = IF u = t THEN "volumes" ELSE phase[u] BY <1>0, <2>1
  <2>3. phase[t] # "ended" BY <1>4 DEF RemoveContainers
  <2> QED BY <2>1, <2>2, <2>3 DEF DockerInv, LostVolumes, Lost
<1>5. ASSUME NEW t \in Test, RemoveVolumes(t) PROVE DockerInv'
  <2>1. /\ volumes' = volumes \ tracked[t] /\ phase[t] = "volumes"
        /\ \A u \in Test : /\ phase'[u] = IF u = t THEN "ended" ELSE phase[u]
                           /\ tracked'[u] = IF u = t THEN {} ELSE tracked[u]
        /\ UNCHANGED <<refused, containers, late, cut>>
    BY <1>0, <1>5 DEF RemoveVolumes, Ended
  <2> QED BY <2>1 DEF DockerInv, LostVolumes, Lost
<1>6. ASSUME NEW t \in Test, CleanupFails(t) PROVE DockerInv'
  <2>1. /\ volumes' \subseteq volumes /\ containers' \subseteq containers
        /\ \A u \in Test : /\ u # t => phase'[u] = phase[u] /\ tracked'[u] = tracked[u]
                           /\ u # t => refused'[u] = refused[u]
        /\ refused'[t] /\ UNCHANGED <<late, cut>>
    BY <1>0, <1>6 DEF CleanupFails, Ended
  <2> QED BY <2>1 DEF DockerInv, LostVolumes, Lost
<1>7. ASSUME NEW request \in Request, LateRequest(request) PROVE DockerInv'
  <2>1. /\ request \in late /\ late' \subseteq late /\ UNCHANGED <<testVars, cut>>
    BY <1>7 DEF LateRequest
  <2>2. CASE UNCHANGED <<volumes, containers>>
    BY <2>1, <2>2 DEF DockerInv, LostVolumes, Lost, testVars
  <2>3. CASE /\ request[1] # "tar"
             /\ volumes' = volumes \cup {Volume(request[2])}
             /\ containers' = IF request[1] = "container" THEN containers \cup {request[2]}
                                                          ELSE containers
    <3>1. request = <<request[1], request[2]>> /\ request[2] \in Node BY DEF Request
    <3>2. request[1] # "curl" BY <2>1, <3>1 DEF DockerInv
    <3>3. request[1] \in {"volume", "container"} BY <2>3, <3>2 DEF Request
    <3>4. request[2] \in Lost /\ Volume(request[2]) \in LostVolumes
      BY <1>0, <2>1, <3>3 DEF Lost, LostVolumes
    <3>5. Lost' = Lost /\ LostVolumes' = LostVolumes BY <2>1 DEF LostVolumes, Lost
    <3> QED BY <2>1, <2>3, <3>4, <3>5 DEF DockerInv, testVars
  <2> QED BY <1>7, <2>2, <2>3 DEF LateRequest
<1> USE DockerIdle DEF testVars, daemonVars
<1>8. ASSUME NEW n \in Node, CheckClient(n) \/ TryLock(n) \/ LockTimesOut(n) \/ CurlReturns(n)
                             \/ BinaryReturns(n) \/ TarReturns(n) \/ CreateVolume(n) \/ Ready(n)
      PROVE  DockerInv'
  <2>1. UNCHANGED <<testVars, daemonVars, cut>>
    BY <1>8 DEF CheckClient, TryLock, Locked, LockTimesOut, CurlReturns, BinaryReturns,
                TarReturns, CreateVolume, Ready
  <2> QED BY <2>1
<1>9. ASSUME NEW n \in Node, CurlStep(n) PROVE DockerInv'
  BY <1>9 DEF CurlStep, CurlOpens, CurlWrites, CurlFails
<1>10. ASSUME NEW t \in Test, BatchJoined(t) \/ TestEnds(t) PROVE DockerInv'
  <2>1. UNCHANGED <<tracked, refused, daemonVars, cut>>
    BY <1>10 DEF BatchJoined, TestEnds
  <2>2. \A u \in Test : phase'[u] = phase[u] \/ phase'[u] \in {"running", "cleanup"}
    BY <1>0, <1>10 DEF BatchJoined, TestEnds
  <2> QED BY <2>1, <2>2
<1>11. CASE UNCHANGED vars BY <1>11 DEF vars
<1> QED
  BY <1>1, <1>2, <1>3, <1>4, <1>5, <1>6, <1>7, <1>8, <1>9, <1>10, <1>11
  DEF Next, NodeStep, TestStep

-----------------------------------------------------------------------------
(* The theorems                                                            *)

Inv == TypeOK /\ LockInv /\ CurlInv /\ LoadInv /\ CleanInv /\ DockerInv

LEMMA InvInit == Init => Inv
<1> SUFFICES ASSUME Init PROVE Inv OBVIOUS
<1>0. /\ NoCurl.state = "none" /\ NoCurl.wrote = 0
      /\ None \notin Node /\ \A n \in Node : curl[n] = NoCurl /\ pc[n] = "new"
  BY ClementineAssumption DEF ClementineAssumption, NoCurl, Init
<1>1. LockInv BY <1>0 DEF Init, LockInv
<1>2. CurlInv BY <1>0 DEF CurlInv, CurlOK
<1>3. LoadInv BY <1>0 DEF LoadInv, LoadOK
<1>4. CleanInv BY DEF Init, CleanInv
<1>5. DockerInv BY DEF Init, DockerInv
<1> QED BY <1>1, <1>2, <1>3, <1>4, <1>5, TypeInit DEF Inv

LEMMA InvHolds == Spec => []Inv
<1>1. Inv /\ [Next]_vars => Inv'
  BY TypeStep, LockStep, CurlInvStep, LoadStep, CleanStep, DockerStep DEF Inv
<1> QED BY <1>1, InvInit, PTL DEF Spec

(* The variables of Clementine keep their types: above all, no curl writes *)
(* more than the download has, nor to a file that is not there.            *)
THEOREM TypeCorrect == Spec => []TypeOK
<1> QED BY InvHolds, PTL DEF Inv

(* With the file lock the archive a node has downloaded is whole, unless   *)
(* the curl of a dropped node runs on without it.                          *)
THEOREM DownloadsExclusive == Spec => []DownloadsDoNotRace
<1>1. Inv => DownloadsDoNotRace BY DEF Inv, LoadInv, LoadOK, Stray, DownloadsDoNotRace
<1> QED BY <1>1, InvHolds, PTL

(* A container gets a whole docker client, but where one was being         *)
(* unpacked, or a single binary downloaded, when a test was cut off.       *)
THEOREM ClientsWhole == Spec => []WholeClient
<1>1. Inv => WholeClient BY DEF Inv, CleanInv, Tampered, WholeClient
<1> QED BY <1>1, InvHolds, PTL

(* A test that has cleaned up leaves in docker only what was asked for by  *)
(* requests nobody waited for.                                             *)
THEOREM LeftInDocker == Spec => []LeavesOnlyWhatWasCut
<1>1. Inv => LeavesOnlyWhatWasCut
  BY DEF Inv, DockerInv, LostVolumes, Lost, LeavesOnlyWhatWasCut
<1> QED BY <1>1, InvHolds, PTL
=============================================================================
