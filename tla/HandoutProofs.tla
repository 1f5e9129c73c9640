---------------------------- MODULE HandoutProofs ----------------------------
(***************************************************************************)
(* Theorems about Runner, for any number of files, servers, peers,         *)
(* connections and blocks.  First what a finished task says about its      *)
(* file, what the login book says about connections, and whom the logged-in*)
(* servers are asked for; then how the blocks of a file are handed out:    *)
(* every byte handed out is on disk or owed by a peer that is connected,   *)
(* it is asked of one peer only, and no packet is written to a file that   *)
(* is closed.                                                              *)
(***************************************************************************)
EXTENDS Runner, SequenceTheorems, FiniteSetTheorems, TLAPS, SortedPartProofs

Finals == {"none", "whole", "broken"}

(* The task a Sending of f carries is a row for f.                          *)
TaskOfFile ==
    \A f \in File : stask[f] # 0 =>
        stask[f] \in DOMAIN tasks /\ tasks[stask[f]].file = f

(* DoneMeansWhole is not inductive: sendDone marks the row the Sending      *)
(* carries, which must be a row for the file that was renamed.              *)
TaskInv ==
    /\ tasks \in Seq(Row)
    /\ fin \in [File -> Finals]
    /\ stask \in [File -> Nat]
    /\ sending \in [Cid -> File \cup {NoFile}]
    /\ TaskOfFile
    /\ DoneMeansWhole

(* What becomes of the final files in any step: nothing, or one right file  *)
(* is moved into place.                                                     *)
FinStep ==
    \/ UNCHANGED fin
    \/ \E f \in File : fin' = [fin EXCEPT ![f] = "whole"]

-------------------------------------------------------------------------------
LEMMA InitTaskInv == Init => TaskInv
<1> SUFFICES ASSUME Init PROVE TaskInv
  OBVIOUS
<1>1. tasks \in Seq(Row) /\ DOMAIN tasks = {}
  BY EmptySeq DEF Init
<1>2. /\ fin \in [File -> Finals]
      /\ stask \in [File -> Nat]
      /\ sending \in [Cid -> File \cup {NoFile}]
  BY DEF Init, Finals
<1>3. TaskOfFile
  BY DEF Init, TaskOfFile
<1>4. DoneMeansWhole
  BY <1>1 DEF DoneMeansWhole
<1> QED BY <1>1, <1>2, <1>3, <1>4 DEF TaskInv

(* A step that leaves the table, the files and the tasks of the Sendings    *)
(* alone.                                                                   *)
LEMMA TaskFrame ==
    ASSUME TaskInv, UNCHANGED <<tasks, fin, stask>>,
           sending' \in [Cid -> File \cup {NoFile}]
    PROVE  TaskInv'
BY DEF TaskInv, TaskOfFile, DoneMeansWhole

(* A row is added; the Sending of its file may be given it.                 *)
LEMMA TaskAdded ==
    ASSUME TaskInv, NEW f \in File, InsertRow(f), UNCHANGED <<fin, sending>>,
           \/ UNCHANGED stask
           \/ stask' = [stask EXCEPT ![f] = Len(tasks')]
    PROVE  TaskInv'
<1> DEFINE n == Len(tasks)
           row == [file |-> f, status |-> "running"]
<1>1. tasks \in Seq(Row) /\ row \in Row /\ n \in Nat /\ DOMAIN tasks = 1 .. n
  BY LenProperties DEF TaskInv, Row
<1>2. tasks' = Append(tasks, row)
  BY DEF InsertRow
<1>3. /\ tasks' \in Seq(Row) /\ Len(tasks') = n + 1
      /\ \A i \in 1 .. n : tasks'[i] = tasks[i]
      /\ tasks'[n + 1] = row
  BY <1>1, <1>2, AppendProperties
<1>4. DOMAIN tasks' = 1 .. n + 1
  BY <1>3, LenProperties
<1> HIDE DEF n
<1>5. stask' \in [File -> Nat]
  BY <1>1, <1>3 DEF TaskInv
<1>6. ASSUME NEW g \in File, stask'[g] # 0
      PROVE  stask'[g] \in DOMAIN tasks' /\ tasks'[stask'[g]].file = g
  <2>1. CASE stask'[g] = stask[g]
    <3>1. stask[g] \in 1 .. n /\ tasks[stask[g]].file = g
      BY <1>1, <1>6, <2>1 DEF TaskInv, TaskOfFile
    <3> QED BY <1>1, <1>3, <1>4, <2>1, <3>1
  <2>2. CASE g = f /\ stask'[g] = n + 1
    BY <1>1, <1>3, <1>4, <2>2
  <2> QED BY <1>3, <2>1, <2>2 DEF TaskInv
<1>7. ASSUME NEW i \in DOMAIN tasks', tasks'[i].status = "done"
      PROVE  fin'[tasks'[i].file] = "whole"
  <2>1. i # n + 1
    BY <1>3, <1>7
  <2>2. i \in 1 .. n
    BY <1>1, <1>4, <2>1
  <2>3. tasks'[i] = tasks[i] /\ i \in DOMAIN tasks
    BY <1>1, <1>3, <2>2
  <2> QED BY <1>7, <2>3 DEF TaskInv, DoneMeansWhole
<1> QED BY <1>3, <1>5, <1>6, <1>7 DEF TaskInv, TaskOfFile, DoneMeansWhole

(* A right file f is moved into place and its row, if its Sending has one,  *)
(* is marked.                                                               *)
LEMMA TaskDone ==
    ASSUME TaskInv, NEW f \in File, fin' = [fin EXCEPT ![f] = "whole"],
           tasks' = IF stask[f] = 0 THEN tasks
                    ELSE [tasks EXCEPT ![stask[f]].status = "done"],
           UNCHANGED stask,
           sending' \in [Cid -> File \cup {NoFile}]
    PROVE  TaskInv'
<1>1. fin' \in [File -> Finals] /\ fin'[f] = "whole"
  BY DEF TaskInv, Finals
<1>2. \A g \in File : fin[g] = "whole" => fin'[g] = "whole"
  BY DEF TaskInv
<1>3. tasks \in Seq(Row) /\ \A i \in DOMAIN tasks : tasks[i] \in Row
  BY ElementOfSeq DEF TaskInv
<1>4. CASE stask[f] = 0
  <2>1. tasks' = tasks
    BY <1>4
  <2> QED BY <1>1, <1>2, <1>3, <2>1 DEF TaskInv, TaskOfFile, DoneMeansWhole, Row
<1>5. CASE stask[f] # 0
  <2> DEFINE k == stask[f]
             row == [tasks[k] EXCEPT !.status = "done"]
  <2>1. k \in DOMAIN tasks /\ tasks[k].file = f
    BY <1>5 DEF TaskInv, TaskOfFile
  <2>2. row \in Row /\ row.file = f
    BY <1>3, <2>1 DEF Row
  <2>3. tasks' = [tasks EXCEPT ![k] = row]
    BY <1>5
  <2>4. /\ tasks' \in Seq(Row) /\ DOMAIN tasks' = DOMAIN tasks
        /\ \A i \in DOMAIN tasks : tasks'[i] = IF i = k THEN row ELSE tasks[i]
    <3> HIDE DEF row
    <3> QED BY <1>3, <2>1, <2>2, <2>3, ExceptSeq, LenProperties
  <2>5. \A i \in DOMAIN tasks : tasks'[i].file = tasks[i].file
    BY <2>1, <2>2, <2>4
  <2>6. TaskOfFile'
    BY <2>4, <2>5 DEF TaskInv, TaskOfFile
  <2>7. DoneMeansWhole'
    <3> SUFFICES ASSUME NEW i \in DOMAIN tasks, tasks'[i].status = "done"
                 PROVE  fin'[tasks'[i].file] = "whole"
      BY <2>4 DEF DoneMeansWhole
    <3>1. CASE i = k
      BY <1>1, <2>1, <2>5, <3>1
    <3>2. CASE i # k
      <4>1. tasks'[i] = tasks[i] /\ tasks[i].file \in File
        BY <1>3, <2>4, <3>2 DEF Row
      <4> QED BY <1>2, <4>1 DEF TaskInv, DoneMeansWhole
    <3> QED BY <3>1, <3>2
  <2> QED BY <1>1, <2>4, <2>6, <2>7 DEF TaskInv
<1> QED BY <1>4, <1>5

-------------------------------------------------------------------------------
(* The end of the process leaves the memory as it was. *)
LEMMA DieFrame ==
    ASSUME NEW how, Die(how)
    PROVE  UNCHANGED <<netVars, openVars, bookVars, sendVars>>
BY DEF Die, memVars

(* A packet, with all that follows from it. *)
LEMMA TaskPacket ==
    ASSUME TaskInv, NEW c \in Cid, sending[c] \in File,
           NEW p, NEW good, NEW again, TakePacket(c, p, good, again)
    PROVE  TaskInv' /\ FinStep
<1> DEFINE f == sending[c]
<1>1. UNCHANGED stask
  BY DEF TakePacket
<1>2. CASE WriteReturns(f, p[1], p[2]) /\ Valid(f, p[1], p[2], good)
  <2>1. fin' = [fin EXCEPT ![f] = "whole"]
    BY <1>2 DEF TakePacket, Valid, Rename
  <2>2. tasks' = IF stask[f] = 0 THEN tasks
                 ELSE [tasks EXCEPT ![stask[f]].status = "done"]
    BY <1>2 DEF TakePacket
  <2>3. sending' \in [Cid -> File \cup {NoFile}]
    <3>1. sending' = [sending EXCEPT ![c] = NoFile]
      BY <1>2 DEF TakePacket
    <3> QED BY <3>1 DEF TaskInv
  <2>4. PICK g \in File : g = f
    OBVIOUS
  <2> HIDE DEF f
  <2> QED BY <1>1, <2>1, <2>2, <2>3, <2>4, TaskDone DEF FinStep
<1>3. CASE ~(WriteReturns(f, p[1], p[2]) /\ Valid(f, p[1], p[2], good))
  <2>1. UNCHANGED <<tasks, fin, stask, sending>>
    BY <1>1, <1>3 DEF TakePacket
  <2>2. sending' \in [Cid -> File \cup {NoFile}]
    BY <2>1 DEF TaskInv
  <2> QED BY <2>1, <2>2, TaskFrame DEF FinStep
<1> QED BY <1>2, <1>3

LEMMA NextTaskInv ==
    ASSUME TaskInv, [Next]_vars
    PROVE  TaskInv' /\ FinStep
<1>1. sending \in [Cid -> File \cup {NoFile}]
  BY DEF TaskInv
<1>2. ASSUME UNCHANGED <<tasks, fin, stask>>,
             sending' \in [Cid -> File \cup {NoFile}]
      PROVE  TaskInv' /\ FinStep
  BY <1>2, TaskFrame DEF FinStep
<1>3. ASSUME UNCHANGED <<tasks, fin, stask, sending>>
      PROVE  TaskInv' /\ FinStep
  BY <1>1, <1>2, <1>3
<1>4. CASE Boot
  <2>1. UNCHANGED <<tasks, fin>> /\ stask' = [f \in File |-> 0]
        /\ sending' = [c \in Cid |-> NoFile]
    BY <1>4 DEF Boot
  <2> QED BY <2>1 DEF TaskInv, TaskOfFile, DoneMeansWhole, FinStep
<1>5. CASE Kill
  BY <1>3, <1>5, DieFrame DEF Kill, sendVars
<1>6. ASSUME NEW c \in Cid, Handle(c) PROVE TaskInv' /\ FinStep
  <2>1. CASE Established(c)
    BY <1>3, <2>1 DEF Established, fileVars, sendVars
  <2>2. CASE OnFail(c)
    BY <1>3, <2>2 DEF OnFail, fileVars, sendVars
  <2>3. CASE OnServerList(c)
    BY <1>3, <2>3 DEF OnServerList, fileVars, sendVars
  <2>4. CASE OnLogined(c)
    <3>1. UNCHANGED <<fin, tasks>>
      BY <2>4 DEF OnLogined
    <3>2. UNCHANGED sendVars
      BY <2>4, DieFrame DEF OnLogined
    <3> QED BY <1>3, <3>1, <3>2 DEF sendVars
  <2>5. ASSUME NEW f \in File, OnFoundSource(c, f) PROVE TaskInv' /\ FinStep
    <3>1. UNCHANGED <<fin, tasks>>
      BY <2>5 DEF OnFoundSource
    <3>2. CASE f \notin opened
      <4>1. UNCHANGED sendVars
        BY <2>5, <3>2, DieFrame DEF OnFoundSource
      <4> QED BY <1>3, <3>1, <4>1 DEF sendVars
    <3>3. CASE f \in opened
      <4>1. UNCHANGED stask /\ \E S : sending' =
                [d \in Cid |-> IF d \in S THEN f ELSE sending[d]]
        BY <2>5, <3>3 DEF OnFoundSource
      <4>2. sending' \in [Cid -> File \cup {NoFile}]
        BY <1>1, <4>1
      <4> QED BY <1>2, <3>1, <4>1, <4>2
    <3> QED BY <3>2, <3>3
  <2>6. CASE OnAnswered(c)
    BY <1>3, <2>6 DEF OnAnswered, fileVars, sendVars
  <2>7. CASE OnUpAccepted(c)
    BY <1>3, <2>7 DEF OnUpAccepted, fileVars
  <2>8. CASE OnSending(c)
    <3>1. CASE sending[c] = NoFile
      BY <1>3, <2>8, <3>1 DEF OnSending, fileVars, sendVars
    <3>2. CASE sending[c] # NoFile /\ sending[c] \notin opened
      <4>1. Die("nullstream") /\ UNCHANGED <<fin, tasks>>
        BY <2>8, <3>2 DEF OnSending
      <4> QED BY <1>3, <4>1, DieFrame DEF sendVars
    <3>3. CASE sending[c] # NoFile /\ sending[c] \in opened
      <4>1. sending[c] \in File
        BY <1>1, <3>3
      <4>2. PICK p, again, good : TakePacket(c, p, good, again)
        BY <2>8, <3>3 DEF OnSending
      <4> QED BY <4>1, <4>2, TaskPacket
    <3> QED BY <3>1, <3>2, <3>3
  <2>9. CASE KillInSendDone(c)
    <3>1. PICK p, good : /\ Valid(sending[c], p[1], p[2], good)
                         /\ Rename(sending[c], p[1], p[2], good)
      BY <2>9 DEF KillInSendDone
    <3>2. UNCHANGED <<tasks, stask, sending>>
      BY <2>9, DieFrame DEF KillInSendDone, sendVars
    <3>3. fin' = [fin EXCEPT ![sending[c]] = "whole"]
      BY <3>1 DEF Valid, Rename
    <3>4. CASE sending[c] \in File
      <4>1. fin' \in [File -> Finals]
        BY <3>3 DEF TaskInv, Finals
      <4>2. \A g \in File : fin[g] = "whole" => fin'[g] = "whole"
        BY <3>3 DEF TaskInv
      <4>3. \A i \in DOMAIN tasks : tasks[i].file \in File
        <5>1. \A i \in DOMAIN tasks : tasks[i] \in Row
          BY ElementOfSeq DEF TaskInv
        <5> QED BY <5>1 DEF Row
      <4>4. DoneMeansWhole'
        BY <3>2, <4>2, <4>3 DEF TaskInv, DoneMeansWhole
      <4>5. FinStep
        BY <3>3, <3>4 DEF FinStep
      <4> QED BY <3>2, <4>1, <4>4, <4>5 DEF TaskInv, TaskOfFile
    <3>5. CASE sending[c] \notin File
      <4>1. UNCHANGED fin
        BY <3>3, <3>5 DEF TaskInv
      <4> QED BY <1>3, <3>2, <4>1
    <3> QED BY <3>4, <3>5
  <2>10. CASE HelloThrows(c)
    BY <1>3, <2>10, DieFrame DEF HelloThrows, sendVars
  <2> QED BY <1>6, <2>1, <2>2, <2>3, <2>4, <2>5, <2>6, <2>7, <2>8, <2>9, <2>10 DEF Handle
<1>7. ASSUME NEW f \in File, AddTask(f) PROVE TaskInv' /\ FinStep
  <2>1. InsertRow(f) /\ UNCHANGED <<fin, sending>>
    BY <1>7 DEF AddTask
  <2>2. UNCHANGED stask \/ stask' = [stask EXCEPT ![f] = Len(tasks')]
    BY <1>7 DEF AddTask
  <2> QED BY <2>1, <2>2, TaskAdded DEF FinStep
<1>8. ASSUME NEW f \in File, KillInAddTask(f) PROVE TaskInv' /\ FinStep
  <2>1. InsertRow(f) /\ UNCHANGED <<fin, sending, stask>>
    BY <1>8, DieFrame DEF KillInAddTask, sendVars
  <2> QED BY <2>1, TaskAdded DEF FinStep
<1>9. CASE UNCHANGED vars
  BY <1>3, <1>9 DEF vars, memVars, sendVars
<1> QED BY <1>4, <1>5, <1>6, <1>7, <1>8, <1>9 DEF Next

(* TaskInv holds of every behaviour. *)
THEOREM TaskInvariance == Spec => []TaskInv
<1>1. TaskInv /\ [Next]_vars => TaskInv'
  BY NextTaskInv
<1> QED BY <1>1, InitTaskInv, PTL DEF Spec

(* A row says done only when the whole, right file is at its final path.    *)
THEOREM RowsDoneAreWhole == Spec => []DoneMeansWhole
<1>1. TaskInv => DoneMeansWhole
  BY DEF TaskInv
<1> QED BY <1>1, TaskInvariance, PTL

(* No step takes a finished file back.                                      *)
THEOREM WholeFilesStay == Spec => FinishedStays
<1> DEFINE Step == \A f \in File : fin[f] = "whole" => fin'[f] = "whole"
<1>1. TaskInv /\ [Next]_vars => [Step]_vars
  <2> SUFFICES ASSUME TaskInv, [Next]_vars PROVE Step
    OBVIOUS
  <2>1. FinStep
    BY NextTaskInv
  <2> QED BY <2>1 DEF FinStep, TaskInv
<1> HIDE DEF Step
<1>2. Spec => [][Step]_vars
  BY <1>1, TaskInvariance, PTL DEF Spec
<1> QED BY <1>2 DEF FinishedStays, Step

-------------------------------------------------------------------------------
(* Who has been dialled, and by which id.  OneLinkPerServer is not          *)
(* inductive: ids not in use must have no address, and every server with an *)
(* id must be in the book.                                                  *)
Links(next, addr, known) ==
    /\ next \in 1 .. MaxConn + 1
    /\ addr \in [Cid -> Address \cup {NoAddr}]
    /\ known \subseteq Server
    /\ \A c \in Cid : c >= next => addr[c] = NoAddr
    /\ \A c \in Cid : addr[c] \in Server => addr[c] \in known
    /\ \A c, d \in Cid : addr[c] = addr[d] /\ addr[c] \in Server => c = d

LinkInv == Links(nextId, esrv, allsrvs)

(* The ids dialled are the next ones, each for an address of its own.       *)
LEMMA DialsShape ==
    ASSUME NEW base \in 1 .. MaxConn + 1, NEW S, NEW who \in Dials(base, S)
    PROVE  /\ base + Cardinality(DOMAIN who) \in base .. MaxConn + 1
           /\ \A c : c \in DOMAIN who <=>
                 c \in Cid /\ base <= c /\ c < base + Cardinality(DOMAIN who)
           /\ \A c \in DOMAIN who : who[c] \in S
           /\ \A c, d \in DOMAIN who : who[c] = who[d] => c = d
<1>1. PICK last \in base - 1 .. MaxConn : who \in Bijection(base .. last, S)
  BY DEF Dials
<1>2. /\ DOMAIN who = base .. last
      /\ \A c \in DOMAIN who : who[c] \in S
      /\ \A c, d \in DOMAIN who : who[c] = who[d] => c = d
  BY <1>1 DEF Bijection, Injection, Surjection, IsInjective
<1>3. base \in Nat /\ base >= 1 /\ last \in Int /\ MaxConn \in Nat /\ base - 1 <= last /\ last <= MaxConn
  BY ED2KAssumption
<1>4. Cardinality(base .. last) = last - base + 1
  <2>1. base \in Int /\ last \in Int
    BY <1>3
  <2>2. Cardinality(base .. last) = IF base > last THEN 0 ELSE last - base + 1
    BY <2>1, FS_Interval
  <2> QED BY <1>3, <2>2
<1>5. base + Cardinality(DOMAIN who) = last + 1
  BY <1>2, <1>3, <1>4
<1> QED BY <1>2, <1>3, <1>5 DEF Cid

(* Dialling addresses that are not in the book keeps the book right.        *)
LEMMA ConnectLinks ==
    ASSUME NEW base, NEW st, NEW ad, NEW known, Links(base, ad, known),
           NEW S \in SUBSET Address, S \cap known = {},
           NEW who \in Dials(base, S), NEW down, Connect(base, st, ad, who, down)
    PROVE  Links(nextId', esrv', known \cup (S \cap Server))
<1>1. /\ base \in 1 .. MaxConn + 1
      /\ ad \in [Cid -> Address \cup {NoAddr}]
      /\ \A c \in Cid : c >= base => ad[c] = NoAddr
      /\ \A c \in Cid : ad[c] \in Server => ad[c] \in known
      /\ \A c, d \in Cid : ad[c] = ad[d] /\ ad[c] \in Server => c = d
  BY DEF Links
<1>2. base \in Nat /\ MaxConn \in Nat /\ base <= MaxConn + 1 /\ 1 <= base
  BY <1>1, ED2KAssumption
<1>3. /\ nextId' \in base .. MaxConn + 1
      /\ \A c : c \in DOMAIN who <=> c \in Cid /\ base <= c /\ c < nextId'
      /\ \A c \in DOMAIN who : who[c] \in S
      /\ \A c, d \in DOMAIN who : who[c] = who[d] => c = d
  BY <1>1, DialsShape DEF Connect
<1>4. esrv' = [c \in Cid |->
                  IF c \notin DOMAIN who THEN ad[c]
                  ELSE IF who[c] \in down THEN NoAddr ELSE who[c]]
  BY DEF Connect
<1>5. NoAddr \notin Server
  BY EmuleXAssumption
<1>6. esrv' \in [Cid -> Address \cup {NoAddr}]
  BY <1>1, <1>3, <1>4
<1>7. \A c \in Cid : c >= nextId' => esrv'[c] = NoAddr
  BY <1>1, <1>2, <1>3, <1>4 DEF Cid
<1>8. \A c \in Cid : esrv'[c] \in Server => esrv'[c] \in known \cup (S \cap Server)
  BY <1>1, <1>3, <1>4, <1>5
<1>9. ASSUME NEW c \in Cid, NEW d \in Cid, esrv'[c] = esrv'[d], esrv'[c] \in Server
      PROVE  c = d
  <2>1. CASE c \in DOMAIN who /\ d \in DOMAIN who
    BY <1>3, <1>4, <1>5, <1>9, <2>1
  <2>2. CASE c \in DOMAIN who /\ d \notin DOMAIN who
    BY <1>1, <1>3, <1>4, <1>5, <1>9, <2>2
  <2>3. CASE c \notin DOMAIN who /\ d \in DOMAIN who
    BY <1>1, <1>3, <1>4, <1>5, <1>9, <2>3
  <2>4. CASE c \notin DOMAIN who /\ d \notin DOMAIN who
    BY <1>1, <1>4, <1>9, <2>4
  <2> QED BY <2>1, <2>2, <2>3, <2>4
<1>10. known \cup (S \cap Server) \subseteq Server
  BY DEF Links
<1>11. nextId' \in 1 .. MaxConn + 1
  BY <1>2, <1>3
<1> QED BY <1>6, <1>7, <1>8, <1>9, <1>10, <1>11 DEF Links

(* The login book: a logged-in connection leads to a server, no connection  *)
(* logs in twice, and connected counts the live ones.                       *)
LoginInv ==
    /\ stage \in [Cid -> {"none", "connecting", "open", "closed"}]
    /\ due \in [Cid -> SUBSET Messages]
    /\ logined \subseteq Cid
    /\ connected \in [Address -> Nat]
    /\ \A c \in Cid : stage[c] = "connecting" \/ "idchange" \in due[c] => c \notin logined
    /\ \A c \in Cid : "idchange" \in due[c] => esrv[c] \in Server
    /\ \A c \in logined : esrv[c] \in Server
    /\ \A c \in Cid : stage[c] = "connecting" => esrv[c] \in Address
    /\ ConnectedCounts

BookInv == LinkInv /\ LoginInv

LEMMA InitBook == Init => BookInv
<1> SUFFICES ASSUME Init PROVE BookInv
  OBVIOUS
<1>1. MaxConn \in Nat /\ NoAddr \notin Server
  BY ED2KAssumption, EmuleXAssumption
<1>2. LinkInv
  BY <1>1 DEF Init, LinkInv, Links, NoEsrv, Cid
<1>3. ConnectedCounts
  <2>1. \A s \in Server :
           connected[s] = 0
           /\ { c \in logined : stage[c] = "open" /\ esrv[c] = s } = {}
    BY DEF Init, Address
  <2> QED BY <2>1, FS_EmptySet DEF ConnectedCounts
<1>4. LoginInv
  BY <1>1, <1>3 DEF Init, LoginInv, NoStage, NoDue, NoEsrv
<1> QED BY <1>2, <1>4 DEF BookInv

(* A step that touches neither the book nor the table of connections.       *)
LEMMA BookFrame ==
    ASSUME BookInv, UNCHANGED <<nextId, esrv, stage, due, bookVars>>
    PROVE  BookInv'
BY DEF BookInv, LinkInv, LoginInv, ConnectedCounts, bookVars

(* Dialling new ids keeps the counts: no id dialled is logged in.           *)
LEMMA ConnectCounts ==
    ASSUME LinkInv, LoginInv, NEW S \in SUBSET Address, NEW who \in Dials(nextId, S),
           NEW down, Connect(nextId, stage, esrv, who, down),
           due' \in [Cid -> SUBSET Messages],
           \A c \in Cid : due'[c] \subseteq due[c],
           UNCHANGED <<logined, connected>>
    PROVE  LoginInv'
<1>1. /\ nextId \in 1 .. MaxConn + 1 /\ nextId \in Nat
      /\ \A c \in Cid : c >= nextId => esrv[c] = NoAddr
  BY ED2KAssumption DEF LinkInv, Links
<1>2. /\ \A c \in DOMAIN who : c \in Cid /\ c >= nextId
      /\ \A c \in DOMAIN who : who[c] \in S
  BY <1>1, DialsShape DEF Cid
<1>3. NoAddr \notin Server
  BY EmuleXAssumption
<1>4. \A c \in DOMAIN who : c \notin logined /\ "idchange" \notin due[c]
  BY <1>1, <1>2, <1>3 DEF LoginInv
<1>5. /\ stage' = [c \in Cid |->
                      IF c \notin DOMAIN who THEN stage[c]
                      ELSE IF who[c] \in down THEN "closed" ELSE "connecting"]
      /\ esrv' = [c \in Cid |->
                      IF c \notin DOMAIN who THEN esrv[c]
                      ELSE IF who[c] \in down THEN NoAddr ELSE who[c]]
  BY DEF Connect
<1>6. \A c \in Cid : c \notin DOMAIN who => stage'[c] = stage[c] /\ esrv'[c] = esrv[c]
  BY <1>5
<1>7. stage' \in [Cid -> {"none", "connecting", "open", "closed"}]
  BY <1>5 DEF LoginInv
<1>8. ASSUME NEW c \in Cid, stage'[c] = "connecting" \/ "idchange" \in due'[c]
      PROVE  c \notin logined'
  BY <1>4, <1>6, <1>8 DEF LoginInv
<1>9. ASSUME NEW c \in Cid, "idchange" \in due'[c] PROVE esrv'[c] \in Server
  BY <1>4, <1>6, <1>9 DEF LoginInv
<1>10. ASSUME NEW c \in logined' PROVE esrv'[c] \in Server
  BY <1>4, <1>6, <1>10 DEF LoginInv
<1>11. ASSUME NEW c \in Cid, stage'[c] = "connecting" PROVE esrv'[c] \in Address
  BY <1>2, <1>5, <1>11 DEF LoginInv
<1>12. ConnectedCounts'
  <2> SUFFICES ASSUME NEW s \in Server
               PROVE  connected'[s] =
                        Cardinality({ c \in logined' : stage'[c] = "open" /\ esrv'[c] = s })
    BY DEF ConnectedCounts
  <2>1. { c \in logined' : stage'[c] = "open" /\ esrv'[c] = s }
          = { c \in logined : stage[c] = "open" /\ esrv[c] = s }
    BY <1>4, <1>6 DEF LoginInv
  <2> QED BY <2>1 DEF LoginInv, ConnectedCounts
<1> QED BY <1>7, <1>8, <1>9, <1>10, <1>11, <1>12 DEF LoginInv

(* A step that, of the book and the connections, changes no more than what  *)
(* the other ends owe, and adds no login to it.                             *)
LEMMA BookDue ==
    ASSUME BookInv, UNCHANGED <<nextId, esrv, stage, bookVars>>,
           due' \in [Cid -> SUBSET Messages],
           \A c \in Cid : "idchange" \in due'[c] => "idchange" \in due[c]
    PROVE  BookInv'
BY DEF BookInv, LinkInv, LoginInv, ConnectedCounts, bookVars

LEMMA BootBook == Boot => BookInv'
<1> SUFFICES ASSUME Boot PROVE BookInv'
  OBVIOUS
<1>0. PICK who \in Dials(1, InitSrvs) : \E down : Connect(1, NoStage, NoEsrv, who, down)
  BY DEF Boot
<1>1. PICK down : Connect(1, NoStage, NoEsrv, who, down)
  BY <1>0
<1>2. MaxConn \in Nat /\ NoAddr \notin Server /\ InitSrvs \in SUBSET Address
      /\ InitSrvs \cap Server = InitSrvs
  BY ED2KAssumption, EmuleXAssumption, RunnerAssumption DEF Address
<1>3. Links(1, NoEsrv, {})
  BY <1>2 DEF Links, NoEsrv, Cid
<1>4. Links(nextId', esrv', {} \cup (InitSrvs \cap Server))
  BY <1>1, <1>2, <1>3, ConnectLinks
<1>5. LinkInv'
  BY <1>2, <1>4 DEF LinkInv, Boot
<1>6. /\ stage' \in [Cid -> {"none", "connecting", "open", "closed"}]
      /\ \A c \in Cid : stage'[c] = "connecting" => esrv'[c] \in Address
  <2>1. 1 \in 1 .. MaxConn + 1
    BY <1>2
  <2>2. \A c \in DOMAIN who : who[c] \in InitSrvs
    BY <2>1, DialsShape
  <2>3. \A c \in Cid :
           /\ stage'[c] = IF c \notin DOMAIN who THEN "none"
                          ELSE IF who[c] \in down THEN "closed" ELSE "connecting"
           /\ c \in DOMAIN who /\ who[c] \notin down => esrv'[c] = who[c]
    BY <1>1 DEF Connect, NoStage
  <2>4. stage' \in [Cid -> {"none", "connecting", "open", "closed"}]
    BY <1>1 DEF Connect, NoStage
  <2> QED BY <1>2, <2>2, <2>3, <2>4
<1>7. ConnectedCounts'
  <2>1. \A s \in Server :
           connected'[s] = 0
           /\ { c \in logined' : stage'[c] = "open" /\ esrv'[c] = s } = {}
    BY DEF Boot, Address
  <2> QED BY <2>1, FS_EmptySet DEF ConnectedCounts
<1>8. LoginInv'
  BY <1>6, <1>7 DEF Boot, LoginInv, NoDue
<1> QED BY <1>5, <1>8 DEF BookInv

LEMMA EstablishedBook ==
    ASSUME BookInv, NEW c \in Cid, Established(c)
    PROVE  BookInv'
<1>1. UNCHANGED <<nextId, esrv, bookVars>>
  BY DEF Established, OnConn, OnConnFailed
<1>2. stage[c] = "connecting" /\ c \notin logined /\ esrv[c] \in Address
  BY DEF Established, OnConn, OnConnFailed, BookInv, LoginInv
<1>3. /\ stage' \in [Cid -> {"none", "connecting", "open", "closed"}]
      /\ stage'[c] # "connecting"
      /\ \A d \in Cid : d # c => stage'[d] = stage[d]
  BY DEF Established, OnConn, OnConnFailed, BookInv, LoginInv
<1>4. /\ due' \in [Cid -> SUBSET Messages]
      /\ "idchange" \in due'[c] => "idchange" \in due[c] \/ esrv[c] \in Server
      /\ \A d \in Cid : d # c => due'[d] = due[d]
  BY DEF Established, OnConn, OnConnFailed, BookInv, LoginInv, Messages
<1>5. LinkInv'
  BY <1>1 DEF BookInv, LinkInv, bookVars
<1>6. ConnectedCounts'
  <2> SUFFICES ASSUME NEW s \in Server
               PROVE  connected'[s] =
                        Cardinality({ d \in logined' : stage'[d] = "open" /\ esrv'[d] = s })
    BY DEF ConnectedCounts
  <2>1. { d \in logined' : stage'[d] = "open" /\ esrv'[d] = s }
          = { d \in logined : stage[d] = "open" /\ esrv[d] = s }
    BY <1>1, <1>2, <1>3 DEF BookInv, LoginInv, bookVars
  <2> QED BY <1>1, <2>1 DEF BookInv, LoginInv, ConnectedCounts, bookVars
<1>7. /\ \A d \in Cid : stage'[d] = "connecting" \/ "idchange" \in due'[d] => d \notin logined'
      /\ \A d \in Cid : "idchange" \in due'[d] => esrv'[d] \in Server
      /\ \A d \in logined' : esrv'[d] \in Server
      /\ \A d \in Cid : stage'[d] = "connecting" => esrv'[d] \in Address
  BY <1>1, <1>2, <1>3, <1>4 DEF BookInv, LoginInv, bookVars
<1>8. logined' \subseteq Cid /\ connected' \in [Address -> Nat]
  BY <1>1 DEF BookInv, LoginInv, bookVars
<1> QED BY <1>3, <1>4, <1>5, <1>6, <1>7, <1>8 DEF BookInv, LoginInv

LEMMA OnFailBook ==
    ASSUME BookInv, NEW c \in Cid, OnFail(c)
    PROVE  BookInv'
<1>1. UNCHANGED <<nextId, esrv, allsrvs, logined>>
  BY DEF OnFail, Closed
<1>2. esrv[c] \in Address
  BY ED2KAssumption DEF OnFail, Closed
<1>3. /\ stage' = [stage EXCEPT ![c] = "closed"]
      /\ due' = [due EXCEPT ![c] = {}]
      /\ connected' = [connected EXCEPT ![esrv[c]] = 0]
  BY DEF OnFail, Closed
<1>4. LinkInv'
  BY <1>1 DEF BookInv, LinkInv
<1>5. ConnectedCounts'
  <2> SUFFICES ASSUME NEW s \in Server
               PROVE  connected'[s] =
                        Cardinality({ d \in logined' : stage'[d] = "open" /\ esrv'[d] = s })
    BY DEF ConnectedCounts
  <2>1. CASE esrv[c] = s
    <3>1. { d \in logined' : stage'[d] = "open" /\ esrv'[d] = s } = {}
      BY <1>1, <1>3, <2>1 DEF BookInv, LinkInv, LoginInv, Links
    <3>2. connected'[s] = 0
      BY <1>2, <1>3, <2>1 DEF BookInv, LoginInv
    <3> QED BY <3>1, <3>2, FS_EmptySet
  <2>2. CASE esrv[c] # s
    <3>1. { d \in logined' : stage'[d] = "open" /\ esrv'[d] = s }
            = { d \in logined : stage[d] = "open" /\ esrv[d] = s }
      BY <1>1, <1>3, <2>2 DEF BookInv, LoginInv
    <3>2. connected'[s] = connected[s]
      BY <1>3, <2>2 DEF BookInv, LoginInv, Address
    <3> QED BY <3>1, <3>2 DEF BookInv, LoginInv, ConnectedCounts
  <2> QED BY <2>1, <2>2
<1>6. /\ stage' \in [Cid -> {"none", "connecting", "open", "closed"}]
      /\ due' \in [Cid -> SUBSET Messages]
      /\ connected' \in [Address -> Nat]
  BY <1>2, <1>3 DEF BookInv, LoginInv
<1>7. \A d \in Cid : /\ stage'[d] = "connecting" => stage[d] = "connecting"
                     /\ due'[d] \subseteq due[d]
  BY <1>3 DEF BookInv, LoginInv
<1>8. LoginInv'
  BY <1>1, <1>5, <1>6, <1>7 DEF BookInv, LoginInv
<1> QED BY <1>4, <1>8 DEF BookInv

LEMMA OnServerListBook ==
    ASSUME BookInv, NEW c \in Cid, OnServerList(c)
    PROVE  BookInv'
<1>1. PICK srvs \in ServerLists :
        /\ allsrvs' = allsrvs \cup Unknown(srvs)
        /\ \E who \in Dials(nextId, Unknown(srvs)) : \E down :
              Connect(nextId, stage, esrv, who, down)
  BY DEF OnServerList
<1> DEFINE new == Unknown(srvs)
<1>2. new \in SUBSET Address /\ new \cap allsrvs = {} /\ new \cap Server = new
  BY RunnerAssumption DEF Unknown, Address
<1>s. PICK who \in Dials(nextId, new) : \E down : Connect(nextId, stage, esrv, who, down)
  BY <1>1
<1>3. PICK down : Connect(nextId, stage, esrv, who, down)
  BY <1>s
<1>4. LinkInv /\ LoginInv
  BY DEF BookInv
<1> HIDE DEF new
<1>5. Links(nextId', esrv', allsrvs \cup (new \cap Server))
  BY <1>2, <1>3, <1>4, ConnectLinks DEF LinkInv
<1>6. LinkInv'
  BY <1>1, <1>2, <1>5 DEF LinkInv, new
<1>7. /\ due' \in [Cid -> SUBSET Messages]
      /\ \A d \in Cid : due'[d] \subseteq due[d]
  BY <1>4 DEF OnServerList, LoginInv
<1>8. UNCHANGED <<logined, connected>>
  BY DEF OnServerList
<1>9. LoginInv'
  BY <1>2, <1>3, <1>4, <1>7, <1>8, ConnectCounts
<1> QED BY <1>6, <1>9 DEF BookInv

LEMMA OnFoundSourceBook ==
    ASSUME BookInv, NEW c \in Cid, NEW f \in File, OnFoundSource(c, f)
    PROVE  BookInv'
<1>1. CASE f \notin opened
  <2>1. Die("threw")
    BY <1>1 DEF OnFoundSource
  <2> QED BY <2>1, DieFrame, BookFrame DEF netVars
<1>2. CASE f \in opened
  <2>1. UNCHANGED <<due, bookVars>>
    BY <1>2 DEF OnFoundSource
  <2>p. PICK peers \in SourceSets : \E who \in Dials(nextId, peers) : \E down :
            Connect(nextId, stage, esrv, who, down)
    BY <1>2 DEF OnFoundSource
  <2>w. PICK who \in Dials(nextId, peers) : \E down :
            Connect(nextId, stage, esrv, who, down)
    BY <2>p
  <2>2. PICK down : Connect(nextId, stage, esrv, who, down)
    BY <2>w
  <2>3. LinkInv /\ LoginInv
    BY DEF BookInv
  <2>4. peers \in SUBSET Address /\ peers \cap Server = {}
    BY EmuleXAssumption, RunnerAssumption DEF Address
  <2>5. peers \cap allsrvs = {}
    BY <2>3, <2>4 DEF LinkInv, Links
  <2>6. Links(nextId', esrv', allsrvs \cup (peers \cap Server))
    BY <2>2, <2>3, <2>4, <2>5, ConnectLinks DEF LinkInv
  <2>7. LinkInv'
    BY <2>1, <2>4, <2>6 DEF LinkInv, bookVars
  <2>8. /\ due' \in [Cid -> SUBSET Messages]
        /\ \A d \in Cid : due'[d] \subseteq due[d]
    BY <2>1, <2>3 DEF LoginInv
  <2>9. LoginInv'
    BY <2>1, <2>2, <2>3, <2>4, <2>8, ConnectCounts DEF bookVars
  <2> QED BY <2>7, <2>9 DEF BookInv
<1> QED BY <1>1, <1>2

LEMMA OnLoginedBook ==
    ASSUME BookInv, NEW c \in Cid, OnLogined(c)
    PROVE  BookInv'
<1>1. CASE Die("nulltask")
  BY <1>1, DieFrame, BookFrame DEF netVars
<1>2. CASE ~Die("nulltask")
  <2>1. stage[c] = "open" /\ "idchange" \in due[c]
    BY DEF OnLogined, Receives
  <2>2. /\ due' = [due EXCEPT ![c] = (@ \ {"idchange"}) \cup {"serverlist"}]
        /\ logined' = logined \cup {c}
        /\ connected' = [connected EXCEPT ![esrv[c]] = @ + 1]
        /\ UNCHANGED <<nextId, stage, esrv, allsrvs>>
    BY <1>2 DEF OnLogined
  <2>3. esrv[c] \in Server /\ c \notin logined
    BY <2>1 DEF BookInv, LoginInv
  <2>4. LinkInv'
    BY <2>2 DEF BookInv, LinkInv
  <2>5. due' \in [Cid -> SUBSET Messages]
    BY <2>2 DEF BookInv, LoginInv, Messages
  <2>6. \A d \in Cid : "idchange" \in due'[d] => d # c /\ "idchange" \in due[d]
    BY <2>2 DEF BookInv, LoginInv
  <2>7. connected' \in [Address -> Nat]
    BY <2>2, <2>3 DEF BookInv, LoginInv, Address
  <2>8. ConnectedCounts'
    <3> SUFFICES ASSUME NEW s \in Server
                 PROVE  connected'[s] =
                          Cardinality({ d \in logined' : stage'[d] = "open" /\ esrv'[d] = s })
      BY DEF ConnectedCounts
    <3>1. CASE esrv[c] = s
      <4>1. { d \in logined' : stage'[d] = "open" /\ esrv'[d] = s } = {c}
        BY <2>1, <2>2, <2>3, <3>1 DEF BookInv, LinkInv, LoginInv, Links
      <4>2. { d \in logined : stage[d] = "open" /\ esrv[d] = s } = {}
        BY <2>3, <3>1 DEF BookInv, LinkInv, LoginInv, Links
      <4>3. connected[s] = 0
        BY <4>2, FS_EmptySet DEF BookInv, LoginInv, ConnectedCounts
      <4>4. connected'[s] = 1
        BY <2>2, <3>1, <4>3 DEF BookInv, LoginInv, Address
      <4> QED BY <4>1, <4>4, FS_Singleton
    <3>2. CASE esrv[c] # s
      <4>1. { d \in logined' : stage'[d] = "open" /\ esrv'[d] = s }
              = { d \in logined : stage[d] = "open" /\ esrv[d] = s }
        BY <2>2, <3>2
      <4>2. connected'[s] = connected[s]
        BY <2>2, <3>2 DEF BookInv, LoginInv, Address
      <4> QED BY <4>1, <4>2 DEF BookInv, LoginInv, ConnectedCounts
    <3> QED BY <3>1, <3>2
  <2>9. LoginInv'
    BY <2>1, <2>2, <2>3, <2>5, <2>6, <2>7, <2>8 DEF BookInv, LoginInv
  <2> QED BY <2>4, <2>9 DEF BookInv
<1> QED BY <1>1, <1>2

LEMMA NextBook == BookInv /\ [Next]_vars => BookInv'
<1> SUFFICES ASSUME BookInv, [Next]_vars PROVE BookInv'
  OBVIOUS
<1>1. due \in [Cid -> SUBSET Messages]
  BY DEF BookInv, LoginInv
<1>2. ASSUME UNCHANGED <<netVars, bookVars>> PROVE BookInv'
  BY <1>2, BookFrame DEF netVars
<1>3. ASSUME UNCHANGED <<nextId, esrv, stage, due, bookVars>> PROVE BookInv'
  BY <1>3, BookFrame
<1>4. CASE Boot
  BY <1>4, BootBook
<1>5. CASE Kill
  BY <1>2, <1>5, DieFrame DEF Kill
<1>6. ASSUME NEW c \in Cid, Handle(c) PROVE BookInv'
  <2>1. CASE Established(c)
    BY <2>1, EstablishedBook
  <2>2. CASE OnFail(c)
    BY <2>2, OnFailBook
  <2>3. CASE OnServerList(c)
    BY <2>3, OnServerListBook
  <2>4. CASE OnLogined(c)
    BY <2>4, OnLoginedBook
  <2>5. CASE \E f \in File : OnFoundSource(c, f)
    BY <2>5, OnFoundSourceBook
  <2>6. CASE OnAnswered(c)
    <3>1. UNCHANGED <<nextId, esrv, stage, bookVars>>
      BY <2>6 DEF OnAnswered
    <3>2. /\ due' \in [Cid -> SUBSET Messages]
          /\ \A d \in Cid : "idchange" \in due'[d] => "idchange" \in due[d]
      BY <1>1, <2>6 DEF OnAnswered, Messages
    <3> QED BY <3>1, <3>2, BookDue
  <2>7. CASE OnUpAccepted(c)
    <3>1. UNCHANGED <<nextId, esrv, stage, bookVars>>
      BY <2>7 DEF OnUpAccepted
    <3>2. /\ due' \in [Cid -> SUBSET Messages]
          /\ \A d \in Cid : "idchange" \in due'[d] => "idchange" \in due[d]
      BY <1>1, <2>7 DEF OnUpAccepted
    <3> QED BY <3>1, <3>2, BookDue
  <2>8. CASE OnSending(c)
    <3>1. CASE sending[c] = NoFile
      BY <1>3, <2>8, <3>1 DEF OnSending
    <3>2. CASE sending[c] # NoFile /\ sending[c] \notin opened
      <4>1. Die("nullstream")
        BY <2>8, <3>2 DEF OnSending
      <4> QED BY <1>2, <4>1, DieFrame
    <3>3. CASE sending[c] # NoFile /\ sending[c] \in opened
      <4>1. PICK p, again, good : TakePacket(c, p, good, again)
        BY <2>8, <3>3 DEF OnSending
      <4> QED BY <1>3, <4>1 DEF TakePacket
    <3> QED BY <3>1, <3>2, <3>3
  <2>9. CASE KillInSendDone(c)
    BY <1>2, <2>9, DieFrame DEF KillInSendDone
  <2>10. CASE HelloThrows(c)
    BY <1>2, <2>10, DieFrame DEF HelloThrows
  <2> QED BY <1>6, <2>1, <2>2, <2>3, <2>4, <2>5, <2>6, <2>7, <2>8, <2>9, <2>10 DEF Handle
<1>7. ASSUME NEW f \in File, AddTask(f) PROVE BookInv'
  BY <1>3, <1>7 DEF AddTask
<1>8. ASSUME NEW f \in File, KillInAddTask(f) PROVE BookInv'
  BY <1>2, <1>8, DieFrame DEF KillInAddTask
<1>9. CASE UNCHANGED vars
  BY <1>2, <1>9 DEF vars, memVars
<1> QED BY <1>4, <1>5, <1>6, <1>7, <1>8, <1>9 DEF Next

(* BookInv holds of every behaviour. *)
THEOREM BookInvariance == Spec => []BookInv
BY InitBook, NextBook, PTL DEF Spec

(* A process dials a server at most once.                                   *)
THEOREM ServersDialledOnce == Spec => []OneLinkPerServer
<1>1. BookInv => OneLinkPerServer
  BY DEF BookInv, LinkInv, Links, OneLinkPerServer
<1> QED BY <1>1, BookInvariance, PTL

(* connected counts the live, logged-in connections of each server.         *)
THEOREM LoginsCounted == Spec => []ConnectedCounts
<1>1. BookInv => ConnectedCounts
  BY DEF BookInv, LoginInv
<1> QED BY <1>1, BookInvariance, PTL

-------------------------------------------------------------------------------
(* Which files the logged-in servers are asked for.  SourcesAsked is not    *)
(* inductive: what a login reads of the table must hold every open file, so *)
(* that the Sending of one carries a row that is still running.             *)
SourceInv ==
    /\ asked \in [Cid -> [File -> {"no", "asked", "answered"}]]
    /\ opened \subseteq File
    /\ \A f \in opened : stask[f] # 0 /\ tasks[stask[f]].status = "running"
    /\ SourcesAsked

(* A step that opens no file, logs no connection in and forgets no request. *)
LEMMA SourceFrame ==
    ASSUME SourceInv, UNCHANGED <<tasks, stask>>, opened' \subseteq opened,
           logined' \subseteq logined,
           \A c \in logined : stage'[c] = "open" => stage[c] = "open",
           asked' \in [Cid -> [File -> {"no", "asked", "answered"}]],
           \A c \in logined, f \in File : asked[c][f] # "no" => asked'[c][f] # "no"
    PROVE  SourceInv'
BY DEF SourceInv, SourcesAsked

(* One that does not touch the requests either. *)
LEMMA SourceStill ==
    ASSUME SourceInv, UNCHANGED <<tasks, stask, asked, logined>>, opened' \subseteq opened,
           \A c \in logined : stage'[c] = "open" => stage[c] = "open"
    PROVE  SourceInv'
<1>1. asked' \in [Cid -> [File -> {"no", "asked", "answered"}]]
  BY DEF SourceInv
<1> QED BY <1>1, SourceFrame

(* What listSource asks for stays asked, and what was asked before does.    *)
LEMMA ListSourceAsks ==
    ASSUME SourceInv, NEW C, NEW F, ListSource(C, F)
    PROVE  /\ asked' \in [Cid -> [File -> {"no", "asked", "answered"}]]
           /\ \A c \in Cid, f \in File :
                 /\ asked[c][f] # "no" => asked'[c][f] # "no"
                 /\ c \in C /\ stage[c] = "open" /\ f \in F => asked'[c][f] # "no"
BY DEF SourceInv, ListSource, tcs

(* As long as the table is no longer than what a login reads, it reads the  *)
(* row of every open file.                                                  *)
LEMMA OpenListed ==
    ASSUME TaskInv, SourceInv, Len(tasks) <= ListLimit
    PROVE  opened \subseteq Listed
<1> SUFFICES ASSUME NEW f \in opened PROVE f \in Listed
  OBVIOUS
<1> DEFINE j == stask[f]
           before == { k \in Running : k < j }
<1>1. f \in File /\ j # 0 /\ tasks[j].status = "running"
  BY DEF SourceInv
<1>2. j \in DOMAIN tasks /\ tasks[j].file = f
  BY <1>1 DEF TaskInv, TaskOfFile
<1>3. Len(tasks) \in Nat /\ DOMAIN tasks = 1 .. Len(tasks)
  BY LenProperties DEF TaskInv
<1>4. j \in 1 .. Len(tasks) /\ j \in Running
  BY <1>1, <1>2, <1>3 DEF Running
<1>5. ListLimit \in Nat
  BY FileStoreAssumption
<1> HIDE DEF j
<1>6. before \subseteq 1 .. j - 1
  BY <1>3, <1>4 DEF Running
<1>7. IsFiniteSet(1 .. j - 1) /\ Cardinality(1 .. j - 1) = j - 1
  <2>1. 1 \in Int /\ j \in Int /\ j - 1 \in Int /\ j >= 1
    BY <1>3, <1>4
  <2>2. /\ IsFiniteSet(1 .. j - 1)
        /\ Cardinality(1 .. j - 1) = IF 1 > j - 1 THEN 0 ELSE j - 1 - 1 + 1
    BY <2>1, FS_Interval
  <2> QED BY <2>1, <2>2
<1>8. Cardinality(before) \in Nat /\ Cardinality(before) <= j - 1
  BY <1>6, <1>7, FS_Subset, FS_CardinalityType
<1>9. Cardinality(before) < ListLimit
  BY <1>3, <1>4, <1>5, <1>8
<1> QED BY <1>2, <1>4, <1>9 DEF Listed

(* A login: every open file is asked for, as none is skipped.               *)
LEMMA LoginAsks ==
    ASSUME TaskInv, BookInv, SourceInv, BadDir = {}, NEW c \in Cid, OnLogined(c)
    PROVE  SourceInv'
<1>1. CASE Die("nulltask")
  <2>1. UNCHANGED <<tasks, stask, asked, logined, stage, opened>>
    BY <1>1, DieFrame DEF OnLogined, netVars, bookVars, sendVars, openVars
  <2> QED BY <2>1, SourceStill
<1>2. CASE ~Die("nulltask")
  <2>1. /\ ListSource({c}, Listed) /\ logined' = logined \cup {c}
        /\ UNCHANGED <<tasks, stask, stage, opened>>
    BY <1>2 DEF OnLogined, openVars, sendVars
  <2>2. /\ asked' \in [Cid -> [File -> {"no", "asked", "answered"}]]
        /\ \A d \in Cid, f \in File :
              /\ asked[d][f] # "no" => asked'[d][f] # "no"
              /\ d = c /\ stage[d] = "open" /\ f \in Listed => asked'[d][f] # "no"
    BY <2>1, ListSourceAsks
  <2>3. SourcesAsked'
    <3> SUFFICES ASSUME Len(tasks) <= ListLimit, NEW d \in logined', NEW f \in opened,
                        stage[d] = "open"
                 PROVE  asked'[d][f] # "no"
      BY <2>1 DEF SourcesAsked
    <3>0. d \in Cid
      BY <2>1 DEF BookInv, LoginInv
    <3>1. f \in File /\ f \in Listed
      BY OpenListed DEF SourceInv
    <3>2. CASE d = c
      BY <2>2, <3>0, <3>1, <3>2
    <3>3. CASE d # c
      BY <2>1, <2>2, <3>0, <3>1, <3>3 DEF SourceInv, SourcesAsked
    <3> QED BY <3>2, <3>3
  <2> QED BY <2>1, <2>2, <2>3 DEF SourceInv
<1> QED BY <1>1, <1>2

(* A task: its file is asked of everyone logged in, in the same step.       *)
LEMMA TaskAsks ==
    ASSUME TaskInv, BookInv, SourceInv, NEW f \in File, InsertRow(f),
           UNCHANGED <<stage, logined>>,
           \/ /\ opened' \subseteq opened \cup {f}
              /\ stask' = [stask EXCEPT ![f] = Len(tasks')]
              /\ AskSources(f)
           \/ UNCHANGED <<opened, stask, asked>>
    PROVE  SourceInv'
<1> DEFINE n == Len(tasks)
           row == [file |-> f, status |-> "running"]
<1>1. tasks \in Seq(Row) /\ row \in Row /\ n \in Nat /\ DOMAIN tasks = 1 .. n
  BY LenProperties DEF TaskInv, Row
<1>2. tasks' = Append(tasks, row)
  BY DEF InsertRow
<1>3. /\ tasks' \in Seq(Row) /\ Len(tasks') = n + 1
      /\ \A i \in 1 .. n : tasks'[i] = tasks[i]
      /\ tasks'[n + 1].status = "running"
  BY <1>1, <1>2, AppendProperties
<1>4. Len(tasks') <= ListLimit => Len(tasks) <= ListLimit
  BY <1>1, <1>3, FileStoreAssumption
<1>5. \A g \in opened : /\ g \in File /\ stask[g] # 0 /\ stask[g] \in 1 .. n
                        /\ tasks[stask[g]].status = "running"
  BY <1>1 DEF SourceInv, TaskInv, TaskOfFile
<1> HIDE DEF n, row
<1>6. CASE UNCHANGED <<opened, stask, asked>>
  <2>1. SourcesAsked'
    BY <1>4, <1>6 DEF SourceInv, SourcesAsked
  <2> QED BY <1>3, <1>5, <1>6, <2>1 DEF SourceInv
<1>7. CASE /\ opened' \subseteq opened \cup {f}
           /\ stask' = [stask EXCEPT ![f] = Len(tasks')]
           /\ AskSources(f)
  <2>1. /\ asked' \in [Cid -> [File -> {"no", "asked", "answered"}]]
        /\ \A c \in Cid, g \in File :
              /\ asked[c][g] # "no" => asked'[c][g] # "no"
              /\ c \in logined /\ stage[c] = "open" /\ g \in {f} => asked'[c][g] # "no"
    BY <1>7, ListSourceAsks DEF AskSources
  <2>2. ASSUME NEW g \in opened' PROVE stask'[g] # 0 /\ tasks'[stask'[g]].status = "running"
    <3>1. CASE g = f
      BY <1>1, <1>3, <1>7, <3>1 DEF TaskInv
    <3>2. CASE g # f
      BY <1>3, <1>5, <1>7, <2>2, <3>2 DEF TaskInv
    <3> QED BY <3>1, <3>2
  <2>3. SourcesAsked'
    <3> SUFFICES ASSUME Len(tasks) <= ListLimit, NEW c \in logined, NEW g \in opened',
                        stage[c] = "open"
                 PROVE  asked'[c][g] # "no"
      BY <1>4 DEF SourcesAsked
    <3>0. c \in Cid
      BY DEF BookInv, LoginInv
    <3>1. CASE g = f
      BY <2>1, <3>0, <3>1
    <3>2. CASE g # f
      <4>1. g \in opened
        BY <1>7, <3>2
      <4>2. g \in File /\ asked[c][g] # "no"
        BY <4>1 DEF SourceInv, SourcesAsked
      <4> QED BY <2>1, <3>0, <4>2
    <3> QED BY <3>1, <3>2
  <2> QED BY <1>5, <1>7, <2>1, <2>2, <2>3 DEF SourceInv
<1> QED BY <1>6, <1>7

(* A packet may finish its file: the row that is marked is the one of the   *)
(* file that is closed.                                                     *)
LEMMA PacketAsks ==
    ASSUME TaskInv, SourceInv, NEW c \in Cid, sending[c] \in opened,
           NEW p, NEW good, NEW again, TakePacket(c, p, good, again)
    PROVE  SourceInv'
<1> DEFINE f == sending[c]
           k == stask[f]
<1>1. UNCHANGED <<stage, asked, stask, logined>>
  BY DEF TakePacket, bookVars
<1>2. CASE WriteReturns(f, p[1], p[2]) /\ Valid(f, p[1], p[2], good)
  <2>1. opened' = opened \ {f} /\ tasks' = [tasks EXCEPT ![k].status = "done"]
    BY <1>2 DEF TakePacket, CloseFile, SourceInv
  <2>2. f \in File /\ k \in DOMAIN tasks /\ tasks[k].file = f
    BY DEF SourceInv, TaskInv, TaskOfFile
  <2>3. tasks[k] \in Row
    BY <2>2, ElementOfSeq DEF TaskInv
  <2>4. tasks \in Seq(Row) /\ DOMAIN tasks = 1 .. Len(tasks)
    BY LenProperties DEF TaskInv
  <2> DEFINE row == [tasks[k] EXCEPT !.status = "done"]
  <2>5. row \in Row
    BY <2>3 DEF Row
  <2>6. tasks' = [tasks EXCEPT ![k] = row]
    BY <2>1
  <2> HIDE DEF row, k, f
  <2>7. Len(tasks') = Len(tasks) /\ \A i \in DOMAIN tasks : i # k => tasks'[i] = tasks[i]
    BY <2>2, <2>4, <2>5, <2>6, ExceptSeq
  <2>8. ASSUME NEW g \in opened'
        PROVE  g \in opened /\ stask[g] # 0 /\ tasks'[stask[g]].status = "running"
    <3>1. g \in opened /\ g # f /\ g \in File
      BY <2>1 DEF SourceInv
    <3>2. stask[g] \in DOMAIN tasks /\ tasks[stask[g]].file = g /\ stask[g] # 0
          /\ tasks[stask[g]].status = "running"
      BY <3>1 DEF SourceInv, TaskInv, TaskOfFile
    <3>3. stask[g] # k
      BY <2>2, <3>1, <3>2
    <3> QED BY <2>7, <3>1, <3>2, <3>3
  <2> QED BY <1>1, <2>7, <2>8 DEF SourceInv, SourcesAsked
<1>3. CASE ~(WriteReturns(f, p[1], p[2]) /\ Valid(f, p[1], p[2], good))
  <2>1. UNCHANGED <<tasks, opened>>
    BY <1>3 DEF TakePacket
  <2> QED BY <1>1, <2>1, SourceStill
<1> QED BY <1>2, <1>3

LEMMA NextSources ==
    ASSUME TaskInv, BookInv, SourceInv, BadDir = {}, [Next]_vars
    PROVE  SourceInv'
<1>1. ASSUME UNCHANGED <<tasks, stask, asked, logined>>, opened' \subseteq opened,
             \A d \in Cid : stage'[d] = "open" => stage[d] = "open" \/ d \notin logined
      PROVE  SourceInv'
  BY <1>1, SourceStill DEF BookInv, LoginInv
<1>2. ASSUME NEW how, Die(how), UNCHANGED tasks PROVE SourceInv'
  BY <1>1, <1>2, DieFrame DEF netVars, bookVars, sendVars, openVars
<1>3. ASSUME NEW S \in SUBSET Address, NEW who \in Dials(nextId, S), NEW down,
             Connect(nextId, stage, esrv, who, down)
      PROVE  \A d \in Cid : stage'[d] = "open" => stage[d] = "open"
  BY <1>3 DEF Connect
<1>4. CASE Boot
  BY <1>4 DEF Boot, SourceInv, SourcesAsked, NoAsked
<1>5. CASE Kill
  BY <1>2, <1>5 DEF Kill
<1>6. ASSUME NEW c \in Cid, Handle(c) PROVE SourceInv'
  <2>1. CASE Established(c)
    <3>1. /\ UNCHANGED <<tasks, stask, asked, logined, opened>>
          /\ stage[c] = "connecting" /\ c \notin logined
          /\ \A d \in Cid : d # c => stage'[d] = stage[d]
      BY <2>1 DEF Established, OnConn, OnConnFailed, fileVars, bookVars, sendVars,
                  BookInv, LoginInv
    <3> QED BY <1>1, <3>1
  <2>2. CASE OnFail(c)
    <3>1. /\ UNCHANGED <<tasks, stask, asked, logined, opened>>
          /\ stage' = [stage EXCEPT ![c] = "closed"]
      BY <2>2 DEF OnFail, Closed, fileVars, sendVars
    <3> QED BY <1>1, <3>1 DEF BookInv, LoginInv
  <2>3. CASE OnServerList(c)
    <3>1. PICK srvs \in ServerLists : \E who \in Dials(nextId, Unknown(srvs)) : \E down :
              Connect(nextId, stage, esrv, who, down)
      BY <2>3 DEF OnServerList
    <3>2. Unknown(srvs) \in SUBSET Address
      BY RunnerAssumption DEF Unknown, Address
    <3>3. \A d \in Cid : stage'[d] = "open" => stage[d] = "open"
      BY <1>3, <3>1, <3>2
    <3>4. UNCHANGED <<tasks, stask, asked, logined, opened>>
      BY <2>3 DEF OnServerList, fileVars, sendVars
    <3> QED BY <1>1, <3>3, <3>4
  <2>4. CASE OnLogined(c)
    BY <2>4, LoginAsks
  <2>5. ASSUME NEW f \in File, OnFoundSource(c, f) PROVE SourceInv'
    <3>1. UNCHANGED tasks
      BY <2>5 DEF OnFoundSource
    <3>2. CASE f \notin opened
      <4>1. Die("threw")
        BY <2>5, <3>2 DEF OnFoundSource
      <4> QED BY <1>2, <3>1, <4>1
    <3>3. CASE f \in opened
      <4>1. PICK peers \in SourceSets : \E who \in Dials(nextId, peers) : \E down :
                Connect(nextId, stage, esrv, who, down)
        BY <2>5, <3>3 DEF OnFoundSource
      <4>2. peers \in SUBSET Address
        BY RunnerAssumption DEF Address
      <4>3. \A d \in Cid : stage'[d] = "open" => stage[d] = "open"
        BY <1>3, <4>1, <4>2
      <4>4. /\ UNCHANGED <<stask, logined, opened>>
            /\ asked' = [asked EXCEPT ![c][f] = "answered"]
        BY <2>5, <3>3 DEF OnFoundSource, openVars, bookVars
      <4>5. /\ asked' \in [Cid -> [File -> {"no", "asked", "answered"}]]
            /\ \A d \in Cid, g \in File : asked[d][g] # "no" => asked'[d][g] # "no"
        BY <4>4 DEF SourceInv
      <4> QED BY <3>1, <4>3, <4>4, <4>5, SourceFrame DEF BookInv, LoginInv
    <3> QED BY <3>2, <3>3
  <2>6. CASE OnAnswered(c)
    BY <1>1, <2>6 DEF OnAnswered, fileVars, bookVars, sendVars
  <2>7. CASE OnUpAccepted(c)
    BY <1>1, <2>7 DEF OnUpAccepted, fileVars, bookVars
  <2>8. CASE OnSending(c)
    <3>1. CASE sending[c] = NoFile
      BY <1>1, <2>8, <3>1 DEF OnSending, fileVars, bookVars, sendVars
    <3>2. CASE sending[c] # NoFile /\ sending[c] \notin opened
      <4>1. Die("nullstream") /\ UNCHANGED tasks
        BY <2>8, <3>2 DEF OnSending
      <4> QED BY <1>2, <4>1
    <3>3. CASE sending[c] # NoFile /\ sending[c] \in opened
      <4>1. PICK p, again, good : TakePacket(c, p, good, again)
        BY <2>8, <3>3 DEF OnSending
      <4> QED BY <3>3, <4>1, PacketAsks
    <3> QED BY <3>1, <3>2, <3>3
  <2>9. CASE KillInSendDone(c)
    BY <1>2, <2>9 DEF KillInSendDone
  <2>10. CASE HelloThrows(c)
    BY <1>2, <2>10 DEF HelloThrows
  <2> QED BY <1>6, <2>1, <2>2, <2>3, <2>4, <2>5, <2>6, <2>7, <2>8, <2>9, <2>10 DEF Handle
<1>7. ASSUME NEW f \in File, AddTask(f) PROVE SourceInv'
  <2>1. InsertRow(f) /\ UNCHANGED <<stage, logined>>
    BY <1>7 DEF AddTask, bookVars
  <2>2. \/ /\ opened' \subseteq opened \cup {f}
           /\ stask' = [stask EXCEPT ![f] = Len(tasks')]
           /\ AskSources(f)
        \/ UNCHANGED <<opened, stask, asked>>
    BY <1>7 DEF AddTask, OpenFiles, openVars
  <2> QED BY <2>1, <2>2, TaskAsks
<1>8. ASSUME NEW f \in File, KillInAddTask(f) PROVE SourceInv'
  <2>1. InsertRow(f) /\ UNCHANGED <<stage, logined, opened, stask, asked>>
    BY <1>8, DieFrame DEF KillInAddTask, netVars, bookVars, sendVars, openVars
  <2> QED BY <2>1, TaskAsks
<1>9. CASE UNCHANGED vars
  BY <1>1, <1>9 DEF vars, memVars, netVars, bookVars, sendVars, openVars
<1> QED BY <1>4, <1>5, <1>6, <1>7, <1>8, <1>9 DEF Next

(* No server that is logged in misses a file being received, in whichever   *)
(* order any number of tasks and logins come, as long as every .xdm can be  *)
(* opened and the table is not longer than what OnLogined reads of it.      *)
THEOREM ServersAreAsked ==
    ASSUME BadDir = {}
    PROVE  Spec => []SourcesAsked
<1>1. SourceInv /\ TaskInv /\ BookInv /\ [Next]_vars => SourceInv'
  BY NextSources
<1>2. Init => SourceInv
  BY DEF Init, SourceInv, SourcesAsked, NoAsked
<1>3. SourceInv => SourcesAsked
  BY DEF SourceInv
<1> QED BY <1>1, <1>2, <1>3, TaskInvariance, BookInvariance, PTL DEF Spec

-----------------------------------------------------------------------------
(* Runner implements Download: every step of the downloader, the death of   *)
(* the process among them, adds a wanted file, finishes one or changes      *)
(* nothing the user sees.                                                   *)

(* Only files somebody asked for are received: what the refinement needs    *)
(* besides TaskInv, as a file is finished by whoever has it open.           *)
OpenInv == opened \subseteq Wanted

(* The rows as functions: what Wanted and Told say, row by row.             *)
LEMMA WantedRows ==
    /\ \A f : f \in Wanted <=> \E i \in DOMAIN tasks : tasks[i].file = f
    /\ \A f : f \in Told <=>
          \E i \in DOMAIN tasks : tasks[i].status = "done" /\ tasks[i].file = f
BY DEF Wanted, Told

LEMMA WantedRowsNext ==
    /\ \A f : f \in Wanted' <=> \E i \in DOMAIN tasks' : tasks'[i].file = f
    /\ \A f : f \in Told' <=>
          \E i \in DOMAIN tasks' : tasks'[i].status = "done" /\ tasks'[i].file = f
BY DEF Wanted, Told

LEMMA InitDownload == Init => OpenInv /\ D!Init
<1> SUFFICES ASSUME Init PROVE OpenInv /\ D!Init
  OBVIOUS
<1>1. DOMAIN tasks = {}
  BY EmptySeq DEF Init
<1>2. Wanted = {} /\ Told = {}
  BY <1>1 DEF Wanted, Told
<1> QED BY <1>2 DEF Init, OpenInv, D!Init

(* A row is added for f. *)
LEMMA WantStep ==
    ASSUME TaskInv, NEW f \in File, InsertRow(f), UNCHANGED fin
    PROVE  Wanted' = Wanted \cup {f} /\ D!Next
<1> DEFINE n == Len(tasks)
           row == [file |-> f, status |-> "running"]
<1>1. tasks \in Seq(Row) /\ row \in Row /\ n \in Nat /\ DOMAIN tasks = 1 .. n
  BY LenProperties DEF TaskInv, Row
<1>2. tasks' = Append(tasks, row)
  BY DEF InsertRow
<1>3. /\ tasks' \in Seq(Row) /\ Len(tasks') = n + 1
      /\ \A i \in 1 .. n : tasks'[i] = tasks[i]
      /\ tasks'[n + 1] = row
  BY <1>1, <1>2, AppendProperties
<1>4. DOMAIN tasks' = 1 .. n + 1
  BY <1>3, LenProperties
<1>5. row.file = f /\ row.status # "done"
  OBVIOUS
<1> HIDE DEF n, row
<1>6. Wanted' = Wanted \cup {f}
  BY <1>1, <1>3, <1>4, <1>5, WantedRows, WantedRowsNext
<1>7. Told' = Told
  <2>1. ASSUME NEW g \in Told PROVE g \in Told'
    <3>1. PICK i \in 1 .. n : tasks[i].status = "done" /\ tasks[i].file = g
      BY <1>1, WantedRows
    <3>2. i \in DOMAIN tasks' /\ tasks'[i] = tasks[i]
      BY <1>1, <1>3, <1>4
    <3> QED BY <3>1, <3>2, WantedRowsNext
  <2>2. ASSUME NEW g \in Told' PROVE g \in Told
    <3>1. PICK i \in DOMAIN tasks' : tasks'[i].status = "done" /\ tasks'[i].file = g
      BY WantedRowsNext
    <3>2. i # n + 1
      BY <1>3, <1>5, <3>1
    <3>3. i \in DOMAIN tasks /\ tasks'[i] = tasks[i]
      BY <1>1, <1>3, <1>4, <3>2
    <3> QED BY <3>1, <3>3, WantedRows
  <2> QED BY <2>1, <2>2
<1> QED BY <1>6, <1>7 DEF D!Next, D!Want

(* A right file f is put in place, and its row marked or not. *)
LEMMA FinishStep ==
    ASSUME TaskInv, NEW f \in File, f \in Wanted,
           fin' = [fin EXCEPT ![f] = "whole"],
           \/ UNCHANGED tasks
           \/ stask[f] # 0 /\ tasks' = [tasks EXCEPT ![stask[f]].status = "done"]
    PROVE  Wanted' = Wanted /\ D!Next
<1>1. CASE UNCHANGED tasks
  <2>1. Wanted' = Wanted /\ Told' = Told
    BY <1>1 DEF Wanted, Told
  <2> QED BY <2>1 DEF D!Next, D!Finish
<1>2. CASE stask[f] # 0 /\ tasks' = [tasks EXCEPT ![stask[f]].status = "done"]
  <2> DEFINE k == stask[f]
  <2>1. k \in DOMAIN tasks /\ tasks[k].file = f
    BY <1>2 DEF TaskInv, TaskOfFile
  <2>2. tasks[k] \in Row
    BY <2>1, ElementOfSeq DEF TaskInv
  <2>3. /\ DOMAIN tasks' = DOMAIN tasks
        /\ \A i \in DOMAIN tasks : i # k => tasks'[i] = tasks[i]
        /\ tasks'[k].file = f /\ tasks'[k].status = "done"
    BY <1>2, <2>1, <2>2 DEF Row
  <2> HIDE DEF k
  <2>4. Wanted' = Wanted
    <3>1. \A i \in DOMAIN tasks : tasks'[i].file = tasks[i].file
      BY <2>1, <2>3
    <3>2. \A g : g \in Wanted' <=> \E i \in DOMAIN tasks : tasks[i].file = g
      BY <2>3, <3>1, WantedRowsNext
    <3>3. \A g : g \in Wanted' <=> g \in Wanted
      BY <3>2, WantedRows
    <3> QED BY <3>3
  <2>5. Told' = Told \cup {f}
    BY <2>1, <2>3, WantedRows, WantedRowsNext
  <2> QED BY <2>4, <2>5 DEF D!Next, D!Finish
<1> QED BY <1>1, <1>2

-------------------------------------------------------------------------------
(* One step: of what the user sees nothing changes, or a Download step is   *)
(* taken; and what is open is wanted.                                       *)
Seen == UNCHANGED <<Wanted, fin, Told>> \/ D!Next

LEMMA NextDownload ==
    ASSUME TaskInv, OpenInv, [Next]_vars
    PROVE  OpenInv' /\ Seen
<1>1. ASSUME UNCHANGED <<fin, tasks>>, opened' \subseteq opened
      PROVE  OpenInv' /\ Seen
  BY <1>1 DEF OpenInv, Seen, Wanted, Told
<1>2. ASSUME UNCHANGED <<fin, tasks, openVars>> PROVE OpenInv' /\ Seen
  BY <1>1, <1>2 DEF openVars
<1>3. CASE Boot
  BY <1>1, <1>3 DEF Boot
<1>4. CASE Kill
  BY <1>2, <1>4, DieFrame DEF Kill
<1>5. ASSUME NEW c \in Cid, Handle(c) PROVE OpenInv' /\ Seen
  <2>1. CASE Established(c)
    BY <1>2, <2>1 DEF Established, fileVars, openVars
  <2>2. CASE OnFail(c)
    BY <1>2, <2>2 DEF OnFail, fileVars, openVars
  <2>3. CASE OnServerList(c)
    BY <1>2, <2>3 DEF OnServerList, fileVars, openVars
  <2>4. CASE OnLogined(c)
    <3>1. UNCHANGED <<fin, tasks>>
      BY <2>4 DEF OnLogined
    <3>2. UNCHANGED openVars
      BY <2>4, DieFrame DEF OnLogined
    <3> QED BY <1>2, <3>1, <3>2
  <2>5. ASSUME NEW f \in File, OnFoundSource(c, f) PROVE OpenInv' /\ Seen
    <3>1. UNCHANGED <<fin, tasks>>
      BY <2>5 DEF OnFoundSource
    <3>2. UNCHANGED openVars
      BY <2>5, DieFrame DEF OnFoundSource
    <3> QED BY <1>2, <3>1, <3>2
  <2>6. CASE OnAnswered(c)
    BY <1>2, <2>6 DEF OnAnswered, fileVars, openVars
  <2>7. CASE OnUpAccepted(c)
    BY <1>2, <2>7 DEF OnUpAccepted, fileVars, openVars
  <2>8. CASE OnSending(c)
    <3>1. CASE sending[c] = NoFile
      BY <1>2, <2>8, <3>1 DEF OnSending, fileVars, openVars
    <3>2. CASE sending[c] # NoFile /\ sending[c] \notin opened
      <4>1. Die("nullstream") /\ UNCHANGED <<fin, tasks>>
        BY <2>8, <3>2 DEF OnSending
      <4> QED BY <1>2, <4>1, DieFrame
    <3>3. CASE sending[c] # NoFile /\ sending[c] \in opened
      <4> DEFINE f == sending[c]
      <4>1. f \in File /\ f \in Wanted
        BY <3>3 DEF TaskInv, OpenInv
      <4>2. PICK p, again, good : TakePacket(c, p, good, again)
        BY <2>8, <3>3 DEF OnSending
      <4>3. CASE WriteReturns(f, p[1], p[2]) /\ Valid(f, p[1], p[2], good)
        <5>1. fin' = [fin EXCEPT ![f] = "whole"] /\ opened' = opened \ {f}
          BY <4>2, <4>3 DEF TakePacket, Valid, Rename, CloseFile
        <5>2. \/ UNCHANGED tasks
              \/ stask[f] # 0 /\ tasks' = [tasks EXCEPT ![stask[f]].status = "done"]
          BY <4>2, <4>3 DEF TakePacket
        <5> HIDE DEF f
        <5>3. Wanted' = Wanted /\ D!Next
          BY <4>1, <5>1, <5>2, FinishStep
        <5> QED BY <5>1, <5>3 DEF OpenInv, Seen
      <4>4. CASE ~(WriteReturns(f, p[1], p[2]) /\ Valid(f, p[1], p[2], good))
        <5>1. UNCHANGED <<opened, fin, tasks>>
          BY <4>2, <4>4 DEF TakePacket
        <5> QED BY <1>1, <5>1
      <4> QED BY <4>3, <4>4
    <3> QED BY <3>1, <3>2, <3>3
  <2>9. CASE KillInSendDone(c)
    <3>1. PICK p, good : /\ Valid(sending[c], p[1], p[2], good)
                         /\ Rename(sending[c], p[1], p[2], good)
      BY <2>9 DEF KillInSendDone
    <3>2. fin' = [fin EXCEPT ![sending[c]] = "whole"]
      BY <3>1 DEF Valid, Rename
    <3>3. UNCHANGED <<tasks, opened>> /\ sending[c] \in opened
      BY <2>9, DieFrame DEF KillInSendDone, openVars
    <3>4. CASE sending[c] \in File
      <4>1. sending[c] \in Wanted
        BY <3>3 DEF OpenInv
      <4>2. Wanted' = Wanted /\ D!Next
        BY <3>2, <3>3, <3>4, <4>1, FinishStep
      <4> QED BY <3>3, <4>2 DEF OpenInv, Seen
    <3>5. CASE sending[c] \notin File
      <4>1. UNCHANGED fin
        BY <3>2, <3>5 DEF TaskInv
      <4> QED BY <1>1, <3>3, <4>1
    <3> QED BY <3>4, <3>5
  <2>10. CASE HelloThrows(c)
    BY <1>2, <2>10, DieFrame DEF HelloThrows
  <2> QED BY <1>5, <2>1, <2>2, <2>3, <2>4, <2>5, <2>6, <2>7, <2>8, <2>9, <2>10 DEF Handle
<1>6. ASSUME NEW f \in File, AddTask(f) PROVE OpenInv' /\ Seen
  <2>1. InsertRow(f) /\ UNCHANGED fin
    BY <1>6 DEF AddTask
  <2>2. opened' \subseteq opened \cup {f}
    BY <1>6 DEF AddTask, OpenFiles, openVars
  <2>3. Wanted' = Wanted \cup {f} /\ D!Next
    BY <2>1, WantStep
  <2> QED BY <2>2, <2>3 DEF OpenInv, Seen
<1>7. ASSUME NEW f \in File, KillInAddTask(f) PROVE OpenInv' /\ Seen
  <2>1. InsertRow(f) /\ UNCHANGED fin /\ UNCHANGED opened
    BY <1>7, DieFrame DEF KillInAddTask, openVars
  <2>2. Wanted' = Wanted \cup {f} /\ D!Next
    BY <2>1, WantStep
  <2> QED BY <2>1, <2>2 DEF OpenInv, Seen
<1>8. CASE UNCHANGED vars
  BY <1>2, <1>8 DEF vars, memVars
<1> QED BY <1>3, <1>4, <1>5, <1>6, <1>7, <1>8 DEF Next

(* The downloader is a Download, for any files, servers and peers and any   *)
(* number of restarts: what is at a final path is right, was asked for and  *)
(* stays, and a row says done only behind it and for good.                  *)
THEOREM RunnerIsDownload == Spec => IsDownload
<1>1. Init => D!Init
  BY InitDownload
<1>2. Init => OpenInv
  BY InitDownload
<1>3. TaskInv /\ OpenInv /\ [Next]_vars => OpenInv'
  BY NextDownload
<1>4. TaskInv /\ OpenInv /\ [Next]_vars => [D!Next]_<<Wanted, fin, Told>>
  BY NextDownload DEF Seen
<1> QED BY <1>1, <1>2, <1>3, <1>4, TaskInvariance, PTL DEF Spec, IsDownload, D!Spec

-------------------------------------------------------------------------------
(* The bytes of the first n blocks of f. *)
HandedOut(f, n) == UNION { BlockBytes(Blocks(f)[k]) : k \in 1 .. n }

(* A Part holds every offset of every file. *)
OffsetsFit == \A f \in File : Size[f] < Width

-------------------------------------------------------------------------------
LEMMA InHandedOut ==
    \A f, n, x : x \in HandedOut(f, n) <=> \E k \in 1 .. n : x \in BlockBytes(Blocks(f)[k])
BY DEF HandedOut

(* The blocks of a file, however offsets wrap. *)
LEMMA BlocksTyped ==
    ASSUME NEW f \in File
    PROVE  /\ Len(Blocks(f)) \in Nat
           /\ DOMAIN Blocks(f) = 1 .. Len(Blocks(f))
           /\ \A k \in 1 .. Len(Blocks(f)) :
                  Blocks(f)[k][1] \in Nat /\ Blocks(f)[k][2] \in Nat
<1> DEFINE n == Size[f] \div BlockSize
           size == IF n * BlockSize < Size[f] - 1 THEN n + 1 ELSE n
           lo(k) == ((k - 1) * BlockSize) % Width
           hi(k) == (IF k <= n THEN k * BlockSize ELSE Size[f]) % Width
<1>1. Size[f] \in Nat \ {0} /\ BlockSize \in Nat \ {0} /\ Width \in Nat \ {0}
  BY FileStoreAssumption
<1>2. n \in Nat
  BY <1>1
<1>3. size \in Nat
  BY <1>2
<1>4. Blocks(f) = [k \in 1 .. size |-> <<lo(k), hi(k)>>]
  BY DEF Blocks, AllBlocks
<1>5. ASSUME NEW k \in 1 .. size PROVE lo(k) \in Nat /\ hi(k) \in Nat
  <2>1. (k - 1) * BlockSize \in Int /\ k * BlockSize \in Int
    BY <1>1, <1>3
  <2> QED BY <1>1, <2>1
<1> HIDE DEF size, lo, hi, n
<1>6. Len(Blocks(f)) = size /\ DOMAIN Blocks(f) = 1 .. size
  BY <1>3, <1>4
<1> QED BY <1>3, <1>4, <1>5, <1>6

(* When offsets fit, blocks are not empty, lie inside the file, one behind  *)
(* the other.                                                               *)
LEMMA BlocksApart ==
    ASSUME NEW f \in File, OffsetsFit
    PROVE  /\ \A k \in 1 .. Len(Blocks(f)) :
                  Blocks(f)[k][1] < Blocks(f)[k][2] /\ Blocks(f)[k][2] <= Size[f]
           /\ \A j, k \in 1 .. Len(Blocks(f)) :
                  j < k => Blocks(f)[j][2] <= Blocks(f)[k][1]
<1> DEFINE s == Size[f]
           m == BlockSize
           n == s \div m
           size == IF n * m < s - 1 THEN n + 1 ELSE n
           lo(k) == (k - 1) * m
           hi(k) == IF k <= n THEN k * m ELSE s
<1>1. s \in Nat /\ m \in Nat /\ m > 0 /\ Width \in Nat /\ s < Width
  BY FileStoreAssumption DEF OffsetsFit
<1>2. n \in Nat /\ n * m <= s
  BY <1>1
<1>3. size \in Nat /\ size <= n + 1
  BY <1>2
<1>4. \A a, b \in Nat : a <= b => a * m <= b * m
  BY <1>1
<1>5. ASSUME NEW k \in 1 .. size
      PROVE  /\ lo(k) \in Nat /\ hi(k) \in Nat /\ lo(k) < hi(k) /\ hi(k) <= s
  <2>1. CASE k <= n
    <3>1. k - 1 \in Nat /\ k \in Nat /\ k <= n
      BY <1>3, <2>1
    <3>2. k * m = (k - 1) * m + m /\ (k - 1) * m \in Nat /\ k * m \in Nat
      BY <1>1, <3>1
    <3>3. k * m <= n * m
      BY <1>2, <1>4, <3>1
    <3> QED BY <1>1, <1>2, <2>1, <3>2, <3>3
  <2>2. CASE k > n
    <3>1. k = n + 1 /\ k - 1 = n /\ n * m < s - 1
      BY <1>2, <1>3, <2>2
    <3> QED BY <1>1, <1>2, <2>2, <3>1
  <2> QED BY <1>2, <1>3, <2>1, <2>2
<1>6. ASSUME NEW j \in 1 .. size, NEW k \in 1 .. size, j < k
      PROVE  hi(j) <= lo(k)
  <2>1. j \in Nat /\ k - 1 \in Nat /\ j <= k - 1 /\ j <= n
    BY <1>2, <1>3, <1>6
  <2> QED BY <1>4, <2>1
<1>7. Blocks(f) = [k \in 1 .. size |-> <<lo(k) % Width, hi(k) % Width>>]
  BY DEF Blocks, AllBlocks
<1> HIDE DEF size, lo, hi, n
<1>8. Len(Blocks(f)) = size
  BY <1>3, <1>7
<1>9. ASSUME NEW k \in 1 .. size
      PROVE  Blocks(f)[k][1] = lo(k) /\ Blocks(f)[k][2] = hi(k)
  <2>1. \A x \in Nat : x <= s => x % Width = x
    BY <1>1
  <2>2. lo(k) % Width = lo(k) /\ hi(k) % Width = hi(k)
    BY <1>1, <1>5, <2>1
  <2> QED BY <1>7, <2>2
<1> QED BY <1>5, <1>6, <1>8, <1>9 DEF s

-------------------------------------------------------------------------------
(* What the downloader holds in memory.  NothingForgotten is not inductive: *)
(* ids not dialled yet must hold nothing, only open connections may owe,    *)
(* and what they owe must be of blocks handed out.                          *)
HoldTypes ==
    /\ pending \in [Cid -> SUBSET Nat]
    /\ written \in [File -> SUBSET Nat]
    /\ wrong \in [File -> SUBSET Nat]
    /\ fcparts \in [File -> Seq(Pair)]
    /\ sended \in [File -> Nat]
    /\ requested \in [Cid -> Nat]
    /\ opened \subseteq singf /\ singf \subseteq File
    /\ \A f \in File : sended[f] <= Len(Blocks(f))

Lists == \A f \in File : Sorted(fcparts[f]) /\ Bytes(fcparts[f]) \subseteq written[f]

Ids ==
    /\ \A c \in Cid : c >= nextId => stage[c] = "none" /\ sending[c] = NoFile
    /\ \A c \in Cid : sending[c] \in singf \cup {NoFile}
    /\ \A c \in Cid : pending[c] # {} => stage[c] = "open"

Owed ==
    \A c \in Cid : sending[c] # NoFile =>
        pending[c] \subseteq HandedOut(sending[c], sended[sending[c]])

Hold == HoldTypes /\ Lists /\ Ids /\ Owed /\ NothingForgotten

(* NothingForgotten byte by byte. *)
LEMMA ForgottenBytes ==
    NothingForgotten <=>
        \A f \in opened :
            (\A c \in Cid : sending[c] = f => stage[c] # "closed") =>
                \A x \in HandedOut(f, sended[f]) :
                    \/ x \in written[f]
                    \/ \E d \in Cid : sending[d] = f /\ stage[d] = "open" /\ x \in pending[d]
BY DEF NothingForgotten, HandedOut

LEMMA ForgottenBytesNext ==
    NothingForgotten' <=>
        \A f \in opened' :
            (\A c \in Cid : sending'[c] = f => stage'[c] # "closed") =>
                \A x \in HandedOut(f, sended'[f]) :
                    \/ x \in written'[f]
                    \/ \E d \in Cid : sending'[d] = f /\ stage'[d] = "open" /\ x \in pending'[d]
BY DEF NothingForgotten, HandedOut, Blocks

LEMMA EmptyList == << >> \in Seq(Pair) /\ Sorted(<< >>) /\ Bytes(<< >>) = {}
<1>1. << >> \in Seq(Pair) /\ Len(<< >>) = 0
  BY EmptySeq
<1> QED BY <1>1 DEF Sorted, Bytes

LEMMA InitHold == Init => Hold
<1> SUFFICES ASSUME Init PROVE Hold
  OBVIOUS
<1>1. HoldTypes
  BY EmptyList, BlocksTyped DEF Init, HoldTypes, NoPending
<1>2. Lists
  BY EmptyList DEF Init, Lists
<1>3. Ids
  BY DEF Init, Ids, NoStage, NoPending
<1>4. Owed
  BY DEF Init, Owed, NoPending
<1>5. NothingForgotten
  BY DEF Init, NothingForgotten
<1> QED BY <1>1, <1>2, <1>3, <1>4, <1>5 DEF Hold

(* A step that changes neither files nor connections nor what they owe. *)
LEMMA HoldFrame ==
    ASSUME Hold,
           UNCHANGED <<nextId, stage, pending, openVars, sending, singf, sended, requested>>
    PROVE  Hold'
<1>1. HoldTypes'
  BY DEF Hold, HoldTypes, openVars, Blocks
<1>2. Lists'
  BY DEF Hold, Lists, openVars
<1>3. Ids'
  BY DEF Hold, Ids
<1>4. Owed'
  BY DEF Hold, Owed, HandedOut, Blocks
<1>5. NothingForgotten'
  BY ForgottenBytes, ForgottenBytesNext DEF Hold, openVars
<1> QED BY <1>1, <1>2, <1>3, <1>4, <1>5 DEF Hold

-------------------------------------------------------------------------------
LEMMA BootHold ==
    ASSUME Boot
    PROVE  Hold'
<1>0. PICK who \in Dials(1, InitSrvs) : \E down : Connect(1, NoStage, NoEsrv, who, down)
  BY DEF Boot
<1>1. PICK down : Connect(1, NoStage, NoEsrv, who, down)
  BY <1>0
<1>2. 1 \in 1 .. MaxConn + 1
  BY ED2KAssumption
<1>3. \A c : c \in DOMAIN who <=> c \in Cid /\ 1 <= c /\ c < nextId'
  BY <1>1, <1>2, DialsShape DEF Connect
<1>4. \A c \in Cid : c >= nextId' => stage'[c] = "none"
  <2>1. nextId' \in 1 .. MaxConn + 1
    BY <1>1, <1>2, DialsShape DEF Connect
  <2>2. \A c \in Cid : c \notin DOMAIN who => stage'[c] = "none"
    BY <1>1 DEF Connect, NoStage
  <2> QED BY <1>3, <2>1, <2>2, ED2KAssumption DEF Cid
<1>5. HoldTypes'
  BY EmptyList, BlocksTyped DEF Boot, HoldTypes, NoPending, Blocks
<1>6. Lists'
  BY EmptyList DEF Boot, Lists
<1>7. Ids'
  BY <1>4 DEF Boot, Ids, NoPending
<1>8. Owed'
  BY DEF Boot, Owed, NoPending
<1>9. NothingForgotten'
  BY DEF Boot, NothingForgotten
<1> QED BY <1>5, <1>6, <1>7, <1>8, <1>9 DEF Hold

LEMMA EstablishedHold ==
    ASSUME Hold, TaskInv, NEW c \in Cid, Established(c),
           stage \in [Cid -> {"none", "connecting", "open", "closed"}]
    PROVE  Hold'
<1>1. /\ UNCHANGED <<nextId, pending, openVars, sending, singf, sended, requested>>
      /\ stage[c] = "connecting"
      /\ \A d \in Cid : d # c => stage'[d] = stage[d]
      /\ stage'[c] \in {"open", "closed"}
  BY DEF Established, OnConn, OnConnFailed, fileVars, sendVars, openVars
<1>2. pending[c] = {}
  BY <1>1 DEF Hold, Ids
<1>3. HoldTypes' /\ Lists' /\ Owed'
  BY <1>1 DEF Hold, HoldTypes, Lists, Owed, openVars, Blocks, HandedOut
<1>4. Ids'
  BY <1>1, <1>2 DEF Hold, Ids
<1>5. NothingForgotten'
  BY <1>1, <1>2, ForgottenBytes, ForgottenBytesNext DEF Hold, openVars
<1> QED BY <1>3, <1>4, <1>5 DEF Hold

LEMMA OnFailHold ==
    ASSUME Hold, TaskInv, NEW c \in Cid, OnFail(c),
           stage \in [Cid -> {"none", "connecting", "open", "closed"}]
    PROVE  Hold'
<1>1. /\ UNCHANGED <<nextId, openVars, sending, singf, sended, requested>>
      /\ stage[c] = "open"
      /\ stage' = [stage EXCEPT ![c] = "closed"]
      /\ pending' = [pending EXCEPT ![c] = {}]
  BY DEF OnFail, Closed, fileVars, sendVars, openVars
<1>2. HoldTypes' /\ Lists' /\ Owed'
  BY <1>1 DEF Hold, HoldTypes, Lists, Owed, openVars, Blocks, HandedOut
<1>3. Ids'
  BY <1>1 DEF Hold, HoldTypes, Ids
<1>4. NothingForgotten'
  <2> SUFFICES ASSUME NEW f \in opened,
                      \A d \in Cid : sending[d] = f => stage'[d] # "closed",
                      NEW x \in HandedOut(f, sended[f])
               PROVE  \/ x \in written[f]
                      \/ \E d \in Cid : sending[d] = f /\ stage'[d] = "open" /\ x \in pending'[d]
    BY <1>1, ForgottenBytesNext DEF openVars
  <2>1. sending[c] # f
    BY <1>1
  <2>2. \A d \in Cid : d # c => stage'[d] = stage[d] /\ pending'[d] = pending[d]
    BY <1>1 DEF Hold, HoldTypes
  <2>3. \A d \in Cid : sending[d] = f => stage[d] # "closed"
    BY <2>1, <2>2
  <2>4. \/ x \in written[f]
        \/ \E d \in Cid : sending[d] = f /\ stage[d] = "open" /\ x \in pending[d]
    BY <2>3, ForgottenBytes DEF Hold
  <2> QED BY <2>1, <2>2, <2>4
<1> QED BY <1>2, <1>3, <1>4 DEF Hold

(* New ids are dialled, and all of them given the same file or none. *)
LEMMA ConnectHold ==
    ASSUME Hold, LinkInv, NEW S \in SUBSET Address, NEW who \in Dials(nextId, S), NEW down,
           Connect(nextId, stage, esrv, who, down),
           stage \in [Cid -> {"none", "connecting", "open", "closed"}],
           UNCHANGED <<pending, openVars, singf, sended, requested>>,
           NEW f \in opened \cup {NoFile},
           sending' = [d \in Cid |-> IF d \in DOMAIN who THEN f ELSE sending[d]]
    PROVE  Hold'
<1>1. nextId \in 1 .. MaxConn + 1 /\ MaxConn \in Nat
  BY ED2KAssumption DEF LinkInv, Links
<1>2. /\ nextId' \in nextId .. MaxConn + 1
      /\ \A c : c \in DOMAIN who <=> c \in Cid /\ nextId <= c /\ c < nextId'
  BY <1>1, DialsShape DEF Connect
<1>3. \A c \in Cid : c \notin DOMAIN who => stage'[c] = stage[c] /\ sending'[c] = sending[c]
  BY DEF Connect
<1>4. \A c \in DOMAIN who : c \in Cid /\ stage[c] = "none" /\ sending[c] = NoFile
                            /\ pending[c] = {}
  BY <1>1, <1>2 DEF Hold, Ids, Cid
<1>5. HoldTypes' /\ Lists'
  BY DEF Hold, HoldTypes, Lists, openVars, Blocks
<1>6. Ids'
  <2>1. \A c \in Cid : c >= nextId' => stage'[c] = "none" /\ sending'[c] = NoFile
    BY <1>1, <1>2, <1>3 DEF Hold, Ids, Cid
  <2>2. \A c \in Cid : sending'[c] \in singf' \cup {NoFile}
    BY <1>3 DEF Hold, HoldTypes, Ids
  <2>3. \A c \in Cid : pending'[c] # {} => stage'[c] = "open"
    BY <1>3, <1>4 DEF Hold, Ids
  <2> QED BY <2>1, <2>2, <2>3 DEF Ids
<1>7. Owed'
  <2> SUFFICES ASSUME NEW c \in Cid, sending'[c] # NoFile
               PROVE  pending'[c] \subseteq HandedOut(sending'[c], sended'[sending'[c]])
    BY DEF Owed, HandedOut, Blocks
  <2>1. CASE c \in DOMAIN who
    BY <1>4, <2>1
  <2>2. CASE c \notin DOMAIN who
    BY <1>3, <2>2 DEF Hold, Owed
  <2> QED BY <2>1, <2>2
<1>8. NothingForgotten'
  <2> SUFFICES ASSUME NEW g \in opened,
                      \A c \in Cid : sending'[c] = g => stage'[c] # "closed",
                      NEW x \in HandedOut(g, sended[g])
               PROVE  \/ x \in written[g]
                      \/ \E d \in Cid : sending'[d] = g /\ stage'[d] = "open" /\ x \in pending[d]
    BY ForgottenBytesNext DEF openVars
  <2>1. g # NoFile
    BY EmuleXAssumption DEF Hold, HoldTypes
  <2>2. \A c \in Cid : sending[c] = g => c \notin DOMAIN who
    BY <1>4, <2>1
  <2>3. \A c \in Cid : sending[c] = g => stage[c] # "closed"
    BY <1>3, <2>2
  <2>4. \/ x \in written[g]
        \/ \E d \in Cid : sending[d] = g /\ stage[d] = "open" /\ x \in pending[d]
    BY <2>3, ForgottenBytes DEF Hold
  <2> QED BY <1>3, <2>2, <2>4
<1> QED BY <1>5, <1>6, <1>7, <1>8 DEF Hold

-------------------------------------------------------------------------------
(* Owed and NothingForgotten while a handler is under way: when owes is     *)
(* what the peers owe, sent how far each file is handed out, wr what is on  *)
(* disk.                                                                    *)
OwedOf(owes, sent) ==
    \A c \in Cid : sending[c] # NoFile =>
        owes[c] \subseteq HandedOut(sending[c], sent[sending[c]])

KeptOf(owes, sent, wr) ==
    \A f \in opened :
        (\A c \in Cid : sending[c] = f => stage[c] # "closed") =>
            \A x \in HandedOut(f, sent[f]) :
                \/ x \in wr[f]
                \/ \E d \in Cid : sending[d] = f /\ stage[d] = "open" /\ x \in owes[d]

(* The blocks the next request names. *)
LEMMA NextBlocks ==
    ASSUME HoldTypes, NEW f \in File, sended[f] < Len(Blocks(f))
    PROVE  /\ LastPart(f) \in sended[f] + 1 .. Len(Blocks(f))
           /\ \A x : x \in HandedOut(f, LastPart(f)) <=>
                x \in HandedOut(f, sended[f])
                \/ \E k \in Handed(f) : x \in BlockBytes(Blocks(f)[k])
           /\ Blocks(f)[LastPart(f)][2] \in Nat
           /\ \A k \in Handed(f) : BlockBytes(Blocks(f)[k]) \subseteq Nat
<1>1. sended[f] \in Nat /\ Len(Blocks(f)) \in Nat
  BY BlocksTyped DEF HoldTypes
<1>2. LastPart(f) \in sended[f] + 1 .. Len(Blocks(f))
  BY <1>1 DEF LastPart, MaxParts
<1>3. Handed(f) = sended[f] + 1 .. LastPart(f)
  BY DEF Handed
<1>4. \A k : k \in 1 .. LastPart(f) <=> k \in 1 .. sended[f] \/ k \in Handed(f)
  BY <1>1, <1>2, <1>3
<1>5. \A k \in Handed(f) : BlockBytes(Blocks(f)[k]) \subseteq Nat
  BY <1>1, <1>2, <1>3, BlocksTyped DEF BlockBytes
<1>6. Blocks(f)[LastPart(f)][2] \in Nat
  BY <1>1, <1>2, BlocksTyped
<1> QED BY <1>2, <1>4, <1>5, <1>6, InHandedOut

LEMMA RequestHold ==
    ASSUME HoldTypes, Ids, NEW c \in Cid, stage[c] = "open",
           NEW owes \in [Cid -> SUBSET Nat], NEW wr,
           OwedOf(owes, sended), KeptOf(owes, sended, wr), RequestBlocks(c, owes)
    PROVE  /\ pending' \in [Cid -> SUBSET Nat]
           /\ sended' \in [File -> Nat]
           /\ requested' \in [Cid -> Nat]
           /\ \A f \in File : sended'[f] <= Len(Blocks(f))
           /\ \A d \in Cid : d # c => pending'[d] = owes[d]
           /\ OwedOf(pending', sended') /\ KeptOf(pending', sended', wr)
<1> DEFINE f == sending[c]
<1>1. CASE f = NoFile \/ sended[f] >= Len(Blocks(f))
  <2>1. pending' = owes /\ UNCHANGED <<sended, requested>>
    BY <1>1 DEF RequestBlocks
  <2> QED BY <2>1 DEF HoldTypes
<1>2. CASE ~(f = NoFile \/ sended[f] >= Len(Blocks(f)))
  <2> DEFINE new == UNION { BlockBytes(Blocks(f)[k]) : k \in Handed(f) }
  <2>1. f \in File
    BY <1>2 DEF Ids, HoldTypes
  <2>2. sended[f] < Len(Blocks(f)) /\ sended[f] \in Nat
    BY <1>2, <2>1, BlocksTyped DEF HoldTypes
  <2>3. /\ LastPart(f) \in sended[f] + 1 .. Len(Blocks(f))
        /\ \A x : x \in HandedOut(f, LastPart(f)) <=> x \in HandedOut(f, sended[f]) \/ x \in new
        /\ Blocks(f)[LastPart(f)][2] \in Nat
        /\ new \subseteq Nat
    BY <2>1, <2>2, NextBlocks
  <2>4. /\ sended' = [sended EXCEPT ![f] = LastPart(f)]
        /\ requested' = [requested EXCEPT ![c] = Blocks(f)[LastPart(f)][2]]
        /\ pending' = [owes EXCEPT ![c] = @ \cup new]
    BY <1>2 DEF RequestBlocks
  <2> HIDE DEF new, f
  <2>5. /\ sended' \in [File -> Nat]
        /\ \A g \in File : sended'[g] = IF g = f THEN LastPart(f) ELSE sended[g]
    BY <2>1, <2>2, <2>3, <2>4 DEF HoldTypes
  <2>6. /\ pending' \in [Cid -> SUBSET Nat]
        /\ \A d \in Cid : pending'[d] = IF d = c THEN owes[c] \cup new ELSE owes[d]
    BY <2>3, <2>4
  <2>7. requested' \in [Cid -> Nat]
    BY <2>3, <2>4 DEF HoldTypes
  <2>8. \A g \in File : sended'[g] <= Len(Blocks(g))
    <3>1. \A g \in File : sended[g] <= Len(Blocks(g))
      BY DEF HoldTypes
    <3>2. LastPart(f) <= Len(Blocks(f))
      BY <2>1, <2>2, <2>3, BlocksTyped
    <3> QED BY <2>5, <3>1, <3>2
  <2>9. OwedOf(pending', sended')
    <3> SUFFICES ASSUME NEW d \in Cid, sending[d] # NoFile, NEW x \in pending'[d]
                 PROVE  x \in HandedOut(sending[d], sended'[sending[d]])
      BY DEF OwedOf
    <3>1. sending[d] \in File
      BY DEF Ids, HoldTypes
    <3>2. CASE d = c /\ x \in new
      BY <2>1, <2>3, <2>5, <3>2 DEF f
    <3>3. CASE x \in owes[d]
      <4>1. x \in HandedOut(sending[d], sended[sending[d]])
        BY <3>3 DEF OwedOf
      <4> QED BY <2>3, <2>5, <3>1, <4>1
    <3> QED BY <2>6, <3>2, <3>3
  <2>10. KeptOf(pending', sended', wr)
    <3> SUFFICES ASSUME NEW g \in opened,
                        \A d \in Cid : sending[d] = g => stage[d] # "closed",
                        NEW x \in HandedOut(g, sended'[g])
                 PROVE  \/ x \in wr[g]
                        \/ \E d \in Cid : sending[d] = g /\ stage[d] = "open" /\ x \in pending'[d]
      BY DEF KeptOf
    <3>1. g \in File
      BY DEF HoldTypes
    <3>2. CASE x \in HandedOut(g, sended[g])
      BY <2>6, <3>2 DEF KeptOf
    <3>3. CASE g = f /\ x \in new
      BY <2>6, <3>3 DEF f
    <3> QED BY <2>3, <2>5, <3>1, <3>2, <3>3
  <2> QED BY <2>5, <2>6, <2>7, <2>8, <2>9, <2>10
<1> QED BY <1>1, <1>2

LEMMA OnUpAcceptedHold ==
    ASSUME Hold, NEW c \in Cid, OnUpAccepted(c)
    PROVE  Hold'
<1>1. /\ stage[c] = "open" /\ RequestBlocks(c, pending)
      /\ UNCHANGED <<nextId, stage, openVars, sending, singf>>
  BY DEF OnUpAccepted, Receives, fileVars, openVars
<1>2. /\ HoldTypes /\ Ids /\ pending \in [Cid -> SUBSET Nat]
      /\ OwedOf(pending, sended) /\ KeptOf(pending, sended, written)
  BY ForgottenBytes DEF Hold, HoldTypes, Owed, OwedOf, KeptOf
<1>3. /\ pending' \in [Cid -> SUBSET Nat]
      /\ sended' \in [File -> Nat]
      /\ requested' \in [Cid -> Nat]
      /\ \A f \in File : sended'[f] <= Len(Blocks(f))
      /\ \A d \in Cid : d # c => pending'[d] = pending[d]
      /\ OwedOf(pending', sended') /\ KeptOf(pending', sended', written)
  BY <1>1, <1>2, RequestHold
<1>4. HoldTypes'
  BY <1>1, <1>2, <1>3 DEF HoldTypes, openVars, Blocks
<1>5. Lists'
  BY <1>1 DEF Hold, Lists, openVars
<1>6. Ids'
  BY <1>1, <1>2, <1>3 DEF Ids
<1>7. Owed'
  BY <1>1, <1>3 DEF Owed, OwedOf, HandedOut, Blocks
<1>8. NothingForgotten'
  BY <1>1, <1>3, ForgottenBytesNext DEF KeptOf, openVars
<1> QED BY <1>4, <1>5, <1>6, <1>7, <1>8 DEF Hold

-------------------------------------------------------------------------------
(* A packet starts at the least byte owed and ends in the same block. *)
LEMMA PacketTyped ==
    ASSUME HoldTypes, Ids, Owed, NEW c \in Cid, pending[c] # {}, sending[c] # NoFile,
           NEW p \in Packets(c)
    PROVE  /\ p[1] \in Nat /\ p[2] \in Nat /\ p[1] <= p[2]
           /\ p[1] \in pending[c] /\ \A x \in pending[c] : p[1] <= x
           /\ \E k \in 1 .. Len(Blocks(sending[c])) :
                 p[1] \in BlockBytes(Blocks(sending[c])[k])
                 /\ p[2] \in BlockBytes(Blocks(sending[c])[k])
<1> DEFINE f == sending[c]
           a == Min(pending[c])
           B(k) == a \in BlockBytes(Blocks(f)[k])
           k == CHOOSE k \in DOMAIN Blocks(f) : B(k)
           e == Blocks(f)[k][2] - 1
<1>1. f \in File
  BY DEF Ids, HoldTypes
<1>2. a \in pending[c] /\ \A x \in pending[c] : a <= x
  BY LeastNat DEF HoldTypes
<1>3. a \in Nat
  BY <1>2 DEF HoldTypes
<1>4. PICK j \in 1 .. sended[f] : B(j)
  BY <1>2, InHandedOut DEF Owed
<1>5. sended[f] \in Nat /\ sended[f] <= Len(Blocks(f)) /\ Len(Blocks(f)) \in Nat
      /\ DOMAIN Blocks(f) = 1 .. Len(Blocks(f))
  BY <1>1, BlocksTyped DEF HoldTypes
<1>6. j \in DOMAIN Blocks(f)
  BY <1>4, <1>5
<1>7. k \in DOMAIN Blocks(f) /\ B(k)
  <2> HIDE DEF B
  <2> QED BY <1>4, <1>6
<1>8. PICK b \in a .. e : p = <<a, b>>
  BY DEF Packets
<1> HIDE DEF a, f
<1>9. Blocks(f)[k][1] \in Nat /\ Blocks(f)[k][2] \in Nat
  BY <1>1, <1>5, <1>7, BlocksTyped
<1>10. b \in Nat /\ a <= b /\ b \in BlockBytes(Blocks(f)[k])
  BY <1>3, <1>7, <1>8, <1>9 DEF BlockBytes
<1> HIDE DEF k, e
<1>11. p[1] = a /\ p[2] = b
  BY <1>8
<1> QED BY <1>2, <1>3, <1>5, <1>7, <1>10, <1>11 DEF f

(* What a packet leaves owed and on disk. *)
Left(c, p, again) ==
    IF again THEN pending ELSE [pending EXCEPT ![c] = @ \ (p[1] .. p[2])]

LEMMA TakePacketHold ==
    ASSUME Hold, sending \in [Cid -> File \cup {NoFile}],
           NEW c \in Cid, stage[c] = "open", sending[c] \in opened,
           pending[c] # {}, NEW p \in Packets(c), NEW good, NEW again,
           TakePacket(c, p, good, again)
    PROVE  Hold'
<1> DEFINE f == sending[c]
           owes == Left(c, p, again)
<1>1. HoldTypes /\ Lists /\ Ids /\ Owed /\ NothingForgotten /\ f \in File /\ f # NoFile
  BY EmuleXAssumption DEF Hold, HoldTypes
<1>2. p[1] \in Nat /\ p[2] \in Nat /\ p[1] <= p[2]
  BY <1>1, PacketTyped
<1>3. /\ fcparts' = [fcparts EXCEPT ![f] = Added(@, p[1], p[2])]
      /\ written' = [written EXCEPT ![f] = @ \cup (p[1] .. p[2])]
      /\ wrong' = [wrong EXCEPT ![f] = WrongAfter(f, p[1], p[2], good)]
      /\ UNCHANGED <<nextId, stage, singf>>
  BY DEF TakePacket, Write
<1>4. /\ written' \in [File -> SUBSET Nat]
      /\ \A g \in File : written[g] \subseteq written'[g]
      /\ p[1] .. p[2] \subseteq written'[f]
  BY <1>1, <1>2, <1>3 DEF HoldTypes
<1>5. wrong' \in [File -> SUBSET Nat]
  BY <1>1, <1>2, <1>3 DEF HoldTypes, WrongAfter
<1>6. fcparts' \in [File -> Seq(Pair)] /\ Lists'
  <2>1. /\ Added(fcparts[f], p[1], p[2]) \in Seq(Pair)
        /\ Sorted(Added(fcparts[f], p[1], p[2]))
        /\ Bytes(Added(fcparts[f], p[1], p[2])) \subseteq Bytes(fcparts[f]) \cup (p[1] .. p[2])
    BY <1>1, <1>2, AddedSorted, AddedClaims DEF HoldTypes, Lists
  <2> DEFINE q == Added(fcparts[f], p[1], p[2])
  <2>2. fcparts' = [fcparts EXCEPT ![f] = q]
    BY <1>3
  <2>3. q \in Seq(Pair) /\ Sorted(q) /\ Bytes(q) \subseteq written'[f]
    BY <1>1, <1>4, <2>1 DEF Lists
  <2> HIDE DEF q, f
  <2>4. \A g \in File : fcparts'[g] = IF g = f THEN q ELSE fcparts[g]
    BY <1>1, <2>2 DEF HoldTypes
  <2>5. fcparts' \in [File -> Seq(Pair)]
    BY <1>1, <2>2, <2>3 DEF HoldTypes
  <2>6. ASSUME NEW g \in File PROVE Sorted(fcparts'[g]) /\ Bytes(fcparts'[g]) \subseteq written'[g]
    BY <1>1, <1>4, <2>3, <2>4 DEF Lists
  <2> QED BY <2>5, <2>6 DEF Lists
<1>7. /\ owes \in [Cid -> SUBSET Nat]
      /\ \A d \in Cid : owes[d] \subseteq pending[d]
      /\ \A d \in Cid : \A x \in pending[d] :
            x \in owes[d] \/ (d = c /\ x \in p[1] .. p[2])
  <2>1. CASE again
    <3>1. owes = pending
      BY <2>1 DEF Left
    <3> HIDE DEF owes
    <3> QED BY <1>1, <3>1 DEF HoldTypes
  <2>2. CASE ~again
    <3> DEFINE gone == p[1] .. p[2]
    <3>1. owes = [pending EXCEPT ![c] = @ \ gone]
      BY <2>2 DEF Left
    <3> HIDE DEF gone, owes
    <3>2. owes \in [Cid -> SUBSET Nat]
      BY <1>1, <3>1 DEF HoldTypes
    <3>3. \A d \in Cid : owes[d] = IF d = c THEN pending[d] \ gone ELSE pending[d]
      BY <1>1, <3>1 DEF HoldTypes
    <3>4. \A d \in Cid : owes[d] \subseteq pending[d]
      BY <3>3
    <3>5. \A d \in Cid : \A x \in pending[d] : x \in owes[d] \/ (d = c /\ x \in gone)
      BY <3>3
    <3> QED BY <3>2, <3>4, <3>5 DEF gone
  <2> QED BY <2>1, <2>2
<1> HIDE DEF owes
<1>8. OwedOf(owes, sended)
  BY <1>1, <1>7 DEF Owed, OwedOf
<1>9. KeptOf(owes, sended, written')
  <2> SUFFICES ASSUME NEW g \in opened,
                      \A d \in Cid : sending[d] = g => stage[d] # "closed",
                      NEW x \in HandedOut(g, sended[g])
               PROVE  \/ x \in written'[g]
                      \/ \E d \in Cid : sending[d] = g /\ stage[d] = "open" /\ x \in owes[d]
    BY DEF KeptOf
  <2>1. g \in File
    BY <1>1 DEF HoldTypes
  <2>2. \/ x \in written[g]
        \/ \E d \in Cid : sending[d] = g /\ stage[d] = "open" /\ x \in pending[d]
    BY <1>1, ForgottenBytes
  <2> QED BY <1>4, <1>7, <2>1, <2>2
<1>10. ASSUME UNCHANGED <<sended, requested, sending>>, pending' = owes,
              opened' \subseteq opened
       PROVE  Hold'
  <2>1. HoldTypes'
    BY <1>1, <1>3, <1>4, <1>5, <1>6, <1>7, <1>10 DEF HoldTypes, Blocks
  <2>2. Ids'
    BY <1>1, <1>3, <1>7, <1>10 DEF Ids
  <2>3. Owed'
    BY <1>8, <1>10 DEF Owed, OwedOf, HandedOut, Blocks
  <2>4. NothingForgotten'
    BY <1>3, <1>9, <1>10, ForgottenBytesNext DEF KeptOf
  <2> QED BY <1>6, <2>1, <2>2, <2>3, <2>4 DEF Hold
<1>11. CASE ~WriteReturns(f, p[1], p[2])
  <2>1. UNCHANGED <<opened, sending>>
    BY <1>11 DEF TakePacket
  <2>2. CASE EndOfRequest(c, p[2])
    <3>1. RequestBlocks(c, owes)
      BY <1>11, <2>2 DEF TakePacket, owes, Left
    <3>2. /\ pending' \in [Cid -> SUBSET Nat]
          /\ sended' \in [File -> Nat]
          /\ requested' \in [Cid -> Nat]
          /\ \A g \in File : sended'[g] <= Len(Blocks(g))
          /\ \A d \in Cid : d # c => pending'[d] = owes[d]
          /\ OwedOf(pending', sended') /\ KeptOf(pending', sended', written')
      BY <1>1, <1>7, <1>8, <1>9, <3>1, RequestHold
    <3>3. HoldTypes'
      BY <1>1, <1>3, <1>4, <1>5, <1>6, <2>1, <3>2 DEF HoldTypes, Blocks
    <3>4. Ids'
      BY <1>1, <1>3, <1>7, <2>1, <3>2 DEF Ids
    <3>5. Owed'
      BY <2>1, <3>2 DEF Owed, OwedOf, HandedOut, Blocks
    <3>6. NothingForgotten'
      BY <1>3, <2>1, <3>2, ForgottenBytesNext DEF KeptOf
    <3> QED BY <1>6, <3>3, <3>4, <3>5, <3>6 DEF Hold
  <2>3. CASE ~EndOfRequest(c, p[2])
    <3>1. pending' = owes /\ UNCHANGED <<sended, requested>>
      BY <1>11, <2>3 DEF TakePacket, owes, Left
    <3> QED BY <1>10, <2>1, <3>1
  <2> QED BY <2>2, <2>3
<1>12. CASE WriteReturns(f, p[1], p[2])
  <2>1. pending' = owes /\ UNCHANGED <<sended, requested>>
    BY <1>12 DEF TakePacket, owes, Left
  <2>2. CASE Valid(f, p[1], p[2], good)
    <3>1. sending' = [sending EXCEPT ![c] = NoFile] /\ opened' = opened \ {f}
      BY <1>12, <2>2 DEF TakePacket, CloseFile
    <3> HIDE DEF f
    <3>2. HoldTypes'
      BY <1>1, <1>3, <1>4, <1>5, <1>6, <1>7, <2>1, <3>1 DEF HoldTypes, Blocks
    <3>3. \A d \in Cid : sending'[d] = IF d = c THEN NoFile ELSE sending[d]
      BY <3>1
    <3>4. Ids'
      <4>1. nextId' = nextId /\ stage' = stage /\ singf' = singf
        BY <1>3
      <4>2. \A d \in Cid : d >= nextId' => stage'[d] = "none" /\ sending'[d] = NoFile
        BY <1>1, <3>3, <4>1 DEF Ids
      <4>3. \A d \in Cid : sending'[d] \in singf' \cup {NoFile}
        BY <1>1, <3>3, <4>1 DEF Ids
      <4>4. \A d \in Cid : pending'[d] # {} => stage'[d] = "open"
        BY <1>1, <1>7, <2>1, <4>1 DEF Ids
      <4> QED BY <4>2, <4>3, <4>4 DEF Ids
    <3>5. Owed'
      BY <1>8, <2>1, <3>3 DEF Owed, OwedOf, HandedOut, Blocks
    <3>6. NothingForgotten'
      <4> SUFFICES ASSUME NEW g \in opened',
                          \A d \in Cid : sending'[d] = g => stage'[d] # "closed",
                          NEW x \in HandedOut(g, sended'[g])
                   PROVE  \/ x \in written'[g]
                          \/ \E d \in Cid : sending'[d] = g /\ stage'[d] = "open" /\ x \in pending'[d]
        BY ForgottenBytesNext
      <4>1. g \in opened /\ g # f /\ g # NoFile
        BY <1>1, <3>1, EmuleXAssumption DEF HoldTypes
      <4>2. \A d \in Cid : sending'[d] = g <=> sending[d] = g
        BY <3>3, <4>1 DEF f
      <4> QED BY <1>3, <1>9, <2>1, <4>1, <4>2 DEF KeptOf
    <3> QED BY <1>6, <3>2, <3>4, <3>5, <3>6 DEF Hold
  <2>3. CASE ~Valid(f, p[1], p[2], good)
    <3>1. UNCHANGED <<opened, sending>>
      BY <1>12, <2>3 DEF TakePacket
    <3> QED BY <1>10, <2>1, <3>1
  <2> QED BY <2>2, <2>3
<1> QED BY <1>11, <1>12

LEMMA OnSendingHold ==
    ASSUME Hold, sending \in [Cid -> File \cup {NoFile}], NEW c \in Cid, OnSending(c)
    PROVE  Hold'
<1>1. stage[c] = "open" /\ pending[c] # {}
  BY DEF OnSending
<1>2. CASE sending[c] = NoFile
  <2>1. /\ pending' = [pending EXCEPT ![c] = {}]
        /\ UNCHANGED <<nextId, stage, openVars, sending, singf, sended, requested>>
    BY <1>2 DEF OnSending, fileVars, openVars, sendVars
  <2>2. /\ pending' \in [Cid -> SUBSET Nat]
        /\ \A d \in Cid : pending'[d] \subseteq pending[d]
        /\ \A d \in Cid : d # c => pending'[d] = pending[d]
    BY <2>1 DEF Hold, HoldTypes
  <2>3. HoldTypes' /\ Lists' /\ Ids' /\ Owed'
    BY <2>1, <2>2 DEF Hold, HoldTypes, Lists, Ids, Owed, openVars, HandedOut, Blocks
  <2>4. \A f \in opened : sending[c] # f
    BY <1>2, EmuleXAssumption DEF Hold, HoldTypes
  <2>5. NothingForgotten'
    BY <2>1, <2>2, <2>4, ForgottenBytes, ForgottenBytesNext DEF Hold, openVars
  <2> QED BY <2>3, <2>5 DEF Hold
<1>3. CASE sending[c] # NoFile /\ sending[c] \notin opened
  <2>1. Die("nullstream")
    BY <1>3 DEF OnSending
  <2> QED BY <2>1, DieFrame, HoldFrame DEF netVars, sendVars
<1>4. CASE sending[c] # NoFile /\ sending[c] \in opened
  <2>0. PICK p \in Packets(c) : \E again \in {FALSE, esrv[c] \in Repeater} :
            \E good \in {TRUE, esrv[c] \notin Liar} : TakePacket(c, p, good, again)
    BY <1>4 DEF OnSending
  <2>1. PICK again \in {FALSE, esrv[c] \in Repeater} :
            \E good \in {TRUE, esrv[c] \notin Liar} : TakePacket(c, p, good, again)
    BY <2>0
  <2>2. PICK good \in {TRUE, esrv[c] \notin Liar} : TakePacket(c, p, good, again)
    BY <2>1
  <2> QED BY <1>1, <1>4, <2>2, TakePacketHold
<1> QED BY <1>2, <1>3, <1>4

LEMMA AddTaskHold ==
    ASSUME Hold, NEW f \in File, AddTask(f)
    PROVE  Hold'
<1>1. UNCHANGED <<nextId, stage, pending, sending, requested>>
  BY DEF AddTask
<1>2. CASE UNCHANGED <<openVars, singf, sended>>
  BY <1>1, <1>2, HoldFrame
<1>3. CASE /\ OpenFiles({f} \ singf)
           /\ singf' = singf \cup {f}
           /\ sended' = IF f \in singf THEN sended ELSE [sended EXCEPT ![f] = 0]
  <2>1. CASE f \in singf
    <3>1. opened' = opened /\ singf' = singf /\ sended' = sended
      BY <1>3, <2>1 DEF OpenFiles
    <3>2. /\ fcparts' = [g \in File |-> fcparts[g]]
          /\ written' = [g \in File |-> written[g]]
          /\ wrong' = [g \in File |-> wrong[g]]
      BY <1>3, <2>1 DEF OpenFiles
    <3>3. fcparts' = fcparts /\ written' = written /\ wrong' = wrong
      BY <3>2 DEF Hold, HoldTypes
    <3> QED BY <1>1, <3>1, <3>3, HoldFrame DEF openVars
  <2>2. CASE f \notin singf
    <3>1. /\ opened' = opened \cup {f} /\ f \notin opened
          /\ fcparts' = [g \in File |-> IF g = f THEN << >> ELSE fcparts[g]]
          /\ written' = [g \in File |-> IF g = f THEN {} ELSE written[g]]
          /\ wrong' = [g \in File |-> IF g = f THEN {} ELSE wrong[g]]
      BY <1>3, <2>2 DEF OpenFiles, Hold, HoldTypes
    <3>2. sended' = [sended EXCEPT ![f] = 0] /\ singf' = singf \cup {f}
      BY <1>3, <2>2
    <3>3. \A c \in Cid : sending[c] # f
      BY <2>2, EmuleXAssumption DEF Hold, Ids
    <3>4. HoldTypes'
      BY <1>1, <3>1, <3>2, EmptyList, BlocksTyped DEF Hold, HoldTypes, Blocks
    <3>5. Lists'
      BY <3>1, EmptyList DEF Hold, Lists
    <3>6. Ids'
      BY <1>1, <3>2 DEF Hold, Ids
    <3>7. \A g \in File : g # f => sended'[g] = sended[g] /\ written'[g] = written[g]
      BY <3>1, <3>2 DEF Hold, HoldTypes
    <3>8. Owed'
      <4> SUFFICES ASSUME NEW c \in Cid, sending[c] # NoFile
                   PROVE  pending[c] \subseteq HandedOut(sending[c], sended'[sending[c]])
        BY <1>1 DEF Owed, HandedOut, Blocks
      <4>1. sending[c] \in File /\ sending[c] # f
        BY <3>3 DEF Hold, HoldTypes, Ids
      <4> QED BY <3>7, <4>1 DEF Hold, Owed
    <3>9. NothingForgotten'
      <4> SUFFICES ASSUME NEW g \in opened',
                          \A c \in Cid : sending[c] = g => stage[c] # "closed",
                          NEW x \in HandedOut(g, sended'[g])
                   PROVE  \/ x \in written'[g]
                          \/ \E d \in Cid : sending[d] = g /\ stage[d] = "open" /\ x \in pending[d]
        BY <1>1, ForgottenBytesNext
      <4>1. CASE g = f
        <5>1. sended'[f] = 0
          BY <3>2 DEF Hold, HoldTypes
        <5> QED BY <4>1, <5>1, InHandedOut
      <4>2. CASE g # f
        <5>1. g \in opened /\ g \in File
          BY <3>1, <4>2 DEF Hold, HoldTypes
        <5> QED BY <3>7, <4>2, <5>1, ForgottenBytes DEF Hold
      <4> QED BY <4>1, <4>2
    <3> QED BY <3>4, <3>5, <3>6, <3>8, <3>9 DEF Hold
  <2> QED BY <2>1, <2>2
<1> QED BY <1>2, <1>3 DEF AddTask

LEMMA NextHold ==
    ASSUME Hold, TaskInv, BookInv, [Next]_vars
    PROVE  Hold'
<1>1. /\ sending \in [Cid -> File \cup {NoFile}]
      /\ stage \in [Cid -> {"none", "connecting", "open", "closed"}]
      /\ LinkInv
  BY DEF TaskInv, BookInv, LoginInv
<1>2. ASSUME UNCHANGED <<nextId, stage, pending, openVars, sendVars>> PROVE Hold'
  BY <1>2, HoldFrame DEF sendVars
<1>3. ASSUME UNCHANGED <<netVars, openVars, bookVars, sendVars>> PROVE Hold'
  BY <1>2, <1>3 DEF netVars
<1>4. CASE Boot
  BY <1>4, BootHold
<1>5. CASE Kill
  BY <1>3, <1>5, DieFrame DEF Kill
<1>6. ASSUME NEW c \in Cid, Handle(c) PROVE Hold'
  <2>1. CASE Established(c)
    BY <1>1, <2>1, EstablishedHold
  <2>2. CASE OnFail(c)
    BY <1>1, <2>2, OnFailHold
  <2>3. CASE OnServerList(c)
    <3>1. PICK srvs \in ServerLists :
            \E who \in Dials(nextId, Unknown(srvs)) : \E down :
                Connect(nextId, stage, esrv, who, down)
      BY <2>3 DEF OnServerList
    <3>2. PICK who \in Dials(nextId, Unknown(srvs)) : \E down :
              Connect(nextId, stage, esrv, who, down)
      BY <3>1
    <3>3. PICK down : Connect(nextId, stage, esrv, who, down)
      BY <3>2
    <3>4. Unknown(srvs) \in SUBSET Address
      BY RunnerAssumption DEF Unknown, Address
    <3>5. UNCHANGED <<pending, openVars, sending, singf, sended, requested>>
      BY <2>3 DEF OnServerList, fileVars, openVars, sendVars
    <3>6. 1 \in 1 .. MaxConn + 1 /\ nextId \in 1 .. MaxConn + 1 /\ MaxConn \in Nat
      BY <1>1, ED2KAssumption DEF LinkInv, Links
    <3>7. \A d \in DOMAIN who : d \in Cid /\ d >= nextId
      BY <3>6, DialsShape DEF Cid
    <3>8. sending' = [d \in Cid |-> IF d \in DOMAIN who THEN NoFile ELSE sending[d]]
      BY <1>1, <3>5, <3>7 DEF Hold, Ids
    <3> QED BY <1>1, <3>3, <3>4, <3>5, <3>8, ConnectHold
  <2>4. CASE OnLogined(c)
    <3>1. UNCHANGED <<nextId, stage, pending, openVars, sendVars>>
      BY <2>4, DieFrame DEF OnLogined, netVars
    <3> QED BY <1>2, <3>1
  <2>5. ASSUME NEW f \in File, OnFoundSource(c, f) PROVE Hold'
    <3>1. CASE f \notin opened
      BY <1>3, <2>5, <3>1, DieFrame DEF OnFoundSource
    <3>2. CASE f \in opened
      <4>p. PICK peers \in SourceSets : \E who \in Dials(nextId, peers) : \E down :
                /\ Connect(nextId, stage, esrv, who, down)
                /\ sending' = [d \in Cid |-> IF d \in DOMAIN who THEN f ELSE sending[d]]
        BY <2>5, <3>2 DEF OnFoundSource
      <4>w. PICK who \in Dials(nextId, peers) : \E down :
                /\ Connect(nextId, stage, esrv, who, down)
                /\ sending' = [d \in Cid |-> IF d \in DOMAIN who THEN f ELSE sending[d]]
        BY <4>p
      <4>1. PICK down :
                /\ Connect(nextId, stage, esrv, who, down)
                /\ sending' = [d \in Cid |-> IF d \in DOMAIN who THEN f ELSE sending[d]]
        BY <4>w
      <4>2. peers \in SUBSET Address
        BY RunnerAssumption DEF Address
      <4>3. UNCHANGED <<pending, openVars, singf, sended, requested>>
        BY <2>5, <3>2 DEF OnFoundSource
      <4> QED BY <1>1, <3>2, <4>1, <4>2, <4>3, ConnectHold
    <3> QED BY <3>1, <3>2
  <2>6. CASE OnAnswered(c)
    BY <1>2, <2>6 DEF OnAnswered, fileVars, openVars
  <2>7. CASE OnUpAccepted(c)
    BY <2>7, OnUpAcceptedHold
  <2>8. CASE OnSending(c)
    BY <1>1, <2>8, OnSendingHold
  <2>9. CASE KillInSendDone(c)
    BY <1>3, <2>9, DieFrame DEF KillInSendDone
  <2>10. CASE HelloThrows(c)
    BY <1>3, <2>10, DieFrame DEF HelloThrows
  <2> QED BY <1>6, <2>1, <2>2, <2>3, <2>4, <2>5, <2>6, <2>7, <2>8, <2>9, <2>10 DEF Handle
<1>7. ASSUME NEW f \in File, AddTask(f) PROVE Hold'
  BY <1>7, AddTaskHold
<1>8. ASSUME NEW f \in File, KillInAddTask(f) PROVE Hold'
  BY <1>3, <1>8, DieFrame DEF KillInAddTask
<1>9. CASE UNCHANGED vars
  BY <1>3, <1>9 DEF vars, memVars
<1> QED BY <1>4, <1>5, <1>6, <1>7, <1>8, <1>9 DEF Next

(* Hold holds of every behaviour. *)
THEOREM HoldInvariance == Spec => []Hold
<1>1. Hold /\ TaskInv /\ BookInv /\ [Next]_vars => Hold'
  BY NextHold
<1> QED BY <1>1, InitHold, TaskInvariance, BookInvariance, PTL DEF Spec

(* Every byte handed out is on disk or still owed by a live peer, as long   *)
(* as no connection that was to bring its file has dropped.                 *)
THEOREM HandedOutIsKept == Spec => []NothingForgotten
<1>1. Hold => NothingForgotten
  BY DEF Hold
<1> QED BY <1>1, HoldInvariance, PTL

-------------------------------------------------------------------------------
(* Why a byte is asked of one peer only: what is on disk is of blocks       *)
(* handed out, only files that are open are owed, a file that is closed was *)
(* handed out to its end, and of a block a peer owes what follows the first *)
(* byte it owes.                                                            *)
Tails(owes) ==
    \A c \in Cid : sending[c] # NoFile =>
        \A k \in 1 .. Len(Blocks(sending[c])) :
            \A x \in BlockBytes(Blocks(sending[c])[k]) :
                \A y \in BlockBytes(Blocks(sending[c])[k]) :
                    x \in owes[c] /\ x <= y => y \in owes[c]

OnceOf(owes, sent, wr) ==
    /\ \A c, d \in Cid : c # d /\ sending[c] = sending[d] => owes[c] \cap owes[d] = {}
    /\ \A c \in Cid : sending[c] # NoFile => owes[c] \cap wr[sending[c]] = {}
    /\ \A f \in opened : wr[f] \subseteq HandedOut(f, sent[f])
    /\ Tails(owes)

OnlyOpen ==
    /\ \A c \in Cid : pending[c] # {} => sending[c] \in opened
    /\ \A f \in singf \ opened : sended[f] >= Len(Blocks(f))

Once == OnceOf(pending, sended, written) /\ OnlyOpen /\ NoWriteAfterClose

LEMMA OnceAsked == Once => AskedOnce /\ NoWriteAfterClose
BY DEF Once, OnceOf, AskedOnce

LEMMA InitOnce == Init => Once
<1> SUFFICES ASSUME Init PROVE Once
  OBVIOUS
<1>1. OnceOf(pending, sended, written)
  BY DEF Init, OnceOf, Tails, NoPending
<1>2. OnlyOpen
  BY DEF Init, OnlyOpen, NoPending
<1> QED BY <1>1, <1>2 DEF Once, Init, NoWriteAfterClose

(* A step that leaves the files alone, by which a connection loses what it  *)
(* owes or keeps it with its file.                                          *)
LEMMA OnceFrame ==
    ASSUME Once, UNCHANGED <<opened, written, singf, sended>>, proc' # "nullstream",
           \A d \in Cid : pending'[d] = {} \/ (pending'[d] = pending[d] /\ sending'[d] = sending[d])
    PROVE  Once'
<1>1. OnceOf(pending, sended, written)'
  <2>1. \A c, d \in Cid : c # d /\ sending'[c] = sending'[d] => pending'[c] \cap pending'[d] = {}
    BY DEF Once, OnceOf
  <2>2. \A c \in Cid : sending'[c] # NoFile => pending'[c] \cap written'[sending'[c]] = {}
    BY DEF Once, OnceOf
  <2>3. \A f \in opened' : written'[f] \subseteq HandedOut(f, sended'[f])
    BY DEF Once, OnceOf
  <2>4. Tails(pending)'
    <3> SUFFICES ASSUME NEW c \in Cid, sending'[c] # NoFile,
                        NEW k \in 1 .. Len(Blocks(sending'[c])),
                        NEW x \in BlockBytes(Blocks(sending'[c])[k]),
                        NEW y \in BlockBytes(Blocks(sending'[c])[k]),
                        x \in pending'[c], x <= y
                 PROVE  y \in pending'[c]
      BY DEF Tails, Blocks, BlockBytes
    <3>1. pending'[c] = pending[c] /\ sending'[c] = sending[c]
      OBVIOUS
    <3> QED BY <3>1 DEF Once, OnceOf, Tails
  <2> QED BY <2>1, <2>2, <2>3, <2>4 DEF OnceOf, HandedOut, Blocks
<1>2. OnlyOpen'
  BY DEF Once, OnlyOpen, Blocks
<1> QED BY <1>1, <1>2 DEF Once, NoWriteAfterClose

(* The blocks of the next request have nothing of those before. *)
LEMMA NextBlocksNew ==
    ASSUME OffsetsFit, HoldTypes, NEW f \in File, sended[f] < Len(Blocks(f)),
           NEW k \in Handed(f), NEW x \in BlockBytes(Blocks(f)[k])
    PROVE  x \notin HandedOut(f, sended[f])
<1>1. sended[f] \in Nat /\ Len(Blocks(f)) \in Nat
  BY BlocksTyped DEF HoldTypes
<1>2. k \in 1 .. Len(Blocks(f)) /\ k > sended[f]
  BY <1>1, NextBlocks DEF Handed
<1>3. SUFFICES ASSUME NEW j \in 1 .. sended[f], x \in BlockBytes(Blocks(f)[j])
               PROVE  FALSE
  BY InHandedOut
<1>4. j \in 1 .. Len(Blocks(f)) /\ j < k
  BY <1>1, <1>2
<1>5. Blocks(f)[j][2] <= Blocks(f)[k][1]
  BY <1>2, <1>4, BlocksApart
<1> QED BY <1>2, <1>3, <1>4, <1>5, BlocksTyped DEF BlockBytes

(* A byte is in one block only. *)
LEMMA OneBlock ==
    ASSUME OffsetsFit, NEW f \in File, NEW x,
           NEW j \in 1 .. Len(Blocks(f)), x \in BlockBytes(Blocks(f)[j]),
           NEW k \in 1 .. Len(Blocks(f)), x \in BlockBytes(Blocks(f)[k])
    PROVE  j = k
<1>1. /\ j \in Nat /\ k \in Nat
      /\ Blocks(f)[j][1] \in Nat /\ Blocks(f)[j][2] \in Nat
      /\ Blocks(f)[k][1] \in Nat /\ Blocks(f)[k][2] \in Nat
  BY BlocksTyped
<1>2. x \in Int /\ Blocks(f)[j][1] <= x /\ x < Blocks(f)[j][2]
      /\ Blocks(f)[k][1] <= x /\ x < Blocks(f)[k][2]
  BY <1>1 DEF BlockBytes
<1>3. /\ j < k => Blocks(f)[j][2] <= Blocks(f)[k][1]
      /\ k < j => Blocks(f)[k][2] <= Blocks(f)[j][1]
  BY BlocksApart
<1> QED BY <1>1, <1>2, <1>3

LEMMA RequestOnce ==
    ASSUME OffsetsFit, HoldTypes, Ids, NEW c \in Cid,
           NEW owes \in [Cid -> SUBSET Nat], NEW wr,
           OwedOf(owes, sended), OnceOf(owes, sended, wr),
           \A f \in singf \ opened : sended[f] >= Len(Blocks(f)),
           RequestBlocks(c, owes)
    PROVE  /\ OnceOf(pending', sended', wr)
           /\ pending' = owes \/ sending[c] \in opened
           /\ \A f \in File : sended'[f] >= sended[f]
           /\ \A d \in Cid : d # c => pending'[d] = owes[d]
<1> DEFINE f == sending[c]
<1>0. sended \in [File -> Nat]
  BY DEF HoldTypes
<1>1. CASE f = NoFile \/ sended[f] >= Len(Blocks(f))
  <2>1. pending' = owes /\ UNCHANGED <<sended, requested>>
    BY <1>1 DEF RequestBlocks
  <2> QED BY <1>0, <2>1
<1>2. CASE ~(f = NoFile \/ sended[f] >= Len(Blocks(f)))
  <2> DEFINE new == UNION { BlockBytes(Blocks(f)[k]) : k \in Handed(f) }
  <2>1. f \in File /\ f \in opened
    BY <1>2 DEF Ids, HoldTypes
  <2>2. sended[f] < Len(Blocks(f)) /\ sended[f] \in Nat
    BY <1>0, <1>2, <2>1, BlocksTyped
  <2>3. /\ LastPart(f) \in sended[f] + 1 .. Len(Blocks(f))
        /\ \A x : x \in HandedOut(f, LastPart(f)) <=> x \in HandedOut(f, sended[f]) \/ x \in new
        /\ new \subseteq Nat
    BY <2>1, <2>2, NextBlocks
  <2>4. /\ sended' = [sended EXCEPT ![f] = LastPart(f)]
        /\ pending' = [owes EXCEPT ![c] = @ \cup new]
    BY <1>2 DEF RequestBlocks
  <2>5. \A x \in new : x \notin HandedOut(f, sended[f])
    BY <2>1, <2>2, NextBlocksNew
  <2>6. \A g \in File : sended'[g] = IF g = f THEN LastPart(f) ELSE sended[g]
    <3> HIDE DEF f
    <3> QED BY <1>0, <2>1, <2>4
  <2>7. \A d \in Cid : pending'[d] = IF d = c THEN owes[c] \cup new ELSE owes[d]
    <3> HIDE DEF new
    <3> QED BY <2>4
  <2>8. \A k \in 1 .. Len(Blocks(f)) : \A x \in BlockBytes(Blocks(f)[k]) :
           x \in new => BlockBytes(Blocks(f)[k]) \subseteq new
    <3> SUFFICES ASSUME NEW k \in 1 .. Len(Blocks(f)), NEW x \in BlockBytes(Blocks(f)[k]),
                        x \in new
                 PROVE  BlockBytes(Blocks(f)[k]) \subseteq new
      OBVIOUS
    <3>1. PICK j \in Handed(f) : x \in BlockBytes(Blocks(f)[j])
      OBVIOUS
    <3>2. j \in 1 .. Len(Blocks(f))
      BY <2>2, <2>3 DEF Handed
    <3>3. j = k
      BY <2>1, <3>1, <3>2, OneBlock
    <3> QED BY <3>1, <3>3
  <2> HIDE DEF new, f
  <2>9. \A d, e \in Cid : d # e /\ sending[d] = sending[e] => pending'[d] \cap pending'[e] = {}
    <3>1. \A d \in Cid : sending[d] = f => owes[d] \subseteq HandedOut(f, sended[f])
      BY <2>1, EmuleXAssumption DEF OwedOf
    <3>2. \A d, e \in Cid : d # e /\ sending[d] = sending[e] => owes[d] \cap owes[e] = {}
      BY DEF OnceOf
    <3> QED BY <2>5, <2>7, <3>1, <3>2 DEF f
  <2>10. \A d \in Cid : sending[d] # NoFile => pending'[d] \cap wr[sending[d]] = {}
    <3>1. wr[f] \subseteq HandedOut(f, sended[f])
      BY <2>1 DEF OnceOf
    <3>2. \A d \in Cid : sending[d] # NoFile => owes[d] \cap wr[sending[d]] = {}
      BY DEF OnceOf
    <3> QED BY <2>5, <2>7, <3>1, <3>2 DEF f
  <2>11. \A g \in opened : wr[g] \subseteq HandedOut(g, sended'[g])
    <3>1. \A g \in opened : wr[g] \subseteq HandedOut(g, sended[g]) /\ g \in File
      BY DEF OnceOf, HoldTypes
    <3> QED BY <2>3, <2>6, <3>1
  <2>12. Tails(pending')
    <3> SUFFICES ASSUME NEW d \in Cid, sending[d] # NoFile,
                        NEW k \in 1 .. Len(Blocks(sending[d])),
                        NEW x \in BlockBytes(Blocks(sending[d])[k]),
                        NEW y \in BlockBytes(Blocks(sending[d])[k]),
                        x \in pending'[d], x <= y
                 PROVE  y \in pending'[d]
      BY DEF Tails
    <3>1. CASE x \in owes[d]
      <4>1. y \in owes[d]
        BY <3>1 DEF OnceOf, Tails
      <4> QED BY <2>7, <4>1
    <3>2. CASE d = c /\ x \in new
      BY <2>7, <2>8, <3>2 DEF f
    <3> QED BY <2>7, <3>1, <3>2
  <2>13. \A g \in File : sended'[g] >= sended[g]
    <3>1. LastPart(f) \in Nat /\ LastPart(f) >= sended[f]
      <4>1. Len(Blocks(f)) \in Nat
        BY <2>1, BlocksTyped
      <4> QED BY <2>2, <2>3, <4>1
    <3>2. ASSUME NEW g \in File PROVE sended'[g] >= sended[g]
      <4>1. sended[g] \in Nat
        BY <1>0
      <4> QED BY <2>6, <3>1, <4>1
    <3> QED BY <3>2
  <2>14. \A d \in Cid : d # c => pending'[d] = owes[d]
    BY <2>7
  <2>15. OnceOf(pending', sended', wr)
    BY <2>9, <2>10, <2>11, <2>12 DEF OnceOf
  <2> QED BY <2>1, <2>13, <2>14, <2>15 DEF f
<1> QED BY <1>1, <1>2

LEMMA OnUpAcceptedOnce ==
    ASSUME OffsetsFit, Hold, Once, NEW c \in Cid, OnUpAccepted(c)
    PROVE  Once'
<1>1. /\ proc' = "up" /\ RequestBlocks(c, pending)
      /\ UNCHANGED <<opened, written, sending, singf>>
  BY DEF OnUpAccepted, Up, fileVars
<1>2. /\ HoldTypes /\ Ids /\ pending \in [Cid -> SUBSET Nat]
      /\ OwedOf(pending, sended) /\ OnceOf(pending, sended, written)
      /\ \A f \in singf \ opened : sended[f] >= Len(Blocks(f))
  BY DEF Hold, HoldTypes, Owed, OwedOf, Once, OnlyOpen
<1>3. /\ OnceOf(pending', sended', written)
      /\ pending' = pending \/ sending[c] \in opened
      /\ \A f \in File : sended'[f] >= sended[f]
      /\ \A d \in Cid : d # c => pending'[d] = pending[d]
      /\ sended' \in [File -> Nat]
  <2>1. stage[c] = "open" /\ KeptOf(pending, sended, written)
    BY ForgottenBytes DEF OnUpAccepted, Receives, Hold, KeptOf
  <2> QED BY <1>1, <1>2, <2>1, RequestOnce, RequestHold
<1>4. OnceOf(pending, sended, written)'
  BY <1>1, <1>3 DEF OnceOf, Tails, HandedOut, Blocks, BlockBytes
<1>5. OnlyOpen'
  <2>1. \A d \in Cid : pending'[d] # {} => sending'[d] \in opened'
    BY <1>1, <1>3 DEF Once, OnlyOpen
  <2>2. \A f \in singf' \ opened' : sended'[f] >= Len(Blocks(f))
    <3> SUFFICES ASSUME NEW f \in singf \ opened PROVE sended'[f] >= Len(Blocks(f))
      BY <1>1
    <3>1. f \in File /\ sended[f] \in Nat /\ Len(Blocks(f)) \in Nat /\ sended'[f] \in Nat
      BY <1>2, <1>3, BlocksTyped DEF HoldTypes
    <3> QED BY <1>2, <1>3, <3>1
  <2> QED BY <2>1, <2>2 DEF OnlyOpen, Blocks
<1> QED BY <1>1, <1>4, <1>5 DEF Once, NoWriteAfterClose

(* A packet is of bytes its peer owes, inside one block handed out. *)
LEMMA PacketOwed ==
    ASSUME OffsetsFit, Hold, Once, NEW c \in Cid, pending[c] # {}, sending[c] # NoFile,
           NEW p \in Packets(c)
    PROVE  /\ p[1] .. p[2] \subseteq pending[c]
           /\ \A x \in pending[c] : x \notin p[1] .. p[2] => x > p[2]
<1> DEFINE f == sending[c]
<1>1. HoldTypes /\ Ids /\ Owed /\ Tails(pending)
  BY DEF Hold, Once, OnceOf
<1>2. /\ p[1] \in Nat /\ p[2] \in Nat /\ p[1] <= p[2]
      /\ p[1] \in pending[c] /\ \A x \in pending[c] : p[1] <= x
  BY <1>1, PacketTyped
<1>3. PICK k \in 1 .. Len(Blocks(f)) :
          p[1] \in BlockBytes(Blocks(f)[k]) /\ p[2] \in BlockBytes(Blocks(f)[k])
  BY <1>1, PacketTyped
<1>4. f \in File
  BY <1>1 DEF HoldTypes, Ids
<1>5. Blocks(f)[k][1] \in Nat /\ Blocks(f)[k][2] \in Nat
  BY <1>4, BlocksTyped
<1>6. \A x \in p[1] .. p[2] : x \in BlockBytes(Blocks(f)[k]) /\ p[1] <= x
  BY <1>2, <1>3, <1>5 DEF BlockBytes
<1>7. p[1] .. p[2] \subseteq pending[c]
  BY <1>1, <1>2, <1>3, <1>6 DEF Tails
<1>8. pending[c] \subseteq Nat
  BY <1>1 DEF HoldTypes
<1> QED BY <1>2, <1>7, <1>8

(* A file that is claimed whole: nothing of it is owed any more, and all    *)
(* its blocks have been handed out.                                         *)
LEMMA WholeIsHandedOut ==
    ASSUME OffsetsFit, HoldTypes, NEW f \in File, NEW bytes,
           Contents(f) \subseteq bytes, bytes \subseteq HandedOut(f, sended[f])
    PROVE  /\ sended[f] >= Len(Blocks(f))
           /\ HandedOut(f, sended[f]) \subseteq bytes
<1> DEFINE n == Len(Blocks(f))
<1>1. n \in Nat /\ sended[f] \in Nat /\ sended[f] <= n /\ Size[f] \in Nat
  BY BlocksTyped, FileStoreAssumption DEF HoldTypes
<1>2. \A k \in 1 .. n : /\ Blocks(f)[k][1] \in Nat /\ Blocks(f)[k][2] \in Nat
                        /\ Blocks(f)[k][1] < Blocks(f)[k][2] /\ Blocks(f)[k][2] <= Size[f]
  BY BlocksTyped, BlocksApart
<1>3. \A k \in 1 .. n : /\ BlockBytes(Blocks(f)[k]) \subseteq Contents(f)
                        /\ Blocks(f)[k][1] \in BlockBytes(Blocks(f)[k])
  BY <1>1, <1>2 DEF BlockBytes, Contents
<1>4. HandedOut(f, sended[f]) \subseteq bytes
  BY <1>1, <1>3, InHandedOut
<1>5. ASSUME sended[f] < n PROVE FALSE
  <2>1. n \in 1 .. n
    BY <1>1, <1>5
  <2> DEFINE x == Blocks(f)[n][1]
  <2>2. x \in BlockBytes(Blocks(f)[n]) /\ x \in HandedOut(f, sended[f])
    BY <1>3, <2>1
  <2>3. PICK j \in 1 .. sended[f] : x \in BlockBytes(Blocks(f)[j])
    BY <2>2, InHandedOut
  <2>4. j \in 1 .. n /\ j < n
    BY <1>1, <1>5, <2>3
  <2> HIDE DEF n
  <2>5. j = n
    BY <2>1, <2>2, <2>3, <2>4, OneBlock DEF n
  <2> QED BY <2>4, <2>5, <1>1
<1> QED BY <1>1, <1>4, <1>5

LEMMA TakePacketOnce ==
    ASSUME OffsetsFit, Hold, Once, sending \in [Cid -> File \cup {NoFile}],
           NEW c \in Cid, stage[c] = "open", sending[c] \in opened,
           pending[c] # {}, NEW p \in Packets(c), NEW good,
           TakePacket(c, p, good, FALSE)
    PROVE  Once'
<1> DEFINE f == sending[c]
           gone == p[1] .. p[2]
           owes == [pending EXCEPT ![c] = @ \ gone]
<1>1. /\ HoldTypes /\ Lists /\ Ids /\ Owed /\ f \in File /\ f # NoFile
      /\ OnceOf(pending, sended, written) /\ OnlyOpen
  BY EmuleXAssumption DEF Hold, HoldTypes, Once
<1>2. /\ gone \subseteq pending[c] /\ gone \subseteq Nat
      /\ p[1] \in Nat /\ p[2] \in Nat /\ p[1] <= p[2]
      /\ \A x \in pending[c] : x \notin gone => x > p[2]
      /\ \E k \in 1 .. Len(Blocks(f)) :
            p[1] \in BlockBytes(Blocks(f)[k]) /\ p[2] \in BlockBytes(Blocks(f)[k])
  BY <1>1, PacketOwed, PacketTyped
<1>3. /\ fcparts' = [fcparts EXCEPT ![f] = Added(@, p[1], p[2])]
      /\ written' = [written EXCEPT ![f] = @ \cup gone]
      /\ proc' = "up"
      /\ UNCHANGED singf
  BY DEF TakePacket, Write, Up
<1> HIDE DEF gone
<1>4. \A g \in File : written'[g] = IF g = f THEN written[f] \cup gone ELSE written[g]
  <2> HIDE DEF f
  <2> QED BY <1>1, <1>3 DEF HoldTypes
<1>5. /\ owes \in [Cid -> SUBSET Nat]
      /\ \A d \in Cid : owes[d] = IF d = c THEN pending[c] \ gone ELSE pending[d]
  BY <1>1 DEF HoldTypes
<1>w. owes = [pending EXCEPT ![c] = @ \ (p[1] .. p[2])]
  BY DEF gone
<1> HIDE DEF owes
<1>6. OwedOf(owes, sended)
  BY <1>1, <1>5 DEF Owed, OwedOf
<1>7. OnceOf(owes, sended, written')
  <2>1. \A d, e \in Cid : d # e /\ sending[d] = sending[e] => owes[d] \cap owes[e] = {}
    BY <1>1, <1>5 DEF OnceOf
  <2>2. \A d \in Cid : sending[d] # NoFile => owes[d] \cap written'[sending[d]] = {}
    <3> SUFFICES ASSUME NEW d \in Cid, sending[d] # NoFile
                 PROVE  owes[d] \cap written'[sending[d]] = {}
      OBVIOUS
    <3>1. sending[d] \in File /\ owes[d] \cap written[sending[d]] = {}
      BY <1>1, <1>5 DEF OnceOf
    <3>2. CASE d = c
      BY <1>4, <1>5, <3>1, <3>2
    <3>3. CASE d # c /\ sending[d] = f
      <4>1. pending[d] \cap pending[c] = {}
        BY <1>1, <3>3 DEF OnceOf
      <4> QED BY <1>2, <1>4, <1>5, <3>1, <3>3, <4>1
    <3>4. CASE sending[d] # f
      BY <1>4, <3>1, <3>4
    <3> QED BY <3>2, <3>3, <3>4
  <2>3. \A g \in opened : written'[g] \subseteq HandedOut(g, sended[g])
    <3>1. gone \subseteq HandedOut(f, sended[f])
      BY <1>1, <1>2 DEF Owed
    <3>2. \A g \in opened : g \in File /\ written[g] \subseteq HandedOut(g, sended[g])
      BY <1>1 DEF OnceOf, HoldTypes
    <3> QED BY <1>4, <3>1, <3>2
  <2>4. Tails(owes)
    <3> SUFFICES ASSUME NEW d \in Cid, sending[d] # NoFile,
                        NEW k \in 1 .. Len(Blocks(sending[d])),
                        NEW x \in BlockBytes(Blocks(sending[d])[k]),
                        NEW y \in BlockBytes(Blocks(sending[d])[k]),
                        x \in owes[d], x <= y
                 PROVE  y \in owes[d]
      BY DEF Tails
    <3>1. y \in pending[d]
      <4>1. x \in pending[d]
        BY <1>5
      <4> QED BY <1>1, <4>1 DEF OnceOf, Tails
    <3>2. CASE d # c
      BY <1>5, <3>1, <3>2
    <3>3. CASE d = c
      <4>1. x > p[2] /\ x \in Nat /\ y \in Nat
        BY <1>1, <1>2, <1>5, <3>1, <3>3 DEF HoldTypes
      <4>2. y \notin gone
        BY <1>2, <4>1 DEF gone
      <4> QED BY <1>5, <3>1, <3>3, <4>2
    <3> QED BY <3>2, <3>3
  <2> QED BY <2>1, <2>2, <2>3, <2>4 DEF OnceOf
<1>8. \A d \in Cid : owes[d] # {} => sending[d] \in opened
  BY <1>1, <1>5 DEF OnlyOpen
<1>9. ASSUME UNCHANGED <<sended, sending, opened>>, pending' = owes
      PROVE  Once'
  <2>1. OnceOf(pending, sended, written)'
    BY <1>7, <1>9 DEF OnceOf, Tails, HandedOut, Blocks, BlockBytes
  <2>2. OnlyOpen'
    BY <1>1, <1>3, <1>8, <1>9 DEF OnlyOpen, Blocks
  <2> QED BY <1>3, <2>1, <2>2 DEF Once, NoWriteAfterClose
<1>10. CASE ~WriteReturns(f, p[1], p[2])
  <2>1. UNCHANGED <<opened, sending>>
    BY <1>10 DEF TakePacket
  <2>2. CASE EndOfRequest(c, p[2])
    <3>1. RequestBlocks(c, owes)
      BY <1>10, <1>w, <2>2 DEF TakePacket
    <3>2. /\ OnceOf(pending', sended', written')
          /\ \A g \in File : sended'[g] >= sended[g]
          /\ \A d \in Cid : d # c => pending'[d] = owes[d]
      <4>1. \A g \in singf \ opened : sended[g] >= Len(Blocks(g))
        BY <1>1 DEF OnlyOpen
      <4> QED BY <1>1, <1>5, <1>6, <1>7, <3>1, <4>1, RequestOnce
    <3>3. OnceOf(pending, sended, written)'
      BY <2>1, <3>2 DEF OnceOf, Tails, HandedOut, Blocks, BlockBytes
    <3>4. OnlyOpen'
      <4>1. \A d \in Cid : pending'[d] # {} => sending'[d] \in opened'
        BY <1>8, <2>1, <3>2
      <4>2. ASSUME NEW g \in singf \ opened PROVE sended'[g] >= Len(Blocks(g))
        <5>1. g \in File /\ g # f
          BY <1>1 DEF HoldTypes
        <5>2. sended'[g] = sended[g]
          <6> HIDE DEF f
          <6> QED BY <1>1, <3>1, <5>1 DEF RequestBlocks, HoldTypes, f
        <5> QED BY <1>1, <5>2 DEF OnlyOpen
      <4> QED BY <1>3, <2>1, <4>1, <4>2 DEF OnlyOpen, Blocks
    <3> QED BY <1>3, <3>3, <3>4 DEF Once, NoWriteAfterClose
  <2>3. CASE ~EndOfRequest(c, p[2])
    <3>1. pending' = owes /\ UNCHANGED sended
      BY <1>10, <1>w, <2>3 DEF TakePacket
    <3> QED BY <1>9, <2>1, <3>1
  <2> QED BY <2>2, <2>3
<1>11. CASE WriteReturns(f, p[1], p[2])
  <2>1. pending' = owes /\ UNCHANGED sended
    BY <1>11, <1>w DEF TakePacket
  <2>2. CASE Valid(f, p[1], p[2], good)
    <3>1. sending' = [sending EXCEPT ![c] = NoFile] /\ opened' = opened \ {f}
      BY <1>11, <2>2 DEF TakePacket, CloseFile
    <3>2. written'[f] = Contents(f)
      BY <1>1, <1>4, <2>2 DEF Valid, Right, gone
    <3>3. /\ sended[f] >= Len(Blocks(f))
          /\ HandedOut(f, sended[f]) \subseteq written'[f]
      BY <1>1, <1>7, <3>2, WholeIsHandedOut DEF OnceOf
    <3>4. \A d \in Cid : sending[d] = f => owes[d] = {}
      BY <1>1, <1>6, <1>7, <3>3 DEF OwedOf, OnceOf
    <3> HIDE DEF f
    <3>5. \A d \in Cid : sending'[d] = IF d = c THEN NoFile ELSE sending[d]
      BY <3>1
    <3>6. owes[c] = {}
      BY <3>4 DEF f
    <3>7. \A d \in Cid : owes[d] # {} => sending'[d] \in opened' /\ sending'[d] = sending[d]
      BY <1>8, <3>1, <3>4, <3>5, <3>6
    <3>8. OnceOf(pending, sended, written)'
      <4>1. \A d, e \in Cid : d # e /\ sending'[d] = sending'[e] => pending'[d] \cap pending'[e] = {}
        BY <1>7, <2>1, <3>5, <3>6, <3>7 DEF OnceOf
      <4>2. \A d \in Cid : sending'[d] # NoFile => pending'[d] \cap written'[sending'[d]] = {}
        BY <1>7, <2>1, <3>5 DEF OnceOf
      <4>3. \A g \in opened' : written'[g] \subseteq HandedOut(g, sended'[g])
        BY <1>7, <2>1, <3>1 DEF OnceOf
      <4>4. Tails(pending)'
        BY <1>7, <2>1, <3>5 DEF OnceOf, Tails, Blocks, BlockBytes
      <4> QED BY <4>1, <4>2, <4>3, <4>4 DEF OnceOf, HandedOut, Blocks
    <3>9. OnlyOpen'
      BY <1>1, <1>3, <2>1, <3>1, <3>3, <3>7 DEF OnlyOpen, Blocks
    <3> QED BY <1>3, <3>8, <3>9 DEF Once, NoWriteAfterClose
  <2>3. CASE ~Valid(f, p[1], p[2], good)
    <3>1. UNCHANGED <<opened, sending>>
      BY <1>11, <2>3 DEF TakePacket
    <3> QED BY <1>9, <2>1, <3>1
  <2> QED BY <2>2, <2>3
<1> QED BY <1>10, <1>11

LEMMA AddTaskOnce ==
    ASSUME Hold, Once, NEW f \in File, AddTask(f)
    PROVE  Once'
<1>1. UNCHANGED <<pending, sending>> /\ proc' = "up"
  BY DEF AddTask, Up
<1>2. CASE UNCHANGED <<openVars, singf, sended>>
  BY <1>1, <1>2, OnceFrame DEF openVars
<1>3. CASE /\ OpenFiles({f} \ singf)
           /\ singf' = singf \cup {f}
           /\ sended' = IF f \in singf THEN sended ELSE [sended EXCEPT ![f] = 0]
  <2>1. CASE f \in singf
    <3>1. opened' = opened /\ singf' = singf /\ sended' = sended
      BY <1>3, <2>1 DEF OpenFiles
    <3>2. written' = [g \in File |-> written[g]]
      BY <1>3, <2>1 DEF OpenFiles
    <3>3. written' = written
      BY <3>2 DEF Hold, HoldTypes
    <3> QED BY <1>1, <3>1, <3>3, OnceFrame
  <2>2. CASE f \notin singf
    <3>1. /\ opened' = opened \cup {f} /\ f \notin opened
          /\ written' = [g \in File |-> IF g = f THEN {} ELSE written[g]]
          /\ sended' = [sended EXCEPT ![f] = 0] /\ singf' = singf \cup {f}
      BY <1>3, <2>2 DEF OpenFiles, Hold, HoldTypes
    <3>2. \A c \in Cid : sending[c] # f /\ sending[c] \in File \cup {NoFile}
      BY <2>2, EmuleXAssumption DEF Hold, HoldTypes, Ids
    <3>3. \A g \in File : g # f => sended'[g] = sended[g] /\ written'[g] = written[g]
      BY <3>1 DEF Hold, HoldTypes
    <3>4. \A g \in opened' : g \in File
      BY <3>1 DEF Hold, HoldTypes
    <3>5. OnceOf(pending, sended, written)'
      <4>1. \A c, d \in Cid : c # d /\ sending'[c] = sending'[d] => pending'[c] \cap pending'[d] = {}
        BY <1>1 DEF Once, OnceOf
      <4>2. \A c \in Cid : sending'[c] # NoFile => pending'[c] \cap written'[sending'[c]] = {}
        BY <1>1, <3>2, <3>3 DEF Once, OnceOf
      <4>3. \A g \in opened' : written'[g] \subseteq HandedOut(g, sended'[g])
        BY <3>1, <3>3, <3>4 DEF Once, OnceOf
      <4>4. Tails(pending)'
        BY <1>1 DEF Once, OnceOf, Tails, Blocks, BlockBytes
      <4> QED BY <4>1, <4>2, <4>3, <4>4 DEF OnceOf, HandedOut, Blocks
    <3>6. OnlyOpen'
      <4>1. \A c \in Cid : pending'[c] # {} => sending'[c] \in opened'
        BY <1>1, <3>1 DEF Once, OnlyOpen
      <4>2. ASSUME NEW g \in singf' \ opened' PROVE sended'[g] >= Len(Blocks(g))
        <5>1. g \in singf \ opened /\ g # f /\ g \in File
          BY <3>1 DEF Hold, HoldTypes
        <5> QED BY <3>3, <5>1 DEF Once, OnlyOpen
      <4> QED BY <4>1, <4>2 DEF OnlyOpen, Blocks
    <3> QED BY <1>1, <3>5, <3>6 DEF Once, NoWriteAfterClose
  <2> QED BY <2>1, <2>2
<1> QED BY <1>2, <1>3 DEF AddTask

LEMMA NextOnce ==
    ASSUME OffsetsFit, Repeater = {}, Hold, Once, TaskInv, BookInv, [Next]_vars
    PROVE  Once'
<1>1. sending \in [Cid -> File \cup {NoFile}] /\ LinkInv
  BY DEF TaskInv, BookInv
<1>2. ASSUME UNCHANGED <<pending, opened, written, singf, sended, sending>>,
             proc' # "nullstream"
      PROVE  Once'
  BY <1>2, OnceFrame
<1>3. ASSUME NEW how, Die(how), how # "nullstream" PROVE Once'
  <2>1. UNCHANGED <<netVars, openVars, sendVars>> /\ proc' # "nullstream"
    BY <1>3, DieFrame DEF Die
  <2> QED BY <1>2, <2>1 DEF netVars, openVars, sendVars
<1>4. CASE Boot
  <2>1. OnceOf(pending, sended, written)'
    BY <1>4 DEF Boot, OnceOf, Tails, NoPending
  <2>2. OnlyOpen'
    BY <1>4 DEF Boot, OnlyOpen, NoPending
  <2> QED BY <1>4, <2>1, <2>2 DEF Boot, Once, NoWriteAfterClose
<1>5. CASE Kill
  BY <1>3, <1>5 DEF Kill
<1>6. ASSUME NEW c \in Cid, Handle(c) PROVE Once'
  <2>1. CASE Established(c)
    BY <1>2, <2>1 DEF Established, Up, OnConn, OnConnFailed, fileVars, sendVars
  <2>2. CASE OnFail(c)
    <3>1. /\ pending' = [pending EXCEPT ![c] = {}] /\ proc' = "up"
          /\ UNCHANGED <<opened, written, sending, singf, sended>>
      BY <2>2 DEF OnFail, Up, Closed, fileVars, sendVars
    <3> QED BY <3>1, OnceFrame DEF Hold, HoldTypes
  <2>3. CASE OnServerList(c)
    BY <1>2, <2>3 DEF OnServerList, Up, fileVars, sendVars
  <2>4. CASE OnLogined(c)
    <3>1. CASE Die("nulltask")
      BY <1>3, <3>1
    <3>2. CASE ~Die("nulltask")
      <4>1. UNCHANGED <<proc, pending, openVars, sendVars>>
        BY <2>4, <3>2 DEF OnLogined
      <4>2. proc' # "nullstream"
        BY <2>4, <4>1 DEF OnLogined
      <4> QED BY <1>2, <4>1, <4>2 DEF openVars, sendVars
    <3> QED BY <3>1, <3>2
  <2>5. ASSUME NEW f \in File, OnFoundSource(c, f) PROVE Once'
    <3>1. CASE f \notin opened
      <4>1. Die("threw")
        BY <2>5, <3>1 DEF OnFoundSource
      <4> QED BY <1>3, <4>1
    <3>2. CASE f \in opened
      <4>0. PICK peers \in SourceSets : \E who \in Dials(nextId, peers) :
                sending' = [d \in Cid |-> IF d \in DOMAIN who THEN f ELSE sending[d]]
        BY <2>5, <3>2 DEF OnFoundSource
      <4>1. PICK who \in Dials(nextId, peers) :
                sending' = [d \in Cid |-> IF d \in DOMAIN who THEN f ELSE sending[d]]
        BY <4>0
      <4>2. proc' = "up" /\ UNCHANGED <<pending, opened, written, singf, sended>>
        BY <2>5, <3>2 DEF OnFoundSource, openVars
      <4>3. nextId \in 1 .. MaxConn + 1 /\ MaxConn \in Nat
        BY <1>1, ED2KAssumption DEF LinkInv, Links
      <4>4. \A d \in DOMAIN who : d \in Cid /\ d >= nextId
        BY <4>3, DialsShape DEF Cid
      <4>5. \A d \in DOMAIN who : pending[d] = {}
        BY <4>4 DEF Hold, Ids
      <4>6. \A d \in Cid : pending[d] = {} \/ sending'[d] = sending[d]
        BY <4>1, <4>5
      <4> QED BY <4>2, <4>6, OnceFrame
    <3> QED BY <3>1, <3>2
  <2>6. CASE OnAnswered(c)
    BY <1>2, <2>6 DEF OnAnswered, Up, fileVars, sendVars
  <2>7. CASE OnUpAccepted(c)
    BY <2>7, OnUpAcceptedOnce
  <2>8. CASE OnSending(c)
    <3>1. CASE sending[c] = NoFile
      <4>1. /\ pending' = [pending EXCEPT ![c] = {}] /\ proc' = "up"
            /\ UNCHANGED <<opened, written, sending, singf, sended>>
        BY <2>8, <3>1 DEF OnSending, fileVars, sendVars
      <4> QED BY <4>1, OnceFrame DEF Hold, HoldTypes
    <3>2. CASE sending[c] # NoFile
      <4>1. pending[c] # {} /\ stage[c] = "open" /\ sending[c] \in opened
        BY <2>8 DEF OnSending, Once, OnlyOpen
      <4>2. PICK p \in Packets(c) : \E again \in {FALSE, esrv[c] \in Repeater} :
                \E good \in {TRUE, esrv[c] \notin Liar} : TakePacket(c, p, good, again)
        BY <2>8, <3>2, <4>1 DEF OnSending
      <4>3. {FALSE, esrv[c] \in Repeater} = {FALSE}
        <5>1. (esrv[c] \in Repeater) = FALSE
          OBVIOUS
        <5> QED BY <5>1, Zenon
      <4>4. PICK good : TakePacket(c, p, good, FALSE)
        BY <4>2, <4>3
      <4> QED BY <1>1, <4>1, <4>4, TakePacketOnce
    <3> QED BY <3>1, <3>2
  <2>9. CASE KillInSendDone(c)
    BY <1>3, <2>9 DEF KillInSendDone
  <2>10. CASE HelloThrows(c)
    BY <1>3, <2>10 DEF HelloThrows
  <2> QED BY <1>6, <2>1, <2>2, <2>3, <2>4, <2>5, <2>6, <2>7, <2>8, <2>9, <2>10 DEF Handle
<1>7. ASSUME NEW f \in File, AddTask(f) PROVE Once'
  BY <1>7, AddTaskOnce
<1>8. ASSUME NEW f \in File, KillInAddTask(f) PROVE Once'
  BY <1>3, <1>8 DEF KillInAddTask
<1>9. CASE UNCHANGED vars
  <2>1. proc' # "nullstream"
    BY <1>9 DEF vars, Once, NoWriteAfterClose
  <2> QED BY <1>2, <1>9, <2>1 DEF vars, memVars, netVars, openVars, sendVars
<1> QED BY <1>4, <1>5, <1>6, <1>7, <1>8, <1>9 DEF Next

(* Once holds of every behaviour in which no peer repeats a packet.         *)
THEOREM OnceInvariance ==
    ASSUME OffsetsFit, Repeater = {}
    PROVE  Spec => []Once
<1>1. Once /\ Hold /\ TaskInv /\ BookInv /\ [Next]_vars => Once'
  BY NextOnce
<1> QED BY <1>1, InitOnce, HoldInvariance, TaskInvariance, BookInvariance, PTL DEF Spec

(* A byte of a file is asked of one peer only, and never after it has been  *)
(* written, for any number of peers and blocks.                             *)
THEOREM BytesAskedOnce ==
    ASSUME OffsetsFit, Repeater = {}
    PROVE  Spec => []AskedOnce
<1>1. Once => AskedOnce
  BY OnceAsked
<1> QED BY <1>1, OnceInvariance, PTL

(* No packet is written to a file that sendDone has closed. *)
THEOREM ClosedIsNotWritten ==
    ASSUME OffsetsFit, Repeater = {}
    PROVE  Spec => []NoWriteAfterClose
<1>1. Once => NoWriteAfterClose
  BY OnceAsked
<1> QED BY <1>1, OnceInvariance, PTL

-------------------------------------------------------------------------------
(* What TypeOK says besides the types the invariants above carry. *)
Side ==
    /\ proc \in {"up", "down"} \cup Ends
    /\ boots \in 0 .. MaxBoot
    /\ asked \in [Cid -> [File -> {"no", "asked", "answered"}]]
    /\ fail \in [Address -> Nat]

LEMMA InitSide == Init => Side
BY RunnerAssumption DEF Init, Side, NoAsked

LEMMA ListSourceTyped ==
    ASSUME Side, NEW C, NEW F, ListSource(C, F)
    PROVE  asked' \in [Cid -> [File -> {"no", "asked", "answered"}]]
BY DEF Side, ListSource

LEMMA NextSide ==
    ASSUME Side, [Next]_vars
    PROVE  Side'
<1>1. MaxBoot \in Nat
  BY RunnerAssumption
<1>2. ASSUME UNCHANGED <<asked, fail>>,
             UNCHANGED <<proc, boots>> \/ \E how \in {"down"} \cup Ends : Die(how)
      PROVE  Side'
  BY <1>2 DEF Side, Die
<1>3. ASSUME NEW how \in {"down"} \cup Ends, Die(how) PROVE Side'
  BY <1>2, <1>3, DieFrame DEF netVars, bookVars
<1>4. CASE Boot
  BY <1>1, <1>4 DEF Boot, Side, NoAsked
<1>5. CASE Kill
  BY <1>3, <1>5 DEF Kill
<1>6. ASSUME NEW c \in Cid, Handle(c) PROVE Side'
  <2>1. CASE Established(c)
    BY <1>2, <2>1 DEF Established, Up, OnConn, OnConnFailed, bookVars
  <2>2. CASE OnFail(c)
    <3>1. fail' = [fail EXCEPT ![esrv[c]] = @ + 1] /\ UNCHANGED <<proc, boots, asked>>
      BY <2>2 DEF OnFail, Up, Closed
    <3>2. esrv[c] \in Address /\ fail[esrv[c]] \in Nat
      BY <2>2, ED2KAssumption DEF OnFail, Closed, Side
    <3>3. fail' \in [Address -> Nat]
      BY <3>1, <3>2 DEF Side
    <3> QED BY <3>1, <3>3 DEF Side
  <2>3. CASE OnServerList(c)
    BY <1>2, <2>3 DEF OnServerList, Up
  <2>4. CASE OnLogined(c)
    <3>1. CASE Die("nulltask")
      BY <1>3, <3>1 DEF Ends
    <3>2. CASE ~Die("nulltask")
      <4>1. UNCHANGED <<proc, boots, fail>> /\ \E C, F : ListSource(C, F)
        BY <2>4, <3>2 DEF OnLogined
      <4> QED BY <4>1, ListSourceTyped DEF Side
    <3> QED BY <3>1, <3>2
  <2>5. ASSUME NEW f \in File, OnFoundSource(c, f) PROVE Side'
    <3>1. CASE f \notin opened
      <4>1. Die("threw")
        BY <2>5, <3>1 DEF OnFoundSource
      <4> QED BY <1>3, <4>1 DEF Ends
    <3>2. CASE f \in opened
      <4>1. /\ asked' = [asked EXCEPT ![c][f] = "answered"]
            /\ UNCHANGED <<proc, boots, fail>>
        BY <2>5, <3>2 DEF OnFoundSource, bookVars
      <4>2. asked' \in [Cid -> [File -> {"no", "asked", "answered"}]]
        BY <4>1 DEF Side
      <4> QED BY <4>1, <4>2 DEF Side
    <3> QED BY <3>1, <3>2
  <2>6. CASE OnAnswered(c)
    BY <1>2, <2>6 DEF OnAnswered, Up, bookVars
  <2>7. CASE OnUpAccepted(c)
    BY <1>2, <2>7 DEF OnUpAccepted, Up, bookVars
  <2>8. CASE OnSending(c)
    <3>1. CASE sending[c] = NoFile
      BY <1>2, <2>8, <3>1 DEF OnSending, bookVars
    <3>2. CASE sending[c] # NoFile /\ sending[c] \notin opened
      <4>1. Die("nullstream")
        BY <2>8, <3>2 DEF OnSending
      <4> QED BY <1>3, <4>1 DEF Ends
    <3>3. CASE sending[c] # NoFile /\ sending[c] \in opened
      <4>1. PICK p, again, good : TakePacket(c, p, good, again)
        BY <2>8, <3>3 DEF OnSending
      <4> QED BY <1>2, <4>1 DEF TakePacket, Up, bookVars
    <3> QED BY <3>1, <3>2, <3>3
  <2>9. CASE KillInSendDone(c)
    BY <1>3, <2>9 DEF KillInSendDone
  <2>10. CASE HelloThrows(c)
    BY <1>3, <2>10 DEF HelloThrows, Ends
  <2> QED BY <1>6, <2>1, <2>2, <2>3, <2>4, <2>5, <2>6, <2>7, <2>8, <2>9, <2>10 DEF Handle
<1>7. ASSUME NEW f \in File, AddTask(f) PROVE Side'
  <2>1. UNCHANGED <<proc, boots, fail>>
    BY <1>7 DEF AddTask, Up, bookVars
  <2>2. (\E C, F : ListSource(C, F)) \/ UNCHANGED asked
    BY <1>7 DEF AddTask, AskSources
  <2> QED BY <2>1, <2>2, ListSourceTyped DEF Side
<1>8. ASSUME NEW f \in File, KillInAddTask(f) PROVE Side'
  BY <1>3, <1>8 DEF KillInAddTask
<1>9. CASE UNCHANGED vars
  BY <1>2, <1>9 DEF vars, memVars, netVars, bookVars
<1> QED BY <1>4, <1>5, <1>6, <1>7, <1>8, <1>9 DEF Next

(* Every variable of the downloader keeps its type, whatever peers and      *)
(* servers send, also after the process ended.                              *)
THEOREM RunnerTyped == Spec => []TypeOK
<1>1. Spec => []Side
  BY InitSide, NextSide, PTL DEF Spec
<1>2. Side /\ Hold /\ TaskInv /\ BookInv => TypeOK
  <2> SUFFICES ASSUME Side, Hold, TaskInv, BookInv PROVE TypeOK
    OBVIOUS
  <2>1. NetTypeOK
    BY DEF Side, Hold, HoldTypes, BookInv, LinkInv, Links, LoginInv, NetTypeOK
  <2>2. FileTypeOK
    BY DEF Hold, HoldTypes, TaskInv, FileTypeOK, Finals, Pair
  <2> QED BY <2>1, <2>2 DEF Side, Hold, HoldTypes, TaskInv, BookInv, LinkInv, Links,
                            LoginInv, TypeOK
<1> QED BY <1>1, <1>2, HoldInvariance, TaskInvariance, BookInvariance, PTL

-----------------------------------------------------------------------------
(* The range list of a file being received claims exactly the bytes on      *)
(* disk, for any files, peers and interleavings, when blocks and packets    *)
(* have two bytes or more.  add gives up the first byte of a pair when a    *)
(* range starts right above it; pairs start where blocks do, and no packet  *)
(* starts one byte into a block.  From there: the packet that completes a   *)
(* right file finishes it.                                                  *)

Block(f, k) == BlockBytes(Blocks(f)[k])

(* A pair of the list starts where a block does. *)
Begins ==
    \A f \in opened : \A i \in 1 .. Len(fcparts[f]) :
        \E k \in 1 .. Len(Blocks(f)) : Lo(fcparts[f][i]) = Blocks(f)[k][1]

(* What a connection owes of a block is asked for in order: the bytes       *)
(* before are on disk, and the first two come together.                     *)
InOrder(owes, wr) ==
    \A c \in Cid : sending[c] \in opened =>
        \A k \in 1 .. Len(Blocks(sending[c])) :
            /\ \A x \in Block(sending[c], k) : \A y \in Block(sending[c], k) :
                  x \in owes[c] /\ y < x => y \in owes[c] \/ y \in wr[sending[c]]
            /\ LET lo == Blocks(sending[c])[k][1]
               IN  lo + 1 \in Block(sending[c], k) /\ lo + 1 \in owes[c] => lo \in owes[c]

Exact == ClaimsExact /\ Begins /\ InOrder(pending, written)

-------------------------------------------------------------------------------
(* A block before another is a whole one. *)
LEMMA BlocksLong ==
    ASSUME OffsetsFit, BlockSize > 1, NEW f \in File,
           NEW j \in 1 .. Len(Blocks(f)), NEW k \in 1 .. Len(Blocks(f)), j < k
    PROVE  Blocks(f)[j][1] + 1 < Blocks(f)[k][1]
<1> DEFINE s == Size[f]
           m == BlockSize
           n == s \div m
           size == IF n * m < s - 1 THEN n + 1 ELSE n
           lo(i) == (i - 1) * m
           hi(i) == IF i <= n THEN i * m ELSE s
<1>1. s \in Nat /\ m \in Nat /\ m > 1 /\ Width \in Nat /\ s < Width
  BY FileStoreAssumption DEF OffsetsFit
<1>2. n \in Nat /\ n * m <= s
  BY <1>1
<1>3. size \in Nat /\ size <= n + 1
  BY <1>2
<1>4. \A a, b \in Nat : a <= b => a * m <= b * m
  BY <1>1
<1>5. Blocks(f) = [i \in 1 .. size |-> <<lo(i) % Width, hi(i) % Width>>]
  BY DEF Blocks, AllBlocks
<1>6. Len(Blocks(f)) = size
  <2> HIDE DEF size, lo, hi
  <2> QED BY <1>3, <1>5
<1>7. ASSUME NEW i \in 1 .. size PROVE Blocks(f)[i][1] = lo(i) /\ lo(i) \in Nat
  <2>1. i - 1 \in Nat /\ i - 1 <= n
    BY <1>2, <1>3
  <2>2. (i - 1) * m \in Nat /\ (i - 1) * m <= n * m
    BY <1>1, <1>2, <1>4, <2>1
  <2>3. lo(i) % Width = lo(i)
    <3>1. lo(i) \in Nat /\ lo(i) < Width
      BY <1>1, <1>2, <2>2
    <3>2. \A x \in Nat : x < Width => x % Width = x
      BY <1>1
    <3> HIDE DEF lo
    <3> QED BY <3>1, <3>2
  <2>4. Blocks(f)[i] = <<lo(i) % Width, hi(i) % Width>>
    <3> HIDE DEF size, lo, hi
    <3> QED BY <1>5
  <2> QED BY <2>2, <2>3, <2>4
<1>8. j - 1 \in Nat /\ k - 1 \in Nat /\ j \in Nat /\ j <= k - 1
  BY <1>3, <1>6
<1>9. j * m = (j - 1) * m + m /\ j * m <= (k - 1) * m
  BY <1>1, <1>4, <1>8
<1>10. lo(j) + m <= lo(k) /\ lo(j) \in Nat /\ lo(k) \in Nat
  BY <1>6, <1>7, <1>9
<1>11. Blocks(f)[j][1] = lo(j) /\ Blocks(f)[k][1] = lo(k)
  BY <1>6, <1>7
<1> HIDE DEF lo
<1> QED BY <1>1, <1>10, <1>11

(* A packet is the rest of a block or has two bytes or more. *)
LEMMA PacketLong ==
    ASSUME Hold, MinPacket > 1, NEW c \in Cid, pending[c] # {}, sending[c] # NoFile,
           NEW p \in Packets(c)
    PROVE  \E k \in 1 .. Len(Blocks(sending[c])) :
              /\ p[1] \in Block(sending[c], k) /\ p[2] \in Block(sending[c], k)
              /\ p[2] = Blocks(sending[c])[k][2] - 1 \/ p[2] > p[1]
<1> DEFINE f == sending[c]
           a == Min(pending[c])
           B(k) == a \in BlockBytes(Blocks(f)[k])
           k == CHOOSE k \in DOMAIN Blocks(f) : B(k)
           e == Blocks(f)[k][2] - 1
<1>0. HoldTypes /\ Ids /\ Owed
  BY DEF Hold
<1>1. f \in File
  BY <1>0 DEF Ids, HoldTypes
<1>2. a \in pending[c]
  BY <1>0, LeastNat DEF HoldTypes
<1>3. a \in Nat
  BY <1>0, <1>2 DEF HoldTypes
<1>4. PICK j \in 1 .. sended[f] : B(j)
  BY <1>0, <1>2, InHandedOut DEF Owed
<1>5. sended[f] \in Nat /\ sended[f] <= Len(Blocks(f)) /\ Len(Blocks(f)) \in Nat
      /\ DOMAIN Blocks(f) = 1 .. Len(Blocks(f))
  BY <1>0, <1>1, BlocksTyped DEF HoldTypes
<1>6. j \in DOMAIN Blocks(f)
  BY <1>4, <1>5
<1>7. k \in DOMAIN Blocks(f) /\ B(k)
  <2> HIDE DEF B
  <2> QED BY <1>4, <1>6
<1>8. PICK b \in a .. e : p = <<a, b>> /\ (b = e \/ b - a + 1 >= MinPacket)
  BY DEF Packets
<1> HIDE DEF a, f
<1>9. Blocks(f)[k][1] \in Nat /\ Blocks(f)[k][2] \in Nat
  BY <1>1, <1>5, <1>7, BlocksTyped
<1>10. b \in Nat /\ a <= b /\ b \in BlockBytes(Blocks(f)[k])
  BY <1>3, <1>7, <1>8, <1>9 DEF BlockBytes
<1>11. b = Blocks(f)[k][2] - 1 \/ b > a
  BY <1>3, <1>8, <1>10, RunnerAssumption
<1> HIDE DEF k, e
<1>12. p[1] = a /\ p[2] = b
  BY <1>8
<1> QED BY <1>5, <1>7, <1>10, <1>11, <1>12 DEF f, Block

(* A step that leaves the files alone, by which a connection loses what it  *)
(* owes or keeps it with its file.                                          *)
LEMMA ExactFrame ==
    ASSUME Exact, UNCHANGED <<opened, fcparts, written>>,
           \A d \in Cid : pending'[d] = {} \/ (pending'[d] = pending[d] /\ sending'[d] = sending[d])
    PROVE  Exact'
<1>1. InOrder(pending, written)'
  <2> SUFFICES ASSUME NEW c \in Cid, sending'[c] \in opened,
                      NEW k \in 1 .. Len(Blocks(sending'[c]))
               PROVE  /\ \A x \in Block(sending'[c], k) : \A y \in Block(sending'[c], k) :
                            x \in pending'[c] /\ y < x =>
                                y \in pending'[c] \/ y \in written[sending'[c]]
                      /\ LET lo == Blocks(sending'[c])[k][1]
                         IN  lo + 1 \in Block(sending'[c], k) /\ lo + 1 \in pending'[c] =>
                                 lo \in pending'[c]
    BY DEF InOrder, Blocks, Block, BlockBytes
  <2>1. CASE pending'[c] = {}
    BY <2>1
  <2>2. CASE pending'[c] = pending[c] /\ sending'[c] = sending[c]
    BY <2>2 DEF Exact, InOrder
  <2> QED BY <2>1, <2>2
<1> QED BY <1>1 DEF Exact, ClaimsExact, Begins, Blocks

(* The blocks of the next request are owed from their first byte on. *)
LEMMA RequestOrder ==
    ASSUME OffsetsFit, HoldTypes, Ids, NEW c \in Cid,
           NEW owes \in [Cid -> SUBSET Nat], NEW wr,
           InOrder(owes, wr), RequestBlocks(c, owes)
    PROVE  InOrder(pending', wr)
<1> DEFINE f == sending[c]
<1>1. CASE f = NoFile \/ sended[f] >= Len(Blocks(f))
  BY <1>1 DEF RequestBlocks
<1>2. CASE ~(f = NoFile \/ sended[f] >= Len(Blocks(f)))
  <2> DEFINE new == UNION { BlockBytes(Blocks(f)[k]) : k \in Handed(f) }
  <2>1. f \in File
    BY <1>2 DEF Ids, HoldTypes
  <2>2. sended[f] < Len(Blocks(f)) /\ sended[f] \in Nat /\ Len(Blocks(f)) \in Nat
    BY <1>2, <2>1, BlocksTyped DEF HoldTypes
  <2>3. /\ LastPart(f) \in sended[f] + 1 .. Len(Blocks(f))
        /\ new \subseteq Nat
    BY <2>1, <2>2, NextBlocks
  <2>4. \A k \in Handed(f) : k \in 1 .. Len(Blocks(f))
    BY <2>2, <2>3 DEF Handed
  <2>5. pending' = [owes EXCEPT ![c] = @ \cup new]
    BY <1>2 DEF RequestBlocks
  <2>6. \A x : x \in new <=> \E k \in Handed(f) : x \in Block(f, k)
    BY DEF Block
  <2> HIDE DEF new, f
  <2>7. \A d \in Cid : pending'[d] = IF d = c THEN owes[c] \cup new ELSE owes[d]
    BY <2>3, <2>5
  <2> SUFFICES ASSUME NEW d \in Cid, sending[d] \in opened,
                      NEW k \in 1 .. Len(Blocks(sending[d]))
               PROVE  /\ \A x \in Block(sending[d], k) : \A y \in Block(sending[d], k) :
                            x \in pending'[d] /\ y < x =>
                                y \in pending'[d] \/ y \in wr[sending[d]]
                      /\ LET lo == Blocks(sending[d])[k][1]
                         IN  lo + 1 \in Block(sending[d], k) /\ lo + 1 \in pending'[d] =>
                                 lo \in pending'[d]
    BY DEF InOrder
  <2>8. CASE d # c
    BY <2>7, <2>8 DEF InOrder
  <2>9. CASE d = c /\ k \in Handed(f)
    <3>1. Block(sending[d], k) \subseteq pending'[d]
      BY <2>6, <2>7, <2>9 DEF f
    <3>2. Blocks(f)[k][1] \in Block(f, k)
      BY <2>1, <2>4, <2>9, BlocksTyped, BlocksApart DEF Block, BlockBytes
    <3> QED BY <2>9, <3>1, <3>2 DEF f
  <2>10. CASE d = c /\ k \notin Handed(f)
    <3>1. \A x \in Block(f, k) : x \notin new
      <4> SUFFICES ASSUME NEW x \in Block(f, k), x \in new PROVE FALSE
        OBVIOUS
      <4>1. PICK j \in Handed(f) : x \in Block(f, j)
        BY <2>6
      <4>2. j = k
        BY <2>1, <2>4, <2>10, <4>1, OneBlock DEF Block, f
      <4> QED BY <2>10, <4>1, <4>2
    <3>2. \A x \in Block(f, k) : x \in pending'[d] <=> x \in owes[d]
      BY <2>7, <2>10, <3>1
    <3>3. Blocks(f)[k][1] \in Block(f, k)
      BY <2>1, <2>10, BlocksTyped, BlocksApart DEF Block, BlockBytes, f
    <3> QED BY <2>10, <3>2, <3>3 DEF InOrder, f
  <2> QED BY <2>8, <2>9, <2>10
<1> QED BY <1>1, <1>2

-------------------------------------------------------------------------------
(* Where a packet starts: with its block, or two bytes or more behind, the  *)
(* byte before it on disk.                                                  *)
LEMMA PacketPlace ==
    ASSUME OffsetsFit, Hold, InOrder(pending, written), NEW c \in Cid, pending[c] # {},
           sending[c] \in opened,
           NEW k \in 1 .. Len(Blocks(sending[c])),
           NEW a \in pending[c], a \in Block(sending[c], k), \A x \in pending[c] : a <= x
    PROVE  LET lo == Blocks(sending[c])[k][1]
           IN  a = lo \/ (a > lo + 1 /\ a - 1 \in written[sending[c]])
<1> DEFINE f == sending[c]
           lo == Blocks(f)[k][1]
<1>1. f \in File
  BY DEF Hold, HoldTypes
<1>2. lo \in Nat /\ Blocks(f)[k][2] \in Nat /\ lo \in Block(f, k)
  BY <1>1, BlocksTyped, BlocksApart DEF Block, BlockBytes
<1>3. a \in Nat /\ lo <= a /\ a < Blocks(f)[k][2]
  BY <1>2 DEF Hold, HoldTypes, Block, BlockBytes
<1>4. CASE a # lo
  <2>1. lo \notin pending[c]
    BY <1>2, <1>3, <1>4
  <2>2. a # lo + 1
    BY <2>1 DEF InOrder
  <2>3. a - 1 \in Block(f, k) /\ a - 1 < a
    BY <1>2, <1>3, <1>4 DEF Block, BlockBytes
  <2>4. a - 1 \notin pending[c]
    BY <1>3
  <2>5. a - 1 \in written[f]
    BY <2>3, <2>4 DEF InOrder
  <2> QED BY <1>2, <1>3, <1>4, <2>2, <2>5
<1> QED BY <1>4

(* Such a packet makes the list claim its bytes and gives nothing up.       *)
LEMMA AddedExact ==
    ASSUME OffsetsFit, BlockSize > 1, Hold, ClaimsExact, Begins,
           NEW f \in opened, NEW k \in 1 .. Len(Blocks(f)),
           NEW a \in Nat, NEW b \in Nat, a <= b, a \in Block(f, k),
           a = Blocks(f)[k][1] \/ (a > Blocks(f)[k][1] + 1 /\ a - 1 \in written[f])
    PROVE  LET q == Added(fcparts[f], a, b)
           IN  /\ Bytes(q) = written[f] \cup (a .. b)
               /\ \A i \in 1 .. Len(q) : \E j \in 1 .. Len(Blocks(f)) :
                      Lo(q[i]) = Blocks(f)[j][1]
<1> DEFINE p == fcparts[f]
           q == Added(p, a, b)
<1>1. f \in File /\ p \in Seq(Pair) /\ Sorted(p) /\ Bytes(p) = written[f]
  BY DEF Hold, HoldTypes, Lists, ClaimsExact
<1>2. \A i \in 1 .. Len(p) : \E j \in 1 .. Len(Blocks(f)) : Lo(p[i]) = Blocks(f)[j][1]
  BY DEF Begins
<1>3. Len(Blocks(f)) \in Nat /\ \A j \in 1 .. Len(Blocks(f)) :
         /\ Blocks(f)[j][1] \in Nat /\ Blocks(f)[j][2] \in Nat
         /\ Blocks(f)[j][1] \in Block(f, j)
  BY <1>1, BlocksTyped, BlocksApart DEF Block, BlockBytes
<1>4. Blocks(f)[k][1] <= a /\ a < Blocks(f)[k][2]
  BY <1>3 DEF Block, BlockBytes
<1>5. \A i \in 1 .. Len(p) : Lo(p[i]) # a - 1
  <2> SUFFICES ASSUME NEW i \in 1 .. Len(p), Lo(p[i]) = a - 1 PROVE FALSE
    OBVIOUS
  <2>1. PICK j \in 1 .. Len(Blocks(f)) : a - 1 = Blocks(f)[j][1]
    BY <1>2
  <2>2. CASE j = k
    BY <1>3, <1>4, <2>1, <2>2
  <2>3. CASE j < k
    <3>1. Blocks(f)[j][1] + 1 < Blocks(f)[k][1]
      BY <1>1, <2>3, BlocksLong
    <3> QED BY <1>3, <1>4, <2>1, <3>1
  <2>4. CASE k < j
    <3>1. Blocks(f)[k][2] <= Blocks(f)[j][1]
      BY <1>1, <2>4, BlocksApart
    <3> QED BY <1>3, <1>4, <2>1, <3>1
  <2> QED BY <1>3, <2>2, <2>3, <2>4
<1>6. Bytes(q) = written[f] \cup (a .. b)
  <2>1. Bytes(q) \subseteq Bytes(p) \cup (a .. b)
    BY <1>1, AddedClaims
  <2>2. \A x \in Bytes(p) \cup (a .. b) : x \in Bytes(q) \/ \E j \in 1 .. Len(p) : Lo(p[j]) = a - 1
    BY <1>1, AddedKeeps
  <2> HIDE DEF p, q
  <2> QED BY <1>1, <1>5, <2>1, <2>2
<1>7. ASSUME NEW i \in 1 .. Len(q)
      PROVE  \E j \in 1 .. Len(Blocks(f)) : Lo(q[i]) = Blocks(f)[j][1]
  <2>1. CASE a = Blocks(f)[k][1]
    <3>1. Lo(q[i]) = a \/ \E m \in 1 .. Len(p) : Lo(q[i]) = Lo(p[m])
      BY <1>1, AddedStarts
    <3> QED BY <1>2, <2>1, <3>1
  <2>2. CASE a - 1 \in written[f]
    <3>1. PICK m \in 1 .. Len(p) : Lo(p[m]) <= a - 1 /\ a - 1 <= Hi(p[m])
      <4>1. a - 1 \in Bytes(p) /\ a - 1 \in Int
        BY <1>1, <2>2
      <4> HIDE DEF p
      <4> QED BY <1>1, <4>1, BytesHeld
    <3>2. Lo(p[m]) \in Nat /\ Hi(p[m]) \in Nat
      BY <1>1, ElementOfSeq DEF Pair, Lo, Hi
    <3>3. Lo(p[m]) + 1 < a /\ a <= Hi(p[m]) + 1
      BY <1>5, <3>1, <3>2
    <3>4. \E h \in 1 .. Len(p) : Lo(q[i]) = Lo(p[h])
      BY <1>1, <3>3, AddedJoins
    <3> QED BY <1>2, <3>4
  <2> QED BY <2>1, <2>2
<1> QED BY <1>6, <1>7

LEMMA TakePacketExact ==
    ASSUME OffsetsFit, BlockSize > 1, MinPacket > 1, Hold, Exact,
           sending \in [Cid -> File \cup {NoFile}],
           NEW c \in Cid, sending[c] \in opened,
           pending[c] # {}, NEW p \in Packets(c), NEW good, NEW again,
           TakePacket(c, p, good, again)
    PROVE  Exact'
<1> DEFINE f == sending[c]
           gone == p[1] .. p[2]
           owes == Left(c, p, again)
<1>1. /\ HoldTypes /\ Lists /\ Ids /\ Owed /\ f \in File /\ f # NoFile
      /\ ClaimsExact /\ Begins /\ InOrder(pending, written)
  BY EmuleXAssumption DEF Hold, HoldTypes, Exact
<1>2. /\ p[1] \in Nat /\ p[2] \in Nat /\ p[1] <= p[2]
      /\ p[1] \in pending[c] /\ \A x \in pending[c] : p[1] <= x
  BY <1>1, PacketTyped
<1>3. PICK k \in 1 .. Len(Blocks(f)) :
         /\ p[1] \in Block(f, k) /\ p[2] \in Block(f, k)
         /\ p[2] = Blocks(f)[k][2] - 1 \/ p[2] > p[1]
  BY <1>1, PacketLong
<1>4. p[1] = Blocks(f)[k][1] \/ (p[1] > Blocks(f)[k][1] + 1 /\ p[1] - 1 \in written[f])
  BY <1>1, <1>2, <1>3, PacketPlace
<1>5. /\ fcparts' = [fcparts EXCEPT ![f] = Added(@, p[1], p[2])]
      /\ written' = [written EXCEPT ![f] = @ \cup gone]
  BY DEF TakePacket, Write
<1>6. /\ Bytes(fcparts'[f]) = written'[f]
      /\ \A i \in 1 .. Len(fcparts'[f]) : \E j \in 1 .. Len(Blocks(f)) :
             Lo(fcparts'[f][i]) = Blocks(f)[j][1]
  <2>1. fcparts'[f] = Added(fcparts[f], p[1], p[2]) /\ written'[f] = written[f] \cup gone
    BY <1>1, <1>5 DEF HoldTypes
  <2>2. f \in opened /\ p[1] \in Nat /\ p[2] \in Nat /\ p[1] <= p[2]
    BY <1>2
  <2> HIDE DEF f
  <2> QED BY <1>1, <1>3, <1>4, <2>1, <2>2, AddedExact
<1> HIDE DEF gone
<1>7. \A g \in File : g # f => fcparts'[g] = fcparts[g] /\ written'[g] = written[g]
  <2> HIDE DEF f
  <2> QED BY <1>1, <1>5 DEF HoldTypes
<1>8. written'[f] = written[f] \cup gone
  BY <1>1, <1>5 DEF HoldTypes
<1>9. opened' \subseteq opened
  BY DEF TakePacket, CloseFile
<1>10. ClaimsExact' /\ Begins'
  <2>1. \A g \in opened' : g \in File /\ g \in opened
    BY <1>1, <1>9 DEF HoldTypes
  <2>2. ASSUME NEW g \in opened' PROVE Bytes(fcparts'[g]) = written'[g]
    BY <1>1, <1>6, <1>7, <2>1 DEF ClaimsExact
  <2>3. ASSUME NEW g \in opened', NEW i \in 1 .. Len(fcparts'[g])
        PROVE  \E j \in 1 .. Len(Blocks(g)) : Lo(fcparts'[g][i]) = Blocks(g)[j][1]
    <3>1. CASE g = f
      BY <1>6, <3>1
    <3>2. CASE g # f
      BY <1>1, <1>7, <2>1, <3>2 DEF Begins
    <3> QED BY <3>1, <3>2
  <2> QED BY <2>2, <2>3 DEF ClaimsExact, Begins, Blocks
<1>11. /\ owes \in [Cid -> SUBSET Nat]
       /\ \A d \in Cid : d # c => owes[d] = pending[d]
       /\ owes[c] = pending[c] \/ owes[c] = pending[c] \ gone
  <2>1. CASE again
    <3>1. owes = pending
      BY <2>1 DEF Left
    <3> HIDE DEF owes
    <3> QED BY <1>1, <3>1 DEF HoldTypes
  <2>2. CASE ~again
    <3>1. owes = [pending EXCEPT ![c] = @ \ gone]
      BY <2>2 DEF Left, gone
    <3> HIDE DEF owes
    <3> QED BY <1>1, <3>1 DEF HoldTypes
  <2> QED BY <2>1, <2>2
<1> HIDE DEF owes
<1>12. InOrder(owes, written')
  <2> SUFFICES ASSUME NEW d \in Cid, sending[d] \in opened,
                      NEW j \in 1 .. Len(Blocks(sending[d]))
               PROVE  /\ \A x \in Block(sending[d], j) : \A y \in Block(sending[d], j) :
                            x \in owes[d] /\ y < x =>
                                y \in owes[d] \/ y \in written'[sending[d]]
                      /\ LET lo == Blocks(sending[d])[j][1]
                         IN  lo + 1 \in Block(sending[d], j) /\ lo + 1 \in owes[d] =>
                                 lo \in owes[d]
    BY DEF InOrder
  <2>1. written[sending[d]] \subseteq written'[sending[d]]
    <3>1. sending[d] \in File
      BY <1>1 DEF HoldTypes
    <3> QED BY <1>7, <1>8, <3>1
  <2>2. CASE owes[d] = pending[d]
    BY <1>1, <2>1, <2>2 DEF InOrder
  <2>3. CASE d = c /\ owes[c] = pending[c] \ gone
    <3> DEFINE lo == Blocks(f)[j][1]
    <3>1. ASSUME NEW x \in Block(f, j), NEW y \in Block(f, j), x \in owes[c], y < x
          PROVE  y \in owes[c] \/ y \in written'[f]
      <4>1. y \in pending[c] \/ y \in written[f]
        BY <1>1, <2>3, <3>1 DEF InOrder
      <4> QED BY <1>8, <2>3, <4>1
    <3>2. ASSUME lo + 1 \in Block(f, j), lo + 1 \in owes[c], lo \notin owes[c]
          PROVE  FALSE
      <4>1. lo \in pending[c]
        BY <1>1, <2>3, <3>2 DEF InOrder
      <4>2. lo \in gone
        BY <2>3, <3>2, <4>1
      <4>3. /\ lo \in Nat /\ Blocks(f)[j][2] \in Nat /\ lo \in Block(f, j)
            /\ Blocks(f)[k][1] \in Nat /\ Blocks(f)[k][2] \in Nat
        BY <1>1, <2>3, BlocksTyped, BlocksApart DEF Block, BlockBytes
      <4>4. lo \in Block(f, k)
        <5>1. p[1] <= lo /\ lo <= p[2]
          BY <1>2, <4>2, <4>3 DEF gone
        <5>2. Blocks(f)[k][1] <= p[1] /\ p[2] < Blocks(f)[k][2]
          BY <1>2, <1>3, <4>3 DEF Block, BlockBytes
        <5> HIDE DEF lo, f
        <5> QED BY <1>2, <4>3, <5>1, <5>2 DEF Block, BlockBytes
      <4>5. j = k
        <5>1. j \in 1 .. Len(Blocks(f))
          BY <2>3
        <5> HIDE DEF lo, f
        <5> QED BY <1>1, <4>3, <4>4, <5>1, OneBlock DEF Block
      <4>6. p[1] = lo
        BY <1>2, <1>3, <4>1, <4>3, <4>5 DEF Block, BlockBytes
      <4>7. lo + 1 <= p[2]
        BY <1>2, <1>3, <3>2, <4>3, <4>5, <4>6 DEF Block, BlockBytes
      <4>8. lo + 1 \in gone
        BY <1>2, <4>3, <4>6, <4>7 DEF gone
      <4> QED BY <2>3, <3>2, <4>8
    <3> QED BY <2>3, <3>1, <3>2
  <2> QED BY <1>11, <2>2, <2>3
<1>13. ASSUME \A d \in Cid : sending'[d] \in opened' => sending'[d] = sending[d],
              InOrder(pending', written')
       PROVE  Exact'
  <2>1. InOrder(pending, written)'
    BY <1>9, <1>13 DEF InOrder, Blocks, Block, BlockBytes
  <2> QED BY <1>10, <2>1 DEF Exact
<1>14. CASE ~WriteReturns(f, p[1], p[2])
  <2>1. sending' = sending
    BY <1>14 DEF TakePacket
  <2>2. CASE EndOfRequest(c, p[2])
    <3>1. RequestBlocks(c, owes)
      BY <1>14, <2>2 DEF TakePacket, owes, Left
    <3>2. InOrder(pending', written')
      BY <1>1, <1>11, <1>12, <3>1, RequestOrder
    <3> QED BY <1>13, <2>1, <3>2
  <2>3. CASE ~EndOfRequest(c, p[2])
    <3>1. pending' = owes
      BY <1>14, <2>3 DEF TakePacket, owes, Left
    <3> QED BY <1>12, <1>13, <2>1, <3>1
  <2> QED BY <2>2, <2>3
<1>15. CASE WriteReturns(f, p[1], p[2])
  <2>1. pending' = owes
    BY <1>15 DEF TakePacket, owes, Left
  <2>2. sending' = sending \/ sending' = [sending EXCEPT ![c] = NoFile]
    BY <1>15 DEF TakePacket
  <2>3. NoFile \notin opened'
    BY <1>1, <1>9, EmuleXAssumption DEF HoldTypes
  <2>4. \A d \in Cid : sending'[d] \in opened' => sending'[d] = sending[d]
    BY <2>2, <2>3
  <2> QED BY <1>12, <1>13, <2>1, <2>4
<1> QED BY <1>14, <1>15

LEMMA OnUpAcceptedExact ==
    ASSUME OffsetsFit, Hold, Exact, NEW c \in Cid, OnUpAccepted(c)
    PROVE  Exact'
<1>1. RequestBlocks(c, pending) /\ UNCHANGED <<opened, fcparts, written, sending>>
  BY DEF OnUpAccepted, fileVars
<1>2. HoldTypes /\ Ids /\ pending \in [Cid -> SUBSET Nat] /\ InOrder(pending, written)
  BY DEF Hold, HoldTypes, Exact
<1>3. InOrder(pending', written)
  BY <1>1, <1>2, RequestOrder
<1>4. InOrder(pending, written)'
  BY <1>1, <1>3 DEF InOrder, Blocks, Block, BlockBytes
<1> QED BY <1>1, <1>4 DEF Exact, ClaimsExact, Begins, Blocks

LEMMA AddTaskExact ==
    ASSUME Hold, Exact, NEW f \in File, AddTask(f)
    PROVE  Exact'
<1>1. UNCHANGED <<pending, sending>>
  BY DEF AddTask
<1>2. CASE UNCHANGED openVars
  BY <1>1, <1>2, ExactFrame DEF openVars
<1>3. CASE OpenFiles({f} \ singf)
  <2>1. CASE f \in singf
    <3>1. opened' = opened /\ fcparts' = [g \in File |-> fcparts[g]]
          /\ written' = [g \in File |-> written[g]]
      BY <1>3, <2>1 DEF OpenFiles
    <3>2. fcparts' = fcparts /\ written' = written
      BY <3>1 DEF Hold, HoldTypes
    <3> QED BY <1>1, <3>1, <3>2, ExactFrame
  <2>2. CASE f \notin singf
    <3>1. /\ opened' = opened \cup {f} /\ f \notin opened
          /\ written' = [g \in File |-> IF g = f THEN {} ELSE written[g]]
          /\ fcparts' = [g \in File |-> IF g = f THEN << >> ELSE fcparts[g]]
      BY <1>3, <2>2 DEF OpenFiles, Hold, HoldTypes
    <3>2. \A c \in Cid : sending[c] # f
      BY <2>2, EmuleXAssumption DEF Hold, HoldTypes, Ids
    <3>3. \A g \in opened : g \in File
      BY DEF Hold, HoldTypes
    <3>4. ClaimsExact'
      BY <3>1, <3>3, EmptyList DEF Exact, ClaimsExact
    <3>5. Begins'
      <4>1. ASSUME NEW g \in opened', NEW i \in 1 .. Len(fcparts'[g])
            PROVE  \E k \in 1 .. Len(Blocks(g)) : Lo(fcparts'[g][i]) = Blocks(g)[k][1]
        <5>1. CASE g = f
          <6>1. 1 .. Len(fcparts'[g]) = {}
            BY <3>1, <5>1
          <6> QED BY <6>1
        <5>2. CASE g # f
          BY <3>1, <3>3, <5>2 DEF Exact, Begins
        <5> QED BY <5>1, <5>2
      <4> QED BY <4>1 DEF Begins, Blocks
    <3>6. InOrder(pending, written)'
      <4> SUFFICES ASSUME NEW c \in Cid, sending[c] \in opened',
                          NEW k \in 1 .. Len(Blocks(sending[c]))
                   PROVE  /\ \A x \in Block(sending[c], k) : \A y \in Block(sending[c], k) :
                                x \in pending[c] /\ y < x =>
                                    y \in pending[c] \/ y \in written'[sending[c]]
                          /\ LET lo == Blocks(sending[c])[k][1]
                             IN  lo + 1 \in Block(sending[c], k) /\ lo + 1 \in pending[c] =>
                                     lo \in pending[c]
        BY <1>1 DEF InOrder, Blocks, Block, BlockBytes
      <4>1. sending[c] \in opened /\ sending[c] \in File /\ written'[sending[c]] = written[sending[c]]
        BY <3>1, <3>2, <3>3
      <4> QED BY <4>1 DEF Exact, InOrder
    <3> QED BY <3>4, <3>5, <3>6 DEF Exact
  <2> QED BY <2>1, <2>2
<1> QED BY <1>2, <1>3 DEF AddTask

LEMMA InitExact == Init => Exact
<1> SUFFICES ASSUME Init PROVE Exact
  OBVIOUS
<1>1. opened = {} /\ \A f : f \notin opened
  BY DEF Init
<1> QED BY <1>1 DEF Exact, ClaimsExact, Begins, InOrder

LEMMA NextExact ==
    ASSUME OffsetsFit, BlockSize > 1, MinPacket > 1,
           Hold, Exact, TaskInv, BookInv, [Next]_vars
    PROVE  Exact'
<1>1. sending \in [Cid -> File \cup {NoFile}] /\ LinkInv
  BY DEF TaskInv, BookInv
<1>2. ASSUME UNCHANGED <<pending, opened, written, fcparts, sending>> PROVE Exact'
  BY <1>2, ExactFrame
<1>3. ASSUME NEW how, Die(how) PROVE Exact'
  <2>1. UNCHANGED <<netVars, openVars, sendVars>>
    BY <1>3, DieFrame
  <2> QED BY <1>2, <2>1 DEF netVars, openVars, sendVars
<1>4. CASE Boot
  <2>1. opened' = {}
    BY <1>4 DEF Boot
  <2> QED BY <2>1 DEF Exact, ClaimsExact, Begins, InOrder
<1>5. CASE Kill
  BY <1>3, <1>5 DEF Kill
<1>6. ASSUME NEW c \in Cid, Handle(c) PROVE Exact'
  <2>1. CASE Established(c)
    BY <1>2, <2>1 DEF Established, OnConn, OnConnFailed, fileVars, sendVars
  <2>2. CASE OnFail(c)
    <3>1. /\ pending' = [pending EXCEPT ![c] = {}]
          /\ UNCHANGED <<opened, written, fcparts, sending>>
      BY <2>2 DEF OnFail, Closed, fileVars, sendVars
    <3> QED BY <3>1, ExactFrame DEF Hold, HoldTypes
  <2>3. CASE OnServerList(c)
    BY <1>2, <2>3 DEF OnServerList, fileVars, sendVars
  <2>4. CASE OnLogined(c)
    <3>1. CASE Die("nulltask")
      BY <1>3, <3>1
    <3>2. CASE ~Die("nulltask")
      BY <1>2, <2>4, <3>2 DEF OnLogined, openVars, sendVars
    <3> QED BY <3>1, <3>2
  <2>5. ASSUME NEW f \in File, OnFoundSource(c, f) PROVE Exact'
    <3>1. CASE f \notin opened
      <4>1. Die("threw")
        BY <2>5, <3>1 DEF OnFoundSource
      <4> QED BY <1>3, <4>1
    <3>2. CASE f \in opened
      <4>0. PICK peers \in SourceSets : \E who \in Dials(nextId, peers) :
                sending' = [d \in Cid |-> IF d \in DOMAIN who THEN f ELSE sending[d]]
        BY <2>5, <3>2 DEF OnFoundSource
      <4>1. PICK who \in Dials(nextId, peers) :
                sending' = [d \in Cid |-> IF d \in DOMAIN who THEN f ELSE sending[d]]
        BY <4>0
      <4>2. UNCHANGED <<pending, opened, written, fcparts>>
        BY <2>5, <3>2 DEF OnFoundSource, openVars
      <4>3. nextId \in 1 .. MaxConn + 1 /\ MaxConn \in Nat
        BY <1>1, ED2KAssumption DEF LinkInv, Links
      <4>4. \A d \in DOMAIN who : d \in Cid /\ d >= nextId
        BY <4>3, DialsShape DEF Cid
      <4>5. \A d \in DOMAIN who : pending[d] = {}
        BY <4>4 DEF Hold, Ids
      <4>6. \A d \in Cid : pending[d] = {} \/ sending'[d] = sending[d]
        BY <4>1, <4>5
      <4> QED BY <4>2, <4>6, ExactFrame
    <3> QED BY <3>1, <3>2
  <2>6. CASE OnAnswered(c)
    BY <1>2, <2>6 DEF OnAnswered, fileVars, sendVars
  <2>7. CASE OnUpAccepted(c)
    BY <2>7, OnUpAcceptedExact
  <2>8. CASE OnSending(c)
    <3>1. CASE sending[c] = NoFile
      <4>1. /\ pending' = [pending EXCEPT ![c] = {}]
            /\ UNCHANGED <<opened, written, fcparts, sending>>
        BY <2>8, <3>1 DEF OnSending, fileVars, sendVars
      <4> QED BY <4>1, ExactFrame DEF Hold, HoldTypes
    <3>2. CASE sending[c] # NoFile /\ sending[c] \notin opened
      <4>1. Die("nullstream")
        BY <2>8, <3>2 DEF OnSending
      <4> QED BY <1>3, <4>1
    <3>3. CASE sending[c] # NoFile /\ sending[c] \in opened
      <4>0. pending[c] # {}
        BY <2>8 DEF OnSending
      <4>1. PICK p \in Packets(c) : \E again \in {FALSE, esrv[c] \in Repeater} :
                \E good \in {TRUE, esrv[c] \notin Liar} : TakePacket(c, p, good, again)
        BY <2>8, <3>3 DEF OnSending
      <4>2. PICK again \in {FALSE, esrv[c] \in Repeater} :
                \E good \in {TRUE, esrv[c] \notin Liar} : TakePacket(c, p, good, again)
        BY <4>1
      <4>3. PICK good \in {TRUE, esrv[c] \notin Liar} : TakePacket(c, p, good, again)
        BY <4>2
      <4> QED BY <1>1, <3>3, <4>0, <4>3, TakePacketExact
    <3> QED BY <3>1, <3>2, <3>3
  <2>9. CASE KillInSendDone(c)
    BY <1>3, <2>9 DEF KillInSendDone
  <2>10. CASE HelloThrows(c)
    BY <1>3, <2>10 DEF HelloThrows
  <2> QED BY <1>6, <2>1, <2>2, <2>3, <2>4, <2>5, <2>6, <2>7, <2>8, <2>9, <2>10 DEF Handle
<1>7. ASSUME NEW f \in File, AddTask(f) PROVE Exact'
  BY <1>7, AddTaskExact
<1>8. ASSUME NEW f \in File, KillInAddTask(f) PROVE Exact'
  BY <1>3, <1>8 DEF KillInAddTask
<1>9. CASE UNCHANGED vars
  BY <1>2, <1>9 DEF vars, memVars, netVars, openVars, sendVars
<1> QED BY <1>4, <1>5, <1>6, <1>7, <1>8, <1>9 DEF Next

(* The range list claims the bytes on disk and no others, for any number of *)
(* peers, liars and repeaters among them, and any interleaving of their     *)
(* packets.  With blocks or packets of one byte it is false.                *)
THEOREM ListIsTheDisk ==
    ASSUME OffsetsFit, BlockSize > 1, MinPacket > 1
    PROVE  Spec => []ClaimsExact
<1>1. Exact /\ Hold /\ TaskInv /\ BookInv /\ [Next]_vars => Exact'
  BY NextExact
<1>2. Exact => ClaimsExact
  BY DEF Exact
<1> QED BY <1>1, <1>2, InitExact, HoldInvariance, TaskInvariance, BookInvariance, PTL DEF Spec

-------------------------------------------------------------------------------
(* Why a file that is complete is never left open.  A write that completes  *)
(* it answers FALSE only if the list has come to claim it in two pairs side *)
(* by side, or if the last byte of the range was there before.  Neither     *)
(* happens as long as, of a file that is open, a connection owes what no    *)
(* other does (Distinct), with every byte the rest of its block (Rests);    *)
(* what it owes again is on disk from the first byte it owes on (FromFront) *)
(* and right (Unspoilt); and with a block it owes the one behind, or else   *)
(* the byte in front of it is owed or there (Flanked).                      *)
First(f, k) == Blocks(f)[k][1]

Distinct(owes) ==
    \A c \in Cid : \A d \in Cid :
        c # d /\ sending[c] = sending[d] /\ sending[c] \in opened =>
            \A x \in owes[c] : x \notin owes[d]

Rests(owes) ==
    \A c \in Cid : sending[c] \in opened =>
        \A k \in 1 .. Len(Blocks(sending[c])) :
            \A x \in Block(sending[c], k) : \A y \in Block(sending[c], k) :
                x \in owes[c] /\ x <= y => y \in owes[c]

FromFront(owes, wr) ==
    \A c \in Cid : sending[c] \in opened =>
        \A x \in owes[c] : \A y \in owes[c] :
            x < y /\ y \in wr[sending[c]] => x \in wr[sending[c]]

Unspoilt(owes, bad) ==
    \A c \in Cid : sending[c] \in opened => \A x \in owes[c] : x \notin bad[sending[c]]

Flanked(owes, wr) ==
    \A c \in Cid : sending[c] \in opened =>
        \A k \in 1 .. Len(Blocks(sending[c])) :
            First(sending[c], k) \in owes[c] =>
                \/ k = Len(Blocks(sending[c]))
                \/ First(sending[c], k + 1) \in owes[c]
                \/ /\ k > 1
                   /\ \/ First(sending[c], k) - 1 \in owes[c]
                      \/ First(sending[c], k) - 1 \in wr[sending[c]]

ApartOf(owes, sent, wr, bad) ==
    /\ Distinct(owes) /\ Rests(owes) /\ FromFront(owes, wr)
    /\ Unspoilt(owes, bad) /\ Flanked(owes, wr)
    /\ \A f \in opened : wr[f] \subseteq HandedOut(f, sent[f])
    /\ \A f \in opened : bad[f] \subseteq wr[f]

Apart ==
    /\ ApartOf(pending, sended, written, wrong)
    /\ \A f \in opened : Spaced(fcparts[f])

-------------------------------------------------------------------------------
(* A block ends where the next begins. *)
LEMMA BlocksJoin ==
    ASSUME OffsetsFit, NEW f \in File,
           NEW k \in 1 .. Len(Blocks(f)), k # Len(Blocks(f))
    PROVE  k + 1 \in 1 .. Len(Blocks(f)) /\ Blocks(f)[k][2] = First(f, k + 1)
<1> DEFINE s == Size[f]
           m == BlockSize
           n == s \div m
           size == IF n * m < s - 1 THEN n + 1 ELSE n
           lo(i) == (i - 1) * m
           hi(i) == IF i <= n THEN i * m ELSE s
<1>1. s \in Nat /\ m \in Nat /\ m > 0
  BY FileStoreAssumption
<1>2. n \in Nat
  BY <1>1
<1>3. size \in Nat /\ size <= n + 1
  BY <1>2
<1>4. Blocks(f) = [i \in 1 .. size |-> <<lo(i) % Width, hi(i) % Width>>]
  BY DEF Blocks, AllBlocks
<1>5. Len(Blocks(f)) = size
  <2> HIDE DEF size, lo, hi
  <2> QED BY <1>3, <1>4
<1>6. k \in 1 .. size /\ k + 1 \in 1 .. size /\ k <= n
  BY <1>2, <1>3, <1>5
<1>7. hi(k) = k * m /\ lo(k + 1) = k * m
  <2>1. k + 1 - 1 = k
    BY <1>6
  <2> QED BY <1>6, <2>1
<1> HIDE DEF size, lo, hi, n
<1>8. Blocks(f)[k][2] = hi(k) % Width /\ Blocks(f)[k + 1][1] = lo(k + 1) % Width
  BY <1>4, <1>6
<1> QED BY <1>5, <1>6, <1>7, <1>8 DEF First

(* The handler's end, once owes, sent, wr and bad have become the state. *)
LEMMA ApartPrimed ==
    ASSUME ApartOf(pending', sended', written', wrong'),
           \A d \in Cid : sending'[d] \in opened' => sending'[d] = sending[d],
           \A f \in opened' : f \in opened,
           \A f \in opened' : Spaced(fcparts'[f])
    PROVE  Apart'
<1>1. Distinct(pending)' /\ Rests(pending)' /\ FromFront(pending, written)'
  <2>1. Distinct(pending)'
    BY DEF ApartOf, Distinct
  <2>2. Rests(pending)'
    BY DEF ApartOf, Rests, Blocks, Block, BlockBytes
  <2>3. FromFront(pending, written)'
    BY DEF ApartOf, FromFront
  <2> QED BY <2>1, <2>2, <2>3
<1>2. Unspoilt(pending, wrong)' /\ Flanked(pending, written)'
  <2>1. Unspoilt(pending, wrong)'
    BY DEF ApartOf, Unspoilt
  <2>2. Flanked(pending, written)'
    BY DEF ApartOf, Flanked, First, Blocks
  <2> QED BY <2>1, <2>2
<1>3. \A f \in opened' : written'[f] \subseteq HandedOut(f, sended'[f]) /\ wrong'[f] \subseteq written'[f]
  BY DEF ApartOf
<1>4. ApartOf(pending, sended, written, wrong)'
  BY <1>1, <1>2, <1>3 DEF ApartOf, HandedOut, Blocks, BlockBytes
<1>5. \A f \in opened' : Spaced(fcparts[f])'
  BY DEF Spaced
<1> QED BY <1>4, <1>5 DEF Apart

(* A step that leaves the files alone, by which a connection loses what it  *)
(* owes or keeps it with its file.                                          *)
LEMMA ApartFrame ==
    ASSUME Apart, UNCHANGED <<opened, fcparts, written, wrong, sended>>,
           \A d \in Cid : pending'[d] = {} \/ (pending'[d] = pending[d] /\ sending'[d] = sending[d])
    PROVE  Apart'
<1>0. ApartOf(pending, sended, written, wrong)
  BY DEF Apart
<1>1. Distinct(pending)'
  BY <1>0 DEF ApartOf, Distinct
<1>2. Rests(pending)'
  <2> SUFFICES ASSUME NEW c \in Cid, sending'[c] \in opened,
                      NEW k \in 1 .. Len(Blocks(sending'[c])),
                      NEW x \in Block(sending'[c], k), NEW y \in Block(sending'[c], k),
                      x \in pending'[c], x <= y
               PROVE  y \in pending'[c]
    BY DEF Rests, Blocks, Block, BlockBytes
  <2>1. pending'[c] = pending[c] /\ sending'[c] = sending[c]
    OBVIOUS
  <2> QED BY <1>0, <2>1 DEF ApartOf, Rests
<1>3. FromFront(pending, written)'
  BY <1>0 DEF ApartOf, FromFront
<1>4. Unspoilt(pending, wrong)'
  BY <1>0 DEF ApartOf, Unspoilt
<1>5. Flanked(pending, written)'
  <2> SUFFICES ASSUME NEW c \in Cid, sending'[c] \in opened,
                      NEW k \in 1 .. Len(Blocks(sending'[c])),
                      First(sending'[c], k) \in pending'[c]
               PROVE  \/ k = Len(Blocks(sending'[c]))
                      \/ First(sending'[c], k + 1) \in pending'[c]
                      \/ /\ k > 1
                         /\ \/ First(sending'[c], k) - 1 \in pending'[c]
                            \/ First(sending'[c], k) - 1 \in written[sending'[c]]
    BY DEF Flanked, First, Blocks
  <2>1. pending'[c] = pending[c] /\ sending'[c] = sending[c]
    OBVIOUS
  <2> QED BY <1>0, <2>1 DEF ApartOf, Flanked
<1>6. \A f \in opened' : written'[f] \subseteq HandedOut(f, sended'[f]) /\ wrong'[f] \subseteq written'[f]
  BY <1>0 DEF ApartOf
<1>7. ApartOf(pending, sended, written, wrong)'
  BY <1>1, <1>2, <1>3, <1>4, <1>5, <1>6 DEF ApartOf, HandedOut, Blocks, BlockBytes
<1> QED BY <1>7 DEF Apart, Spaced

(* The blocks of the next request lie behind all that was handed out, and   *)
(* the last of them is not the only one unless the file ends with it.       *)
LEMMA RequestApart ==
    ASSUME OffsetsFit, HoldTypes, Ids, NEW c \in Cid,
           NEW owes \in [Cid -> SUBSET Nat], NEW wr, NEW bad,
           OwedOf(owes, sended), ApartOf(owes, sended, wr, bad),
           RequestBlocks(c, owes)
    PROVE  ApartOf(pending', sended', wr, bad)
<1> DEFINE f == sending[c]
<1>0. sended \in [File -> Nat]
  BY DEF HoldTypes
<1>1. CASE f = NoFile \/ sended[f] >= Len(Blocks(f))
  BY <1>1 DEF RequestBlocks
<1>2. CASE ~(f = NoFile \/ sended[f] >= Len(Blocks(f)))
  <2> DEFINE new == UNION { BlockBytes(Blocks(f)[k]) : k \in Handed(f) }
             old == HandedOut(f, sended[f])
  <2>1. f \in File /\ f # NoFile
    BY <1>2 DEF Ids, HoldTypes
  <2>2. sended[f] < Len(Blocks(f)) /\ sended[f] \in Nat /\ Len(Blocks(f)) \in Nat
    BY <1>0, <1>2, <2>1, BlocksTyped
  <2>3. /\ LastPart(f) \in sended[f] + 1 .. Len(Blocks(f))
        /\ \A x : x \in HandedOut(f, LastPart(f)) <=> x \in old \/ x \in new
        /\ new \subseteq Nat
    BY <2>1, <2>2, NextBlocks
  <2>4. /\ sended' = [sended EXCEPT ![f] = LastPart(f)]
        /\ pending' = [owes EXCEPT ![c] = @ \cup new]
    BY <1>2 DEF RequestBlocks
  <2>5. \A x \in new : x \notin old
    BY <2>1, <2>2, NextBlocksNew
  <2>6. \A x : x \in new <=> \E k \in Handed(f) : x \in Block(f, k)
    BY DEF Block
  <2>7. \A k \in Handed(f) : k \in 1 .. Len(Blocks(f)) /\ k > sended[f]
    BY <2>2, <2>3 DEF Handed
  <2>8. \A x \in new : \A y \in old : y < x
    <3> SUFFICES ASSUME NEW x \in new, NEW y \in old PROVE y < x
      OBVIOUS
    <3>1. PICK k \in Handed(f) : x \in Block(f, k)
      BY <2>6
    <3>2. PICK j \in 1 .. sended[f] : y \in BlockBytes(Blocks(f)[j])
      BY InHandedOut
    <3> HIDE DEF new, old
    <3>3. j \in 1 .. Len(Blocks(f)) /\ k \in 1 .. Len(Blocks(f)) /\ j < k
      BY <2>2, <2>7, <3>2
    <3>4. Blocks(f)[j][2] <= Blocks(f)[k][1]
      BY <2>1, <3>3, BlocksApart
    <3>5. /\ Blocks(f)[j][1] \in Nat /\ Blocks(f)[j][2] \in Nat
          /\ Blocks(f)[k][1] \in Nat /\ Blocks(f)[k][2] \in Nat
      BY <2>1, <3>3, BlocksTyped
    <3> QED BY <3>1, <3>2, <3>4, <3>5 DEF Block, BlockBytes
  <2>9. \A k \in 1 .. Len(Blocks(f)) : \A x \in Block(f, k) :
           x \in new => k \in Handed(f) /\ Block(f, k) \subseteq new
    <3> SUFFICES ASSUME NEW k \in 1 .. Len(Blocks(f)), NEW x \in Block(f, k), x \in new
                 PROVE  k \in Handed(f) /\ Block(f, k) \subseteq new
      OBVIOUS
    <3>1. PICK j \in Handed(f) : x \in Block(f, j)
      BY <2>6
    <3>2. j = k
      BY <2>1, <2>7, <3>1, OneBlock DEF Block
    <3> QED BY <2>6, <3>1, <3>2
  <2>10. \A k \in 1 .. Len(Blocks(f)) :
            First(f, k) \in Nat /\ Blocks(f)[k][2] \in Nat /\ First(f, k) \in Block(f, k)
            /\ Blocks(f)[k][2] - 1 \in Block(f, k)
    BY <2>1, BlocksTyped, BlocksApart DEF Block, BlockBytes, First
  <2>11. ASSUME NEW k \in Handed(f), k # Len(Blocks(f))
         PROVE  First(f, k + 1) \in new \/ (k > 1 /\ First(f, k) - 1 \in new)
    <3>1. CASE k # LastPart(f)
      <4>1. k + 1 \in Handed(f) /\ k + 1 \in 1 .. Len(Blocks(f))
        BY <2>2, <2>3, <3>1 DEF Handed
      <4> QED BY <2>6, <2>10, <4>1
    <3>2. CASE k = LastPart(f)
      <4>1. k = sended[f] + MaxParts
        BY <2>2, <2>11, <3>2 DEF LastPart
      <4>2. k - 1 \in Handed(f) /\ k > 1 /\ k - 1 \in 1 .. Len(Blocks(f))
            /\ k - 1 # Len(Blocks(f))
        BY <2>2, <2>3, <2>7, <3>2, <4>1 DEF Handed, MaxParts
      <4>3. Blocks(f)[k - 1][2] = First(f, k)
        <5>1. Blocks(f)[k - 1][2] = First(f, k - 1 + 1)
          BY <2>1, <4>2, BlocksJoin
        <5>2. k - 1 + 1 = k
          BY <2>2, <4>1
        <5> QED BY <5>1, <5>2
      <4>4. First(f, k) - 1 \in Block(f, k - 1)
        BY <2>10, <4>2, <4>3
      <4> QED BY <2>6, <4>2, <4>4
    <3> QED BY <3>1, <3>2
  <2> HIDE DEF new, old, f
  <2>12. \A g \in File : sended'[g] = IF g = f THEN LastPart(f) ELSE sended[g]
    BY <1>0, <2>1, <2>4
  <2>13. \A d \in Cid : pending'[d] = IF d = c THEN owes[c] \cup new ELSE owes[d]
    BY <2>4
  <2>14. \A d \in Cid : sending[d] = f => owes[d] \subseteq old
    BY <2>1 DEF OwedOf, old
  <2>15. f \in opened => \A y \in wr[f] : y \in old /\ y \notin new
    BY <2>5 DEF ApartOf, old
  <2>16. f \in opened => \A y \in bad[f] : y \notin new
    BY <2>15 DEF ApartOf
  <2>17. Distinct(pending')
    BY <2>5, <2>13, <2>14 DEF ApartOf, Distinct, f
  <2>18. Rests(pending')
    <3> SUFFICES ASSUME NEW d \in Cid, sending[d] \in opened,
                        NEW k \in 1 .. Len(Blocks(sending[d])),
                        NEW x \in Block(sending[d], k), NEW y \in Block(sending[d], k),
                        x \in pending'[d], x <= y
                 PROVE  y \in pending'[d]
      BY DEF Rests
    <3>1. CASE x \in owes[d]
      <4>1. y \in owes[d]
        BY <3>1 DEF ApartOf, Rests
      <4> QED BY <2>13, <4>1
    <3>2. CASE d = c /\ x \in new
      BY <2>9, <2>13, <3>2 DEF f
    <3> QED BY <2>13, <3>1, <3>2
  <2>19. FromFront(pending', wr)
    <3> SUFFICES ASSUME NEW d \in Cid, sending[d] \in opened,
                        NEW x \in pending'[d], NEW y \in pending'[d],
                        x < y, y \in wr[sending[d]]
                 PROVE  x \in wr[sending[d]]
      BY DEF FromFront
    <3>1. CASE x \in owes[d] /\ y \in owes[d]
      BY <3>1 DEF ApartOf, FromFront
    <3>2. CASE d = c /\ y \in new
      BY <2>15, <3>2 DEF f
    <3>3. CASE d = c /\ x \in new /\ y \in owes[d]
      <4>1. y \in old /\ y < x /\ x \in Nat /\ y \in Nat
        BY <2>3, <2>8, <2>14, <3>3 DEF f
      <4> QED BY <4>1
    <3> QED BY <2>13, <3>1, <3>2, <3>3
  <2>20. Unspoilt(pending', bad)
    BY <2>13, <2>16 DEF ApartOf, Unspoilt, f
  <2>21. Flanked(pending', wr)
    <3> SUFFICES ASSUME NEW d \in Cid, sending[d] \in opened,
                        NEW k \in 1 .. Len(Blocks(sending[d])),
                        First(sending[d], k) \in pending'[d],
                        k # Len(Blocks(sending[d]))
                 PROVE  \/ First(sending[d], k + 1) \in pending'[d]
                        \/ /\ k > 1
                           /\ \/ First(sending[d], k) - 1 \in pending'[d]
                              \/ First(sending[d], k) - 1 \in wr[sending[d]]
      BY DEF Flanked
    <3>1. CASE First(sending[d], k) \in owes[d]
      <4>1. \/ First(sending[d], k + 1) \in owes[d]
            \/ /\ k > 1
               /\ \/ First(sending[d], k) - 1 \in owes[d]
                  \/ First(sending[d], k) - 1 \in wr[sending[d]]
        BY <3>1 DEF ApartOf, Flanked
      <4> QED BY <2>13, <4>1
    <3>2. CASE d = c /\ First(f, k) \in new
      <4>1. k \in Handed(f)
        BY <2>9, <2>10, <3>2 DEF f
      <4>2. First(f, k + 1) \in new \/ (k > 1 /\ First(f, k) - 1 \in new)
        BY <2>11, <3>2, <4>1 DEF f
      <4> QED BY <2>13, <3>2, <4>2 DEF f
    <3> QED BY <2>13, <3>1, <3>2 DEF f
  <2>22. \A g \in opened : wr[g] \subseteq HandedOut(g, sended'[g])
    <3>1. \A g \in opened : wr[g] \subseteq HandedOut(g, sended[g]) /\ g \in File
      BY DEF ApartOf, HoldTypes
    <3> QED BY <2>3, <2>12, <3>1 DEF old
  <2> QED BY <2>17, <2>18, <2>19, <2>20, <2>21, <2>22 DEF ApartOf
<1> QED BY <1>1, <1>2

-------------------------------------------------------------------------------
(* A packet is owed byte by byte, its bytes are right or not on disk, and   *)
(* when its last one is, all of them are.                                   *)
LEMMA PacketAgain ==
    ASSUME Hold, Apart, NEW c \in Cid, sending[c] \in opened, pending[c] # {},
           NEW p \in Packets(c)
    PROVE  \A x \in p[1] .. p[2] :
               /\ x \in pending[c] /\ x \notin wrong[sending[c]]
               /\ p[2] \in written[sending[c]] => x \in written[sending[c]]
<1> DEFINE f == sending[c]
<1>1. HoldTypes /\ Ids /\ Owed /\ f \in File /\ f # NoFile
  BY EmuleXAssumption DEF Hold, HoldTypes
<1>2. /\ p[1] \in Nat /\ p[2] \in Nat /\ p[1] <= p[2] /\ p[1] \in pending[c]
      /\ \E k \in 1 .. Len(Blocks(f)) : p[1] \in Block(f, k) /\ p[2] \in Block(f, k)
  BY <1>1, PacketTyped DEF Block
<1>3. PICK k \in 1 .. Len(Blocks(f)) : p[1] \in Block(f, k) /\ p[2] \in Block(f, k)
  BY <1>2
<1>4. Blocks(f)[k][1] \in Nat /\ Blocks(f)[k][2] \in Nat
  BY <1>1, BlocksTyped
<1>5. ASSUME NEW x \in p[1] .. p[2] PROVE x \in pending[c] /\ x \in Nat /\ x <= p[2]
  <2>1. x \in Block(f, k) /\ p[1] <= x
    BY <1>2, <1>3, <1>4 DEF Block, BlockBytes
  <2> QED BY <1>2, <1>3, <2>1 DEF Apart, ApartOf, Rests
<1>6. p[2] \in pending[c]
  BY <1>2, <1>5
<1>7. ASSUME NEW x \in p[1] .. p[2], p[2] \in written[f] PROVE x \in written[f]
  <2>1. x = p[2] \/ x < p[2]
    BY <1>2, <1>5
  <2> QED BY <1>5, <1>6, <1>7, <2>1 DEF Apart, ApartOf, FromFront
<1> QED BY <1>5, <1>7 DEF Apart, ApartOf, Unspoilt

(* A packet is not put in front of what is on disk and away from all that   *)
(* is on disk before it.                                                    *)
LEMMA PacketJoins ==
    ASSUME OffsetsFit, MinPacket > 1, Hold, Exact, Apart,
           NEW c \in Cid, sending[c] \in opened, pending[c] # {}, NEW p \in Packets(c)
    PROVE  \/ p[2] + 1 \notin written[sending[c]]
           \/ p[2] \in written[sending[c]]
           \/ p[1] - 1 \in written[sending[c]]
<1> DEFINE f == sending[c]
           a == p[1]
           b == p[2]
<1>1. HoldTypes /\ Ids /\ Owed /\ f \in File /\ f # NoFile /\ InOrder(pending, written)
  BY EmuleXAssumption DEF Hold, HoldTypes, Exact
<1>2. /\ a \in Nat /\ b \in Nat /\ a <= b
      /\ a \in pending[c] /\ \A x \in pending[c] : a <= x
  BY <1>1, PacketTyped
<1>3. PICK k \in 1 .. Len(Blocks(f)) : a \in Block(f, k) /\ b \in Block(f, k)
  BY <1>1, PacketLong
<1>4. a = First(f, k) \/ a - 1 \in written[f]
  BY <1>1, <1>2, <1>3, PacketPlace DEF First
<1>5. b \in pending[c]
  BY <1>2, PacketAgain
<1>6. First(f, k) \in Nat /\ Blocks(f)[k][2] \in Nat /\ b < Blocks(f)[k][2] /\ First(f, k) <= b
  BY <1>1, <1>3, BlocksTyped DEF First, Block, BlockBytes
<1> SUFFICES ASSUME b + 1 \in written[f], b \notin written[f], a - 1 \notin written[f]
             PROVE  FALSE
  OBVIOUS
<1>7. b + 1 \notin pending[c]
  <2>1. b < b + 1
    BY <1>2
  <2> QED BY <1>5, <2>1 DEF Apart, ApartOf, FromFront
<1>8. b + 1 = Blocks(f)[k][2]
  <2> SUFFICES ASSUME b + 1 # Blocks(f)[k][2] PROVE FALSE
    OBVIOUS
  <2>1. b + 1 \in Block(f, k) /\ b <= b + 1
    BY <1>2, <1>6 DEF Block, BlockBytes, First
  <2> QED BY <1>3, <1>5, <1>7, <2>1 DEF Apart, ApartOf, Rests
<1>9. First(f, k) \in pending[c]
  BY <1>2, <1>4
<1>10. CASE k = Len(Blocks(f))
  <2>1. PICK j \in 1 .. sended[f] : b + 1 \in BlockBytes(Blocks(f)[j])
    BY InHandedOut DEF Apart, ApartOf
  <2>2. j \in 1 .. Len(Blocks(f)) /\ j <= k
    BY <1>1, <1>10, BlocksTyped DEF HoldTypes
  <2>3. Blocks(f)[j][1] \in Nat /\ Blocks(f)[j][2] \in Nat /\ b + 1 < Blocks(f)[j][2]
    BY <1>1, <1>2, <2>1, <2>2, BlocksTyped DEF BlockBytes
  <2>4. j = k \/ Blocks(f)[j][2] <= First(f, k)
    BY <1>1, <2>2, BlocksApart DEF First
  <2> QED BY <1>2, <1>6, <1>8, <2>3, <2>4
<1>11. CASE k # Len(Blocks(f)) /\ First(f, k + 1) \in pending[c]
  BY <1>1, <1>7, <1>8, <1>11, BlocksJoin
<1>12. CASE First(f, k) - 1 \in pending[c]
  BY <1>2, <1>4, <1>12
<1>13. CASE First(f, k) - 1 \in written[f]
  BY <1>4, <1>13
<1> QED BY <1>9, <1>10, <1>11, <1>12, <1>13 DEF Apart, ApartOf, Flanked

(* What the connections owe and what is on disk once a packet is written.   *)
LEMMA WriteApart ==
    ASSUME OffsetsFit, Hold, Apart,
           NEW c \in Cid, sending[c] \in opened, pending[c] # {},
           NEW p \in Packets(c), NEW good, NEW again, good \/ ~again,
           Write(sending[c], p[1], p[2], good)
    PROVE  ApartOf(Left(c, p, again), sended, written', wrong')
<1> DEFINE f == sending[c]
           gone == p[1] .. p[2]
           owes == Left(c, p, again)
<1>1. HoldTypes /\ Ids /\ Owed /\ f \in File /\ f # NoFile
      /\ ApartOf(pending, sended, written, wrong)
  BY EmuleXAssumption DEF Hold, HoldTypes, Apart
<1>2. /\ p[1] \in Nat /\ p[2] \in Nat /\ p[1] <= p[2]
      /\ \A x \in pending[c] : p[1] <= x /\ x \in Nat
  BY <1>1, PacketTyped DEF HoldTypes
<1>3. \A x \in gone : x \in pending[c]
  BY PacketAgain
<1>4. /\ written'[f] = written[f] \cup gone
      /\ wrong'[f] = WrongAfter(f, p[1], p[2], good)
      /\ \A g \in File : g # f => written'[g] = written[g] /\ wrong'[g] = wrong[g]
  <2>1. /\ written' = [written EXCEPT ![f] = @ \cup gone]
        /\ wrong' = [wrong EXCEPT ![f] = WrongAfter(f, p[1], p[2], good)]
    BY DEF Write
  <2> HIDE DEF f, gone
  <2> QED BY <1>1, <2>1 DEF HoldTypes
<1>5. \A x : x \in wrong'[f] => (x \in wrong[f] \/ x \in gone) /\ (x \in gone => ~good)
  BY <1>4 DEF WrongAfter
<1>6. /\ \A d \in Cid : d # c => owes[d] = pending[d]
      /\ owes[c] = pending[c] \/ (owes[c] = pending[c] \ gone)
      /\ again \/ owes[c] = pending[c] \ gone
  <2>1. CASE again
    <3>1. owes = pending
      BY <2>1 DEF Left
    <3> QED BY <2>1, <3>1
  <2>2. CASE ~again
    <3>1. owes = [pending EXCEPT ![c] = @ \ gone]
      BY <2>2 DEF Left, gone
    <3> HIDE DEF owes, gone
    <3> QED BY <1>1, <3>1 DEF HoldTypes
  <2> QED BY <2>1, <2>2
<1> HIDE DEF owes
<1>7. \A d \in Cid : \A x \in owes[d] : x \in pending[d]
  BY <1>6
<1>8. \A d \in Cid : \A x \in pending[d] : x \in owes[d] \/ (d = c /\ x \in gone)
  BY <1>6
<1>9. \A d \in Cid : sending[d] \in opened => sending[d] \in File
  BY <1>1 DEF HoldTypes
<1>10. \A d \in Cid : d # c /\ sending[d] = f => \A x \in owes[d] : x \notin gone
  BY <1>1, <1>3, <1>6 DEF ApartOf, Distinct
<1>11. \A g \in opened : written[g] \subseteq written'[g]
  BY <1>1, <1>4 DEF HoldTypes
<1>12. Distinct(owes)
  BY <1>1, <1>7 DEF ApartOf, Distinct
<1>13. Rests(owes)
  <2> SUFFICES ASSUME NEW d \in Cid, sending[d] \in opened,
                      NEW j \in 1 .. Len(Blocks(sending[d])),
                      NEW x \in Block(sending[d], j), NEW y \in Block(sending[d], j),
                      x \in owes[d], x <= y
               PROVE  y \in owes[d]
    BY DEF Rests
  <2>1. x \in pending[d] /\ y \in pending[d]
    BY <1>1, <1>7 DEF ApartOf, Rests
  <2>2. CASE owes[d] = pending[d]
    BY <2>1, <2>2
  <2>3. CASE d = c /\ owes[c] = pending[c] \ gone
    <3>1. x \in Nat /\ y \in Nat /\ p[1] <= x /\ x \notin gone
      BY <1>2, <2>1, <2>3
    <3>2. x > p[2]
      BY <1>2, <3>1
    <3>3. y \notin gone
      BY <1>2, <3>1, <3>2
    <3> QED BY <2>1, <2>3, <3>3
  <2> QED BY <1>6, <2>2, <2>3
<1>14. FromFront(owes, written')
  <2> SUFFICES ASSUME NEW d \in Cid, sending[d] \in opened,
                      NEW x \in owes[d], NEW y \in owes[d],
                      x < y, y \in written'[sending[d]]
               PROVE  x \in written'[sending[d]]
    BY DEF FromFront
  <2>1. x \in pending[d] /\ y \in pending[d]
    BY <1>7
  <2>2. CASE y \in written[sending[d]]
    <3>1. x \in written[sending[d]]
      BY <1>1, <2>1, <2>2 DEF ApartOf, FromFront
    <3> QED BY <1>11, <3>1
  <2>3. CASE y \notin written[sending[d]]
    <3>1. sending[d] = f /\ y \in gone
      BY <1>4, <1>9, <2>3
    <3>2. d = c
      BY <1>10, <3>1
    <3>3. x \in Nat /\ p[1] <= x /\ x <= p[2]
      BY <1>2, <2>1, <3>1, <3>2
    <3> QED BY <1>2, <1>4, <3>1, <3>3
  <2> QED BY <2>2, <2>3
<1>15. Unspoilt(owes, wrong')
  <2> SUFFICES ASSUME NEW d \in Cid, sending[d] \in opened,
                      NEW x \in owes[d], x \in wrong'[sending[d]]
               PROVE  FALSE
    BY DEF Unspoilt
  <2>1. x \notin wrong[sending[d]]
    BY <1>1, <1>7 DEF ApartOf, Unspoilt
  <2>2. sending[d] = f
    BY <1>4, <1>9, <2>1
  <2>3. x \in gone /\ ~good
    BY <1>5, <2>1, <2>2
  <2> QED BY <1>6, <1>10, <2>2, <2>3
<1>16. Flanked(owes, written')
  <2> SUFFICES ASSUME NEW d \in Cid, sending[d] \in opened,
                      NEW k \in 1 .. Len(Blocks(sending[d])),
                      First(sending[d], k) \in owes[d],
                      k # Len(Blocks(sending[d])),
                      First(sending[d], k + 1) \notin owes[d]
               PROVE  /\ k > 1
                      /\ \/ First(sending[d], k) - 1 \in owes[d]
                         \/ First(sending[d], k) - 1 \in written'[sending[d]]
    BY DEF Flanked
  <2>1. First(sending[d], k) \in pending[d]
    BY <1>7
  <2>2. First(sending[d], k + 1) \notin pending[d]
    <3> SUFFICES ASSUME First(sending[d], k + 1) \in pending[d] PROVE FALSE
      OBVIOUS
    <3>1. d = c /\ First(f, k + 1) \in gone
      BY <1>8
    <3>2. owes[c] = pending[c] \ gone
      BY <1>6, <3>1
    <3>3. First(f, k) \in Nat /\ p[1] <= First(f, k) /\ First(f, k) \notin gone
      BY <1>2, <2>1, <3>1, <3>2
    <3>4. First(f, k) < First(f, k + 1)
      <4>1. k \in 1 .. Len(Blocks(f)) /\ k + 1 \in 1 .. Len(Blocks(f))
            /\ Blocks(f)[k][2] = First(f, k + 1)
        BY <1>1, <3>1, BlocksJoin
      <4> QED BY <1>1, <4>1, BlocksApart DEF First
    <3> QED BY <1>2, <3>1, <3>3, <3>4
  <2>3. /\ k > 1
        /\ \/ First(sending[d], k) - 1 \in pending[d]
           \/ First(sending[d], k) - 1 \in written[sending[d]]
    BY <1>1, <2>1, <2>2 DEF ApartOf, Flanked
  <2> QED BY <1>4, <1>8, <1>11, <2>3
<1>17. \A g \in opened : written'[g] \subseteq HandedOut(g, sended[g])
  <2>1. \A x \in gone : x \in HandedOut(f, sended[f])
    BY <1>1, <1>3 DEF Owed
  <2>2. \A g \in opened : written[g] \subseteq HandedOut(g, sended[g]) /\ g \in File
    BY <1>1 DEF ApartOf, HoldTypes
  <2> QED BY <1>4, <2>1, <2>2
<1>18. \A g \in opened : wrong'[g] \subseteq written'[g]
  <2>1. \A g \in opened : wrong[g] \subseteq written[g] /\ g \in File
    BY <1>1 DEF ApartOf, HoldTypes
  <2> QED BY <1>4, <1>5, <2>1
<1> QED BY <1>12, <1>13, <1>14, <1>15, <1>16, <1>17, <1>18 DEF ApartOf, owes

LEMMA TakePacketApart ==
    ASSUME OffsetsFit, BlockSize > 1, MinPacket > 1, Hold, Exact, Apart, CompleteIsFinished,
           sending \in [Cid -> File \cup {NoFile}],
           NEW c \in Cid, sending[c] \in opened,
           pending[c] # {}, NEW p \in Packets(c),
           NEW good, NEW again, good \/ ~again,
           TakePacket(c, p, good, again)
    PROVE  Apart' /\ CompleteIsFinished'
<1> DEFINE f == sending[c]
           gone == p[1] .. p[2]
           owes == Left(c, p, again)
           q == Added(fcparts[f], p[1], p[2])
<1>1. /\ HoldTypes /\ Lists /\ Ids /\ Owed /\ f \in File /\ f # NoFile
      /\ ClaimsExact /\ Begins /\ InOrder(pending, written)
      /\ ApartOf(pending, sended, written, wrong) /\ Spaced(fcparts[f])
  BY EmuleXAssumption DEF Hold, HoldTypes, Exact, Apart
<1>2. /\ p[1] \in Nat /\ p[2] \in Nat /\ p[1] <= p[2]
      /\ p[1] \in pending[c] /\ \A x \in pending[c] : p[1] <= x
  BY <1>1, PacketTyped
<1>3. PICK k \in 1 .. Len(Blocks(f)) : p[1] \in Block(f, k)
  BY <1>1, PacketLong
<1>4. p[1] = Blocks(f)[k][1] \/ (p[1] > Blocks(f)[k][1] + 1 /\ p[1] - 1 \in written[f])
  BY <1>1, <1>2, <1>3, PacketPlace
<1>5. fcparts[f] \in Seq(Pair) /\ Sorted(fcparts[f]) /\ Bytes(fcparts[f]) = written[f]
  BY <1>1 DEF HoldTypes, Lists, ClaimsExact
<1>6. \/ p[2] + 1 \notin written[f] \/ p[2] \in written[f] \/ p[1] - 1 \in written[f]
  BY PacketJoins
<1>7. Bytes(q) = written[f] \cup gone
  <2>1. f \in opened /\ p[1] \in Nat /\ p[2] \in Nat /\ p[1] <= p[2]
    BY <1>2
  <2> HIDE DEF f
  <2> QED BY <1>1, <1>3, <1>4, <2>1, AddedExact
<1>8. Spaced(q)
  BY <1>1, <1>2, <1>5, <1>6, AddedSpaced
<1>9. Write(f, p[1], p[2], good) /\ opened' \subseteq opened
  BY DEF TakePacket, CloseFile
<1>10. /\ fcparts'[f] = q
       /\ written'[f] = written[f] \cup gone
       /\ wrong'[f] = WrongAfter(f, p[1], p[2], good)
       /\ \A g \in File : g # f =>
             fcparts'[g] = fcparts[g] /\ written'[g] = written[g] /\ wrong'[g] = wrong[g]
  <2>1. /\ fcparts' = [fcparts EXCEPT ![f] = q]
        /\ written' = [written EXCEPT ![f] = @ \cup gone]
        /\ wrong' = [wrong EXCEPT ![f] = WrongAfter(f, p[1], p[2], good)]
    BY <1>9 DEF Write
  <2> HIDE DEF f, gone, q
  <2> QED BY <1>1, <2>1 DEF HoldTypes
<1>11. ApartOf(owes, sended, written', wrong')
  BY <1>9, WriteApart
<1>12. \A g \in opened' : Spaced(fcparts'[g]) /\ g \in opened
  <2>1. \A g \in opened : g \in File /\ Spaced(fcparts[g])
    BY <1>1 DEF HoldTypes, Apart
  <2> QED BY <1>8, <1>9, <1>10, <2>1
<1>13. ASSUME \A d \in Cid : sending'[d] \in opened' => sending'[d] = sending[d],
              ApartOf(pending', sended', written', wrong')
       PROVE  Apart'
  BY <1>12, <1>13, ApartPrimed
<1>14. Apart'
  <2>1. CASE ~WriteReturns(f, p[1], p[2])
    <3>1. sending' = sending
      BY <2>1 DEF TakePacket
    <3>2. CASE EndOfRequest(c, p[2])
      <4>1. RequestBlocks(c, owes)
        BY <2>1, <3>2 DEF TakePacket, owes, Left
      <4>2. owes \in [Cid -> SUBSET Nat] /\ OwedOf(owes, sended)
        <5>1. pending \in [Cid -> SUBSET Nat]
          BY <1>1 DEF HoldTypes
        <5>2. owes = pending \/ owes = [pending EXCEPT ![c] = @ \ gone]
          BY DEF Left
        <5> HIDE DEF owes, gone
        <5>3. owes \in [Cid -> SUBSET Nat] /\ \A d \in Cid : owes[d] \subseteq pending[d]
          BY <5>1, <5>2
        <5> QED BY <1>1, <5>3 DEF Owed, OwedOf
      <4> HIDE DEF owes
      <4>3. ApartOf(pending', sended', written', wrong')
        BY <1>1, <1>11, <4>1, <4>2, RequestApart
      <4> QED BY <1>13, <3>1, <4>3
    <3>3. CASE ~EndOfRequest(c, p[2])
      <4>1. pending' = owes /\ sended' = sended
        BY <2>1, <3>3 DEF TakePacket, owes, Left
      <4> QED BY <1>11, <1>13, <3>1, <4>1
    <3> QED BY <3>2, <3>3
  <2>2. CASE WriteReturns(f, p[1], p[2])
    <3>1. pending' = owes /\ sended' = sended
      BY <2>2 DEF TakePacket, owes, Left
    <3>2. sending' = sending \/ sending' = [sending EXCEPT ![c] = NoFile]
      BY <2>2 DEF TakePacket
    <3>3. NoFile \notin opened'
      BY <1>1, <1>9, EmuleXAssumption DEF HoldTypes
    <3>4. \A d \in Cid : sending'[d] \in opened' => sending'[d] = sending[d]
      BY <3>2, <3>3
    <3> QED BY <1>11, <1>13, <3>1, <3>4
  <2> QED BY <2>1, <2>2
<1>15. CompleteIsFinished'
  <2> SUFFICES ASSUME NEW g \in opened', written'[g] = Contents(g), wrong'[g] = {}
               PROVE  FALSE
    BY DEF CompleteIsFinished, Contents
  <2>1. g \in opened /\ g \in File
    BY <1>1, <1>12 DEF HoldTypes
  <2>2. g = f
    <3> SUFFICES ASSUME g # f PROVE FALSE
      OBVIOUS
    <3>1. written[g] = Contents(g) /\ wrong[g] = {}
      BY <1>10, <2>1
    <3> QED BY <2>1, <3>1 DEF CompleteIsFinished
  <2>3. Right(f, p[1], p[2], good)
    BY <1>10, <2>2 DEF Right
  <2>4. ~WriteReturns(f, p[1], p[2])
    <3> SUFFICES ASSUME WriteReturns(f, p[1], p[2]) PROVE FALSE
      OBVIOUS
    <3>1. opened' = opened \ {f}
      BY <2>3 DEF TakePacket, Valid, CloseFile
    <3> QED BY <2>2, <3>1
  <2>5. p[2] \in written[f]
    <3>1. Size[f] \in Nat /\ Size[f] > 0
      BY <1>1, FileStoreAssumption
    <3>2. written[f] \cup gone = 0 .. Size[f] - 1
      BY <1>10, <2>2 DEF Contents
    <3>3. ~AddReturns(fcparts[f], p[1], p[2], Size[f])
      BY <2>4 DEF WriteReturns
    <3> DEFINE l == fcparts[f]
               n == Size[f]
    <3>4. /\ l \in Seq(Pair) /\ Sorted(l) /\ Spaced(l) /\ n \in Nat /\ n > 0
          /\ p[2] + 1 \notin Bytes(l) \/ p[2] \in Bytes(l) \/ p[1] - 1 \in Bytes(l)
          /\ Bytes(Added(l, p[1], p[2])) = 0 .. n - 1
          /\ Bytes(l) \cup (p[1] .. p[2]) = 0 .. n - 1
          /\ ~AddReturns(l, p[1], p[2], n)
      BY <1>1, <1>5, <1>6, <1>7, <3>1, <3>2, <3>3
    <3>5. Bytes(l) = written[f]
      BY <1>5
    <3> HIDE DEF f, l, n
    <3> QED BY <1>2, <3>4, <3>5, AddReturnsDone
  <2>6. \A x \in gone : x \in written[f] /\ x \notin wrong[f]
    BY <2>5, PacketAgain
  <2>7. written[f] = Contents(f)
    BY <1>10, <2>2, <2>6
  <2>8. wrong[f] = {}
    <3>1. p[2] \in gone
      BY <1>2
    <3>2. WrongAfter(f, p[1], p[2], good) = {}
      BY <1>10, <2>2
    <3>3. WrongAfter(f, p[1], p[2], good) = IF good THEN wrong[f] \ gone ELSE wrong[f] \cup gone
      BY DEF WrongAfter
    <3> QED BY <2>6, <3>1, <3>2, <3>3
  <2> QED BY <2>1, <2>2, <2>7, <2>8 DEF CompleteIsFinished
<1> QED BY <1>14, <1>15

LEMMA OnUpAcceptedApart ==
    ASSUME OffsetsFit, Hold, Apart, NEW c \in Cid, OnUpAccepted(c)
    PROVE  Apart'
<1>1. RequestBlocks(c, pending) /\ UNCHANGED <<opened, fcparts, written, wrong, sending>>
  BY DEF OnUpAccepted, fileVars
<1>2. /\ HoldTypes /\ Ids /\ pending \in [Cid -> SUBSET Nat] /\ OwedOf(pending, sended)
      /\ ApartOf(pending, sended, written, wrong)
  BY DEF Hold, HoldTypes, Apart, Owed, OwedOf
<1>3. ApartOf(pending', sended', written', wrong')
  BY <1>1, <1>2, RequestApart
<1> QED BY <1>1, <1>3, ApartPrimed DEF Apart

LEMMA AddTaskApart ==
    ASSUME Hold, Apart, CompleteIsFinished, NEW f \in File, AddTask(f)
    PROVE  Apart' /\ CompleteIsFinished'
<1>1. UNCHANGED <<pending, sending>>
  BY DEF AddTask
<1>2. ASSUME UNCHANGED <<opened, fcparts, written, wrong, sended>>
      PROVE  Apart' /\ CompleteIsFinished'
  BY <1>1, <1>2, ApartFrame DEF CompleteIsFinished, Contents
<1>3. CASE UNCHANGED <<openVars, sended>>
  BY <1>2, <1>3 DEF openVars
<1>4. CASE OpenFiles({f} \ singf) /\ (sended' = IF f \in singf THEN sended ELSE [sended EXCEPT ![f] = 0])
  <2>1. CASE f \in singf
    <3>1. /\ opened' = opened /\ fcparts' = [g \in File |-> fcparts[g]]
          /\ written' = [g \in File |-> written[g]] /\ wrong' = [g \in File |-> wrong[g]]
          /\ sended' = sended
      BY <1>4, <2>1 DEF OpenFiles
    <3>2. fcparts' = fcparts /\ written' = written /\ wrong' = wrong
      BY <3>1 DEF Hold, HoldTypes
    <3> QED BY <1>2, <3>1, <3>2
  <2>2. CASE f \notin singf
    <3>1. /\ opened' = opened \cup {f} /\ f \notin opened
          /\ written' = [g \in File |-> IF g = f THEN {} ELSE written[g]]
          /\ wrong' = [g \in File |-> IF g = f THEN {} ELSE wrong[g]]
          /\ fcparts' = [g \in File |-> IF g = f THEN << >> ELSE fcparts[g]]
          /\ sended' = [sended EXCEPT ![f] = 0]
      BY <1>4, <2>2 DEF OpenFiles, Hold, HoldTypes
    <3>2. \A c \in Cid : sending[c] # f
      BY <2>2, EmuleXAssumption DEF Hold, HoldTypes, Ids
    <3>3. \A g \in opened : g \in File /\ g # f
      BY <3>1 DEF Hold, HoldTypes
    <3>4. \A g \in opened : written'[g] = written[g] /\ wrong'[g] = wrong[g]
                            /\ fcparts'[g] = fcparts[g] /\ sended'[g] = sended[g]
      BY <3>1, <3>3 DEF Hold, HoldTypes
    <3>5. written'[f] = {} /\ wrong'[f] = {} /\ fcparts'[f] = << >>
      BY <3>1
    <3>6. \A c \in Cid : sending'[c] \in opened' => sending[c] \in opened
      BY <1>1, <3>1, <3>2
    <3>7. ApartOf(pending, sended, written, wrong)
      BY DEF Apart
    <3>8. Distinct(pending)'
      BY <1>1, <3>6, <3>7 DEF ApartOf, Distinct
    <3>9. Rests(pending)'
      BY <1>1, <3>6, <3>7 DEF ApartOf, Rests, Blocks, Block, BlockBytes
    <3>10. FromFront(pending, written)'
      BY <1>1, <3>4, <3>6, <3>7 DEF ApartOf, FromFront
    <3>11. Unspoilt(pending, wrong)'
      BY <1>1, <3>4, <3>6, <3>7 DEF ApartOf, Unspoilt
    <3>12. Flanked(pending, written)'
      <4> SUFFICES ASSUME NEW c \in Cid, sending[c] \in opened',
                          NEW k \in 1 .. Len(Blocks(sending[c])),
                          First(sending[c], k) \in pending[c]
                   PROVE  \/ k = Len(Blocks(sending[c]))
                          \/ First(sending[c], k + 1) \in pending[c]
                          \/ /\ k > 1
                             /\ \/ First(sending[c], k) - 1 \in pending[c]
                                \/ First(sending[c], k) - 1 \in written'[sending[c]]
        BY <1>1 DEF Flanked, First, Blocks
      <4>1. sending[c] \in opened /\ written'[sending[c]] = written[sending[c]]
        BY <1>1, <3>4, <3>6
      <4> QED BY <3>7, <4>1 DEF ApartOf, Flanked
    <3>13. \A g \in opened' : written'[g] \subseteq HandedOut(g, sended'[g]) /\ wrong'[g] \subseteq written'[g]
      BY <3>1, <3>4, <3>5, <3>7 DEF ApartOf
    <3>14. \A g \in opened' : Spaced(fcparts[g])'
      <4>1. Spaced(<< >>)
        BY EmptyList DEF Spaced
      <4>2. \A g \in opened' : Spaced(fcparts'[g])
        BY <3>1, <3>4, <3>5, <4>1 DEF Apart
      <4> QED BY <4>2 DEF Spaced
    <3>15. Apart'
      BY <3>8, <3>9, <3>10, <3>11, <3>12, <3>13, <3>14
         DEF Apart, ApartOf, HandedOut, Blocks, BlockBytes
    <3>16. CompleteIsFinished'
      <4>1. Contents(f) # {}
        <5>1. Size[f] \in Nat /\ Size[f] > 0
          BY FileStoreAssumption
        <5>2. 0 \in Contents(f)
          BY <5>1 DEF Contents
        <5> QED BY <5>2
      <4> QED BY <3>1, <3>4, <3>5, <4>1 DEF CompleteIsFinished, Contents
    <3> QED BY <3>15, <3>16
  <2> QED BY <2>1, <2>2
<1> QED BY <1>3, <1>4 DEF AddTask

LEMMA NextApart ==
    ASSUME OffsetsFit, BlockSize > 1, MinPacket > 1, Repeater \cap Liar = {},
           Hold, Exact, Apart, CompleteIsFinished, TaskInv, BookInv, [Next]_vars
    PROVE  Apart' /\ CompleteIsFinished'
<1>1. sending \in [Cid -> File \cup {NoFile}] /\ LinkInv
  BY DEF TaskInv, BookInv
<1>2. ASSUME UNCHANGED <<opened, fcparts, written, wrong, sended>>,
             \A d \in Cid : pending'[d] = {} \/ (pending'[d] = pending[d] /\ sending'[d] = sending[d])
      PROVE  Apart' /\ CompleteIsFinished'
  BY <1>2, ApartFrame DEF CompleteIsFinished, Contents
<1>3. ASSUME UNCHANGED <<pending, openVars, sendVars>> PROVE Apart' /\ CompleteIsFinished'
  BY <1>2, <1>3 DEF openVars, sendVars
<1>4. ASSUME NEW how, Die(how) PROVE Apart' /\ CompleteIsFinished'
  BY <1>3, <1>4, DieFrame DEF netVars
<1>5. CASE Boot
  <2>1. opened' = {}
    BY <1>5 DEF Boot
  <2>2. Apart'
    BY <2>1 DEF Apart, ApartOf, Distinct, Rests, FromFront, Unspoilt, Flanked
  <2>3. CompleteIsFinished'
    BY <2>1 DEF CompleteIsFinished
  <2> QED BY <2>2, <2>3
<1>6. CASE Kill
  BY <1>4, <1>6 DEF Kill
<1>7. ASSUME NEW c \in Cid, Handle(c) PROVE Apart' /\ CompleteIsFinished'
  <2>1. CASE Established(c)
    BY <1>3, <2>1 DEF Established, OnConn, OnConnFailed, fileVars, openVars
  <2>2. CASE OnFail(c)
    <3>1. /\ pending' = [pending EXCEPT ![c] = {}]
          /\ UNCHANGED <<openVars, sendVars>>
      BY <2>2 DEF OnFail, Closed, fileVars, openVars
    <3>2. \A d \in Cid : pending'[d] = {} \/ pending'[d] = pending[d]
      BY <3>1 DEF Hold, HoldTypes
    <3> QED BY <1>2, <3>1, <3>2 DEF openVars, sendVars
  <2>3. CASE OnServerList(c)
    BY <1>3, <2>3 DEF OnServerList, fileVars, openVars
  <2>4. CASE OnLogined(c)
    <3>1. CASE Die("nulltask")
      BY <1>4, <3>1
    <3>2. CASE ~Die("nulltask")
      BY <1>3, <2>4, <3>2 DEF OnLogined
    <3> QED BY <3>1, <3>2
  <2>5. ASSUME NEW f \in File, OnFoundSource(c, f) PROVE Apart' /\ CompleteIsFinished'
    <3>1. CASE f \notin opened
      <4>1. Die("threw")
        BY <2>5, <3>1 DEF OnFoundSource
      <4> QED BY <1>4, <4>1
    <3>2. CASE f \in opened
      <4>0. PICK peers \in SourceSets : \E who \in Dials(nextId, peers) :
                sending' = [d \in Cid |-> IF d \in DOMAIN who THEN f ELSE sending[d]]
        BY <2>5, <3>2 DEF OnFoundSource
      <4>1. PICK who \in Dials(nextId, peers) :
                sending' = [d \in Cid |-> IF d \in DOMAIN who THEN f ELSE sending[d]]
        BY <4>0
      <4>2. UNCHANGED <<pending, openVars, sended>>
        BY <2>5, <3>2 DEF OnFoundSource
      <4>3. nextId \in 1 .. MaxConn + 1 /\ MaxConn \in Nat
        BY <1>1, ED2KAssumption DEF LinkInv, Links
      <4>4. \A d \in DOMAIN who : d \in Cid /\ d >= nextId
        BY <4>3, DialsShape DEF Cid
      <4>5. \A d \in DOMAIN who : pending[d] = {}
        BY <4>4 DEF Hold, Ids
      <4>6. \A d \in Cid : pending[d] = {} \/ sending'[d] = sending[d]
        BY <4>1, <4>5
      <4> QED BY <1>2, <4>2, <4>6 DEF openVars
    <3> QED BY <3>1, <3>2
  <2>6. CASE OnAnswered(c)
    BY <1>3, <2>6 DEF OnAnswered, fileVars, openVars
  <2>7. CASE OnUpAccepted(c)
    <3>1. CompleteIsFinished'
      BY <2>7 DEF OnUpAccepted, fileVars, CompleteIsFinished, Contents
    <3> QED BY <2>7, <3>1, OnUpAcceptedApart
  <2>8. CASE OnSending(c)
    <3>1. CASE sending[c] = NoFile
      <4>1. pending' = [pending EXCEPT ![c] = {}] /\ UNCHANGED <<openVars, sendVars>>
        BY <2>8, <3>1 DEF OnSending, fileVars, openVars
      <4>2. \A d \in Cid : pending'[d] = {} \/ pending'[d] = pending[d]
        BY <4>1 DEF Hold, HoldTypes
      <4> QED BY <1>2, <4>1, <4>2 DEF openVars, sendVars
    <3>2. CASE sending[c] # NoFile /\ sending[c] \notin opened
      <4>1. Die("nullstream")
        BY <2>8, <3>2 DEF OnSending
      <4> QED BY <1>4, <4>1
    <3>3. CASE sending[c] # NoFile /\ sending[c] \in opened
      <4>0. pending[c] # {}
        BY <2>8 DEF OnSending
      <4>1. PICK p \in Packets(c) : \E again \in {FALSE, esrv[c] \in Repeater} :
                \E good \in {TRUE, esrv[c] \notin Liar} : TakePacket(c, p, good, again)
        BY <2>8, <3>3 DEF OnSending
      <4>2. PICK again \in {FALSE, esrv[c] \in Repeater} :
                \E good \in {TRUE, esrv[c] \notin Liar} : TakePacket(c, p, good, again)
        BY <4>1
      <4>3. PICK good \in {TRUE, esrv[c] \notin Liar} : TakePacket(c, p, good, again)
        BY <4>2
      <4>4. good \/ ~again
        BY <4>2, <4>3
      <4> QED BY <1>1, <3>3, <4>0, <4>3, <4>4, TakePacketApart
    <3> QED BY <3>1, <3>2, <3>3
  <2>9. CASE KillInSendDone(c)
    BY <1>4, <2>9 DEF KillInSendDone
  <2>10. CASE HelloThrows(c)
    BY <1>4, <2>10 DEF HelloThrows
  <2> QED BY <1>7, <2>1, <2>2, <2>3, <2>4, <2>5, <2>6, <2>7, <2>8, <2>9, <2>10 DEF Handle
<1>8. ASSUME NEW f \in File, AddTask(f) PROVE Apart' /\ CompleteIsFinished'
  BY <1>8, AddTaskApart
<1>9. ASSUME NEW f \in File, KillInAddTask(f) PROVE Apart' /\ CompleteIsFinished'
  BY <1>4, <1>9 DEF KillInAddTask
<1>10. CASE UNCHANGED vars
  BY <1>3, <1>10 DEF vars, memVars, netVars
<1> QED BY <1>5, <1>6, <1>7, <1>8, <1>9, <1>10 DEF Next

(* The write that completes a right file finishes it, for any files, any    *)
(* peers and any order of their packets, in whatever pieces the list grew,  *)
(* as long as no peer both lies and repeats itself: such a one can send a   *)
(* right packet for a wrong one when the list is complete already, and no   *)
(* write answers TRUE again.                                                *)
THEOREM CompleteIsClosed ==
    ASSUME OffsetsFit, BlockSize > 1, MinPacket > 1, Repeater \cap Liar = {}
    PROVE  Spec => []CompleteIsFinished
<1> DEFINE Good == Apart /\ CompleteIsFinished
<1>1. Init => Good
  <2> SUFFICES ASSUME Init PROVE Good
    OBVIOUS
  <2>1. opened = {} /\ \A f : f \notin opened
    BY DEF Init
  <2> QED BY <2>1 DEF Apart, ApartOf, Distinct, Rests, FromFront, Unspoilt, Flanked,
                      CompleteIsFinished
<1>2. Good /\ Exact /\ Hold /\ TaskInv /\ BookInv /\ [Next]_vars => Good'
  BY NextApart
<1>3. Exact /\ Hold /\ TaskInv /\ BookInv /\ [Next]_vars => Exact'
  BY NextExact
<1>4. Good => CompleteIsFinished
  OBVIOUS
<1> HIDE DEF Good
<1> QED BY <1>1, <1>2, <1>3, <1>4, InitExact, HoldInvariance, TaskInvariance, BookInvariance,
           PTL DEF Spec
===============================================================================
