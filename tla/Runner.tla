-------------------------------- MODULE Runner --------------------------------
(***************************************************************************)
(* The downloader of src/runner/runner.cpp (classes Runner_ and Sending_)  *)
(* on top of the connection layer ED2K and of the files and tasks of       *)
(* FileStore.  A step is one handler of the io_service thread with every   *)
(* call it makes, one request of the user, or the end or the start of the  *)
(* process.  Tasks are named by an emd4 hash, as the tests and the page of *)
(* the web server add them, and no two files share a path.                 *)
(***************************************************************************)
EXTENDS ED2K, FileStore

CONSTANTS
    InitSrvs,    (* the servers start is called with                         *)
    ServerLists, (* what a server may answer to ListServer: sets of servers  *)
    SourceSets,  (* what a server may answer to GetSource: sets of peers     *)
    MinPacket,   (* a peer cuts no shorter packet, but at the end of a block *)
    Liar,        (* peers that may send wrong bytes                          *)
    Repeater,    (* peers that may send a packet twice                       *)
    MaxBoot      (* bound: starts of the process                             *)

ASSUME RunnerAssumption ==
    /\ InitSrvs \subseteq Server
    /\ ServerLists \subseteq SUBSET Server
    /\ SourceSets \subseteq SUBSET Peer
    /\ MinPacket \in Nat \ {0}
    /\ Liar \subseteq Peer /\ Repeater \subseteq Peer
    /\ MaxBoot \in Nat

VARIABLES
    proc,      (* up, down, or what ended the process                      *)
    boots,     (* starts of the process so far                             *)
    allsrvs,   (* addresses start has dialled                              *)
    logined,   (* connections a server has logged in                       *)
    connected, (* per address: logins counted since the last failure       *)
    fail,      (* per address: connections closed                          *)
    sending,   (* per connection: the file of its Sending, or NoFile       *)
    singf,     (* the files that have a Sending                            *)
    stask,     (* per file: the row number in its Sending's task, 0 = null *)
    sended,    (* per file: blocks handed out                              *)
    requested  (* per connection: the end of the last block handed to it   *)

bookVars == <<allsrvs, logined, connected, fail>>
sendVars == <<sending, singf, stask, sended, requested>>
memVars == <<netVars, openVars, bookVars, sendVars>>
vars == <<proc, boots, fin, tasks, memVars>>

(* How a process can end other than by being stopped: an exception leaves   *)
(* the handler (threw; badhash, when it comes from Hash::set), the null     *)
(* task of a Sending is dereferenced, the stream of a closed file is.       *)
Ends == {"threw", "badhash", "nulltask", "nullstream"}

(* ed2kpart fills one request with at most this many blocks. *)
MaxParts == 3

TypeOK ==
    /\ NetTypeOK /\ FileTypeOK
    /\ proc \in {"up", "down"} \cup Ends
    /\ boots \in 0 .. MaxBoot
    /\ allsrvs \subseteq Server
    /\ logined \subseteq Cid
    /\ connected \in [Address -> Nat]
    /\ fail \in [Address -> Nat]
    /\ sending \in [Cid -> File \cup {NoFile}]
    /\ singf \subseteq File
    /\ stask \in [File -> Nat]
    /\ sended \in [File -> Nat]
    /\ requested \in [Cid -> Nat]

-------------------------------------------------------------------------------
Init ==
    /\ nextId = 1 /\ stage = NoStage /\ esrv = NoEsrv /\ due = NoDue
    /\ asked = NoAsked /\ pending = NoPending
    /\ opened = {} /\ fcparts = [f \in File |-> << >>]
    /\ written = [f \in File |-> {}] /\ wrong = [f \in File |-> {}]
    /\ fin = [f \in File |-> "none"] /\ tasks = << >>
    /\ proc = "down" /\ boots = 0
    /\ allsrvs = {} /\ logined = {}
    /\ connected = [a \in Address |-> 0] /\ fail = [a \in Address |-> 0]
    /\ sending = [c \in Cid |-> NoFile] /\ singf = {}
    /\ stask = [f \in File |-> 0] /\ sended = [f \in File |-> 0]
    /\ requested = [c \in Cid |-> 0]

(* The process ends: its memory no longer matters, until Boot replaces it.  *)
Die(how) == proc' = how /\ UNCHANGED <<boots, memVars>>

Up == proc = "up" /\ UNCHANGED <<proc, boots>>

(* A new process: nothing in memory, nothing open, the table and the final  *)
(* files as they were; start(InitSrvs).                                     *)
Boot ==
    /\ proc # "up" /\ boots < MaxBoot
    /\ proc' = "up" /\ boots' = boots + 1
    /\ \E who \in Dials(1, InitSrvs), down \in SUBSET (InitSrvs \cap Flaky) :
          Connect(1, NoStage, NoEsrv, who, down)
    /\ allsrvs' = InitSrvs
    /\ due' = NoDue /\ asked' = NoAsked /\ pending' = NoPending
    /\ opened' = {} /\ fcparts' = [f \in File |-> << >>]
    /\ written' = [f \in File |-> {}] /\ wrong' = [f \in File |-> {}]
    /\ logined' = {}
    /\ connected' = [a \in Address |-> 0] /\ fail' = [a \in Address |-> 0]
    /\ sending' = [c \in Cid |-> NoFile] /\ singf' = {}
    /\ stask' = [f \in File |-> 0] /\ sended' = [f \in File |-> 0]
    /\ requested' = [c \in Cid |-> 0]
    /\ UNCHANGED <<fin, tasks>>

(* The process is stopped between two handlers. *)
Kill == proc = "up" /\ boots < MaxBoot /\ Die("down") /\ UNCHANGED <<fin, tasks>>

-------------------------------------------------------------------------------
(* A dialled connection is established, or is not. *)
Established(c) ==
    /\ Up
    /\ OnConn(c) \/ OnConnFailed(c)
    /\ UNCHANGED <<fileVars, bookVars, sendVars>>

(* Mutant of OnFail: the login stays counted. *)
OnFailCounted(c) ==
    /\ Up
    /\ Closed(c)
    /\ fail' = [fail EXCEPT ![esrv[c]] = @ + 1]
    /\ UNCHANGED <<fileVars, allsrvs, logined, connected, sendVars>>

(* ED2K_::OnClose and Runner_::OnFail. *)
OnFail(c) ==
    /\ Up
    /\ Closed(c)
    /\ fail' = [fail EXCEPT ![esrv[c]] = @ + 1]
    /\ connected' = [connected EXCEPT ![esrv[c]] = 0]
    /\ UNCHANGED <<fileVars, allsrvs, logined, sendVars>>

(* Mutant of Unknown: start forgets which servers it has dialled. *)
AnyNamed(srvs) == srvs

(* The servers of a list that start has never dialled. *)
Unknown(srvs) == srvs \ allsrvs

(* OnServerList: start dials those and remembers them. *)
OnServerList(c) ==
    /\ Up
    /\ Receives(c, "serverlist")
    /\ due' = [due EXCEPT ![c] = @ \ {"serverlist"}]
    /\ \E srvs \in ServerLists :
          LET new == Unknown(srvs)
          IN  /\ allsrvs' = allsrvs \cup new
              /\ \E who \in Dials(nextId, new), down \in SUBSET (new \cap Flaky) :
                    Connect(nextId, stage, esrv, who, down)
    /\ UNCHANGED <<asked, pending, fileVars, logined, connected, fail, sendVars>>

(* OP_IDCHANGE and OnLogined: the list of servers is asked for, and the     *)
(* sources of every file of a listed task.  A Sending made here has no      *)
(* task, and the same pass of the loop reads its task's hash.  A listed     *)
(* task has a path and no hash while the keys of singf are ordered by hash: *)
(* a lookup among several may miss a file that is there, so that only hit   *)
(* are found.  A file that cannot be opened (shut) is logged and skipped.   *)
OnLogined(c) ==
    /\ proc = "up"
    /\ Receives(c, "idchange")
    /\ \E hit \in IF Cardinality(singf) > 1 THEN SUBSET singf ELSE {singf} :
       \E shut \in SUBSET (BadDir \ hit) :
          LET found == Listed \ shut
          IN  IF \E f \in found : f \notin hit \/ stask[f] = 0
              THEN Die("nulltask")
              ELSE /\ due' = [due EXCEPT ![c] =
                                (@ \ {"idchange"}) \cup {"serverlist"}]
                   /\ logined' = logined \cup {c}
                   /\ connected' = [connected EXCEPT ![esrv[c]] = @ + 1]
                   /\ ListSource({c}, found)
                   /\ UNCHANGED <<proc, boots, nextId, stage, esrv, pending,
                                  openVars, allsrvs, fail, sendVars>>
    /\ UNCHANGED <<fin, tasks>>

-------------------------------------------------------------------------------
(* OnFoundSource: the open file is looked up with a map access that throws  *)
(* when there is none; every peer named is dialled, whatever connections    *)
(* there are to it already.                                                 *)
OnFoundSource(c, f) ==
    /\ proc = "up"
    /\ stage[c] = "open" /\ asked[c][f] = "asked"
    /\ IF f \notin opened THEN Die("threw")
       ELSE /\ asked' = [asked EXCEPT ![c][f] = "answered"]
            /\ \E peers \in SourceSets :
               \E who \in Dials(nextId, peers), down \in SUBSET (peers \cap Flaky) :
                  /\ Connect(nextId, stage, esrv, who, down)
                  /\ sending' = [d \in Cid |-> IF d \in DOMAIN who THEN f
                                               ELSE sending[d]]
            /\ UNCHANGED <<proc, boots, due, pending, openVars, bookVars,
                           singf, stask, sended, requested>>
    /\ UNCHANGED <<fin, tasks>>

(* Hello::parse sets the length of its hash, as the parse of a block and    *)
(* the check of a complete file do, which nothing reaches if this throws.   *)
HelloThrows(c) ==
    /\ proc = "up" /\ ~LengthSets
    /\ Receives(c, "helloanswer")
    /\ Die("badhash")
    /\ UNCHANGED <<fin, tasks>>

(* OnAnswered: the peer has said hello; the file is asked for. *)
OnAnswered(c) ==
    /\ Up /\ LengthSets
    /\ Receives(c, "helloanswer")
    /\ due' = [due EXCEPT ![c] = (@ \ {"helloanswer"})
                 \cup (IF sending[c] # NoFile THEN {"accept"} ELSE {})]
    /\ UNCHANGED <<nextId, stage, esrv, asked, pending, fileVars, bookVars, sendVars>>

(* How many blocks of f are handed out after the next request for it.       *)
LastPart(f) ==
    IF sended[f] + MaxParts < Len(Blocks(f)) THEN sended[f] + MaxParts
    ELSE Len(Blocks(f))

(* Mutants of Handed: the loop starts over, or one block late. *)
HandedAgain(f) == 1 .. LastPart(f)
HandedLate(f) == sended[f] + 2 .. LastPart(f)

(* ed2kpart: the numbers of the blocks the next request for f names.        *)
Handed(f) == sended[f] + 1 .. LastPart(f)

(* The body of OnUpAccepted, when owes is what the peers owe before it: the *)
(* next blocks of the file, if any are left, are asked of the peer.  A      *)
(* block handed out counts as sent for good.                                *)
RequestBlocks(c, owes) ==
    LET f == sending[c]
    IN  IF f = NoFile \/ sended[f] >= Len(Blocks(f))
        THEN pending' = owes /\ UNCHANGED <<sended, requested>>
        ELSE /\ sended' = [sended EXCEPT ![f] = LastPart(f)]
             /\ requested' = [requested EXCEPT ![c] = Blocks(f)[LastPart(f)][2]]
             /\ pending' = [owes EXCEPT ![c] = @ \cup
                    UNION { BlockBytes(Blocks(f)[k]) : k \in Handed(f) }]

OnUpAccepted(c) ==
    /\ Up
    /\ Receives(c, "accept")
    /\ due' = [due EXCEPT ![c] = @ \ {"accept"}]
    /\ RequestBlocks(c, pending)
    /\ UNCHANGED <<nextId, stage, esrv, asked, fileVars, bookVars,
                   sending, singf, stask>>

(* The packets a peer may send next: its blocks in order, each cut into     *)
(* packets that start where the one before ended.                           *)
Packets(c) ==
    LET a == Min(pending[c])
        k == CHOOSE k \in DOMAIN Blocks(sending[c]) :
                a \in BlockBytes(Blocks(sending[c])[k])
        e == Blocks(sending[c])[k][2] - 1
    IN  { <<a, b>> : b \in { x \in a .. e : x = e \/ x - a + 1 >= MinPacket } }

(* Mutant of EndOfRequest: the comparison is strict. *)
PastRequest(c, b) == b + 1 > requested[c]

(* A packet up to b ends what its peer was asked for.                       *)
EndOfRequest(c, b) == b + 1 >= requested[c]

(* OnSending, from write on, for packet p of the connection's file; a peer  *)
(* that repeats itself owes it again.  A complete file whose hash is right  *)
(* is closed and moved, and its row updated (sendDone); one whose hash is   *)
(* wrong is left as it is; otherwise, at the end of what this peer was      *)
(* asked for, more is asked of it.                                          *)
TakePacket(c, p, good, again) ==
    LET f    == sending[c]
        owes == IF again THEN pending
                ELSE [pending EXCEPT ![c] = @ \ (p[1] .. p[2])]
    IN  /\ Up
        /\ Write(f, p[1], p[2], good)
        /\ IF ~WriteReturns(f, p[1], p[2])
           THEN /\ IF EndOfRequest(c, p[2]) THEN RequestBlocks(c, owes)
                   ELSE pending' = owes /\ UNCHANGED <<sended, requested>>
                /\ UNCHANGED <<opened, fin, tasks, sending>>
           ELSE /\ pending' = owes
                /\ IF Valid(f, p[1], p[2], good)
                   THEN /\ sending' = [sending EXCEPT ![c] = NoFile]
                        /\ CloseFile(f) /\ Rename(f, p[1], p[2], good)
                        /\ tasks' = IF stask[f] = 0 THEN tasks
                                    ELSE [tasks EXCEPT ![stask[f]].status = "done"]
                   ELSE UNCHANGED <<opened, fin, tasks, sending>>
                /\ UNCHANGED <<sended, requested>>
        /\ UNCHANGED <<nextId, stage, esrv, due, asked, bookVars, singf, stask>>

(* OnSending.  A packet for an id without a Sending is ignored; one for a   *)
(* file that is closed is written to a stream that is gone.                 *)
OnSending(c) ==
    /\ proc = "up"
    /\ stage[c] = "open" /\ pending[c] # {}
    /\ IF sending[c] = NoFile
       THEN /\ pending' = [pending EXCEPT ![c] = {}]
            /\ UNCHANGED <<proc, boots, nextId, stage, esrv, due, asked,
                           fileVars, bookVars, sendVars>>
       ELSE IF sending[c] \notin opened
       THEN Die("nullstream") /\ UNCHANGED <<fin, tasks>>
       ELSE \E p \in Packets(c), again \in {FALSE, esrv[c] \in Repeater},
               good \in {TRUE, esrv[c] \notin Liar} :
                  TakePacket(c, p, good, again)

(* Mutant of KillInSendDone: sendDone updates the row before it renames.    *)
KillBeforeRename(c) ==
    /\ proc = "up" /\ boots < MaxBoot
    /\ stage[c] = "open" /\ pending[c] # {}
    /\ sending[c] \in opened
    /\ \E p \in Packets(c), good \in {TRUE, esrv[c] \notin Liar} :
          /\ WriteReturns(sending[c], p[1], p[2])
          /\ Valid(sending[c], p[1], p[2], good)
    /\ tasks' = [tasks EXCEPT ![stask[sending[c]]].status = "done"]
    /\ Die("down")
    /\ UNCHANGED fin

(* The process is stopped inside sendDone, between the renaming and the     *)
(* update of the row.                                                       *)
KillInSendDone(c) ==
    /\ proc = "up" /\ boots < MaxBoot
    /\ stage[c] = "open" /\ pending[c] # {}
    /\ sending[c] \in opened
    /\ \E p \in Packets(c), good \in {TRUE, esrv[c] \notin Liar} :
          /\ WriteReturns(sending[c], p[1], p[2])
          /\ Valid(sending[c], p[1], p[2], good)
          /\ Rename(sending[c], p[1], p[2], good)
    /\ Die("down")
    /\ UNCHANGED tasks

-------------------------------------------------------------------------------
(* Mutant of AskSources: addTask asks no server. *)
AskNobody(f) == UNCHANGED asked

(* down, after open: the sources of f are asked of every server that ever   *)
(* logged this process in.                                                  *)
AskSources(f) == ListSource(logined, {f})

(* addTask: the row is inserted, then the file opened and its sources asked *)
(* of every logged-in server (down), and the Sending given the new task     *)
(* last.  If the file cannot be opened the caller gets the exception and    *)
(* the row stays.                                                           *)
AddTask(f) ==
    /\ Up
    /\ Len(tasks) < MaxTask
    /\ InsertRow(f)
    /\ \/ /\ OpenFiles({f} \ singf)
          /\ singf' = singf \cup {f}
          /\ sended' = IF f \in singf THEN sended ELSE [sended EXCEPT ![f] = 0]
          /\ stask' = [stask EXCEPT ![f] = Len(tasks')]
          /\ AskSources(f)
       \/ /\ f \in BadDir \ singf
          /\ UNCHANGED <<openVars, singf, sended, stask, asked>>
    /\ UNCHANGED <<nextId, stage, esrv, due, pending, fin, bookVars,
                   sending, requested>>

(* The process is stopped inside addTask, after the row was inserted. *)
KillInAddTask(f) ==
    /\ proc = "up" /\ boots < MaxBoot
    /\ Len(tasks) < MaxTask
    /\ InsertRow(f)
    /\ Die("down")
    /\ UNCHANGED fin

-------------------------------------------------------------------------------
Handle(c) ==
    \/ Established(c) \/ OnFail(c)
    \/ OnServerList(c) \/ OnLogined(c)
    \/ \E f \in File : OnFoundSource(c, f)
    \/ OnAnswered(c) \/ OnUpAccepted(c) \/ OnSending(c)
    \/ KillInSendDone(c) \/ HelloThrows(c)

Next ==
    \/ Boot \/ Kill
    \/ \E c \in Cid : Handle(c)
    \/ \E f \in File : AddTask(f) \/ KillInAddTask(f)

Spec == Init /\ [][Next]_vars

(* The io_service runs every handler that is ready, a connection attempt    *)
(* ends, the process is started, and servers and peers answer what they     *)
(* were asked.                                                              *)
Fairness ==
    /\ WF_vars(Boot)
    /\ \A c \in Cid :
          /\ WF_vars(Established(c)) /\ WF_vars(OnLogined(c))
          /\ WF_vars(\E f \in File : OnFoundSource(c, f))
          /\ WF_vars(OnAnswered(c)) /\ WF_vars(OnUpAccepted(c))
          /\ WF_vars(OnSending(c))

FairSpec == Spec /\ Fairness

-------------------------------------------------------------------------------
(* A row says done only when the whole, right file is at its final path:    *)
(* whatever the peers sent, and wherever the process was stopped.           *)
DoneMeansWhole ==
    \A i \in DOMAIN tasks :
        tasks[i].status = "done" => fin[tasks[i].file] = "whole"

(* No behaviour takes a finished file back: not a second task for it, not   *)
(* a restart, not a packet that comes late.                                 *)
FinishedStays ==
    [][ \A f \in File : fin[f] = "whole" => fin'[f] = "whole" ]_vars

(* The tasks of the table as the user sees them: with any peers and servers, *)
(* and wherever the process is stopped, the downloader is a Download: what   *)
(* is at a final path is the right file, was asked for and stays, and a row  *)
(* says done only behind it and for good.                                    *)
Wanted == { tasks[i].file : i \in DOMAIN tasks }
Told == { tasks[i].file : i \in { j \in DOMAIN tasks : tasks[j].status = "done" } }

D == INSTANCE Download WITH wanted <- Wanted, told <- Told
IsDownload == D!Spec

(* A process dials a server at most once, whichever lists named it and      *)
(* whatever became of the connection: the login book keeping counts on it.  *)
OneLinkPerServer ==
    \A c, d \in Cid : esrv[c] = esrv[d] /\ esrv[c] \in Server => c = d

(* connected counts the live, logged-in connections of each server, though  *)
(* it is set, cleared and counted in different handlers.                    *)
ConnectedCounts ==
    \A s \in Server :
        connected[s] =
            Cardinality({ c \in logined : stage[c] = "open" /\ esrv[c] = s })

(* No server that is logged in misses a file being received, in whichever   *)
(* order the task and the login came: as long as the table is not longer    *)
(* than what OnLogined reads of it.                                         *)
SourcesAsked ==
    Len(tasks) <= ListLimit =>
        \A c \in logined, f \in opened :
            stage[c] = "open" => asked[c][f] # "no"

-------------------------------------------------------------------------------
(* A byte of a file is asked of one peer only, and never after it has been  *)
(* written: RequestBlocks, called from two handlers on behalf of any        *)
(* connection, hands each block out once.                                   *)
AskedOnce ==
    /\ \A c, d \in Cid :
          c # d /\ sending[c] = sending[d] => pending[c] \cap pending[d] = {}
    /\ \A c \in Cid :
          sending[c] # NoFile => pending[c] \cap written[sending[c]] = {}

(* Nothing is written to a file after sendDone closed it, though other      *)
(* peers keep their sending entries for it.                                 *)
NoWriteAfterClose == proc # "nullstream"

(* The range list claims exactly the bytes on disk, whichever peers brought *)
(* them in whichever interleaving.                                          *)
ClaimsExact == \A f \in opened : Bytes(fcparts[f]) = written[f]

(* The write that completes a right file finishes it: no interleaving of    *)
(* the peers leaves a complete file open because its ranges did not         *)
(* coalesce or its answer was lost.                                         *)
CompleteIsFinished ==
    \A f \in opened : ~(written[f] = Contents(f) /\ wrong[f] = {})

(* Every byte handed out is on disk or still owed by a live peer: what is   *)
(* asked for is forgotten only when a connection that was to bring the file *)
(* drops, for sended counts its blocks for good.                            *)
NothingForgotten ==
    \A f \in opened :
        (\A c \in Cid : sending[c] = f => stage[c] # "closed") =>
            \A k \in 1 .. sended[f] :
                BlockBytes(Blocks(f)[k]) \subseteq
                    written[f] \cup UNION { pending[c] : c \in
                        { d \in Cid : sending[d] = f /\ stage[d] = "open" } }

(* A task added is done in the end, with servers and peers that keep their  *)
(* connections and send what they are asked for.                            *)
TasksFinish ==
    \A i \in 1 .. MaxTask :
        i \in DOMAIN tasks ~> i \in DOMAIN tasks /\ tasks[i].status = "done"

-------------------------------------------------------------------------------
(* What the log line of OnLogined's catch says: a task that cannot be       *)
(* started at login is logged, and the client goes on.                      *)
LoginSurvives == proc # "nulltask"

(* What the test of Hash says: a hash takes a length, so that the hello of  *)
(* a peer is read.                                                          *)
HelloIsRead == proc # "badhash"

===============================================================================
