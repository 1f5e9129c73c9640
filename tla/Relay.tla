-------------------------------- MODULE Relay --------------------------------
(***************************************************************************)
(* KADX_ of src/kadx/kadx.cpp: one node that passes the questions of       *)
(* others on to its clients and their answers back.  The other nodes are   *)
(* whatever else may be at the end of a connection: they send any message  *)
(* at any time.  Every step is a call on the io_service thread, and every  *)
(* message is one a parse accepts; what the bytes are is in KadxMessages.  *)
(*                                                                         *)
(* Of the books of the node only s2c is read: logined, s2s and c2s are     *)
(* filled and never looked at.  What the program above the node, the       *)
(* handler H, answers is free.  No program of the repository has one yet.  *)
(***************************************************************************)
EXTENDS Integers, FiniteSets, SequencesExt

CONSTANTS
    MaxConn,         (* bound: connections, numbered as they are made       *)
    Uid, Me,         (* the nodes, and this one                             *)
    Wrap,            (* tids there are: 65536                               *)
    Asks,            (* bound: the tasks questions from outside are about   *)
    MaxAsked         (* bound: questions passed on                          *)

Conn == 1 .. MaxConn
Task == [uid : Uid, tid : 0 .. Wrap - 1]

ASSUME RelayAssumption ==
    /\ MaxConn \in Nat /\ MaxAsked \in Nat /\ Wrap \in Nat \ {0}
    /\ Uid \subseteq Nat /\ Me \in Uid /\ Asks \subseteq Task

VARIABLES
    life,    (* per connection: none, dialling, open, closed                *)
    tcs,     (* the connections the node dialled, erased when they close    *)
    ucs,     (* the ends of datagrams the node has written                  *)
    s2c,     (* the connections of its clients, erased never                *)
    stask,   (* who asked what: tasks and connections, erased never         *)
    taskc,   (* the tid of the next question of its own                     *)
    holing,  (* the holes it has asked for                                  *)
    hung,    (* a call has not come back                                    *)
    came,    (* the message the last step handled                           *)
    sent,    (* what the last step wrote, and on which connections          *)
    asked    (* who had which questions passed on                           *)

books == <<s2c, stask, taskc, holing>>
vars == <<life, tcs, ucs, books, hung, came, sent, asked>>

Nothing == [from |-> 0, m |-> [kind |-> "none"]]

TypeOK ==
    /\ life \in [Conn -> {"none", "dialling", "open", "closed"}]
    /\ \A c \in tcs : life[c] \in {"dialling", "open"}
    /\ \A c \in ucs \cup s2c : life[c] # "none" /\ (c \in ucs => c \notin tcs)
    /\ DOMAIN stask \subseteq Task /\ Range(stask) \subseteq Conn
    /\ taskc \in 0 .. Wrap - 1 /\ holing \subseteq 0 .. Wrap - 1
    /\ \A p \in asked : p[1] \in Conn /\ p[2] \in Task

Init ==
    /\ life = [c \in Conn |-> "none"] /\ tcs = {} /\ ucs = {}
    /\ s2c = {} /\ stask = << >> /\ taskc = 1 % Wrap /\ holing = {}
    /\ hung = FALSE /\ came = Nothing /\ sent = {} /\ asked = {}

-------------------------------------------------------------------------------
(* KADX_::write: on a connection that was dialled, or as a datagram.        *)
Write(c, m) ==
    IF c \in tcs \cup ucs /\ life[c] = "open" THEN {[to |-> c, m |-> m]} ELSE {}

(* A number no connection has had. *)
Fresh(c) == life[c] = "none" /\ \A d \in Conn : d < c => life[d] # "none"

Quiet == came' = Nothing /\ UNCHANGED <<hung, asked>>

(* KADX_::connect; conto, whose end is there at once; and a connection that *)
(* comes to listen, which is in no book until it logs in.                   *)
Connect(c) ==
    /\ Fresh(c) /\ life' = [life EXCEPT ![c] = "dialling"] /\ tcs' = tcs \cup {c}
    /\ sent' = {} /\ Quiet /\ UNCHANGED <<ucs, books>>

Conto(c) ==
    /\ Fresh(c) /\ life' = [life EXCEPT ![c] = "open"] /\ ucs' = ucs \cup {c}
    /\ sent' = {[to |-> c, m |-> [kind |-> "data"]]} /\ Quiet /\ UNCHANGED <<tcs, books>>

Accept(c) ==
    /\ Fresh(c) /\ life' = [life EXCEPT ![c] = "open"]
    /\ sent' = {} /\ Quiet /\ UNCHANGED <<tcs, ucs, books>>

OnConn(c, ec) ==
    /\ life[c] = "dialling"
    /\ life' = [life EXCEPT ![c] = IF ec THEN "closed" ELSE "open"]
    /\ tcs' = IF ec THEN tcs \ {c} ELSE tcs
    /\ sent' = {} /\ Quiet /\ UNCHANGED <<ucs, books>>

(* Mutant of OnClose: the closed connection stays in the book.              *)
OnCloseKept(c) ==
    /\ life[c] = "open" /\ c \notin ucs
    /\ life' = [life EXCEPT ![c] = "closed"]
    /\ sent' = {} /\ Quiet /\ UNCHANGED <<tcs, ucs, books>>

(* Either end closes it; close and release do no more than this.            *)
OnClose(c) ==
    /\ life[c] = "open" /\ c \notin ucs
    /\ life' = [life EXCEPT ![c] = "closed"] /\ tcs' = tcs \ {c}
    /\ sent' = {} /\ Quiet /\ UNCHANGED <<ucs, books>>

-------------------------------------------------------------------------------
(* The calls of the program above: search and ssrc, hole, and those that    *)
(* only write, login, rfilestatus and rfilepart.                            *)
Calls(c, m) == sent' = Write(c, m) /\ Quiet /\ UNCHANGED <<life, tcs, ucs, s2c, stask>>

Search(c, kind) ==
    /\ Calls(c, [kind |-> kind, uid |-> Me, tid |-> taskc])
    /\ taskc' = (taskc + 1) % Wrap /\ UNCHANGED holing

Hole(c) ==
    /\ Calls(c, [kind |-> "HOLE", flags |-> taskc])
    /\ holing' = holing \cup {taskc} /\ taskc' = (taskc + 1) % Wrap

Tell(c, kind) == Calls(c, [kind |-> kind]) /\ UNCHANGED <<taskc, holing>>

-------------------------------------------------------------------------------
(* Data::cmp of the library: true of equals, as valid of fs.cpp and the rest *)
(* of the program take it.  kadx.cpp compares its answer with zero, so what  *)
(* is written there for the node's own uid is done for every other.          *)
Cmp(u, v) == u = v

(* Mutant of Before: entries of one tid stand on both sides of each other.   *)
BeforeOrAt(s, t) == IF Cmp(s.uid, t.uid) THEN s.uid < t.uid ELSE s.tid <= t.tid

(* TaskComparer, the order of stask: by the tids of two nodes, and not at    *)
(* all between two tasks of one.                                             *)
Before(s, t) == IF Cmp(s.uid, t.uid) THEN s.uid < t.uid ELSE s.tid < t.tid

Same(s, t) == ~Before(s, t) /\ ~Before(t, s)
Between(r, s, t) == Before(s, r) /\ Before(r, t)

(* The entries of stask that find or [] may come upon.  To be neither before *)
(* nor after is no equivalence here.  The tree is sorted by tid, so a walk   *)
(* through it passes by such an entry only if another lies between.          *)
Entries(t) == { s \in DOMAIN stask : Same(s, t) }
PassedBy(t) ==
    \A s \in Entries(t) : \E r \in DOMAIN stask : Between(r, s, t) \/ Between(r, t, s)

Took(m) == [uid |-> m.uid, tid |-> m.tid]

Handles(c, m) ==
    /\ life[c] = "open" /\ came' = [from |-> c, m |-> m]
    /\ UNCHANGED <<life, tcs, ucs>>

(* Its own login is the answer to a login.  A node without an address is a  *)
(* client.  One that brings the flags of a hole is asked for the file.      *)
OnLogin(c, m) ==
    /\ Handles(c, m)
    /\ s2c' = IF m.addressed THEN s2c ELSE s2c \cup {c}
    /\ sent' = {[to |-> c, m |-> [kind |-> "LOGIN"]]} \cup
                 (IF m.flags # 0 /\ m.flags \in holing
                    THEN Write(c, [kind |-> "FILE_STATUS"]) ELSE {})
    /\ UNCHANGED <<stask, taskc, holing, hung, asked>>

(* Mutant of Reached: the loop ends at the one that asked.                  *)
ReachedBelow(c) ==
    { d \in s2c : d < c /\ \A e \in s2c : e <= d => life[e] = "open" }

(* Whom the loop over s2c writes to, the one that asked among them: it ends *)
(* at the first connection that is closed.                                  *)
Reached(c) == { d \in s2c : \A e \in s2c : e <= d => life[e] = "open" }

(* The table once the question s is that of connection c. *)
WithAsker(s, c) == [t \in DOMAIN stask \cup {s} |-> IF t = s THEN c ELSE stask[t]]

(* A question is passed to the clients, if there are any.                   *)
Pass(c, m, answer) ==
    /\ IF s2c = {} THEN sent' = answer /\ UNCHANGED <<stask, asked>>
       ELSE /\ \E s \in Entries(Took(m)) \cup (IF PassedBy(Took(m)) THEN {Took(m)} ELSE {}) :
                  stask' = WithAsker(s, c)
            /\ sent' = answer \cup { [to |-> d, m |-> m] : d \in Reached(c) }
            /\ asked' = asked \cup {<<c, Took(m)>>} /\ Cardinality(asked') <= MaxAsked
    /\ UNCHANGED <<s2c, taskc, holing, hung>>

(* SearchBack_::encode has a loop without an end.                           *)
Hangs == hung' = TRUE /\ sent' = {} /\ UNCHANGED <<books, asked>>

OnSearch(c, m) ==
    /\ Handles(c, m)
    /\ \/ Pass(c, m, {})
       \/ Hangs

(* A node that has the file answers with its address, and still asks on.    *)
OnSearchSource(c, m) ==
    /\ Handles(c, m)
    /\ \E mine \in BOOLEAN :
          Pass(c, m, IF mine THEN {[to |-> c, m |-> [m EXCEPT !.kind = "FSRC"]]} ELSE {})

RelayAnswer(c, m) ==
    \E s \in Entries(Took(m)) :
       sent' = Write(stask[s], m) /\ UNCHANGED <<books, hung, asked>>

(* uid->cmp(..) == 0, an answer for the handler; and one that finds no entry *)
(* in the table, which is dropped.                                           *)
Drops(m) ==
    /\ ~Cmp(m.uid, Me) \/ PassedBy(Took(m))
    /\ sent' = {} /\ UNCHANGED <<books, hung, asked>>

(* Mutant of OnFoundSource: the uid is not looked at. *)
OnFoundSourceOfAny(c, m) ==
    /\ Handles(c, m)
    /\ \/ Drops(m)
       \/ RelayAnswer(c, m)

OnFoundSource(c, m) ==
    /\ Handles(c, m)
    /\ \/ Drops(m)
       \/ Cmp(m.uid, Me) /\ RelayAnswer(c, m)

OnSearchBack(c, m) ==
    /\ Handles(c, m)
    /\ \/ Drops(m)
       \/ Cmp(m.uid, Me) /\ Entries(Took(m)) # {} /\ Hangs

(* The answer to a question about a file is the question.                   *)
OnFileStatus(c, m) ==
    /\ Handles(c, m) /\ sent' = Write(c, m) /\ UNCHANGED <<books, hung, asked>>

(* What goes into books nobody reads, or to the handler alone.              *)
Told == {"LOGIN_BACK", "FILE_STATUS_BACK", "FILE_PART", "FILE_PROC"}
OnTold(c, m) == Handles(c, m) /\ sent' = {} /\ UNCHANGED <<books, hung, asked>>

-------------------------------------------------------------------------------
About(kind) == { [kind |-> kind, uid |-> t.uid, tid |-> t.tid] : t \in Asks }

OnCmd(c) ==
    \/ \E addressed \in BOOLEAN, flags \in {0} \cup holing :
          OnLogin(c, [kind |-> "LOGIN", addressed |-> addressed, flags |-> flags])
    \/ \E m \in About("SEARCH") : OnSearch(c, m)
    \/ \E m \in About("SSRC") : OnSearchSource(c, m)
    \/ \E m \in About("SEARCH_BACK") : OnSearchBack(c, m)
    \/ \E m \in About("FSRC") : OnFoundSource(c, m)
    \/ OnFileStatus(c, [kind |-> "FILE_STATUS"])
    \/ \E kind \in Told : OnTold(c, [kind |-> kind])

Next ==
    /\ ~hung
    /\ \E c \in Conn :
         \/ Connect(c) \/ Conto(c) \/ Accept(c) \/ OnClose(c)
         \/ \E ec \in BOOLEAN : OnConn(c, ec)
         \/ \E kind \in {"SEARCH", "SSRC"} : Search(c, kind)
         \/ Hole(c)
         \/ \E kind \in {"LOGIN", "FILE_STATUS", "FILE_PART"} : Tell(c, kind)
         \/ OnCmd(c)

Spec == Init /\ [][Next]_vars

-------------------------------------------------------------------------------
(* What becomes of an answer with sources.  One that names another node,    *)
(* whose question was passed on, goes no further than the handler here: no   *)
(* node is answered through a relay.  One that names this node is passed on, *)
(* to a connection that did ask something, whatever it asked.                *)
AnswersPassedOn ==
    [][ came'.m.kind = "FSRC" =>
          \A w \in sent' : came'.m.uid = Me /\ \E q \in asked : q[1] = w.to ]_vars

(* The table has one entry for a tid, whichever nodes ask with it and in     *)
(* which order: the second that asks takes the entry of the first over.  So  *)
(* a table that nothing is erased from ends at as many entries as tids.      *)
OneEntryPerTid == \A s, t \in DOMAIN stask : s.tid = t.tid => s = t

(* A question reaches every client with an open connection, unless one that *)
(* connected before it has closed; it reaches the one that asked, too.      *)
QuestionsReachClients ==
    [][ came'.m.kind \in {"SEARCH", "SSRC"} /\ ~hung' =>
          \A c \in s2c : (\A d \in s2c : d <= c => life[d] = "open") =>
              [to |-> c, m |-> came'.m] \in sent' ]_vars
=============================================================================
