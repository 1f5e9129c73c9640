---------------------------- MODULE RelayProofs ----------------------------
(***************************************************************************)
(* Theorems about Relay for any number of connections, nodes and tids, a   *)
(* tid that comes around again among them.                                 *)
(***************************************************************************)
EXTENDS Relay, TLAPS

(* What the table of searches says for sure: each entry leads to one that   *)
(* asked something, and no tid has two of them.                             *)
Booked ==
    /\ DOMAIN stask \subseteq Task
    /\ \A t \in DOMAIN stask : \E q \in asked : q[1] = stask[t]
    /\ OneEntryPerTid

(* What comes before in the order of the table has the smaller tid. *)
LEMMA BeforeIsLower ==
    ASSUME NEW s \in Task, NEW t \in Task
    PROVE  Before(s, t) => s.tid < t.tid
<1>1. s.uid \in Nat
  BY RelayAssumption DEF Task
<1> QED BY <1>1 DEF Before, Cmp

(* So two tasks with one tid are not told apart, and nothing lies between.  *)
LEMMA OneTidIsOne ==
    ASSUME NEW s \in Task, NEW t \in Task, NEW r \in Task, s.tid = t.tid
    PROVE  Same(s, t) /\ ~Between(r, s, t)
<1>1. s.tid \in Nat /\ t.tid \in Nat /\ r.tid \in Nat
  BY RelayAssumption DEF Task
<1>2. ~Before(s, t) /\ ~Before(t, s)
  BY <1>1, BeforeIsLower
<1>3. ~(Before(s, r) /\ Before(r, t))
  BY <1>1, BeforeIsLower
<1> QED BY <1>2, <1>3 DEF Same, Between

(* The table after a question of connection c, filed under t. *)
LEMMA BookedAnew ==
    ASSUME Booked, NEW t \in Task, NEW c, NEW q, q[1] = c,
           stask' = WithAsker(t, c), asked' = asked \cup {q},
           t \in DOMAIN stask \/ \A s \in DOMAIN stask : s.tid # t.tid
    PROVE  Booked'
<1>1. /\ DOMAIN stask' = DOMAIN stask \cup {t}
      /\ stask'[t] = c
      /\ \A s \in DOMAIN stask \ {t} : stask'[s] = stask[s]
  BY DEF WithAsker
<1>2. DOMAIN stask' \subseteq Task
  BY <1>1 DEF Booked
<1>3. ASSUME NEW s \in DOMAIN stask' PROVE \E p \in asked' : p[1] = stask'[s]
  <2>1. CASE s = t
    BY <1>1, <2>1
  <2>2. CASE s # t
    <3>1. s \in DOMAIN stask /\ stask'[s] = stask[s]
      BY <1>1, <2>2
    <3>2. PICK p \in asked : p[1] = stask[s]
      BY <3>1 DEF Booked
    <3> QED BY <3>1, <3>2
  <2> QED BY <2>1, <2>2
<1>4. OneEntryPerTid'
  BY <1>1 DEF Booked, OneEntryPerTid
<1> QED BY <1>2, <1>3, <1>4 DEF Booked

LEMMA TookTask ==
    ASSUME NEW kind, NEW m \in About(kind)
    PROVE  Took(m) \in Task /\ m.kind = kind
<1>1. PICK t \in Asks : m = [kind |-> kind, uid |-> t.uid, tid |-> t.tid]
  BY DEF About
<1>2. t \in Task
  BY RelayAssumption
<1> QED BY <1>1, <1>2 DEF Took, Task

-------------------------------------------------------------------------------
LEMMA PassBooked ==
    ASSUME Booked, NEW c, NEW m, Took(m) \in Task,
           NEW answer, Pass(c, m, answer)
    PROVE  Booked'
<1>1. CASE s2c = {}
  BY <1>1 DEF Pass, Booked, OneEntryPerTid
<1>2. CASE s2c # {}
  <2> DEFINE t == Took(m)
             q == <<c, t>>
  <2>1. PICK s \in Entries(t) \cup (IF PassedBy(t) THEN {t} ELSE {}) :
            stask' = WithAsker(s, c)
    BY <1>2 DEF Pass
  <2>2. asked' = asked \cup {q} /\ q[1] = c
    BY <1>2 DEF Pass
  <2>3. CASE s \in Entries(t)
    <3>1. s \in DOMAIN stask /\ s \in Task
      BY <2>3 DEF Entries, Booked
    <3> QED BY <2>1, <2>2, <3>1, BookedAnew
  <2>4. CASE s = t /\ PassedBy(t)
    <3>1. ASSUME NEW e \in DOMAIN stask, e.tid = t.tid PROVE FALSE
      <4>1. e \in Task
        BY DEF Booked
      <4>2. e \in Entries(t)
        BY <3>1, <4>1, OneTidIsOne DEF Entries
      <4>3. PICK r \in DOMAIN stask : Between(r, e, t) \/ Between(r, t, e)
        BY <2>4, <4>2 DEF PassedBy
      <4>4. r \in Task
        BY DEF Booked
      <4> QED BY <3>1, <4>1, <4>3, <4>4, OneTidIsOne
    <3> QED BY <2>1, <2>2, <2>4, <3>1, BookedAnew
  <2> QED BY <2>1, <2>3, <2>4
<1> QED BY <1>1, <1>2

LEMMA NextBooked ==
    ASSUME Booked, [Next]_vars
    PROVE  Booked'
<1>1. ASSUME UNCHANGED <<stask, asked>> PROVE Booked'
  BY <1>1 DEF Booked, OneEntryPerTid
<1>2. ASSUME NEW c \in Conn,
             \/ Connect(c) \/ Conto(c) \/ Accept(c) \/ OnClose(c)
             \/ \E ec \in BOOLEAN : OnConn(c, ec)
             \/ \E kind \in {"SEARCH", "SSRC"} : Search(c, kind)
             \/ Hole(c)
             \/ \E kind \in {"LOGIN", "FILE_STATUS", "FILE_PART"} : Tell(c, kind)
      PROVE  Booked'
  BY <1>1, <1>2 DEF Connect, Conto, Accept, OnClose, OnConn, Search, Hole, Tell, Calls, Quiet, books
<1>3. ASSUME NEW c \in Conn, OnCmd(c) PROVE Booked'
  <2>1. ASSUME NEW m \in About("SEARCH"), OnSearch(c, m) PROVE Booked'
    BY <1>1, <2>1, PassBooked, TookTask DEF OnSearch, Hangs, books
  <2>2. ASSUME NEW m \in About("SSRC"), OnSearchSource(c, m) PROVE Booked'
    BY <2>2, PassBooked, TookTask DEF OnSearchSource
  <2>3. ASSUME NEW m, OnSearchBack(c, m) \/ OnFoundSource(c, m) PROVE Booked'
    BY <1>1, <2>3 DEF OnSearchBack, OnFoundSource, Drops, Hangs, RelayAnswer, books
  <2>4. ASSUME NEW m, OnLogin(c, m) \/ OnFileStatus(c, m) \/ OnTold(c, m) PROVE Booked'
    BY <1>1, <2>4 DEF OnLogin, OnFileStatus, OnTold, books
  <2> QED BY <1>3, <2>1, <2>2, <2>3, <2>4 DEF OnCmd
<1>4. CASE UNCHANGED vars
  BY <1>1, <1>4 DEF vars, books
<1> QED BY <1>2, <1>3, <1>4 DEF Next

LEMMA InitBooked == Init => Booked
BY DEF Init, Booked, OneEntryPerTid

(* Booked holds of every behaviour. *)
THEOREM BookedInvariance == Spec => []Booked
<1>1. Booked /\ [Next]_vars => Booked'
  BY NextBooked
<1> QED BY <1>1, InitBooked, PTL DEF Spec

-------------------------------------------------------------------------------
(* Only OnFoundSource handles an answer with sources, and only the two      *)
(* searches pass a question on.                                             *)
LEMMA WhoHandles ==
    ASSUME Next
    PROVE  /\ came'.m.kind = "FSRC" =>
                \E c \in Conn : \E m \in About("FSRC") : OnFoundSource(c, m)
           /\ came'.m.kind \in {"SEARCH", "SSRC"} =>
                \/ \E c \in Conn : \E m \in About("SEARCH") : OnSearch(c, m)
                \/ \E c \in Conn : \E m \in About("SSRC") : OnSearchSource(c, m)
<1>1. ASSUME NEW c \in Conn,
             \/ Connect(c) \/ Conto(c) \/ Accept(c) \/ OnClose(c)
             \/ \E ec \in BOOLEAN : OnConn(c, ec)
             \/ \E kind \in {"SEARCH", "SSRC"} : Search(c, kind)
             \/ Hole(c)
             \/ \E kind \in {"LOGIN", "FILE_STATUS", "FILE_PART"} : Tell(c, kind)
      PROVE  came'.m.kind = "none"
  <2>1. came' = Nothing
    BY <1>1 DEF Connect, Conto, Accept, OnClose, OnConn, Search, Hole, Tell, Calls, Quiet
  <2> QED BY <2>1 DEF Nothing
<1>2. ASSUME NEW c \in Conn, OnCmd(c)
      PROVE  \/ \E m \in About("FSRC") : OnFoundSource(c, m) /\ came'.m.kind = "FSRC"
             \/ \E m \in About("SEARCH") : OnSearch(c, m) /\ came'.m.kind = "SEARCH"
             \/ \E m \in About("SSRC") : OnSearchSource(c, m) /\ came'.m.kind = "SSRC"
             \/ came'.m.kind \notin {"FSRC", "SEARCH", "SSRC"}
  <2>1. ASSUME NEW kind, NEW m \in About(kind), Handles(c, m) PROVE came'.m.kind = kind
    BY <2>1, TookTask DEF Handles
  <2>2. ASSUME NEW m \in About("SEARCH"), OnSearch(c, m) PROVE came'.m.kind = "SEARCH"
    BY <2>1, <2>2 DEF OnSearch
  <2>3. ASSUME NEW m \in About("SSRC"), OnSearchSource(c, m) PROVE came'.m.kind = "SSRC"
    BY <2>1, <2>3 DEF OnSearchSource
  <2>4. ASSUME NEW m \in About("FSRC"), OnFoundSource(c, m) PROVE came'.m.kind = "FSRC"
    BY <2>1, <2>4 DEF OnFoundSource
  <2>5. ASSUME NEW m \in About("SEARCH_BACK"), OnSearchBack(c, m)
        PROVE  came'.m.kind = "SEARCH_BACK"
    BY <2>1, <2>5 DEF OnSearchBack
  <2>6. ASSUME NEW addressed, NEW flags,
               OnLogin(c, [kind |-> "LOGIN", addressed |-> addressed, flags |-> flags])
        PROVE  came'.m.kind = "LOGIN"
    BY <2>6 DEF OnLogin, Handles
  <2>7. ASSUME OnFileStatus(c, [kind |-> "FILE_STATUS"]) PROVE came'.m.kind = "FILE_STATUS"
    BY <2>7 DEF OnFileStatus, Handles
  <2>8. ASSUME NEW kind \in Told, OnTold(c, [kind |-> kind]) PROVE came'.m.kind = kind
    BY <2>8 DEF OnTold, Handles
  <2> QED BY <1>2, <2>2, <2>3, <2>4, <2>5, <2>6, <2>7, <2>8 DEF OnCmd, Told
<1> QED BY <1>1, <1>2 DEF Next

(* Two nodes that ask with one tid share an entry, at any time and in any   *)
(* order.                                                                   *)
THEOREM TidsHaveOneEntry == Spec => []OneEntryPerTid
<1>1. Booked => OneEntryPerTid
  BY DEF Booked
<1> QED BY <1>1, BookedInvariance, PTL

(* No answer to another node's question is passed on, and one that names    *)
(* this node is passed to a connection that asked something.                *)
THEOREM OnlyOwnPassedOn == Spec => AnswersPassedOn
<1> DEFINE A == came'.m.kind = "FSRC" =>
                  \A w \in sent' : came'.m.uid = Me /\ \E q \in asked : q[1] = w.to
<1>1. ASSUME Booked, [Next]_vars PROVE A \/ UNCHANGED vars
  <2> SUFFICES ASSUME Next, came'.m.kind = "FSRC", NEW w \in sent'
               PROVE  came'.m.uid = Me /\ \E q \in asked : q[1] = w.to
    BY <1>1
  <2>1. PICK c \in Conn : \E m \in About("FSRC") : OnFoundSource(c, m)
    BY WhoHandles
  <2>2. PICK m \in About("FSRC") : OnFoundSource(c, m)
    BY <2>1
  <2>3. came'.m = m
    BY <2>2 DEF OnFoundSource, Handles
  <2>4. ~Drops(m)
    BY DEF Drops
  <2>5. Cmp(m.uid, Me) /\ RelayAnswer(c, m)
    BY <2>2, <2>4 DEF OnFoundSource
  <2>6. PICK s \in Entries(Took(m)) : sent' = Write(stask[s], m)
    BY <2>5 DEF RelayAnswer
  <2>7. s \in DOMAIN stask
    BY <2>6 DEF Entries
  <2>8. w.to = stask[s]
    BY <2>6 DEF Write
  <2> QED BY <1>1, <2>3, <2>5, <2>7, <2>8 DEF Booked, Cmp
<1>2. Booked /\ [Next]_vars => [A]_vars
  BY <1>1
<1> QED BY <1>2, BookedInvariance, PTL DEF Spec, AnswersPassedOn

(* A question reaches every client in front of the first that has closed.   *)
THEOREM ClientsAreAsked == Spec => QuestionsReachClients
<1> DEFINE A == came'.m.kind \in {"SEARCH", "SSRC"} /\ ~hung' =>
                  \A c \in s2c : (\A d \in s2c : d <= c => life[d] = "open") =>
                      [to |-> c, m |-> came'.m] \in sent'
<1>1. ASSUME [Next]_vars PROVE A \/ UNCHANGED vars
  <2> SUFFICES ASSUME Next, came'.m.kind \in {"SEARCH", "SSRC"}, ~hung', NEW c \in s2c,
                      \A d \in s2c : d <= c => life[d] = "open"
               PROVE  [to |-> c, m |-> came'.m] \in sent'
    BY <1>1
  <2>1. \E d \in Conn : \E m : \E answer : Pass(d, m, answer) /\ came'.m = m
    <3>1. ASSUME NEW d \in Conn, NEW m, OnSearch(d, m)
          PROVE  Pass(d, m, {}) /\ came'.m = m
      BY <3>1 DEF OnSearch, Hangs, Handles
    <3>2. ASSUME NEW d \in Conn, NEW m, OnSearchSource(d, m)
          PROVE  came'.m = m /\ \E answer : Pass(d, m, answer)
      BY <3>2 DEF OnSearchSource, Handles
    <3> QED BY <3>1, <3>2, WhoHandles
  <2>2. PICK d \in Conn : \E m : \E answer : Pass(d, m, answer) /\ came'.m = m
    BY <2>1
  <2>3. PICK m, answer : Pass(d, m, answer) /\ came'.m = m
    BY <2>2
  <2>4. sent' = answer \cup { [to |-> e, m |-> m] : e \in Reached(d) }
    BY <2>3 DEF Pass
  <2>5. c \in Reached(d)
    BY DEF Reached
  <2> QED BY <2>3, <2>4, <2>5
<1>2. [Next]_vars => [A]_vars
  BY <1>1
<1> QED BY <1>2, PTL DEF Spec, QuestionsReachClients

-------------------------------------------------------------------------------
(* The books hold connections of the node. *)
Inside == TypeOK /\ tcs \cup ucs \cup s2c \subseteq Conn

LEMMA InitInside == Init => Inside
BY RelayAssumption DEF Init, Inside, TypeOK, Range

(* The table after a question of a connection, whatever it was filed under. *)
LEMMA BooksTyped ==
    ASSUME DOMAIN stask \subseteq Task, Range(stask) \subseteq Conn,
           NEW c \in Conn, NEW m, Took(m) \in Task, NEW answer, Pass(c, m, answer),
           \A p \in asked : p[1] \in Conn /\ p[2] \in Task
    PROVE  /\ DOMAIN stask' \subseteq Task /\ Range(stask') \subseteq Conn
           /\ \A p \in asked' : p[1] \in Conn /\ p[2] \in Task
<1>1. CASE s2c = {}
  BY <1>1 DEF Pass
<1>2. CASE s2c # {}
  <2>1. PICK s \in Entries(Took(m)) \cup (IF PassedBy(Took(m)) THEN {Took(m)} ELSE {}) :
            stask' = WithAsker(s, c)
    BY <1>2 DEF Pass
  <2>2. s \in Task
    BY <2>1 DEF Entries
  <2>3. DOMAIN stask' \subseteq Task /\ Range(stask') \subseteq Conn
    BY <2>1, <2>2 DEF WithAsker, Range
  <2>4. asked' = asked \cup {<<c, Took(m)>>}
    BY <1>2 DEF Pass
  <2> QED BY <2>3, <2>4
<1> QED BY <1>1, <1>2

(* A message leaves the connections alone, but for a client that logs in.   *)
LEMMA CmdInside ==
    ASSUME Inside, NEW c \in Conn, OnCmd(c)
    PROVE  Inside'
<1>1. ASSUME life[c] = "open", UNCHANGED <<life, tcs, ucs, taskc, holing>>,
             s2c' \in {s2c, s2c \cup {c}},
             /\ DOMAIN stask' \subseteq Task /\ Range(stask') \subseteq Conn
             /\ \A p \in asked' : p[1] \in Conn /\ p[2] \in Task
      PROVE  Inside'
  BY <1>1 DEF Inside, TypeOK
<1>2. ASSUME life[c] = "open", UNCHANGED <<life, tcs, ucs, books, asked>> PROVE Inside'
  BY <1>2 DEF Inside, TypeOK, books
<1>3. ASSUME NEW m, Took(m) \in Task, NEW answer, Pass(c, m, answer),
             life[c] = "open", UNCHANGED <<life, tcs, ucs>>
      PROVE  Inside'
  <2>1. /\ DOMAIN stask' \subseteq Task /\ Range(stask') \subseteq Conn
        /\ \A p \in asked' : p[1] \in Conn /\ p[2] \in Task
    BY <1>3, BooksTyped DEF Inside, TypeOK
  <2> QED BY <1>1, <1>3, <2>1 DEF Pass
<1>4. ASSUME NEW m \in About("SEARCH"), OnSearch(c, m) PROVE Inside'
  BY <1>2, <1>3, <1>4, TookTask DEF OnSearch, Handles, Hangs
<1>5. ASSUME NEW m \in About("SSRC"), OnSearchSource(c, m) PROVE Inside'
  BY <1>3, <1>5, TookTask DEF OnSearchSource, Handles
<1>6. ASSUME NEW m, OnSearchBack(c, m) \/ OnFoundSource(c, m) PROVE Inside'
  BY <1>2, <1>6 DEF OnSearchBack, OnFoundSource, Handles, Drops, Hangs, RelayAnswer
<1>7. ASSUME NEW m, OnLogin(c, m) PROVE Inside'
  BY <1>1, <1>7 DEF OnLogin, Handles, Inside, TypeOK
<1>8. ASSUME NEW m, OnFileStatus(c, m) \/ OnTold(c, m) PROVE Inside'
  BY <1>2, <1>8 DEF OnFileStatus, OnTold, Handles
<1> QED BY <1>4, <1>5, <1>6, <1>7, <1>8 DEF OnCmd

(* The program's own calls, and the connections that come and go. *)
LEMMA CallInside ==
    ASSUME Inside, NEW c \in Conn,
           \/ Connect(c) \/ Conto(c) \/ Accept(c) \/ OnClose(c)
           \/ \E ec \in BOOLEAN : OnConn(c, ec)
           \/ \E kind \in {"SEARCH", "SSRC"} : Search(c, kind)
           \/ Hole(c)
           \/ \E kind \in {"LOGIN", "FILE_STATUS", "FILE_PART"} : Tell(c, kind)
    PROVE  Inside'
<1>1. (taskc + 1) % Wrap \in 0 .. Wrap - 1
  <2>1. \A t \in Int : t % Wrap \in 0 .. Wrap - 1
    BY RelayAssumption
  <2>2. taskc + 1 \in Int
    BY RelayAssumption DEF Inside, TypeOK
  <2> QED BY <2>1, <2>2
<1>2. CASE Connect(c)
  BY <1>2 DEF Connect, Fresh, Quiet, books, Inside, TypeOK
<1>3. CASE Conto(c)
  BY <1>3 DEF Conto, Fresh, Quiet, books, Inside, TypeOK
<1>4. CASE Accept(c)
  BY <1>4 DEF Accept, Fresh, Quiet, books, Inside, TypeOK
<1>5. CASE OnClose(c)
  BY <1>5 DEF OnClose, Quiet, books, Inside, TypeOK
<1>6. ASSUME NEW ec \in BOOLEAN, OnConn(c, ec) PROVE Inside'
  BY <1>6 DEF OnConn, Quiet, books, Inside, TypeOK
<1>7. ASSUME NEW kind, Search(c, kind) PROVE Inside'
  BY <1>1, <1>7 DEF Search, Calls, Quiet, Inside, TypeOK
<1>8. CASE Hole(c)
  BY <1>1, <1>8 DEF Hole, Calls, Quiet, Inside, TypeOK
<1>9. ASSUME NEW kind, Tell(c, kind) PROVE Inside'
  BY <1>9 DEF Tell, Calls, Quiet, Inside, TypeOK
<1> QED BY <1>2, <1>3, <1>4, <1>5, <1>6, <1>7, <1>8, <1>9

(* Every variable of the relay keeps its type: a connection the node dialled *)
(* leaves the book when it closes, and no datagram's end gets into it.       *)
THEOREM RelayTyped == Spec => []TypeOK
<1>1. Inside /\ [Next]_vars => Inside'
  <2>1. ASSUME Inside, UNCHANGED vars PROVE Inside'
    BY <2>1 DEF Inside, TypeOK, vars, books
  <2> QED BY <2>1, CmdInside, CallInside DEF Next
<1>2. Inside => TypeOK
  BY DEF Inside
<1> QED BY <1>1, <1>2, InitInside, PTL DEF Spec
============================================================================
