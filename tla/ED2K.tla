--------------------------------- MODULE ED2K ---------------------------------
(***************************************************************************)
(* The connection layer of src/ed2k/ed2k.cpp (class ED2K_): the table of   *)
(* connections this process has dialled, to servers (ed2k_c2s) and to      *)
(* peers (ed2k_c2c), and what the other ends owe it.  One asio io_service  *)
(* thread runs every handler, so a handler is one step.                    *)
(*                                                                         *)
(* Connection ids are the ones the network library counts up; which of the *)
(* two kinds a connection is follows from the address it was dialled to.   *)
(* What a remote end still owes (due, asked, pending) belongs to the       *)
(* environment: it is what the messages written to it make it send.        *)
(***************************************************************************)
EXTENDS EmuleX, Functions

CONSTANTS
    Flaky,    (* addresses that may refuse a connection or drop one *)
    LengthSets, (* hash.set(16) makes a hash of that length.  As Hash is    *)
                (* declared it does not: an int picks the overload that     *)
                (* takes a HashType, which throws for a length.             *)
    MaxConn   (* bound: connections one process dials               *)

ASSUME ED2KAssumption ==
    Flaky \subseteq Address /\ LengthSets \in BOOLEAN /\ MaxConn \in Nat

Cid == 1 .. MaxConn

VARIABLES
    nextId,   (* the id the next connection gets                            *)
    stage,    (* per id: none, connecting, open, closed                     *)
    esrv,     (* per id: the address it was dialled to (esrv[id].addr)      *)
    due,      (* per id: control messages the other end owes                *)
    asked,    (* per server connection and file: what became of GetSource   *)
    pending   (* per peer connection: bytes requested and not yet delivered *)

netVars == <<nextId, stage, esrv, due, asked, pending>>

(* tcs, the table of connections that write and close look ids up in.       *)
tcs == { c \in Cid : stage[c] \in {"connecting", "open"} }

Messages == {"idchange", "serverlist", "helloanswer", "accept"}

NetTypeOK ==
    /\ nextId \in 1 .. MaxConn + 1
    /\ stage \in [Cid -> {"none", "connecting", "open", "closed"}]
    /\ esrv \in [Cid -> Address \cup {NoAddr}]
    /\ due \in [Cid -> SUBSET Messages]
    /\ asked \in [Cid -> [File -> {"no", "asked", "answered"}]]
    /\ pending \in [Cid -> SUBSET Nat]

(* No connection dialled yet, nothing owed.                                 *)
NoStage == [c \in Cid |-> "none"]
NoEsrv == [c \in Cid |-> NoAddr]
NoDue == [c \in Cid |-> {}]
NoAsked == [c \in Cid |-> [f \in File |-> "no"]]
NoPending == [c \in Cid |-> {}]

-------------------------------------------------------------------------------
(* The ways the ids from base on go to the addresses S, in the order of the *)
(* list that named them.                                                    *)
Dials(base, S) ==
    UNION { Bijection(base .. last, S) : last \in base - 1 .. MaxConn }

(* connect, for every address of who; for those in down the socket cannot   *)
(* be opened, and the id stays out of tcs and esrv.  st and ad are the      *)
(* table before.                                                            *)
Connect(base, st, ad, who, down) ==
    /\ nextId' = base + Cardinality(DOMAIN who)
    /\ stage' = [c \in Cid |->
                   IF c \notin DOMAIN who THEN st[c]
                   ELSE IF who[c] \in down THEN "closed" ELSE "connecting"]
    /\ esrv' = [c \in Cid |->
                   IF c \notin DOMAIN who THEN ad[c]
                   ELSE IF who[c] \in down THEN NoAddr ELSE who[c]]

(* OnConn without an error: login to a server, hello to a peer.             *)
OnConn(c) ==
    /\ stage[c] = "connecting"
    /\ stage' = [stage EXCEPT ![c] = "open"]
    /\ due' = [due EXCEPT ![c] =
                 @ \cup {IF esrv[c] \in Server THEN "idchange" ELSE "helloanswer"}]
    /\ UNCHANGED <<nextId, esrv, asked, pending>>

(* OnConn with an error: the id leaves tcs; the event handler H is not told. *)
OnConnFailed(c) ==
    /\ stage[c] = "connecting" /\ esrv[c] \in Flaky
    /\ stage' = [stage EXCEPT ![c] = "closed"]
    /\ UNCHANGED <<nextId, esrv, due, asked, pending>>

(* OnClose, the part inside ED2K_: what the other end owed is lost.         *)
Closed(c) ==
    /\ stage[c] = "open" /\ esrv[c] \in Flaky
    /\ stage' = [stage EXCEPT ![c] = "closed"]
    /\ due' = [due EXCEPT ![c] = {}]
    /\ pending' = [pending EXCEPT ![c] = {}]
    /\ UNCHANGED <<nextId, esrv, asked>>

(* Message m arrives on c. *)
Receives(c, m) == stage[c] = "open" /\ m \in due[c]

(* listSource for the files F on the connections C: only ids in tcs are     *)
(* written to, the others report not_connected and change nothing.          *)
ListSource(C, F) ==
    asked' = [c \in Cid |-> [f \in File |->
                IF c \in C \cap tcs /\ f \in F THEN "asked" ELSE asked[c][f]]]

===============================================================================
