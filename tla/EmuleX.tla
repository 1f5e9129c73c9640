-------------------------------- MODULE EmuleX --------------------------------
(***************************************************************************)
(* The names every module of the client shares.                            *)
(***************************************************************************)
EXTENDS Integers, FiniteSets

CONSTANTS
    File,     (* the files the user may ask for, named by their emd4 hash *)
    Server,   (* addresses of ed2k servers                                *)
    Peer,     (* addresses of other clients                               *)
    NoFile,   (* the sending entry of an id that has none                 *)
    NoAddr    (* the esrv entry of an id that is not in use               *)

ASSUME EmuleXAssumption ==
    /\ IsFiniteSet(Server) /\ IsFiniteSet(Peer)
    /\ Server \cap Peer = {}
    /\ NoAddr \notin Server \cup Peer
    /\ NoFile \notin File

Address == Server \cup Peer

===============================================================================
