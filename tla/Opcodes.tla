------------------------------ MODULE Opcodes -------------------------------
(***************************************************************************)
(* The numbers of src/protocol/ed2k_opcodes.h that the client uses.        *)
(***************************************************************************)

(* The operations of messages.                                              *)
Op == [ LOGINREQUEST |-> 1, GETSERVERLIST |-> 20, OFFERFILES |-> 21,
        SEARCHREQUEST |-> 22, CALLBACKREQUEST |-> 28, GETSOURCES_OBFU |-> 35,
        SERVERLIST |-> 50, SEARCHRESULT |-> 51, SERVERSTATUS |-> 52,
        CALLBACKREQUESTED |-> 53, SERVERMESSAGE |-> 56, IDCHANGE |-> 64,
        SERVERIDENT |-> 65, FOUNDSOURCES_OBFU |-> 68, HELLO |-> 1,
        SENDINGPART |-> 70, REQUESTPARTS |-> 71, FILEREQANSNOFIL |-> 72,
        HELLOANSWER |-> 76, SETREQFILEID |-> 79, FILESTATUS |-> 80,
        HASHSETREQUEST |-> 81, HASHSETANSWER |-> 82, STARTUPLOADREQ |-> 84,
        REQUESTFILENAME |-> 88, REQFILENAMEANSWER |-> 89,
        HASHSETANSWER2 |-> 178 ]

(* The types of a tag's value.                                              *)
TagType == [ HASH |-> 1, STRING |-> 2, UINT32 |-> 3, FLOAT32 |-> 4, BOOL |-> 5,
             BOOLARRAY |-> 6, BLOB |-> 7, UINT16 |-> 8, UINT8 |-> 9,
             UINT64 |-> 11, STR1 |-> 17, STR16 |-> 32 ]

(* The names of the tags of a file.                                         *)
Ft == [ FILENAME |-> 1, FILESIZE |-> 2, FILETYPE |-> 3, FILEFORMAT |-> 4,
        GAPSTART |-> 9, SOURCES |-> 21, COMPLETE_SOURCES |-> 48 ]
=============================================================================
