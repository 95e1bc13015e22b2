-------------------------- MODULE ConnectionManager -------------------------
(***************************************************************************)
(* upnp_connmgr.c: the MIME types the renderer supports, and connmgr_init, *)
(* which writes them into the SinkProtocolInfo variable.  One thread does  *)
(* all of it, before libupnp is started.                                   *)
(*                                                                         *)
(* The buffer of connmgr_init grows by one allocation per type; text is    *)
(* what has been written into it, one entry "http-get:*:<type>:*," for     *)
(* each type.                                                              *)
(***************************************************************************)
EXTENDS Integers, Sequences

CONSTANTS Types,        \* MIME types
          TypeLength,   \* the length of the name of each
          Mpeg, XMpeg,  \* audio/mpeg and audio/x-mpeg
          Tables        \* the lists of types an output may register

ASSUME TypesAssumption ==
  /\ TypeLength \in [Types -> Nat]
  /\ Mpeg \in Types /\ XMpeg \in Types
  /\ Tables \subseteq Seq(Types)

VARIABLES
  todo,        \* types output_mpd_init has yet to register
  supported,   \* supported_types, the last one first
  bufsize, p,  \* the size of the buffer and the offset of the next byte
  text,        \* the types written into it
  initRc,      \* what connmgr_init returned
  info         \* SinkProtocolInfo: the types it names

bufferVars == <<bufsize, p, text>>
cmVars == <<todo, supported, bufferVars, initRc, info>>

\* connmgr_defaults, used while the value is NULL.
DefaultInfo == <<Mpeg>>

CMInit ==
  /\ todo \in Tables
  /\ supported = <<>>
  /\ bufsize = 0 /\ p = 0 /\ text = <<>>
  /\ initRc = "none"
  /\ info = DefaultInfo

\* register_mime_type_internal: new types go to the front.
Added(type, list) ==
  IF \E i \in 1 .. Len(list) : list[i] = type THEN list ELSE <<type>> \o list

\* register_mime_type: audio/mpeg brings audio/x-mpeg with it.
RegisterMimeType ==
  /\ todo # <<>>
  /\ supported' = (IF Head(todo) = Mpeg
                   THEN Added(XMpeg, Added(Mpeg, supported))
                   ELSE Added(Head(todo), supported))
  /\ todo' = Tail(todo)
  /\ UNCHANGED <<bufferVars, initRc, info>>

\* A mutation: the buffer has no room for the text around the type.
RoomForType(type) == TypeLength[type] + 1 + 8 + 3

\* What connmgr_init adds to the buffer for one type ...
Room(type) == TypeLength[type] + 1 + 8 + 3 + 2

\* ... and the bytes it writes: "http-get:*:", the type, ":*,".
Written(type) == 11 + TypeLength[type] + 3

\* One turn of the loop of connmgr_init.
WriteEntry ==
  /\ initRc = "none" /\ Len(text) < Len(supported)
  /\ LET type == supported[Len(text) + 1]
     IN  /\ bufsize' = bufsize + Room(type)
         /\ p' = p + Written(type)
         /\ text' = Append(text, type)
  /\ UNCHANGED <<todo, supported, initRc, info>>

\* malloc or realloc fails.
NoMemory ==
  /\ initRc = "none" /\ Len(text) < Len(supported)
  /\ initRc' = "failed"
  /\ UNCHANGED <<todo, supported, bufferVars, info>>

\* The last comma becomes the terminator; without any type the variable stays
\* NULL and its default is used.
Terminate ==
  /\ initRc = "none" /\ Len(text) = Len(supported)
  /\ p' = (IF text = <<>> THEN p ELSE p - 1)
  /\ info' = (IF text = <<>> THEN DefaultInfo ELSE text)
  /\ initRc' = "ok"
  /\ UNCHANGED <<todo, supported, bufsize, text>>

CMNext ==
  \/ RegisterMimeType
  \/ todo = <<>> /\ (WriteEntry \/ NoMemory \/ Terminate)

CMSpec == CMInit /\ [][CMNext]_cmVars
-----------------------------------------------------------------------------
(* Properties.                                                             *)

CMTypeOK ==
  /\ todo \in Seq(Types) /\ supported \in Seq(Types) /\ text \in Seq(Types)
  /\ info \in Seq(Types)
  /\ bufsize \in Nat /\ p \in Nat
  /\ initRc \in {"none", "ok", "failed"}

\* connmgr_init never writes outside the buffer: all entries so far end
\* inside it, and the terminator is one of its bytes.
InsideBuffer ==
  /\ p <= bufsize
  /\ initRc = "ok" /\ text # <<>> => p < bufsize

\* No type is named twice, however often it was registered, and both names of
\* MPEG audio are or neither is (register_mime_type).
TypesOnce ==
  \A i, j \in 1 .. Len(supported) : supported[i] = supported[j] => i = j
=============================================================================
