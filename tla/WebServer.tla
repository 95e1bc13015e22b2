----------------------------- MODULE WebServer -----------------------------
(***************************************************************************)
(* webserver.c: the virtual files of the renderer (icons and service       *)
(* descriptions) and the callbacks by which libupnp's worker threads serve *)
(* them: get_info, open, then reads and seeks on a handle of their own,    *)
(* close. upnp_device_init registers the files before it starts libupnp.   *)
(*                                                                         *)
(* The contents of file f are the Length[f] bytes <<f, 0>>, <<f, 1>>, ...  *)
(***************************************************************************)
EXTENDS Integers, Sequences

CONSTANTS Transfers,  \* libupnp's worker threads, each serving one request
          Files,      \* the paths of the virtual files
          Length,     \* the size of each
          MaxInt,     \* the largest int
          Sizes,      \* the buffers libupnp reads into
          Offsets,    \* the offsets it seeks to
          None

\* libupnp reads through a buffer of its own of a megabyte; of a size an int
\* cannot hold minimum would be told something else, even a negative one.
ASSUME SizesAssumption == MaxInt \in Nat /\ Sizes \subseteq 1 .. MaxInt
ASSUME LengthAssumption == Length \in [Files -> 0 .. MaxInt]
ASSUME OffsetsAssumption == Offsets \subseteq Int
ASSUME NoneAssumption == None \notin Files

VARIABLES
  pending,          \* files upnp_device_init has yet to register
  virtualFiles,     \* the registered ones
  asked, announced, \* per transfer: the file asked for and the length get_info gave
  file, pos,        \* the file of its handle and its position in it
  start, got,       \* the bytes read since position start
  ended             \* the last read returned 0

handleVars == <<asked, announced, file, pos, start, got, ended>>
vars == <<pending, virtualFiles, handleVars>>

Init ==
  /\ pending = Files
  /\ virtualFiles = {}
  /\ asked = [t \in Transfers |-> None]
  /\ announced = [t \in Transfers |-> 0]
  /\ file = [t \in Transfers |-> None]
  /\ pos = [t \in Transfers |-> 0]
  /\ start = [t \in Transfers |-> 0]
  /\ got = [t \in Transfers |-> <<>>]
  /\ ended = [t \in Transfers |-> FALSE]

\* webserver_register_file and _buf; upnp_device_init goes on without a file
\* that cannot be read or for which there is no memory.
Register(f) ==
  /\ f \in pending
  /\ pending' = pending \ {f}
  /\ virtualFiles' \in {virtualFiles, virtualFiles \cup {f}}
  /\ UNCHANGED handleVars

\* webserver_get_info; a path that is not registered is answered with -1 and
\* the request ends there.
GetInfo(t, f) ==
  /\ asked[t] = None
  /\ \/ /\ f \in virtualFiles
        /\ asked' = [asked EXCEPT ![t] = f]
        /\ announced' = [announced EXCEPT ![t] = Length[f]]
     \/ /\ f \notin virtualFiles
        /\ UNCHANGED <<asked, announced>>
  /\ UNCHANGED <<pending, virtualFiles, file, pos, start, got, ended>>

\* A mutation: the new handle has the position of the thread's last one.
OpenWithoutReset(t) ==
  /\ asked[t] # None /\ file[t] = None
  /\ file' = [file EXCEPT ![t] = asked[t]]
  /\ start' = [start EXCEPT ![t] = 0]
  /\ got' = [got EXCEPT ![t] = <<>>]
  /\ ended' = [ended EXCEPT ![t] = FALSE]
  /\ UNCHANGED <<pending, virtualFiles, asked, announced, pos>>

\* webserver_open, for reading: a handle at the beginning of the file.
Open(t) ==
  /\ asked[t] # None /\ file[t] = None
  /\ file' = [file EXCEPT ![t] = asked[t]]
  /\ pos' = [pos EXCEPT ![t] = 0]
  /\ start' = [start EXCEPT ![t] = 0]
  /\ got' = [got EXCEPT ![t] = <<>>]
  /\ ended' = [ended EXCEPT ![t] = FALSE]
  /\ UNCHANGED <<pending, virtualFiles, asked, announced>>

\* minimum.
Smaller(a, b) == IF a < b THEN a ELSE b

\* What an int makes of an unsigned size: its low bits, read as signed.
AsInt(n) ==
  LET low == n % (2 * MaxInt + 2)
  IN  IF n <= MaxInt THEN n ELSE IF low <= MaxInt THEN low ELSE low - (2 * MaxInt + 2)

\* The n bytes of f from position p on.
Bytes(f, p, n) == [i \in 1 .. n |-> <<f, p + i - 1>>]

\* webserver_read into a buffer of n bytes.
Read(t, n) ==
  /\ file[t] # None /\ ~ended[t]
  /\ LET len == Smaller(AsInt(n), AsInt(Length[file[t]] - pos[t]))
     IN  /\ got' = [got EXCEPT ![t] = @ \o Bytes(file[t], pos[t], len)]
         /\ pos' = [pos EXCEPT ![t] = @ + len]
         /\ ended' = [ended EXCEPT ![t] = len <= 0]
  /\ UNCHANGED <<pending, virtualFiles, asked, announced, file, start>>

\* Where each kind of seek leads; "other" is an origin the code does not know.
Target(t, offset, origin) ==
  CASE origin = "SEEK_SET" -> offset
    [] origin = "SEEK_CUR" -> pos[t] + offset
    [] origin = "SEEK_END" -> Length[file[t]] + offset
    [] OTHER -> -1

\* A mutation: the upper bound is not checked.
InsideFromBelow(f, p) == 0 <= p

\* A mutation: the lower bound is not checked.
InsideFromAbove(f, p) == p <= Length[f]

Inside(f, p) == 0 <= p /\ p <= Length[f]

\* webserver_seek: a position outside the file is refused and changes nothing.
Seek(t, offset, origin) ==
  /\ file[t] # None
  /\ Inside(file[t], Target(t, offset, origin))
  /\ pos' = [pos EXCEPT ![t] = Target(t, offset, origin)]
  /\ start' = [start EXCEPT ![t] = Target(t, offset, origin)]
  /\ got' = [got EXCEPT ![t] = <<>>]
  /\ ended' = [ended EXCEPT ![t] = FALSE]
  /\ UNCHANGED <<pending, virtualFiles, asked, announced, file>>

\* webserver_close, when the transfer is over or broken off.
Close(t) ==
  /\ file[t] # None
  /\ asked' = [asked EXCEPT ![t] = None]
  /\ file' = [file EXCEPT ![t] = None]
  /\ UNCHANGED <<pending, virtualFiles, announced, pos, start, got, ended>>

Origins == {"SEEK_SET", "SEEK_CUR", "SEEK_END", "other"}

Reads(t) == \E n \in Sizes : Read(t, n)

Next ==
  \/ \E f \in Files : Register(f)
  \/ \E t \in Transfers :
       \/ \E f \in Files : GetInfo(t, f)
       \/ Open(t) \/ Reads(t) \/ Close(t)
       \/ \E offset \in Offsets, origin \in Origins : Seek(t, offset, origin)

Spec == Init /\ [][Next]_vars
-----------------------------------------------------------------------------
(* Properties.                                                             *)

WSTypeOK ==
  /\ pending \subseteq Files /\ virtualFiles \subseteq Files
  /\ asked \in [Transfers -> Files \cup {None}]
  /\ announced \in [Transfers -> Nat]
  /\ file \in [Transfers -> Files \cup {None}]
  /\ pos \in [Transfers -> Nat] /\ start \in [Transfers -> Nat]
  /\ ended \in [Transfers -> BOOLEAN]
  /\ DOMAIN got = Transfers

\* No read starts or ends outside the contents, whatever was read or sought
\* before: memcpy stays inside (webserver_read, webserver_seek).
ReadsInside ==
  \A t \in Transfers : file[t] # None =>
    /\ 0 <= start[t] /\ start[t] <= pos[t]
    /\ pos[t] <= Length[file[t]]

\* A client gets the bytes of its own file, in order, none twice and none
\* left out, from where it last sought to; a transfer from the beginning that
\* has met the end delivered as many as get_info announced, which libupnp has
\* sent as Content-Length (webserver_get_info, webserver_read).
Delivered ==
  \A t \in Transfers : file[t] # None =>
    /\ got[t] = Bytes(file[t], start[t], pos[t] - start[t])
    /\ ended[t] /\ start[t] = 0 => Len(got[t]) = announced[t]
=============================================================================
