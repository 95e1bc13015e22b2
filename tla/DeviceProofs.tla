---------------------------- MODULE DeviceProofs ----------------------------
(***************************************************************************)
(* Proofs about the start of the renderer and what runs beside it.  Each   *)
(* of the two lists, WebServer's files and ConnectionManager's types, is   *)
(* proved about on its own; the order of the start then makes Device a     *)
(* step of both, and gives what a control point may count on once it has   *)
(* found the device.                                                       *)
(***************************************************************************)
EXTENDS Device, SequenceTheorems, TLAPS

(***************************************************************************)
(* WebServer: for every set of files, threads, buffer sizes and offsets.   *)
(***************************************************************************)

\* A handle is on the file get_info was asked about, at a position in its
\* contents, and what it has read is what stands before that position. Neither
\* ReadsInside nor Delivered says where the handle came from.
HandleOK(t) ==
  /\ asked[t] # None => announced[t] = Length[asked[t]]
  /\ file[t] # None =>
       /\ asked[t] = file[t]
       /\ start[t] <= pos[t] /\ pos[t] <= Length[file[t]]
       /\ got[t] = Bytes(file[t], start[t], pos[t] - start[t])
       /\ ended[t] => pos[t] = Length[file[t]]

HandleInv == WSTypeOK /\ \A t \in Transfers : HandleOK(t)

\* A read of at most what is left stays in the contents (minimum).
LEMMA SmallerBounds ==
  ASSUME NEW a \in Nat, NEW b \in Nat
  PROVE  /\ Smaller(a, b) \in Nat /\ Smaller(a, b) <= a /\ Smaller(a, b) <= b
         /\ Smaller(a, b) \in {a, b}
BY DEF Smaller

\* A size that is an int is not changed by becoming one.
LEMMA AsIntSame == ASSUME NEW n \in 0 .. MaxInt PROVE AsInt(n) = n
BY SizesAssumption DEF AsInt

\* b are the m bytes of f from s on.
BytesOf(b, f, s, m) ==
  /\ b \in Seq({f} \X Nat) /\ Len(b) = m
  /\ \A i \in 1 .. m : b[i] = <<f, s + i - 1>>

LEMMA BytesAre ==
  ASSUME NEW f, NEW s \in Nat, NEW m \in Nat
  PROVE  BytesOf(Bytes(f, s, m), f, s, m)
<1>1. \A i \in 1 .. m : s + i - 1 \in Nat
  OBVIOUS
<1> QED BY <1>1 DEF Bytes, BytesOf

\* Two reads in a row give what one would have given.
Joins(f, s, m, q, n, k) == Bytes(f, s, m) \o Bytes(f, q, n) = Bytes(f, s, k)

LEMMA BytesJoin ==
  ASSUME NEW f, NEW s \in Nat, NEW m \in Nat, NEW q \in Nat, NEW n \in Nat, NEW k \in Nat,
         q = s + m, k = m + n
  PROVE  Joins(f, s, m, q, n, k)
<1> DEFINE one == Bytes(f, s, m)
           two == Bytes(f, q, n)
           all == Bytes(f, s, k)
<1>1. /\ one \in Seq({f} \X Nat) /\ Len(one) = m /\ \A i \in 1 .. m : one[i] = <<f, s + i - 1>>
      /\ two \in Seq({f} \X Nat) /\ Len(two) = n /\ \A i \in 1 .. n : two[i] = <<f, q + i - 1>>
      /\ all \in Seq({f} \X Nat) /\ Len(all) = k
      /\ \A i \in 1 .. k : all[i] = <<f, s + i - 1>>
  <2>1. BytesOf(one, f, s, m) /\ BytesOf(two, f, q, n) /\ BytesOf(all, f, s, k)
    BY BytesAre
  <2> HIDE DEF one, two, all
  <2> QED BY <2>1, Zenon DEF BytesOf
<1> HIDE DEF one, two, all
<1>c. \A i \in 1 .. k : (one \o two)[i] = IF i <= m THEN one[i] ELSE two[i - m]
  <2>1. \A i \in 1 .. Len(one) + Len(two) :
          (one \o two)[i] = IF i <= Len(one) THEN one[i] ELSE two[i - Len(one)]
    BY <1>1, ConcatProperties
  <2> QED BY <1>1, <2>1
<1>2. ASSUME NEW i \in 1 .. k PROVE (one \o two)[i] = all[i]
  <2>1. CASE i <= m
    <3>1. (one \o two)[i] = one[i]
      BY <1>c, <2>1, Zenon
    <3>2. i \in 1 .. m
      BY <2>1
    <3>3. one[i] = <<f, s + i - 1>>
      BY <1>1, <3>2, Zenon
    <3>4. all[i] = <<f, s + i - 1>>
      BY <1>1, Zenon
    <3> QED BY <3>1, <3>3, <3>4, Zenon
  <2>2. CASE i > m
    <3>1. i - m \in 1 .. n /\ q + (i - m) - 1 = s + i - 1
      BY <2>2
    <3>2. (one \o two)[i] = two[i - m]
      <4>1. ~(i <= m)
        BY <2>2
      <4>2. (one \o two)[i] = IF i <= m THEN one[i] ELSE two[i - m]
        BY <1>c, Zenon
      <4> QED BY <4>1, <4>2, Zenon
    <3>3. two[i - m] = <<f, q + (i - m) - 1>>
      BY <1>1, <3>1, Zenon
    <3>4. all[i] = <<f, s + i - 1>>
      BY <1>1, Zenon
    <3> QED BY <3>1, <3>2, <3>3, <3>4, Zenon
  <2>3. i <= m \/ i > m
    OBVIOUS
  <2> QED BY <2>1, <2>2, <2>3, Zenon
<1>3. Len(one \o two) = k /\ one \o two \in Seq({f} \X Nat)
  BY <1>1
<1>4. one \o two = all
  BY <1>1, <1>2, <1>3, SeqEqual
<1> QED BY <1>4, Zenon DEF one, two, all, Joins

\* Before the first request.
LEMMA HandleInit == Init => HandleInv
BY DEF Init, HandleInv, HandleOK, WSTypeOK

\* A step of one transfer keeps HandleInv.
LEMMA HandleStep ==
  ASSUME HandleInv, NEW t \in Transfers,
         \/ \E f \in Files : GetInfo(t, f)
         \/ Open(t)
         \/ Reads(t)
         \/ Close(t)
         \/ \E offset \in Offsets, origin \in Origins : Seek(t, offset, origin)
  PROVE  HandleInv'
<1> SUFFICES /\ WSTypeOK' /\ HandleOK(t)'
             /\ \A u \in Transfers \ {t} :
                  /\ asked'[u] = asked[u] /\ announced'[u] = announced[u]
                  /\ file'[u] = file[u] /\ pos'[u] = pos[u] /\ start'[u] = start[u]
                  /\ got'[u] = got[u] /\ ended'[u] = ended[u]
  <2>1. ASSUME NEW u \in Transfers \ {t} PROVE HandleOK(u)'
    BY <2>1 DEF HandleInv, HandleOK
  <2> QED BY <2>1 DEF HandleInv
<1> USE LengthAssumption, SizesAssumption, OffsetsAssumption, NoneAssumption DEF WSTypeOK
<1>0. WSTypeOK /\ HandleOK(t)
  BY DEF HandleInv
<1>1. CASE \E f \in Files : GetInfo(t, f)
  <2>1. PICK f \in Files : GetInfo(t, f)
    BY <1>1
  <2> QED BY <1>0, <2>1 DEF GetInfo, HandleOK
<1>2. CASE Open(t)
  <2>1. asked[t] \in Files /\ Length[asked[t]] \in Nat
    BY <1>0, <1>2 DEF Open
  <2>2. Bytes(asked[t], 0, 0) = <<>>
    BY DEF Bytes
  <2> QED
    BY <1>0, <1>2, <2>1, <2>2 DEF Open, HandleOK
<1>3. CASE Reads(t)
  <2>1. PICK n \in Sizes : Read(t, n)
    BY <1>3 DEF Reads
  <2>2. /\ file[t] \in Files /\ Length[file[t]] \in Nat
        /\ start[t] \in Nat /\ pos[t] - start[t] \in Nat /\ Length[file[t]] - pos[t] \in Nat
    BY <1>0, <2>1 DEF Read, HandleOK
  <2>a. n \in Nat /\ AsInt(n) = n /\ AsInt(Length[file[t]] - pos[t]) = Length[file[t]] - pos[t]
    <3>1. n \in 0 .. MaxInt
      BY <2>1
    <3>2. Length[file[t]] \in 0 .. MaxInt /\ pos[t] \in Nat
      BY <1>0, <2>2
    <3>3. Length[file[t]] - pos[t] \in 0 .. MaxInt
      <4>1. ASSUME NEW a \in 0 .. MaxInt, NEW b \in Nat, a - b \in Nat
            PROVE  a - b \in 0 .. MaxInt
        BY <4>1, SizesAssumption
      <4> QED BY <2>2, <3>2, <4>1
    <3> QED BY <3>1, <3>3, AsIntSame
  <2> DEFINE len == Smaller(n, Length[file[t]] - pos[t])
  <2>3. len \in Nat /\ len <= Length[file[t]] - pos[t] /\ len \in {n, Length[file[t]] - pos[t]}
    BY <2>2, <2>a, SmallerBounds
  <2>4. /\ pos' = [pos EXCEPT ![t] = @ + len]
        /\ got' = [got EXCEPT ![t] = @ \o Bytes(file[t], pos[t], len)]
        /\ ended' = [ended EXCEPT ![t] = len <= 0]
        /\ UNCHANGED <<pending, virtualFiles, asked, announced, file, start>>
    BY <2>1, <2>a DEF Read
  <2> HIDE DEF len
  <2>5. got'[t] = Bytes(file[t], start[t], pos'[t] - start[t])
    <3> DEFINE m == pos[t] - start[t]
               k == pos'[t] - start[t]
    <3>1. got[t] = Bytes(file[t], start[t], m)
      BY <1>0, <2>1 DEF Read, HandleOK
    <3>2. /\ m \in Nat /\ k \in Nat /\ pos[t] \in Nat /\ start[t] \in Nat
          /\ pos[t] = start[t] + m /\ k = m + len
      <4>1. pos'[t] = pos[t] + len /\ pos[t] \in Nat
        BY <1>0, <2>2, <2>4
      <4>2. pos'[t] \in Int /\ start[t] \in Nat /\ m \in Nat /\ len \in Nat
        BY <2>2, <2>3, <4>1
      <4> QED BY <4>1, <4>2
    <3>3. got'[t] = got[t] \o Bytes(file[t], pos[t], len)
      <4>1. DOMAIN got = Transfers
        BY <1>0
      <4> QED BY <2>4, <4>1
    <3> HIDE DEF m, k
    <3>4. Joins(file[t], start[t], m, pos[t], len, k)
      <4>1. len \in Nat
        BY <2>3
      <4> QED BY <3>2, <4>1, BytesJoin
    <3>5. got'[t] = Bytes(file[t], start[t], k)
      BY <3>1, <3>3, <3>4, Zenon DEF Joins
    <3> QED BY <3>5 DEF k
  <2>6. HandleOK(t)'
    <3>1. /\ pos'[t] = pos[t] + len /\ (ended'[t] <=> len <= 0)
          /\ UNCHANGED <<asked, announced, file, start>>
      BY <1>0, <2>4
    <3>2. n > 0 /\ start[t] <= pos[t] /\ pos[t] \in Nat
      BY <1>0, <2>1 DEF HandleOK, Read
    <3>3. start[t] <= pos'[t] /\ pos'[t] <= Length[file[t]] /\ (ended'[t] => pos'[t] = Length[file[t]])
      <4> DEFINE at == pos[t]
                 end == Length[file[t]]
      <4>1. /\ at \in Nat /\ end \in Nat /\ start[t] \in Nat /\ start[t] <= at
            /\ len \in Nat /\ len <= end - at /\ len \in {n, end - at} /\ n > 0
        BY <2>2, <2>3, <3>2
      <4> HIDE DEF at, end
      <4>2. /\ start[t] <= at + len /\ at + len <= end
            /\ len <= 0 => at + len = end
        BY <4>1
      <4> QED BY <3>1, <4>2, Zenon DEF at, end
    <3>4. file[t] # None /\ asked[t] = file[t] /\ announced[t] = Length[file[t]]
      BY <1>0, <2>1 DEF HandleOK, Read
    <3> QED BY <2>5, <3>1, <3>3, <3>4 DEF HandleOK
  <2>7. WSTypeOK'
    <3>1. ended' \in [Transfers -> BOOLEAN]
      BY <1>0, <2>4, (len <= 0) \in BOOLEAN
    <3>2. pos' \in [Transfers -> Nat]
      BY <1>0, <2>3, <2>4
    <3> QED BY <1>0, <2>4, <3>1, <3>2
  <2> QED
    BY <1>0, <2>4, <2>6, <2>7
<1>4. CASE Close(t)
  BY <1>0, <1>4 DEF Close, HandleOK
<1>5. CASE \E offset \in Offsets, origin \in Origins : Seek(t, offset, origin)
  <2>1. PICK offset \in Offsets, origin \in Origins : Seek(t, offset, origin)
    BY <1>5
  <2>2. file[t] \in Files /\ Length[file[t]] \in Nat /\ pos[t] \in Nat /\ offset \in Int
    BY <1>0, <2>1 DEF Seek
  <2> DEFINE q == Target(t, offset, origin)
  <2>3. q \in Int
    BY <2>2 DEF Target
  <2>4. 0 <= q /\ q <= Length[file[t]]
    BY <2>1 DEF Seek, Inside
  <2>5. /\ pos' = [pos EXCEPT ![t] = q] /\ start' = [start EXCEPT ![t] = q]
        /\ got' = [got EXCEPT ![t] = <<>>] /\ ended' = [ended EXCEPT ![t] = FALSE]
        /\ UNCHANGED <<pending, virtualFiles, asked, announced, file>>
    BY <2>1 DEF Seek
  <2>6. Bytes(file[t], q, q - q) = <<>>
    BY <2>3 DEF Bytes
  <2> HIDE DEF q
  <2> QED
    BY <1>0, <2>1, <2>2, <2>3, <2>4, <2>5, <2>6 DEF HandleOK, Seek
<1> QED
  BY <1>1, <1>2, <1>3, <1>4, <1>5

\* Any step does.
LEMMA HandleNext == HandleInv /\ [Next]_vars => HandleInv'
<1> SUFFICES ASSUME HandleInv, [Next]_vars
             PROVE  HandleInv'
  OBVIOUS
<1>1. ASSUME NEW f \in Files, Register(f)
      PROVE  HandleInv'
  BY <1>1 DEF Register, HandleInv, HandleOK, WSTypeOK, handleVars
<1>2. ASSUME NEW t \in Transfers,
             \/ \E f \in Files : GetInfo(t, f)
             \/ Open(t) \/ Reads(t) \/ Close(t)
             \/ \E offset \in Offsets, origin \in Origins : Seek(t, offset, origin)
      PROVE  HandleInv'
  BY <1>2, HandleStep
<1>3. CASE UNCHANGED vars
  BY <1>3 DEF vars, handleVars, HandleInv, HandleOK, WSTypeOK
<1> QED
  BY <1>1, <1>2, <1>3 DEF Next

LEMMA HandlesHelp == HandleInv => ReadsInside /\ Delivered
<1> SUFFICES ASSUME HandleInv, NEW t \in Transfers, file[t] # None
             PROVE  /\ 0 <= start[t] /\ start[t] <= pos[t] /\ pos[t] <= Length[file[t]]
                    /\ got[t] = Bytes(file[t], start[t], pos[t] - start[t])
                    /\ ended[t] /\ start[t] = 0 => Len(got[t]) = announced[t]
  BY DEF ReadsInside, Delivered
<1>1. /\ HandleOK(t) /\ file[t] \in Files /\ pos[t] \in Nat /\ start[t] \in Nat
      /\ asked[t] = file[t] /\ announced[t] = Length[file[t]]
  BY NoneAssumption DEF HandleInv, HandleOK, WSTypeOK
<1>2. ASSUME ended[t], start[t] = 0 PROVE Len(got[t]) = announced[t]
  <2>1. pos[t] = announced[t] /\ pos[t] - start[t] = pos[t]
    BY <1>1, <1>2, NoneAssumption DEF HandleOK
  <2>2. got[t] = Bytes(file[t], start[t], pos[t])
    BY <1>1, <2>1 DEF HandleOK
  <2>3. Len(Bytes(file[t], start[t], pos[t])) = pos[t]
    <3>1. BytesOf(Bytes(file[t], start[t], pos[t]), file[t], start[t], pos[t])
      BY <1>1, BytesAre
    <3> QED BY <3>1, Zenon DEF BytesOf
  <2> QED BY <2>1, <2>2, <2>3
<1>3. start[t] <= pos[t] /\ pos[t] <= Length[file[t]]
      /\ got[t] = Bytes(file[t], start[t], pos[t] - start[t])
  BY <1>1 DEF HandleOK
<1> QED BY <1>1, <1>2, <1>3

(***************************************************************************)
(* ConnectionManager: for every table of types and every length of names.  *)
(***************************************************************************)

\* While connmgr_init writes, its position is the end of the buffer, and an
\* entry takes at least its fourteen bytes of punctuation: only so is there a
\* comma to be replaced by the terminator.
BufferInv ==
  /\ CMTypeOK
  /\ initRc = "ok" \/ p = bufsize
  /\ initRc = "ok" => p <= bufsize
  /\ text # <<>> => 14 <= bufsize
  /\ initRc = "ok" /\ text # <<>> => p = bufsize - 1

\* It writes the registered types, from the first on, once all of them are
\* registered.
WrittenInv ==
  /\ todo # <<>> => text = <<>> /\ initRc = "none"
  /\ Len(text) <= Len(supported) /\ \A i \in 1 .. Len(text) : text[i] = supported[i]
  /\ initRc = "ok" => text = supported /\ info = (IF text = <<>> THEN DefaultInfo ELSE text)
  /\ Mpeg \in ToSet(supported) => XMpeg \in ToSet(supported)

\* A list stays within its types when a type is added.
LEMMA AddedType ==
  ASSUME NEW type \in Types, NEW list \in Seq(Types)
  PROVE  Added(type, list) \in Seq(Types)
BY DEF Added

\* What is allocated for an entry is what is written.
LEMMA RoomIsWritten ==
  ASSUME NEW type \in Types
  PROVE  Room(type) \in Nat /\ Room(type) = Written(type) /\ 14 <= Room(type)
BY TypesAssumption DEF Room, Written

LEMMA BufferInit == CMInit => BufferInv
<1> SUFFICES ASSUME CMInit PROVE BufferInv
  OBVIOUS
<1>1. todo \in Seq(Types) /\ DefaultInfo \in Seq(Types) /\ <<>> \in Seq(Types)
  BY TypesAssumption DEF CMInit, DefaultInfo
<1> QED
  BY <1>1 DEF CMInit, BufferInv, CMTypeOK

LEMMA BufferStep == BufferInv /\ [CMNext]_cmVars => BufferInv'
<1> SUFFICES ASSUME BufferInv, [CMNext]_cmVars PROVE BufferInv'
  OBVIOUS
<1> USE DEF BufferInv, CMTypeOK
<1>1. CASE RegisterMimeType
  <2>1. Head(todo) \in Types /\ Tail(todo) \in Seq(Types) /\ Mpeg \in Types /\ XMpeg \in Types
    BY <1>1, TypesAssumption DEF RegisterMimeType
  <2>2. supported' \in Seq(Types)
    BY <1>1, <2>1, AddedType DEF RegisterMimeType
  <2> QED
    BY <1>1, <2>1, <2>2 DEF RegisterMimeType, bufferVars
<1>2. CASE WriteEntry
  <2> DEFINE type == supported[Len(text) + 1]
  <2>1. type \in Types
    BY <1>2 DEF WriteEntry
  <2>2. Room(type) \in Nat /\ Room(type) = Written(type) /\ 14 <= Room(type)
    BY <2>1, RoomIsWritten
  <2>3. text' \in Seq(Types)
    BY <1>2, <2>1 DEF WriteEntry
  <2>4. bufsize' = bufsize + Room(type) /\ p' = p + Written(type) /\ initRc = "none"
        /\ UNCHANGED <<todo, supported, initRc, info>>
    BY <1>2 DEF WriteEntry
  <2> HIDE DEF type
  <2> QED
    BY <2>2, <2>3, <2>4
<1>3. CASE NoMemory
  BY <1>3 DEF NoMemory, bufferVars
<1>4. CASE Terminate
  <2>1. DefaultInfo \in Seq(Types)
    BY TypesAssumption DEF DefaultInfo
  <2> QED
    BY <1>4, <2>1 DEF Terminate
<1>5. CASE UNCHANGED cmVars
  BY <1>5 DEF cmVars, bufferVars
<1> QED
  BY <1>1, <1>2, <1>3, <1>4, <1>5 DEF CMNext

LEMMA BufferHelps == BufferInv => InsideBuffer
BY DEF BufferInv, InsideBuffer, CMTypeOK

\* Added adds just that type.
LEMMA AddedIs ==
  ASSUME NEW type \in Types, NEW list \in Seq(Types)
  PROVE  ToSet(Added(type, list)) = ToSet(list) \cup {type}
<1>1. CASE \E i \in 1 .. Len(list) : list[i] = type
  <2>1. Added(type, list) = list
    BY <1>1 DEF Added
  <2>2. type \in ToSet(list)
    BY <1>1 DEF ToSet
  <2> QED BY <2>1, <2>2
<1>2. CASE ~\E i \in 1 .. Len(list) : list[i] = type
  <2> DEFINE longer == <<type>> \o list
  <2>1. /\ longer \in Seq(Types) /\ Len(longer) = Len(list) + 1 /\ longer[1] = type
        /\ \A i \in 1 .. Len(list) : longer[i + 1] = list[i]
        /\ \A i \in 2 .. Len(longer) : longer[i] = list[i - 1] /\ i - 1 \in 1 .. Len(list)
    OBVIOUS
  <2> HIDE DEF longer
  <2>2. DOMAIN longer = 1 .. Len(longer) /\ DOMAIN list = 1 .. Len(list)
    BY <2>1
  <2>3. ToSet(longer) \subseteq ToSet(list) \cup {type}
    BY <2>1, <2>2 DEF ToSet
  <2>4. ToSet(list) \cup {type} \subseteq ToSet(longer)
    <3>1. ASSUME NEW i \in 1 .. Len(list) PROVE \E j \in 1 .. Len(longer) : longer[j] = list[i]
      BY <2>1, i + 1 \in 1 .. Len(longer)
    <3>2. type \in ToSet(longer)
      BY <2>1, <2>2, 1 \in 1 .. Len(longer) DEF ToSet
    <3> QED BY <2>2, <3>1, <3>2 DEF ToSet
  <2> QED BY <1>2, <2>3, <2>4 DEF Added, longer
<1> QED BY <1>1, <1>2

LEMMA WrittenStart == CMInit => WrittenInv
BY DEF CMInit, WrittenInv, ToSet

LEMMA WrittenStep == BufferInv /\ WrittenInv /\ [CMNext]_cmVars => WrittenInv'
<1> SUFFICES ASSUME BufferInv, WrittenInv, [CMNext]_cmVars PROVE WrittenInv'
  OBVIOUS
<1>0. /\ todo \in Seq(Types) /\ supported \in Seq(Types) /\ text \in Seq(Types)
      /\ Mpeg \in Types /\ XMpeg \in Types
  BY TypesAssumption DEF BufferInv, CMTypeOK
<1>1. CASE RegisterMimeType
  <2>1. Head(todo) \in Types /\ text = <<>> /\ initRc = "none" /\ text' = text /\ initRc' = initRc
    BY <1>0, <1>1 DEF RegisterMimeType, WrittenInv, bufferVars
  <2>2. supported' \in Seq(Types) /\ (Mpeg \in ToSet(supported') => XMpeg \in ToSet(supported'))
    <3>1. CASE Head(todo) = Mpeg
      <4>1. Added(Mpeg, supported) \in Seq(Types)
        BY <1>0, AddedType
      <4> QED BY <1>0, <1>1, <3>1, <4>1, AddedType, AddedIs DEF RegisterMimeType
    <3>2. CASE Head(todo) # Mpeg
      BY <1>0, <1>1, <2>1, <3>2, AddedType, AddedIs DEF RegisterMimeType, WrittenInv
    <3> QED BY <3>1, <3>2
  <2> QED BY <2>1, <2>2 DEF WrittenInv
<1>2. CASE todo = <<>> /\ WriteEntry
  <2>1. Len(text') <= Len(supported) /\ \A i \in 1 .. Len(text') : text'[i] = supported[i]
    BY <1>0, <1>2 DEF WriteEntry, WrittenInv
  <2> QED BY <1>2, <2>1 DEF WriteEntry, WrittenInv
<1>3. CASE todo = <<>> /\ NoMemory
  BY <1>3 DEF NoMemory, WrittenInv, bufferVars
<1>4. CASE todo = <<>> /\ Terminate
  <2>1. text = supported
    BY <1>0, <1>4, SeqEqual DEF Terminate, WrittenInv
  <2> QED BY <1>4, <2>1 DEF Terminate, WrittenInv
<1>5. CASE UNCHANGED cmVars
  BY <1>5 DEF cmVars, bufferVars, WrittenInv
<1> QED
  BY <1>1, <1>2, <1>3, <1>4, <1>5 DEF CMNext

\* Adding a type to a list without doubles makes none.
LEMMA AddedOnce ==
  ASSUME NEW type \in Types, NEW list \in Seq(Types),
         \A i, j \in 1 .. Len(list) : list[i] = list[j] => i = j
  PROVE  LET longer == Added(type, list)
         IN  \A i, j \in 1 .. Len(longer) : longer[i] = longer[j] => i = j
<1>1. CASE \E i \in 1 .. Len(list) : list[i] = type
  BY <1>1 DEF Added
<1>2. CASE ~\E i \in 1 .. Len(list) : list[i] = type
  <2> DEFINE longer == <<type>> \o list
  <2>1. Len(longer) = Len(list) + 1 /\ longer[1] = type
        /\ \A i \in 2 .. Len(longer) : longer[i] = list[i - 1] /\ i - 1 \in 1 .. Len(list)
    OBVIOUS
  <2>2. \A i, j \in 1 .. Len(longer) : longer[i] = longer[j] => i = j
    <3> SUFFICES ASSUME NEW i \in 1 .. Len(longer), NEW j \in 1 .. Len(longer),
                        longer[i] = longer[j]
                 PROVE  i = j
      OBVIOUS
    <3> HIDE DEF longer
    <3>1. CASE i = 1 /\ j # 1
      BY <2>1, <3>1, <1>2
    <3>2. CASE i # 1 /\ j = 1
      BY <2>1, <3>2, <1>2
    <3>3. CASE i # 1 /\ j # 1
      BY <2>1, <3>3
    <3> QED
      BY <3>1, <3>2, <3>3
  <2> QED
    BY <1>2, <2>2 DEF Added
<1> QED
  BY <1>1, <1>2

LEMMA OnceKept == CMSpec => []TypesOnce
<1>1. CMInit => TypesOnce
  BY DEF CMInit, TypesOnce
<1>2. BufferInv /\ TypesOnce /\ [CMNext]_cmVars => TypesOnce'
  <2> SUFFICES ASSUME BufferInv, TypesOnce, [CMNext]_cmVars PROVE TypesOnce'
    OBVIOUS
  <2>1. CASE RegisterMimeType
    <3>1. Head(todo) \in Types /\ Mpeg \in Types /\ XMpeg \in Types /\ supported \in Seq(Types)
      BY <2>1, TypesAssumption DEF RegisterMimeType, BufferInv, CMTypeOK
    <3>2. CASE Head(todo) = Mpeg
      <4> DEFINE one == Added(Mpeg, supported)
                 two == Added(XMpeg, one)
      <4>1. one \in Seq(Types) /\ \A i, j \in 1 .. Len(one) : one[i] = one[j] => i = j
        BY <3>1, AddedType, AddedOnce DEF TypesOnce
      <4> HIDE DEF one
      <4>2. \A i, j \in 1 .. Len(two) : two[i] = two[j] => i = j
        BY <3>1, <4>1, AddedOnce
      <4>3. supported' = two
        BY <2>1, <3>2 DEF RegisterMimeType, one
      <4> QED
        BY <4>2, <4>3 DEF TypesOnce
    <3>3. CASE Head(todo) # Mpeg
      <4> DEFINE one == Added(Head(todo), supported)
      <4>1. \A i, j \in 1 .. Len(one) : one[i] = one[j] => i = j
        BY <3>1, AddedOnce DEF TypesOnce
      <4>2. supported' = one
        BY <2>1, <3>3 DEF RegisterMimeType
      <4> QED
        BY <4>1, <4>2 DEF TypesOnce
    <3> QED
      BY <3>2, <3>3
  <2>2. CASE WriteEntry \/ NoMemory \/ Terminate \/ UNCHANGED cmVars
    <3>1. supported' = supported
      BY <2>2 DEF WriteEntry, NoMemory, Terminate, cmVars
    <3> QED
      BY <3>1 DEF TypesOnce
  <2> QED
    BY <2>1, <2>2 DEF CMNext
<1> QED
  BY <1>1, <1>2, BufferInit, BufferStep, PTL DEF CMSpec

(***************************************************************************)
(* The start of the renderer.                                              *)
(***************************************************************************)

\* The stages are in an order.
LEMMA OrderIs ==
  /\ \A i, j \in 1 .. 14 : Order[i] = Order[j] => i = j
  /\ \A i \in 1 .. 14 : Order[i] # "exit" /\ (Order[i] \in LibCalls <=> i \in 8 .. 13)
  /\ Len(Order) = 14
BY DEF Order, LibCalls

LEMMA AfterIs ==
  ASSUME NEW i \in 1 .. 13
  PROVE  After(Order[i]) = Order[i + 1]
<1>1. (CHOOSE j \in 1 .. Len(Order) : Order[j] = Order[i]) = i
  BY OrderIs
<1> QED BY <1>1 DEF After

\* What is set up in libupnp at stage i.
Built(i) == {Order[j] : j \in 8 .. i - 1}

LEMMA BuiltIs ==
  /\ \A i \in 1 .. 8 : Built(i) = {}
  /\ \A i \in 8 .. 13 : Built(i + 1) = Built(i) \cup {Order[i]}
  /\ \A i, j \in 1 .. 14 : Order[j] \in Built(i) <=> j \in 8 .. i - 1
  /\ \A i \in 1 .. 14 : Built(i) \subseteq LibCalls
<1>1. \A i \in 1 .. 8 : Built(i) = {}
  BY DEF Built
<1>2. \A i \in 8 .. 13 : Built(i + 1) = Built(i) \cup {Order[i]}
  BY DEF Built
<1>3. \A i, j \in 1 .. 14 : Order[j] \in Built(i) <=> j \in 8 .. i - 1
  BY OrderIs DEF Built
<1>4. \A i \in 1 .. 14 : Built(i) \subseteq LibCalls
  BY OrderIs DEF Built
<1> QED BY <1>1, <1>2, <1>3, <1>4

\* The digits of the address are where AnnouncedWhole looks for them.
LEMMA MergedDigits ==
  ASSUME NEW mac
  PROVE  [k \in 0 .. 5 |-> <<Merge(mac)[29 + 2 * k], Merge(mac)[30 + 2 * k]>>] = Digits(mac)
<1>1. ASSUME NEW k \in 0 .. 5
      PROVE  Merge(mac)[29 + 2 * k] = mac[3 * k] /\ Merge(mac)[30 + 2 * k] = mac[3 * k + 1]
  <2>1. /\ 29 + 2 * k \in 29 .. 40 /\ 30 + 2 * k \in 29 .. 40
        /\ 29 + 2 * k \in 0 .. 41 /\ 30 + 2 * k \in 0 .. 41
    OBVIOUS
  <2>2. /\ ((29 + 2 * k) - 29) \div 2 = k /\ ((29 + 2 * k) - 29) % 2 = 0
        /\ ((30 + 2 * k) - 29) \div 2 = k /\ ((30 + 2 * k) - 29) % 2 = 1
    OBVIOUS
  <2>3. 3 * k + 0 = 3 * k
    OBVIOUS
  <2> QED
    BY <2>1, <2>2, <2>3 DEF Merge
<1> QED
  BY <1>1 DEF Digits

\* The device name tells any two hardware addresses apart, though their last
\* digit stands where the template's second dash does not: all twelve digits
\* are in it.
THEOREM NamesDiffer ==
  ASSUME NEW m, NEW n, Merge(m) = Merge(n)
  PROVE  Digits(m) = Digits(n)
BY MergedDigits

\* main at stage i: what the stages before it have done.
Reached(i) ==
  /\ stage = Order[i] /\ libupnp = Built(i)
  /\ i > 2 => \E m \in ToSet(interfaces) :
                ifName \in {None, m.name} /\ udn = Merge(Macs[m.name])
  /\ i > 3 => todo = <<>>
  /\ i > 6 => initRc = "ok"
  /\ i > 7 => pending = {}

\* getIfInfo, before and after it has settled on an interface.
AddressInv ==
  /\ interfaces \in Interfaces /\ ifName \in Names
  /\ turn \in Nat /\ named \in Names \cup STRING \cup {None}
  /\ address \in {i.name : i \in ToSet(interfaces)} \cup {None}
  /\ AddressAsked
  /\ address = None /\ (\A i \in ToSet(interfaces) : i.inet) => named = ifName

StartInv ==
  /\ (\E i \in 1 .. 14 : Reached(i)) \/ (stage = "exit" /\ libupnp = {})
  /\ AddressInv
  /\ told \subseteq {info} /\ (told # {} => initRc = "ok")

\* A step of Device is one of WebServer and one of ConnectionManager.
Composed == [Next]_vars /\ [CMNext]_cmVars

LEMMA ReachedIs ==
  ASSUME StartInv, NEW i \in 1 .. 14, stage = Order[i]
  PROVE  Reached(i)
<1>1. PICK j \in 1 .. 14 : Reached(j)
  BY OrderIs DEF StartInv
<1> QED BY <1>1, OrderIs DEF Reached

LEMMA StartStart == DeviceInit => StartInv
<1> SUFFICES ASSUME DeviceInit PROVE StartInv
  OBVIOUS
<1>1. Reached(1)
  BY BuiltIs DEF DeviceInit, Reached, Order
<1>2. AddressInv
  BY DEF DeviceInit, AddressInv, AddressAsked
<1> QED BY <1>1, <1>2 DEF StartInv, DeviceInit

\* main goes on to the next stage, or gives up.
LEMMA GoesOn ==
  ASSUME StartInv, NEW i \in 1 .. 13, stage = Order[i],
         UNCHANGED <<ifName, interfaces, addressVars, told, info, initRc>>,
         \/ Reached(i)'
         \/ stage' = Order[i + 1] /\ Reached(i + 1)'
         \/ stage' = "exit" /\ libupnp' = {}
  PROVE  StartInv'
BY DEF StartInv, AddressInv, AddressAsked, addressVars

LEMMA NextReached ==
  ASSUME NEW i \in 1 .. 7, Reached(i), After(stage) = stage', UNCHANGED <<ifName, interfaces, libupnp>>,
         i = 2 => \E m \in ToSet(interfaces) :
                    ifName \in {None, m.name} /\ udn' = Merge(Macs[m.name]),
         i # 2 => udn' = udn,
         UNCHANGED <<todo, initRc, pending>>,
         i = 3 => todo = <<>>, i = 6 => initRc = "ok", i = 7 => pending = {}
  PROVE  stage' = Order[i + 1] /\ Reached(i + 1)'
<1>1. stage' = Order[i + 1] /\ libupnp' = Built(i + 1)
  <2>1. Built(i) = {} /\ Built(i + 1) = {}
    BY BuiltIs
  <2> QED BY <2>1, AfterIs DEF Reached
<1>2. i + 1 > 2 => \E m \in ToSet(interfaces) :
                     ifName \in {None, m.name} /\ udn' = Merge(Macs[m.name])
  BY DEF Reached
<1>3. /\ i + 1 > 3 => todo = <<>>
      /\ i + 1 > 6 => initRc = "ok"
      /\ i + 1 > 7 => pending = {}
  BY DEF Reached
<1> QED BY <1>1, <1>2, <1>3 DEF Reached

\* A turn of getIfInfo's loop.
LEMMA Considered ==
  ASSUME AddressInv, address = None, turn < Listed, Consider(interfaces[turn + 1]),
         turn' = turn + 1, UNCHANGED <<ifName, interfaces>>
  PROVE  AddressInv'
<1> DEFINE i == interfaces[turn + 1]
<1>1. /\ i \in ToSet(interfaces) /\ i.name \in STRING
  <2>1. interfaces \in Seq([name : STRING, usable : BOOLEAN, inet : BOOLEAN])
    BY HostsAssumption DEF AddressInv
  <2>2. turn \in Nat /\ turn + 1 \in 1 .. Len(interfaces)
    BY <2>1, HostsAssumption DEF AddressInv, Listed, Smaller
  <2>3. turn + 1 \in DOMAIN interfaces /\ i \in [name : STRING, usable : BOOLEAN, inet : BOOLEAN]
    BY <2>1, <2>2, LenProperties, ElementOfSeq
  <2> QED BY <2>3 DEF ToSet
<1> HIDE DEF i
<1>2. Consider(i)
  BY DEF i
<1>3. CASE UNCHANGED <<named, address>>
  BY <1>3 DEF AddressInv, AddressAsked
<1>4. CASE i.usable /\ named \in {None, i.name} /\ i.inet /\ named' = i.name /\ address' = i.name
  BY <1>1, <1>4 DEF AddressInv, AddressAsked
<1>5. CASE ~i.inet /\ named' = None /\ UNCHANGED address
  BY <1>1, <1>5 DEF AddressInv, AddressAsked
<1> QED BY <1>2, <1>3, <1>4, <1>5 DEF Consider

LEMMA StartStep ==
  ASSUME StartInv, Start
  PROVE  StartInv' /\ Composed /\ (Serving => UNCHANGED virtualFiles)
<1> USE DEF Goto, Composed
<1>0. /\ Order[1] = "config" /\ Order[2] = "mac" /\ Order[3] = "types" /\ Order[4] = "mpd"
      /\ Order[5] = "interface" /\ Order[6] = "services" /\ Order[7] = "files"
  BY DEF Order
<1>a. ASSUME NEW i \in 1 .. 7, stage = Order[i] PROVE ~Serving /\ libupnp = {} /\ Built(i + 1) = {}
  BY <1>a, ReachedIs, BuiltIs DEF Reached, Serving
<1>1. CASE Config
  <2> USE <1>1 DEF Config
  <2>1. Reached(1) /\ libupnp' = {} /\ ~Serving /\ stage' \in {Order[2], "exit"}
    BY <1>0, <1>a, ReachedIs, AfterIs
  <2>2. stage' = Order[2] => Reached(2)'
    BY <1>0, <2>1, <1>a, NextReached DEF vars, cmVars
  <2> QED BY <1>0, <2>1, <2>2, GoesOn DEF cmVars
<1>2. CASE ReadMac
  <2> USE <1>2 DEF ReadMac
  <2>1. Reached(2) /\ libupnp' = {} /\ ~Serving
    BY <1>0, <1>a, ReachedIs
  <2>2. CASE stage' = After("mac")
    <3>1. stage' = Order[3]
      BY <1>0, <2>2, AfterIs
    <3>2. PICK k \in 1 .. Len(Wanted) : Exists(Wanted[k]) /\ udn' = Merge(Macs[Wanted[k]])
      BY <1>0, <3>1, OrderIs
    <3>3. PICK m \in ToSet(interfaces) : m.name = Wanted[k]
      BY <3>2 DEF Exists
    <3>4. ifName \in {None, m.name}
      BY <3>3 DEF Wanted
    <3>5. Reached(3)'
      BY <1>0, <1>a, <2>1, <2>2, <3>1, <3>2, <3>3, <3>4, NextReached DEF vars, cmVars
    <3> QED BY <1>0, <2>1, <3>1, <3>5, GoesOn DEF cmVars
  <2>3. CASE stage' = "exit"
    BY <1>0, <2>1, <2>3, GoesOn DEF cmVars
  <2> QED BY <2>2, <2>3
<1>3. CASE RegisterTypes
  <2> USE <1>3 DEF RegisterTypes
  <2>1. Reached(3) /\ libupnp' = {} /\ ~Serving
    BY <1>0, <1>a, ReachedIs
  <2>2. CASE RegisterMimeType /\ UNCHANGED stage
    BY <1>0, <2>1, <2>2, BuiltIs, GoesOn DEF Reached, CMNext, RegisterMimeType
  <2>3. CASE todo = <<>> /\ stage' = After("types") /\ UNCHANGED cmVars
    <3>1. stage' = Order[4] /\ Reached(4)'
      BY <1>0, <1>a, <2>1, <2>3, NextReached DEF vars, cmVars
    <3> QED BY <1>0, <2>1, <2>3, <3>1, GoesOn DEF cmVars
  <2> QED BY <2>2, <2>3
<1>4. CASE ConnectMpd
  <2> USE <1>4 DEF ConnectMpd
  <2>1. Reached(4) /\ libupnp' = {} /\ ~Serving /\ stage' \in {Order[5], "exit"}
    BY <1>0, <1>a, ReachedIs, AfterIs
  <2>2. stage' = Order[5] => Reached(5)'
    BY <1>0, <1>a, <2>1, NextReached DEF vars, cmVars
  <2> QED BY <1>0, <2>1, <2>2, GoesOn DEF cmVars
<1>5. CASE FindAddress
  <2> USE <1>5 DEF FindAddress
  <2>1. Reached(5) /\ libupnp' = {} /\ ~Serving
    BY <1>0, <1>a, ReachedIs
  <2>2. CASE address = None /\ turn < Listed /\ Consider(interfaces[turn + 1])
             /\ turn' = turn + 1 /\ UNCHANGED stage
    <3>1. Reached(5)'
      BY <1>0, <2>1, <2>2, BuiltIs DEF Reached, cmVars
    <3>2. AddressInv'
      BY <2>2, Considered DEF StartInv
    <3> QED BY <2>1, <3>1, <3>2 DEF StartInv, cmVars
  <2>3. CASE address # None /\ stage' = After("interface") /\ UNCHANGED addressVars
    <3>1. stage' = Order[6] /\ Reached(6)'
      BY <1>0, <1>a, <2>1, <2>3, NextReached DEF vars, cmVars
    <3> QED BY <1>0, <2>1, <2>3, <3>1, GoesOn DEF cmVars
  <2>4. CASE stage' = "exit" /\ UNCHANGED addressVars
    BY <1>0, <2>1, <2>4, GoesOn DEF cmVars
  <2> QED BY <2>2, <2>3, <2>4
<1>6. CASE InitServices
  <2> USE <1>6 DEF InitServices
  <2>1. Reached(6) /\ libupnp' = {} /\ ~Serving /\ todo = <<>>
    BY <1>0, <1>a, ReachedIs DEF Reached
  <2>2. CASE (WriteEntry \/ Terminate \/ NoMemory) /\ UNCHANGED stage
    <3>1. Reached(6)' /\ CMNext
      BY <1>0, <2>1, <2>2, BuiltIs DEF Reached, CMNext, WriteEntry, Terminate, NoMemory
    <3>2. told' = {}
      BY <2>2 DEF StartInv, WriteEntry, Terminate, NoMemory
    <3> QED BY <2>1, <3>1, <3>2 DEF StartInv, AddressInv, AddressAsked, addressVars
  <2>3. CASE initRc = "ok" /\ stage' = After("services") /\ UNCHANGED cmVars
    <3>1. stage' = Order[7] /\ Reached(7)'
      BY <1>0, <1>a, <2>1, <2>3, NextReached DEF vars, cmVars
    <3> QED BY <1>0, <2>1, <2>3, <3>1, GoesOn DEF cmVars
  <2>4. CASE stage' = "exit" /\ UNCHANGED cmVars
    BY <1>0, <2>1, <2>4, GoesOn DEF cmVars
  <2> QED BY <2>2, <2>3, <2>4
<1>7. CASE RegisterFiles
  <2> USE <1>7 DEF RegisterFiles
  <2>1. Reached(7) /\ libupnp' = {} /\ ~Serving
    BY <1>0, <1>a, ReachedIs DEF Reached
  <2>2. CASE (\E f \in Files : Register(f)) /\ UNCHANGED stage
    <3>1. Reached(7)' /\ Next
      BY <1>0, <2>1, <2>2, BuiltIs DEF Reached, Next, cmVars
    <3> QED BY <1>0, <2>1, <3>1, GoesOn DEF cmVars
  <2>3. CASE pending = {} /\ stage' = After("files") /\ UNCHANGED vars
    <3>1. stage' = Order[8] /\ Reached(8)'
      BY <1>0, <1>a, <2>1, <2>3, NextReached DEF vars, cmVars
    <3> QED BY <1>0, <2>1, <2>3, <3>1, GoesOn DEF cmVars
  <2> QED BY <2>2, <2>3
<1>8. CASE CallLib
  <2> USE <1>8 DEF CallLib
  <2>1. PICK i \in 8 .. 13 : Reached(i)
    BY OrderIs, ReachedIs DEF StartInv, Reached, LibCalls
  <2>2. CASE stage' = After(stage) /\ libupnp' = libupnp \cup {stage}
    <3>1. stage' = Order[i + 1] /\ libupnp' = Built(i + 1)
      BY <2>1, <2>2, AfterIs, BuiltIs DEF Reached
    <3>2. Reached(i + 1)'
      BY <2>1, <3>1 DEF Reached, vars, cmVars
    <3> QED BY <2>1, <3>1, <3>2, GoesOn DEF Reached, vars, cmVars
  <2>3. CASE stage' = "exit" /\ libupnp' = {}
    BY <2>1, <2>3, GoesOn DEF Reached, vars, cmVars
  <2> QED BY <2>2, <2>3 DEF Exit
<1> QED
  BY <1>1, <1>2, <1>3, <1>4, <1>5, <1>6, <1>7, <1>8 DEF Start

LEMMA StartNext ==
  ASSUME StartInv, [DeviceNext]_allVars
  PROVE  StartInv' /\ Composed /\ (Serving => UNCHANGED virtualFiles)
<1>1. CASE Start
  BY <1>1, StartStep
<1>2. CASE TellProtocolInfo
  <2>1. PICK i \in 1 .. 14 : Reached(i)
    BY <1>2 DEF TellProtocolInfo, StartInv
  <2>2. Order[12] = "UpnpRegisterRootDevice2"
    BY DEF Order
  <2>3. initRc = "ok"
    BY <1>2, <2>1, <2>2, BuiltIs DEF TellProtocolInfo, Reached
  <2>4. Reached(i)'
    BY <1>2, <2>1 DEF TellProtocolInfo, Reached, vars, cmVars
  <2>5. told' \subseteq {info'} /\ AddressInv' /\ initRc' = initRc
    BY <1>2 DEF TellProtocolInfo, StartInv, AddressInv, AddressAsked, addressVars, cmVars
  <2> QED BY <1>2, <2>3, <2>4, <2>5 DEF StartInv, TellProtocolInfo, Composed, vars
<1>3. CASE \E t \in Transfers : Serve(t)
  <2>1. PICK t \in Transfers : Serve(t)
    BY <1>3
  <2>2. Next /\ UNCHANGED <<pending, virtualFiles>>
    BY <2>1 DEF Serve, Next, GetInfo, Open, Reads, Read, Close, Seek
  <2>3. UNCHANGED <<cmVars, deviceVars>>
    BY <2>1 DEF Serve
  <2>4. StartInv'
    BY <2>2, <2>3 DEF StartInv, Reached, AddressInv, AddressAsked, addressVars, deviceVars, cmVars
  <2> QED BY <2>2, <2>3, <2>4 DEF Composed
<1>4. CASE UNCHANGED allVars
  BY <1>4 DEF allVars, vars, StartInv, Reached, AddressInv, AddressAsked, addressVars, deviceVars,
     cmVars, Composed
<1> QED
  BY <1>1, <1>2, <1>3, <1>4 DEF DeviceNext, Gone
-----------------------------------------------------------------------------
DeviceInv == HandleInv /\ BufferInv /\ WrittenInv /\ StartInv

LEMMA DeviceHolds == DeviceSpec => []DeviceInv
<1>1. DeviceInit => DeviceInv
  BY HandleInit, BufferInit, WrittenStart, StartStart DEF DeviceInit, DeviceInv
<1>2. DeviceInv /\ [DeviceNext]_allVars => DeviceInv'
  BY StartNext, HandleNext, BufferStep, WrittenStep DEF DeviceInv, Composed
<1> QED BY <1>1, <1>2, PTL DEF DeviceSpec

\* The start of the renderer is a run of the web server and of the
\* ConnectionManager at once: what is proved of either holds of the whole.
THEOREM DeviceComposes == DeviceSpec => Spec /\ CMSpec
<1>1. DeviceInit => Init /\ CMInit
  BY DEF DeviceInit
<1>2. DeviceInv /\ [DeviceNext]_allVars => [Next]_vars /\ [CMNext]_cmVars
  BY StartNext DEF DeviceInv, Composed
<1> QED BY <1>1, <1>2, DeviceHolds, PTL DEF DeviceSpec, Spec, CMSpec

\* No transfer's position ever leaves the contents of its file, whatever it
\* reads or seeks (webserver_read, webserver_seek).
THEOREM ReadsCorrect == DeviceSpec => []ReadsInside
<1>1. DeviceInv => ReadsInside
  BY HandlesHelp DEF DeviceInv
<1> QED BY <1>1, DeviceHolds, PTL

\* What a client has read is its own file, in order and without a gap, and as
\* long as announced when it is read to the end from its beginning
\* (webserver_get_info, webserver_read, webserver_seek).
THEOREM FilesDelivered == DeviceSpec => []Delivered
<1>1. DeviceInv => Delivered
  BY HandlesHelp DEF DeviceInv
<1> QED BY <1>1, DeviceHolds, PTL

\* For every table of types: connmgr_init never writes past the end of its
\* buffer, and the terminator is inside it.
THEOREM BufferSafe == DeviceSpec => []InsideBuffer
<1>1. DeviceInv => InsideBuffer
  BY BufferHelps DEF DeviceInv
<1> QED BY <1>1, DeviceHolds, PTL

\* For every table of types, with whatever repetitions: no type is listed
\* twice (register_mime_type_internal).
THEOREM TypesListedOnce == DeviceSpec => []TypesOnce
BY DeviceComposes, OnceKept, PTL

\* All variables stay in their types.
THEOREM DeviceTyped == DeviceSpec => []DeviceTypeOK
<1>1. DeviceInv => DeviceTypeOK
  <2> SUFFICES ASSUME DeviceInv PROVE DeviceTypeOK
    OBVIOUS
  <2>1. WSTypeOK /\ CMTypeOK /\ StartInv
    BY DEF DeviceInv, HandleInv, BufferInv
  <2>2. stage \in {Order[i] : i \in 1 .. Len(Order)} \cup {"exit"} /\ libupnp \subseteq LibCalls
    BY <2>1, OrderIs, BuiltIs DEF StartInv, Reached
  <2> QED BY <2>1, <2>2 DEF DeviceTypeOK, StartInv, AddressInv
<1> QED BY <1>1, DeviceHolds, PTL

\* webserver.c's list needs no lock: it does not grow while libupnp can walk
\* it, because upnp_device_init registers every file before it sets the
\* callbacks (upnp_device_init).
THEOREM FilesAtRest == DeviceSpec => ListAtRest
<1>1. DeviceInv /\ [DeviceNext]_allVars => [Serving => UNCHANGED virtualFiles]_allVars
  BY StartNext DEF DeviceInv
<1> QED BY <1>1, DeviceHolds, PTL DEF DeviceSpec, ListAtRest

\* Every control point is told all types the output registered, whatever the
\* table, in one and the same list (get_protocol_info, connmgr_init,
\* register_mime_type, upnp_renderer_init).
THEOREM TypesToldWhole == DeviceSpec => []ToldTheTruth
<1>1. DeviceInv => ToldTheTruth
  BY DEF DeviceInv, StartInv, WrittenInv, ToldTheTruth
<1> QED BY <1>1, DeviceHolds, PTL

\* No device is announced without its files, its values and a name with one
\* of the host's hardware addresses in it (main, upnp_renderer_new,
\* upnp_device_init).
THEOREM AnnouncedIsWhole == DeviceSpec => []AnnouncedWhole
<1>1. DeviceInv => AnnouncedWhole
  <2> SUFFICES ASSUME DeviceInv, "UpnpSendAdvertisement" \in libupnp
               PROVE  /\ pending = {} /\ initRc = "ok"
                      /\ \E i \in ToSet(interfaces) :
                           /\ ifName \in {None, i.name}
                           /\ [k \in 0 .. 5 |-> <<udn[29 + 2 * k], udn[30 + 2 * k]>>]
                                = Digits(Macs[i.name])
    BY DEF AnnouncedWhole
  <2>1. PICK i \in 1 .. 14 : Reached(i)
    BY DEF DeviceInv, StartInv
  <2>2. i = 14
    <3>1. Order[13] = "UpnpSendAdvertisement"
      BY DEF Order
    <3> QED BY <2>1, <3>1, BuiltIs DEF Reached
  <2>3. PICK m \in ToSet(interfaces) : ifName \in {None, m.name} /\ udn = Merge(Macs[m.name])
    BY <2>1, <2>2 DEF Reached
  <2>4. [k \in 0 .. 5 |-> <<udn[29 + 2 * k], udn[30 + 2 * k]>>] = Digits(Macs[m.name])
    BY <2>3, MergedDigits
  <2>5. pending = {} /\ initRc = "ok"
    BY <2>1, <2>2 DEF Reached
  <2> QED BY <2>3, <2>4, <2>5, Zenon
<1> QED BY <1>1, DeviceHolds, PTL

\* libupnp is never started on the address of an interface nobody asked for
\* (getIfInfo).
THEOREM AddressIsAsked == DeviceSpec => []AddressAsked
<1>1. DeviceInv => AddressAsked
  BY DEF DeviceInv, StartInv, AddressInv
<1> QED BY <1>1, DeviceHolds, PTL

\* A start that fails leaves no thread of libupnp behind (upnp_err_out, and
\* every exit before UpnpInit).
THEOREM FailedStartStops == DeviceSpec => []StoppedOnExit
<1>1. DeviceInv => StoppedOnExit
  BY OrderIs DEF DeviceInv, StartInv, Reached, StoppedOnExit
<1> QED BY <1>1, DeviceHolds, PTL

=============================================================================
