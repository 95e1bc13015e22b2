------------------------ MODULE ActionDispatchProofs ------------------------
(***************************************************************************)
(* What is proved of ActionDispatch and of XmlEscape: every property of    *)
(* the dispatch of actions, and that an escaped text fits its buffer, has  *)
(* no markup left and is read back, for texts of every length.             *)
(*                                                                         *)
(* The loops of xmlescape and of the reader are recursive functions.  That *)
(* they have states at all, and what these are, follows by induction over  *)
(* the number of characters (Upwards), from the well-foundedness of < on   *)
(* the natural numbers.  The tables of the services are looked at once:    *)
(* at every place the handler and the arguments are Sound together, and    *)
(* the invariant is argued from that alone.                                *)
(***************************************************************************)
EXTENDS ActionDispatch, SequenceTheorems, WellFoundedInduction, TLAPS

(* Induction and loops.                                                    *)

\* Induction from 0 to N, over the set of the numbers that are good.
LEMMA Upwards ==
  ASSUME NEW N \in Nat, NEW Good, 0 \in Good,
         \A n \in 1 .. N : n - 1 \in Good => n \in Good
  PROVE  \A n \in 0 .. N : n \in Good
<1> DEFINE Less == {p \in Nat \X Nat : p[1] < p[2]}
           Bad == {n \in 0 .. N : n \notin Good}
<1>1. SUFFICES ASSUME Bad # {} PROVE FALSE
  OBVIOUS
<1>2. IsWellFoundedOn(Less, Nat)
  BY NatLessThanWellFounded DEF OpToRel
<1>3. Bad \subseteq Nat
  OBVIOUS
<1>4. PICK n \in Bad : \A m \in Bad : ~ (<<m, n>> \in Less)
  <2> HIDE DEF Less, Bad
  <2>q. QED BY <1>1, <1>2, <1>3, WFMin, Zenon
<1>5. n \in 1 .. N /\ n \notin Good
  OBVIOUS
<1>6. n - 1 \in Bad
  BY <1>5
<1>7. <<n - 1, n>> \in Less
  BY <1>5
<1>q. QED BY <1>4, <1>6, <1>7

\* f holds the states of a loop that begins with start and takes N steps.
IsLoop(f, N, start, step) ==
  f = [n \in 0 .. N |-> IF n = 0 THEN start ELSE step[<<f[n - 1], n>>]]

\* A loop that takes a state of S, step by step, N times further: its states
\* exist, and they are in S.
LEMMA LoopExists ==
  ASSUME NEW N \in Nat, NEW S, NEW start \in S, NEW step \in [S \X (1 .. N) -> S]
  PROVE  \E f : IsLoop(f, N, start, step)
<1> DEFINE Good == {k \in 0 .. N : \E f \in [0 .. k -> S] : IsLoop(f, k, start, step)}
<1>1. 0 \in Good
  <2> DEFINE f == [n \in 0 .. 0 |-> start]
  <2>1. f \in [0 .. 0 -> S] /\ IsLoop(f, 0, start, step) /\ 0 \in 0 .. N
    BY DEF IsLoop
  <2> HIDE DEF f
  <2>q. QED BY <2>1
<1>2. ASSUME NEW k \in 1 .. N, k - 1 \in Good
      PROVE  k \in Good
  <2>1. PICK g \in [0 .. k - 1 -> S] : IsLoop(g, k - 1, start, step)
    BY <1>2
  <2> DEFINE f == [n \in 0 .. k |-> IF n = k THEN step[<<g[k - 1], k>>] ELSE g[n]]
  <2>2. g[k - 1] \in S /\ step[<<g[k - 1], k>>] \in S
    BY <2>1
  <2>3. \A n \in 0 .. k : f[n] = IF n = 0 THEN start ELSE step[<<f[n - 1], n>>]
    <3> TAKE n \in 0 .. k
    <3>1. CASE n = k
      <4>1. n # 0 /\ n - 1 = k - 1 /\ k - 1 \in 0 .. k /\ k - 1 # k
        BY <3>1
      <4>2. f[n - 1] = g[k - 1] /\ f[n] = step[<<g[k - 1], k>>]
        BY <3>1, <4>1
      <4>q. QED BY <3>1, <4>1, <4>2
    <3>2. CASE n # k
      <4>1. n \in 0 .. k - 1
        BY <3>2
      <4>2. g[n] = IF n = 0 THEN start ELSE step[<<g[n - 1], n>>]
        BY <2>1, <4>1 DEF IsLoop
      <4>3. f[n] = g[n]
        BY <3>2
      <4>4. n # 0 => f[n - 1] = g[n - 1]
        BY <4>1
      <4>q. QED BY <4>2, <4>3, <4>4
    <3>q. QED BY <3>1, <3>2
  <2>4. f \in [0 .. k -> S] /\ k \in 0 .. N
    BY <2>1, <2>2
  <2> HIDE DEF f
  <2>5. IsLoop(f, k, start, step)
    BY <2>3, <2>4 DEF IsLoop
  <2>q. QED BY <2>4, <2>5
<1>3. \A k \in 0 .. N : k \in Good
  <2> HIDE DEF Good
  <2>q. QED BY <1>1, <1>2, Upwards
<1>q. QED BY <1>3

\* All the states of such a loop are in S.
LEMMA LoopStates ==
  ASSUME NEW N \in Nat, NEW S, NEW start \in S, NEW step \in [S \X (1 .. N) -> S],
         NEW f, IsLoop(f, N, start, step)
  PROVE  /\ f \in [0 .. N -> S]
         /\ f[0] = start
         /\ \A n \in 1 .. N : f[n] = step[<<f[n - 1], n>>]
<1> DEFINE Good == {n \in 0 .. N : f[n] \in S}
<1> USE DEF IsLoop
<1>1. 0 \in Good
  OBVIOUS
<1>2. \A n \in 1 .. N : n - 1 \in Good => n \in Good
  OBVIOUS
<1>3. \A n \in 0 .. N : n \in Good
  <2> HIDE DEF Good
  <2>q. QED BY <1>1, <1>2, Upwards
<1>q. QED BY <1>3

-----------------------------------------------------------------------------
(* Escaping and reading.                                                   *)

\* The characters of texts, and what xmlescape and the reader write themselves.
Symbols ==
  STRING \cup {"&", "l", "t", "g", "a", "m", "p", ";", "%", "2", "<", ">", "malformed"}

\* The ones that begin no markup.
Plain == Symbols \ {"<"}

LEMMA OneLong ==
  ASSUME NEW S, NEW a \in S PROVE <<a>> \in Seq(S) /\ Len(<<a>>) = 1
  OBVIOUS

LEMMA ThreeLong ==
  ASSUME NEW S, NEW a \in S, NEW b \in S, NEW c \in S
  PROVE  <<a, b, c>> \in Seq(S) /\ Len(<<a, b, c>>) = 3
  OBVIOUS

LEMMA FourLong ==
  ASSUME NEW S, NEW a \in S, NEW b \in S, NEW c \in S, NEW d \in S
  PROVE  <<a, b, c, d>> \in Seq(S) /\ Len(<<a, b, c, d>>) = 4
  OBVIOUS

LEMMA FiveLong ==
  ASSUME NEW S, NEW a \in S, NEW b \in S, NEW c \in S, NEW d \in S, NEW e \in S
  PROVE  <<a, b, c, d, e>> \in Seq(S) /\ Len(<<a, b, c, d, e>>) = 5
  OBVIOUS

LEMMA Joined ==
  ASSUME NEW S, NEW s \in Seq(S), NEW t \in Seq(S)
  PROVE  /\ s \o t \in Seq(S)
         /\ Len(s \o t) = Len(s) + Len(t)
         /\ \A i \in 1 .. Len(s) : (s \o t)[i] = s[i]
         /\ \A i \in 1 .. Len(t) : (s \o t)[Len(s) + i] = t[i]
  OBVIOUS

LEMMA Wider ==
  ASSUME NEW S, NEW T, S \subseteq T, NEW s \in Seq(S)
  PROVE  s \in Seq(T)
<1>1. Len(s) \in Nat /\ s \in [1 .. Len(s) -> S]
  OBVIOUS
<1>2. s \in [1 .. Len(s) -> T]
  BY <1>1
<1>q. QED
  BY <1>1, <1>2, SeqDef

LEMMA Replaced ==
  \A c \in Symbols, attribute \in BOOLEAN :
    /\ Replacement(c, attribute) \in Seq(Plain)
    /\ Len(Replacement(c, attribute)) = Width(c, attribute)
<1> TAKE c \in Symbols, attribute \in BOOLEAN
<1>s. /\ "&" \in Plain /\ "l" \in Plain /\ "t" \in Plain /\ "g" \in Plain /\ "a" \in Plain
      /\ "m" \in Plain /\ "p" \in Plain /\ ";" \in Plain /\ "%" \in Plain /\ "2" \in Plain
      /\ c # "<" => c \in Plain
  BY DEF Symbols, Plain
<1>1. CASE c = "<"
  <2>1. Replacement(c, attribute) = <<"&", "l", "t", ";">> /\ Width(c, attribute) = 4
    BY <1>1, Zenon DEF Replacement, Width
  <2>2. <<"&", "l", "t", ";">> \in Seq(Plain) /\ Len(<<"&", "l", "t", ";">>) = 4
    BY <1>s, FourLong
  <2>q. QED BY <2>1, <2>2
<1>2. CASE c = "\"" /\ attribute
  <2>1. Replacement(c, attribute) = <<"%", "2", "2">> /\ Width(c, attribute) = 3
    BY <1>2, Zenon DEF Replacement, Width
  <2>2. <<"%", "2", "2">> \in Seq(Plain) /\ Len(<<"%", "2", "2">>) = 3
    BY <1>s, ThreeLong
  <2>q. QED BY <2>1, <2>2
<1>3. CASE c = ">"
  <2>1. Replacement(c, attribute) = <<"&", "g", "t", ";">> /\ Width(c, attribute) = 4
    BY <1>3, Zenon DEF Replacement, Width
  <2>2. <<"&", "g", "t", ";">> \in Seq(Plain) /\ Len(<<"&", "g", "t", ";">>) = 4
    BY <1>s, FourLong
  <2>q. QED BY <2>1, <2>2
<1>4. CASE c = "&"
  <2>1. Replacement(c, attribute) = <<"&", "a", "m", "p", ";">> /\ Width(c, attribute) = 5
    BY <1>4, Zenon DEF Replacement, Width
  <2>2. <<"&", "a", "m", "p", ";">> \in Seq(Plain) /\ Len(<<"&", "a", "m", "p", ";">>) = 5
    BY <1>s, FiveLong
  <2>q. QED BY <2>1, <2>2
<1>5. CASE c \notin {"<", ">", "&"} /\ ~ (c = "\"" /\ attribute)
  <2>1. Replacement(c, attribute) = <<c>> /\ Width(c, attribute) = 1
    BY <1>5, Zenon DEF Replacement, Width
  <2>2. <<c>> \in Seq(Plain) /\ Len(<<c>>) = 1
    BY <1>5, <1>s, OneLong
  <2>q. QED BY <2>1, <2>2
<1>q. QED BY <1>1, <1>2, <1>3, <1>4, <1>5

\* The loop that fills the buffer.
LEMMA WrittenLoop ==
  ASSUME NEW text \in Seq(Symbols), NEW attribute \in BOOLEAN,
         NEW out, out = Written(text, attribute)
  PROVE  /\ out \in [0 .. Len(text) -> Seq(Plain)]
         /\ out[0] = <<>>
         /\ \A n \in 1 .. Len(text) : out[n] = out[n - 1] \o Replacement(text[n], attribute)
<1> DEFINE N == Len(text)
           step == [p \in Seq(Plain) \X (1 .. N) |-> p[1] \o Replacement(text[p[2]], attribute)]
           Is(f) == f = [n \in 0 .. N |->
                           IF n = 0 THEN <<>> ELSE f[n - 1] \o Replacement(text[n], attribute)]
<1>1. N \in Nat /\ <<>> \in Seq(Plain)
  OBVIOUS
<1>2. step \in [Seq(Plain) \X (1 .. N) -> Seq(Plain)]
  BY Replaced
<1>3. PICK f : IsLoop(f, N, <<>>, step)
  <2> HIDE DEF step, N
  <2>q. QED BY <1>1, <1>2, LoopExists
<1>t. f \in [0 .. N -> Seq(Plain)]
  <2> HIDE DEF step, N
  <2>q. QED BY <1>1, <1>2, <1>3, LoopStates
<1>4. Is(f)
  BY <1>3, <1>t DEF IsLoop
<1>5. Is(out)
  BY <1>4, Zenon DEF Written
<1>6. out \in [0 .. N -> Seq(Plain)]
  <2> DEFINE Good == {n \in 0 .. N : out[n] \in Seq(Plain)}
  <2>1. 0 \in Good
    BY <1>5
  <2>2. ASSUME NEW n \in 1 .. N, n - 1 \in Good
        PROVE  n \in Good
    <3>1. out[n - 1] \in Seq(Plain) /\ text[n] \in Symbols /\ n \in 0 .. N /\ n # 0
      BY <2>2
    <3>2. out[n] = out[n - 1] \o Replacement(text[n], attribute)
      BY <1>5, <3>1, Zenon
    <3>3. Replacement(text[n], attribute) \in Seq(Plain)
      BY <3>1, Replaced
    <3>4. out[n - 1] \o Replacement(text[n], attribute) \in Seq(Plain)
      BY <3>1, <3>3
    <3>q. QED BY <3>1, <3>2, <3>4
  <2>3. \A n \in 0 .. N : n \in Good
    <3> HIDE DEF Good, N
    <3>q. QED BY <1>1, <2>1, <2>2, Upwards
  <2>q. QED BY <1>5, <2>3
<1>7. \A n \in 0 .. N :
        out[n] = IF n = 0 THEN <<>> ELSE out[n - 1] \o Replacement(text[n], attribute)
  BY <1>5, Zenon
<1>8. 0 \in 0 .. N /\ \A n \in 1 .. N : n \in 0 .. N /\ n # 0
  OBVIOUS
<1>q. QED
  BY <1>6, <1>7, <1>8, Zenon

\* The loop that finds the length.
LEMMA CountedLoop ==
  ASSUME NEW text \in Seq(Symbols), NEW attribute \in BOOLEAN,
         NEW len, len = Counted(text, attribute)
  PROVE  /\ len \in [0 .. Len(text) -> Nat]
         /\ len[0] = 0
         /\ \A n \in 1 .. Len(text) : len[n] = len[n - 1] + Width(text[n], attribute)
<1> DEFINE N == Len(text)
           step == [p \in Nat \X (1 .. N) |-> p[1] + Width(text[p[2]], attribute)]
           Is(f) == f = [n \in 0 .. N |-> IF n = 0 THEN 0 ELSE f[n - 1] + Width(text[n], attribute)]
<1>1. N \in Nat /\ 0 \in Nat
  OBVIOUS
<1>w. \A c \in Symbols : Width(c, attribute) \in Nat
  BY Replaced
<1>2. step \in [Nat \X (1 .. N) -> Nat]
  BY <1>w
<1>3. PICK f : IsLoop(f, N, 0, step)
  <2> HIDE DEF step, N
  <2>q. QED BY <1>1, <1>2, LoopExists
<1>4. f \in [0 .. N -> Nat]
  <2> HIDE DEF step, N
  <2>q. QED BY <1>1, <1>2, <1>3, LoopStates
<1>5. Is(f)
  <2>1. \A n \in 1 .. N : step[<<f[n - 1], n>>] = f[n - 1] + Width(text[n], attribute)
    <3>1. \A n \in 1 .. N : <<f[n - 1], n>> \in Nat \X (1 .. N)
      BY <1>4
    <3>q. QED BY <3>1
  <2>2. \A n \in 0 .. N : n = 0 \/ n \in 1 .. N
    OBVIOUS
  <2> HIDE DEF step, N
  <2>q. QED BY <1>3, <2>1, <2>2 DEF IsLoop
<1>6. Is(len)
  BY <1>5, Zenon DEF Counted
<1>7. len \in [0 .. N -> Nat]
  <2> DEFINE Good == {n \in 0 .. N : len[n] \in Nat}
  <2>1. 0 \in Good
    BY <1>6
  <2>2. ASSUME NEW n \in 1 .. N, n - 1 \in Good
        PROVE  n \in Good
    <3>1. text[n] \in Symbols /\ n \in 0 .. N /\ n # 0
      OBVIOUS
    <3>q. QED BY <1>6, <1>w, <2>2, <3>1
  <2>3. \A n \in 0 .. N : n \in Good
    <3> HIDE DEF Good, N
    <3>q. QED BY <1>1, <2>1, <2>2, Upwards
  <2>q. QED BY <1>6, <2>3
<1>q. QED
  BY <1>6, <1>7

\* The states of the reader.
Readers == [text : Seq(Symbols), name : Seq(Symbols)]

LEMMA Entities == \A name : Entity(name) \in Symbols
<1> TAKE name
<1>1. Entity(name) \in {"<", ">", "&", "malformed"}
  BY Zenon DEF Entity
<1>q. QED BY <1>1 DEF Symbols

LEMMA ReaderStep ==
  ASSUME NEW reader \in Readers, NEW c \in Symbols
  PROVE  ReadCharacter(reader, c) \in Readers
<1>s. /\ reader.text \in Seq(Symbols) /\ reader.name \in Seq(Symbols)
      /\ reader = [text |-> reader.text, name |-> reader.name]
      /\ <<>> \in Seq(Symbols) /\ <<c>> \in Seq(Symbols)
      /\ \A s \in Seq(Symbols), d \in Symbols : Append(s, d) \in Seq(Symbols)
  BY DEF Readers
<1> HIDE DEF Readers
<1>t. \A t, m \in Seq(Symbols) : [text |-> t, name |-> m] \in Readers
  BY DEF Readers
<1>1. CASE reader.name = <<>> /\ c = "&"
  <2>1. ReadCharacter(reader, c) = [text |-> reader.text, name |-> <<c>>]
    BY <1>1, <1>s DEF ReadCharacter
  <2>q. QED BY <1>s, <1>t, <2>1
<1>2. CASE reader.name = <<>> /\ c # "&"
  <2>1. ReadCharacter(reader, c) = [text |-> Append(reader.text, c), name |-> reader.name]
    BY <1>2, <1>s DEF ReadCharacter
  <2>q. QED BY <1>s, <1>t, <2>1
<1>3. CASE reader.name # <<>> /\ c = ";"
  <2>1. ReadCharacter(reader, c) = [text |-> Append(reader.text, Entity(reader.name)), name |-> <<>>]
    BY <1>3 DEF ReadCharacter
  <2>q. QED BY <1>s, <1>t, <2>1, Entities
<1>4. CASE reader.name # <<>> /\ c # ";"
  <2>1. ReadCharacter(reader, c) = [text |-> reader.text, name |-> Append(reader.name, c)]
    BY <1>4, <1>s DEF ReadCharacter
  <2>q. QED BY <1>s, <1>t, <2>1
<1>q. QED BY <1>1, <1>2, <1>3, <1>4

LEMMA ReadingLoop ==
  ASSUME NEW text \in Seq(Symbols), NEW reader, reader = Reading(text)
  PROVE  /\ reader \in [0 .. Len(text) -> Readers]
         /\ reader[0] = [text |-> <<>>, name |-> <<>>]
         /\ \A n \in 1 .. Len(text) : reader[n] = ReadCharacter(reader[n - 1], text[n])
<1> DEFINE N == Len(text)
           start == [text |-> <<>>, name |-> <<>>]
           step == [p \in Readers \X (1 .. N) |-> ReadCharacter(p[1], text[p[2]])]
           Is(f) == f = [n \in 0 .. N |-> IF n = 0 THEN start ELSE ReadCharacter(f[n - 1], text[n])]
<1>1. N \in Nat /\ start \in Readers
  BY DEF Readers
<1>2. step \in [Readers \X (1 .. N) -> Readers]
  BY ReaderStep
<1>3. PICK f : IsLoop(f, N, start, step)
  <2> HIDE DEF step, N, start
  <2>q. QED BY <1>1, <1>2, LoopExists
<1>4. f \in [0 .. N -> Readers]
  <2> HIDE DEF step, N, start
  <2>q. QED BY <1>1, <1>2, <1>3, LoopStates
<1>5. Is(f)
  <2>1. \A n \in 1 .. N : step[<<f[n - 1], n>>] = ReadCharacter(f[n - 1], text[n])
    BY <1>4
  <2>2. \A n \in 0 .. N : n = 0 \/ n \in 1 .. N
    OBVIOUS
  <2> HIDE DEF start, step, N
  <2>q. QED BY <1>3, <2>1, <2>2 DEF IsLoop
<1>6. Is(reader)
  BY <1>5, Zenon DEF Reading
<1>7. \A n \in 0 .. N : reader[n] = IF n = 0 THEN start ELSE ReadCharacter(reader[n - 1], text[n])
  BY <1>6, Zenon
<1> HIDE DEF start
<1>8. reader \in [0 .. N -> Readers]
  <2> DEFINE Good == {n \in 0 .. N : reader[n] \in Readers}
  <2>1. 0 \in Good
    BY <1>1, <1>7
  <2>2. ASSUME NEW n \in 1 .. N, n - 1 \in Good
        PROVE  n \in Good
    <3>1. reader[n - 1] \in Readers /\ text[n] \in Symbols /\ n \in 0 .. N /\ n # 0
      BY <2>2
    <3>q. QED BY <1>7, <3>1, ReaderStep
  <2>3. \A n \in 0 .. N : n \in Good
    <3> HIDE DEF Good, N
    <3>q. QED BY <1>1, <2>1, <2>2, Upwards
  <2>q. QED BY <1>6, <2>3
<1>9. 0 \in 0 .. N /\ \A n \in 1 .. N : n \in 0 .. N /\ n # 0
  OBVIOUS
<1>q. QED
  BY <1>7, <1>8, <1>9, Zenon DEF start

\* The text is as long as the first pass has counted.
LEMMA SizeMatches ==
  ASSUME NEW text \in Seq(Symbols), NEW attribute \in BOOLEAN
  PROVE  /\ Escape(text, attribute) \in Seq(Plain)
         /\ Len(Escape(text, attribute)) + 1 = Allocated(text, attribute)
<1> DEFINE N == Len(text)
           out == Written(text, attribute)
           len == Counted(text, attribute)
           Good == {n \in 0 .. N : Len(out[n]) = len[n]}
<1>1. /\ out \in [0 .. N -> Seq(Plain)]
      /\ out[0] = <<>>
      /\ \A n \in 1 .. N : out[n] = out[n - 1] \o Replacement(text[n], attribute)
  BY WrittenLoop
<1>2. /\ len \in [0 .. N -> Nat]
      /\ len[0] = 0
      /\ \A n \in 1 .. N : len[n] = len[n - 1] + Width(text[n], attribute)
  BY CountedLoop
<1>n. N \in Nat /\ \A n \in 1 .. N : text[n] \in Symbols
  OBVIOUS
<1> HIDE DEF out, len, N
<1>3. 0 \in Good
  BY <1>1, <1>2, <1>n
<1>4. ASSUME NEW n \in 1 .. N, n - 1 \in Good
      PROVE  n \in Good
  <2>1. out[n - 1] \in Seq(Plain) /\ Len(out[n - 1]) = len[n - 1]
    BY <1>1, <1>4, <1>n
  <2>2. /\ Replacement(text[n], attribute) \in Seq(Plain)
        /\ Len(Replacement(text[n], attribute)) = Width(text[n], attribute)
    BY <1>n, Replaced
  <2>3. Len(out[n - 1] \o Replacement(text[n], attribute))
          = Len(out[n - 1]) + Len(Replacement(text[n], attribute))
    BY <2>1, <2>2, Joined
  <2>4. out[n] = out[n - 1] \o Replacement(text[n], attribute)
    BY <1>1
  <2>5. Len(out[n]) = len[n]
    BY <1>2, <2>1, <2>2, <2>3, <2>4
  <2>6. n \in 0 .. N
    BY <1>n
  <2>q. QED BY <2>5, <2>6
<1>5. \A n \in 0 .. N : n \in Good
  <2> HIDE DEF Good
  <2>q. QED BY <1>3, <1>4, <1>n, Upwards
<1>6. N \in 0 .. N
  BY <1>n
<1>7. Len(out[N]) = len[N] /\ out[N] \in Seq(Plain)
  BY <1>1, <1>5, <1>6
<1>q. QED
  BY <1>7 DEF Escape, Allocated, out, len, N

\* No "<" is left in it.
LEMMA NoMarkup ==
  ASSUME NEW text \in Seq(Symbols), NEW attribute \in BOOLEAN
  PROVE  "<" \notin ToSet(Escape(text, attribute))
<1>1. Escape(text, attribute) \in Seq(Plain)
  BY SizeMatches
<1>q. QED
  BY <1>1 DEF ToSet, Plain

\* s is the beginning of t.
Begins(s, t) == Len(s) <= Len(t) /\ \A i \in 1 .. Len(s) : t[i] = s[i]

\* What has been written stays.
LEMMA WrittenStays ==
  ASSUME NEW text \in Seq(Symbols), NEW attribute \in BOOLEAN, NEW n \in 0 .. Len(text)
  PROVE  Begins(Written(text, attribute)[n], Escape(text, attribute))
<1> DEFINE N == Len(text)
           out == Written(text, attribute)
           Good == {k \in 0 .. N : \A m \in 0 .. k : Begins(out[m], out[k])}
<1>1. /\ out \in [0 .. N -> Seq(Plain)]
      /\ \A k \in 1 .. N : out[k] = out[k - 1] \o Replacement(text[k], attribute)
  BY WrittenLoop
<1>n. N \in Nat /\ n \in 0 .. N /\ \A k \in 1 .. N : text[k] \in Symbols
  OBVIOUS
<1> HIDE DEF out, N
<1>2. \A k \in 0 .. N : Begins(out[k], out[k])
  BY <1>1 DEF Begins
<1>3. 0 \in Good
  BY <1>2, <1>n
<1>4. ASSUME NEW k \in 1 .. N, k - 1 \in Good
      PROVE  k \in Good
  <2>1. out[k - 1] \in Seq(Plain) /\ Replacement(text[k], attribute) \in Seq(Plain)
    BY <1>1, <1>n, Replaced
  <2>2. Begins(out[k - 1], out[k - 1] \o Replacement(text[k], attribute))
    <3>1. \A s, r \in Seq(Plain) : Begins(s, s \o r)
      BY DEF Begins
    <3>q. QED BY <2>1, <3>1
  <2>3. Begins(out[k - 1], out[k])
    BY <1>1, <2>2
  <2>4. \A m \in 0 .. k - 1 : Begins(out[m], out[k])
    <3> TAKE m \in 0 .. k - 1
    <3>1. Begins(out[m], out[k - 1])
      BY <1>4
    <3>2. out[m] \in Seq(Plain) /\ out[k - 1] \in Seq(Plain) /\ out[k] \in Seq(Plain)
      BY <1>1, <1>n
    <3>q. QED BY <2>3, <3>1, <3>2 DEF Begins
  <2>5. k \in 0 .. N /\ \A m \in 0 .. k : m = k \/ m \in 0 .. k - 1
    BY <1>n
  <2>q. QED BY <1>2, <2>4, <2>5
<1>5. \A k \in 0 .. N : k \in Good
  <2> HIDE DEF Good
  <2>q. QED BY <1>3, <1>4, <1>n, Upwards
<1>6. N \in 0 .. N
  BY <1>n
<1>7. Begins(out[n], out[N])
  BY <1>5, <1>6, <1>n
<1>q. QED
  BY <1>7 DEF Escape, out, N

\* One step of the reader outside and inside an entity.
Reader(text, name) == [text |-> text, name |-> name]
Longer(s, c) == Append(s, c)
Ends(c) == c = ";"
Began(name) == name # <<>>

LEMMA ReadBegin == \A t : ReadCharacter(Reader(t, <<>>), "&") = Reader(t, <<"&">>)
  BY DEF ReadCharacter, Reader

LEMMA ReadPlain ==
  \A t, c : c # "&" => ReadCharacter(Reader(t, <<>>), c) = Reader(Longer(t, c), <<>>)
  BY DEF ReadCharacter, Reader, Longer

LEMMA ReadOn ==
  \A t, name, c, longer : Began(name) /\ ~ Ends(c) /\ longer = Longer(name, c) =>
    ReadCharacter(Reader(t, name), c) = Reader(t, longer)
  BY DEF ReadCharacter, Reader, Longer, Began, Ends

LEMMA ReadEnd ==
  \A t, name, c : Began(name) /\ Ends(c) =>
    ReadCharacter(Reader(t, name), c) = Reader(Longer(t, Entity(name)), <<>>)
  BY DEF ReadCharacter, Reader, Longer, Began, Ends

LEMMA TwoAppended ==
  ASSUME NEW a, NEW b
  PROVE  Append(<<a>>, b) = <<a, b>> /\ <<a, b>> # <<>>
<1> DEFINE S == {a, b}
<1>1. <<a>> \in Seq(S) /\ <<a, b>> \in Seq(S) /\ b \in S
  OBVIOUS
<1>2. Append(<<a>>, b) \in Seq(S) /\ Len(Append(<<a>>, b)) = 2 /\ Len(<<a, b>>) = 2
  OBVIOUS
<1>3. \A i \in 1 .. 2 : Append(<<a>>, b)[i] = <<a, b>>[i]
  OBVIOUS
<1> HIDE DEF S
<1>q. QED
  BY <1>1, <1>2, <1>3, SeqEqual

LEMMA ThreeAppended ==
  ASSUME NEW a, NEW b, NEW c
  PROVE  Append(<<a, b>>, c) = <<a, b, c>> /\ <<a, b, c>> # <<>>
<1> DEFINE S == {a, b, c}
<1>1. <<a, b>> \in Seq(S) /\ <<a, b, c>> \in Seq(S) /\ c \in S
  OBVIOUS
<1>2. Append(<<a, b>>, c) \in Seq(S) /\ Len(Append(<<a, b>>, c)) = 3 /\ Len(<<a, b, c>>) = 3
  OBVIOUS
<1>3. \A i \in 1 .. 3 : Append(<<a, b>>, c)[i] = <<a, b, c>>[i]
  OBVIOUS
<1> HIDE DEF S
<1>q. QED
  BY <1>1, <1>2, <1>3, SeqEqual

LEMMA FourAppended ==
  ASSUME NEW a, NEW b, NEW c, NEW d
  PROVE  Append(<<a, b, c>>, d) = <<a, b, c, d>> /\ <<a, b, c, d>> # <<>>
<1> DEFINE S == {a, b, c, d}
<1>1. <<a, b, c>> \in Seq(S) /\ <<a, b, c, d>> \in Seq(S) /\ d \in S
  OBVIOUS
<1>2. Append(<<a, b, c>>, d) \in Seq(S) /\ Len(Append(<<a, b, c>>, d)) = 4 /\ Len(<<a, b, c, d>>) = 4
  OBVIOUS
<1>3. \A i \in 1 .. 4 : Append(<<a, b, c>>, d)[i] = <<a, b, c, d>>[i]
  OBVIOUS
<1> HIDE DEF S
<1>q. QED
  BY <1>1, <1>2, <1>3, SeqEqual

\* The reader takes the characters of r, beginning in its state m.
Takes(reader, m, r) ==
  \A i \in 1 .. Len(r) : reader[m + i] = ReadCharacter(reader[m + i - 1], r[i])

\* The reader over an entity with a name of two characters, and of three.
LEMMA ReadsTwo ==
  ASSUME NEW t, NEW m \in Nat, NEW reader, NEW n, n = "&", NEW a, NEW b, NEW e,
         ~ Ends(a), ~ Ends(b), Ends(e),
         reader[m] = Reader(t, <<>>), Takes(reader, m, <<n, a, b, e>>)
  PROVE  reader[m + 4] = Reader(Longer(t, Entity(<<n, a, b>>)), <<>>)
<1> DEFINE r == <<n, a, b, e>>
           n1 == <<n>>
           n2 == <<n, a>>
           n3 == <<n, a, b>>
           r0 == reader[m]
           r1 == reader[m + 1]
           r2 == reader[m + 2]
           r3 == reader[m + 3]
           r4 == reader[m + 4]
<1>1. 1 \in 1 .. Len(r) /\ 2 \in 1 .. Len(r) /\ 3 \in 1 .. Len(r) /\ 4 \in 1 .. Len(r)
  OBVIOUS
<1>2. r[1] = n /\ r[2] = a /\ r[3] = b /\ r[4] = e
  OBVIOUS
<1>3. \A i \in 1 .. Len(r) : reader[m + i] = ReadCharacter(reader[m + i - 1], r[i])
  BY Zenon DEF Takes
<1>4. m + 1 - 1 = m /\ m + 2 - 1 = m + 1 /\ m + 3 - 1 = m + 2 /\ m + 4 - 1 = m + 3
  OBVIOUS
<1>5. Began(n1) /\ Began(n2) /\ Began(n3) /\ Longer(n1, a) = n2 /\ Longer(n2, b) = n3
  BY TwoAppended, ThreeAppended DEF Longer, Began
<1> HIDE DEF r
<1>6. /\ r1 = ReadCharacter(r0, n) /\ r2 = ReadCharacter(r1, a) /\ r3 = ReadCharacter(r2, b)
      /\ r4 = ReadCharacter(r3, e)
  BY <1>1, <1>2, <1>3, <1>4, Zenon
<1>7. r0 = Reader(t, <<>>) /\ n1 = <<n>>
  OBVIOUS
<1> HIDE DEF r0, r1, r2, r3, r4, n1, n2, n3
<1>8. r1 = Reader(t, n1)
  BY <1>6, <1>7, ReadBegin, Zenon
<1>9. r2 = Reader(t, n2)
  <2>1. Began(n1) /\ n2 = Longer(n1, a) /\ ~ Ends(a)
    BY <1>5, Zenon
  <2>2. ReadCharacter(Reader(t, n1), a) = Reader(t, n2)
    BY <2>1, ReadOn, Zenon
  <2>q. QED BY <1>6, <1>8, <2>2, Zenon
<1>10. r3 = Reader(t, n3)
  <2>1. Began(n2) /\ n3 = Longer(n2, b) /\ ~ Ends(b)
    BY <1>5, Zenon
  <2>2. ReadCharacter(Reader(t, n2), b) = Reader(t, n3)
    BY <2>1, ReadOn, Zenon
  <2>q. QED BY <1>6, <1>9, <2>2, Zenon
<1>11. r4 = Reader(Longer(t, Entity(n3)), <<>>)
  BY <1>5, <1>6, <1>10, ReadEnd, Zenon
<1>q. QED
  BY <1>11 DEF r4, n3

LEMMA ReadsThree ==
  ASSUME NEW t, NEW m \in Nat, NEW reader, NEW n, n = "&", NEW a, NEW b, NEW c, NEW e,
         ~ Ends(a), ~ Ends(b), ~ Ends(c), Ends(e),
         reader[m] = Reader(t, <<>>), Takes(reader, m, <<n, a, b, c, e>>)
  PROVE  reader[m + 5] = Reader(Longer(t, Entity(<<n, a, b, c>>)), <<>>)
<1> DEFINE r == <<n, a, b, c, e>>
           n1 == <<n>>
           n2 == <<n, a>>
           n3 == <<n, a, b>>
           n4 == <<n, a, b, c>>
           r0 == reader[m]
           r1 == reader[m + 1]
           r2 == reader[m + 2]
           r3 == reader[m + 3]
           r4 == reader[m + 4]
           r5 == reader[m + 5]
<1>1. /\ 1 \in 1 .. Len(r) /\ 2 \in 1 .. Len(r) /\ 3 \in 1 .. Len(r) /\ 4 \in 1 .. Len(r)
      /\ 5 \in 1 .. Len(r)
  OBVIOUS
<1>2. r[1] = n /\ r[2] = a /\ r[3] = b /\ r[4] = c /\ r[5] = e
  OBVIOUS
<1>3. \A i \in 1 .. Len(r) : reader[m + i] = ReadCharacter(reader[m + i - 1], r[i])
  BY Zenon DEF Takes
<1>4. /\ m + 1 - 1 = m /\ m + 2 - 1 = m + 1 /\ m + 3 - 1 = m + 2 /\ m + 4 - 1 = m + 3
      /\ m + 5 - 1 = m + 4
  OBVIOUS
<1>5. /\ Began(n1) /\ Began(n2) /\ Began(n3) /\ Began(n4) /\ Longer(n1, a) = n2
      /\ Longer(n2, b) = n3 /\ Longer(n3, c) = n4
  BY TwoAppended, ThreeAppended, FourAppended DEF Longer, Began
<1> HIDE DEF r
<1>6. /\ r1 = ReadCharacter(r0, n) /\ r2 = ReadCharacter(r1, a) /\ r3 = ReadCharacter(r2, b)
      /\ r4 = ReadCharacter(r3, c) /\ r5 = ReadCharacter(r4, e)
  BY <1>1, <1>2, <1>3, <1>4, Zenon
<1>7. r0 = Reader(t, <<>>) /\ n1 = <<n>>
  OBVIOUS
<1> HIDE DEF r0, r1, r2, r3, r4, r5, n1, n2, n3, n4
<1>8. r1 = Reader(t, n1)
  BY <1>6, <1>7, ReadBegin, Zenon
<1>9. r2 = Reader(t, n2)
  <2>1. Began(n1) /\ n2 = Longer(n1, a) /\ ~ Ends(a)
    BY <1>5, Zenon
  <2>2. ReadCharacter(Reader(t, n1), a) = Reader(t, n2)
    BY <2>1, ReadOn, Zenon
  <2>q. QED BY <1>6, <1>8, <2>2, Zenon
<1>10. r3 = Reader(t, n3)
  <2>1. Began(n2) /\ n3 = Longer(n2, b) /\ ~ Ends(b)
    BY <1>5, Zenon
  <2>2. ReadCharacter(Reader(t, n2), b) = Reader(t, n3)
    BY <2>1, ReadOn, Zenon
  <2>q. QED BY <1>6, <1>9, <2>2, Zenon
<1>11. r4 = Reader(t, n4)
  <2>1. Began(n3) /\ n4 = Longer(n3, c) /\ ~ Ends(c)
    BY <1>5, Zenon
  <2>2. ReadCharacter(Reader(t, n3), c) = Reader(t, n4)
    BY <2>1, ReadOn, Zenon
  <2>q. QED BY <1>6, <1>10, <2>2, Zenon
<1>12. r5 = Reader(Longer(t, Entity(n4)), <<>>)
  BY <1>5, <1>6, <1>11, ReadEnd, Zenon
<1>q. QED
  BY <1>12 DEF r5, n4

LEMMA TakesOne ==
  ASSUME NEW m \in Nat, NEW reader, NEW n, Takes(reader, m, <<n>>)
  PROVE  reader[m + 1] = ReadCharacter(reader[m], n)
  BY DEF Takes

\* The entities written for a character, with a name of two characters or of three.
Short(c, n, a, b, e) ==
  /\ n = "&" /\ ~ Ends(a) /\ ~ Ends(b) /\ Ends(e)
  /\ Replacement(c, FALSE) = <<n, a, b, e>> /\ Width(c, FALSE) = 4 /\ Entity(<<n, a, b>>) = c

Long(c, n, a, b, d, e) ==
  /\ n = "&" /\ ~ Ends(a) /\ ~ Ends(b) /\ ~ Ends(d) /\ Ends(e)
  /\ Replacement(c, FALSE) = <<n, a, b, d, e>> /\ Width(c, FALSE) = 5
  /\ Entity(<<n, a, b, d>>) = c

\* What the reader makes of the replacement of a character is the character.
LEMMA ReadsReplacement ==
  ASSUME NEW c \in Symbols, NEW t, NEW m \in Nat, NEW reader,
         reader[m] = Reader(t, <<>>), Takes(reader, m, Replacement(c, FALSE))
  PROVE  reader[m + Width(c, FALSE)] = Reader(Longer(t, c), <<>>)
<1>n. /\ ~ Ends("l") /\ ~ Ends("g") /\ ~ Ends("t") /\ ~ Ends("a") /\ ~ Ends("m") /\ ~ Ends("p")
      /\ Ends(";")
  BY DEF Ends
<1>1. CASE \E n, a, b, e : Short(c, n, a, b, e)
  <2>1. PICK n, a, b, e : Short(c, n, a, b, e)
    BY <1>1
  <2>2. Takes(reader, m, <<n, a, b, e>>)
    BY <2>1, Zenon DEF Short
  <2>3. reader[m + 4] = Reader(Longer(t, Entity(<<n, a, b>>)), <<>>)
    <3>1. n = "&" /\ ~ Ends(a) /\ ~ Ends(b) /\ Ends(e)
      BY <2>1, Zenon DEF Short
    <3>q. QED BY <2>2, <3>1, ReadsTwo
  <2>q. QED BY <2>1, <2>3, Zenon DEF Short
<1>2. CASE \E n, a, b, d, e : Long(c, n, a, b, d, e)
  <2>1. PICK n, a, b, d, e : Long(c, n, a, b, d, e)
    BY <1>2
  <2>2. Takes(reader, m, <<n, a, b, d, e>>)
    BY <2>1, Zenon DEF Long
  <2>3. reader[m + 5] = Reader(Longer(t, Entity(<<n, a, b, d>>)), <<>>)
    <3>1. n = "&" /\ ~ Ends(a) /\ ~ Ends(b) /\ ~ Ends(d) /\ Ends(e)
      BY <2>1, Zenon DEF Long
    <3>q. QED BY <2>2, <3>1, ReadsThree
  <2>q. QED BY <2>1, <2>3, Zenon DEF Long
<1>3. CASE c \notin {"<", ">", "&"}
  <2>1. Replacement(c, FALSE) = <<c>> /\ Width(c, FALSE) = 1
    BY <1>3, Zenon DEF Replacement, Width
  <2>2. reader[m + 1] = ReadCharacter(reader[m], c)
    BY <2>1, TakesOne, Zenon
  <2>3. c # "&"
    BY <1>3
  <2>4. reader[m + 1] = Reader(Longer(t, c), <<>>)
    BY <2>2, <2>3, ReadPlain, Zenon
  <2>q. QED BY <2>1, <2>4, Zenon
<1>4. c = "<" => Short(c, "&", "l", "t", ";")
  BY <1>n, Zenon DEF Short, Replacement, Width, Entity
<1>5. c = ">" => Short(c, "&", "g", "t", ";")
  BY <1>n, Zenon DEF Short, Replacement, Width, Entity
<1>6. c = "&" => Long(c, "&", "a", "m", "p", ";")
  BY <1>n, Zenon DEF Long, Replacement, Width, Entity
<1>q. QED
  BY <1>1, <1>2, <1>3, <1>4, <1>5, <1>6, Zenon

\* t is what text begins with, up to k.
Beginning(t, text, k) ==
  t \in Seq(Symbols) /\ Len(t) = k /\ \A i \in 1 .. k : t[i] = text[i]

LEMMA BeginningLonger ==
  ASSUME NEW text \in Seq(Symbols), NEW k \in 1 .. Len(text), NEW t, Beginning(t, text, k - 1)
  PROVE  Beginning(Longer(t, text[k]), text, k)
<1> DEFINE c == text[k]
           u == Append(t, c)
<1>1. t \in Seq(Symbols) /\ Len(t) = k - 1 /\ c \in Symbols
  BY DEF Beginning
<1>2. u \in Seq(Symbols) /\ Len(u) = k /\ u[k] = c /\ \A i \in 1 .. k - 1 : u[i] = t[i]
  <2> HIDE DEF c
  <2>q. QED BY <1>1
<1>3. \A i \in 1 .. k - 1 : t[i] = text[i]
  BY DEF Beginning
<1>4. \A i \in 1 .. k : u[i] = text[i]
  <2>1. \A i \in 1 .. k : i = k \/ i \in 1 .. k - 1
    OBVIOUS
  <2> HIDE DEF u
  <2>q. QED BY <1>2, <1>3, <2>1, Zenon
<1>q. QED
  BY <1>2, <1>4 DEF Longer, Beginning

\* The reader finds in what was written the text as it was.
LEMMA ReadsBack ==
  ASSUME NEW text \in Seq(Symbols)
  PROVE  Read(Escape(text, FALSE)) = text
<1> DEFINE N == Len(text)
           out == Written(text, FALSE)
           e == Escape(text, FALSE)
           reader == Reading(e)
           At0(k) == \E t : Beginning(t, text, k) /\ reader[Len(out[k])] = Reader(t, <<>>)
           Good == {k \in 0 .. N : At0(k)}
<1>1. /\ out \in [0 .. N -> Seq(Plain)]
      /\ out[0] = <<>>
      /\ \A n \in 1 .. N : out[n] = out[n - 1] \o Replacement(text[n], FALSE)
  BY WrittenLoop
<1>2. e \in Seq(Plain) /\ Plain \subseteq Symbols /\ e = out[N]
  BY SizeMatches DEF Plain, Escape
<1>3. e \in Seq(Symbols)
  <2> HIDE DEF e
  <2>q. QED BY <1>2, Wider
<1>4. /\ reader[0] = Reader(<<>>, <<>>)
      /\ \A n \in 1 .. Len(e) : reader[n] = ReadCharacter(reader[n - 1], e[n])
  <2> HIDE DEF e
  <2>q. QED BY <1>3, ReadingLoop DEF Reader
<1>5. \A k \in 0 .. N : Begins(out[k], e)
  BY WrittenStays
<1>n. N \in Nat /\ \A k \in 1 .. N : text[k] \in Symbols
  OBVIOUS
<1> HIDE DEF out, e, reader, N
<1>6. 0 \in Good
  <2>1. Beginning(<<>>, text, 0)
    BY DEF Beginning
  <2>2. Len(out[0]) = 0
    BY <1>1
  <2>q. QED BY <1>4, <1>n, <2>1, <2>2
<1>7. ASSUME NEW k \in 1 .. N, k - 1 \in Good
      PROVE  k \in Good
  <2> DEFINE m == Len(out[k - 1])
             c == text[k]
             r == Replacement(c, FALSE)
  <2>1. PICK t : Beginning(t, text, k - 1) /\ reader[m] = Reader(t, <<>>)
    BY <1>7
  <2>k. k \in 0 .. N /\ k - 1 \in 0 .. N
    BY <1>n
  <2>2. out[k - 1] \in Seq(Plain) /\ r \in Seq(Plain) /\ c \in Symbols /\ Len(r) = Width(c, FALSE)
    <3>1. out[k - 1] \in Seq(Plain) /\ c \in Symbols
      BY <1>1, <1>n, <2>k, Zenon
    <3> HIDE DEF c
    <3>q. QED BY <3>1, Replaced
  <2>3. out[k] = out[k - 1] \o r /\ Begins(out[k], e) /\ k \in 0 .. N
    BY <1>1, <1>5, <2>k, Zenon
  <2>4. m \in Nat /\ Len(out[k]) = m + Len(r) /\ Len(r) \in Nat
    <3>1. \A s, u \in Seq(Plain) : Len(s) \in Nat /\ Len(s \o u) = Len(s) + Len(u)
      BY Joined
    <3> HIDE DEF r
    <3>q. QED BY <2>2, <2>3, <3>1, Zenon
  <2>5. Takes(reader, m, r)
    <3>1. ASSUME NEW i \in 1 .. Len(r)
          PROVE  reader[m + i] = ReadCharacter(reader[m + i - 1], r[i])
      <4>1. out[k][m + i] = r[i]
        <5>1. \A s, u \in Seq(Plain) : \A j \in 1 .. Len(u) : (s \o u)[Len(s) + j] = u[j]
          BY Joined
        <5> HIDE DEF r
        <5>q. QED BY <2>2, <2>3, <3>1, <5>1, Zenon
      <4>2. m + i \in 1 .. Len(out[k])
        <5> HIDE DEF m, r
        <5>q. QED BY <2>4
      <4>3. e[m + i] = out[k][m + i] /\ m + i \in 1 .. Len(e)
        <5>1. out[k] \in Seq(Plain)
          BY <1>1, <2>3
        <5> HIDE DEF m, r
        <5>q. QED BY <1>2, <2>3, <4>2, <5>1 DEF Begins
      <4>4. reader[m + i] = ReadCharacter(reader[m + i - 1], e[m + i])
        <5> DEFINE j == m + i
        <5>1. j \in 1 .. Len(e)
          BY <4>3
        <5> HIDE DEF j
        <5>2. reader[j] = ReadCharacter(reader[j - 1], e[j])
          BY <1>4, <5>1
        <5>q. QED BY <5>2 DEF j
      <4>q. QED BY <4>1, <4>3, <4>4, Zenon
    <3> HIDE DEF m, r
    <3>q. QED BY <3>1 DEF Takes
  <2>6. reader[m + Width(c, FALSE)] = Reader(Longer(t, c), <<>>)
    <3> HIDE DEF m, c
    <3>q. QED BY <2>1, <2>2, <2>4, <2>5, ReadsReplacement
  <2>7. Beginning(Longer(t, c), text, k)
    BY <2>1, BeginningLonger DEF N
  <2>8. reader[Len(out[k])] = Reader(Longer(t, c), <<>>)
    BY <2>2, <2>4, <2>6
  <2> HIDE DEF m, c
  <2>q. QED BY <2>3, <2>7, <2>8
<1>8. \A k \in 0 .. N : k \in Good
  <2> HIDE DEF Good
  <2>q. QED BY <1>6, <1>7, <1>n, Upwards
<1>9. At0(N)
  BY <1>8, <1>n
<1>10. PICK t : Beginning(t, text, N) /\ reader[Len(e)] = Reader(t, <<>>)
  BY <1>2, <1>9
<1>11. Read(e) = t
  <2>1. Read(e) = reader[Len(e)].text
    BY DEF Read, reader
  <2>q. QED BY <1>10, <2>1 DEF Reader
<1>12. t = text
  BY <1>10, SeqEqual DEF Beginning, N
<1>q. QED
  BY <1>11, <1>12 DEF e
-----------------------------------------------------------------------------
(* What the tables are like.                                               *)

\* The steps that command the player or set a variable as asked.
Changing == {"work", "switch", "store"}

\* A handler commands something once, after it has checked all that its
\* arguments a ask for, and then at most looks at the metadata it can do
\* without.
ChecksFirst(e, a) ==
  \A j \in 1 .. Len(e.script) : e.script[j].op \in Changing =>
    /\ \E i \in 1 .. j - 1 : e.script[i].op = "instance"
    /\ \A name \in a.in \ (Optional \cup {"InstanceID"}) :
         \E i \in 1 .. j - 1 : e.script[i].op = "argument" /\ e.script[i].name = name
    /\ \A i \in 1 .. j - 1 : e.script[i].op \in {"instance", "argument", "link"}
    /\ \A i \in j + 1 .. Len(e.script) :
         /\ e.script[i].op = "argument_on" /\ e.script[i].name = "CurrentURIMetaData"
         /\ e.name = "SetAVTransportURI"

\* The handler that goes on without an instance appends to the answer next.
AppendsNext(e) ==
  \A j \in 1 .. Len(e.script) : e.script[j].op = "instance_on" =>
    j + 1 \in 1 .. Len(e.script) /\ e.script[j + 1].op = "add"

\* No state the player is found in leads to the cases that only set an error.
Allows(e) ==
  \A j \in 1 .. Len(e.script) : e.script[j].op = "switch" =>
    \A state \in TransportStates : Cases[e.script[j].name][state] \in {"nothing", "work"}

\* The steps before the appends.
Before(e, a) == Len(e.script) - Len(a.out)

AddOp(e) == IF e.name \in Careless THEN "add_on" ELSE "add"

\* The appends are the last steps of a handler, and they are what its
\* arguments describe; only a handler without any checks the connection.
Describes(e, a) ==
  /\ Len(a.out) \in Nat /\ Before(e, a) \in Nat
  /\ \A j \in 1 .. Len(e.script) :
       e.script[j].op \in {"add", "add_on"} => j > Before(e, a) /\ e.script[j].op = AddOp(e)
  /\ \A i \in 1 .. Len(a.out) :
       /\ e.script[Before(e, a) + i] = Step(AddOp(e), a.out[i][1], a.out[i][2])
       /\ a.out[i] = <<a.out[i][1], a.out[i][2]>>
  /\ \A j \in 1 .. Len(e.script) : e.script[j].op = "link" => Len(a.out) = 0

Careful(e) == e.name \notin Deviating /\ e.script # NoHandler

\* The action e of a table and the arguments a at its place in the other.
Sound(e, a) ==
  /\ Len(e.script) \in Nat /\ DOMAIN e.script = 1 .. Len(e.script)
  /\ a.out \in Seq(ToSet(a.out))
  /\ ChecksFirst(e, a) /\ AppendsNext(e) /\ Allows(e)
  /\ Careful(e) => Describes(e, a)

\* A list of outputs: pairs.
Outs(outs) ==
  /\ outs \in Seq(ToSet(outs))
  /\ \A i \in 1 .. Len(outs) : outs[i] = <<outs[i][1], outs[i][2]>>

\* The steps adds append outs with op.
Appends(adds, op, outs) ==
  /\ adds \in Seq(ToSet(adds)) /\ Len(adds) = Len(outs)
  /\ \A i \in 1 .. Len(outs) : adds[i] = Step(op, outs[i][1], outs[i][2])

LEMMA AddsParts ==
  ASSUME NEW outs, Outs(outs)
  PROVE  Appends(Adds(outs), "add", outs) /\ Appends(AddsOn(outs), "add_on", outs)
<1>1. Len(outs) \in Nat /\ DOMAIN outs = 1 .. Len(outs)
  BY DEF Outs
<1>2. /\ Adds(outs) = [i \in 1 .. Len(outs) |-> Step("add", outs[i][1], outs[i][2])]
      /\ AddsOn(outs) = [i \in 1 .. Len(outs) |-> Step("add_on", outs[i][1], outs[i][2])]
  BY <1>1 DEF Adds, AddsOn
<1>q. QED
  BY <1>1, <1>2 DEF ToSet, Appends

LEMMA JoinedAs ==
  ASSUME NEW S, NEW s \in Seq(S), NEW t \in Seq(S), NEW r, r = s \o t
  PROVE  /\ r \in Seq(S) /\ Len(r) = Len(s) + Len(t)
         /\ \A i \in 1 .. Len(s) : r[i] = s[i]
         /\ \A i \in 1 .. Len(t) : r[Len(s) + i] = t[i]
  BY Joined

\* A handler that makes some checks and appends.
LEMMA SoundReader ==
  ASSUME NEW e, NEW a, NEW checks, NEW adds, NEW outs, NEW op \in {"add", "add_on"},
         Outs(outs), Outs(a.out), Appends(adds, op, outs),
         e.script = checks \o adds, checks \in Seq(ToSet(checks)),
         \A j \in 1 .. Len(checks) :
           /\ checks[j].op \in {"instance", "argument", "instance_on", "report"}
           /\ checks[j].op = "instance_on" => j = Len(checks) /\ op = "add" /\ Len(outs) # 0,
         e.name \notin Deviating => a.out = outs /\ op = AddOp(e)
  PROVE  Sound(e, a)
<1> DEFINE S == ToSet(checks) \cup ToSet(adds)
           n == Len(outs)
           k == Len(checks)
<1>1. n \in Nat /\ k \in Nat /\ a.out \in Seq(ToSet(a.out))
  BY DEF Outs
<1>2. adds \in Seq(S) /\ checks \in Seq(S) /\ Len(adds) = n
  BY Wider, Zenon DEF Appends
<1>3. \A i \in 1 .. n : adds[i] = Step(op, outs[i][1], outs[i][2])
  BY DEF Appends
<1> HIDE DEF S, n, k
<1>4. /\ e.script \in Seq(S) /\ Len(e.script) = k + n
      /\ \A i \in 1 .. k : e.script[i] = checks[i]
      /\ \A i \in 1 .. n : e.script[k + i] = adds[i]
  <2>1. /\ e.script \in Seq(S)
        /\ Len(e.script) = Len(checks) + Len(adds)
        /\ \A i \in 1 .. Len(checks) : e.script[i] = checks[i]
        /\ \A i \in 1 .. Len(adds) : e.script[Len(checks) + i] = adds[i]
    <3> DEFINE script == e.script
    <3>1. script = checks \o adds
      OBVIOUS
    <3> HIDE DEF script
    <3>2. /\ script \in Seq(S)
          /\ Len(script) = Len(checks) + Len(adds)
          /\ \A i \in 1 .. Len(checks) : script[i] = checks[i]
          /\ \A i \in 1 .. Len(adds) : script[Len(checks) + i] = adds[i]
      BY <1>2, <3>1, JoinedAs
    <3>q. QED BY <3>2 DEF script
  <2>2. k = Len(checks)
    BY DEF k
  <2>q. QED BY <1>2, <2>1, <2>2
<1>5. \A i \in 1 .. n : Step(op, outs[i][1], outs[i][2]).op = op
  BY DEF Step
<1>6. \A j \in 1 .. Len(e.script) : j \in 1 .. k \/ (j - k \in 1 .. n /\ j = k + (j - k))
  BY <1>1, <1>4
<1>7. \A j \in 1 .. Len(e.script) : j \notin 1 .. k => e.script[j].op = op
  <2> SUFFICES ASSUME NEW j \in 1 .. Len(e.script), j \notin 1 .. k PROVE e.script[j].op = op
    OBVIOUS
  <2>1. PICK i \in 1 .. n : j = k + i
    BY <1>6
  <2>2. e.script[j] = Step(op, outs[i][1], outs[i][2])
    BY <1>3, <1>4, <2>1, Zenon
  <2>q. QED BY <1>5, <2>2
<1>8. \A j \in 1 .. k :
        /\ e.script[j].op \in {"instance", "argument", "instance_on", "report"}
        /\ e.script[j].op = "instance_on" => j = k /\ op = "add" /\ n # 0
  BY <1>4 DEF k, n
<1>9. ChecksFirst(e, a) /\ Allows(e)
  BY <1>6, <1>7, <1>8 DEF ChecksFirst, Allows, Changing
<1>10. AppendsNext(e)
  <2> SUFFICES ASSUME NEW j \in 1 .. Len(e.script), e.script[j].op = "instance_on"
               PROVE  j + 1 \in 1 .. Len(e.script) /\ e.script[j + 1].op = "add"
    BY DEF AppendsNext
  <2>1. j = k /\ op = "add" /\ n # 0
    BY <1>7, <1>8
  <2>2. j + 1 \in 1 .. Len(e.script) /\ j + 1 \notin 1 .. k
    BY <1>1, <1>4, <2>1
  <2>q. QED BY <1>7, <2>1, <2>2
<1>11. Careful(e) => Describes(e, a)
  <2> SUFFICES ASSUME a.out = outs, op = AddOp(e) PROVE Describes(e, a)
    BY DEF Careful
  <2>1. Before(e, a) = k /\ Len(a.out) = n
    BY <1>1, <1>4 DEF Before, n
  <2>2. \A i \in 1 .. n : a.out[i] = <<a.out[i][1], a.out[i][2]>>
    BY DEF Outs, n
  <2>3. \A i \in 1 .. n : e.script[k + i] = Step(AddOp(e), a.out[i][1], a.out[i][2])
    BY <1>3, <1>4, Zenon
  <2>4. \A j \in 1 .. Len(e.script) :
          e.script[j].op \in {"add", "add_on"} => j > k /\ e.script[j].op = AddOp(e)
    <3> TAKE j \in 1 .. Len(e.script)
    <3>1. CASE j \in 1 .. k
      BY <1>8, <3>1
    <3>2. CASE j \notin 1 .. k
      <4>1. e.script[j].op = op
        BY <1>7, <3>2
      <4>2. j > k
        BY <1>1, <1>4, <3>2
      <4>q. QED BY <4>1, <4>2
    <3>q. QED BY <3>1, <3>2
  <2>5. \A j \in 1 .. Len(e.script) : e.script[j].op # "link"
    BY <1>7, <1>8
  <2>q. QED BY <1>1, <2>1, <2>2, <2>3, <2>4, <2>5, Zenon DEF Describes
<1>12. Len(e.script) \in Nat /\ DOMAIN e.script = 1 .. Len(e.script)
  BY <1>4
<1>q. QED
  BY <1>1, <1>9, <1>10, <1>11, <1>12 DEF Sound

\* The checks that are made before appends.
LEMMA Checks ==
  ASSUME NEW x, NEW y
  PROVE  /\ <<>> \in Seq(ToSet(<<>>)) /\ Len(<<>>) = 0
         /\ <<x>> \in Seq(ToSet(<<x>>)) /\ Len(<<x>>) = 1 /\ <<x>>[1] = x
         /\ <<x, y>> \in Seq(ToSet(<<x, y>>)) /\ Len(<<x, y>>) = 2
         /\ <<x, y>>[1] = x /\ <<x, y>>[2] = y
  BY DEF ToSet

\* A handler that makes one check and appends.
LEMMA SoundOne ==
  ASSUME NEW name, name \notin Careless, NEW a, NEW x, NEW outs, Outs(outs), Outs(a.out),
         x.op \in {"instance", "argument", "instance_on"}, Len(outs) # 0,
         name \notin Deviating => a.out = outs
  PROVE  Sound(Action(name, <<x>> \o Adds(outs)), a)
<1> DEFINE e == Action(name, <<x>> \o Adds(outs))
           checks == <<x>>
           adds == Adds(outs)
<1>1. e.script = checks \o adds /\ e.name = name
  BY DEF Action
<1>2. Appends(adds, "add", outs)
  BY AddsParts
<1>3. checks \in Seq(ToSet(checks)) /\ Len(checks) = 1 /\ checks[1] = x
  BY Checks
<1>4. AddOp(e) = "add"
  BY <1>1 DEF AddOp
<1> HIDE DEF e, checks, adds
<1>5. \A j \in 1 .. Len(checks) :
        /\ checks[j].op \in {"instance", "argument", "instance_on", "report"}
        /\ checks[j].op = "instance_on" => j = Len(checks) /\ "add" = "add" /\ Len(outs) # 0
  BY <1>3
<1>6. e.name \notin Deviating => a.out = outs /\ "add" = AddOp(e)
  BY <1>1, <1>4
<1>7. Sound(e, a)
  BY <1>1, <1>2, <1>3, <1>5, <1>6, SoundReader
<1>q. QED
  BY <1>7 DEF e

\* A handler that also refreshes variables from MPD.
LEMMA SoundTwo ==
  ASSUME NEW name, name \notin Careless, NEW a, NEW x, NEW y, NEW outs, Outs(outs), Outs(a.out),
         x.op \in {"instance", "report"}, y.op \in {"instance", "report"}, a.out = outs
  PROVE  Sound(Action(name, <<x, y>> \o Adds(outs)), a)
<1> DEFINE e == Action(name, <<x, y>> \o Adds(outs))
           checks == <<x, y>>
           adds == Adds(outs)
<1>1. e.script = checks \o adds /\ e.name = name
  BY DEF Action
<1>2. Appends(adds, "add", outs)
  BY AddsParts
<1>3. checks \in Seq(ToSet(checks)) /\ Len(checks) = 2 /\ checks[1] = x /\ checks[2] = y
  BY Checks
<1>4. AddOp(e) = "add"
  BY <1>1 DEF AddOp
<1> HIDE DEF e, checks, adds
<1>5. \A j \in 1 .. Len(checks) :
        /\ checks[j].op \in {"instance", "argument", "instance_on", "report"}
        /\ checks[j].op = "instance_on" => j = Len(checks) /\ "add" = "add" /\ Len(outs) # 0
  <2>1. \A j \in 1 .. Len(checks) : j = 1 \/ j = 2
    BY <1>3
  <2>q. QED BY <1>3, <2>1
<1>6. e.name \notin Deviating => a.out = outs /\ "add" = AddOp(e)
  BY <1>1, <1>4
<1>7. Sound(e, a)
  BY <1>1, <1>2, <1>3, <1>5, <1>6, SoundReader
<1>q. QED
  BY <1>7 DEF e

\* A handler that makes no check and does not look at its appends.
LEMMA SoundOn ==
  ASSUME NEW name, NEW a, NEW outs, Outs(outs), Outs(a.out),
         name \in Deviating \/ (name \in Careless /\ a.out = outs)
  PROVE  Sound(Action(name, AddsOn(outs)), a)
<1> DEFINE e == Action(name, AddsOn(outs))
           checks == <<>>
           adds == AddsOn(outs)
<1>1. e.script = adds /\ e.name = name
  BY DEF Action
<1>2. Appends(adds, "add_on", outs)
  BY AddsParts
<1>3. checks \in Seq(ToSet(checks)) /\ Len(checks) = 0
  BY Checks
<1>4. e.name \notin Deviating => a.out = outs /\ "add_on" = AddOp(e)
  BY <1>1 DEF AddOp
<1>5. checks \o adds = adds
  BY <1>2 DEF Appends
<1> HIDE DEF e, checks, adds
<1>6. \A j \in 1 .. Len(checks) : FALSE
  BY <1>3
<1>7. Sound(e, a)
  BY <1>1, <1>2, <1>3, <1>4, <1>5, <1>6, SoundReader
<1>q. QED
  BY <1>7 DEF e

\* The other scripts, by the steps they consist of.
LEMMA SoundThree ==
  ASSUME NEW name, NEW ins, NEW x, NEW y, NEW z, x.op = "instance",
         \/ /\ y.op = "argument" /\ z.op = "store"
            /\ ins \subseteq Optional \cup {"InstanceID", y.name}
         \/ /\ y.op = "link" /\ ins \subseteq Optional \cup {"InstanceID"}
            /\ \/ z.op = "work"
               \/ /\ z.op = "switch"
                  /\ \A state \in TransportStates : Cases[z.name][state] \in {"nothing", "work"}
  PROVE  Sound(Action(name, <<x, y, z>>), Arguments(ins, <<>>))
<1> DEFINE e == Action(name, <<x, y, z>>)
           a == Arguments(ins, <<>>)
<1>1. /\ Len(e.script) = 3 /\ DOMAIN e.script = 1 .. 3
      /\ e.script[1] = x /\ e.script[2] = y /\ e.script[3] = z
  BY DEF Action
<1>2. a.out \in Seq(ToSet(a.out)) /\ Len(a.out) = 0 /\ a.in = ins
  BY DEF ToSet, Arguments
<1> HIDE DEF e, a
<1>3. \A j \in 1 .. 3 : j = 1 \/ j = 2 \/ j = 3
  OBVIOUS
<1>4. ChecksFirst(e, a)
  BY <1>1, <1>2, <1>3 DEF ChecksFirst, Changing
<1>5. AppendsNext(e) /\ Allows(e)
  BY <1>1, <1>3 DEF AppendsNext, Allows
<1>6. Describes(e, a)
  BY <1>1, <1>2, <1>3 DEF Describes, Before
<1>7. Sound(e, a)
  BY <1>1, <1>2, <1>4, <1>5, <1>6 DEF Sound
<1>q. QED
  BY <1>7 DEF e, a

LEMMA SoundFour ==
  ASSUME NEW name, NEW ins, NEW x, NEW y, NEW z, NEW u,
         x.op = "instance", y.op = "argument", ins \subseteq Optional \cup {"InstanceID", y.name},
         \/ z.op = "link" /\ u.op = "work"
         \/ /\ z.op = "store" /\ u.op = "argument_on" /\ u.name = "CurrentURIMetaData"
            /\ name = "SetAVTransportURI"
  PROVE  Sound(Action(name, <<x, y, z, u>>), Arguments(ins, <<>>))
<1> DEFINE e == Action(name, <<x, y, z, u>>)
           a == Arguments(ins, <<>>)
<1>1. /\ Len(e.script) = 4 /\ DOMAIN e.script = 1 .. 4 /\ e.name = name
      /\ e.script[1] = x /\ e.script[2] = y /\ e.script[3] = z /\ e.script[4] = u
  BY DEF Action
<1>2. a.out \in Seq(ToSet(a.out)) /\ Len(a.out) = 0 /\ a.in = ins
  BY DEF ToSet, Arguments
<1> HIDE DEF e, a
<1>3. \A j \in 1 .. 4 : j = 1 \/ j = 2 \/ j = 3 \/ j = 4
  OBVIOUS
<1>4. ChecksFirst(e, a)
  BY <1>1, <1>2, <1>3 DEF ChecksFirst, Changing
<1>5. AppendsNext(e) /\ Allows(e)
  BY <1>1, <1>3 DEF AppendsNext, Allows
<1>6. Describes(e, a)
  BY <1>1, <1>2, <1>3 DEF Describes, Before
<1>7. Sound(e, a)
  BY <1>1, <1>2, <1>4, <1>5, <1>6 DEF Sound
<1>q. QED
  BY <1>7 DEF e, a

LEMMA SoundSeek ==
  ASSUME NEW name, NEW ins, NEW x, NEW y, NEW z, NEW u, NEW v,
         x.op = "instance", y.op = "argument", z.op = "argument", u.op = "link", v.op = "work",
         ins \subseteq Optional \cup {"InstanceID", y.name, z.name}
  PROVE  Sound(Action(name, <<x, y, z, u, v>>), Arguments(ins, <<>>))
<1> DEFINE e == Action(name, <<x, y, z, u, v>>)
           a == Arguments(ins, <<>>)
<1>1. /\ Len(e.script) = 5 /\ DOMAIN e.script = 1 .. 5
      /\ e.script[1] = x /\ e.script[2] = y /\ e.script[3] = z /\ e.script[4] = u
      /\ e.script[5] = v
  BY DEF Action
<1>2. a.out \in Seq(ToSet(a.out)) /\ Len(a.out) = 0 /\ a.in = ins
  BY DEF ToSet, Arguments
<1> HIDE DEF e, a
<1>3. \A j \in 1 .. 5 : j = 1 \/ j = 2 \/ j = 3 \/ j = 4 \/ j = 5
  OBVIOUS
<1>4. ChecksFirst(e, a)
  BY <1>1, <1>2, <1>3 DEF ChecksFirst, Changing
<1>5. AppendsNext(e) /\ Allows(e)
  BY <1>1, <1>3 DEF AppendsNext, Allows
<1>6. Describes(e, a)
  BY <1>1, <1>2, <1>3 DEF Describes, Before
<1>7. Sound(e, a)
  BY <1>1, <1>2, <1>4, <1>5, <1>6 DEF Sound
<1>q. QED
  BY <1>7 DEF e, a

LEMMA SoundNone ==
  ASSUME NEW name, NEW a, Outs(a.out)
  PROVE  Sound(Action(name, NoHandler), a)
<1>1. Action(name, NoHandler).script = <<>>
  BY DEF Action, NoHandler
<1>q. QED
  BY <1>1 DEF Sound, Outs, NoHandler, ChecksFirst, AppendsNext, Allows, Careful

LEMMA SoundCapabilities ==
  ASSUME NEW name, NEW a, NEW x, Outs(a.out), x.op = "instance", name \in Deviating
  PROVE  Sound(Action(name, <<x>>), a)
<1> DEFINE e == Action(name, <<x>>)
<1>1. Len(e.script) = 1 /\ DOMAIN e.script = 1 .. 1 /\ e.script[1] = x /\ e.name = name
  BY DEF Action
<1> HIDE DEF e
<1>2. Sound(e, a)
  BY <1>1 DEF Sound, Outs, ChecksFirst, AppendsNext, Allows, Careful, Changing
<1>q. QED
  BY <1>2 DEF e

LEMMA StepParts ==
  /\ Id.op = "instance" /\ IdOn.op = "instance_on" /\ Link.op = "link" /\ Work.op = "work"
  /\ Store.op = "store" /\ Report.op = "report"
  /\ \A name : /\ Arg(name).op = "argument" /\ Arg(name).name = name
               /\ ArgOn(name).op = "argument_on" /\ ArgOn(name).name = name
               /\ Switch(name).op = "switch" /\ Switch(name).name = name
  BY DEF Id, IdOn, Link, Work, Store, Report, Arg, ArgOn, Switch, Step

\* Lists of pairs, by their length.
LEMMA Pairs ==
  /\ Outs(<<>>)
  /\ \A x1, y1 : Outs(<<<<x1, y1>>>>) /\ Len(<<<<x1, y1>>>>) = 1
  /\ \A x1, y1, x2, y2 :
       Outs(<<<<x1, y1>>, <<x2, y2>>>>) /\ Len(<<<<x1, y1>>, <<x2, y2>>>>) = 2
  /\ \A x1, y1, x2, y2, x3, y3 :
       /\ Outs(<<<<x1, y1>>, <<x2, y2>>, <<x3, y3>>>>)
       /\ Len(<<<<x1, y1>>, <<x2, y2>>, <<x3, y3>>>>) = 3
<1>1. Outs(<<>>)
  BY DEF Outs, ToSet
<1>2. \A x1, y1 : Outs(<<<<x1, y1>>>>) /\ Len(<<<<x1, y1>>>>) = 1
  BY DEF Outs, ToSet
<1>3. \A x1, y1, x2, y2 :
        Outs(<<<<x1, y1>>, <<x2, y2>>>>) /\ Len(<<<<x1, y1>>, <<x2, y2>>>>) = 2
  BY DEF Outs, ToSet
<1>4. \A x1, y1, x2, y2, x3, y3 :
        /\ Outs(<<<<x1, y1>>, <<x2, y2>>, <<x3, y3>>>>)
        /\ Len(<<<<x1, y1>>, <<x2, y2>>, <<x3, y3>>>>) = 3
  BY DEF Outs, ToSet
<1>q. QED
  BY <1>1, <1>2, <1>3, <1>4

LEMMA ArgumentsParts ==
  \A in, out : Arguments(in, out).in = in /\ Arguments(in, out).out = out
  BY DEF Arguments

\* GetPositionInfo: its appends are the ones its arguments describe.
LEMMA PositionSound == Sound(Action("GetPositionInfo", GetPositionInfo), PositionInfoArguments)
<1> DEFINE outs ==
      <<<<"Track", "CurrentTrack">>, <<"TrackDuration", "CurrentTrackDuration">>,
        <<"TrackMetaData", "CurrentTrackMetaData">>, <<"TrackURI", "CurrentTrackURI">>,
        <<"RelTime", "RelativeTimePosition">>, <<"AbsTime", "AbsoluteTimePosition">>,
        <<"RelCount", "RelativeCounterPosition">>, <<"AbsCount", "AbsoluteCounterPosition">>>>
<1>1. Outs(outs)
  BY DEF Outs, ToSet
<1>2. GetPositionInfo = <<Id, Report>> \o Adds(outs)
  BY Zenon DEF GetPositionInfo
<1>3. PositionInfoArguments.out = outs
  BY DEF PositionInfoArguments, Arguments
<1>4. "GetPositionInfo" \notin Careless
  BY DEF Careless
<1> HIDE DEF outs
<1>5. Sound(Action("GetPositionInfo", <<Id, Report>> \o Adds(outs)), PositionInfoArguments)
  BY <1>1, <1>3, <1>4, StepParts, SoundTwo, Zenon
<1>q. QED
  BY <1>2, <1>5, Zenon

\* GetMediaInfo appends another variable as PlayMedium than it describes.
LEMMA MediaSound == Sound(Action("GetMediaInfo", GetMediaInfo), MediaInfoArguments)
<1> DEFINE outs ==
      <<<<"NrTracks", "NumberOfTracks">>, <<"MediaDuration", "CurrentMediaDuration">>,
        <<"CurrentURI", "AVTransportURI">>, <<"CurrentURIMetaData", "AVTransportURIMetaData">>,
        <<"NextURI", "NextAVTransportURI">>, <<"NextURIMetaData", "NextAVTransportURIMetaData">>,
        <<"PlayMedium", "PossibleRecordStorageMedia">>, <<"RecordMedium", "RecordStorageMedium">>,
        <<"WriteStatus", "RecordMediumWriteStatus">>>>
<1>1. Outs(outs) /\ Len(outs) # 0
  BY DEF Outs, ToSet
<1>2. GetMediaInfo = <<Id>> \o Adds(outs)
  BY Zenon DEF GetMediaInfo
<1>3. Outs(MediaInfoArguments.out)
  <2>1. MediaInfoArguments.out =
          <<<<"NrTracks", "NumberOfTracks">>, <<"MediaDuration", "CurrentMediaDuration">>,
            <<"CurrentURI", "AVTransportURI">>, <<"CurrentURIMetaData", "AVTransportURIMetaData">>,
            <<"NextURI", "NextAVTransportURI">>,
            <<"NextURIMetaData", "NextAVTransportURIMetaData">>,
            <<"PlayMedium", "PlaybackStorageMedium">>, <<"RecordMedium", "RecordStorageMedium">>,
            <<"WriteStatus", "RecordMediumWriteStatus">>>>
    BY DEF MediaInfoArguments, Arguments
  <2>q. QED BY <2>1 DEF Outs, ToSet
<1>4. "GetMediaInfo" \in Deviating /\ "GetMediaInfo" \notin Careless
  BY DEF Deviating, Careless
<1> HIDE DEF outs
<1>5. Sound(Action("GetMediaInfo", <<Id>> \o Adds(outs)), MediaInfoArguments)
  BY <1>1, <1>3, <1>4, StepParts, SoundOne
<1>q. QED
  BY <1>2, <1>5, Zenon

LEMMA InfoSound == Sound(Action("GetTransportInfo", GetTransportInfo), TransportInfoArguments)
<1> DEFINE outs ==
      <<<<"CurrentTransportState", "TransportState">>,
        <<"CurrentTransportStatus", "TransportStatus">>, <<"CurrentSpeed", "TransportPlaySpeed">>>>
<1>1. Outs(outs) /\ Len(outs) # 0
  BY DEF Outs, ToSet
<1>2. GetTransportInfo = <<IdOn>> \o Adds(outs)
  BY Zenon DEF GetTransportInfo
<1>3. TransportInfoArguments.out = outs
  BY DEF TransportInfoArguments, Arguments
<1>4. "GetTransportInfo" \notin Careless
  BY DEF Careless
<1> HIDE DEF outs
<1>5. Sound(Action("GetTransportInfo", <<IdOn>> \o Adds(outs)), TransportInfoArguments)
  BY <1>1, <1>3, <1>4, StepParts, SoundOne
<1>q. QED
  BY <1>2, <1>5, Zenon

LEMMA ConnectionSound ==
  Sound(Action("GetCurrentConnectionInfo", GetCurrentConnectionInfo), ConnectionInfoArguments)
<1> DEFINE outs ==
      <<<<"RcsID", "A_ARG_TYPE_RcsID">>, <<"AVTransportID", "A_ARG_TYPE_AVTransportID">>,
        <<"ProtocolInfo", "A_ARG_TYPE_ProtocolInfo">>,
        <<"PeerConnectionManager", "A_ARG_TYPE_ConnectionManager">>,
        <<"PeerConnectionID", "A_ARG_TYPE_ConnectionID">>,
        <<"Direction", "A_ARG_TYPE_Direction">>, <<"Status", "A_ARG_TYPE_ConnectionStatus">>>>
<1>1. Outs(outs) /\ Len(outs) # 0
  BY DEF Outs, ToSet
<1>2. GetCurrentConnectionInfo = <<Arg("ConnectionID")>> \o Adds(outs)
  BY Zenon DEF GetCurrentConnectionInfo
<1>3. ConnectionInfoArguments.out = outs
  BY DEF ConnectionInfoArguments, Arguments
<1>4. "GetCurrentConnectionInfo" \notin Careless
  BY DEF Careless
<1>5. Arg("ConnectionID").op \in {"instance", "argument", "instance_on"}
  BY StepParts
<1> HIDE DEF outs
<1>6. Sound(Action("GetCurrentConnectionInfo", <<Arg("ConnectionID")>> \o Adds(outs)),
            ConnectionInfoArguments)
  BY <1>1, <1>3, <1>4, <1>5, SoundOne
<1>q. QED
  BY <1>2, <1>6, Zenon

\* The three handlers with a switch: TransportStates has no state they refuse.
LEMMA TransitionSound ==
  ASSUME NEW name \in {"Stop", "Pause", "Play"}, NEW ins, ins \subseteq Optional \cup {"InstanceID"}
  PROVE  Sound(Action(name, Transition(name)), Arguments(ins, <<>>))
<1>1. /\ \A state \in TransportStates : Cases["Stop"][state] \in {"nothing", "work"}
      /\ \A state \in TransportStates : Cases["Pause"][state] \in {"nothing", "work"}
      /\ \A state \in TransportStates : Cases["Play"][state] \in {"nothing", "work"}
  BY DEF TransportStates, Cases
<1>2. \A state \in TransportStates : Cases[name][state] \in {"nothing", "work"}
  BY <1>1
<1>3. Switch(name).op = "switch" /\ Switch(name).name = name
  BY StepParts
<1>q. QED
  BY <1>2, <1>3, StepParts, SoundThree DEF Transition

\* Every place of both tables.
LEMMA SoundTransport ==
  \A i \in 1 .. 14 : Sound(TransportActions[i], TransportArguments[i])
<1>1. Sound(TransportActions[1], TransportArguments[1])
  BY SoundNone, ArgumentsParts, Pairs DEF TransportActions, TransportArguments
<1>2. Sound(TransportActions[2], TransportArguments[2])
  BY SoundCapabilities, ArgumentsParts, Pairs, StepParts
     DEF TransportActions, TransportArguments, Deviating
<1>3. Sound(TransportActions[3], TransportArguments[3])
  BY MediaSound DEF TransportActions, TransportArguments
<1>4. Sound(TransportActions[4], TransportArguments[4])
  BY PositionSound DEF TransportActions, TransportArguments
<1>5. Sound(TransportActions[5], TransportArguments[5])
  BY InfoSound DEF TransportActions, TransportArguments
<1>6. Sound(TransportActions[6], TransportArguments[6])
  BY SoundOne, ArgumentsParts, Pairs, StepParts, SMTT(30)
     DEF TransportActions, TransportArguments, Deviating, Careless, GetTransportSettings
<1>7. /\ Sound(TransportActions[7], TransportArguments[7])
      /\ Sound(TransportActions[10], TransportArguments[10])
  BY SoundThree, StepParts DEF TransportActions, TransportArguments, Optional, Skip
<1>8. /\ Sound(TransportActions[8], TransportArguments[8])
      /\ Sound(TransportActions[9], TransportArguments[9])
      /\ Sound(TransportActions[14], TransportArguments[14])
  BY TransitionSound DEF TransportActions, TransportArguments, Optional
<1>9. Sound(TransportActions[11], TransportArguments[11])
  BY SoundSeek, StepParts DEF TransportActions, TransportArguments, Seek
<1>10. Sound(TransportActions[12], TransportArguments[12])
  BY SoundFour, StepParts DEF TransportActions, TransportArguments, Optional, SetAVTransportURI
<1>11. Sound(TransportActions[13], TransportArguments[13])
  BY SoundFour, StepParts DEF TransportActions, TransportArguments, Optional, SetPlayMode
<1>12. \A i \in 1 .. 14 :
        \/ i = 1 \/ i = 2 \/ i = 3 \/ i = 4 \/ i = 5 \/ i = 6 \/ i = 7 \/ i = 8 \/ i = 9
        \/ i = 10 \/ i = 11 \/ i = 12 \/ i = 13 \/ i = 14
  OBVIOUS
<1>q. QED
  BY <1>1, <1>2, <1>3, <1>4, <1>5, <1>6, <1>7, <1>8, <1>9, <1>10, <1>11, <1>12, Zenon

\* An action of cmd_obtain_variable with its arguments.
LEMMA ObtainSound ==
  ASSUME NEW name, NEW argument, NEW var, NEW ins, NEW outs, Outs(outs), name \notin Careless,
         outs = <<<<argument, var>>>> \/ name \in Deviating
  PROVE  Sound(Action(name, Obtain(var, argument)), Arguments(ins, outs))
<1> DEFINE pairs == <<<<argument, var>>>>
           a == Arguments(ins, outs)
<1>1. Outs(pairs) /\ Len(pairs) # 0
  BY Pairs
<1>2. a.out = outs
  BY ArgumentsParts
<1>3. Obtain(var, argument) = <<Id>> \o Adds(pairs)
  BY Zenon DEF Obtain
<1> HIDE DEF pairs, a
<1>4. Sound(Action(name, <<Id>> \o Adds(pairs)), a)
  BY <1>1, <1>2, StepParts, SoundOne DEF pairs
<1>q. QED
  BY <1>3, <1>4 DEF a

LEMMA VolumeSound ==
  \A ins : Sound(Action("GetVolume", GetVolume), Arguments(ins, <<<<"CurrentVolume", "Volume">>>>))
<1> TAKE ins
<1> DEFINE outs == <<<<"CurrentVolume", "Volume">>>>
           a == Arguments(ins, outs)
<1>1. Outs(outs)
  BY Pairs
<1>2. a.out = outs
  BY ArgumentsParts
<1>3. GetVolume = <<Report, Id>> \o Adds(outs)
  BY Zenon DEF GetVolume
<1>4. "GetVolume" \notin Careless
  BY DEF Careless
<1> HIDE DEF outs, a
<1>5. Sound(Action("GetVolume", <<Report, Id>> \o Adds(outs)), a)
  BY <1>1, <1>2, <1>4, StepParts, SoundTwo
<1>6. Sound(Action("GetVolume", GetVolume), a)
  BY <1>3, <1>5, Zenon
<1>q. QED
  BY <1>6, Zenon DEF a, outs

LEMMA SoundControl ==
  \A i \in 1 .. 11 : Sound(ControlActions[i], ControlArguments[i])
<1>1. /\ Sound(ControlActions[1], ControlArguments[1])
      /\ Sound(ControlActions[2], ControlArguments[2])
  BY ObtainSound, Pairs DEF ControlActions, ControlArguments, Careless
<1>2. Sound(ControlActions[3], ControlArguments[3])
  BY VolumeSound DEF ControlActions, ControlArguments
<1>3. /\ Sound(ControlActions[4], ControlArguments[4])
      /\ Sound(ControlActions[6], ControlArguments[6])
  BY ObtainSound, Pairs DEF ControlActions, ControlArguments, Careless, Deviating
<1>4. /\ Sound(ControlActions[5], ControlArguments[5])
      /\ Sound(ControlActions[7], ControlArguments[7])
      /\ Sound(ControlActions[8], ControlArguments[8])
      /\ Sound(ControlActions[11], ControlArguments[11])
  BY SoundNone, ArgumentsParts, Pairs DEF ControlActions, ControlArguments
<1>5. /\ Sound(ControlActions[9], ControlArguments[9])
      /\ Sound(ControlActions[10], ControlArguments[10])
  BY SoundThree, StepParts DEF ControlActions, ControlArguments, Optional, Set
<1>6. \A i \in 1 .. 11 :
        \/ i = 1 \/ i = 2 \/ i = 3 \/ i = 4 \/ i = 5 \/ i = 6 \/ i = 7 \/ i = 8 \/ i = 9
        \/ i = 10 \/ i = 11
  OBVIOUS
<1>q. QED
  BY <1>1, <1>2, <1>3, <1>4, <1>5, <1>6, Zenon

LEMMA SoundConnmgr ==
  \A i \in 1 .. 3 : Sound(ConnmgrActions[i], ConnmgrArguments[i])
<1>1. Sound(ConnmgrActions[1], ConnmgrArguments[1])
  BY SoundOn, ArgumentsParts, Pairs
     DEF ConnmgrActions, ConnmgrArguments, Deviating, GetCurrentConnectionIDs
<1>2. Sound(ConnmgrActions[2], ConnmgrArguments[2])
  BY ConnectionSound DEF ConnmgrActions, ConnmgrArguments
<1>3. Sound(ConnmgrActions[3], ConnmgrArguments[3])
  BY SoundOn, ArgumentsParts, Pairs, SMTT(30)
     DEF ConnmgrActions, ConnmgrArguments, Careless, GetProtocolInfo
<1>4. \A i \in 1 .. 3 : i = 1 \/ i = 2 \/ i = 3
  OBVIOUS
<1>q. QED
  BY <1>1, <1>2, <1>3, <1>4, Zenon

LEMMA PlacesSound ==
  \A s \in ToSet(Services) : \A i \in 1 .. s.count : Sound(s.actions[i], s.arguments[i])
<1>1. \A s \in ToSet(Services) :
        \/ s.actions = TransportActions /\ s.arguments = TransportArguments /\ s.count = 14
        \/ s.actions = ConnmgrActions /\ s.arguments = ConnmgrArguments /\ s.count = 3
        \/ s.actions = ControlActions /\ s.arguments = ControlArguments /\ s.count = 11
  BY DEF Services, ToSet
<1>q. QED
  BY <1>1, SoundTransport, SoundControl, SoundConnmgr, Zenon
-----------------------------------------------------------------------------
(* Looking up an action.                                                   *)

\* Where there is an entry with one of the names, the first one is found.
LEMMA Found ==
  ASSUME NEW n \in Nat, NEW table, DOMAIN table = 1 .. n, NEW names,
         \E i \in 1 .. n : table[i].name \in names
  PROVE  \E i \in 1 .. n : FirstNamed(table, names) = table[i] /\ table[i].name \in names
<1> DEFINE found == {i \in 1 .. n : table[i].name \in names}
           Good == {k \in 0 .. n : \A j \in 1 .. k : j \notin found}
           First(i) == /\ table[i].name \in names
                       /\ \A j \in 1 .. n : table[j].name \in names => i <= j
           first == CHOOSE i \in 1 .. n : First(i)
<1>1. FirstNamed(table, names) = table[first]
  BY DEF FirstNamed
<1>2. \E i \in found : \A j \in found : i <= j
  <2> SUFFICES ASSUME \A i \in found : \E j \in found : ~ i <= j PROVE FALSE
    OBVIOUS
  <2>1. 0 \in Good
    OBVIOUS
  <2>2. ASSUME NEW k \in 1 .. n, k - 1 \in Good
        PROVE  k \in Good
    <3>1. \A j \in found : j > k - 1
      BY <2>2
    <3>2. k \notin found
      BY <3>1
    <3>q. QED BY <2>2, <3>2
  <2>3. \A k \in 0 .. n : k \in Good
    <3> HIDE DEF Good, found
    <3>q. QED BY <2>1, <2>2, Upwards
  <2>q. QED BY <2>3
<1>3. \E i \in 1 .. n : First(i)
  BY <1>2
<1>4. first \in 1 .. n /\ First(first)
  <2> HIDE DEF First
  <2>q. QED BY <1>3
<1>5. first \in 1 .. n /\ table[first].name \in names
  BY <1>4
<1> HIDE DEF first
<1>q. QED
  BY <1>1, <1>5

\* The tables, and the names of the services, of which no two are the same.
LEMMA Tables ==
  /\ DOMAIN Services = 1 .. 3
  /\ \A s \in ToSet(Services) :
       /\ s.count \in Nat /\ DOMAIN s.actions = 1 .. s.count + 1
       /\ s.actions[s.count + 1].name = None
       /\ ToSet(s.actions) \subseteq Entries
       /\ \A t \in ToSet(Services) : s.name = t.name => s = t
<1>1. DOMAIN Services = 1 .. 3
  BY DEF Services
<1>2. /\ DOMAIN TransportActions = 1 .. 15 /\ DOMAIN ControlActions = 1 .. 12
      /\ DOMAIN ConnmgrActions = 1 .. 4
  BY DEF TransportActions, ControlActions, ConnmgrActions
<1>3. /\ TransportActions[15] = NoAction /\ ControlActions[12] = NoAction
      /\ ConnmgrActions[4] = NoAction
  BY DEF TransportActions, ControlActions, ConnmgrActions
<1>4. NoAction.name = None
  BY DEF NoAction, Action
<1>5. \A s \in ToSet(Services) :
        \/ s.actions = TransportActions /\ s.count = 14
        \/ s.actions = ConnmgrActions /\ s.count = 3
        \/ s.actions = ControlActions /\ s.count = 11
  BY DEF Services, ToSet
<1>6. \A s \in ToSet(Services) :
        /\ s.count \in Nat /\ DOMAIN s.actions = 1 .. s.count + 1
        /\ s.actions[s.count + 1].name = None
  <2> TAKE s \in ToSet(Services)
  <2>1. CASE s.actions = TransportActions /\ s.count = 14
    BY <1>2, <1>3, <1>4, <2>1
  <2>2. CASE s.actions = ConnmgrActions /\ s.count = 3
    BY <1>2, <1>3, <1>4, <2>2
  <2>3. CASE s.actions = ControlActions /\ s.count = 11
    BY <1>2, <1>3, <1>4, <2>3
  <2>q. QED BY <1>5, <2>1, <2>2, <2>3
<1>7. \A s, t \in ToSet(Services) : s.name = t.name => s = t
  <2>1. /\ Services[1].name = "AVTransport" /\ Services[2].name = "ConnectionManager"
        /\ Services[3].name = "RenderingControl"
    BY DEF Services
  <2>2. ToSet(Services) = {Services[1], Services[2], Services[3]}
    BY <1>1 DEF ToSet
  <2>q. QED BY <2>1, <2>2
<1>8. \A s \in ToSet(Services) : ToSet(s.actions) \subseteq Entries
  BY DEF Entries
<1>q. QED
  BY <1>1, <1>6, <1>7, <1>8

LEMMA ServiceFound ==
  ASSUME NEW name
  PROVE  /\ FindService(name) # None =>
              FindService(name) \in ToSet(Services) /\ FindService(name).name = name
         /\ FindService(name) = None => \A s \in ToSet(Services) : s.name # name
<1> DEFINE table == Services
           n == 3
           found == FirstNamed(Services, {name})
<1>1. n \in Nat /\ DOMAIN table = 1 .. n /\ None \notin ToSet(table)
  BY Tables, NoneAssumption
<1>2. CASE \E s \in ToSet(Services) : s.name = name
  <2>1. FindService(name) = found
    BY <1>2 DEF FindService
  <2>2. \E i \in 1 .. n : table[i].name \in {name}
    BY <1>1, <1>2 DEF ToSet
  <2> HIDE DEF table, n
  <2>3. PICK i \in 1 .. n : FirstNamed(table, {name}) = table[i] /\ table[i].name \in {name}
    BY <1>1, <2>2, Found
  <2>4. found \in ToSet(table) /\ found.name = name
    BY <1>1, <2>3 DEF ToSet, table
  <2>q. QED BY <1>1, <2>1, <2>4 DEF table
<1>3. CASE ~ \E s \in ToSet(Services) : s.name = name
  <2>1. FindService(name) = None
    BY <1>3, Zenon DEF FindService
  <2>q. QED BY <1>3, <2>1
<1>q. QED
  BY <1>2, <1>3

\* An action that is found has a place in both tables of its service.
LEMMA NamedFound ==
  ASSUME NEW service, NEW action, Named(service, action) # None
  PROVE  /\ FindService(service) # None /\ FindService(service) \in ToSet(Services)
         /\ \E i \in 1 .. FindService(service).count :
              /\ FindService(service).actions[i] = Named(service, action)
              /\ FindService(service).actions[i].name = action
         /\ Named(service, action) \in Entries
<1> DEFINE s == FindService(service)
           names == {action, None}
           found == FirstNamed(s.actions, names)
<1>1. s # None /\ Named(service, action) = FindAction(s, action)
  BY DEF Named
<1>2. s \in ToSet(Services)
  BY <1>1, ServiceFound
<1> HIDE DEF s
<1>3. found.name # None /\ Named(service, action) = found
  BY <1>1 DEF FindAction
<1>4. /\ s.count + 1 \in Nat /\ DOMAIN s.actions = 1 .. s.count + 1 /\ s.count \in Nat
      /\ s.actions[s.count + 1].name = None /\ ToSet(s.actions) \subseteq Entries
  BY <1>2, Tables
<1>5. \E i \in 1 .. s.count + 1 : s.actions[i].name \in names
  BY <1>4
<1> HIDE DEF names
<1>6. PICK i \in 1 .. s.count + 1 : found = s.actions[i] /\ s.actions[i].name \in names
  BY <1>4, <1>5, Found
<1>7. s.actions[i].name = action
  BY <1>3, <1>6 DEF names
<1>8. i \in 1 .. s.count
  BY <1>3, <1>4, <1>6
<1>9. Named(service, action) \in Entries
  BY <1>3, <1>4, <1>6 DEF ToSet
<1>q. QED
  BY <1>1, <1>2, <1>3, <1>6, <1>7, <1>8, <1>9 DEF s

\* The place of the entry e that request r has chosen, and its arguments.
Place(r, e) ==
  CHOOSE i \in 1 .. FindService(r.service).count :
    FindService(r.service).actions[i] = e /\ FindService(r.service).actions[i].name = r.action
Told(r, e) == FindService(r.service).arguments[Place(r, e)]

LEMMA PlaceFound ==
  ASSUME NEW r, NEW e, e = Named(r.service, r.action), e # None
  PROVE  /\ e \in Entries /\ Sound(e, Told(r, e))
         /\ \E d \in Described(r.service, r.action) :
              d.in = Told(r, e).in /\ d.out = Told(r, e).out
<1> DEFINE s == FindService(r.service)
           i == Place(r, e)
<1>1. s # None /\ s \in ToSet(Services) /\ e \in Entries
  BY NamedFound
<1>2. \E j \in 1 .. s.count : s.actions[j] = e /\ s.actions[j].name = r.action
  BY NamedFound
<1>3. i \in 1 .. s.count /\ s.actions[i] = e /\ s.actions[i].name = r.action
  BY <1>2 DEF Place
<1>4. Told(r, e) = s.arguments[i]
  BY DEF Told
<1> HIDE DEF i
<1>5. Sound(e, Told(r, e))
  BY <1>1, <1>3, <1>4, PlacesSound
<1> DEFINE d == [action |-> s.actions[i].name, in |-> s.arguments[i].in,
                 out |-> s.arguments[i].out]
<1>6. d \in Described(r.service, r.action)
  <2>1. d \in Scpd(s)
    BY <1>3 DEF Scpd
  <2>2. d.action = r.action
    BY <1>3
  <2> HIDE DEF d
  <2>q. QED BY <1>1, <2>1, <2>2 DEF Described
<1>7. d.in = Told(r, e).in /\ d.out = Told(r, e).out
  BY <1>4
<1>q. QED
  BY <1>1, <1>5, <1>6, <1>7
-----------------------------------------------------------------------------
(* The invariant.                                                          *)

Serving == stage \in {"handling", "returned", "answered"}

\* The request that is served has chosen the entry, and nothing has happened
\* yet for one that is not.
Chosen ==
  /\ Serving => entry = Named(request.service, request.action)
  /\ stage \in {"handling", "returned"} => entry # None /\ entry.script # NoHandler
  /\ ~ Serving => /\ entry = None /\ next = 1 /\ status = 0 /\ rc = 0
                  /\ errCode = "success" /\ answer = None /\ changed = {} /\ ~ lost
  /\ errCode = "401" <=> stage = "answered" /\ entry = None

\* What the handler has asked for and got.
Passed ==
  entry # None =>
    \A j \in 1 .. next - 1 :
      /\ entry.script[j].op = "instance" => InstanceGood
      /\ entry.script[j].op = "argument" => entry.script[j].name \in request.args

\* An error that was set is not forgotten: the handler is about to return -1
\* or to append, and an error code stays.
Errors ==
  /\ stage = "handling" =>
       /\ status # 0 => /\ errCode = "failed"
                        /\ rc = -1 \/ (next # 1 /\ entry.script[next - 1].op = "instance_on")
       /\ rc = -1 => errCode = "failed"
  /\ stage = "returned" =>
       /\ rc = 0 => status = 0 /\ next > Len(entry.script)
       /\ rc = -1 => errCode = "failed" \/ lost
  /\ stage = "answered" /\ entry # None /\ errCode = "success" /\ ~ lost =>
       status = 0 /\ next > Len(entry.script)

\* A step that commands something is behind or was the last.
Commanded ==
  \E j \in 1 .. next : /\ j <= Len(entry.script)
                       /\ entry.script[j].op \in Changing
                       /\ stage = "handling" => j # next

\* A command follows the checks, and an error follows a command only where
\* its answer was lost or the metadata is missing.
Changes ==
  /\ "command" \in changed => entry # None /\ Commanded
  /\ "command" \in changed /\ errCode # "success" =>
       \/ lost
       \/ entry.name = "SetAVTransportURI" /\ "CurrentURIMetaData" \notin request.args
  /\ stage = "handling" /\ errCode # "success" =>
       \E j \in 1 .. next - 1 : entry.script[j].op \notin {"instance", "argument", "link"}

\* answer holds the first n of outs.
Holds(outs, n) ==
  IF n <= 0 THEN answer = None
  ELSE /\ answer \in Seq(Appendable) /\ Len(answer) = n
       /\ \A i \in 1 .. n : answer[i] = outs[i]

\* The arguments of the request, as its service describes them.
Asked == Told(request, entry)

\* The handlers whose answer is followed.
Followed == entry # None /\ Careful(entry) /\ (lost => entry.name \notin Careless)

Answers ==
  /\ stage = "answered" => (answer = None <=> entry = None \/ entry.script = NoHandler)
  /\ Followed =>
       /\ stage = "handling" /\ status = 0 => Holds(Asked.out, next - 1 - Before(entry, Asked))
       /\ stage = "returned" =>
            /\ rc = 0 => Holds(Asked.out, next - 1 - Before(entry, Asked))
            /\ rc = -1 /\ errCode = "success" => Len(Asked.out) = 0 /\ answer = None
       /\ stage = "answered" /\ errCode = "success" => answer = Asked.out

\* The values an event was made of, and the event.
Events ==
  stage = "subscribed" =>
    LET service == FindService(request.service)
    IN  /\ \E text, plain \in Texts : held = <<text, plain, text>>
        /\ sent = IF service = None THEN <<>> ELSE FirstEvent(service, held)

DispatchInv ==
  /\ DispatchTypeOK /\ Chosen /\ Passed /\ Errors /\ Changes /\ Answers /\ Events

LEMMA EntryFacts ==
  ASSUME Chosen, entry # None
  PROVE  /\ entry \in Entries /\ Sound(entry, Asked) /\ Len(entry.script) \in Nat
         /\ stage \in {"handling", "returned", "answered"}
         /\ errCode # "401"
<1>1. Serving /\ entry = Named(request.service, request.action)
  BY DEF Chosen
<1>2. entry \in Entries /\ Sound(entry, Asked)
  BY <1>1, PlaceFound DEF Asked
<1>q. QED
  BY <1>1, <1>2 DEF Sound, Serving, Chosen

LEMMA Touched ==
  ASSUME NEW kinds \in SUBSET {"command", "report"}, changed \subseteq {"command", "report"},
         Touch(kinds)
  PROVE  /\ changed' \subseteq {"command", "report"}
         /\ "command" \in changed' => "command" \in changed \/ "command" \in kinds
  BY DEF Touch

\* A step of a handler: where it is.
LEMMA Handling ==
  ASSUME DispatchInv, NEW op, At(op)
  PROVE  /\ entry # None /\ Sound(entry, Asked) /\ entry \in Entries /\ stage = "handling"
         /\ Len(entry.script) \in Nat /\ next \in 1 .. Len(entry.script)
         /\ entry.script[next].op = op /\ entry.script # NoHandler
         /\ status \in {0, -1} /\ rc \in {0, -1} /\ errCode \in {"success", "failed"}
         /\ changed \subseteq {"command", "report"} /\ lost \in BOOLEAN
<1>1. stage = "handling" /\ next <= Len(entry.script) /\ entry.script[next].op = op
  BY DEF At
<1>2. entry # None /\ entry.script # NoHandler
  BY <1>1 DEF DispatchInv, Chosen
<1>3. Sound(entry, Asked) /\ entry \in Entries /\ Len(entry.script) \in Nat /\ errCode # "401"
  BY <1>2, EntryFacts DEF DispatchInv
<1>q. QED
  BY <1>1, <1>2, <1>3 DEF DispatchInv, DispatchTypeOK

\* Where a handler goes on or leaves, what it is about stays.
LEMMA Within ==
  ASSUME DispatchInv, stage = "handling", UNCHANGED <<request, entry, subscription>>,
         next <= Len(entry.script),
         \/ stage' = "handling" /\ next' = next + 1
         \/ stage' = "returned" /\ next' = next /\ rc' = -1,
         status' \in {0, -1}, rc' \in {0, -1}, errCode' \in {"success", "failed"},
         changed' \subseteq {"command", "report"}, lost' \in BOOLEAN
  PROVE  DispatchTypeOK' /\ Chosen' /\ Events'
<1>1. entry # None /\ entry.script # NoHandler
  BY DEF DispatchInv, Chosen
<1>2. Len(entry.script) \in Nat
  BY <1>1, EntryFacts DEF DispatchInv
<1>3. DispatchTypeOK'
  BY <1>1, <1>2 DEF DispatchInv, DispatchTypeOK
<1>4. Chosen'
  BY <1>1 DEF DispatchInv, Chosen, Serving
<1>q. QED
  BY <1>3, <1>4 DEF Events

\* The answer before the appends, and after a step that is none of them.
LEMMA BeforeAppends ==
  ASSUME DispatchInv, NEW op, At(op), op \notin {"add", "add_on"}, Careful(entry)
  PROVE  next \in 1 .. Before(entry, Asked) /\ Before(entry, Asked) \in Nat
<1>1. /\ Sound(entry, Asked) /\ Len(entry.script) \in Nat /\ next \in 1 .. Len(entry.script)
      /\ entry.script[next].op = op
  BY Handling
<1>2. Describes(entry, Asked)
  BY <1>1 DEF Sound
<1> DEFINE outs == Asked.out
           k == Before(entry, Asked)
<1>3. k \in Nat /\ Len(outs) \in Nat /\ Len(entry.script) = k + Len(outs)
  BY <1>1, <1>2 DEF Describes, Before
<1>4. \A i \in 1 .. Len(outs) : entry.script[k + i].op \in {"add", "add_on"}
  <2>1. \A x, y : Step(AddOp(entry), x, y).op \in {"add", "add_on"}
    BY DEF Step, AddOp
  <2>2. \A i \in 1 .. Len(outs) :
          entry.script[k + i] = Step(AddOp(entry), outs[i][1], outs[i][2])
    BY <1>2, Zenon DEF Describes
  <2>q. QED BY <2>1, <2>2
<1> HIDE DEF outs, k
<1>5. next = k + (next - k)
  BY <1>1, <1>3
<1>6. next - k \notin 1 .. Len(outs)
  <2> DEFINE i == next - k
  <2> SUFFICES ASSUME i \in 1 .. Len(outs) PROVE FALSE
    OBVIOUS
  <2>1. entry.script[k + i].op \in {"add", "add_on"}
    BY <1>4
  <2>q. QED BY <1>1, <1>5, <2>1
<1>7. next \in 1 .. k /\ k \in Nat
  BY <1>1, <1>3, <1>6
<1>q. QED
  BY <1>7 DEF k

LEMMA AnswersOn ==
  ASSUME DispatchInv, NEW op, At(op), op \notin {"add", "add_on"},
         UNCHANGED <<stage, request, entry, lost>>, next' = next + 1,
         status' = 0 => status = 0 /\ answer' = answer
  PROVE  Answers'
<1>1. stage = "handling" /\ entry # None
  BY Handling
<1>2. Asked' = Asked /\ (Followed' <=> Followed)
  BY DEF Asked, Followed
<1>3. ASSUME Followed, status' = 0
      PROVE  Holds(Asked.out, next - 1 - Before(entry, Asked))'
  <2>1. next \in 1 .. Before(entry, Asked) /\ Before(entry, Asked) \in Nat
    BY <1>3, BeforeAppends DEF Followed
  <2>2. Holds(Asked.out, next - 1 - Before(entry, Asked))
    BY <1>1, <1>3 DEF DispatchInv, Answers
  <2>3. answer = None
    BY <2>1, <2>2 DEF Holds
  <2>4. next' - 1 - Before(entry', Asked') <= 0 /\ answer' = None
    BY <1>2, <1>3, <2>1, <2>3
  <2>q. QED BY <2>4 DEF Holds
<1>q. QED
  BY <1>1, <1>2, <1>3 DEF Answers

LEMMA AnswersLeft ==
  ASSUME DispatchInv, stage' = "returned", UNCHANGED <<request, entry>>, rc' = -1,
         errCode' # "success" \/ (Followed' => Len(Asked.out) = 0 /\ answer' = None)
  PROVE  Answers'
<1>1. Asked' = Asked
  BY DEF Asked
<1>q. QED
  BY <1>1 DEF Answers

\* An error was set by a step that made the handler return -1.
LEMMA ErrorKept ==
  ASSUME DispatchInv, NEW op, At(op), op # "add", status # 0
  PROVE  rc = -1
<1>1. /\ Sound(entry, Asked) /\ stage = "handling" /\ Len(entry.script) \in Nat
      /\ next \in 1 .. Len(entry.script) /\ entry.script[next].op = op
  BY Handling
<1>2. ~ (next # 1 /\ entry.script[next - 1].op = "instance_on")
  <2> SUFFICES ASSUME next # 1, entry.script[next - 1].op = "instance_on" PROVE FALSE
    OBVIOUS
  <2>1. next - 1 \in 1 .. Len(entry.script) /\ (next - 1) + 1 = next
    BY <1>1
  <2>2. entry.script[(next - 1) + 1].op = "add"
    BY <1>1, <2>1 DEF Sound, AppendsNext
  <2>q. QED BY <1>1, <2>1, <2>2
<1>q. QED
  BY <1>1, <1>2 DEF DispatchInv, Errors

\* The only step after a command looks for the metadata.
LEMMA AfterCommand ==
  ASSUME DispatchInv, NEW op, At(op), "command" \in changed
  PROVE  /\ op = "argument_on" /\ entry.script[next].name = "CurrentURIMetaData"
         /\ entry.name = "SetAVTransportURI"
         /\ \E j \in 1 .. next - 1 : j <= Len(entry.script) /\ entry.script[j].op \in Changing
<1>1. /\ Sound(entry, Asked) /\ stage = "handling" /\ Len(entry.script) \in Nat
      /\ next \in 1 .. Len(entry.script) /\ entry.script[next].op = op
  BY Handling
<1>2. PICK j \in 1 .. next : /\ j <= Len(entry.script) /\ entry.script[j].op \in Changing
                            /\ j # next
  <2>1. Commanded
    BY DEF DispatchInv, Changes
  <2>q. QED BY <1>1, <2>1 DEF Commanded
<1>3. j \in 1 .. Len(entry.script) /\ next \in j + 1 .. Len(entry.script) /\ j \in 1 .. next - 1
  BY <1>1, <1>2
<1>q. QED
  BY <1>1, <1>2, <1>3 DEF Sound, ChecksFirst

\* No error precedes a command.
LEMMA AtCommand ==
  ASSUME DispatchInv, NEW op \in Changing, At(op)
  PROVE  errCode = "success" /\ "command" \notin changed
<1>1. /\ Sound(entry, Asked) /\ stage = "handling"
      /\ next \in 1 .. Len(entry.script) /\ entry.script[next].op = op
  BY Handling
<1>2. \A i \in 1 .. next - 1 : entry.script[i].op \in {"instance", "argument", "link"}
  BY <1>1 DEF Sound, ChecksFirst
<1>3. errCode = "success"
  BY <1>1, <1>2 DEF DispatchInv, Changes
<1>4. "command" \notin changed
  BY AfterCommand DEF Changing
<1>q. QED
  BY <1>3, <1>4

\* A step that commands nothing, the one after a command excepted.
LEMMA ChangesOn ==
  ASSUME DispatchInv, NEW op, At(op), op # "argument_on", UNCHANGED entry,
         \/ next' = next + 1 /\ UNCHANGED stage
         \/ next' = next /\ stage' = "returned",
         "command" \in changed' => "command" \in changed,
         errCode' # "success" =>
           errCode # "success" \/ stage' = "returned" \/ op \notin {"instance", "argument", "link"}
  PROVE  Changes'
<1>1. /\ stage = "handling" /\ Len(entry.script) \in Nat
      /\ next \in 1 .. Len(entry.script) /\ entry.script[next].op = op
  BY Handling
<1>2. "command" \notin changed'
  BY AfterCommand
<1>3. ASSUME stage' = "handling", errCode' # "success"
      PROVE  \E j \in 1 .. next' - 1 :
               entry.script[j].op \notin {"instance", "argument", "link"}
  <2>1. next' = next + 1
    BY <1>1, <1>3
  <2>2. CASE errCode # "success"
    <3>1. PICK j \in 1 .. next - 1 : entry.script[j].op \notin {"instance", "argument", "link"}
      BY <1>1, <2>2 DEF DispatchInv, Changes
    <3>2. j \in 1 .. next' - 1
      BY <1>1, <2>1
    <3>q. QED BY <3>1, <3>2
  <2>3. CASE op \notin {"instance", "argument", "link"}
    <3>1. next \in 1 .. next' - 1
      BY <1>1, <2>1
    <3>q. QED BY <1>1, <2>3, <3>1
  <2>q. QED BY <1>3, <2>2, <2>3
<1>q. QED
  BY <1>2, <1>3 DEF Changes

\* A step that commands something.
LEMMA ChangesNow ==
  ASSUME DispatchInv, NEW op \in Changing, At(op), UNCHANGED entry,
         \/ next' = next + 1 /\ UNCHANGED <<stage, errCode>>
         \/ next' = next /\ stage' = "returned" /\ (changed' = changed \/ lost' = TRUE)
  PROVE  Changes'
<1>1. /\ entry # None /\ stage = "handling" /\ Len(entry.script) \in Nat
      /\ next \in 1 .. Len(entry.script) /\ entry.script[next].op = op
  BY Handling
<1>2. errCode = "success" /\ "command" \notin changed
  BY AtCommand
<1>3. next \in 1 .. next' /\ (stage' = "handling" => next # next')
  BY <1>1
<1>4. Commanded'
  BY <1>1, <1>3 DEF Commanded
<1>q. QED
  BY <1>1, <1>2, <1>4 DEF Changes

LEMMA CheckInstanceStep ==
  ASSUME DispatchInv, CheckInstance
  PROVE  DispatchInv'
<1>1. PICK op \in {"instance", "instance_on"} : At(op)
  BY DEF CheckInstance
<1>2. /\ entry # None /\ Sound(entry, Asked) /\ stage = "handling"
      /\ Len(entry.script) \in Nat /\ next \in 1 .. Len(entry.script)
      /\ entry.script[next].op = op /\ entry.script # NoHandler
      /\ status \in {0, -1} /\ rc \in {0, -1} /\ errCode \in {"success", "failed"}
      /\ changed \subseteq {"command", "report"} /\ lost \in BOOLEAN
  BY <1>1, Handling
<1>3. UNCHANGED <<request, entry, changed, lost, subscription>>
  BY DEF CheckInstance
<1>4. \/ InstanceGood /\ next' = next + 1 /\ UNCHANGED <<stage, status, rc, errCode, answer>>
      \/ /\ status' = -1 /\ answer' = None /\ errCode' = "failed"
         /\ \/ op = "instance_on" /\ next' = next + 1 /\ UNCHANGED <<stage, rc>>
            \/ op = "instance" /\ stage' = "returned" /\ rc' = -1 /\ UNCHANGED next
  BY <1>1, <1>2 DEF CheckInstance, At, GoOn, Leave, SetError
<1>5. DispatchTypeOK' /\ Chosen' /\ Events'
  BY <1>2, <1>3, <1>4, Within
<1>6. Passed'
  BY <1>1, <1>2, <1>3, <1>4 DEF DispatchInv, Passed, InstanceGood
<1>7. Errors'
  BY <1>1, <1>2, <1>3, <1>4, ErrorKept DEF DispatchInv, Errors
<1>8. Changes'
  BY <1>1, <1>2, <1>3, <1>4, ChangesOn
<1>9. Answers'
  BY <1>1, <1>2, <1>3, <1>4, AnswersOn, AnswersLeft
<1>q. QED
  BY <1>5, <1>6, <1>7, <1>8, <1>9 DEF DispatchInv

LEMMA GetArgumentStep ==
  ASSUME DispatchInv, GetArgument
  PROVE  DispatchInv'
<1>1. PICK op \in {"argument", "argument_on"} : At(op)
  BY DEF GetArgument
<1>2. /\ entry # None /\ Sound(entry, Asked) /\ stage = "handling"
      /\ Len(entry.script) \in Nat /\ next \in 1 .. Len(entry.script)
      /\ entry.script[next].op = op /\ entry.script # NoHandler
      /\ status \in {0, -1} /\ rc \in {0, -1} /\ errCode \in {"success", "failed"}
      /\ changed \subseteq {"command", "report"} /\ lost \in BOOLEAN
  BY <1>1, Handling
<1>3. UNCHANGED <<request, entry, changed, lost, subscription>>
  BY DEF GetArgument
<1>4. \/ /\ entry.script[next].name \in request.args /\ next' = next + 1
         /\ UNCHANGED <<stage, status, rc, errCode, answer>>
      \/ /\ entry.script[next].name \notin request.args
         /\ status' = -1 /\ answer' = None /\ errCode' = "failed" /\ rc' = -1
         /\ \/ op = "argument_on" /\ next' = next + 1 /\ UNCHANGED stage
            \/ op = "argument" /\ stage' = "returned" /\ UNCHANGED next
  BY <1>1, <1>2 DEF GetArgument, At, GoOn, Leave, SetError
<1>5. DispatchTypeOK' /\ Chosen' /\ Events'
  BY <1>2, <1>3, <1>4, Within
<1>6. Passed'
  BY <1>1, <1>2, <1>3, <1>4 DEF DispatchInv, Passed, InstanceGood
<1>7. Errors'
  BY <1>1, <1>2, <1>3, <1>4, ErrorKept DEF DispatchInv, Errors
<1>8. Changes'
  <2>1. CASE op = "argument"
    BY <1>1, <1>2, <1>3, <1>4, <2>1, ChangesOn
  <2>2. CASE op = "argument_on"
    <3>1. next' = next + 1 /\ stage' = stage
      BY <1>4, <2>2
    <3>2. /\ next \in 1 .. next' - 1
          /\ entry.script[next].op \notin {"instance", "argument", "link"}
      BY <1>2, <2>2, <3>1
    <3>3. CASE "command" \in changed
      <4>1. PICK j \in 1 .. next - 1 : j <= Len(entry.script) /\ entry.script[j].op \in Changing
        BY <1>1, <3>3, AfterCommand
      <4>2. Commanded'
        BY <1>2, <1>3, <3>1, <4>1 DEF Commanded
      <4>3. errCode' # "success" =>
              \/ lost
              \/ entry.name = "SetAVTransportURI" /\ "CurrentURIMetaData" \notin request.args
        BY <1>1, <1>4, <3>3, AfterCommand DEF DispatchInv, Changes
      <4>q. QED BY <1>2, <1>3, <3>2, <4>2, <4>3 DEF Changes
    <3>4. CASE "command" \notin changed
      BY <1>3, <3>2, <3>4 DEF Changes
    <3>q. QED BY <3>3, <3>4
  <2>q. QED BY <2>1, <2>2
<1>9. Answers'
  BY <1>1, <1>2, <1>3, <1>4, AnswersOn, AnswersLeft
<1>q. QED
  BY <1>5, <1>6, <1>7, <1>8, <1>9 DEF DispatchInv

LEMMA CheckLinkStep ==
  ASSUME DispatchInv, CheckLink
  PROVE  DispatchInv'
<1>1. At("link")
  BY DEF CheckLink
<1>2. /\ entry # None /\ Sound(entry, Asked) /\ stage = "handling"
      /\ Len(entry.script) \in Nat /\ next \in 1 .. Len(entry.script)
      /\ entry.script[next].op = "link" /\ entry.script # NoHandler
      /\ status \in {0, -1} /\ rc \in {0, -1} /\ errCode \in {"success", "failed"}
      /\ changed \subseteq {"command", "report"} /\ lost \in BOOLEAN
  BY <1>1, Handling
<1>3. UNCHANGED <<request, entry, status, errCode, answer, subscription>>
  BY DEF CheckLink
<1>4. /\ \/ next' = next + 1 /\ UNCHANGED <<stage, rc, lost>>
         \/ stage' = "returned" /\ rc' = -1 /\ lost' = TRUE /\ UNCHANGED next
      /\ changed' \subseteq {"command", "report"}
      /\ "command" \in changed' => "command" \in changed
  <2>1. \/ next' = next + 1 /\ Touch({"report"}) /\ UNCHANGED <<stage, rc, lost>>
        \/ stage' = "returned" /\ rc' = -1 /\ lost' = TRUE /\ UNCHANGED <<next, changed>>
    BY DEF CheckLink, GoOn, Leave
  <2>2. CASE Touch({"report"})
    BY <1>2, <2>1, <2>2, Touched
  <2>3. CASE UNCHANGED changed
    BY <1>2, <2>1, <2>3
  <2>q. QED BY <2>1, <2>2, <2>3
<1>5. DispatchTypeOK' /\ Chosen' /\ Events'
  <2>1. status' \in {0, -1} /\ rc' \in {0, -1} /\ errCode' \in {"success", "failed"}
    BY <1>2, <1>3, <1>4
  <2>2. lost' \in BOOLEAN /\ changed' \subseteq {"command", "report"}
    BY <1>2, <1>3, <1>4
  <2>3. \/ stage' = "handling" /\ next' = next + 1
        \/ stage' = "returned" /\ next' = next /\ rc' = -1
    BY <1>2, <1>4
  <2>q. QED BY <1>2, <1>3, <2>1, <2>2, <2>3, Within
<1>6. Passed'
  BY <1>1, <1>2, <1>3, <1>4 DEF DispatchInv, Passed, InstanceGood
<1>7. Errors'
  BY <1>1, <1>2, <1>3, <1>4, ErrorKept DEF DispatchInv, Errors
<1>8. Changes'
  BY <1>1, <1>2, <1>3, <1>4, ChangesOn
<1>9. Answers'
  <2>1. CASE next' = next + 1 /\ UNCHANGED <<stage, lost>>
    BY <1>1, <1>3, <2>1, AnswersOn
  <2>2. CASE stage' = "returned" /\ rc' = -1 /\ lost' = TRUE
    <3>1. ASSUME Followed', errCode = "success"
          PROVE  Len(Asked.out) = 0 /\ answer = None
      <4>1. Careful(entry) /\ Followed
        BY <1>3, <2>2, <3>1 DEF Followed
      <4>2. Len(Asked.out) = 0
        BY <1>1, <1>2, <4>1 DEF Sound, Describes
      <4>3. status = 0
        BY <1>2, <3>1 DEF DispatchInv, Errors
      <4>4. Holds(Asked.out, next - 1 - Before(entry, Asked))
        BY <1>2, <4>1, <4>3 DEF DispatchInv, Answers
      <4>5. next \in 1 .. Before(entry, Asked) /\ Before(entry, Asked) \in Nat
        BY <1>1, <4>1, BeforeAppends
      <4>q. QED BY <4>2, <4>4, <4>5 DEF Holds
    <3>q. QED BY <1>2, <1>3, <2>2, <3>1, AnswersLeft
  <2>q. QED BY <1>4, <2>1, <2>2
<1>q. QED
  BY <1>5, <1>6, <1>7, <1>8, <1>9 DEF DispatchInv

\* What becomes of an output_* call.
LEMMA Tried ==
  ASSUME changed \subseteq {"command", "report"}, Try
  PROVE  /\ \/ next' = next + 1 /\ UNCHANGED <<stage, status, rc, errCode, answer, lost>>
            \/ /\ status' = -1 /\ answer' = None /\ errCode' = "failed"
               /\ stage' = "returned" /\ rc' = -1 /\ UNCHANGED next
               /\ \/ UNCHANGED <<changed, lost>>
                  \/ lost' = TRUE
         /\ changed' \subseteq {"command", "report"}
<1>1. CASE GoOn /\ Touch({"command", "report"}) /\ UNCHANGED <<status, rc, errCode, answer, lost>>
  BY <1>1, Touched DEF GoOn
<1>2. CASE SetError /\ Leave(-1) /\ UNCHANGED <<changed, lost>>
  BY <1>2 DEF SetError, Leave
<1>3. CASE SetError /\ Leave(-1) /\ Touch({"command"}) /\ lost' = TRUE
  BY <1>3, Touched DEF SetError, Leave
<1>q. QED
  BY <1>1, <1>2, <1>3 DEF Try

LEMMA DoWorkStep ==
  ASSUME DispatchInv, DoWork
  PROVE  DispatchInv'
<1>1. At("work")
  BY DEF DoWork
<1>2. /\ entry # None /\ Sound(entry, Asked) /\ stage = "handling"
      /\ Len(entry.script) \in Nat /\ next \in 1 .. Len(entry.script)
      /\ entry.script[next].op = "work" /\ entry.script # NoHandler
      /\ status \in {0, -1} /\ rc \in {0, -1} /\ errCode \in {"success", "failed"}
      /\ changed \subseteq {"command", "report"} /\ lost \in BOOLEAN
  BY <1>1, Handling
<1>3. UNCHANGED <<request, entry, subscription>>
  BY DEF DoWork
<1>4. /\ \/ next' = next + 1 /\ UNCHANGED <<stage, status, rc, errCode, answer, lost>>
         \/ /\ status' = -1 /\ answer' = None /\ errCode' = "failed"
            /\ stage' = "returned" /\ rc' = -1 /\ UNCHANGED next
            /\ UNCHANGED <<changed, lost>> \/ lost' = TRUE
      /\ changed' \subseteq {"command", "report"}
  BY <1>2, Tried DEF DoWork
<1>5. DispatchTypeOK' /\ Chosen' /\ Events'
  <2>1. status' \in {0, -1} /\ rc' \in {0, -1} /\ errCode' \in {"success", "failed"}
    BY <1>2, <1>3, <1>4
  <2>2. lost' \in BOOLEAN /\ changed' \subseteq {"command", "report"}
    BY <1>2, <1>3, <1>4
  <2>3. \/ stage' = "handling" /\ next' = next + 1
        \/ stage' = "returned" /\ next' = next /\ rc' = -1
    BY <1>2, <1>4
  <2>q. QED BY <1>2, <1>3, <2>1, <2>2, <2>3, Within
<1>6. Passed'
  BY <1>1, <1>2, <1>3, <1>4 DEF DispatchInv, Passed, InstanceGood
<1>7. Errors'
  BY <1>1, <1>2, <1>3, <1>4, ErrorKept DEF DispatchInv, Errors
<1>8. Changes'
  BY <1>1, <1>2, <1>3, <1>4, ChangesNow DEF Changing
<1>9. Answers'
  <2>1. CASE next' = next + 1 /\ UNCHANGED <<stage, status, rc, errCode, answer, lost>>
    BY <1>1, <1>3, <2>1, AnswersOn
  <2>2. CASE stage' = "returned" /\ rc' = -1 /\ errCode' = "failed"
    BY <1>3, <2>2, AnswersLeft
  <2>q. QED BY <1>4, <2>1, <2>2
<1>q. QED
  BY <1>5, <1>6, <1>7, <1>8, <1>9 DEF DispatchInv

LEMMA DoSwitchStep ==
  ASSUME DispatchInv, DoSwitch
  PROVE  DispatchInv'
<1>1. At("switch")
  BY DEF DoSwitch
<1>2. /\ entry # None /\ Sound(entry, Asked) /\ stage = "handling"
      /\ Len(entry.script) \in Nat /\ next \in 1 .. Len(entry.script)
      /\ entry.script[next].op = "switch" /\ entry.script # NoHandler
      /\ status \in {0, -1} /\ rc \in {0, -1} /\ errCode \in {"success", "failed"}
      /\ changed \subseteq {"command", "report"} /\ lost \in BOOLEAN
  BY <1>1, Handling
<1>3. UNCHANGED <<request, entry, subscription>>
  BY DEF DoSwitch
<1>4. /\ \/ next' = next + 1 /\ UNCHANGED <<stage, status, rc, errCode, answer, lost>>
         \/ /\ status' = -1 /\ answer' = None /\ errCode' = "failed"
            /\ stage' = "returned" /\ rc' = -1 /\ UNCHANGED next
            /\ UNCHANGED <<changed, lost>> \/ lost' = TRUE
      /\ changed' \subseteq {"command", "report"}
  <2> DEFINE case(state) == Cases[entry.script[next].name][state]
  <2>1. PICK state \in TransportStates :
          IF case(state) = "work" THEN Try
          ELSE /\ IF case(state) = "nothing"
                  THEN UNCHANGED <<status, errCode, answer>> ELSE SetError
               /\ IF case(state) = "fail" THEN Leave(-1) ELSE GoOn /\ UNCHANGED rc
               /\ UNCHANGED <<changed, lost>>
    BY Zenon DEF DoSwitch
  <2>2. case(state) \in {"nothing", "work"}
    BY <1>2 DEF Sound, Allows
  <2> HIDE DEF case
  <2>3. CASE case(state) = "work"
    BY <1>2, <2>1, <2>3, Tried
  <2>4. CASE case(state) = "nothing"
    BY <1>2, <2>1, <2>4 DEF GoOn
  <2>q. QED BY <2>2, <2>3, <2>4
<1>5. DispatchTypeOK' /\ Chosen' /\ Events'
  <2>1. status' \in {0, -1} /\ rc' \in {0, -1} /\ errCode' \in {"success", "failed"}
    BY <1>2, <1>3, <1>4
  <2>2. lost' \in BOOLEAN /\ changed' \subseteq {"command", "report"}
    BY <1>2, <1>3, <1>4
  <2>3. \/ stage' = "handling" /\ next' = next + 1
        \/ stage' = "returned" /\ next' = next /\ rc' = -1
    BY <1>2, <1>4
  <2>q. QED BY <1>2, <1>3, <2>1, <2>2, <2>3, Within
<1>6. Passed'
  BY <1>1, <1>2, <1>3, <1>4 DEF DispatchInv, Passed, InstanceGood
<1>7. Errors'
  BY <1>1, <1>2, <1>3, <1>4, ErrorKept DEF DispatchInv, Errors
<1>8. Changes'
  BY <1>1, <1>2, <1>3, <1>4, ChangesNow DEF Changing
<1>9. Answers'
  <2>1. CASE next' = next + 1 /\ UNCHANGED <<stage, status, rc, errCode, answer, lost>>
    BY <1>1, <1>3, <2>1, AnswersOn
  <2>2. CASE stage' = "returned" /\ rc' = -1 /\ errCode' = "failed"
    BY <1>3, <2>2, AnswersLeft
  <2>q. QED BY <1>4, <2>1, <2>2
<1>q. QED
  BY <1>5, <1>6, <1>7, <1>8, <1>9 DEF DispatchInv

LEMMA DoStoreStep ==
  ASSUME DispatchInv, DoStore
  PROVE  DispatchInv'
<1>1. At("store")
  BY DEF DoStore
<1>2. /\ entry # None /\ Sound(entry, Asked) /\ stage = "handling"
      /\ Len(entry.script) \in Nat /\ next \in 1 .. Len(entry.script)
      /\ entry.script[next].op = "store" /\ entry.script # NoHandler
      /\ status \in {0, -1} /\ rc \in {0, -1} /\ errCode \in {"success", "failed"}
      /\ changed \subseteq {"command", "report"} /\ lost \in BOOLEAN
  BY <1>1, Handling
<1>3. UNCHANGED <<request, entry, status, rc, errCode, answer, lost, subscription>>
  BY DEF DoStore
<1>4. next' = next + 1 /\ changed' = changed \cup {"command"} /\ UNCHANGED stage
  BY DEF DoStore, GoOn
<1>5. DispatchTypeOK' /\ Chosen' /\ Events'
  <2>1. status' \in {0, -1} /\ rc' \in {0, -1} /\ errCode' \in {"success", "failed"}
    BY <1>2, <1>3, <1>4
  <2>2. lost' \in BOOLEAN /\ changed' \subseteq {"command", "report"}
    BY <1>2, <1>3, <1>4
  <2>3. \/ stage' = "handling" /\ next' = next + 1
        \/ stage' = "returned" /\ next' = next /\ rc' = -1
    BY <1>2, <1>4
  <2>q. QED BY <1>2, <1>3, <2>1, <2>2, <2>3, Within
<1>6. Passed'
  BY <1>1, <1>2, <1>3, <1>4 DEF DispatchInv, Passed, InstanceGood
<1>7. Errors'
  BY <1>1, <1>2, <1>3, <1>4, ErrorKept DEF DispatchInv, Errors
<1>8. Changes'
  BY <1>1, <1>2, <1>3, <1>4, ChangesNow DEF Changing
<1>9. Answers'
  BY <1>1, <1>3, <1>4, AnswersOn
<1>q. QED
  BY <1>5, <1>6, <1>7, <1>8, <1>9 DEF DispatchInv

LEMMA DoReportStep ==
  ASSUME DispatchInv, DoReport
  PROVE  DispatchInv'
<1>1. At("report")
  BY DEF DoReport
<1>2. /\ entry # None /\ Sound(entry, Asked) /\ stage = "handling"
      /\ Len(entry.script) \in Nat /\ next \in 1 .. Len(entry.script)
      /\ entry.script[next].op = "report" /\ entry.script # NoHandler
      /\ status \in {0, -1} /\ rc \in {0, -1} /\ errCode \in {"success", "failed"}
      /\ changed \subseteq {"command", "report"} /\ lost \in BOOLEAN
  BY <1>1, Handling
<1>3. UNCHANGED <<request, entry, status, rc, errCode, answer, lost, subscription>>
  BY DEF DoReport
<1>4. /\ next' = next + 1 /\ UNCHANGED stage
      /\ changed' \subseteq {"command", "report"}
      /\ "command" \in changed' => "command" \in changed
  <2>1. next' = next + 1 /\ Touch({"report"}) /\ UNCHANGED stage
    BY DEF DoReport, GoOn
  <2>q. QED BY <1>2, <2>1, Touched
<1>5. DispatchTypeOK' /\ Chosen' /\ Events'
  <2>1. status' \in {0, -1} /\ rc' \in {0, -1} /\ errCode' \in {"success", "failed"}
    BY <1>2, <1>3, <1>4
  <2>2. lost' \in BOOLEAN /\ changed' \subseteq {"command", "report"}
    BY <1>2, <1>3, <1>4
  <2>3. \/ stage' = "handling" /\ next' = next + 1
        \/ stage' = "returned" /\ next' = next /\ rc' = -1
    BY <1>2, <1>4
  <2>q. QED BY <1>2, <1>3, <2>1, <2>2, <2>3, Within
<1>6. Passed'
  BY <1>1, <1>2, <1>3, <1>4 DEF DispatchInv, Passed, InstanceGood
<1>7. Errors'
  BY <1>1, <1>2, <1>3, <1>4, ErrorKept DEF DispatchInv, Errors
<1>8. Changes'
  BY <1>1, <1>2, <1>3, <1>4, ChangesOn
<1>9. Answers'
  BY <1>1, <1>3, <1>4, AnswersOn
<1>q. QED
  BY <1>5, <1>6, <1>7, <1>8, <1>9 DEF DispatchInv

LEMMA AppendVariableStep ==
  ASSUME DispatchInv, AppendVariable
  PROVE  DispatchInv'
<1>1. PICK op \in {"add", "add_on"} : At(op)
  BY DEF AppendVariable
<1>2. /\ entry # None /\ Sound(entry, Asked) /\ stage = "handling"
      /\ Len(entry.script) \in Nat /\ next \in 1 .. Len(entry.script)
      /\ entry.script[next].op = op /\ entry.script # NoHandler
      /\ status \in {0, -1} /\ rc \in {0, -1} /\ errCode \in {"success", "failed"}
      /\ changed \subseteq {"command", "report"} /\ lost \in BOOLEAN
  BY <1>1, Handling
<1>3. UNCHANGED <<request, entry, status, changed, subscription>>
  BY DEF AppendVariable
<1>4. \/ /\ status = 0 /\ next' = next + 1 /\ UNCHANGED <<stage, rc, errCode, lost>>
         /\ answer' = Filled(<<entry.script[next].name, entry.script[next].var>>)
      \/ /\ \/ status # 0 /\ UNCHANGED <<answer, errCode, lost>>
            \/ status = 0 /\ answer' = None /\ errCode' = "failed" /\ lost' = TRUE
         /\ \/ op = "add_on" /\ next' = next + 1 /\ UNCHANGED <<stage, rc>>
            \/ op = "add" /\ stage' = "returned" /\ rc' = -1 /\ UNCHANGED next
  BY <1>1, <1>2 DEF AppendVariable, At, GoOn, Leave, Refused
<1>5. DispatchTypeOK' /\ Chosen' /\ Events'
  <2>1. status' \in {0, -1} /\ rc' \in {0, -1} /\ errCode' \in {"success", "failed"}
    BY <1>2, <1>3, <1>4
  <2>2. lost' \in BOOLEAN /\ changed' \subseteq {"command", "report"}
    BY <1>2, <1>3, <1>4
  <2>3. \/ stage' = "handling" /\ next' = next + 1
        \/ stage' = "returned" /\ next' = next /\ rc' = -1
    BY <1>2, <1>4
  <2>q. QED BY <1>2, <1>3, <2>1, <2>2, <2>3, Within
<1>6. Passed'
  BY <1>1, <1>2, <1>3, <1>4 DEF DispatchInv, Passed, InstanceGood
<1>7. Errors'
  BY <1>1, <1>2, <1>3, <1>4, SMTT(30) DEF DispatchInv, Errors, Sound, AppendsNext
<1>8. Changes'
  BY <1>1, <1>2, <1>3, <1>4, ChangesOn
<1>9. Answers'
  <2>1. CASE stage' = "returned"
    <3>1. errCode' = "failed" /\ rc' = -1
      BY <1>2, <1>3, <1>4, <2>1 DEF DispatchInv, Errors
    <3>q. QED BY <1>3, <2>1, <3>1, AnswersLeft
  <2>2. CASE stage' = "handling" /\ ~ Followed'
    BY <2>2 DEF Answers
  <2>3. CASE stage' = "handling" /\ Followed'
    <3> DEFINE outs == Asked.out
               before == Before(entry, Asked)
    <3>0. Careful(entry) /\ Followed /\ Asked' = Asked /\ (lost' => entry.name \notin Careless)
      BY <1>2, <1>3, <1>4, <2>3 DEF Followed, Asked
    <3>1. Describes(entry, Asked)
      BY <1>2, <3>0 DEF Sound
    <3>2. op = AddOp(entry) /\ next > before /\ before \in Nat /\ Len(outs) \in Nat
      BY <1>2, <3>1 DEF Describes
    <3>3. op = "add_on" => ~ lost'
      BY <3>0, <3>2 DEF AddOp
    <3>4. \A i \in 1 .. Len(outs) :
            /\ entry.script[before + i] = Step(op, outs[i][1], outs[i][2])
            /\ outs[i] = <<outs[i][1], outs[i][2]>>
      BY <3>1, <3>2, Zenon DEF Describes
    <3>5. next \in 1 .. Len(entry.script) /\ entry.script[next] \in ToSet(entry.script)
      BY <1>2 DEF Sound, ToSet
    <3>6. ASSUME status = 0
          PROVE  Holds(Asked.out, next - 1 - Before(entry, Asked))'
      <4>3. PICK k \in 1 .. Len(outs) : next = before + k
        <5>1. Len(entry.script) = before + Len(outs)
          BY <1>2, <3>2 DEF Before
        <5>2. next - before \in 1 .. Len(outs)
          BY <1>2, <3>2, <5>1
        <5>q. QED BY <1>2, <3>2, <5>2
      <4> DEFINE step == entry.script[next]
                 pair == <<step.name, step.var>>
      <4>1. answer' = Filled(pair)
        BY <1>2, <1>4, <2>3, <3>3, <3>6
      <4>2. Holds(outs, k - 1)
        <5>1. Holds(outs, next - 1 - before)
          BY <1>2, <3>0, <3>6 DEF DispatchInv, Answers
        <5>2. next - 1 - before = k - 1
          BY <3>2, <4>3
        <5>q. QED BY <5>1, <5>2
      <4>4. pair = outs[k]
        <5>1. \A x, y : Step(op, x, y).name = x /\ Step(op, x, y).var = y
          BY DEF Step
        <5>2. /\ step = Step(op, outs[k][1], outs[k][2])
              /\ outs[k] = <<outs[k][1], outs[k][2]>>
          BY <3>4, <4>3, Zenon
        <5>3. step.name = outs[k][1] /\ step.var = outs[k][2]
          <6> HIDE DEF step
          <6>q. QED BY <5>1, <5>2
        <5>q. QED BY <5>2, <5>3, Zenon
      <4>5. pair \in Appendable
        <5>1. entry \in Entries
          BY <1>1, Handling
        <5>2. \A e \in Entries : \A s \in ToSet(e.script) : <<s.name, s.var>> \in Appendable
          BY DEF Appendable
        <5>q. QED BY <3>5, <5>1, <5>2, Zenon
      <4>6. /\ answer' \in Seq(Appendable) /\ Len(answer') = k
            /\ \A i \in 1 .. k : answer'[i] = outs[i]
        <5> HIDE DEF pair
        <5>1. CASE k = 1
          <6>1. answer = None
            BY <4>2, <5>1 DEF Holds
          <6>2. answer' = <<pair>>
            BY <4>1, <6>1 DEF Filled
          <6>3. <<pair>> \in Seq(Appendable) /\ Len(<<pair>>) = 1 /\ <<pair>>[1] = pair
            BY <4>5
          <6>q. QED BY <4>4, <5>1, <6>2, <6>3
        <5>2. CASE k # 1
          <6>1. /\ answer \in Seq(Appendable) /\ Len(answer) = k - 1
                /\ \A i \in 1 .. k - 1 : answer[i] = outs[i]
            BY <4>2, <4>3, <5>2 DEF Holds
          <6>2. answer # None
            BY <6>1, NoneAssumption
          <6>3. answer' = Append(answer, pair)
            BY <4>1, <6>2 DEF Filled
          <6>4. /\ answer' \in Seq(Appendable) /\ Len(answer') = k
                /\ answer'[k] = pair /\ \A i \in 1 .. k - 1 : answer'[i] = answer[i]
            BY <4>3, <4>5, <6>1, <6>3
          <6>5. \A i \in 1 .. k : i = k \/ i \in 1 .. k - 1
            BY <4>3
          <6>6. \A i \in 1 .. k : answer'[i] = outs[i]
            BY <4>4, <6>1, <6>4, <6>5, Zenon
          <6>q. QED BY <6>4, <6>6
        <5>q. QED BY <5>1, <5>2
      <4>7. next' = next + 1
        BY <1>4, <2>3, <3>3, <3>6
      <4>8. next' - 1 - Before(entry', Asked') = k /\ ~ k <= 0 /\ Asked'.out = outs
        BY <1>3, <3>0, <3>2, <4>3, <4>7
      <4>q. QED BY <4>6, <4>8 DEF Holds
    <3>q. QED BY <1>2, <1>3, <2>3, <3>6 DEF Answers
  <2>q. QED BY <1>2, <1>4, <2>1, <2>2, <2>3
<1>q. QED
  BY <1>5, <1>6, <1>7, <1>8, <1>9 DEF DispatchInv

LEMMA ReturnStep ==
  ASSUME DispatchInv, Return
  PROVE  DispatchInv'
<1>1. /\ stage = "handling" /\ next > Len(entry.script) /\ stage' = "returned"
      /\ UNCHANGED <<request, entry, next, rc, status, errCode, answer>>
      /\ UNCHANGED <<changed, lost, subscription>>
  BY DEF Return, Leave
<1>2. entry # None /\ entry.script # NoHandler
  BY <1>1 DEF DispatchInv, Chosen
<1>3. Sound(entry, Asked) /\ Len(entry.script) \in Nat
  BY <1>2, EntryFacts DEF DispatchInv
<1>4. next = Len(entry.script) + 1 /\ status \in {0, -1} /\ rc \in {0, -1}
  BY <1>1, <1>2, <1>3 DEF DispatchInv, DispatchTypeOK
<1>5. DispatchTypeOK'
  BY <1>1 DEF DispatchInv, DispatchTypeOK
<1>6. Chosen'
  BY <1>1, <1>2 DEF DispatchInv, Chosen, Serving
<1>7. Passed'
  BY <1>1 DEF DispatchInv, Passed, InstanceGood
<1>8. Errors'
  BY <1>1, <1>3, <1>4 DEF DispatchInv, Errors, Sound, AppendsNext
<1>9. Changes'
  BY <1>1 DEF DispatchInv, Changes, Commanded
<1>10. Answers'
  <2>1. rc = 0 => status = 0
    BY <1>1, <1>3, <1>4 DEF DispatchInv, Errors, Sound, AppendsNext
  <2>2. rc = -1 => errCode # "success"
    BY <1>1 DEF DispatchInv, Errors
  <2>3. Asked' = Asked /\ (Followed' <=> Followed)
    BY <1>1 DEF Asked, Followed
  <2>4. ASSUME Followed, rc = 0
        PROVE  Holds(Asked.out, next - 1 - Before(entry, Asked))'
    <3>1. Holds(Asked.out, next - 1 - Before(entry, Asked))
      BY <1>1, <2>1, <2>4 DEF DispatchInv, Answers
    <3>q. QED BY <1>1, <2>3, <3>1 DEF Holds
  <2>q. QED BY <1>1, <2>2, <2>3, <2>4 DEF Answers
<1>11. Events'
  BY <1>1 DEF Events
<1>q. QED
  BY <1>5, <1>6, <1>7, <1>8, <1>9, <1>10, <1>11 DEF DispatchInv

LEMMA FinishStep ==
  ASSUME DispatchInv, Finish
  PROVE  DispatchInv'
<1>1. /\ stage = "returned" /\ stage' = "answered"
      /\ errCode' = (IF rc = 0 THEN "success" ELSE errCode)
      /\ answer' = (IF answer = None THEN <<>> ELSE answer)
      /\ UNCHANGED <<request, entry, next, status, rc, changed, lost, subscription>>
  BY DEF Finish, ErrCodeAfter
<1>2. entry # None /\ entry.script # NoHandler
  BY <1>1 DEF DispatchInv, Chosen
<1>3. Sound(entry, Asked) /\ Len(entry.script) \in Nat /\ errCode # "401"
  BY <1>2, EntryFacts DEF DispatchInv
<1>4. /\ status \in {0, -1} /\ rc \in {0, -1} /\ errCode \in {"success", "failed"}
      /\ next \in 1 .. Len(entry.script) + 1
  BY <1>2, <1>3 DEF DispatchInv, DispatchTypeOK
<1>n. answer' # None
  <2>1. <<>> # None
    <3>1. <<>> \in Seq(Appendable)
      OBVIOUS
    <3>q. QED BY <3>1, NoneAssumption
  <2>q. QED BY <1>1, <2>1
<1>5. DispatchTypeOK'
  BY <1>1, <1>4 DEF DispatchInv, DispatchTypeOK
<1>6. Chosen'
  BY <1>1, <1>2, <1>4 DEF DispatchInv, Chosen, Serving
<1>7. Passed'
  BY <1>1 DEF DispatchInv, Passed, InstanceGood
<1>8. Errors'
  BY <1>1, <1>4 DEF DispatchInv, Errors
<1>9. Changes'
  BY <1>1, <1>4 DEF DispatchInv, Changes, Commanded
<1>10. Answers'
  <2>0. Asked' = Asked /\ (Followed' <=> Followed)
    BY <1>1 DEF Asked, Followed
  <2>1. ASSUME Followed, errCode' = "success"
        PROVE  answer' = Asked.out
    <3>1. /\ Asked.out \in Seq(ToSet(Asked.out)) /\ Describes(entry, Asked)
          /\ Len(Asked.out) \in Nat /\ Before(entry, Asked) \in Nat
      BY <1>3, <2>1 DEF Sound, Describes, Followed
    <3>2. CASE rc = 0
      <4>1. next = Len(entry.script) + 1
        BY <1>1, <1>4, <3>2 DEF DispatchInv, Errors
      <4>2. next - 1 - Before(entry, Asked) = Len(Asked.out)
        BY <1>3, <3>1, <4>1 DEF Before
      <4>3. Holds(Asked.out, Len(Asked.out))
        BY <1>1, <1>2, <2>1, <3>2, <4>2 DEF DispatchInv, Answers
      <4>4. CASE Len(Asked.out) = 0
        <5>1. answer' = <<>>
          BY <1>1, <4>3, <4>4 DEF Holds
        <5>q. QED BY <3>1, <4>4, <5>1
      <4>5. CASE Len(Asked.out) # 0
        <5>1. /\ answer \in Seq(Appendable) /\ Len(answer) = Len(Asked.out)
              /\ \A i \in 1 .. Len(Asked.out) : answer[i] = Asked.out[i]
          BY <3>1, <4>3, <4>5 DEF Holds
        <5>2. answer = Asked.out
          BY <3>1, <5>1, SeqEqual
        <5>3. answer # None
          BY <5>1, NoneAssumption
        <5>q. QED BY <1>1, <5>2, <5>3
      <4>q. QED BY <4>4, <4>5
    <3>3. CASE rc = -1
      <4>1. errCode = "success"
        BY <1>1, <2>1, <3>3
      <4>2. Len(Asked.out) = 0 /\ answer = None
        BY <1>1, <1>2, <2>1, <3>3, <4>1 DEF DispatchInv, Answers
      <4>q. QED BY <1>1, <3>1, <4>2
    <3>q. QED BY <1>4, <3>2, <3>3
  <2>q. QED BY <1>1, <1>2, <1>n, <2>0, <2>1 DEF Answers
<1>11. Events'
  BY <1>1 DEF Events
<1>q. QED
  BY <1>5, <1>6, <1>7, <1>8, <1>9, <1>10, <1>11 DEF DispatchInv

LEMMA DispatchStep ==
  ASSUME DispatchInv, NEW service, NEW action, NEW id, NEW args, Dispatch(service, action, id, args)
  PROVE  DispatchInv'
<1> DEFINE act == Named(service, action)
<1>1. /\ stage = "idle" /\ request'.service = service /\ request'.action = action /\ entry' = act
      /\ errCode' = (IF act # None THEN "success" ELSE "401")
      /\ stage' = (IF act = None THEN "answered"
                   ELSE IF act.script = NoHandler THEN "answered" ELSE "handling")
      /\ UNCHANGED <<next, status, rc, answer, changed, lost, subscription>>
  BY DEF Dispatch
<1> HIDE DEF act
<1>2. /\ next = 1 /\ status = 0 /\ rc = 0 /\ answer = None /\ changed = {} /\ lost = FALSE
  BY <1>1 DEF DispatchInv, DispatchTypeOK, Chosen, Serving
<1>3. act # None => Sound(act, Asked') /\ Len(act.script) \in Nat
  <2>1. act # None => Sound(act, Told(request', act))
    BY <1>1, PlaceFound DEF act
  <2>q. QED BY <1>1, <2>1 DEF Asked, Sound
<1>4. act # None /\ act.script = NoHandler => Len(act.script) = 0
  BY DEF NoHandler
<1>5. DispatchTypeOK'
  <2>1. changed' \subseteq {"command", "report"} /\ lost' \in BOOLEAN
    BY <1>1, <1>2
  <2>2. /\ stage' \in {"idle", "handling", "returned", "answered", "subscribed"}
        /\ next' \in 1 .. (IF entry' = None THEN 1 ELSE Len(entry'.script) + 1)
        /\ status' \in {0, -1} /\ rc' \in {0, -1} /\ errCode' \in {"success", "failed", "401"}
    BY <1>1, <1>2, <1>3
  <2>q. QED BY <2>1, <2>2 DEF DispatchTypeOK
<1>6. Chosen'
  BY <1>1, <1>2 DEF Chosen, Serving, act
<1>7. Passed'
  BY <1>1, <1>2 DEF Passed
<1>8. Errors'
  BY <1>1, <1>2, <1>4 DEF Errors
<1>9. Changes'
  BY <1>1, <1>2 DEF Changes
<1>10. Answers'
  <2>1. ASSUME stage' = "handling", Followed'
        PROVE  Holds(Asked.out, next - 1 - Before(entry, Asked))'
    <3>1. Before(act, Asked') \in Nat
      BY <1>1, <1>3, <2>1 DEF Sound, Describes, Followed
    <3>2. next' - 1 - Before(entry', Asked') <= 0 /\ answer' = None
      BY <1>1, <1>2, <3>1
    <3>q. QED BY <3>2 DEF Holds
  <2>2. entry'.script # NoHandler \/ ~ Followed'
    BY DEF Followed, Careful
  <2>q. QED BY <1>1, <1>2, <2>1, <2>2 DEF Answers
<1>11. Events'
  BY <1>1 DEF Events
<1>q. QED
  BY <1>5, <1>6, <1>7, <1>8, <1>9, <1>10, <1>11 DEF DispatchInv

LEMMA SubscribeStep ==
  ASSUME DispatchInv, NEW name, NEW text \in Texts, NEW plain \in Texts,
         Subscribe(name, <<text, plain, text>>)
  PROVE  DispatchInv'
<1> DEFINE values == <<text, plain, text>>
<1>1. /\ stage = "idle" /\ stage' = "subscribed" /\ request'.service = name /\ entry' = None
      /\ held' = values
      /\ sent' = (IF FindService(name) = None THEN <<>> ELSE FirstEvent(FindService(name), values))
      /\ UNCHANGED <<next, status, rc, errCode, answer, changed, lost>>
  BY DEF Subscribe, eventVars, NoRequest
<1> HIDE DEF values
<1>2. /\ next = 1 /\ status = 0 /\ rc = 0 /\ errCode = "success" /\ answer = None
      /\ changed = {} /\ lost = FALSE
  BY <1>1 DEF DispatchInv, DispatchTypeOK, Chosen, Serving
<1>3. DispatchTypeOK'
  <2>1. changed' \subseteq {"command", "report"} /\ lost' \in BOOLEAN
    BY <1>1, <1>2
  <2>2. /\ stage' \in {"idle", "handling", "returned", "answered", "subscribed"}
        /\ next' \in 1 .. (IF entry' = None THEN 1 ELSE Len(entry'.script) + 1)
        /\ status' \in {0, -1} /\ rc' \in {0, -1} /\ errCode' \in {"success", "failed", "401"}
    BY <1>1, <1>2
  <2>q. QED BY <2>1, <2>2 DEF DispatchTypeOK
<1>4. Chosen' /\ Passed' /\ Errors' /\ Changes' /\ Answers'
  BY <1>1, <1>2 DEF Chosen, Serving, Passed, Errors, Changes, Answers, Followed
<1>5. Events'
  BY <1>1 DEF Events, values
<1>q. QED
  BY <1>3, <1>4, <1>5 DEF DispatchInv

LEMMA Idle ==
  ASSUME stage = "idle", entry = None, next = 1, status = 0, rc = 0, errCode = "success",
         answer = None, changed = {}, lost = FALSE
  PROVE  DispatchInv
<1>1. changed \subseteq {"command", "report"} /\ lost \in BOOLEAN
  OBVIOUS
<1>2. DispatchTypeOK
  BY <1>1 DEF DispatchTypeOK
<1>3. Chosen /\ Passed /\ Errors
  BY DEF Chosen, Serving, Passed, Errors
<1>4. Changes /\ Answers /\ Events
  BY DEF Changes, Answers, Followed, Events
<1>q. QED
  BY <1>2, <1>3, <1>4 DEF DispatchInv

LEMMA SendStep ==
  ASSUME Send
  PROVE  DispatchInv'
<1>1. /\ stage' = "idle" /\ entry' = None /\ next' = 1 /\ status' = 0 /\ rc' = 0
      /\ errCode' = "success" /\ answer' = None /\ changed' = {} /\ lost' = FALSE
  BY DEF Send
<1>2. changed' \subseteq {"command", "report"} /\ lost' \in BOOLEAN
  BY <1>1
<1>3. DispatchTypeOK'
  BY <1>1, <1>2 DEF DispatchTypeOK
<1>4. Chosen' /\ Passed' /\ Errors'
  BY <1>1 DEF Chosen, Serving, Passed, Errors
<1>5. Changes' /\ Answers' /\ Events'
  BY <1>1 DEF Changes, Answers, Followed, Events
<1>q. QED
  BY <1>3, <1>4, <1>5 DEF DispatchInv

\* The invariant holds throughout.
THEOREM DispatchInvariant == DispatchSpec => []DispatchInv
<1>1. DispatchInit => DispatchInv
  BY Idle DEF DispatchInit
<1>2. DispatchInv /\ [DispatchNext]_dispatchVars => DispatchInv'
  <2> SUFFICES ASSUME DispatchInv, [DispatchNext]_dispatchVars
               PROVE  DispatchInv'
    OBVIOUS
  <2>1. ASSUME NEW service, NEW action, NEW id, NEW args, Dispatch(service, action, id, args)
        PROVE  DispatchInv'
    BY <2>1, DispatchStep
  <2>2. ASSUME NEW name, NEW text \in Texts, NEW plain \in Texts,
               Subscribe(name, <<text, plain, text>>)
        PROVE  DispatchInv'
    BY <2>2, SubscribeStep
  <2>3. CASE Handle
    BY <2>3, CheckInstanceStep, GetArgumentStep, CheckLinkStep, DoWorkStep, DoSwitchStep,
       DoStoreStep, DoReportStep, AppendVariableStep, ReturnStep, FinishStep, SendStep DEF Handle
  <2>4. CASE UNCHANGED dispatchVars
    BY <2>4 DEF DispatchInv, DispatchTypeOK, Chosen, Serving, Passed, InstanceGood, Errors, Changes,
       Commanded, Answers, Followed, Asked, Holds, Events, dispatchVars, eventVars, subscription
  <2>q. QED BY <2>1, <2>2, <2>3, <2>4 DEF DispatchNext
<1>q. QED
  BY <1>1, <1>2, PTL DEF DispatchSpec
-----------------------------------------------------------------------------
(* The properties.                                                         *)

\* The types of the event and of the request under way.
THEOREM DispatchTypeCorrect == DispatchSpec => []DispatchTypeOK
<1>1. DispatchInv => DispatchTypeOK
  BY DEF DispatchInv
<1>q. QED
  BY <1>1, DispatchInvariant, PTL

\* A success is true, whatever the request was and whatever failed.
THEOREM SuccessProved == DispatchSpec => []SuccessIsTrue
<1>1. DispatchInv => SuccessIsTrue
  <2> SUFFICES ASSUME DispatchInv, Succeeded, ~ lost PROVE status = 0 /\ next > Len(entry.script)
    BY DEF SuccessIsTrue
  <2>1. stage = "answered" /\ errCode = "success" /\ entry # None
    BY DEF DispatchInv, Chosen, Succeeded
  <2>q. QED BY <2>1 DEF DispatchInv, Errors
<1>q. QED
  BY <1>1, DispatchInvariant, PTL

\* A success answers what the service describes, for every handler but the
\* five that deviate, and for the careless one unless libupnp could not add to
\* the answer.
THEOREM DescribedProved == DispatchSpec => []AnsweredAsDescribed
<1>1. DispatchInv => AnsweredAsDescribed
  <2> SUFFICES ASSUME DispatchInv, Succeeded, entry.name \notin Deviating,
                      lost => entry.name \notin Careless
               PROVE  \E d \in Described(request.service, request.action) : d.out = answer
    BY DEF AnsweredAsDescribed
  <2>1. stage = "answered" /\ errCode = "success" /\ answer # None /\ entry # None
    BY DEF DispatchInv, Chosen, Succeeded
  <2>2. entry.script # NoHandler
    BY <2>1 DEF DispatchInv, Answers
  <2>3. answer = Asked.out
    BY <2>1, <2>2 DEF DispatchInv, Answers, Followed, Careful
  <2>4. entry = Named(request.service, request.action)
    BY <2>1 DEF DispatchInv, Chosen, Serving
  <2>5. \E d \in Described(request.service, request.action) : d.out = Asked.out
    BY <2>1, <2>4, PlaceFound DEF Asked
  <2>q. QED BY <2>3, <2>5
<1>q. QED
  BY <1>1, DispatchInvariant, PTL

\* Nothing is commanded for a request that is refused, or that lacks what its
\* service asks for, but for SetAVTransportURI without metadata and a command
\* whose answer was lost.
THEOREM RefusedProved == DispatchSpec => []RefusedUnchanged
<1>1. DispatchInv => RefusedUnchanged
  <2> SUFFICES ASSUME DispatchInv, stage = "answered", "command" \in changed
               PROVE  /\ InstanceGood
                      /\ \E d \in Described(request.service, request.action) :
                           d.in \ Optional \subseteq request.args
                      /\ Failed /\ ~ lost => /\ entry.name = "SetAVTransportURI"
                                            /\ "CurrentURIMetaData" \notin request.args
    BY DEF RefusedUnchanged
  <2>1. entry # None
    BY DEF DispatchInv, Changes
  <2>2. Sound(entry, Asked) /\ Len(entry.script) \in Nat
    BY <2>1, EntryFacts DEF DispatchInv
  <2>3. next \in 1 .. Len(entry.script) + 1
    BY <2>1 DEF DispatchInv, DispatchTypeOK
  <2>4. PICK j \in 1 .. next : j <= Len(entry.script) /\ entry.script[j].op \in Changing
    <3>1. Commanded
      BY DEF DispatchInv, Changes
    <3>q. QED BY <3>1 DEF Commanded
  <2>5. j \in 1 .. Len(entry.script) /\ \A i \in 1 .. j - 1 : i \in 1 .. next - 1
    BY <2>2, <2>3, <2>4
  <2>6. InstanceGood
    BY <2>1, <2>2, <2>4, <2>5 DEF Sound, ChecksFirst, DispatchInv, Passed
  <2>7. \A name \in Asked.in \ (Optional \cup {"InstanceID"}) : name \in request.args
    BY <2>1, <2>2, <2>4, <2>5 DEF Sound, ChecksFirst, DispatchInv, Passed
  <2>8. Asked.in \ Optional \subseteq request.args
    BY <2>6, <2>7 DEF InstanceGood
  <2>9. entry = Named(request.service, request.action)
    BY <2>1 DEF DispatchInv, Chosen, Serving
  <2>10. \E d \in Described(request.service, request.action) : d.in = Asked.in
    BY <2>1, <2>9, PlaceFound DEF Asked
  <2>11. Failed => errCode # "success"
    BY <2>1, <2>2, <2>4, <2>5 DEF Failed, Succeeded, DispatchInv, Answers, NoHandler
  <2>q. QED BY <2>6, <2>8, <2>10, <2>11 DEF DispatchInv, Changes
<1>q. QED
  BY <1>1, DispatchInvariant, PTL

\* The names of the evented variables.
LEMMA Evented ==
  \A s \in ToSet(Services) :
    \E n \in 1 .. 3 : DOMAIN s.evented = 1 .. n /\ s.evented = [i \in 1 .. n |-> s.evented[i]]
  BY DEF Services, ToSet

\* The first event of a subscription is whole, and a reader finds in it what
\* the variables held, for texts of every length.
THEOREM EventProved == DispatchSpec => []FirstEventWhole
<1>1. DispatchInv => FirstEventWhole
  <2> SUFFICES ASSUME DispatchInv, stage = "subscribed",
                      NEW s \in ToSet(Services), s.name = request.service
               PROVE  /\ [i \in DOMAIN sent |-> sent[i].name] = s.evented
                      /\ \A i \in DOMAIN sent : /\ Len(sent[i].value) + 1 = sent[i].room
                                                /\ "<" \notin ToSet(sent[i].value)
                                                /\ Read(sent[i].value) = held[i]
    BY DEF FirstEventWhole
  <2>1. FindService(request.service) = s
    <3> DEFINE t == FindService(request.service)
    <3>1. t # None => t \in ToSet(Services) /\ t.name = request.service
      BY ServiceFound
    <3>2. t # None
      BY ServiceFound
    <3> HIDE DEF t
    <3>3. t = s
      BY <3>1, <3>2, Tables
    <3>q. QED BY <3>3 DEF t
  <2>2. s # None
    BY NoneAssumption
  <2>3. sent = FirstEvent(s, held)
    BY <2>1, <2>2 DEF DispatchInv, Events
  <2>4. PICK text, plain \in Texts : held = <<text, plain, text>>
    BY DEF DispatchInv, Events
  <2>5. PICK n \in 1 .. 3 : DOMAIN s.evented = 1 .. n /\ s.evented = [i \in 1 .. n |-> s.evented[i]]
    BY Evented
  <2>6. sent = [i \in 1 .. n |->
                  [name |-> s.evented[i], value |-> Escape(held[i], FALSE),
                   room |-> Allocated(held[i], FALSE)]]
    BY <2>3, <2>5 DEF FirstEvent
  <2>7. \A t \in Texts : t \in Seq(Symbols)
    BY TextsAssumption, Wider DEF Symbols
  <2>8. \A i \in 1 .. n : held[i] \in Seq(Symbols)
    <3>1. \A i \in 1 .. n : i = 1 \/ i = 2 \/ i = 3
      OBVIOUS
    <3>2. held[1] = text /\ held[2] = plain /\ held[3] = text
      BY <2>4
    <3>q. QED BY <2>7, <3>1, <3>2
  <2>9. [i \in DOMAIN sent |-> sent[i].name] = s.evented
    BY <2>5, <2>6
  <2>10. ASSUME NEW i \in DOMAIN sent
         PROVE  /\ Len(sent[i].value) + 1 = sent[i].room
                /\ "<" \notin ToSet(sent[i].value)
                /\ Read(sent[i].value) = held[i]
    <3>1. i \in 1 .. n
      BY <2>6
    <3>2. sent[i].value = Escape(held[i], FALSE) /\ sent[i].room = Allocated(held[i], FALSE)
      BY <2>6, <3>1
    <3>3. held[i] \in Seq(Symbols)
      BY <2>8, <3>1
    <3>q. QED BY <3>2, <3>3, SizeMatches, NoMarkup, ReadsBack
  <2>q. QED BY <2>9, <2>10
<1>q. QED
  BY <1>1, DispatchInvariant, PTL
=============================================================================
