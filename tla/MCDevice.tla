------------------------------ MODULE MCDevice ------------------------------
(* TLC instances of Device.                                                *)
EXTENDS Device, TLC

CONSTANTS t1, t2, f1, f2

\* An icon of three bytes, and an empty file.
Lengths == f1 :> 3 @@ f2 :> 0

SeekOffsets == {-1, 0, 2, 4}

\* Among them: a type that is registered twice, the second name of MPEG audio
\* before and after the first, and no type at all.
TypeTables ==
  {<<>>, <<"audio/flac", "audio/mpeg", "audio/flac">>, <<"audio/x-mpeg", "audio/mpeg">>}

TypeLengths == [t \in {"audio/mpeg", "audio/x-mpeg", "audio/flac"} |-> Len(t)]

If(name, usable, inet) == [name |-> name, usable |-> usable, inet |-> inet]

\* Hosts: an ordinary one, one with the loopback interface first, one whose
\* second interface lies beyond MaxInterfaces, one without IPv4 on the first.
Hosts ==
  {<<If("lo", FALSE, TRUE), If("eth0", TRUE, TRUE)>>,
   <<If("eth0", TRUE, TRUE), If("wlan0", TRUE, TRUE)>>,
   <<If("lo", FALSE, TRUE), If("eth0", FALSE, TRUE), If("wlan0", TRUE, TRUE)>>,
   <<If("eth0", TRUE, FALSE), If("wlan0", TRUE, TRUE)>>}

EtherNames == <<"wlan0", "eth0", "eth1">>

\* Twelve different digits for each interface, and the colons between them.
Addresses ==
  [n \in {"lo", "eth0", "wlan0"} |->
     [i \in 0 .. 16 |-> IF i % 3 = 2 THEN <<"colon", i>> ELSE <<n, i>>]]

Symmetry == Permutations({t1, t2})
=============================================================================
