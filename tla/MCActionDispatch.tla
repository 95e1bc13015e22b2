--------------------------- MODULE MCActionDispatch --------------------------
(* The TLC instance of ActionDispatch: the tables are the program's, only   *)
(* the values of the evented variables are to be chosen.                    *)
EXTENDS ActionDispatch

\* All texts of up to two characters out of the ones xmlescape tells apart,
\* and one that looks escaped already.
Characters == {"<", ">", "&", "\"", "a"}
EventTexts ==
  UNION {[1 .. n -> Characters] : n \in 0 .. 2} \cup {<<"&", "l", "t", ";">>}
=============================================================================
