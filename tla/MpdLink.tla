------------------------------ MODULE MpdLink ------------------------------
(***************************************************************************)
(* What output_mpd.c promises about its connection, without saying how:    *)
(* one thread at a time uses the link; only the user changes it; a link is *)
(* made only where there is none, and dropped only when it is broken.      *)
(***************************************************************************)
CONSTANTS Threads, None

VARIABLES user,  \* the thread using the link
          link   \* "down", "up" or "broken"

Init == user = None /\ link \in {"down", "up"}

Acquire(t) == user = None /\ user' = t /\ UNCHANGED link

Release(t) == user = t /\ user' = None /\ UNCHANGED link

Connect(t) == user = t /\ link = "down" /\ link' \in {"up", "broken"} /\ UNCHANGED user

Break(t) == user = t /\ link = "up" /\ link' = "broken" /\ UNCHANGED user

Discard(t) == user = t /\ link = "broken" /\ link' = "down" /\ UNCHANGED user

Next == \E t \in Threads :
          Acquire(t) \/ Release(t) \/ Connect(t) \/ Break(t) \/ Discard(t)

Spec == Init /\ [][Next]_<<user, link>>
=============================================================================
