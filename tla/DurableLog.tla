----------------------------- MODULE DurableLog -----------------------------
(***************************************************************************)
(* What a write-ahead log promises: the records from LSN lo to LSN hi can  *)
(* be read back.  hi falls only in a crash and never below what was        *)
(* promised durable; lo rises only over records the owner has released.    *)
(***************************************************************************)
EXTENDS Naturals

VARIABLES lo, hi, promised, released
log == <<lo, hi, promised, released>>

Init == lo = 0 /\ hi = 0 /\ promised = 0 /\ released = 0

\* A record appears after the last one.
Append == hi' > hi /\ UNCHANGED <<lo, promised, released>>

\* Records up to some LSN are promised to survive every crash.
Promise == promised' \in promised .. hi /\ UNCHANGED <<lo, hi, released>>

\* The owner of the log no longer needs the records before some LSN.
Release == released' \in released .. hi /\ UNCHANGED <<lo, hi, promised>>

\* Released records go.  The log never starts beyond what was promised.
Trim == /\ lo' \in lo .. released
        /\ lo' <= promised'
        /\ promised' \in promised .. hi
        /\ UNCHANGED <<hi, released>>

\* A crash loses any part of what was not promised.  Records that take the
\* place of lost ones have not been released.
Crash == /\ hi' \in promised .. hi
         /\ released' = IF released <= hi' THEN released ELSE hi'
         /\ UNCHANGED <<lo, promised>>

Spec == Init /\ [][Append \/ Promise \/ Release \/ Trim \/ Crash]_log
=============================================================================
