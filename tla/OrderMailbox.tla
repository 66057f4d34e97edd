----------------------------- MODULE OrderMailbox -----------------------------
(***************************************************************************)
(* What one cell of the order shared memory promises the trader: a         *)
(* newest-wins mailbox.  Orders are published one after the other with     *)
(* strictly increasing time stamps; the trader takes the newest one it has *)
(* not taken yet, skips whatever was overwritten in between, and never     *)
(* takes the same one twice until it reattaches.                           *)
(***************************************************************************)
EXTENDS Naturals, Sequences

CONSTANT Order            \* records with a field time

VARIABLES published,      \* the orders written into the segment the trader is attached to
          taken           \* index of the newest order the trader has taken, 0 when none

vars == <<published, taken>>

StrictlyNewer == \A i, j \in DOMAIN published : i < j => published[i].time < published[j].time

Init == /\ published = << >>
        /\ taken = 0

Publish(o) == /\ published = << >> \/ published[Len(published)].time < o.time
              /\ published' = Append(published, o)
              /\ UNCHANGED taken

Take == /\ taken < Len(published)
        /\ taken' = Len(published)
        /\ UNCHANGED published

\* The trader process was killed, or restarted and attached to whatever segment is current.
Reattach == /\ taken' = 0
            /\ StrictlyNewer'

Next == \/ \E o \in Order : Publish(o)
        \/ Take
        \/ Reattach

Spec == Init /\ [][Next]_vars
=============================================================================
