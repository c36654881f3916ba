---------------------------- MODULE PromisedSync ----------------------------
(***************************************************************************)
(* What the agent promises of the service it feeds, whatever is lost,      *)
(* refused, repeated or interrupted on the way: a day is only ever set to  *)
(* the newest content published of it, which is none its log did not have, *)
(* or erased between two days set with it.  When no batch is cut, a day is *)
(* not erased while its current content stands published.                  *)
(***************************************************************************)
EXTENDS Naturals

CONSTANTS Day,
          MayCut  \* may a batch leave out days that are on the device?

VARIABLES log, edits,  \* the last edit of each day that has records; edits so far
          published,   \* the contents the service was given
          forgone,     \* the contents given up in the open
          shown        \* the content the service shows of each day

vars == <<log, edits, published, forgone, shown>>

Nothing == 0
Now(d) == [day |-> d, ver |-> log[d]]

Init ==
    /\ \E used \in SUBSET Day :
        /\ log = [d \in Day |-> IF d \in used THEN 1 ELSE Nothing]
        /\ edits = IF used = {} THEN 0 ELSE 1
    /\ published = {} /\ forgone = {}
    /\ shown = [d \in Day |-> Nothing]

Edit(d) ==
    /\ edits' = edits + 1
    /\ log' \in {[log EXCEPT ![d] = edits'], [log EXCEPT ![d] = Nothing]}
    /\ UNCHANGED <<published, forgone, shown>>

Forgo ==
    /\ forgone \subseteq forgone'
    /\ UNCHANGED <<log, edits, published, shown>>

\* The log has had this content: it is not newer than the last change.
Had(c) == c.ver <= edits /\ (log[c.day] = Nothing \/ c.ver <= log[c.day])

Newest(c, contents) == c \in contents /\ \A b \in contents : b.day = c.day => b.ver <= c.ver

\* The service was given the day's current content, and it was not given up.
Stands(d) == log[d] # Nothing /\ Now(d) \in published \ forgone

\* A day that stands is erased by a batch that was cut, if at all.
Erased(d, days) ==
    /\ shown'[d] = Nothing
    /\ \E a, b \in days : a < d /\ d < b
    /\ Stands(d) => MayCut

\* The days of a batch are set, those between them may be erased.
Push(days) ==
    /\ published \subseteq published'
    /\ \A c \in published' \ published : c.day \in days
    /\ \A d \in days : \E c \in published' :
          c.day = d /\ Had(c) /\ Newest(c, published') /\ shown'[d] = c.ver
    /\ \A d \in Day \ days : shown'[d] = shown[d] \/ Erased(d, days)
    /\ shown' \in [Day -> Nat]
    /\ UNCHANGED <<log, edits, forgone>>

Next ==
    \/ \E d \in Day : Edit(d)
    \/ \E days \in SUBSET Day : Push(days)
    \/ Forgo

Spec == Init /\ [][Next]_vars
=============================================================================
