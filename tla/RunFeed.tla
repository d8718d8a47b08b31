------------------------------ MODULE RunFeed ------------------------------
(***************************************************************************)
(* What a frontend may rely on when it follows one chat run: the events    *)
(* of the run arrive once each, in the order they were published, and the  *)
(* feed ends with the last one, unless the frontend goes away first.       *)
(***************************************************************************)
EXTENDS Naturals

CONSTANT Last \* the number of events of the run; the last one is terminal

VARIABLES
    published, \* events of the run published so far
    delivered, \* events the frontend has received
    state      \* "new", "open", "complete" or "gone"

feedVars == <<published, delivered, state>>

Init == published = 0 /\ delivered = 0 /\ state = "new"

Open == state = "new" /\ state' = "open" /\ UNCHANGED <<published, delivered>>

\* A run publishes whether or not anybody follows it.
Publish ==
    /\ state # "new"
    /\ published < Last
    /\ published' = published + 1
    /\ UNCHANGED <<delivered, state>>

Deliver ==
    /\ state = "open"
    /\ delivered < published
    /\ delivered' = delivered + 1
    /\ state' = IF delivered' = Last THEN "complete" ELSE "open"
    /\ UNCHANGED published

Leave == state = "open" /\ state' = "gone" /\ UNCHANGED <<published, delivered>>

Next == Open \/ Publish \/ Deliver \/ Leave

Spec == Init /\ [][Next]_feedVars
=============================================================================
