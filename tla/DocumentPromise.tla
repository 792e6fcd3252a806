-------------------------- MODULE DocumentPromise --------------------------
(***************************************************************************)
(* What ordinary search shows of one document: the revision that was       *)
(* indexed or delivered last, "current revisions only"                     *)
(* (docs/ARCHITECTURE.md), until as many complete scans in a row as        *)
(* "the deletion threshold" (docs/DECISIONS.md) have missed the file.      *)
(***************************************************************************)
EXTENDS Naturals

CONSTANTS Revisions, None, Confirmations

VARIABLES
    shown,   \* the revision that search shows, or None
    waiting, \* revisions that were delivered and are to be indexed
    ready,   \* revisions that are indexed
    absent,  \* complete scans that missed the file since it was last seen
    gone     \* was the document deleted?

documentVars == <<shown, waiting, ready, absent, gone>>

OInit ==
    /\ shown = None /\ waiting = {} /\ ready = {}
    /\ absent = 0 /\ gone = FALSE

\* A delivery brings the document back, and a revision that is indexed is shown at once.
Deliver(v) ==
    /\ IF v \in ready THEN shown' = v /\ UNCHANGED waiting
                      ELSE waiting' = waiting \cup {v} /\ UNCHANGED shown
    /\ absent' = 0 /\ gone' = FALSE
    /\ UNCHANGED ready

See ==
    /\ absent' = 0
    /\ UNCHANGED <<shown, waiting, ready, gone>>

\* A revision is indexed (again), and those that waited beside it are given up.
Publish(v) ==
    /\ ~gone /\ v \in waiting \cup ready
    /\ shown' = v /\ ready' = ready \cup {v} /\ waiting' = {}
    /\ UNCHANGED <<absent, gone>>

\* An extraction that outlived a deletion gives up what was delivered since.
GiveUp ==
    /\ shown = None /\ ready = {}
    /\ waiting' = {}
    /\ UNCHANGED <<shown, ready, absent, gone>>

Miss ==
    /\ ~gone
    /\ absent' = absent + 1
    /\ IF absent' < Confirmations
       THEN UNCHANGED <<shown, waiting, ready, gone>>
       ELSE gone' = TRUE /\ shown' = None /\ waiting' = {} /\ ready' = {}

ONext ==
    \/ See \/ GiveUp \/ Miss
    \/ \E v \in Revisions : Deliver(v) \/ Publish(v)

OSpec == OInit /\ [][ONext]_documentVars
=============================================================================
