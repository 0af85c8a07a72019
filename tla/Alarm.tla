--------------------------------- MODULE Alarm ---------------------------------
(***************************************************************************)
(* What the anomaly detector promises to those who hear its events: each   *)
(* worsening of a service is reported once, with its new level, each end   *)
(* of an alarm once, and nothing else is.                                  *)
(***************************************************************************)
EXTENDS Naturals

CONSTANTS Levels, NoEvent

VARIABLES
  level,    \* 0 while nothing is wrong
  last      \* the last event: its type and the level it reports

Init == level = 0 /\ last = NoEvent

Worsens ==
  \E worse \in Levels :
    /\ worse > level
    /\ level' = worse
    /\ last' = <<"ANOMALY_DETECTED", worse>>

\* Better, but not good: nobody is told.
Eases ==
  \E better \in Levels \ {0} :
    /\ better < level
    /\ level' = better
    /\ UNCHANGED last

Ends ==
  /\ level > 0
  /\ level' = 0
  /\ last' = <<"ANOMALY_RESOLVED", 0>>

Next == Worsens \/ Eases \/ Ends

Spec == Init /\ [][Next]_<<level, last>>

=============================================================================
