--------------------------- MODULE MCEventFanout ---------------------------
\* The instance of EventFanout that TLC checks.
EXTENDS EventFanout

\* The destinations take every event.
MCMatches == [d \in Dests |-> Events]
=============================================================================
