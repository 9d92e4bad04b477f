--------------------------- MODULE MCNhmMainLoop ---------------------------
EXTENDS NhmMainLoop

\* A period of 7 ms that leaves just the time the handlers may take, one that is
\* rounded down, and no watchdog.
SomeEnvironments == {14000, 15999, NotANumber}

ASSUME KickInTime /\ AnswerInTime
=============================================================================
