--------------------------- MODULE MCNhmUserland ---------------------------
EXTENDS NhmUserland, TLC

\* One thing of each kind, so that each loop follows and precedes another one.
EachKind == <<"file", "prog", "proc", "bus">>

OneBus == <<"bus">>
============================================================================
