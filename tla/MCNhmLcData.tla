---------------------------- MODULE MCNhmLcData ----------------------------
EXTENDS NhmLcData, TLC

CONSTANTS a, b

MCStrlen == (a :> 0) @@ (b :> 1)

App(name, failcount) == [name |-> name, failcount |-> failcount]

Lc(state, apps) == [start_state |-> state, failed_apps |-> apps]

\* A life cycle with two applications in either order of names, with one, without any.
MCHistories ==
  {<<Lc("STARTED", <<App(b, 1), App(a, 2)>>), Lc("SHUTDOWN", <<App(a, 1)>>)>>,
   <<Lc("SHUTDOWN", <<>>), Lc("STARTED", <<App(b, 2)>>)>>,
   <<>>}
=============================================================================
