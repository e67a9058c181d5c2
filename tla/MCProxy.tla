------------------------------- MODULE MCProxy --------------------------------
(* Small instances of ProxyRetry. *)
EXTENDS ProxyRetry

CONSTANTS get, again, post, bad, good

OneTiny == [conns |-> 1, pending |-> 0, growth |-> "eager"]
OneDeep == [conns |-> 1, pending |-> 1, growth |-> "queue"]
TwoTiny == [conns |-> 2, pending |-> 0, growth |-> "eager"]
Ways    == {OneDeep, TwoTiny, OneTiny}
OneWay  == {OneDeep}

Both      == {get, post}
All       == {get, again, post}
Gets      == {get, again}
OneGet    == {get}
TwoBackends == {bad, good}
Bad       == {bad}
=============================================================================
