------------------------------- MODULE MCPull -------------------------------
(* Small instances of Pull.                                                *)
EXTENDS Pull

OneOrTwoBlobs == {<<2>>, <<1, 1>>}

\* Base and maximal delay, the base being the smaller and the larger one.
SomeDelays == {<<2, 3>>, <<2, 1>>}

\* About the proportions of DefaultBackoff.
LikeDefault == {<<3, 40>>}

\* The backoff alone: a service that only ever accepts.
AcceptedOnly ==
    /\ Init
    /\ [][Begin \/ Accepted \/ Wait \/ GiveUp \/ Return]_vars
=============================================================================
