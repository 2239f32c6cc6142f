----------------------------- MODULE MCHueUsers -----------------------------
(* Model checking of HueUsers: three accounts, of which two may be twins.   *)
EXTENDS HueUsers

TwoTwins == {<<"mon", "mon", "tue">>}

EnvNames == {Local(1)}
Overrides == {Remote(1)}
=============================================================================
