------------------------------ MODULE MCEnvMap ------------------------------
EXTENDS EnvMap
MCKeys == {<<"a">>, <<"b">>}
MCValues == {<<>>, <<"x">>, <<"x", "y">>}
=============================================================================
