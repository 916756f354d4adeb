------------------------------- MODULE MCJson -------------------------------
EXTENDS BoundedJson

ThePath    == <<"a">>
TheNames   == {"a", "b"}
TheStrings == {<<1, 2, 1>>, <<1>>}
TheNumbers == {<<1>>, <<1, 1, 1>>}
TheLiterals == {<<1, 1, 1>>}
TheChosen  == {<<1>>, <<2>>}
=============================================================================
