--------------------------- MODULE MCAsyncContext ---------------------------
EXTENDS AsyncProperties
CONSTANTS a, b, p
SingleTargets == {<<a>>, <<b>>}
SingleA == {<<a>>}
MixedTargets == {<<a>>, <<b>>, <<a, b>>, <<p>>}
PairTargets == {<<a>>, <<a, b>>}
PatternTargets == {<<a>>, <<p>>}
=============================================================================
