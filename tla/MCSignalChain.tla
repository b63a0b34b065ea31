----------------------------- MODULE MCSignalChain -----------------------------
EXTENDS SignalChain

\* One input, two, three and four; the loudest words, silence and one in between.
MCFrames == {<<MaxInt>>, <<5>>, <<40, -30>>, <<MinInt, MinInt>>, <<MaxInt, 5>>, <<5, MinInt>>,
             <<MinInt, MaxInt, 5>>, <<MaxInt, 5, MinInt, 0>>, <<MaxInt, MaxInt, 5, MaxInt>>}

\* A parameter and an argument below zero.
MCDelays == {-1, 0, 1, 2, 3, 4}
MCPositions == -1 .. 3
MCMixGains == [m \in {"first", "half", "second"} |->
  CASE m = "first" -> <<MaxInt, 0>> [] m = "half" -> <<(MaxInt * 7) \div 10, (MaxInt * 7) \div 10>> [] OTHER -> <<0, MaxInt>>]
MCRoutes == {<<TRUE, FALSE, FALSE, FALSE>>, <<TRUE, TRUE, TRUE, TRUE>>, <<FALSE, TRUE, FALSE, TRUE>>, <<TRUE>>}
===============================================================================
