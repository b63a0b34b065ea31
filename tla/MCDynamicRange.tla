---------------------------- MODULE MCDynamicRange ----------------------------
EXTENDS DynamicRange

MCSamples == {MinInt, 0, 7}
MCPairs == {<<0, 0>>, <<0, 7>>, <<MinInt, 0>>}
MCPresets == {<<2, 0, 6, 2>>, <<4, 6, 0, 3>>}
===============================================================================
