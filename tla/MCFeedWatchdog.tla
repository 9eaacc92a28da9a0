----------------------------- MODULE MCFeedWatchdog -----------------------------
EXTENDS FeedWatchdog

OneSymbol  == {"s1"}
TwoFrames  == {"1h", "4h"}
BarTicks   == [tf \in TF |-> IF tf = "1h" THEN 1 ELSE 3]
================================================================================
