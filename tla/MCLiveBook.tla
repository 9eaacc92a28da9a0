------------------------------- MODULE MCLiveBook -------------------------------
EXTENDS LiveBook

OneSymbol == {"s1"}

\* The two ways book and exchange come apart are both noticed, whatever crashes,
\* fails or closes in between: a row whose position is gone is closed, a position
\* without a row is alerted (reconcile_once).
NothingGoesUnnoticed == GhostsAreClosed /\ UnknownIsAlerted
================================================================================
