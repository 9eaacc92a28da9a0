------------------------------- MODULE MCLiveEntry ------------------------------
EXTENDS LiveEntry

MCTPs == <<1, 1, 0>>

AllFaults == FaultKinds
NoFaults  == {}
================================================================================
