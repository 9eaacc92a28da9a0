------------------------------- MODULE MCControl --------------------------------
(* Control with every command, a few of them and two restarts.             *)
EXTENDS Control, TLC

MCCommands == AllCommands

================================================================================
