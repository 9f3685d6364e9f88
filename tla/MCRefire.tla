------------------------------ MODULE MCRefire ------------------------------
(* Refire with the triggers and records of MCProcess.                      *)
EXTENDS Refire, MCProcess
=============================================================================
