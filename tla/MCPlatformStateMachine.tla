----------------------- MODULE MCPlatformStateMachine -----------------------
(* PlatformStateMachine for TLC: the sets of GUI commands of the runs. *)
EXTENDS PlatformStateMachine

AllCommands    == GuiCommands
EnableCommands == {"none", "Enable_System"}
StopCommands   == {"none", "Stop"}
ResetCommands  == {"none", "Error_Reset"}
=============================================================================
