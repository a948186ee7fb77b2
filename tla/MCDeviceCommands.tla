-------------------------- MODULE MCDeviceCommands --------------------------
(* Small instances of DeviceCommands: which commands exist, how each was     *)
(* issued and how many connections the agent makes differ per .cfg.          *)
EXTENDS DeviceCommands, TLC
CONSTANTS dev

MCDispatcher == Cmd \cup Session
MCMsg == Cmd \X MCDispatcher
MCDeviceOf == [c \in Cmd |-> dev]

\* Certificates are interchangeable.
SerialSymmetry == Permutations(Serial)
=============================================================================
