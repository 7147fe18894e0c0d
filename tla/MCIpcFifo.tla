------------------------------ MODULE MCIpcFifo ------------------------------
(* A ring of two slots whose counters wrap after two laps.                 *)
EXTENDS IpcFifo
=============================================================================
