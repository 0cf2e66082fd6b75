------------------------------ MODULE MCSlave ------------------------------
(* Small instances of SlaveStack: a slave with address 1.                  *)
EXTENDS SlaveStack

(* Frames for this slave, for all slaves and for another one.              *)
AllContents == [addr : {0, 1, 2}, crc : BOOLEAN]
=============================================================================
