------------------------------- MODULE MCI2c -------------------------------
(* The transfers of analog_readings.cpp (a register is selected and read,  *)
(* with and without setting the address; a register is written and the     *)
(* bus synchronised), one that continues with write_cont and read_cont     *)
(* and does not fit into the FIFO, and recover_bus.                        *)
EXTENDS I2c

Act(type, len, restart, cb) ==
  [type |-> type, len |-> len, restart |-> restart, cb |-> cb]

SetAddr == Act("SetAddr", 0, FALSE, FALSE)
Select == Act("Write", 1, TRUE, FALSE)
Fetch2 == Act("Read", 2, TRUE, TRUE)
Sync == Act("Sync", 0, FALSE, TRUE)

FirmwareKinds == {
  <<SetAddr, Select, Fetch2>>,
  <<Select, Fetch2>>,
  <<SetAddr, Act("Write", 3, TRUE, FALSE), Sync>>}

MCKinds == FirmwareKinds \cup {
  <<Act("Write", 2, TRUE, FALSE), Act("Write", 3, FALSE, FALSE),
    Act("Read", 2, TRUE, FALSE), Act("Read", 4, FALSE, TRUE)>>,
  <<Act("RecoverBus", 0, FALSE, FALSE), Select, Fetch2>>}
=============================================================================
