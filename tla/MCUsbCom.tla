------------------------------ MODULE MCUsbCom ------------------------------
(* Requests of every kind: short ones, one with an answer of two packets,  *)
(* values of one and of two packets.  Mixed adds a value that does not fit *)
(* into the buffer and requests that get no answer.                        *)
EXTENDS UsbCom

Request(op, parts, answers) == [op |-> op, parts |-> parts, answers |-> answers]

Regular == {Request("local", 1, 2), Request("get", 1, 1),
            Request("set", 1, 1), Request("set", 2, 1)}
Mixed == Regular \cup {Request("bad", 1, 0), Request("unknown", 1, 0),
                       Request("set", 3, 1)}
MCCapacity == 2

=============================================================================
