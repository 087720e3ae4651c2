--------------------------- MODULE UsbDescriptors ---------------------------
(***************************************************************************)
(* How a descriptor is cut into packets: the generators that push pieces   *)
(* into a ChunkBuffer and yield it when it is full, the transfer that      *)
(* advances them after every packet, and the host, which reads until it    *)
(* has what it asked for or gets a short packet.                           *)
(*                                                                         *)
(* Of the pieces (headers, settings, endpoints, extra data) only the       *)
(* lengths matter; the bytes of the whole descriptor are numbered.         *)
(***************************************************************************)
EXTENDS Naturals, Sequences

CONSTANTS
  Chunk,      \* bytes of a packet
  Lengths,    \* lengths of pieces
  MaxPieces,  \* bound: pieces of a configuration descriptor
  MaxAsked    \* bound: wLength

VARIABLES
  pieces,     \* lengths of the pieces of the descriptor
  asked,      \* wLength
  kind,       \* which generator: "config" (pieces) or "string" (chunkify)
  piece,      \* the piece that is being pushed
  rest,       \* bytes of it that are not in the buffer yet
  budget,     \* total_len: bytes that the host still has room for
  buffer,     \* ChunkBuffer
  phase,      \* of the generator: "push", "zlp", "end"
  packet,     \* what it has yielded: a sequence of at most one packet
  heard,      \* history: bytes the host has read
  closed      \* the host has ended the data stage

vars == <<pieces, asked, kind, piece, rest, budget, buffer, phase, packet, heard, closed>>

Smaller(a, b) == IF a < b THEN a ELSE b

(* Where a piece begins in the descriptor; the total is the end of all.    *)
Start(k) ==
  LET Sum[j \in 0..Len(pieces)] == IF j = 0 THEN 0 ELSE Sum[j - 1] + pieces[j]
  IN Sum[k]
Total == Start(Len(pieces))
Bytes(from, n) == [j \in 1..n |-> from + j]

Init ==
  /\ kind \in {"config", "string"}
  /\ pieces \in UNION {[1..n -> Lengths] :
                         n \in IF kind = "string" THEN {1} ELSE 1..MaxPieces}
  /\ kind = "config" => pieces[1] > 0
  /\ asked \in 1..MaxAsked
  /\ piece = 0 /\ rest = << >> /\ budget = asked
  /\ buffer = << >> /\ phase = "push" /\ packet = << >>
  /\ heard = << >> /\ closed = FALSE

(* Faulty variant: what the host asked for does not matter. *)
NeedsZlpAlways == Total > 0 /\ Total % Chunk = 0

(* needs_zlp: a short packet must tell the host that there is no more.     *)
NeedsZlp == Total < asked /\ Total > 0 /\ Total % Chunk = 0

UnchangedInputs == UNCHANGED <<pieces, asked, kind>>

(* The next piece, trimmed to what the host asked for.  chunkify yields an *)
(* empty packet if there is nothing at all. *)
NextPiece ==
  /\ phase = "push" /\ packet = << >> /\ rest = << >> /\ piece < Len(pieces)
  /\ LET n == Smaller(pieces[piece + 1], budget)
     IN /\ piece' = piece + 1
        /\ rest' = Bytes(Start(piece), n)
        /\ budget' = budget - n
        /\ packet' = IF kind = "string" /\ n = 0 THEN << << >> >> ELSE << >>
  /\ UNCHANGED <<buffer, phase, heard, closed>> /\ UnchangedInputs

(* push, and flush of a buffer that is full. *)
Push ==
  /\ phase = "push" /\ packet = << >> /\ rest # << >>
  /\ LET n == Smaller(Len(rest), Chunk - Len(buffer))
         filled == buffer \o SubSeq(rest, 1, n)
     IN /\ rest' = SubSeq(rest, n + 1, Len(rest))
        /\ IF Len(filled) = Chunk THEN packet' = <<filled>> /\ buffer' = << >>
           ELSE buffer' = filled /\ UNCHANGED packet
  /\ UNCHANGED <<piece, budget, phase, heard, closed>> /\ UnchangedInputs

(* The rest of the buffer, and the packet of no length. *)
Flush ==
  /\ phase = "push" /\ packet = << >> /\ rest = << >> /\ piece = Len(pieces)
  /\ phase' = "zlp" /\ buffer' = << >>
  /\ packet' = IF buffer = << >> THEN << >> ELSE <<buffer>>
  /\ UNCHANGED <<piece, rest, budget, heard, closed>> /\ UnchangedInputs

Zlp ==
  /\ phase = "zlp" /\ packet = << >>
  /\ phase' = "end"
  /\ packet' = IF NeedsZlp THEN << << >> >> ELSE << >>
  /\ UNCHANGED <<piece, rest, budget, buffer, heard, closed>> /\ UnchangedInputs

(* The host takes the packet; ep0_tx_done lets the generator advance.      *)
HostReads ==
  /\ packet # << >> /\ ~closed
  /\ heard' = heard \o Head(packet)
  /\ packet' = << >>
  /\ closed' = (Len(Head(packet)) < Chunk \/ Len(heard') = asked)
  /\ UNCHANGED <<piece, rest, budget, buffer, phase>> /\ UnchangedInputs

Next == NextPiece \/ Push \/ Flush \/ Zlp \/ HostReads

Spec == Init /\ [][Next]_vars

-----------------------------------------------------------------------------
(* Properties. *)

(* The host reads the beginning of the descriptor, as much as it asked for *)
(* or all of it, and device and host agree on where it ends: the device    *)
(* never has a packet that the host does not want, and never finishes      *)
(* while the host waits. *)
HostReadsDescriptor ==
  /\ heard = Bytes(0, Len(heard))
  /\ packet # << >> => ~closed
  /\ phase = "end" /\ packet = << >> => closed /\ Len(heard) = Smaller(asked, Total)
=============================================================================
