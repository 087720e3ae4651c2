------------------------------- MODULE MCUsb -------------------------------
(* Four parts of the USB stack that share no state of their models: every *)
(* behaviour is one of one part, the others stay as they are. *)
EXTENDS Naturals

CONSTANTS Requests, MaxTransfers, MaxResets,
          Configs, Last, Memory,
          Chunk, Lengths, MaxPieces, MaxAsked,
          AllStrings, AllInterfaces, Sentinel

(* What the host asks for: each type of request has the direction and the  *)
(* data that its answer is made for.                                       *)
RequestOK(r) ==
  /\ DOMAIN r = {"type", "in", "parts"}
  /\ r.type \in {"chunks", "short", "config", "ack", "address", "bad", "long"}
  /\ r.in \in BOOLEAN /\ r.parts \in Nat
  /\ r.in => r.parts > 0 /\ r.type \in {"chunks", "short", "bad"}
  /\ r.type = "short" => r.in /\ r.parts = 1
  /\ r.type \in {"config", "ack", "address"} => r.parts = 0
  /\ r.type = "long" => r.parts > 0

ASSUME RequestsAssumption == \A r \in Requests : RequestOK(r)

(* Packets are not empty, and an iterator's sentinel is no element.        *)
ASSUME PacketsAssumption ==
  Chunk \in Nat \ {0} /\ Lengths \subseteq Nat /\ MaxPieces \in Nat /\ MaxAsked \in Nat
ASSUME SentinelAssumption == Sentinel \notin AllStrings \cup AllInterfaces

VARIABLES part,
          host, got, lost, rested, pend, todo, ep, dev,
          active, setting, config, toggle, apart,
          pieces, asked, kind, piece, rest, budget, buffer, phase, packet, heard, closed,
          strings, ifaces, serving, walk, sent, wanted, called, numbered

Control == INSTANCE UsbControl
Endpoints == INSTANCE UsbEndpoints
Descriptors == INSTANCE UsbDescriptors
Numbers == INSTANCE UsbNumbers WITH asked <- wanted

(* Endpoints as a full-speed device has them: two buffers are for packets  *)
(* of at most 64 bytes, or isochronous.                                    *)
EndpointOK(e) ==
  /\ e.addr \in Endpoints!Addresses /\ e.max \in 1..1023
  /\ e.iso \in BOOLEAN /\ e.double \in BOOLEAN
  /\ e.double => e.iso \/ e.max <= 64

(* Every interface has a setting, and the memory is enough for each        *)
(* configuration, as set_device_configuration asserts.                     *)
ASSUME ConfigsAssumption ==
  /\ Last \in Nat /\ Memory \in Nat /\ 0 \notin DOMAIN Configs
  /\ \A c \in DOMAIN Configs :
       /\ \A i \in DOMAIN Configs[c] : 1 \in DOMAIN Configs[c][i]
       /\ \A e \in Endpoints!Endpoints(c) : EndpointOK(e)
       /\ Endpoints!Laid(c, 2 * Last) <= Memory

controlVars == <<host, got, lost, rested, pend, todo, ep, dev>>
endpointVars == <<active, setting, config, toggle, apart>>
descriptorVars ==
  <<pieces, asked, kind, piece, rest, budget, buffer, phase, packet, heard, closed>>
numberVars == <<strings, ifaces, serving, walk, sent, wanted, called, numbered>>
vars == <<part, controlVars, endpointVars, descriptorVars, numberVars>>

NoDescriptor ==
  /\ pieces = 0 /\ asked = 0 /\ kind = 0 /\ piece = 0 /\ rest = 0 /\ budget = 0
  /\ buffer = 0 /\ phase = 0 /\ packet = 0 /\ heard = 0 /\ closed = 0

Init ==
  /\ part \in {"control", "endpoints", "descriptors", "numbers"}
  /\ Control!Init /\ Endpoints!Init /\ Numbers!Init
  /\ IF part = "descriptors" THEN Descriptors!Init ELSE NoDescriptor

Controls ==
  /\ part = "control" /\ Control!Next
  /\ UNCHANGED <<part, endpointVars, descriptorVars, numberVars>>
Configures ==
  /\ part = "endpoints" /\ Endpoints!Next
  /\ UNCHANGED <<part, controlVars, descriptorVars, numberVars>>
Describes ==
  /\ part = "descriptors" /\ Descriptors!Next
  /\ UNCHANGED <<part, controlVars, endpointVars, numberVars>>
Names ==
  /\ part = "numbers" /\ Numbers!Next
  /\ UNCHANGED <<part, controlVars, endpointVars, descriptorVars>>

Next == Controls \/ Configures \/ Describes \/ Names

Spec == Init /\ [][Next]_vars /\ Control!Fairness

(* The properties of the parts, as they are stated there. *)
RightAnswer == Control!RightAnswer
Answered == Control!Answered
AnswerStartsAtOne == Control!AnswerStartsAtOne
BuffersApart == Endpoints!BuffersApart
TogglesAgree == Endpoints!TogglesAgree
HostReadsDescriptor ==
  /\ part = "descriptors" => Descriptors!HostReadsDescriptor
  /\ Numbers!NumbersStand

Request(type, in, parts) == [type |-> type, in |-> in, parts |-> parts]
MCRequests ==
  {Request("chunks", TRUE, 2), Request("chunks", FALSE, 2), Request("short", TRUE, 1),
   Request("config", FALSE, 0), Request("ack", FALSE, 0), Request("address", FALSE, 0),
   Request("bad", TRUE, 1), Request("bad", FALSE, 1), Request("long", FALSE, 1)}

Endpoint(dir, no, max, iso, double) ==
  [addr |-> <<dir, no>>, max |-> max, iso |-> iso, double |-> double]
MCConfigs ==
  << << << {Endpoint("out", 1, 64, FALSE, FALSE), Endpoint("in", 1, 64, FALSE, FALSE)} >>,
        << {}, {Endpoint("in", 2, 100, TRUE, TRUE)} >> >>,
     << << {Endpoint("in", 1, 8, FALSE, FALSE), Endpoint("out", 2, 200, TRUE, TRUE)},
           {Endpoint("in", 1, 64, FALSE, TRUE)} >> >> >>
=============================================================================
