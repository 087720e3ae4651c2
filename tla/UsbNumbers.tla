----------------------------- MODULE UsbNumbers -----------------------------
(***************************************************************************)
(* The numbers that descriptors use for strings and interfaces.  A number  *)
(* is the element's place in the list it registered with, counted when it  *)
(* is needed: while other objects of the program are still constructed, or *)
(* by a transfer that walks the same list and is suspended, packet by      *)
(* packet, with its iterator's sentinel linked behind the element it is    *)
(* at.  Counting takes the sentinel of another iterator for an element.    *)
(*                                                                         *)
(* One configuration; its interfaces' names stand for all strings that are *)
(* numbered when the program is constructed.                               *)
(***************************************************************************)
EXTENDS Naturals, Sequences, SequencesExt

CONSTANTS
  AllStrings, AllInterfaces,
  Sentinel    \* of the iterator of the transfer in progress

VARIABLES
  strings, ifaces,   \* the lists, from the head on
  serving,           \* the program is constructed, the host may ask
  walk,              \* the list the transfer walks: "none", "strings", "ifaces"
  sent,              \* the string that is being sent, if any
  asked,             \* its number, as the host gave it
  called, numbered   \* history: numbers in descriptors, with what they are for

vars == <<strings, ifaces, serving, walk, sent, asked, called, numbered>>

Init ==
  /\ strings = << >> /\ ifaces = << >> /\ serving = FALSE
  /\ walk = "none" /\ sent = << >> /\ asked = 0
  /\ called = {} /\ numbered = {}

Place(list, e) == CHOOSE k \in DOMAIN list : list[k] = e
Has(list, e) == e \in ToSet(list)

(* USB_String::index counts from one, *)
Index(s) == Place(strings, s)

(* Interface::index from zero. *)
Number(i) == Place(ifaces, i) - 1

Call(s) == called' = called \cup {<<Index(s), s>>}
Count(i) == numbered' = numbered \cup {<<Number(i), i>>}

-----------------------------------------------------------------------------
(* Construction. *)

MakeString ==
  /\ ~serving
  /\ \E s \in AllStrings : ~Has(strings, s) /\ strings' = Append(strings, s)
  /\ UNCHANGED <<ifaces, serving, walk, sent, asked, called, numbered>>

(* The setting's iInterface is a number from now on. *)
MakeInterface ==
  /\ ~serving
  /\ \E i \in AllInterfaces, s \in AllStrings :
       /\ ~Has(ifaces, i) /\ Has(strings, s)
       /\ ifaces' = Append(ifaces, i) /\ Call(s)
  /\ UNCHANGED <<strings, serving, walk, sent, asked, numbered>>

(* ... and so is bFirstInterface. *)
MakeAssociation ==
  /\ ~serving
  /\ \E i \in AllInterfaces : Has(ifaces, i) /\ Count(i)
  /\ UNCHANGED <<strings, ifaces, serving, walk, sent, asked, called>>

Start ==
  /\ ~serving /\ serving' = TRUE
  /\ UNCHANGED <<strings, ifaces, walk, sent, asked, called, numbered>>

-----------------------------------------------------------------------------
(* Requests. *)

Without(list) ==
  IF Has(list, Sentinel) THEN RemoveAt(list, Place(list, Sentinel)) ELSE list

(* An iterator at place k links its sentinel behind it. *)
At(list, k) == InsertAt(list, k + 1, Sentinel)

(* Where the iterator is. *)
Here(list) == Place(list, Sentinel) - 1

(* ++ *)
Ahead(list) == At(Without(list), Here(list) + 1)

(* Faulty variant: the transfer before this request is still there. *)
TerminatedLate(list) == list

(* A SETUP packet terminates the transfer in progress; its coroutine's     *)
(* iterator takes the sentinel with it. *)
Terminated(list) == Without(list)

(* iManufacturer, iProduct, iSerialNumber, iConfiguration. *)
Names(list) == \E s \in AllStrings :
  Has(list, s) /\ called' = called \cup {<<Place(list, s), s>>}

HostAsksDevice ==
  /\ serving
  /\ strings' = Terminated(strings) /\ ifaces' = Terminated(ifaces)
  /\ Names(strings')
  /\ walk' = "none" /\ sent' = << >>
  /\ UNCHANGED <<serving, asked, numbered>>

HostAsksConfig ==
  /\ serving /\ Without(ifaces) # << >>
  /\ strings' = Terminated(strings) /\ ifaces' = At(Terminated(ifaces), 1)
  /\ Names(strings')
  /\ walk' = "ifaces" /\ sent' = << >>
  /\ UNCHANGED <<serving, asked, numbered>>

(* The descriptor of the interface the transfer is at, and on to the next. *)
NextInterface ==
  /\ walk = "ifaces" /\ Count(ifaces[Here(ifaces)])
  /\ IF Here(ifaces) + 1 = Len(ifaces)
       THEN ifaces' = Without(ifaces) /\ walk' = "none"
       ELSE ifaces' = Ahead(ifaces) /\ UNCHANGED walk
  /\ UNCHANGED <<strings, serving, sent, asked, called>>

(* The number of a string; the loop goes to the place of this number.      *)
HostAsksString ==
  /\ serving /\ ifaces' = Terminated(ifaces)
  /\ \E n \in 1..Len(Without(strings)) :
       /\ strings' = At(Terminated(strings), n)
       /\ asked' = n /\ sent' = <<strings'[n]>>
  /\ walk' = "strings"
  /\ UNCHANGED <<serving, called, numbered>>

(* When the string is out the loop goes on to the end, in vain. *)
StringSent ==
  /\ walk = "strings"
  /\ strings' = Without(strings) /\ walk' = "none" /\ sent' = << >>
  /\ UNCHANGED <<ifaces, serving, asked, called, numbered>>

Next ==
  \/ MakeString \/ MakeInterface \/ MakeAssociation \/ Start
  \/ HostAsksDevice \/ HostAsksConfig \/ NextInterface \/ HostAsksString \/ StringSent

Spec == Init /\ [][Next]_vars

-----------------------------------------------------------------------------
(* Properties. *)

(* A number in a descriptor, whenever it was given, means the element it   *)
(* was given for; the host gets the string it asks for, and no iterator is *)
(* left in a list that nobody walks. *)
NumbersStand ==
  /\ \A pair \in called : Without(strings)[pair[1]] = pair[2]
  /\ \A pair \in numbered : Without(ifaces)[pair[1] + 1] = pair[2]
  /\ sent # << >> => sent = <<Without(strings)[asked]>>
  /\ Has(strings, Sentinel) <=> walk = "strings"
  /\ Has(ifaces, Sentinel) <=> walk = "ifaces"
=============================================================================
