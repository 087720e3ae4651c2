-------------------------- MODULE PersistentConfig --------------------------
(***************************************************************************)
(* Configurations that survive a restart: save erases a region of the      *)
(* flash sector by sector and programs it page by page with a count, a     *)
(* descriptor of each configuration (the hash of its name and format, and  *)
(* where its value begins) and the values; the constructor of each one     *)
(* looks for its value.  The power may fail between any two operations of  *)
(* the flash.  save and erase are called by the worker of the USB          *)
(* interface in thread mode, as is every change of a value: nothing else   *)
(* happens meanwhile.                                                      *)
(*                                                                         *)
(* The flash is a sequence of words, of what was written to each.          *)
(***************************************************************************)
EXTENDS Integers, Sequences
INSTANCE SequencesExt

CONSTANTS
  Ids,        \* hashes of the configurations
  Size,       \* words of each one's value
  Values,     \* what they may be set to
  Firmwares,  \* the lists of configurations that versions of the program have
  Page,       \* words of a page
  Sector,     \* words of a sector
  Sectors     \* sectors of the region

VARIABLES
  flash,   \* the words of the region
  list,    \* the list of configurations of the running program
  ram,     \* their values
  flashJob,\* what save or erase does next: [op, at]
  stored   \* history: the values saved last, since then or none erased

vars == <<flash, list, ram, flashJob, stored>>

Words == Sector * Sectors
Erased == [tag |-> "erased"]
Garbled == [tag |-> "garbled"]
Default == "default"
Idle == [op |-> "none", at |-> 0]
NoneStored == [id \in Ids |-> Default]
In(id, l) == \E k \in DOMAIN l : l[k] = id

-----------------------------------------------------------------------------
(* What save writes. *)

Count(n) == [tag |-> "count", n |-> n]
Descriptor(id, start) == <<[tag |-> "id", id |-> id], [tag |-> "start", n |-> start]>>
Value(id, v) == [j \in 1..Size[id] |-> [tag |-> "value", v |-> v, j |-> j]]

(* data_offset when the k-th descriptor is written. *)
DataOffset(l, k) ==
  LET Sum[j \in 1..Len(l)] == IF j = 1 THEN 2 * Len(l) ELSE Sum[j - 1] + Size[l[j - 1]]
  IN Sum[k]

Image(l, values) ==
  <<Count(Len(l))>>
  \o FlattenSeq([k \in 1..Len(l) |-> Descriptor(l[k], DataOffset(l, k))])
  \o FlattenSeq([k \in 1..Len(l) |-> Value(l[k], values[l[k]])])

(* The last page is filled up with what is in the buffer anyway.           *)
Pages(image) == (Len(image) + Page - 1) \div Page
Written(image, w) == IF w <= Len(image) THEN image[w] ELSE Garbled

(* Programming can only clear bits. *)
Programmed(word, data) == IF word = Erased THEN data ELSE Garbled

-----------------------------------------------------------------------------
(* What load reads. *)

StoredCount(f) ==
  IF f[1].tag # "count" \/ f[1].n >= (Words - 1) \div 2 THEN 0 ELSE f[1].n

(* Word o of raw_data, which follows the count. *)
Raw(f, o) == f[o + 2]

(* The descriptors with this hash whose value fits.                        *)
Found(f, id) ==
  {k \in 0..StoredCount(f) - 1 :
     /\ Raw(f, 2 * k) = [tag |-> "id", id |-> id]
     /\ Raw(f, 2 * k + 1).tag = "start"
     /\ Raw(f, 2 * k + 1).n + Size[id] < Words - 1}

(* The first one's value is taken, as it is. *)
Load(f, id) ==
  IF Found(f, id) = {} THEN Default
  ELSE LET first == CHOOSE k \in Found(f, id) : \A j \in Found(f, id) : k <= j
           start == Raw(f, 2 * first + 1).n
           data == [j \in 1..Size[id] |-> Raw(f, start + j - 1)]
       IN IF data[1].tag = "value" /\ data = Value(id, data[1].v)
            THEN data[1].v ELSE "garbled"

-----------------------------------------------------------------------------
Init ==
  /\ flash = [w \in 1..Words |-> Erased]
  /\ list \in Firmwares
  /\ ram = NoneStored
  /\ flashJob = Idle
  /\ stored = NoneStored

(* The host sets a value. *)
Set ==
  /\ flashJob = Idle
  /\ \E id \in Ids, v \in Values : In(id, list) /\ ram' = [ram EXCEPT ![id] = v]
  /\ UNCHANGED <<flash, list, flashJob, stored>>

(* Faulty variant: save does not erase. *)
StartProgramming ==
  /\ flashJob = Idle
  /\ \E op \in {"save", "erase"} :
       flashJob' = [op |-> IF op = "save" THEN "program" ELSE op, at |-> 0]
  /\ UNCHANGED <<flash, list, ram, stored>>

(* The commands config.save and config.erase. *)
Start ==
  /\ flashJob = Idle
  /\ \E op \in {"save", "erase"} : flashJob' = [op |-> op, at |-> 0]
  /\ UNCHANGED <<flash, list, ram, stored>>

(* flash_range_erase, one of the sectors. *)
EraseSector ==
  /\ flashJob.op \in {"save", "erase"}
  /\ flash' = [w \in 1..Words |->
       IF (w - 1) \div Sector = flashJob.at THEN Erased ELSE flash[w]]
  /\ IF flashJob.at + 1 < Sectors
       THEN flashJob' = [flashJob EXCEPT !.at = @ + 1] /\ UNCHANGED stored
       ELSE /\ flashJob' = IF flashJob.op = "save" THEN [op |-> "program", at |-> 0]
                                                   ELSE Idle
            /\ stored' = NoneStored
  /\ UNCHANGED <<list, ram>>

(* flash_range_program, one page. *)
ProgramPage ==
  /\ flashJob.op = "program"
  /\ LET image == Image(list, ram)
     IN /\ flash' = [w \in 1..Words |->
             IF (w - 1) \div Page = flashJob.at
               THEN Programmed(flash[w], Written(image, w)) ELSE flash[w]]
        /\ IF flashJob.at + 1 < Pages(image)
             THEN flashJob' = [flashJob EXCEPT !.at = @ + 1] /\ UNCHANGED stored
             ELSE /\ flashJob' = Idle
                  /\ stored' = [id \in Ids |-> IF In(id, list) THEN ram[id] ELSE Default]
  /\ UNCHANGED <<list, ram>>

(* A power failure or a reset, at any time; the program may be replaced.   *)
Restart ==
  /\ list' \in Firmwares
  /\ ram' = [id \in Ids |-> IF In(id, list') THEN Load(flash, id) ELSE Default]
  /\ flashJob' = Idle
  /\ stored' = [id \in Ids |-> Load(flash, id)]
  /\ UNCHANGED flash

Next == Set \/ Start \/ EraseSector \/ ProgramPage \/ Restart

Spec == Init /\ [][Next]_vars

-----------------------------------------------------------------------------
(* Properties. *)

(* What a restart would load at this moment: all the values that were      *)
(* saved last or, once save or erase has begun, no value at all, whichever *)
(* configurations this and earlier versions of the program know.  Never    *)
(* some of them, a value of another configuration, or words that were      *)
(* never written.  For images of one page; Page says so. *)
AllOrNothing ==
  LET loaded == [id \in Ids |-> Load(flash, id)]
  IN \/ loaded = stored
     \/ flashJob # Idle /\ loaded = NoneStored
=============================================================================
