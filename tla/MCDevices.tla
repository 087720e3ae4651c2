----------------------------- MODULE MCDevices -----------------------------
(* The parts of the firmware around the outputs that share no state of     *)
(* their models: every behaviour is one of one part, the others stay as    *)
(* they are.  A part's fairness is required of its own behaviours.         *)
EXTENDS Naturals, Sequences

CONSTANTS N, Buffers, MaxFaults,
          Ids, Size, Values, Firmwares, Page, Sector, Sectors,
          ListHead, Sentinel, Elements, MaxChanges,
          Buttons, Slots, MaxEdges,
          Frequencies, Setpoints, Polynomials, RawLevels, MaxSets,
          Sources, Areas, MaxNews,
          MaxTime,
          Delays, MaxSteps, MaxWait

ASSUME PartsAssumption ==
  /\ N \in Nat \ {0} /\ Buffers \in Nat /\ Areas \in Nat
  /\ Delays \in Seq(Nat) /\ Len(Delays) > 0

VARIABLES part,
          pc, i, values, alert, irqOn, timer, conv, reg, pin, msgs, faults,
          flash, list, ram, flashJob, stored,
          next, prev, step, element, changes, staying, visits,
          high, irq, wait, noted, isDown, btnCfg, queue, told, missed, edges,
          freq, raw, flt, poly, conversion, wrap, level, on, script, setpoints, sets,
          at, ticked, main, calls, heard, labels, made, dirty, flushing, act, buffer,
          busy, selected, command, dma, screen,
          now, work, current, startTime, inISR, isrStart, inOther, timeSpentBusy,
          timeSpentInISRs, worked, interrupted, blurred,
          coro, elapsed, nextTimeout, running, time, shown, late

Analog == INSTANCE AnalogReadings
Saved == INSTANCE PersistentConfig

(* A version of the program lists no configuration twice, and all that it  *)
(* saves fits into a page; the region is larger than a page, and a sector  *)
(* is a page at least. *)
ASSUME FlashAssumption ==
  /\ {Page, Sector, Sectors} \subseteq Nat \ {0}
  /\ Page <= Sector /\ Page < Saved!Words
  /\ \A id \in Ids : Size[id] \in Nat \ {0}
  /\ \A l \in Firmwares :
       /\ l \in Seq(Ids) /\ \A j, k \in DOMAIN l : l[j] = l[k] => j = k
       /\ Len(Saved!Image(l, Saved!NoneStored)) <= Page

Ring == INSTANCE LinkedList

(* The list and the iterator's sentinel are no elements of it.             *)
ASSUME RingAssumption ==
  ListHead \notin Elements /\ Sentinel \notin Elements /\ ListHead # Sentinel

Pressed == INSTANCE Buttons
Driven == INSTANCE Output
Shown == INSTANCE Display
Clock == INSTANCE Timekeeping
Beating == INSTANCE Heartbeat

analogVars == <<pc, i, values, alert, irqOn, timer, conv, reg, pin, msgs, faults>>
savedVars == <<flash, list, ram, flashJob, stored>>
ringVars == <<next, prev, step, element, changes, staying, visits>>
pressedVars == <<high, irq, wait, noted, isDown, btnCfg, queue, told, missed, edges>>
drivenVars ==
  <<freq, raw, flt, poly, conversion, wrap, level, on, script, setpoints, sets>>
shownVars ==
  <<at, ticked, main, calls, heard, labels, made, dirty, flushing, act, buffer,
    busy, selected, command, dma, screen>>
clockVars ==
  <<now, work, current, startTime, inISR, isrStart, inOther, timeSpentBusy,
    timeSpentInISRs, worked, interrupted, blurred>>
beatVars == <<coro, elapsed, nextTimeout, running, time, shown, late>>
vars ==
  <<part, analogVars, savedVars, ringVars, pressedVars, drivenVars, shownVars, clockVars,
    beatVars>>

(* Only the part that runs has a choice of initial states. *)
Init ==
  /\ part \in {"analog", "saved", "ring", "pressed", "driven", "shown", "clock", "beat"}
  /\ Analog!Init /\ Ring!Init /\ Shown!Init /\ Clock!Init /\ Beating!Init
  /\ Saved!Init /\ (part # "saved" => list = CHOOSE l \in Firmwares : TRUE)
  /\ Pressed!Init /\ (part # "pressed" => high = {})
  /\ Driven!Init
  /\ part # "driven" => /\ freq = CHOOSE f \in Frequencies : TRUE
                        /\ poly[0] = CHOOSE p \in Polynomials : TRUE

Measures ==
  /\ part = "analog" /\ Analog!Next
  /\ UNCHANGED <<part, savedVars, ringVars, pressedVars, drivenVars,
                 shownVars, clockVars, beatVars>>
Saves ==
  /\ part = "saved" /\ Saved!Next
  /\ UNCHANGED <<part, analogVars, ringVars, pressedVars, drivenVars,
                 shownVars, clockVars, beatVars>>
Links ==
  /\ part = "ring" /\ Ring!Next
  /\ UNCHANGED <<part, analogVars, savedVars, pressedVars, drivenVars,
                 shownVars, clockVars, beatVars>>
Presses ==
  /\ part = "pressed" /\ Pressed!Next
  /\ UNCHANGED <<part, analogVars, savedVars, ringVars, drivenVars,
                 shownVars, clockVars, beatVars>>
Drives ==
  /\ part = "driven" /\ Driven!Next
  /\ UNCHANGED <<part, analogVars, savedVars, ringVars, pressedVars,
                 shownVars, clockVars, beatVars>>
Shows ==
  /\ part = "shown" /\ Shown!Next
  /\ UNCHANGED <<part, analogVars, savedVars, ringVars, pressedVars,
                 drivenVars, clockVars, beatVars>>
Counts ==
  /\ part = "clock" /\ Clock!Next
  /\ UNCHANGED <<part, analogVars, savedVars, ringVars, pressedVars,
                 drivenVars, shownVars, beatVars>>
Beats ==
  /\ part = "beat" /\ Beating!Next
  /\ UNCHANGED <<part, analogVars, savedVars, ringVars, pressedVars,
                 drivenVars, shownVars, clockVars>>

Next == Measures \/ Saves \/ Links \/ Presses \/ Drives \/ Shows \/ Counts \/ Beats

Spec ==
  /\ Init /\ [][Next]_vars
  /\ part = "analog" => Analog!Fairness
  /\ part = "pressed" => Pressed!Fairness
  /\ part = "shown" => Shown!Fairness

(* The properties of the parts, as they are stated there. *)
RoundsAreWhole == Analog!RoundsAreWhole
KeepsMeasuring == part = "analog" => Analog!KeepsMeasuring
AllOrNothing == Saved!AllOrNothing
VisitsOnce == Ring!VisitsOnce
ButtonsSettle == part = "pressed" => Pressed!ButtonsSettle
DutyIsRight == Driven!DutyIsRight
PanelIntact == Shown!PanelIntact
ShowsLatest == part = "shown" => Shown!ShowsLatest
TimesAddUp == Clock!TimesAddUp /\ Beating!BeatKeepsTime

MCDelays == <<3, 1, 2, 1>>
MCSize == [id \in Ids |-> IF id = "b" THEN 2 ELSE 1]
MCFirmwares == {<<"a", "b">>, <<"b", "c">>, <<"c">>}
=============================================================================
