------------------------------- MODULE Output -------------------------------
(***************************************************************************)
(* Voltage and current of the two outputs: four PWM levels on two slices,  *)
(* set by the host through configuration values: raw levels, voltages and  *)
(* currents, corrected by a polynomial each, and the PWM frequency.  The   *)
(* PWM runs while the callbacks write its registers one after the other.   *)
(*                                                                         *)
(* A level is what it was computed from: [flt, poly, max] or [raw].        *)
(***************************************************************************)
EXTENDS Naturals, Sequences

CONSTANTS
  Frequencies, Setpoints, Polynomials, RawLevels,   \* values that the host sets
  Slots,       \* messages in msg_buf
  MaxSets      \* bound: values the host sets

VARIABLES
  freq, raw, flt, poly,   \* the configuration values
  conversion,             \* the frequency that conversions was made for
  wrap, level, on,        \* the PWM: period, levels, enabled
  script,                 \* what the callback that runs has still to do
  setpoints,              \* the posted messages
  sets

configs == <<freq, raw, flt, poly>>
pwm == <<wrap, level, on>>
vars == <<configs, conversion, pwm, script, setpoints, sets>>

Channels == 0..3
RawLevel(n) == [raw |-> n]
Computed(c) == [flt |-> flt[c], poly |-> poly[c], max |-> conversion]

(* The callbacks as sequences of writes. *)
UpdatePwmVals == <<"slice3", "slice4">>
UpdateVals == <<"convert">> \o UpdatePwmVals \o <<"post">>

(* Faulty variant: the PWM is left running. *)
UpdateEverythingLive == <<"wrap">> \o UpdateVals \o <<"enable">>

UpdateEverything == <<"disable", "wrap">> \o UpdateVals \o <<"enable">>

(* Values are 0, a default frequency and the identity; init updates it all.*)
Init ==
  /\ freq \in Frequencies
  /\ raw = [c \in Channels |-> RawLevel(0)]
  /\ flt = [c \in Channels |-> 0]
  /\ \E p \in Polynomials : poly = [c \in Channels |-> p]
  /\ conversion = 0 /\ wrap = 0 /\ on = FALSE
  /\ level = [c \in Channels |-> RawLevel(0)]
  /\ script = UpdateEverything
  /\ setpoints = << >> /\ sets = 0

-----------------------------------------------------------------------------
(* setValue, of each kind of configuration. *)

HostSets == script = << >> /\ sets < MaxSets /\ sets' = sets + 1
UnchangedByHost == UNCHANGED <<conversion, pwm, setpoints>>

SetFrequency ==
  /\ HostSets
  /\ freq' \in Frequencies
  /\ script' = UpdateEverything
  /\ UNCHANGED <<raw, flt, poly>> /\ UnchangedByHost

SetRaw ==
  /\ HostSets
  /\ \E c \in Channels, n \in RawLevels : raw' = [raw EXCEPT ![c] = RawLevel(n)]
  /\ script' = UpdatePwmVals
  /\ UNCHANGED <<freq, flt, poly>> /\ UnchangedByHost

SetSetpoint ==
  /\ HostSets
  /\ \E c \in Channels, x \in Setpoints : flt' = [flt EXCEPT ![c] = x]
  /\ script' = UpdateVals
  /\ UNCHANGED <<freq, raw, poly>> /\ UnchangedByHost

(* A polynomial has no callback. *)
SetPolynomial ==
  /\ HostSets
  /\ \E c \in Channels, p \in Polynomials : poly' = [poly EXCEPT ![c] = p]
  /\ UNCHANGED <<freq, raw, flt, script>> /\ UnchangedByHost

-----------------------------------------------------------------------------
(* The steps of the callbacks. *)

Does(what) == script # << >> /\ Head(script) = what /\ script' = Tail(script)

Disable ==
  Does("disable") /\ on' = FALSE
  /\ UNCHANGED <<configs, conversion, wrap, level, setpoints, sets>>

Enable ==
  Does("enable") /\ on' = TRUE
  /\ UNCHANGED <<configs, conversion, wrap, level, setpoints, sets>>

(* pwm_set_wrap, and the scale that belongs to it. *)
Wrap ==
  Does("wrap") /\ wrap' = freq /\ conversion' = freq
  /\ UNCHANGED <<configs, level, on, setpoints, sets>>

(* All four are computed anew, also those that were set raw. *)
Convert ==
  Does("convert") /\ raw' = [c \in Channels |-> Computed(c)]
  /\ UNCHANGED <<freq, flt, poly, conversion, pwm, setpoints, sets>>

SetLevels(slice, channels) ==
  /\ Does(slice)
  /\ level' = [c \in Channels |-> IF c \in channels THEN raw[c] ELSE level[c]]
  /\ UNCHANGED <<configs, conversion, wrap, on, setpoints, sets>>

(* OutputSetpoint, if a message is free. *)
Post ==
  /\ Does("post")
  /\ setpoints' = IF Len(setpoints) < Slots THEN Append(setpoints, flt) ELSE setpoints
  /\ UNCHANGED <<configs, conversion, pwm, sets>>

(* The main loop delivers it, when the worker's message is through.        *)
Deliver ==
  /\ script = << >> /\ setpoints # << >>
  /\ setpoints' = Tail(setpoints)
  /\ UNCHANGED <<configs, conversion, pwm, script, sets>>

Next ==
  \/ SetFrequency \/ SetRaw \/ SetSetpoint \/ SetPolynomial
  \/ Disable \/ Enable \/ Wrap \/ Convert \/ Post \/ Deliver
  \/ SetLevels("slice3", {0, 1}) \/ SetLevels("slice4", {2, 3})

Spec == Init /\ [][Next]_vars

-----------------------------------------------------------------------------
(* Properties. *)

(* While the PWM runs no level is one computed for another frequency than  *)
(* the one it runs with: the duty would be wrong, and the output's voltage *)
(* with it.  When no callback runs the PWM runs, with the frequency that   *)
(* was set last and the levels that the host can read as raw values; those *)
(* that are computed are so from the setpoints that were set last.         *)
DutyIsRight ==
  /\ on => \A c \in Channels : "flt" \in DOMAIN level[c] => level[c].max = wrap
  /\ script = << >> =>
       /\ on /\ wrap = freq /\ level = raw
       /\ \A c \in Channels : "flt" \in DOMAIN level[c] => level[c].flt = flt[c]
=============================================================================
