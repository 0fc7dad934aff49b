------------------------------ MODULE TipBoard ------------------------------
(***************************************************************************)
(* The calls of TIpcieLib.c that set one thing on the board, as the        *)
(* functions they are: the board before the call, the arguments, and the   *)
(* answer [ok, board].  A setting is named after the key of the            *)
(* configuration file that is for it; a switch is 0 or 1; a mask is one    *)
(* switch for each of its bits.  Settings the library keeps itself until   *)
(* they are used (trigger source, reset type, trigger table, slaves) are   *)
(* with the board's.                                                       *)
(***************************************************************************)
EXTENDS Integers, Sequences, TLC

FrontBusy == <<"BUSY_SOURCE_SWA", "BUSY_SOURCE_SWB", "BUSY_SOURCE_P2",
  "BUSY_SOURCE_FP_TDC", "BUSY_SOURCE_FP_ADC", "BUSY_SOURCE_FP",
  "BUSY_SOURCE_LOOPBACK">>
FiberBusy == <<"BUSY_SOURCE_FIBER1", "BUSY_SOURCE_FIBER2", "BUSY_SOURCE_FIBER3",
  "BUSY_SOURCE_FIBER4", "BUSY_SOURCE_FIBER5", "BUSY_SOURCE_FIBER6",
  "BUSY_SOURCE_FIBER7", "BUSY_SOURCE_FIBER8">>
EnableTS   == <<"ENABLE_TS1", "ENABLE_TS2", "ENABLE_TS3", "ENABLE_TS4", "ENABLE_TS5", "ENABLE_TS6">>
PrescaleTS == <<"PRESCALE_TS1", "PRESCALE_TS2", "PRESCALE_TS3", "PRESCALE_TS4", "PRESCALE_TS5", "PRESCALE_TS6">>
DelayTS    == <<"DELAY_TS1", "DELAY_TS2", "DELAY_TS3", "DELAY_TS4", "DELAY_TS5", "DELAY_TS6">>
Rule       == <<"RULE_1", "RULE_2", "RULE_3", "RULE_4">>
RuleStep   == <<"RULE_TIMESTEP_1", "RULE_TIMESTEP_2", "RULE_TIMESTEP_3", "RULE_TIMESTEP_4">>
RuleMin    == <<"RULE_MIN_1", "RULE_MIN_2", "RULE_MIN_3", "RULE_MIN_4">>

Elements(s) == {s[i] : i \in DOMAIN s}
BusyKeys    == Elements(FrontBusy) \union Elements(FiberBusy)

Done(b)    == [ok |-> TRUE, board |-> b]
Refused(b) == [ok |-> FALSE, board |-> b]
Bit(yes)   == IF yes THEN 1 ELSE 0

\* One setting, if the value is one the call accepts.
Put(b, setting, v, legal) ==
  IF v \in legal THEN Done([b EXCEPT ![setting] = v]) ELSE Refused(b)
Switch(b, setting, v) == Done([b EXCEPT ![setting] = Bit(v # 0)])

\* A slip: the check lets one bit too many through.
SlipCrateID(b, id)                == Put(b, "CRATE_ID", id, 0..256)

tipSetCrateID(b, id)              == Put(b, "CRATE_ID", id, 0..255)
tipSetBlockLevel(b, master, n)    == IF master THEN Put(b, "BLOCK_LEVEL", n, 1..255) ELSE Refused(b)
tipSetBlockBufferLevel(b, n)      == Put(b, "BLOCK_BUFFER_LEVEL", n, 0..255)
tipSetInstantBlockLevelChange(b, enable) == Switch(b, "INSTANT_BLOCKLEVEL_ENABLE", enable)
tipUseBroadcastBufferLevel(b, enable)    == Switch(b, "BROADCAST_BUFFER_LEVEL_ENABLE", enable)
tipSetBlockLimit(b, n)            == Put(b, "BLOCK_LIMIT", n, Nat)
tipSetSyncSource(b, mask)         == Put(b, "SYNC_SOURCE", mask, 0..255)
tipSetSyncResetType(b, type)      == Switch(b, "SYNC_RESET_TYPE", type)
tipSetPrescale(b, n)              == Put(b, "PRESCALE", n, 0..65535)
tipSetEventFormat(b, format)      == Put(b, "EVENT_FORMAT", format, 0..3)
tipSetFPInputReadout(b, enable)   == Switch(b, "FP_INPUT_READOUT_ENABLE", enable)
tipSetTriggerWindow(b, width)        == Put(b, "TRIGGER_WINDOW", width, 1..255)
tipSetTriggerInhibitWindow(b, width) == Put(b, "TRIGGER_INHIBIT_WINDOW", width, 1..255)
tipSetPromptTriggerWidth(b, width)   == Put(b, "PROMPT_TRIGGER_WIDTH", width, 0..127)

\* enable << 31 keeps the lowest bit only
tipSetTriggerLatchOnLevel(b, enable) ==
  Done([b EXCEPT !["TRIGGER_LATCH_ON_LEVEL_ENABLE"] = IF enable < 1 THEN 0 ELSE enable % 2])

\* A slave takes fiber 1 whatever it is asked for, with a partition if asked.
tipSetTriggerSource(b, master, trig) ==
  IF master THEN Put(b, "TRIGGER_SOURCE", trig, 0..5)
  ELSE IF trig \in 0..10
       THEN Done([b EXCEPT !["TRIGGER_SOURCE"] = IF trig \in 6..9 THEN trig ELSE 1])
       ELSE Refused(b)

\* sticks: the board has the clock when it is read back
tipSetClockSource(b, source, sticks) ==
  LET answer == Put(b, "CLOCK_SOURCE", source, {0, 1})
  IN  [answer EXCEPT !.ok = @ /\ (source = 1 => sticks)]

tipSetBusySource(b, mask, reset) ==
  Done([k \in DOMAIN b |->
    IF k \in BusyKeys THEN Bit(k \in mask \/ (~reset /\ b[k] = 1)) ELSE b[k]])

\* A slip: the busy bit is counted from the wrong end.
SlipAddSlave(b, master, fiber) ==
  IF master /\ fiber = 1
    THEN tipSetBusySource([b EXCEPT !["ENABLE_FIBER_1"] = 1], {FiberBusy[9 - fiber]}, FALSE)
    ELSE Refused(b)

\* The answer of a call inside is an early return; here both inner calls
\* always accept, and the fiber's own enable bit is not kept.
tipAddSlave(b, master, fiber) ==
  IF master /\ fiber = 1
    THEN tipSetBusySource([b EXCEPT !["ENABLE_FIBER_1"] = 1], {FiberBusy[fiber]}, FALSE)
    ELSE Refused(b)

tipResetSlaveConfig(b, master) ==
  IF ~master THEN Refused(b)
  ELSE Done([k \in DOMAIN b |->
         IF k \in Elements(FiberBusy) \union {"ENABLE_FIBER_1"} THEN 0 ELSE b[k]])

\* A width out of range is reported and written all the same: what does not
\* fit in its byte of trigDelay lands in trigger 2's.
tipSetTriggerPulse(b, delay, width, delaystep) ==
  IF delay \notin 0..127 THEN Refused(b)
  ELSE Done([b EXCEPT !["TRIGGER_OUTPUT_DELAY"] = delay,
                      !["TRIGGER_OUTPUT_WIDTH"] = width % 256,
                      !["TRIGGER_OUTPUT_DELAYSTEP"] = Bit(delaystep # 0),
                      !["TRIGGER_2_PULSE"] = IF width \in 0..255 THEN b["TRIGGER_2_PULSE"] ELSE -1])

\* unsigned arguments: a negative one is out of range; nothing is returned
tipSetSyncDelayWidth(b, delay, width, widthstep) ==
  IF delay \notin 0..127 \/ width \notin 0..127 THEN b
  ELSE [b EXCEPT !["SYNCRESET_DELAY"] = delay, !["SYNCRESET_WIDTH"] = width,
                 !["SYNCRESET_WIDTHSTEP"] = Bit(widthstep # 0)]

tipSetSyncEventInterval(b, master, blocks) ==
  IF ~master THEN Refused(b)
  ELSE Done([b EXCEPT !["SYNCEVENT_INTERVAL"] = IF blocks > 16777215 THEN 16777215 ELSE blocks])

tipTriggerTablePredefinedConfig(b, mode) ==
  Done([b EXCEPT !["TRIGGER_TABLE"] = IF mode > 3 THEN 0 ELSE mode])

tipDefinePulserEventType(b, fixed, random) ==
  IF fixed \notin 0..255 \/ random \notin 0..255 THEN Refused(b)
  ELSE Done([b EXCEPT !["FIXED_PULSER_EVENTTYPE"] = fixed,
                      !["RANDOM_PULSER_EVENTTYPE"] = random])

tipSetTSInputDelay(b, n, delay)     == Put(b, DelayTS[n], delay, 0..511)
tipSetInputPrescale(b, n, prescale) == Put(b, PrescaleTS[n], prescale, 0..15)

\* the whole mask is written: an input that is not in it is disabled
tipEnableTSInput(b, mask) ==
  Done([k \in DOMAIN b |-> IF k \in Elements(EnableTS) THEN Bit(k \in mask) ELSE b[k]])

\* A slip: the rule's old bits are not masked out.
SlipHoldoff(b, n, value, timestep) ==
  IF value \notin 0..127 THEN Refused(b)
  ELSE Done([b EXCEPT ![Rule[n]] = IF @ < value THEN (@ + value) % 128 ELSE @,
                      ![RuleStep[n]] = Bit(timestep # 0),
                      !["SLOWER_TRIGGER_RULES"] = Bit(timestep = 2)])

\* The slower unit (timestep 2) is one switch for all rules.
tipSetTriggerHoldoff(b, n, value, timestep) ==
  IF value \notin 0..127 THEN Refused(b)
  ELSE Done([b EXCEPT ![Rule[n]] = value, ![RuleStep[n]] = Bit(timestep # 0),
                      !["SLOWER_TRIGGER_RULES"] = Bit(timestep = 2)])

tipSetTriggerHoldoffMin(b, n, value) ==
  IF n < 2 THEN Refused(b) ELSE Put(b, RuleMin[n], value, 0..127)

\* The period is in FIXED_PERIOD; with no events the pulser is off.
tipSoftTrig(b, nevents, period, range) ==
  IF nevents \notin 0..65535 \/ period \notin 0..32767 \/ range \notin {0, 1} THEN Refused(b)
  ELSE Done([b EXCEPT !["FIXED_NUMBER"] = nevents, !["FIXED_PERIOD"] = period,
                      !["FIXED_RANGE"] = range])

\* randomPulser is written whole.  Only the upper bound of the rate is
\* checked: a negative one has the enable bits of both triggers set.
tipSetRandomTrigger(b, setting) ==
  IF setting > 15 THEN Refused(b)
  ELSE Done([b EXCEPT !["RANDOM_ENABLE"] = 1, !["RANDOM_PRESCALE"] = setting % 16,
                      !["RANDOM_ENABLE_2"] = Bit(setting < 0)])

tipDisableRandomTrigger(b) ==
  Done([b EXCEPT !["RANDOM_ENABLE"] = 0, !["RANDOM_PRESCALE"] = 0, !["RANDOM_ENABLE_2"] = 0])
=============================================================================
