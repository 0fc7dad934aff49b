----------------------------- MODULE TipConfig ------------------------------
(***************************************************************************)
(* The configuration loader, TIpcieConfig.cpp: a file of settings is       *)
(* loaded at every Download and applied key by key, the pulsers are        *)
(* started at Go and stopped at End, in the order CODA calls a readout     *)
(* list (rol/TIpcie_source.h, rol/TIpcie_master_list.c).                   *)
(*                                                                         *)
(* A file is a function from some of the keys to numbers; a key stands for *)
(* its section too.                                                        *)
(***************************************************************************)
EXTENDS TipBoard, SequencesExt

CONSTANTS
  Files,     \* the files there are
  NoFile,    \* a file that cannot be opened
  Masters,   \* is the board a master: a subset of BOOLEAN
  Half,      \* 2^31: a number of a file is a long, one of the maps an int32_t
  MaxLoads   \* bound of the model: Downloads

\* The general section, and then the slave, in the order of the calls; BUSY
\* stands for the busy keys, which make one mask.
Levels  == <<"CRATE_ID", "BLOCK_LEVEL", "BLOCK_BUFFER_LEVEL",
  "INSTANT_BLOCKLEVEL_ENABLE", "BROADCAST_BUFFER_LEVEL_ENABLE", "BLOCK_LIMIT">>
Sources == <<"TRIGGER_SOURCE", "SYNC_SOURCE", "SYNC_RESET_TYPE", "BUSY", "CLOCK_SOURCE",
  "PRESCALE", "EVENT_FORMAT", "FP_INPUT_READOUT_ENABLE">>
Outputs == <<"TRIGGER_WINDOW", "TRIGGER_INHIBIT_WINDOW", "TRIGGER_LATCH_ON_LEVEL_ENABLE",
  "TRIGGER_OUTPUT_DELAY", "PROMPT_TRIGGER_WIDTH", "SYNCRESET_DELAY",
  "SYNCEVENT_INTERVAL", "TRIGGER_TABLE", "FIXED_PULSER_EVENTTYPE", "ENABLE_FIBER_1">>
Calls   == Levels \o Sources \o Outputs
ReadoutCalls == Elements(Levels) \union Elements(Sources)

Arguments == {"TRIGGER_OUTPUT_WIDTH", "TRIGGER_OUTPUT_DELAYSTEP", "SYNCRESET_WIDTH",
  "SYNCRESET_WIDTHSTEP", "RANDOM_PULSER_EVENTTYPE"}
InputKeys == Elements(EnableTS) \union Elements(PrescaleTS) \union Elements(DelayTS)
RuleKeys  == Elements(Rule) \union Elements(RuleStep) \union Elements(RuleMin)
PulserKeys == {"FIXED_ENABLE", "FIXED_NUMBER", "FIXED_PERIOD", "FIXED_RANGE",
  "RANDOM_ENABLE", "RANDOM_PRESCALE"}
Keys == (Elements(Calls) \ {"BUSY"}) \union BusyKeys \union Arguments
          \union InputKeys \union RuleKeys \union PulserKeys

Settings == (Keys \ {"FIXED_ENABLE"})
              \union {"TRIGGER_2_PULSE", "SLOWER_TRIGGER_RULES", "RANDOM_ENABLE_2"}

\* NoFile is a model value: no file is equal to it
ASSUME ConfigAssumption ==
  /\ \A f \in Files : DOMAIN f \subseteq Keys /\ \A k \in DOMAIN f : f[k] \in Int
  /\ NoFile \notin Files
  /\ Masters \subseteq BOOLEAN
  /\ Half \in Nat \ {0}
  /\ MaxLoads \in Nat

VARIABLES
  tipMaster,
  board,    \* a number for every setting
  ir,       \* the INIReader: the last file, or NoFile
  ini,      \* the ti_*_ini maps: a number for every key
  phase,    \* "loaded" (the list is), "downloaded", "active"
  refused,  \* what ended the last load: a call's ERROR, or "none"
  loads,    \* Downloads so far
  cut       \* a Reset came while the run was active

vars == <<tipMaster, board, ir, ini, phase, refused, loads, cut>>

\* What tipInit leaves; 0 for what only the reset of the board decides.
AfterInit(master) ==
  [s \in Settings |->
     CASE s = "BUSY_SOURCE_LOOPBACK" -> Bit(master)
       [] s = "SYNC_SOURCE" -> IF master THEN 16 ELSE 2
       [] s \in {"TRIGGER_SOURCE", "CLOCK_SOURCE"} -> Bit(~master)
       [] s = "SYNCRESET_DELAY" -> IF master THEN 84 ELSE 0
       [] s = "SYNCRESET_WIDTH" -> IF master THEN 47 ELSE 36
       [] s = "CRATE_ID" -> 89
       [] s \in {"BLOCK_LEVEL", "BLOCK_BUFFER_LEVEL"} -> 1
       [] s = "EVENT_FORMAT" -> 3
       [] s \in {"TRIGGER_OUTPUT_WIDTH", "TRIGGER_2_PULSE"} -> 15
       [] OTHER -> 0]

Init ==
  /\ tipMaster \in Masters
  /\ board = AfterInit(tipMaster)
  /\ ir = NoFile /\ ini = [k \in Keys |-> -1]
  /\ phase = "loaded" /\ refused = "none" /\ loads = 0 /\ cut = FALSE

\* long to int32_t: the lower half of the number, with its sign
Int32(x) == ((x + Half) % (2 * Half)) - Half

parseIni(file) == [k \in Keys |-> IF k \in DOMAIN file THEN Int32(file[k]) ELSE -1]

Asked(values, keys) == {k \in keys : values[k] > 0}

----------------------------------------------------------------------------
(* One call of param2ti's general and slave sections, whose answer counts.  *)

Busy(b, v) ==
  LET mask == Asked(v, BusyKeys \ {"BUSY_SOURCE_P2"})
  IN  IF mask = {} THEN Done(b) ELSE tipSetBusySource(b, mask, TRUE)

\* the levels, the sources and the readout
ReadoutCall(k, b, v, sticks) ==
  CASE k = "CRATE_ID" -> tipSetCrateID(b, v[k])
    [] k = "BLOCK_LEVEL" -> tipSetBlockLevel(b, tipMaster, v[k])
    [] k = "BLOCK_BUFFER_LEVEL" -> tipSetBlockBufferLevel(b, v[k])
    [] k = "INSTANT_BLOCKLEVEL_ENABLE" -> tipSetInstantBlockLevelChange(b, v[k])
    [] k = "BROADCAST_BUFFER_LEVEL_ENABLE" -> tipUseBroadcastBufferLevel(b, v[k])
    [] k = "BLOCK_LIMIT" -> tipSetBlockLimit(b, v[k])
    [] k = "TRIGGER_SOURCE" -> tipSetTriggerSource(b, tipMaster, v[k])
    [] k = "SYNC_SOURCE" -> tipSetSyncSource(b, v[k])
    [] k = "SYNC_RESET_TYPE" -> tipSetSyncResetType(b, v[k])
    [] k = "CLOCK_SOURCE" -> tipSetClockSource(b, v[k], sticks)
    [] k = "PRESCALE" -> tipSetPrescale(b, v[k])
    [] k = "EVENT_FORMAT" -> tipSetEventFormat(b, v[k])
    [] k = "FP_INPUT_READOUT_ENABLE" -> tipSetFPInputReadout(b, v[k])

\* the windows, the outputs, the pulsers' types and the slave
OutputCall(k, b, v) ==
  CASE k = "TRIGGER_WINDOW" -> tipSetTriggerWindow(b, v[k])
    [] k = "TRIGGER_INHIBIT_WINDOW" -> tipSetTriggerInhibitWindow(b, v[k])
    [] k = "TRIGGER_LATCH_ON_LEVEL_ENABLE" -> tipSetTriggerLatchOnLevel(b, v[k])
    [] k = "TRIGGER_OUTPUT_DELAY" ->
         tipSetTriggerPulse(b, v[k], v["TRIGGER_OUTPUT_WIDTH"], v["TRIGGER_OUTPUT_DELAYSTEP"])
    [] k = "PROMPT_TRIGGER_WIDTH" -> tipSetPromptTriggerWidth(b, v[k])
    [] k = "SYNCRESET_DELAY" ->
         Done(tipSetSyncDelayWidth(b, v[k], v["SYNCRESET_WIDTH"], v["SYNCRESET_WIDTHSTEP"]))
    [] k = "SYNCEVENT_INTERVAL" -> tipSetSyncEventInterval(b, tipMaster, v[k])
    [] k = "TRIGGER_TABLE" -> tipTriggerTablePredefinedConfig(b, v[k])
    [] k = "FIXED_PULSER_EVENTTYPE" ->
         tipDefinePulserEventType(b, v[k], v["RANDOM_PULSER_EVENTTYPE"])
    [] k = "ENABLE_FIBER_1" -> tipAddSlave(b, tipMaster, 1)

Call(k, b, v, sticks) ==
  IF k = "BUSY" THEN Busy(b, v)
  ELSE IF v[k] <= 0 THEN Done(b)
  ELSE IF k \in ReadoutCalls THEN ReadoutCall(k, b, v, sticks)
  ELSE OutputCall(k, b, v)

\* A slip: the calls that come after an ERROR are made all the same.
SlipGeneral(b, v, sticks) ==
  LET Apply(load, k) ==
        LET answer == Call(k, load.board, v, sticks)
        IN  [board |-> answer.board,
             refused |-> IF answer.ok \/ load.refused # "none" THEN load.refused ELSE k]
  IN  FoldLeft(Apply, [board |-> b, refused |-> "none"], Calls)

\* The first call to fail ends the load.
General(b, v, sticks) ==
  LET Apply(load, k) ==
        IF load.refused # "none" THEN load
        ELSE LET answer == Call(k, load.board, v, sticks)
             IN  [board |-> answer.board, refused |-> IF answer.ok THEN "none" ELSE k]
  IN  FoldLeft(Apply, [board |-> b, refused |-> "none"], Calls)

(* The rest, whose answers are ignored.  PRESCALE_TSn goes to both calls.   *)
Inputs(b, v) ==
  LET Input(at, n) ==
        IF v[PrescaleTS[n]] <= 0 THEN at
        ELSE tipSetInputPrescale(tipSetTSInputDelay(at, n, v[PrescaleTS[n]]).board,
                                 n, v[PrescaleTS[n]]).board
      mask == Asked(v, Elements(EnableTS))
      set  == FoldLeft(Input, b, <<1, 2, 3, 4, 5, 6>>)
  IN  IF mask = {} THEN set ELSE tipEnableTSInput(set, mask).board

Rules(b, v) ==
  LET AtLeast0(x) == IF x > 0 THEN x ELSE 0
      Holdoff(at, n) ==
        IF v[Rule[n]] <= 0 THEN at
        ELSE tipSetTriggerHoldoff(at, n, v[Rule[n]], AtLeast0(v[RuleStep[n]])).board
      Both(at, n) ==
        IF v[RuleMin[n]] <= 0 THEN Holdoff(at, n)
        ELSE tipSetTriggerHoldoffMin(Holdoff(at, n), n, v[RuleMin[n]]).board
  IN  FoldLeft(Both, b, <<1, 2, 3, 4>>)

param2ti(b, v, sticks) ==
  LET load == General(b, v, sticks)
  IN  IF load.refused # "none" THEN load
      ELSE [load EXCEPT !.board = Rules(Inputs(@, v), v)]

----------------------------------------------------------------------------
(* rocDownload: tiConfig, which loads a file, or says that it cannot.  That *)
(* a key was refused it does not say.                                       *)
Download(file, sticks) ==
  /\ phase # "active" /\ loads < MaxLoads
  /\ phase' = "downloaded" /\ loads' = loads + 1 /\ ir' = file
  /\ IF file = NoFile
     THEN UNCHANGED <<board, ini, refused>>
     ELSE LET load == param2ti(board, parseIni(file), sticks)
          IN  /\ ini' = parseIni(file)
              /\ board' = load.board
              /\ refused' = load.refused
  /\ UNCHANGED <<tipMaster, cut>>

\* tipConfigEnablePulser: FIXED_NUMBER goes for the period too, and any
\* number but 0 enables.
Fixed(b) ==
  IF ini["FIXED_ENABLE"] = 0 THEN b
  ELSE tipSoftTrig(b, ini["FIXED_NUMBER"], ini["FIXED_NUMBER"], ini["FIXED_RANGE"]).board
Random(b) ==
  IF ini["RANDOM_ENABLE"] = 0 THEN b
  ELSE tipSetRandomTrigger(b, ini["RANDOM_PRESCALE"]).board

Go ==
  /\ phase = "downloaded" /\ phase' = "active"
  /\ board' = Random(Fixed(board))
  /\ UNCHANGED <<tipMaster, ir, ini, refused, loads, cut>>

\* tipConfigDisablePulser
FixedOff(b)  == IF ini["FIXED_ENABLE"] = 0 THEN b ELSE tipSoftTrig(b, 0, 0, 0).board
\* A slip: an undefined RANDOM_ENABLE is not taken as set, as it is at Go.
SlipRandomOff(b) == IF ini["RANDOM_ENABLE"] <= 0 THEN b ELSE tipDisableRandomTrigger(b).board
RandomOff(b) == IF ini["RANDOM_ENABLE"] = 0 THEN b ELSE tipDisableRandomTrigger(b).board

End ==
  /\ phase = "active" /\ phase' = "downloaded"
  /\ board' = RandomOff(FixedOff(board))
  /\ UNCHANGED <<tipMaster, ir, ini, refused, loads, cut>>

\* A Reset does not come through rocEnd: the pulsers stay as they are.
Reset ==
  /\ phase # "loaded" /\ phase' = "loaded"
  /\ board' = tipResetSlaveConfig(board, tipMaster).board
  /\ cut' = (cut \/ phase = "active")
  /\ UNCHANGED <<tipMaster, ir, ini, refused, loads>>

Next ==
  \/ \E file \in Files \union {NoFile}, sticks \in BOOLEAN : Download(file, sticks)
  \/ Go
  \/ End
  \/ Reset

Spec == Init /\ [][Next]_vars

----------------------------------------------------------------------------
Bytes == 0..255

TypeOK ==
  /\ tipMaster \in BOOLEAN /\ cut \in BOOLEAN
  /\ DOMAIN board = Settings /\ DOMAIN ini = Keys
  /\ \A k \in Keys : ini[k] \in Int
  /\ \A s \in BusyKeys \union Elements(EnableTS) \union Elements(RuleStep) : board[s] \in {0, 1}
  /\ \A s \in {"CRATE_ID", "BLOCK_LEVEL", "BLOCK_BUFFER_LEVEL", "TRIGGER_OUTPUT_WIDTH"} : board[s] \in Bytes
  /\ \A s \in {"TRIGGER_OUTPUT_DELAY", "SYNCRESET_DELAY", "SYNCRESET_WIDTH"} \union Elements(Rule) : board[s] \in 0..127
  /\ \A s \in Elements(PrescaleTS) \union {"RANDOM_PRESCALE"} : board[s] \in 0..15
  /\ phase \in {"loaded", "downloaded", "active"}
  /\ refused \in Elements(Calls) \union {"none"}
  /\ loads \in 0..MaxLoads

\* What the program takes the last file to say of a key: -1 for nothing.
Says(k) == IF ir = NoFile THEN -1 ELSE parseIni(ir)[k]

\* The keys whose call a load came to, and was not refused.
Before(k) ==
  \/ refused = "none"
  \/ \E i, j \in DOMAIN Calls :
       /\ i < j /\ Calls[j] = refused
       /\ Calls[i] = IF k \in BusyKeys THEN "BUSY" ELSE k
Switches == {"INSTANT_BLOCKLEVEL_ENABLE", "BROADCAST_BUFFER_LEVEL_ENABLE",
  "SYNC_RESET_TYPE", "FP_INPUT_READOUT_ENABLE"}
    \union (BusyKeys \ {"BUSY_SOURCE_P2"}) \union Elements(EnableTS)
Numbers == {"CRATE_ID", "BLOCK_LEVEL", "BLOCK_BUFFER_LEVEL", "BLOCK_LIMIT",
  "SYNC_SOURCE", "CLOCK_SOURCE", "PRESCALE", "EVENT_FORMAT", "TRIGGER_WINDOW",
  "TRIGGER_INHIBIT_WINDOW", "TRIGGER_OUTPUT_DELAY", "PROMPT_TRIGGER_WIDTH",
  "FIXED_PULSER_EVENTTYPE"}

\* Keys whose number is taken as it is in these bounds only; out of them it is
\* replaced (the first four) or refused, and the load is OK all the same.
Ignored == Elements(PrescaleTS) \union Elements(Rule) \union (Elements(RuleMin) \ {"RULE_MIN_1"})
Bounded == {"TRIGGER_SOURCE", "TRIGGER_LATCH_ON_LEVEL_ENABLE", "SYNCEVENT_INTERVAL", "TRIGGER_TABLE"}
InBounds(master, k, x) ==
  /\ k = "TRIGGER_SOURCE" => x \in (IF master THEN 1..5 ELSE {1} \union 6..9)
  /\ k = "TRIGGER_LATCH_ON_LEVEL_ENABLE" => x = 1
  /\ k = "SYNCEVENT_INTERVAL" => x <= 16777215
  /\ k = "TRIGGER_TABLE" => x <= 3
  /\ k \in Elements(PrescaleTS) => x <= 15
  /\ k \in Elements(Rule) \union Elements(RuleMin) => x <= 127

\* After a Download the board has what the file says of each key of Switches,
\* Numbers, Bounded and Ignored that is above 0 and whose call the load came to,
\* whatever was loaded before and whatever else the file has (param2ti).
\* Of a number out of bounds and of the other keys it says nothing: the busy
\* of P2 and DELAY_TSn have no call, RULE_MIN_1's is refused, the unit of a rule
\* is shared, the rest are arguments of another key's call or wait for Go.
FileDecides ==
  phase = "downloaded" /\ loads > 0 =>
    \A k \in Keys :
      Says(k) > 0 /\ Before(k) =>
        /\ k \in Switches => board[k] = 1
        /\ k \in Numbers => board[k] = Says(k)
        /\ k \in Bounded \union Ignored /\ InBounds(tipMaster, k, Says(k)) => board[k] = Says(k)

\* The settings that are one key's, and the argument of one call.
Single == (Elements(Calls) \ {"BUSY"}) \union Elements(PrescaleTS)
            \union Elements(Rule) \union Elements(RuleMin)

\* A load changes a setting of Single only if its own key is above 0 in the
\* file and its call came before the one that ended the load, or was it
\* (param2ti's early returns): a refusal leaves all that comes after alone.
OnlyByItsKey ==
  [][loads' > loads =>
       \A k \in Single : board'[k] # board[k] =>
         Says(k)' > 0 /\ (Before(k)' \/ k = refused')]_vars

\* A master that a whole load made the master of a slave listens to the
\* slave's busy, whatever busy keys the file has (tipAddSlave after
\* tipSetBusySource).
ListensToSlave ==
  phase = "downloaded" /\ refused = "none" /\ Says("ENABLE_FIBER_1") > 0
    => board["ENABLE_FIBER_1"] = 1 /\ board["BUSY_SOURCE_FIBER1"] = 1

Pulsing == board["FIXED_NUMBER"] # 0 \/ board["RANDOM_ENABLE"] # 0 \/ board["RANDOM_ENABLE_2"] # 0

\* No pulser runs out of a run, unless a Reset cut one short: what
\* tipConfigEnablePulser starts tipConfigDisablePulser stops.
PulsersStop == phase # "active" /\ ~cut => ~Pulsing

\* cfg/master.ini:5: "any setting that is -1 / undefined, will use the
\* library default".  No file that leaves RANDOM_ENABLE undefined has the
\* random pulser on, which is off after tipInit.
UndefinedUsesDefault ==
  ir # NoFile /\ Says("RANDOM_ENABLE") = -1 /\ loads = 1 => board["RANDOM_ENABLE"] = 0

----------------------------------------------------------------------------
=============================================================================
