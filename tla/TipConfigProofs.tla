--------------------------- MODULE TipConfigProofs ---------------------------
(***************************************************************************)
(* Theorems about TipConfig: the files may be any functions from some of   *)
(* the keys to integers, there may be any number of them and of Downloads, *)
(* and the board may be a master, a slave, or either.                      *)
(*                                                                         *)
(* A load is three folds: the calls whose answers count, the inputs and    *)
(* the rules.  FoldExists, GeneralIs, InputsFold and RulesFold show that   *)
(* each is the chain of its steps, one after the other.  CallIs says of a  *)
(* step which settings are its Own, and what the board Holds of its key    *)
(* when it answers OK; what a step has made hold, the later ones leave     *)
(* (HoldsStays, HoldsOn).  Loaded is what that makes of a whole load.      *)
(***************************************************************************)
EXTENDS TipConfig, WellFoundedInduction, TLAPS

-----------------------------------------------------------------------------
(* The names *)

LEMMA CallsAre ==
  /\ Len(Calls) = 24 /\ DOMAIN Calls = 1..24
  /\ Calls[1] = "CRATE_ID" /\ Calls[2] = "BLOCK_LEVEL" /\ Calls[3] = "BLOCK_BUFFER_LEVEL"
  /\ Calls[4] = "INSTANT_BLOCKLEVEL_ENABLE" /\ Calls[5] = "BROADCAST_BUFFER_LEVEL_ENABLE"
  /\ Calls[6] = "BLOCK_LIMIT" /\ Calls[7] = "TRIGGER_SOURCE" /\ Calls[8] = "SYNC_SOURCE"
  /\ Calls[9] = "SYNC_RESET_TYPE" /\ Calls[10] = "BUSY" /\ Calls[11] = "CLOCK_SOURCE"
  /\ Calls[12] = "PRESCALE" /\ Calls[13] = "EVENT_FORMAT"
  /\ Calls[14] = "FP_INPUT_READOUT_ENABLE" /\ Calls[15] = "TRIGGER_WINDOW"
  /\ Calls[16] = "TRIGGER_INHIBIT_WINDOW" /\ Calls[17] = "TRIGGER_LATCH_ON_LEVEL_ENABLE"
  /\ Calls[18] = "TRIGGER_OUTPUT_DELAY" /\ Calls[19] = "PROMPT_TRIGGER_WIDTH"
  /\ Calls[20] = "SYNCRESET_DELAY" /\ Calls[21] = "SYNCEVENT_INTERVAL"
  /\ Calls[22] = "TRIGGER_TABLE" /\ Calls[23] = "FIXED_PULSER_EVENTTYPE"
  /\ Calls[24] = "ENABLE_FIBER_1"
  BY DEF Calls, Levels, Sources, Outputs

LEMMA NamesAre ==
  /\ Elements(Levels) = {"CRATE_ID", "BLOCK_LEVEL", "BLOCK_BUFFER_LEVEL",
       "INSTANT_BLOCKLEVEL_ENABLE", "BROADCAST_BUFFER_LEVEL_ENABLE", "BLOCK_LIMIT"}
  /\ Elements(Sources) = {"TRIGGER_SOURCE", "SYNC_SOURCE", "SYNC_RESET_TYPE", "BUSY",
       "CLOCK_SOURCE", "PRESCALE", "EVENT_FORMAT", "FP_INPUT_READOUT_ENABLE"}
  /\ Elements(Calls) = ReadoutCalls \union
       {"TRIGGER_WINDOW", "TRIGGER_INHIBIT_WINDOW", "TRIGGER_LATCH_ON_LEVEL_ENABLE",
        "TRIGGER_OUTPUT_DELAY", "PROMPT_TRIGGER_WIDTH", "SYNCRESET_DELAY",
        "SYNCEVENT_INTERVAL", "TRIGGER_TABLE", "FIXED_PULSER_EVENTTYPE", "ENABLE_FIBER_1"}
  /\ Elements(FrontBusy) = {"BUSY_SOURCE_SWA", "BUSY_SOURCE_SWB", "BUSY_SOURCE_P2",
       "BUSY_SOURCE_FP_TDC", "BUSY_SOURCE_FP_ADC", "BUSY_SOURCE_FP", "BUSY_SOURCE_LOOPBACK"}
  /\ Elements(FiberBusy) = {"BUSY_SOURCE_FIBER1", "BUSY_SOURCE_FIBER2", "BUSY_SOURCE_FIBER3",
       "BUSY_SOURCE_FIBER4", "BUSY_SOURCE_FIBER5", "BUSY_SOURCE_FIBER6",
       "BUSY_SOURCE_FIBER7", "BUSY_SOURCE_FIBER8"}
  /\ Elements(EnableTS) = {"ENABLE_TS1", "ENABLE_TS2", "ENABLE_TS3", "ENABLE_TS4",
       "ENABLE_TS5", "ENABLE_TS6"}
  /\ Elements(PrescaleTS) = {"PRESCALE_TS1", "PRESCALE_TS2", "PRESCALE_TS3", "PRESCALE_TS4",
       "PRESCALE_TS5", "PRESCALE_TS6"}
  /\ Elements(DelayTS) = {"DELAY_TS1", "DELAY_TS2", "DELAY_TS3", "DELAY_TS4", "DELAY_TS5",
       "DELAY_TS6"}
  /\ Elements(Rule) = {"RULE_1", "RULE_2", "RULE_3", "RULE_4"}
  /\ Elements(RuleStep) = {"RULE_TIMESTEP_1", "RULE_TIMESTEP_2", "RULE_TIMESTEP_3",
       "RULE_TIMESTEP_4"}
  /\ Elements(RuleMin) = {"RULE_MIN_1", "RULE_MIN_2", "RULE_MIN_3", "RULE_MIN_4"}
  <1>1. Elements(Levels) = {"CRATE_ID", "BLOCK_LEVEL", "BLOCK_BUFFER_LEVEL",
       "INSTANT_BLOCKLEVEL_ENABLE", "BROADCAST_BUFFER_LEVEL_ENABLE", "BLOCK_LIMIT"}
    BY DEF Elements, Levels
  <1>2. Elements(Sources) = {"TRIGGER_SOURCE", "SYNC_SOURCE", "SYNC_RESET_TYPE", "BUSY",
       "CLOCK_SOURCE", "PRESCALE", "EVENT_FORMAT", "FP_INPUT_READOUT_ENABLE"}
    BY DEF Elements, Sources
  <1>3. Elements(Outputs) =
       {"TRIGGER_WINDOW", "TRIGGER_INHIBIT_WINDOW", "TRIGGER_LATCH_ON_LEVEL_ENABLE",
        "TRIGGER_OUTPUT_DELAY", "PROMPT_TRIGGER_WIDTH", "SYNCRESET_DELAY",
        "SYNCEVENT_INTERVAL", "TRIGGER_TABLE", "FIXED_PULSER_EVENTTYPE", "ENABLE_FIBER_1"}
    BY DEF Elements, Outputs
  <1>4. Elements(Calls) = Elements(Levels) \union Elements(Sources) \union Elements(Outputs)
    <2>1. \A i \in 1..24 : Calls[i] = IF i \in 1..6 THEN Levels[i]
                                      ELSE IF i \in 7..14 THEN Sources[i - 6] ELSE Outputs[i - 14]
      BY DEF Calls, Levels, Sources, Outputs
    <2>2. /\ DOMAIN Calls = 1..24 /\ DOMAIN Levels = 1..6 /\ DOMAIN Sources = 1..8
          /\ DOMAIN Outputs = 1..10
      BY DEF Calls, Levels, Sources, Outputs
    <2>3. \A i \in 1..6 : Levels[i] = Calls[i] /\ i \in 1..24
      BY <2>1
    <2>4. \A i \in 1..8 : Sources[i] = Calls[i + 6] /\ i + 6 \in 1..24
      BY <2>1
    <2>5. \A i \in 1..10 : Outputs[i] = Calls[i + 14] /\ i + 14 \in 1..24
      BY <2>1
    <2>6. \A i \in 1..24 : \/ i \in 1..6 /\ Calls[i] = Levels[i]
                           \/ i - 6 \in 1..8 /\ Calls[i] = Sources[i - 6]
                           \/ i - 14 \in 1..10 /\ Calls[i] = Outputs[i - 14]
      BY <2>1
    <2>7. QED
      BY <2>2, <2>3, <2>4, <2>5, <2>6 DEF Elements
  <1>5. Elements(FrontBusy) = {"BUSY_SOURCE_SWA", "BUSY_SOURCE_SWB", "BUSY_SOURCE_P2",
       "BUSY_SOURCE_FP_TDC", "BUSY_SOURCE_FP_ADC", "BUSY_SOURCE_FP", "BUSY_SOURCE_LOOPBACK"}
    BY DEF Elements, FrontBusy
  <1>6. Elements(FiberBusy) = {"BUSY_SOURCE_FIBER1", "BUSY_SOURCE_FIBER2", "BUSY_SOURCE_FIBER3",
       "BUSY_SOURCE_FIBER4", "BUSY_SOURCE_FIBER5", "BUSY_SOURCE_FIBER6",
       "BUSY_SOURCE_FIBER7", "BUSY_SOURCE_FIBER8"}
    BY DEF Elements, FiberBusy
  <1>7. Elements(EnableTS) = {"ENABLE_TS1", "ENABLE_TS2", "ENABLE_TS3", "ENABLE_TS4",
       "ENABLE_TS5", "ENABLE_TS6"}
    BY DEF Elements, EnableTS
  <1>8. Elements(PrescaleTS) = {"PRESCALE_TS1", "PRESCALE_TS2", "PRESCALE_TS3", "PRESCALE_TS4",
       "PRESCALE_TS5", "PRESCALE_TS6"}
    BY DEF Elements, PrescaleTS
  <1>9. Elements(DelayTS) = {"DELAY_TS1", "DELAY_TS2", "DELAY_TS3", "DELAY_TS4", "DELAY_TS5",
       "DELAY_TS6"}
    BY DEF Elements, DelayTS
  <1>10. Elements(Rule) = {"RULE_1", "RULE_2", "RULE_3", "RULE_4"}
    BY DEF Elements, Rule
  <1>11. Elements(RuleStep) = {"RULE_TIMESTEP_1", "RULE_TIMESTEP_2", "RULE_TIMESTEP_3",
       "RULE_TIMESTEP_4"}
    BY DEF Elements, RuleStep
  <1>12. Elements(RuleMin) = {"RULE_MIN_1", "RULE_MIN_2", "RULE_MIN_3", "RULE_MIN_4"}
    BY DEF Elements, RuleMin
  <1>13. QED
    BY <1>1, <1>2, <1>3, <1>4, <1>5, <1>6, <1>7, <1>8, <1>9, <1>10, <1>11, <1>12
       DEF ReadoutCalls

-----------------------------------------------------------------------------
(* Folds *)

LEMMA UpTo ==
  ASSUME NEW n \in Nat, NEW Q, 0 \in Q, \A i \in 1..n : i - 1 \in Q => i \in Q
  PROVE  \A i \in 0..n : i \in Q
  <1> DEFINE R == OpToRel(<, Nat)
             T == {i \in 0..n : i \notin Q}
  <1>1. SUFFICES ASSUME T # {} PROVE FALSE
    OBVIOUS
  <1>2. PICK x \in T : \A y \in T : <<y, x>> \notin R
    <2>1. IsWellFoundedOn(R, Nat)
      BY NatLessThanWellFounded
    <2>2. T \subseteq Nat
      OBVIOUS
    <2> HIDE DEF R, T
    <2>3. QED
      BY <1>1, <2>1, <2>2, WFMin
  <1>3. x \in 1..n /\ x - 1 \in 0..n
    OBVIOUS
  <1>4. <<x - 1, x>> \in R
    BY <1>3 DEF OpToRel
  <1>5. x - 1 \in Q
    BY <1>2, <1>3, <1>4
  <1>6. QED
    BY <1>3, <1>5

LEMMA Greatest ==
  ASSUME NEW m \in Nat, NEW s \in SUBSET (1..m), m \in s
  PROVE  Max(s) = m
  <1> DEFINE P(x) == x \in s /\ \A y \in s : x >= y
  <1>1. P(m)
    OBVIOUS
  <1>2. \A x : P(x) => x = m
    OBVIOUS
  <1>3. Max(s) = CHOOSE x : P(x)
    BY DEF Max
  <1> HIDE DEF P
  <1>4. QED
    BY <1>1, <1>2, <1>3

\* g is what a fold of step over 1..n is computed by.
Folding(g, n, V, base, step) ==
  /\ g \in [SUBSET (1..n) -> V]
  /\ g[{}] = base
  /\ \A s \in SUBSET (1..n) : s # {} => /\ Max(s) \in 1..n
                                        /\ g[s] = step[<<Max(s), g[s \ {Max(s)}]>>]

LEMMA FoldExists ==
  ASSUME NEW n \in Nat, NEW V, NEW base \in V, NEW step \in [(1..n) \X V -> V]
  PROVE  \E g : Folding(g, n, V, base, step)
  <1> DEFINE Q == {m \in 0..n : \E g : Folding(g, m, V, base, step)}
  <1>1. 0 \in Q
    <2> DEFINE g == [s \in SUBSET (1..0) |-> base]
    <2>1. SUBSET (1..0) = {{}}
      OBVIOUS
    <2>2. Folding(g, 0, V, base, step)
      BY <2>1 DEF Folding
    <2> HIDE DEF g
    <2>3. QED
      BY <2>2
  <1>2. ASSUME NEW m \in 1..n, m - 1 \in Q PROVE m \in Q
    <2>1. PICK g : Folding(g, m - 1, V, base, step)
      BY <1>2
    <2> DEFINE h == [s \in SUBSET (1..m) |->
                       IF m \in s THEN step[<<m, g[s \ {m}]>>] ELSE g[s]]
    <2>2. \A s \in SUBSET (1..m) : /\ m \in s => s \ {m} \in SUBSET (1..(m - 1))
                                   /\ m \notin s => s \in SUBSET (1..(m - 1))
      OBVIOUS
    <2>3. h \in [SUBSET (1..m) -> V]
      <3>1. g \in [SUBSET (1..(m - 1)) -> V]
        BY <2>1 DEF Folding
      <3>2. ASSUME NEW s \in SUBSET (1..m)
            PROVE  (IF m \in s THEN step[<<m, g[s \ {m}]>>] ELSE g[s]) \in V
        BY <2>2, <3>1, <3>2
      <3>3. QED
        BY <3>2
    <2>4. h[{}] = base
      <3>1. {} \in SUBSET (1..m) /\ m \notin {}
        OBVIOUS
      <3>2. g[{}] = base
        BY <2>1 DEF Folding
      <3>3. QED
        BY <3>1, <3>2
    <2>5. ASSUME NEW s \in SUBSET (1..m), s # {}
          PROVE  Max(s) \in 1..n /\ h[s] = step[<<Max(s), h[s \ {Max(s)}]>>] /\ Max(s) \in 1..m
      <3>1. CASE m \in s
        <4>1. Max(s) = m
          BY <3>1, Greatest
        <4>2. s \ {m} \in SUBSET (1..m) /\ m \notin s \ {m}
          OBVIOUS
        <4>3. h[s \ {m}] = g[s \ {m}]
          BY <4>2
        <4>4. h[s] = step[<<m, g[s \ {m}]>>]
          BY <3>1
        <4> HIDE DEF h
        <4>5. QED
          BY <4>1, <4>3, <4>4
      <3>2. CASE m \notin s
        <4>1. s \in SUBSET (1..(m - 1))
          BY <2>2, <3>2
        <4>2. Max(s) \in 1..(m - 1) /\ g[s] = step[<<Max(s), g[s \ {Max(s)}]>>]
          BY <2>1, <2>5, <4>1 DEF Folding
        <4>3. h[s] = g[s]
          BY <3>2
        <4>4. h[s \ {Max(s)}] = g[s \ {Max(s)}]
          BY <3>2, <4>1
        <4> HIDE DEF h
        <4>5. QED
          BY <4>2, <4>3, <4>4
      <3>3. QED
        BY <3>1, <3>2
    <2> HIDE DEF h
    <2>6. Folding(h, m, V, base, step)
      BY <2>3, <2>4, <2>5 DEF Folding
    <2>7. QED
      BY <2>6
  <1>3. \A i \in 0..n : i \in Q
    <2> HIDE DEF Q
    <2>1. QED
      BY <1>1, <1>2, UpTo
  <1>4. QED
    BY <1>3

-----------------------------------------------------------------------------
(* Boards and calls *)

Small   == {"CRATE_ID", "BLOCK_LEVEL", "BLOCK_BUFFER_LEVEL", "TRIGGER_OUTPUT_WIDTH"}
Delays  == {"TRIGGER_OUTPUT_DELAY", "SYNCRESET_DELAY", "SYNCRESET_WIDTH"} \union Elements(Rule)
Scales  == Elements(PrescaleTS) \union {"RANDOM_PRESCALE"}
OneBits == BusyKeys \union Elements(EnableTS) \union Elements(RuleStep)

Fits(s, x) ==
  /\ x \in Int
  /\ s \in OneBits => x \in {0, 1}
  /\ s \in Small => x \in Bytes
  /\ s \in Delays => x \in 0..127
  /\ s \in Scales => x \in 0..15

Boards == {b \in [Settings -> Int] : \A s \in Settings : Fits(s, b[s])}
Values == [Keys -> Int]

\* The keys of a call, and what a call may change.
Own(k) ==
  CASE k = "BUSY" -> BusyKeys
    [] k = "ENABLE_FIBER_1" -> {"ENABLE_FIBER_1", "BUSY_SOURCE_FIBER1"}
    [] k = "TRIGGER_OUTPUT_DELAY" ->
         {k, "TRIGGER_OUTPUT_WIDTH", "TRIGGER_OUTPUT_DELAYSTEP", "TRIGGER_2_PULSE"}
    [] k = "SYNCRESET_DELAY" -> {k, "SYNCRESET_WIDTH", "SYNCRESET_WIDTHSTEP"}
    [] k = "FIXED_PULSER_EVENTTYPE" -> {k, "RANDOM_PULSER_EVENTTYPE"}
    [] OTHER -> {k}

\* The settings no key of the configuration has a bound for.
Wide == {"INSTANT_BLOCKLEVEL_ENABLE", "BROADCAST_BUFFER_LEVEL_ENABLE", "BLOCK_LIMIT",
  "TRIGGER_SOURCE", "SYNC_SOURCE", "SYNC_RESET_TYPE", "CLOCK_SOURCE", "PRESCALE",
  "EVENT_FORMAT", "FP_INPUT_READOUT_ENABLE", "TRIGGER_WINDOW", "TRIGGER_INHIBIT_WINDOW",
  "TRIGGER_LATCH_ON_LEVEL_ENABLE", "PROMPT_TRIGGER_WIDTH", "SYNCEVENT_INTERVAL",
  "TRIGGER_TABLE", "FIXED_PULSER_EVENTTYPE", "ENABLE_FIBER_1", "TRIGGER_OUTPUT_DELAYSTEP",
  "TRIGGER_2_PULSE", "SYNCRESET_WIDTHSTEP", "RANDOM_PULSER_EVENTTYPE",
  "SLOWER_TRIGGER_RULES", "FIXED_NUMBER", "FIXED_PERIOD", "FIXED_RANGE", "RANDOM_ENABLE",
  "RANDOM_ENABLE_2"} \union Elements(DelayTS) \union Elements(RuleMin)

LEMMA SettingsAre ==
  /\ Settings = OneBits \union Small \union Delays \union Scales \union Wide
  /\ Keys \subseteq Settings \union {"FIXED_ENABLE"}
  /\ Elements(Calls) \ {"BUSY"} \subseteq Keys
  /\ BusyKeys \union Elements(EnableTS) \union Elements(PrescaleTS) \union Elements(DelayTS)
       \union Elements(Rule) \union Elements(RuleStep) \union Elements(RuleMin)
       \union Arguments \union PulserKeys \subseteq Keys
  BY NamesAre DEF Settings, Keys, BusyKeys, ReadoutCalls, Arguments, InputKeys, RuleKeys,
     PulserKeys, Small, Delays, Scales, OneBits, Wide

LEMMA ClassesAre ==
  /\ OneBits \intersect Small = {} /\ OneBits \intersect Delays = {}
  /\ OneBits \intersect Scales = {} /\ OneBits \intersect Wide = {}
  /\ Small \intersect Delays = {} /\ Small \intersect Scales = {}
  /\ Small \intersect Wide = {} /\ Delays \intersect Scales = {}
  /\ Delays \intersect Wide = {} /\ Scales \intersect Wide = {}
  BY NamesAre DEF BusyKeys, Small, Delays, Scales, OneBits, Wide

LEMMA FitsAre ==
  ASSUME NEW s, NEW x \in Int
  PROVE  /\ s \in Wide => Fits(s, x)
         /\ s \in OneBits => (Fits(s, x) <=> x \in {0, 1})
         /\ s \in Small => (Fits(s, x) <=> x \in Bytes)
         /\ s \in Delays => (Fits(s, x) <=> x \in 0..127)
         /\ s \in Scales => (Fits(s, x) <=> x \in 0..15)
  BY ClassesAre DEF Fits

LEMMA BoardIs ==
  ASSUME NEW b \in Boards
  PROVE  b \in [Settings -> Int] /\ DOMAIN b = Settings /\ \A s \in Settings : Fits(s, b[s])
  BY DEF Boards

LEMMA SetOne ==
  ASSUME NEW b \in Boards, NEW s \in Settings, NEW x \in Int, Fits(s, x)
  PROVE  LET c == [b EXCEPT ![s] = x]
         IN  c \in Boards /\ c[s] = x /\ \A t \in Settings : t # s => c[t] = b[t]
  <1> DEFINE c == [b EXCEPT ![s] = x]
  <1>1. c \in [Settings -> Int] /\ c[s] = x /\ \A t \in Settings : t # s => c[t] = b[t]
    BY BoardIs
  <1>2. \A t \in Settings : Fits(t, c[t])
    <2> HIDE DEF c
    <2>1. QED
      BY <1>1, BoardIs
  <1> HIDE DEF c
  <1>3. c \in Boards
    BY <1>1, <1>2 DEF Boards
  <1>4. QED
    BY <1>1, <1>3 DEF c

\* What an answer to a call on b is, that may change the settings M only.
Answers(a, b, M) ==
  /\ a.ok \in BOOLEAN /\ a.board \in Boards
  /\ \A t \in Settings : t \notin M => a.board[t] = b[t]

LEMMA NoChange ==
  ASSUME NEW b \in Boards, NEW M
  PROVE  Answers(Done(b), b, M) /\ Answers(Refused(b), b, M) /\ ~Refused(b).ok /\ Done(b).ok
         /\ Done(b).board = b /\ Refused(b).board = b
  BY DEF Answers, Done, Refused

LEMMA DoneWith ==
  ASSUME NEW b \in Boards, NEW s \in Settings, NEW x \in Int, Fits(s, x)
  PROVE  LET a == Done([b EXCEPT ![s] = x])
         IN  Answers(a, b, {s}) /\ a.ok /\ a.board[s] = x
  <1> DEFINE c == [b EXCEPT ![s] = x]
  <1>1. c \in Boards /\ c[s] = x /\ \A t \in Settings : t # s => c[t] = b[t]
    BY SetOne
  <1> HIDE DEF c
  <1>2. Answers(Done(c), b, {s}) /\ Done(c).ok /\ Done(c).board[s] = x
    BY <1>1 DEF Answers, Done
  <1>3. QED
    BY <1>2 DEF c

LEMMA PutIs ==
  ASSUME NEW b \in Boards, NEW s \in Settings, NEW x \in Int, NEW legal,
         x \in legal => Fits(s, x)
  PROVE  LET a == Put(b, s, x, legal)
         IN  Answers(a, b, {s}) /\ (a.ok => a.board[s] = x) /\ (a.ok <=> x \in legal)
  <1>1. CASE x \in legal
    BY <1>1, DoneWith DEF Put
  <1>2. CASE x \notin legal
    BY <1>2, NoChange DEF Put
  <1>3. QED
    BY <1>1, <1>2

LEMMA SwitchIs ==
  ASSUME NEW b \in Boards, NEW s \in Wide, NEW x \in Int
  PROVE  LET a == Switch(b, s, x)
         IN  Answers(a, b, {s}) /\ a.ok /\ a.board[s] = Bit(x # 0)
  <1>1. s \in Settings /\ Bit(x # 0) \in Int /\ Fits(s, Bit(x # 0))
    BY SettingsAre, FitsAre DEF Bit
  <1>2. QED
    BY <1>1, DoneWith DEF Switch

-----------------------------------------------------------------------------
(* The calls of the general section and of the slave's *)

\* Whether a file of values v has the call k made.
Active(k, v) ==
  IF k = "BUSY" THEN Asked(v, BusyKeys \ {"BUSY_SOURCE_P2"}) # {} ELSE v[k] > 0

\* b has what v says of the key, or of the keys, of the call k.
Holds(b, k, v, m) ==
  /\ k = "BUSY" => \A s \in BusyKeys \ {"BUSY_SOURCE_P2"} : v[s] > 0 => b[s] = 1
  /\ k # "BUSY" =>
       (v[k] > 0 => /\ k \in Switches => b[k] = 1
                    /\ k \in Numbers => b[k] = v[k]
                    /\ k \in Bounded /\ InBounds(m, k, v[k]) => b[k] = v[k]
                    /\ k = "ENABLE_FIBER_1" => b[k] = 1 /\ b["BUSY_SOURCE_FIBER1"] = 1)

LEMMA PlainKeys ==
  /\ Switches \intersect Elements(Calls) = {"INSTANT_BLOCKLEVEL_ENABLE",
       "BROADCAST_BUFFER_LEVEL_ENABLE", "SYNC_RESET_TYPE", "FP_INPUT_READOUT_ENABLE"}
  /\ Numbers \subseteq Elements(Calls) /\ Numbers \intersect Switches = {}
  BY NamesAre DEF Switches, Numbers, BusyKeys, ReadoutCalls

LEMMA BoundedKeys ==
  /\ Bounded \subseteq Elements(Calls)
  /\ Bounded \intersect (Numbers \union Switches \union BusyKeys) = {}
  /\ "BUSY" \notin Bounded
  BY NamesAre DEF Bounded, Switches, Numbers, BusyKeys, ReadoutCalls

LEMMA BusyIs ==
  ASSUME NEW b \in Boards, NEW mask, NEW reset \in BOOLEAN
  PROVE  LET a == tipSetBusySource(b, mask, reset)
         IN  /\ Answers(a, b, BusyKeys) /\ a.ok
             /\ \A s \in BusyKeys : a.board[s] = IF s \in mask \/ (~reset /\ b[s] = 1) THEN 1 ELSE 0
  <1> DEFINE c == [k \in DOMAIN b |->
                    IF k \in BusyKeys THEN Bit(k \in mask \/ (~reset /\ b[k] = 1)) ELSE b[k]]
  <1>1. BusyKeys \subseteq Settings /\ BusyKeys \subseteq OneBits
    BY SettingsAre DEF OneBits
  <1>2. \A k \in Settings : c[k] \in Int /\ Fits(k, c[k])
    <2> SUFFICES ASSUME NEW k \in Settings PROVE c[k] \in Int /\ Fits(k, c[k])
      OBVIOUS
    <2>1. CASE k \in BusyKeys
      <3>1. c[k] \in {0, 1}
        BY <1>1, <2>1, BoardIs DEF Bit
      <3> HIDE DEF c
      <3>2. QED
        BY <1>1, <2>1, <3>1, FitsAre
    <2>2. CASE k \notin BusyKeys
      BY <2>2, BoardIs
    <2>3. QED
      BY <2>1, <2>2
  <1>3. DOMAIN c = Settings
    BY BoardIs
  <1>4. c \in Boards
    <2>1. c \in [Settings -> Int]
      BY <1>2, BoardIs
    <2> HIDE DEF c
    <2>2. QED
      BY <1>2, <2>1 DEF Boards
  <1>5. \A s \in Settings : s \notin BusyKeys => c[s] = b[s]
    BY BoardIs
  <1>6. \A s \in BusyKeys : c[s] = IF s \in mask \/ (~reset /\ b[s] = 1) THEN 1 ELSE 0
    BY <1>1, BoardIs DEF Bit
  <1>7. tipSetBusySource(b, mask, reset) = Done(c)
    BY DEF tipSetBusySource
  <1> HIDE DEF c
  <1>8. QED
    BY <1>4, <1>5, <1>6, <1>7 DEF Answers, Done

LEMMA OwnIs ==
  /\ Own("BUSY") = BusyKeys
  /\ Own("ENABLE_FIBER_1") = {"ENABLE_FIBER_1", "BUSY_SOURCE_FIBER1"}
  /\ Own("TRIGGER_OUTPUT_DELAY") = {"TRIGGER_OUTPUT_DELAY", "TRIGGER_OUTPUT_WIDTH",
       "TRIGGER_OUTPUT_DELAYSTEP", "TRIGGER_2_PULSE"}
  /\ Own("SYNCRESET_DELAY") = {"SYNCRESET_DELAY", "SYNCRESET_WIDTH", "SYNCRESET_WIDTHSTEP"}
  /\ Own("FIXED_PULSER_EVENTTYPE") = {"FIXED_PULSER_EVENTTYPE", "RANDOM_PULSER_EVENTTYPE"}
  /\ \A k : k \notin {"BUSY", "ENABLE_FIBER_1", "TRIGGER_OUTPUT_DELAY", "SYNCRESET_DELAY",
                      "FIXED_PULSER_EVENTTYPE"} => Own(k) = {k}
  BY DEF Own

\* What is shown of each call, when it is made.
Made(a, k, b, v) ==
  /\ Answers(a, b, Own(k))
  /\ a.ok => Holds(a.board, k, v, tipMaster)

LEMMA AddSlaveIs ==
  ASSUME NEW b \in Boards, NEW v \in Values, NEW master \in BOOLEAN
  PROVE  LET a == tipAddSlave(b, master, 1)
         IN  /\ Made(a, "ENABLE_FIBER_1", b, v)
             /\ \A s \in BusyKeys : b[s] = 1 => a.board[s] = 1
  <1> DEFINE k == "ENABLE_FIBER_1"
             c == [b EXCEPT ![k] = 1]
             a == tipSetBusySource(c, {FiberBusy[1]}, FALSE)
  <1>1. CASE ~master
    BY <1>1, NoChange DEF tipAddSlave, Made
  <1>2. CASE master
    <2>1. /\ c \in Boards /\ c[k] = 1 /\ \A t \in Settings : t # k => c[t] = b[t]
          /\ k \in Settings /\ k \notin BusyKeys
      BY SetOne, SettingsAre, ClassesAre, FitsAre DEF OneBits, Wide
    <2> HIDE DEF c
    <2>2. /\ Answers(a, c, BusyKeys) /\ a.ok
          /\ \A s \in BusyKeys : a.board[s] = IF s = FiberBusy[1] \/ c[s] = 1 THEN 1 ELSE 0
      <3> DEFINE m == {FiberBusy[1]}
                 P(r) == LET d == tipSetBusySource(c, m, r)
                         IN  /\ Answers(d, c, BusyKeys) /\ d.ok
                             /\ \A s \in BusyKeys :
                                  d.board[s] = IF s \in m \/ (~r /\ c[s] = 1) THEN 1 ELSE 0
      <3>1. \A r \in BOOLEAN : P(r)
        <4> HIDE DEF m
        <4>1. QED
          BY <2>1, BusyIs
      <3>2. P(FALSE)
        <4> HIDE DEF P
        <4>1. QED
          BY <3>1, Zenon
      <3>3. QED
        BY <3>2
    <2>3. FiberBusy[1] = "BUSY_SOURCE_FIBER1" /\ FiberBusy[1] \in BusyKeys
      BY NamesAre DEF FiberBusy, BusyKeys
    <2>4. tipAddSlave(b, master, 1) = a
      BY <1>2 DEF tipAddSlave, c
    <2> HIDE DEF a
    <2>5. BusyKeys \subseteq Settings /\ BusyKeys \subseteq OneBits
      BY SettingsAre DEF OneBits
    <2>6. \A s \in BusyKeys : c[s] = b[s] /\ b[s] \in {0, 1}
      BY <2>1, <2>5, BoardIs, FitsAre
    <2>7. \A s \in BusyKeys : a.board[s] = IF s = FiberBusy[1] THEN 1 ELSE b[s]
      BY <2>2, <2>6
    <2>8. Answers(a, b, Own(k))
      <3> SUFFICES ASSUME NEW s \in Settings, s \notin Own(k) PROVE a.board[s] = b[s]
        BY <2>2 DEF Answers
      <3>1. s # k /\ s # FiberBusy[1]
        BY <2>3, OwnIs
      <3>2. CASE s \in BusyKeys
        BY <2>7, <3>1, <3>2
      <3>3. CASE s \notin BusyKeys
        BY <2>1, <2>2, <3>1, <3>3 DEF Answers
      <3>4. QED
        BY <3>2, <3>3
    <2>9. a.board[k] = 1 /\ a.board["BUSY_SOURCE_FIBER1"] = 1
      BY <2>1, <2>2, <2>3, <2>7 DEF Answers
    <2>10. k \notin Numbers /\ k \notin Bounded
      BY DEF Numbers, Bounded
    <2>11. Holds(a.board, k, v, tipMaster)
      BY <2>9, <2>10 DEF Holds
    <2>12. \A s \in BusyKeys : b[s] = 1 => a.board[s] = 1
      BY <2>7
    <2>13. QED
      BY <2>4, <2>8, <2>11, <2>12 DEF Made
  <1>3. QED
    BY <1>1, <1>2

LEMMA PutMade ==
  ASSUME NEW b \in Boards, NEW v \in Values, NEW k \in Keys \intersect Settings, NEW legal,
         v[k] \in legal => Fits(k, v[k]), Own(k) = {k}, k \notin Switches,
         k \notin {"BUSY", "ENABLE_FIBER_1"}
  PROVE  Made(Put(b, k, v[k], legal), k, b, v)
  <1> DEFINE a == Put(b, k, v[k], legal)
  <1>1. v[k] \in Int
    BY DEF Values
  <1>2. Answers(a, b, {k}) /\ (a.ok => a.board[k] = v[k])
    BY <1>1, PutIs
  <1> HIDE DEF a
  <1>3. Made(a, k, b, v)
    BY <1>2 DEF Made, Holds
  <1>4. QED
    BY <1>3 DEF a

LEMMA SwitchMade ==
  ASSUME NEW b \in Boards, NEW v \in Values, NEW k \in Keys \intersect Wide,
         Own(k) = {k}, k \notin Numbers \union Bounded, k \notin {"BUSY", "ENABLE_FIBER_1"}
  PROVE  Made(Switch(b, k, v[k]), k, b, v)
  <1> DEFINE a == Switch(b, k, v[k])
  <1>1. v[k] \in Int
    BY DEF Values
  <1>2. Answers(a, b, {k}) /\ a.board[k] = Bit(v[k] # 0)
    BY <1>1, SwitchIs
  <1> HIDE DEF a
  <1>3. v[k] > 0 => a.board[k] = 1
    BY <1>1, <1>2 DEF Bit
  <1>4. Made(a, k, b, v)
    BY <1>2, <1>3 DEF Made, Holds
  <1>5. QED
    BY <1>4 DEF a

LEMMA OtherMade ==
  ASSUME NEW b \in Boards, NEW v, NEW k \in Wide, NEW x \in Int,
         Own(k) = {k}, k \notin Switches, k \notin Numbers, k \notin {"BUSY", "ENABLE_FIBER_1"},
         InBounds(tipMaster, k, v[k]) => x = v[k]
  PROVE  Made(Done([b EXCEPT ![k] = x]), k, b, v)
  <1> DEFINE a == Done([b EXCEPT ![k] = x])
  <1>1. Answers(a, b, {k}) /\ a.board[k] = x
    <2>1. k \in Settings /\ Fits(k, x)
      BY SettingsAre, FitsAre
    <2>2. QED
      BY <2>1, DoneWith
  <1> HIDE DEF a
  <1>2. Made(a, k, b, v)
    BY <1>1 DEF Made, Holds
  <1>3. QED
    BY <1>2 DEF a

LEMMA ReadoutCallIs ==
  ASSUME NEW b, NEW v, NEW sticks
  PROVE  /\ ReadoutCall("CRATE_ID", b, v, sticks) =
            tipSetCrateID(b, v["CRATE_ID"])
         /\ ReadoutCall("BLOCK_LEVEL", b, v, sticks) =
            tipSetBlockLevel(b, tipMaster, v["BLOCK_LEVEL"])
         /\ ReadoutCall("BLOCK_BUFFER_LEVEL", b, v, sticks) =
            tipSetBlockBufferLevel(b, v["BLOCK_BUFFER_LEVEL"])
         /\ ReadoutCall("INSTANT_BLOCKLEVEL_ENABLE", b, v, sticks) =
            tipSetInstantBlockLevelChange(b, v["INSTANT_BLOCKLEVEL_ENABLE"])
         /\ ReadoutCall("BROADCAST_BUFFER_LEVEL_ENABLE", b, v, sticks) =
            tipUseBroadcastBufferLevel(b, v["BROADCAST_BUFFER_LEVEL_ENABLE"])
         /\ ReadoutCall("BLOCK_LIMIT", b, v, sticks) =
            tipSetBlockLimit(b, v["BLOCK_LIMIT"])
         /\ ReadoutCall("TRIGGER_SOURCE", b, v, sticks) =
            tipSetTriggerSource(b, tipMaster, v["TRIGGER_SOURCE"])
         /\ ReadoutCall("SYNC_SOURCE", b, v, sticks) =
            tipSetSyncSource(b, v["SYNC_SOURCE"])
         /\ ReadoutCall("SYNC_RESET_TYPE", b, v, sticks) =
            tipSetSyncResetType(b, v["SYNC_RESET_TYPE"])
         /\ ReadoutCall("CLOCK_SOURCE", b, v, sticks) =
            tipSetClockSource(b, v["CLOCK_SOURCE"], sticks)
         /\ ReadoutCall("PRESCALE", b, v, sticks) =
            tipSetPrescale(b, v["PRESCALE"])
         /\ ReadoutCall("EVENT_FORMAT", b, v, sticks) =
            tipSetEventFormat(b, v["EVENT_FORMAT"])
         /\ ReadoutCall("FP_INPUT_READOUT_ENABLE", b, v, sticks) =
            tipSetFPInputReadout(b, v["FP_INPUT_READOUT_ENABLE"])
  BY DEF ReadoutCall

LEMMA OutputCallIs ==
  ASSUME NEW b, NEW v
  PROVE  /\ OutputCall("TRIGGER_WINDOW", b, v) =
            tipSetTriggerWindow(b, v["TRIGGER_WINDOW"])
         /\ OutputCall("TRIGGER_INHIBIT_WINDOW", b, v) =
            tipSetTriggerInhibitWindow(b, v["TRIGGER_INHIBIT_WINDOW"])
         /\ OutputCall("TRIGGER_LATCH_ON_LEVEL_ENABLE", b, v) =
            tipSetTriggerLatchOnLevel(b, v["TRIGGER_LATCH_ON_LEVEL_ENABLE"])
         /\ OutputCall("TRIGGER_OUTPUT_DELAY", b, v) =
            tipSetTriggerPulse(b, v["TRIGGER_OUTPUT_DELAY"], v["TRIGGER_OUTPUT_WIDTH"],
            v["TRIGGER_OUTPUT_DELAYSTEP"])
         /\ OutputCall("PROMPT_TRIGGER_WIDTH", b, v) =
            tipSetPromptTriggerWidth(b, v["PROMPT_TRIGGER_WIDTH"])
         /\ OutputCall("SYNCRESET_DELAY", b, v) =
            Done(tipSetSyncDelayWidth(b, v["SYNCRESET_DELAY"], v["SYNCRESET_WIDTH"],
            v["SYNCRESET_WIDTHSTEP"]))
         /\ OutputCall("SYNCEVENT_INTERVAL", b, v) =
            tipSetSyncEventInterval(b, tipMaster, v["SYNCEVENT_INTERVAL"])
         /\ OutputCall("TRIGGER_TABLE", b, v) =
            tipTriggerTablePredefinedConfig(b, v["TRIGGER_TABLE"])
         /\ OutputCall("FIXED_PULSER_EVENTTYPE", b, v) =
            tipDefinePulserEventType(b, v["FIXED_PULSER_EVENTTYPE"], v["RANDOM_PULSER_EVENTTYPE"])
         /\ OutputCall("ENABLE_FIBER_1", b, v) =
            tipAddSlave(b, tipMaster, 1)
  BY DEF OutputCall

LEMMA PulseMade ==
  ASSUME NEW b \in Boards, NEW v \in Values
  PROVE  Made(tipSetTriggerPulse(b, v["TRIGGER_OUTPUT_DELAY"], v["TRIGGER_OUTPUT_WIDTH"],
                                 v["TRIGGER_OUTPUT_DELAYSTEP"]),
              "TRIGGER_OUTPUT_DELAY", b, v)
  <1> DEFINE k == "TRIGGER_OUTPUT_DELAY"
             w == v["TRIGGER_OUTPUT_WIDTH"]
             t == v["TRIGGER_OUTPUT_DELAYSTEP"]
             b1 == [b EXCEPT ![k] = v[k]]
             b2 == [b1 EXCEPT !["TRIGGER_OUTPUT_WIDTH"] = w % 256]
             b3 == [b2 EXCEPT !["TRIGGER_OUTPUT_DELAYSTEP"] = Bit(t # 0)]
             b4 == [b3 EXCEPT !["TRIGGER_2_PULSE"] = IF w \in 0..255 THEN b["TRIGGER_2_PULSE"] ELSE -1]
             a == tipSetTriggerPulse(b, v[k], w, t)
  <1>1. /\ {k, "TRIGGER_OUTPUT_WIDTH", "TRIGGER_OUTPUT_DELAYSTEP"} \subseteq Keys
        /\ {k, "TRIGGER_OUTPUT_WIDTH", "TRIGGER_OUTPUT_DELAYSTEP", "TRIGGER_2_PULSE"} \subseteq Settings
        /\ k \in Delays /\ "TRIGGER_OUTPUT_WIDTH" \in Small
        /\ {"TRIGGER_OUTPUT_DELAYSTEP", "TRIGGER_2_PULSE"} \subseteq Wide
    BY NamesAre, SettingsAre DEF ReadoutCalls, Arguments, Delays, Small, Wide
  <1>2. v[k] \in Int /\ w \in Int /\ t \in Int
    BY <1>1 DEF Values
  <1>3. Made(Refused(b), k, b, v)
    BY NoChange DEF Made
  <1>4. CASE v[k] \in 0..127
    <2>1. a = Done(b4)
      BY <1>4, SMT DEF tipSetTriggerPulse
    <2> DEFINE ww == w % 256
               tt == Bit(t # 0)
    <2>2. ww \in 0..255 /\ tt \in Int
      BY <1>2 DEF Bit
    <2> HIDE DEF w, t, a
    <2>3. Fits(k, v[k]) /\ Fits("TRIGGER_OUTPUT_WIDTH", ww) /\ Fits("TRIGGER_OUTPUT_DELAYSTEP", tt)
      <3> HIDE DEF ww, tt
      <3>1. QED
        BY <1>1, <1>2, <1>4, <2>2, FitsAre DEF Bytes
    <2>4. b1 \in Boards /\ b1[k] = v[k] /\ \A s \in Settings : s # k => b1[s] = b[s]
      BY <1>1, <1>2, <2>3, SetOne
    <2> HIDE DEF b1, ww, tt
    <2>5. b2 \in Boards /\ \A s \in Settings : s # "TRIGGER_OUTPUT_WIDTH" => b2[s] = b1[s]
      BY <1>1, <2>2, <2>3, <2>4, SetOne DEF ww
    <2> HIDE DEF b2
    <2>6. b3 \in Boards /\ \A s \in Settings : s # "TRIGGER_OUTPUT_DELAYSTEP" => b3[s] = b2[s]
      BY <1>1, <2>2, <2>3, <2>5, SetOne DEF tt
    <2> HIDE DEF b3
    <2> DEFINE x == IF w \in 0..255 THEN b["TRIGGER_2_PULSE"] ELSE -1
    <2>7. x \in Int /\ Fits("TRIGGER_2_PULSE", x)
      <3>1. x \in Int
        BY <1>1, BoardIs
      <3> HIDE DEF x
      <3>2. QED
        BY <1>1, <3>1, FitsAre
    <2>8. b4 = [b3 EXCEPT !["TRIGGER_2_PULSE"] = x]
      OBVIOUS
    <2> HIDE DEF x, b4
    <2>9. b4 \in Boards /\ \A s \in Settings : s # "TRIGGER_2_PULSE" => b4[s] = b3[s]
      <3> DEFINE s2 == "TRIGGER_2_PULSE"
      <3>1. s2 \in Settings
        BY <1>1
      <3> HIDE DEF s2
      <3>2. /\ [b3 EXCEPT ![s2] = x] \in Boards
            /\ \A s \in Settings : s # s2 => [b3 EXCEPT ![s2] = x][s] = b3[s]
        BY <2>6, <2>7, <3>1, SetOne DEF s2
      <3>3. QED
        BY <2>8, <3>2 DEF s2
    <2>10. b4[k] = v[k] /\ \A s \in Settings : s \notin Own(k) => b4[s] = b[s]
      BY <1>1, <2>4, <2>5, <2>6, <2>9, OwnIs
    <2>11. a.ok /\ a.ok \in BOOLEAN /\ a.board = b4
      BY <2>1 DEF Done
    <2>12. k \notin Switches
      BY PlainKeys, NamesAre DEF Switches, BusyKeys
    <2>13. Made(a, k, b, v)
      BY <2>9, <2>10, <2>11, <2>12 DEF Made, Answers, Holds
    <2>14. QED
      BY <2>13 DEF a, w, t
  <1>5. CASE v[k] \notin 0..127
    <2>1. a = Refused(b)
      BY <1>5, SMT DEF tipSetTriggerPulse
    <2>2. QED
      BY <1>3, <2>1
  <1>6. QED
    BY <1>4, <1>5

LEMMA SyncDelayMade ==
  ASSUME NEW b \in Boards, NEW v \in Values
  PROVE  Made(Done(tipSetSyncDelayWidth(b, v["SYNCRESET_DELAY"], v["SYNCRESET_WIDTH"],
                                        v["SYNCRESET_WIDTHSTEP"])),
              "SYNCRESET_DELAY", b, v)
  <1> DEFINE k == "SYNCRESET_DELAY"
             w == v["SYNCRESET_WIDTH"]
             t == v["SYNCRESET_WIDTHSTEP"]
             b1 == [b EXCEPT ![k] = v[k]]
             b2 == [b1 EXCEPT !["SYNCRESET_WIDTH"] = w]
             b3 == [b2 EXCEPT !["SYNCRESET_WIDTHSTEP"] = Bit(t # 0)]
             c == tipSetSyncDelayWidth(b, v[k], w, t)
  <1>1. /\ {k, "SYNCRESET_WIDTH", "SYNCRESET_WIDTHSTEP"} \subseteq Keys
        /\ {k, "SYNCRESET_WIDTH", "SYNCRESET_WIDTHSTEP"} \subseteq Settings
        /\ k \in Delays /\ "SYNCRESET_WIDTH" \in Delays /\ "SYNCRESET_WIDTHSTEP" \in Wide
    BY NamesAre, SettingsAre DEF ReadoutCalls, Arguments, Delays, Wide
  <1>2. v[k] \in Int /\ w \in Int /\ t \in Int
    BY <1>1 DEF Values
  <1>3. k \notin Switches /\ k \notin Numbers /\ k \notin Bounded
    BY NamesAre DEF Switches, Numbers, BusyKeys, Bounded
  <1>4. c \in Boards /\ \A s \in Settings : s \notin Own(k) => c[s] = b[s]
    <2>1. CASE v[k] \in 0..127 /\ w \in 0..127
      <3>1. c = b3
        BY <2>1 DEF tipSetSyncDelayWidth
      <3> DEFINE tt == Bit(t # 0)
      <3>2. tt \in Int
        BY DEF Bit
      <3> HIDE DEF w, t, c
      <3>3. Fits(k, v[k]) /\ Fits("SYNCRESET_WIDTH", w) /\ Fits("SYNCRESET_WIDTHSTEP", tt)
        <4> HIDE DEF tt
        <4>1. QED
          BY <1>1, <1>2, <2>1, <3>2, FitsAre
      <3>4. b1 \in Boards /\ \A s \in Settings : s # k => b1[s] = b[s]
        BY <1>1, <1>2, <3>3, SetOne
      <3> HIDE DEF b1, tt
      <3>5. b2 \in Boards /\ \A s \in Settings : s # "SYNCRESET_WIDTH" => b2[s] = b1[s]
        BY <1>1, <1>2, <3>3, <3>4, SetOne
      <3> HIDE DEF b2
      <3>6. b3 \in Boards /\ \A s \in Settings : s # "SYNCRESET_WIDTHSTEP" => b3[s] = b2[s]
        BY <1>1, <3>2, <3>3, <3>5, SetOne DEF tt
      <3> HIDE DEF b3
      <3>7. QED
        BY <3>1, <3>4, <3>5, <3>6, OwnIs
    <2>2. CASE ~(v[k] \in 0..127 /\ w \in 0..127)
      BY <2>2 DEF tipSetSyncDelayWidth
    <2>3. QED
      BY <2>1, <2>2
  <1> HIDE DEF c, w, t
  <1>5. Made(Done(c), k, b, v)
    BY <1>3, <1>4 DEF Made, Answers, Holds, Done
  <1>6. QED
    BY <1>5 DEF c, w, t

LEMMA EventTypeMade ==
  ASSUME NEW b \in Boards, NEW v \in Values
  PROVE  Made(tipDefinePulserEventType(b, v["FIXED_PULSER_EVENTTYPE"],
                                       v["RANDOM_PULSER_EVENTTYPE"]),
              "FIXED_PULSER_EVENTTYPE", b, v)
  <1> DEFINE k == "FIXED_PULSER_EVENTTYPE"
             r == v["RANDOM_PULSER_EVENTTYPE"]
             b1 == [b EXCEPT ![k] = v[k]]
             b2 == [b1 EXCEPT !["RANDOM_PULSER_EVENTTYPE"] = r]
             a == tipDefinePulserEventType(b, v[k], r)
  <1>1. /\ {k, "RANDOM_PULSER_EVENTTYPE"} \subseteq Keys \intersect Settings
        /\ {k, "RANDOM_PULSER_EVENTTYPE"} \subseteq Wide
    BY NamesAre, SettingsAre DEF ReadoutCalls, Arguments, Wide
  <1>2. v[k] \in Int /\ r \in Int
    BY <1>1 DEF Values
  <1>3. k \notin Switches
    BY NamesAre DEF Switches, BusyKeys
  <1>4. Made(Refused(b), k, b, v)
    BY NoChange DEF Made
  <1>5. a = Refused(b) \/ a = Done(b2)
    BY DEF tipDefinePulserEventType
  <1> HIDE DEF a, r
  <1>6. b1 \in Boards /\ b1[k] = v[k] /\ \A s \in Settings : s # k => b1[s] = b[s]
    BY <1>1, <1>2, FitsAre, SetOne
  <1> HIDE DEF b1
  <1>7. b2 \in Boards /\ \A s \in Settings : s # "RANDOM_PULSER_EVENTTYPE" => b2[s] = b1[s]
    BY <1>1, <1>2, <1>6, FitsAre, SetOne
  <1> HIDE DEF b2
  <1>8. b2[k] = v[k] /\ \A s \in Settings : s \notin Own(k) => b2[s] = b[s]
    BY <1>1, <1>6, <1>7, OwnIs
  <1>9. Made(Done(b2), k, b, v)
    BY <1>3, <1>7, <1>8 DEF Made, Answers, Holds, Done
  <1>10. QED
    BY <1>4, <1>5, <1>9 DEF a, r

LEMMA KeyIs ==
  ASSUME NEW v \in Values, NEW k \in Elements(Calls), k # "BUSY"
  PROVE  k \in Keys /\ v[k] \in Int /\ k \in Settings
  <1>1. k \in Keys
    BY SettingsAre
  <1>2. k # "FIXED_ENABLE"
    BY NamesAre DEF ReadoutCalls
  <1>3. QED
    BY <1>1, <1>2, SettingsAre DEF Values

\* Each call that a key above 0 has made, but the busy sources'.
LEMMA KeyMade ==
  ASSUME NEW b \in Boards, NEW v \in Values, tipMaster \in BOOLEAN, NEW sticks \in BOOLEAN,
         NEW k \in Elements(Calls), k # "BUSY", v[k] > 0
  PROVE  Made(Call(k, b, v, sticks), k, b, v)
  <1> DEFINE a == Call(k, b, v, sticks)
  <1>1. k \in Keys /\ v[k] \in Int /\ k \in Settings
    BY KeyIs
  <1>2. a = IF k \in ReadoutCalls THEN ReadoutCall(k, b, v, sticks) ELSE OutputCall(k, b, v)
    BY <1>1 DEF Call
  <1>3. CASE k = "CRATE_ID"
    <2>1. k \in ReadoutCalls
      BY <1>3, NamesAre DEF ReadoutCalls
    <2>2. a = Put(b, k, v[k], 0..255)
      <3>1. a = ReadoutCall("CRATE_ID", b, v, sticks)
        BY <1>3, <1>2, <2>1
      <3> HIDE DEF a
      <3>2. QED
        BY <1>3, <3>1, ReadoutCallIs DEF tipSetCrateID
    <2>3. Own(k) = {k} /\ k \notin Switches
      BY <1>3, OwnIs, PlainKeys DEF Numbers
    <2>4. v[k] \in 0..255 => Fits(k, v[k])
      BY <1>1, <1>3, FitsAre DEF Small, Bytes
    <2>5. k \in Keys \intersect Settings /\ k \notin {"BUSY", "ENABLE_FIBER_1"}
      BY <1>1, <1>3
    <2>6. Made(Put(b, k, v[k], 0..255), k, b, v)
      BY <2>3, <2>4, <2>5, PutMade
    <2>7. QED
      BY <2>2, <2>6
  <1>4. CASE k = "BLOCK_LEVEL"
    <2>1. k \in ReadoutCalls
      BY <1>4, NamesAre DEF ReadoutCalls
    <2>2. a = IF tipMaster THEN Put(b, k, v[k], 1..255) ELSE Refused(b)
      <3>1. a = ReadoutCall("BLOCK_LEVEL", b, v, sticks)
        BY <1>4, <1>2, <2>1
      <3> HIDE DEF a
      <3>2. QED
        BY <1>4, <3>1, ReadoutCallIs DEF tipSetBlockLevel
    <2>3. Own(k) = {k} /\ k \notin Switches
      BY <1>4, OwnIs, PlainKeys DEF Numbers
    <2>4. v[k] \in 1..255 => Fits(k, v[k])
      BY <1>1, <1>4, FitsAre DEF Small, Bytes
    <2>5. k \in Keys \intersect Settings /\ k \notin {"BUSY", "ENABLE_FIBER_1"}
      BY <1>1, <1>4
    <2>6. Made(Put(b, k, v[k], 1..255), k, b, v)
      BY <2>3, <2>4, <2>5, PutMade
    <2>7. QED
      BY <2>2, <2>6, NoChange DEF Made
  <1>5. CASE k = "BLOCK_BUFFER_LEVEL"
    <2>1. k \in ReadoutCalls
      BY <1>5, NamesAre DEF ReadoutCalls
    <2>2. a = Put(b, k, v[k], 0..255)
      <3>1. a = ReadoutCall("BLOCK_BUFFER_LEVEL", b, v, sticks)
        BY <1>5, <1>2, <2>1
      <3> HIDE DEF a
      <3>2. QED
        BY <1>5, <3>1, ReadoutCallIs DEF tipSetBlockBufferLevel
    <2>3. Own(k) = {k} /\ k \notin Switches
      BY <1>5, OwnIs, PlainKeys DEF Numbers
    <2>4. v[k] \in 0..255 => Fits(k, v[k])
      BY <1>1, <1>5, FitsAre DEF Small, Bytes
    <2>5. k \in Keys \intersect Settings /\ k \notin {"BUSY", "ENABLE_FIBER_1"}
      BY <1>1, <1>5
    <2>6. Made(Put(b, k, v[k], 0..255), k, b, v)
      BY <2>3, <2>4, <2>5, PutMade
    <2>7. QED
      BY <2>2, <2>6
  <1>6. CASE k = "INSTANT_BLOCKLEVEL_ENABLE"
    <2>1. k \in ReadoutCalls
      BY <1>6, NamesAre DEF ReadoutCalls
    <2>2. a = Switch(b, k, v[k])
      <3>1. a = ReadoutCall("INSTANT_BLOCKLEVEL_ENABLE", b, v, sticks)
        BY <1>6, <1>2, <2>1
      <3> HIDE DEF a
      <3>2. QED
        BY <1>6, <3>1, ReadoutCallIs DEF tipSetInstantBlockLevelChange
    <2>3. /\ Own(k) = {k} /\ k \in Keys \intersect Wide /\ k \notin Numbers \union Bounded
          /\ k \notin {"BUSY", "ENABLE_FIBER_1"}
      BY <1>1, <1>6, OwnIs DEF Wide, Numbers, Bounded
    <2>4. Made(Switch(b, k, v[k]), k, b, v)
      BY <2>3, SwitchMade
    <2>5. QED
      BY <2>2, <2>4
  <1>7. CASE k = "BROADCAST_BUFFER_LEVEL_ENABLE"
    <2>1. k \in ReadoutCalls
      BY <1>7, NamesAre DEF ReadoutCalls
    <2>2. a = Switch(b, k, v[k])
      <3>1. a = ReadoutCall("BROADCAST_BUFFER_LEVEL_ENABLE", b, v, sticks)
        BY <1>7, <1>2, <2>1
      <3> HIDE DEF a
      <3>2. QED
        BY <1>7, <3>1, ReadoutCallIs DEF tipUseBroadcastBufferLevel
    <2>3. /\ Own(k) = {k} /\ k \in Keys \intersect Wide /\ k \notin Numbers \union Bounded
          /\ k \notin {"BUSY", "ENABLE_FIBER_1"}
      BY <1>1, <1>7, OwnIs DEF Wide, Numbers, Bounded
    <2>4. Made(Switch(b, k, v[k]), k, b, v)
      BY <2>3, SwitchMade
    <2>5. QED
      BY <2>2, <2>4
  <1>8. CASE k = "BLOCK_LIMIT"
    <2>1. k \in ReadoutCalls
      BY <1>8, NamesAre DEF ReadoutCalls
    <2>2. a = Put(b, k, v[k], Nat)
      <3>1. a = ReadoutCall("BLOCK_LIMIT", b, v, sticks)
        BY <1>8, <1>2, <2>1
      <3> HIDE DEF a
      <3>2. QED
        BY <1>8, <3>1, ReadoutCallIs DEF tipSetBlockLimit
    <2>3. Own(k) = {k} /\ k \notin Switches
      BY <1>8, OwnIs, PlainKeys DEF Numbers
    <2>4. Fits(k, v[k])
      BY <1>1, <1>8, FitsAre DEF Wide
    <2> DEFINE legal == Nat
    <2> HIDE DEF legal, a
    <2>5. a = Put(b, k, v[k], legal)
      BY <2>2 DEF legal
    <2>6. Made(a, k, b, v)
      BY <1>1, <1>8, <2>3, <2>4, <2>5, PutMade
    <2>7. QED
      BY <2>6 DEF a
  <1>9. CASE k = "SYNC_SOURCE"
    <2>1. k \in ReadoutCalls
      BY <1>9, NamesAre DEF ReadoutCalls
    <2>2. a = Put(b, k, v[k], 0..255)
      <3>1. a = ReadoutCall("SYNC_SOURCE", b, v, sticks)
        BY <1>9, <1>2, <2>1
      <3> HIDE DEF a
      <3>2. QED
        BY <1>9, <3>1, ReadoutCallIs DEF tipSetSyncSource
    <2>3. Own(k) = {k} /\ k \notin Switches
      BY <1>9, OwnIs, PlainKeys DEF Numbers
    <2>4. Fits(k, v[k])
      BY <1>1, <1>9, FitsAre DEF Wide
    <2>5. k \in Keys \intersect Settings /\ k \notin {"BUSY", "ENABLE_FIBER_1"}
      BY <1>1, <1>9
    <2>6. Made(Put(b, k, v[k], 0..255), k, b, v)
      BY <2>3, <2>4, <2>5, PutMade
    <2>7. QED
      BY <2>2, <2>6
  <1>10. CASE k = "SYNC_RESET_TYPE"
    <2>1. k \in ReadoutCalls
      BY <1>10, NamesAre DEF ReadoutCalls
    <2>2. a = Switch(b, k, v[k])
      <3>1. a = ReadoutCall("SYNC_RESET_TYPE", b, v, sticks)
        BY <1>10, <1>2, <2>1
      <3> HIDE DEF a
      <3>2. QED
        BY <1>10, <3>1, ReadoutCallIs DEF tipSetSyncResetType
    <2>3. /\ Own(k) = {k} /\ k \in Keys \intersect Wide /\ k \notin Numbers \union Bounded
          /\ k \notin {"BUSY", "ENABLE_FIBER_1"}
      BY <1>1, <1>10, OwnIs DEF Wide, Numbers, Bounded
    <2>4. Made(Switch(b, k, v[k]), k, b, v)
      BY <2>3, SwitchMade
    <2>5. QED
      BY <2>2, <2>4
  <1>11. CASE k = "PRESCALE"
    <2>1. k \in ReadoutCalls
      BY <1>11, NamesAre DEF ReadoutCalls
    <2> DEFINE legal == 0..65535
    <2>2. a = tipSetPrescale(b, v[k])
      <3>1. a = ReadoutCall("PRESCALE", b, v, sticks)
        BY <1>11, <1>2, <2>1
      <3> HIDE DEF a
      <3>2. QED
        BY <1>11, <3>1, ReadoutCallIs
    <2>3. Own(k) = {k} /\ k \notin Switches
      BY <1>11, OwnIs, PlainKeys DEF Numbers
    <2>4. Fits(k, v[k])
      BY <1>1, <1>11, FitsAre DEF Wide
    <2>5. tipSetPrescale(b, v[k]) = Put(b, k, v[k], legal)
      BY <1>11, SMT DEF tipSetPrescale
    <2> HIDE DEF legal, a
    <2>6. Made(a, k, b, v)
      BY <1>1, <1>11, <2>2, <2>3, <2>4, <2>5, PutMade
    <2>7. QED
      BY <2>6 DEF a
  <1>12. CASE k = "EVENT_FORMAT"
    <2>1. k \in ReadoutCalls
      BY <1>12, NamesAre DEF ReadoutCalls
    <2>2. a = Put(b, k, v[k], 0..3)
      <3>1. a = ReadoutCall("EVENT_FORMAT", b, v, sticks)
        BY <1>12, <1>2, <2>1
      <3> HIDE DEF a
      <3>2. QED
        BY <1>12, <3>1, ReadoutCallIs DEF tipSetEventFormat
    <2>3. Own(k) = {k} /\ k \notin Switches
      BY <1>12, OwnIs, PlainKeys DEF Numbers
    <2>4. Fits(k, v[k])
      BY <1>1, <1>12, FitsAre DEF Wide
    <2>5. k \in Keys \intersect Settings /\ k \notin {"BUSY", "ENABLE_FIBER_1"}
      BY <1>1, <1>12
    <2>6. Made(Put(b, k, v[k], 0..3), k, b, v)
      BY <2>3, <2>4, <2>5, PutMade
    <2>7. QED
      BY <2>2, <2>6
  <1>13. CASE k = "FP_INPUT_READOUT_ENABLE"
    <2>1. k \in ReadoutCalls
      BY <1>13, NamesAre DEF ReadoutCalls
    <2>2. a = Switch(b, k, v[k])
      <3>1. a = ReadoutCall("FP_INPUT_READOUT_ENABLE", b, v, sticks)
        BY <1>13, <1>2, <2>1
      <3> HIDE DEF a
      <3>2. QED
        BY <1>13, <3>1, ReadoutCallIs DEF tipSetFPInputReadout
    <2>3. /\ Own(k) = {k} /\ k \in Keys \intersect Wide /\ k \notin Numbers \union Bounded
          /\ k \notin {"BUSY", "ENABLE_FIBER_1"}
      BY <1>1, <1>13, OwnIs DEF Wide, Numbers, Bounded
    <2>4. Made(Switch(b, k, v[k]), k, b, v)
      BY <2>3, SwitchMade
    <2>5. QED
      BY <2>2, <2>4
  <1>14. CASE k = "TRIGGER_WINDOW"
    <2>1. k \notin ReadoutCalls
      BY <1>14, NamesAre DEF ReadoutCalls
    <2>2. a = Put(b, k, v[k], 1..255)
      <3>1. a = OutputCall("TRIGGER_WINDOW", b, v)
        BY <1>14, <1>2, <2>1
      <3> HIDE DEF a
      <3>2. QED
        BY <1>14, <3>1, OutputCallIs DEF tipSetTriggerWindow
    <2>3. Own(k) = {k} /\ k \notin Switches
      BY <1>14, OwnIs, PlainKeys DEF Numbers
    <2>4. Fits(k, v[k])
      BY <1>1, <1>14, FitsAre DEF Wide
    <2>5. k \in Keys \intersect Settings /\ k \notin {"BUSY", "ENABLE_FIBER_1"}
      BY <1>1, <1>14
    <2>6. Made(Put(b, k, v[k], 1..255), k, b, v)
      BY <2>3, <2>4, <2>5, PutMade
    <2>7. QED
      BY <2>2, <2>6
  <1>15. CASE k = "TRIGGER_INHIBIT_WINDOW"
    <2>1. k \notin ReadoutCalls
      BY <1>15, NamesAre DEF ReadoutCalls
    <2>2. a = Put(b, k, v[k], 1..255)
      <3>1. a = OutputCall("TRIGGER_INHIBIT_WINDOW", b, v)
        BY <1>15, <1>2, <2>1
      <3> HIDE DEF a
      <3>2. QED
        BY <1>15, <3>1, OutputCallIs DEF tipSetTriggerInhibitWindow
    <2>3. Own(k) = {k} /\ k \notin Switches
      BY <1>15, OwnIs, PlainKeys DEF Numbers
    <2>4. Fits(k, v[k])
      BY <1>1, <1>15, FitsAre DEF Wide
    <2>5. k \in Keys \intersect Settings /\ k \notin {"BUSY", "ENABLE_FIBER_1"}
      BY <1>1, <1>15
    <2>6. Made(Put(b, k, v[k], 1..255), k, b, v)
      BY <2>3, <2>4, <2>5, PutMade
    <2>7. QED
      BY <2>2, <2>6
  <1>16. CASE k = "PROMPT_TRIGGER_WIDTH"
    <2>1. k \notin ReadoutCalls
      BY <1>16, NamesAre DEF ReadoutCalls
    <2>2. a = Put(b, k, v[k], 0..127)
      <3>1. a = OutputCall("PROMPT_TRIGGER_WIDTH", b, v)
        BY <1>16, <1>2, <2>1
      <3> HIDE DEF a
      <3>2. QED
        BY <1>16, <3>1, OutputCallIs DEF tipSetPromptTriggerWidth
    <2>3. Own(k) = {k} /\ k \notin Switches
      BY <1>16, OwnIs, PlainKeys DEF Numbers
    <2>4. Fits(k, v[k])
      BY <1>1, <1>16, FitsAre DEF Wide
    <2>5. k \in Keys \intersect Settings /\ k \notin {"BUSY", "ENABLE_FIBER_1"}
      BY <1>1, <1>16
    <2>6. Made(Put(b, k, v[k], 0..127), k, b, v)
      BY <2>3, <2>4, <2>5, PutMade
    <2>7. QED
      BY <2>2, <2>6
  <1>17. CASE k = "TRIGGER_SOURCE"
    <2>1. k \in ReadoutCalls
      BY <1>17, NamesAre DEF ReadoutCalls
    <2>2. a = tipSetTriggerSource(b, tipMaster, v[k])
      <3>1. a = ReadoutCall("TRIGGER_SOURCE", b, v, sticks)
        BY <1>17, <1>2, <2>1
      <3> HIDE DEF a
      <3>2. QED
        BY <1>17, <3>1, ReadoutCallIs DEF tipSetTriggerSource
    <2>3. Own(k) = {k} /\ k \in Wide /\ k \notin Switches /\ k \notin Numbers
      BY <1>17, OwnIs, NamesAre DEF Wide, Switches, Numbers, BusyKeys
    <2>4. Made(Refused(b), k, b, v)
      BY NoChange DEF Made
    <2> DEFINE x == IF tipMaster \/ v[k] \in 6..9 THEN v[k] ELSE 1
    <2>5. a = Refused(b) \/ a = Done([b EXCEPT ![k] = x])
      BY <1>17, <2>2 DEF tipSetTriggerSource, Put
    <2>6. x \in Int /\ (InBounds(tipMaster, k, v[k]) => x = v[k])
      BY <1>1, <1>17, SMT DEF InBounds
    <2> HIDE DEF a, x
    <2>7. Made(Done([b EXCEPT ![k] = x]), k, b, v)
      BY <1>17, <2>3, <2>6, OtherMade
    <2>8. Made(a, k, b, v)
      BY <2>4, <2>5, <2>7
    <2>9. QED
      BY <2>8 DEF a
  <1>18. CASE k = "CLOCK_SOURCE"
    <2>1. k \in ReadoutCalls
      BY <1>18, NamesAre DEF ReadoutCalls
    <2>2. a = tipSetClockSource(b, v[k], sticks)
      <3>1. a = ReadoutCall("CLOCK_SOURCE", b, v, sticks)
        BY <1>18, <1>2, <2>1
      <3> HIDE DEF a
      <3>2. QED
        BY <1>18, <3>1, ReadoutCallIs DEF ReadoutCalls
    <2> DEFINE legal == {0, 1}
               p == Put(b, k, v[k], legal)
    <2>3. Own(k) = {k} /\ k \notin Switches /\ Fits(k, v[k])
      BY <1>1, <1>18, OwnIs, PlainKeys, FitsAre DEF Numbers, Wide
    <2>4. Answers(p, b, {k}) /\ (p.ok => p.board[k] = v[k])
      <3> HIDE DEF legal
      <3> HIDE DEF p
      <3>1. Made(p, k, b, v)
        BY <1>1, <1>18, <2>3, PutMade DEF p
      <3>2. k \in Numbers /\ k # "BUSY"
        BY <1>18 DEF Numbers
      <3>3. QED
        BY <2>3, <3>1, <3>2 DEF Made, Holds
    <2>5. a = [p EXCEPT !.ok = p.ok /\ (v[k] = 1 => sticks)]
      BY <1>18, <2>2, Zenon DEF tipSetClockSource
    <2> DEFINE s == (v[k] = 1 => sticks)
    <2>6. p \in [ok : BOOLEAN, board : {p.board}] /\ s \in BOOLEAN
      BY DEF Put, Done, Refused
    <2> HIDE DEF p, a, s
    <2>7. a.board = p.board /\ a.ok \in BOOLEAN /\ (a.ok => p.ok)
      BY <2>5, <2>6, Zenon DEF s
    <2>8. Answers(a, b, {k}) /\ (a.ok => a.board[k] = v[k])
      BY <2>4, <2>7 DEF Answers
    <2>9. QED
      BY <2>3, <2>8, <1>18 DEF Made, Holds, a
  <1>19. CASE k = "TRIGGER_LATCH_ON_LEVEL_ENABLE"
    <2> DEFINE x == IF v[k] < 1 THEN 0 ELSE v[k] % 2
    <2>1. k \notin ReadoutCalls
      BY <1>19, NamesAre DEF ReadoutCalls
    <2>2. a = Done([b EXCEPT ![k] = x])
      BY <1>19, <1>2, <2>1, OutputCallIs, SMT DEF tipSetTriggerLatchOnLevel
    <2>3. x \in Int /\ (InBounds(tipMaster, k, v[k]) => x = v[k])
      BY <1>1, <1>19, SMT DEF InBounds
    <2> HIDE DEF x, a
    <2>4. Own(k) = {k} /\ k \in Wide /\ k \notin Switches /\ k \notin Numbers
      BY <1>19, OwnIs, NamesAre DEF Wide, Switches, Numbers, BusyKeys
    <2>5. Made(Done([b EXCEPT ![k] = x]), k, b, v)
      BY <1>19, <2>3, <2>4, OtherMade
    <2>6. Made(Refused(b), k, b, v)
      BY NoChange DEF Made
    <2>7. Made(a, k, b, v)
      BY <2>2, <2>5, <2>6
    <2>8. QED
      BY <2>7 DEF a
  <1>20. CASE k = "SYNCEVENT_INTERVAL"
    <2> DEFINE x == IF v[k] > 16777215 THEN 16777215 ELSE v[k]
    <2>1. k \notin ReadoutCalls
      BY <1>20, NamesAre DEF ReadoutCalls
    <2>2. a = IF ~tipMaster THEN Refused(b) ELSE Done([b EXCEPT ![k] = x])
      BY <1>20, <1>2, <2>1, OutputCallIs, SMT DEF tipSetSyncEventInterval
    <2>3. x \in Int /\ (InBounds(tipMaster, k, v[k]) => x = v[k])
      BY <1>1, <1>20, SMT DEF InBounds
    <2> HIDE DEF x, a
    <2>4. Own(k) = {k} /\ k \in Wide /\ k \notin Switches /\ k \notin Numbers
      BY <1>20, OwnIs, NamesAre DEF Wide, Switches, Numbers, BusyKeys
    <2>5. Made(Done([b EXCEPT ![k] = x]), k, b, v)
      BY <1>20, <2>3, <2>4, OtherMade
    <2>6. Made(Refused(b), k, b, v)
      BY NoChange DEF Made
    <2>7. Made(a, k, b, v)
      BY <2>2, <2>5, <2>6
    <2>8. QED
      BY <2>7 DEF a
  <1>21. CASE k = "TRIGGER_TABLE"
    <2> DEFINE x == IF v[k] > 3 THEN 0 ELSE v[k]
    <2>1. k \notin ReadoutCalls
      BY <1>21, NamesAre DEF ReadoutCalls
    <2>2. a = Done([b EXCEPT ![k] = x])
      BY <1>21, <1>2, <2>1, OutputCallIs, SMT DEF tipTriggerTablePredefinedConfig
    <2>3. x \in Int /\ (InBounds(tipMaster, k, v[k]) => x = v[k])
      BY <1>1, <1>21, SMT DEF InBounds
    <2> HIDE DEF x, a
    <2>4. Own(k) = {k} /\ k \in Wide /\ k \notin Switches /\ k \notin Numbers
      BY <1>21, OwnIs, NamesAre DEF Wide, Switches, Numbers, BusyKeys
    <2>5. Made(Done([b EXCEPT ![k] = x]), k, b, v)
      BY <1>21, <2>3, <2>4, OtherMade
    <2>6. Made(Refused(b), k, b, v)
      BY NoChange DEF Made
    <2>7. Made(a, k, b, v)
      BY <2>2, <2>5, <2>6
    <2>8. QED
      BY <2>7 DEF a
  <1>22. CASE k = "ENABLE_FIBER_1"
    <2>1. k \notin ReadoutCalls
      BY <1>22, NamesAre DEF ReadoutCalls
    <2>2. a = tipAddSlave(b, tipMaster, 1)
      <3>1. a = OutputCall("ENABLE_FIBER_1", b, v)
        BY <1>22, <1>2, <2>1
      <3> HIDE DEF a
      <3>2. QED
        BY <1>22, <3>1, OutputCallIs DEF ReadoutCalls
    <2>3. QED
      BY <1>22, <2>2, AddSlaveIs
  <1>23. CASE k = "TRIGGER_OUTPUT_DELAY"
    <2>1. k \notin ReadoutCalls
      BY <1>23, NamesAre DEF ReadoutCalls
    <2>2. a = tipSetTriggerPulse(b, v[k], v["TRIGGER_OUTPUT_WIDTH"], v["TRIGGER_OUTPUT_DELAYSTEP"])
      <3>1. a = OutputCall("TRIGGER_OUTPUT_DELAY", b, v)
        BY <1>23, <1>2, <2>1
      <3> HIDE DEF a
      <3>2. QED
        BY <1>23, <3>1, OutputCallIs DEF ReadoutCalls
    <2>3. QED
      BY <1>1, <1>23, <2>2, PulseMade
  <1>24. CASE k = "SYNCRESET_DELAY"
    <2>1. k \notin ReadoutCalls
      BY <1>24, NamesAre DEF ReadoutCalls
    <2>2. a = Done(tipSetSyncDelayWidth(b, v[k], v["SYNCRESET_WIDTH"], v["SYNCRESET_WIDTHSTEP"]))
      <3>1. a = OutputCall("SYNCRESET_DELAY", b, v)
        BY <1>24, <1>2, <2>1
      <3> HIDE DEF a
      <3>2. QED
        BY <1>24, <3>1, OutputCallIs DEF ReadoutCalls
    <2>3. QED
      BY <1>1, <1>24, <2>2, SyncDelayMade
  <1>25. CASE k = "FIXED_PULSER_EVENTTYPE"
    <2>1. k \notin ReadoutCalls
      BY <1>25, NamesAre DEF ReadoutCalls
    <2>2. a = tipDefinePulserEventType(b, v[k], v["RANDOM_PULSER_EVENTTYPE"])
      <3>1. a = OutputCall("FIXED_PULSER_EVENTTYPE", b, v)
        BY <1>25, <1>2, <2>1
      <3> HIDE DEF a
      <3>2. QED
        BY <1>25, <3>1, OutputCallIs DEF ReadoutCalls
    <2>3. QED
      BY <1>1, <1>25, <2>2, EventTypeMade
  <1>26. QED
    BY <1>3, <1>4, <1>5, <1>6, <1>7, <1>8, <1>9, <1>10, <1>11, <1>12, <1>13, <1>14, <1>15,
       <1>16, <1>17, <1>18, <1>19, <1>20, <1>21, <1>22, <1>23, <1>24, <1>25, NamesAre
       DEF ReadoutCalls

LEMMA OwnApart ==
  ASSUME NEW k \in Elements(Calls), NEW j \in Elements(Calls), j # k
  PROVE  /\ j \notin Own(k)
         /\ "BUSY_SOURCE_FIBER1" \in Own(k) => k \in {"BUSY", "ENABLE_FIBER_1"}
         /\ k \notin {"BUSY", "ENABLE_FIBER_1"} => Own(k) \intersect BusyKeys = {}
  BY NamesAre, OwnIs DEF ReadoutCalls, BusyKeys

LEMMA CallIs ==
  ASSUME NEW b \in Boards, NEW v \in Values, tipMaster \in BOOLEAN, NEW sticks \in BOOLEAN,
         NEW k \in Elements(Calls)
  PROVE  LET a == Call(k, b, v, sticks)
         IN  /\ Made(a, k, b, v)
             /\ ~Active(k, v) => a.board = b
             /\ k = "BUSY" => a.ok
             /\ k # "BUSY" => \A s \in BusyKeys : b[s] = 1 => a.board[s] = 1
  <1> DEFINE a == Call(k, b, v, sticks)
  <1>1. BusyKeys \subseteq Settings /\ BusyKeys \subseteq Keys
    BY SettingsAre DEF OneBits
  <1>2. CASE k = "BUSY"
    <2> DEFINE mask == Asked(v, BusyKeys \ {"BUSY_SOURCE_P2"})
               P(r) == LET d == tipSetBusySource(b, mask, r)
                       IN  /\ Answers(d, b, BusyKeys) /\ d.ok
                           /\ \A s \in BusyKeys :
                                d.board[s] = IF s \in mask \/ (~r /\ b[s] = 1) THEN 1 ELSE 0
    <2>1. a = IF mask = {} THEN Done(b) ELSE tipSetBusySource(b, mask, TRUE)
      BY <1>2 DEF Call, Busy
    <2>2. \A s \in BusyKeys \ {"BUSY_SOURCE_P2"} : v[s] > 0 => s \in mask
      BY DEF Asked
    <2>3. CASE mask = {}
      <3>1. a = Done(b) /\ ~Active(k, v)
        BY <1>2, <2>1, <2>3 DEF Active
      <3>2. Holds(b, k, v, tipMaster)
        BY <1>2, <2>2, <2>3 DEF Holds
      <3>3. QED
        BY <1>2, <3>1, <3>2, NoChange DEF Made
    <2>4. CASE mask # {}
      <3>1. \A r \in BOOLEAN : P(r)
        <4> HIDE DEF mask
        <4>1. QED
          BY BusyIs
      <3>2. P(TRUE)
        <4> HIDE DEF P
        <4>1. QED
          BY <3>1, Zenon
      <3>3. a = tipSetBusySource(b, mask, TRUE) /\ Active(k, v)
        BY <1>2, <2>1, <2>4 DEF Active
      <3>4. Answers(a, b, BusyKeys) /\ a.ok /\ \A s \in BusyKeys : s \in mask => a.board[s] = 1
        <4> HIDE DEF mask
        <4>1. QED
          BY <3>2, <3>3
      <3> HIDE DEF mask, a
      <3>5. Holds(a.board, k, v, tipMaster)
        BY <1>2, <2>2, <3>4 DEF Holds
      <3>6. QED
        BY <1>2, <3>3, <3>4, <3>5, OwnIs DEF Made, a
    <2>5. QED
      BY <2>3, <2>4
  <1>3. CASE k # "BUSY" /\ v[k] <= 0
    <2>1. v[k] \in Int
      BY <1>3, KeyIs
    <2>2. a = Done(b) /\ ~Active(k, v)
      BY <1>3, <2>1 DEF Call, Active
    <2>3. Holds(b, k, v, tipMaster)
      BY <1>3, <2>1 DEF Holds
    <2>4. QED
      BY <2>2, <2>3, NoChange DEF Made
  <1>4. CASE k # "BUSY" /\ v[k] > 0
    <2>1. Made(a, k, b, v) /\ Active(k, v)
      BY <1>4, KeyMade DEF Active
    <2>2. ASSUME NEW s \in BusyKeys, b[s] = 1 PROVE a.board[s] = 1
      <3>1. CASE k = "ENABLE_FIBER_1"
        <4>1. a = tipAddSlave(b, tipMaster, 1)
          <5>1. ~(v[k] <= 0)
            BY <1>4, KeyIs
          <5>2. k \notin ReadoutCalls
            BY <3>1, NamesAre DEF ReadoutCalls
          <5>3. QED
            BY <1>4, <3>1, <5>1, <5>2, OutputCallIs DEF Call
        <4>2. QED
          BY <2>2, <4>1, AddSlaveIs
      <3>2. CASE k # "ENABLE_FIBER_1"
        <4>1. s \notin Own(k)
          BY <1>4, <3>2, OwnApart, CallsAre DEF Elements
        <4> HIDE DEF a
        <4>2. QED
          BY <1>1, <2>1, <2>2, <4>1 DEF Made, Answers
      <3>3. QED
        BY <3>1, <3>2
    <2>3. QED
      BY <1>4, <2>1, <2>2
  <1>5. QED
    <2>1. k # "BUSY" => v[k] \in Int
      BY KeyIs
    <2>2. QED
      BY <1>2, <1>3, <1>4, <2>1

-----------------------------------------------------------------------------
(* A load *)

Loads == [board : Boards, refused : Elements(Calls) \union {"none"}]

\* One call more of a load.
Applied(load, k, v, sticks) ==
  IF load.refused # "none" THEN load
  ELSE [board |-> Call(k, load.board, v, sticks).board,
        refused |-> IF Call(k, load.board, v, sticks).ok THEN "none" ELSE k]

LEMMA NoneIs == "none" \notin Elements(Calls)
  BY NamesAre DEF ReadoutCalls

LEMMA CallOf ==
  ASSUME NEW i \in 1..24
  PROVE  Calls[i] \in Elements(Calls) /\ Calls[i] # "none"
  BY CallsAre, NoneIs DEF Elements

LEMMA AppliedIs ==
  ASSUME NEW load \in Loads, NEW v \in Values, tipMaster \in BOOLEAN, NEW sticks \in BOOLEAN,
         NEW k \in Elements(Calls)
  PROVE  Applied(load, k, v, sticks) \in Loads
  <1>1. load.board \in Boards
    BY DEF Loads
  <1>2. Call(k, load.board, v, sticks).board \in Boards
    BY <1>1, CallIs DEF Made, Answers
  <1>3. QED
    BY <1>2 DEF Applied, Loads

\* L is the load, call by call.
Loading(L, b, v, sticks) ==
  /\ L \in [0..24 -> Loads]
  /\ L[0] = [board |-> b, refused |-> "none"]
  /\ \A i \in 1..24 : L[i] = Applied(L[i - 1], Calls[i], v, sticks)
  /\ General(b, v, sticks) = L[24]

LEMMA OneLess ==
  ASSUME NEW i \in 1..24
  PROVE  1..i # {} /\ i \in 1..i /\ (1..i) \ {i} = 1..(i - 1)
  OBVIOUS

LEMMA GeneralIs ==
  ASSUME NEW b \in Boards, NEW v \in Values, tipMaster \in BOOLEAN, NEW sticks \in BOOLEAN
  PROVE  \E L : Loading(L, b, v, sticks)
  <1> DEFINE base == [board |-> b, refused |-> "none"]
             D == SUBSET DOMAIN Calls
             P(iter) == iter = [s \in D |->
               IF s = {} THEN base
               ELSE Applied(iter[s \ {Max(s)}], Calls[Max(s)], v, sticks)]
             iter == CHOOSE iter : P(iter)
             step == [p \in (1..24) \X Loads |-> Applied(p[2], Calls[p[1]], v, sticks)]
  <1>1. General(b, v, sticks) = iter[DOMAIN Calls]
    BY DEF General, FoldLeft, MapThenFoldSet, Applied
  <1>2. base \in Loads
    BY DEF Loads
  <1>3. D = SUBSET (1..24)
    BY CallsAre
  <1>4. step \in [(1..24) \X Loads -> Loads]
    BY CallOf, AppliedIs
  <1>5. \E g : Folding(g, 24, Loads, base, step)
    <2> HIDE DEF base, step
    <2>1. QED
      BY <1>2, <1>4, FoldExists
  <1>6. PICK g : Folding(g, 24, Loads, base, step)
    BY <1>5
  <1>7. \A i \in 1..24, load \in Loads :
          step[<<i, load>>] = Applied(load, Calls[i], v, sticks)
    OBVIOUS
  <1> HIDE DEF base, step
  <1>8. P(g)
    <2>1. g = [s \in D |-> g[s]]
      BY <1>3, <1>6 DEF Folding
    <2>2. ASSUME NEW s \in D
          PROVE  g[s] = IF s = {} THEN base
                        ELSE Applied(g[s \ {Max(s)}], Calls[Max(s)], v, sticks)
      <3>1. CASE s = {}
        BY <1>6, <3>1 DEF Folding
      <3>2. CASE s # {}
        <4>1. Max(s) \in 1..24 /\ g[s] = step[<<Max(s), g[s \ {Max(s)}]>>]
          BY <1>3, <1>6, <3>2 DEF Folding
        <4>2. g[s \ {Max(s)}] \in Loads
          BY <1>3, <1>6 DEF Folding
        <4>3. QED
          BY <1>7, <3>2, <4>1, <4>2
      <3>3. QED
        BY <3>1, <3>2
    <2>3. QED
      BY <2>1, <2>2
  <1>9. P(iter)
    <2> HIDE DEF P
    <2>1. QED
      BY <1>8
  <1> HIDE DEF iter
  <1> DEFINE L == [i \in 0..24 |-> iter[1..i]]
  <1>10. iter[1..0] = base
    BY <1>3, <1>9
  <1>11. \A i \in 1..24 : iter[1..i] = Applied(iter[1..(i - 1)], Calls[i], v, sticks)
    <2> SUFFICES ASSUME NEW i \in 1..24
                 PROVE  iter[1..i] = Applied(iter[1..(i - 1)], Calls[i], v, sticks)
      OBVIOUS
    <2>1. 1..i \in D /\ 1..i # {} /\ i \in 1..i /\ (1..i) \ {i} = 1..(i - 1)
      <3>1. 1..i \in SUBSET (1..24)
        OBVIOUS
      <3>2. 1..i # {} /\ i \in 1..i /\ (1..i) \ {i} = 1..(i - 1)
        BY OneLess
      <3> HIDE DEF D
      <3>3. QED
        BY <1>3, <3>1, <3>2
    <2>2. Max(1..i) = i
      BY <2>1, Greatest
    <2> HIDE DEF D
    <2>3. QED
      BY <1>9, <2>1, <2>2
  <1> HIDE DEF P
  <1>12. L[0] = base /\ \A i \in 1..24 : L[i] = Applied(L[i - 1], Calls[i], v, sticks)
    BY <1>10, <1>11
  <1>13. General(b, v, sticks) = L[24]
    BY <1>1, CallsAre
  <1>14. DOMAIN L = 0..24 /\ L = [i \in 0..24 |-> L[i]]
    OBVIOUS
  <1> HIDE DEF L
  <1>15. \A i \in 0..24 : L[i] \in Loads
    <2> DEFINE Q == {i \in 0..24 : L[i] \in Loads}
    <2>1. 0 \in Q
      BY <1>2, <1>12
    <2>2. ASSUME NEW i \in 1..24, i - 1 \in Q PROVE i \in Q
      <3>1. L[i - 1] \in Loads /\ L[i] = Applied(L[i - 1], Calls[i], v, sticks)
        BY <1>12, <2>2
      <3>2. Calls[i] \in Elements(Calls)
        BY CallOf
      <3>3. Applied(L[i - 1], Calls[i], v, sticks) \in Loads
        BY <3>1, <3>2, AppliedIs
      <3>4. QED
        BY <3>1, <3>3
    <2>3. \A i \in 0..24 : i \in Q
      <3> HIDE DEF Q
      <3>1. QED
        BY <2>1, <2>2, UpTo
    <2>4. QED
      BY <2>3
  <1>16. Loading(L, b, v, sticks)
    BY <1>12, <1>13, <1>14, <1>15 DEF Loading, base
  <1>17. QED
    BY <1>16

LEMMA CallsApart ==
  ASSUME NEW i \in 1..24, NEW j \in 1..24, Calls[i] = Calls[j]
  PROVE  i = j
  BY CallsAre

LEMMA HoldsStays ==
  ASSUME NEW b \in Boards, NEW v \in Values, tipMaster \in BOOLEAN, NEW sticks \in BOOLEAN,
         NEW i \in 1..24, NEW n \in 1..24, i < n, Holds(b, Calls[i], v, tipMaster)
  PROVE  Holds(Call(Calls[n], b, v, sticks).board, Calls[i], v, tipMaster)
  <1> DEFINE k == Calls[i]
             c == Call(Calls[n], b, v, sticks).board
  <1>1. k \in Elements(Calls) /\ Calls[n] \in Elements(Calls) /\ k # Calls[n]
    BY CallOf, CallsApart
  <1>2. k # "ENABLE_FIBER_1"
    <2>1. i # 24 /\ 24 \in 1..24
      OBVIOUS
    <2>2. k # Calls[24]
      BY <2>1, CallsApart
    <2>3. QED
      BY <2>2, CallsAre
  <1>3. /\ c \in Boards /\ \A s \in Settings : s \notin Own(Calls[n]) => c[s] = b[s]
        /\ Calls[n] # "BUSY" => \A s \in BusyKeys : b[s] = 1 => c[s] = 1
    <2> DEFINE m == Calls[n]
               a == Call(m, b, v, sticks)
    <2> HIDE DEF k
    <2>1. m \in Elements(Calls)
      BY <1>1
    <2> HIDE DEF m
    <2>2. Made(a, m, b, v) /\ (m # "BUSY" => \A s \in BusyKeys : b[s] = 1 => a.board[s] = 1)
      BY <2>1, CallIs
    <2> HIDE DEF a
    <2>3. /\ a.board \in Boards /\ \A s \in Settings : s \notin Own(m) => a.board[s] = b[s]
          /\ m # "BUSY" => \A s \in BusyKeys : b[s] = 1 => a.board[s] = 1
      BY <2>2 DEF Made, Answers
    <2>4. QED
      BY <2>3 DEF a, m
  <1>4. Holds(b, k, v, tipMaster)
    OBVIOUS
  <1> HIDE DEF c, k
  <1>5. ASSUME k = "BUSY" PROVE Holds(c, k, v, tipMaster)
    BY <1>1, <1>3, <1>4, <1>5 DEF Holds
  <1>6. ASSUME k # "BUSY" PROVE Holds(c, k, v, tipMaster)
    <2>1. c[k] = b[k]
      BY <1>1, <1>3, <1>6, OwnApart, KeyIs
    <2>2. QED
      BY <1>2, <1>4, <1>6, <2>1 DEF Holds
  <1>7. QED
    BY <1>5, <1>6 DEF c, k

\* A load that ended with r came past the call i.
Came(r, i) == r = "none" \/ \E j \in 1..24 : i < j /\ Calls[j] = r

\* What a load of the first n calls has done, that began with b.
Did(load, n, b, v) ==
  /\ load \in Loads
  /\ load.refused # "BUSY"
  /\ load.refused = "none" \/ \E j \in 1..n : load.refused = Calls[j]
  /\ \A i \in 1..n : Came(load.refused, i) => Holds(load.board, Calls[i], v, tipMaster)
  /\ \A s \in Settings : load.board[s] # b[s] =>
       \E i \in 1..n : /\ s \in Own(Calls[i]) /\ Active(Calls[i], v)
                       /\ Came(load.refused, i) \/ load.refused = Calls[i]

LEMMA OneMore ==
  ASSUME NEW b \in Boards, NEW v \in Values, tipMaster \in BOOLEAN, NEW sticks \in BOOLEAN,
         NEW n \in 1..24, NEW load, Did(load, n - 1, b, v)
  PROVE  Did(Applied(load, Calls[n], v, sticks), n, b, v)
  <1> DEFINE k == Calls[n]
             a == Call(k, load.board, v, sticks)
             next == Applied(load, k, v, sticks)
  <1>1. k \in Elements(Calls) /\ k # "none"
    BY CallOf
  <1>2. load \in Loads /\ next \in Loads /\ load.board \in Boards
    <2>1. load \in Loads
      BY DEF Did
    <2> HIDE DEF k
    <2>2. QED
      BY <1>1, <2>1, AppliedIs DEF Loads
  <1>3. CASE load.refused # "none"
    <2>1. next = load
      BY <1>3 DEF Applied
    <2>2. PICK j \in 1..(n - 1) : load.refused = Calls[j]
      BY <1>3 DEF Did
    <2>3. j \in 1..n /\ j \in 1..24 /\ j < n
      OBVIOUS
    <2>4. ~Came(load.refused, n)
      BY <1>3, <2>2, <2>3, CallsApart DEF Came
    <2>5. \A i \in 1..n : i = n \/ i \in 1..(n - 1)
      OBVIOUS
    <2>6. \A i \in 1..(n - 1) : i \in 1..n
      OBVIOUS
    <2> HIDE DEF next
    <2>7. Did(next, n, b, v)
      BY <1>2, <2>1, <2>2, <2>3, <2>4, <2>5, <2>6 DEF Did
    <2>8. QED
      BY <2>7 DEF next, k
  <1>4. CASE load.refused = "none"
    <2>1. /\ next.board = a.board
          /\ next.refused = IF a.ok THEN "none" ELSE k
      BY <1>4 DEF Applied
    <2>2. /\ Made(a, k, load.board, v)
          /\ ~Active(k, v) => a.board = load.board
          /\ k = "BUSY" => a.ok
      <3> HIDE DEF k
      <3>1. QED
        BY <1>1, <1>2, CallIs
    <2>3. \A i \in 1..(n - 1) :
            /\ Came(load.refused, i) /\ Came(next.refused, i)
            /\ i \in 1..n /\ i \in 1..24 /\ i < n
      BY <1>4, <2>1 DEF Came
    <2>4. \A i \in 1..(n - 1) : Holds(a.board, Calls[i], v, tipMaster)
      <3> SUFFICES ASSUME NEW i \in 1..(n - 1) PROVE Holds(a.board, Calls[i], v, tipMaster)
        OBVIOUS
      <3>1. Holds(load.board, Calls[i], v, tipMaster) /\ i \in 1..24 /\ i < n
        BY <2>3 DEF Did
      <3>2. QED
        BY <1>2, <3>1, HoldsStays
    <2>5. Came(next.refused, n) => Holds(a.board, k, v, tipMaster)
      <3>1. ~Came(k, n)
        BY <1>1, CallsApart DEF Came
      <3>2. a.ok => Holds(a.board, k, v, tipMaster)
        BY <2>2 DEF Made
      <3> HIDE DEF k, a, next
      <3>3. QED
        BY <2>1, <3>1, <3>2
    <2>6. n \in 1..n /\ \A i \in 1..n : i = n \/ i \in 1..(n - 1)
      OBVIOUS
    <2>7. Came(next.refused, n) \/ next.refused = k
      BY <2>1 DEF Came
    <2>8. next.refused = "none" \/ \E j \in 1..n : next.refused = Calls[j]
      BY <2>1, <2>6
    <2>9. \A i \in 1..n : Came(next.refused, i) => Holds(next.board, Calls[i], v, tipMaster)
      BY <2>1, <2>4, <2>5, <2>6
    <2>10. ASSUME NEW s \in Settings, next.board[s] # b[s]
           PROVE  \E i \in 1..n : /\ s \in Own(Calls[i]) /\ Active(Calls[i], v)
                                  /\ Came(next.refused, i) \/ next.refused = Calls[i]
      <3>1. CASE load.board[s] # b[s]
        <4>1. PICK i \in 1..(n - 1) : s \in Own(Calls[i]) /\ Active(Calls[i], v)
          BY <3>1 DEF Did
        <4>2. QED
          BY <2>3, <4>1
      <3>2. CASE load.board[s] = b[s]
        <4>1. s \in Own(k) /\ Active(k, v)
          <5> HIDE DEF a, next, k
          <5>1. QED
            BY <2>1, <2>2, <2>10, <3>2 DEF Made, Answers
        <4>2. QED
          BY <2>6, <2>7, <4>1
      <3>3. QED
        BY <3>1, <3>2
    <2>13. next.refused # "BUSY"
      <3> HIDE DEF k, a, next
      <3>1. QED
        BY <2>1, <2>2
    <2> HIDE DEF next
    <2>11. Did(next, n, b, v)
      BY <1>2, <2>8, <2>9, <2>10, <2>13 DEF Did
    <2>12. QED
      BY <2>11 DEF next, k
  <1>5. QED
    BY <1>3, <1>4

LEMMA GeneralDoes ==
  ASSUME NEW b \in Boards, NEW v \in Values, tipMaster \in BOOLEAN, NEW sticks \in BOOLEAN
  PROVE  Did(General(b, v, sticks), 24, b, v)
  <1>1. PICK L : Loading(L, b, v, sticks)
    BY GeneralIs
  <1> DEFINE Q == {n \in 0..24 : Did(L[n], n, b, v)}
  <1>2. 0 \in Q
    <2>1. L[0] = [board |-> b, refused |-> "none"] /\ L[0] \in Loads
      BY <1>1 DEF Loading
    <2>2. Did(L[0], 0, b, v)
      BY <2>1 DEF Did
    <2>3. QED
      BY <2>2
  <1>3. ASSUME NEW n \in 1..24, n - 1 \in Q PROVE n \in Q
    <2>1. Did(L[n - 1], n - 1, b, v) /\ L[n] = Applied(L[n - 1], Calls[n], v, sticks)
      BY <1>1, <1>3 DEF Loading
    <2>2. Did(L[n], n, b, v)
      BY <2>1, OneMore
    <2>3. QED
      BY <2>2
  <1>4. \A n \in 0..24 : n \in Q
    <2> HIDE DEF Q
    <2>1. QED
      BY <1>2, <1>3, UpTo
  <1>5. Did(L[24], 24, b, v) /\ General(b, v, sticks) = L[24]
    BY <1>1, <1>4 DEF Loading
  <1>6. QED
    BY <1>5

-----------------------------------------------------------------------------
(* The inputs and the rules *)

LEMMA NumbersAre ==
  /\ \A n \in 1..6 : /\ PrescaleTS[n] \in Elements(PrescaleTS)
                     /\ DelayTS[n] \in Elements(DelayTS)
  /\ \A n \in 1..4 : /\ Rule[n] \in Elements(Rule) /\ RuleStep[n] \in Elements(RuleStep)
                     /\ RuleMin[n] \in Elements(RuleMin)
  /\ \A n, m \in 1..6 : PrescaleTS[n] = PrescaleTS[m] => n = m
  /\ \A n, m \in 1..4 : /\ Rule[n] = Rule[m] => n = m
                        /\ RuleMin[n] = RuleMin[m] => n = m
  /\ \A k \in Elements(PrescaleTS) : \E n \in 1..6 : k = PrescaleTS[n]
  /\ \A k \in Elements(Rule) : \E n \in 1..4 : k = Rule[n]
  /\ \A k \in Elements(RuleMin) : \E n \in 1..4 : k = RuleMin[n]
  /\ RuleMin[1] = "RULE_MIN_1"
  <1>1. \A n \in 1..6 : /\ PrescaleTS[n] \in Elements(PrescaleTS)
                        /\ DelayTS[n] \in Elements(DelayTS)
    BY DEF PrescaleTS, DelayTS, Elements
  <1>2. \A n \in 1..4 : /\ Rule[n] \in Elements(Rule) /\ RuleStep[n] \in Elements(RuleStep)
                        /\ RuleMin[n] \in Elements(RuleMin)
    BY DEF Rule, RuleStep, RuleMin, Elements
  <1>3. \A n, m \in 1..6 : PrescaleTS[n] = PrescaleTS[m] => n = m
    BY DEF PrescaleTS
  <1>4. \A n, m \in 1..4 : Rule[n] = Rule[m] => n = m
    BY DEF Rule
  <1>5. \A n, m \in 1..4 : RuleMin[n] = RuleMin[m] => n = m
    BY DEF RuleMin
  <1>6. \A k \in Elements(PrescaleTS) : \E n \in 1..6 : k = PrescaleTS[n]
    BY DEF PrescaleTS, Elements
  <1>7. \A k \in Elements(Rule) : \E n \in 1..4 : k = Rule[n]
    BY DEF Rule, Elements
  <1>8. \A k \in Elements(RuleMin) : \E n \in 1..4 : k = RuleMin[n]
    BY DEF RuleMin, Elements
  <1>9. RuleMin[1] = "RULE_MIN_1"
    BY DEF RuleMin
  <1>10. QED
    BY <1>1, <1>2, <1>3, <1>4, <1>5, <1>6, <1>7, <1>8, <1>9

LEMMA NumberedApart ==
  /\ Elements(PrescaleTS) \intersect Elements(DelayTS) = {}
  /\ Elements(PrescaleTS) \intersect Elements(EnableTS) = {}
  /\ Elements(DelayTS) \intersect Elements(EnableTS) = {}
  /\ Elements(Rule) \intersect Elements(RuleStep) = {}
  /\ Elements(Rule) \intersect Elements(RuleMin) = {}
  /\ Elements(RuleStep) \intersect Elements(RuleMin) = {}
  /\ "SLOWER_TRIGGER_RULES" \notin Elements(Rule) \union Elements(RuleStep) \union Elements(RuleMin)
  /\ Elements(PrescaleTS) \subseteq Scales /\ Elements(DelayTS) \subseteq Wide
  /\ Elements(Rule) \subseteq Delays /\ Elements(RuleStep) \subseteq OneBits
  /\ Elements(RuleMin) \union {"SLOWER_TRIGGER_RULES"} \subseteq Wide
  /\ Elements(EnableTS) \subseteq OneBits
  BY NamesAre DEF Scales, Wide, Delays, OneBits

\* One input, and one rule.
OneInput(at, n, v) ==
  IF v[PrescaleTS[n]] <= 0 THEN at
  ELSE tipSetInputPrescale(tipSetTSInputDelay(at, n, v[PrescaleTS[n]]).board,
                           n, v[PrescaleTS[n]]).board

OneHoldoff(at, n, v) ==
  IF v[Rule[n]] <= 0 THEN at
  ELSE tipSetTriggerHoldoff(at, n, v[Rule[n]],
                            IF v[RuleStep[n]] > 0 THEN v[RuleStep[n]] ELSE 0).board

OneRule(at, n, v) ==
  IF v[RuleMin[n]] <= 0 THEN OneHoldoff(at, n, v)
  ELSE tipSetTriggerHoldoffMin(OneHoldoff(at, n, v), n, v[RuleMin[n]]).board

\* What the input n, or the rule n, changes.
InputOwn(n, v) == IF v[PrescaleTS[n]] > 0 THEN {PrescaleTS[n], DelayTS[n]} ELSE {}
RuleOwn(n, v)  == (IF v[Rule[n]] > 0 THEN {Rule[n], RuleStep[n], "SLOWER_TRIGGER_RULES"} ELSE {})
                    \union (IF v[RuleMin[n]] > 0 THEN {RuleMin[n]} ELSE {})

\* What the board has of the input n, or of the rule n.
InputHolds(b, n, v) == v[PrescaleTS[n]] \in 1..15 => b[PrescaleTS[n]] = v[PrescaleTS[n]]
RuleHolds(b, n, v) ==
  /\ v[Rule[n]] \in 1..127 => b[Rule[n]] = v[Rule[n]]
  /\ n >= 2 /\ v[RuleMin[n]] \in 1..127 => b[RuleMin[n]] = v[RuleMin[n]]

LEMMA OneInputIs ==
  ASSUME NEW b \in Boards, NEW v \in Values, NEW n \in 1..6
  PROVE  LET c == OneInput(b, n, v)
         IN  /\ c \in Boards /\ InputHolds(c, n, v)
             /\ \A s \in Settings : s \notin InputOwn(n, v) => c[s] = b[s]
  <1> DEFINE k == PrescaleTS[n]
             d == DelayTS[n]
             x == v[k]
             a1 == Put(b, d, x, 0..511)
             b1 == a1.board
             a2 == Put(b1, k, x, 0..15)
             c == a2.board
  <1>1. k \in Scales /\ d \in Wide /\ k # d /\ k \in Settings /\ d \in Settings /\ k \in Keys
    BY NumbersAre, NumberedApart, SettingsAre
  <1>2. x \in Int
    BY <1>1 DEF Values
  <1>3. OneInput(b, n, v) = IF x <= 0 THEN b ELSE c
    BY DEF OneInput, tipSetTSInputDelay, tipSetInputPrescale
  <1>4. InputOwn(n, v) = IF x > 0 THEN {k, d} ELSE {}
    BY DEF InputOwn
  <1> HIDE DEF k, d, x
  <1>5. Answers(a1, b, {d})
    <2>1. Fits(d, x)
      BY <1>1, <1>2, FitsAre
    <2>2. QED
      BY <1>1, <1>2, <2>1, PutIs
  <1> HIDE DEF a1
  <1>6. b1 \in Boards /\ \A s \in Settings : s # d => b1[s] = b[s]
    BY <1>5 DEF Answers
  <1> HIDE DEF b1
  <1>7. Answers(a2, b1, {k}) /\ (a2.ok => a2.board[k] = x) /\ (a2.ok <=> x \in 0..15)
    <2>1. x \in 0..15 => Fits(k, x)
      BY <1>1, <1>2, FitsAre
    <2>2. QED
      BY <1>1, <1>2, <1>6, <2>1, PutIs
  <1> HIDE DEF a2
  <1>8. /\ c \in Boards /\ (x \in 1..15 => c[k] = x)
        /\ \A s \in Settings : s # k => c[s] = b1[s]
    BY <1>7 DEF Answers
  <1> HIDE DEF c
  <1>9. InputHolds(IF x <= 0 THEN b ELSE c, n, v)
    BY <1>2, <1>8 DEF InputHolds, k, x
  <1>10. QED
    BY <1>2, <1>3, <1>4, <1>6, <1>8, <1>9

LEMMA OneHoldoffIs ==
  ASSUME NEW b \in Boards, NEW v \in Values, NEW n \in 1..4
  PROVE  LET c == OneHoldoff(b, n, v)
         IN  /\ c \in Boards
             /\ v[Rule[n]] \in 1..127 => c[Rule[n]] = v[Rule[n]]
             /\ v[Rule[n]] <= 0 => c = b
             /\ \A s \in Settings :
                  s \notin {Rule[n], RuleStep[n], "SLOWER_TRIGGER_RULES"} => c[s] = b[s]
  <1> DEFINE k == Rule[n]
             d == RuleStep[n]
             e == "SLOWER_TRIGGER_RULES"
             x == v[k]
             t == IF v[d] > 0 THEN v[d] ELSE 0
             y == Bit(t # 0)
             z == Bit(t = 2)
             b1 == [b EXCEPT ![k] = x]
             b2 == [b1 EXCEPT ![d] = y]
             b3 == [b2 EXCEPT ![e] = z]
  <1>1. /\ k \in Delays /\ d \in OneBits /\ e \in Wide /\ k # d /\ e # d /\ k # e
        /\ {k, d, e} \subseteq Settings /\ k \in Keys
    BY NumbersAre, NumberedApart, SettingsAre
  <1>2. x \in Int /\ y \in {0, 1} /\ z \in {0, 1}
    BY <1>1 DEF Values, Bit
  <1>3. OneHoldoff(b, n, v) = IF x <= 0 THEN b
                              ELSE IF x \notin 0..127 THEN b ELSE b3
    BY DEF OneHoldoff, tipSetTriggerHoldoff, Done, Refused
  <1> HIDE DEF k, d, e, x, y, z
  <1>4. CASE x \in 1..127
    <2>1. Fits(k, x) /\ Fits(d, y) /\ Fits(e, z)
      BY <1>1, <1>2, <1>4, FitsAre
    <2>2. b1 \in Boards /\ b1[k] = x /\ \A s \in Settings : s # k => b1[s] = b[s]
      BY <1>1, <1>2, <2>1, SetOne
    <2> HIDE DEF b1
    <2>3. b2 \in Boards /\ \A s \in Settings : s # d => b2[s] = b1[s]
      <3>1. y \in Int
        BY <1>2
      <3>2. QED
        BY <1>1, <2>1, <2>2, <3>1, SetOne
    <2> HIDE DEF b2
    <2>4. b3 \in Boards /\ \A s \in Settings : s # e => b3[s] = b2[s]
      <3>1. z \in Int
        BY <1>2
      <3>2. QED
        BY <1>1, <2>1, <2>3, <3>1, SetOne
    <2> HIDE DEF b3
    <2>5. OneHoldoff(b, n, v) = b3
      BY <1>3, <1>4
    <2>6. b3[k] = x /\ \A s \in Settings : s \notin {k, d, e} => b3[s] = b[s]
      BY <1>1, <2>2, <2>3, <2>4
    <2>7. QED
      BY <1>4, <2>4, <2>5, <2>6 DEF k, d, e, x
  <1>5. CASE x \notin 1..127
    <2>1. OneHoldoff(b, n, v) = b
      BY <1>2, <1>3, <1>5
    <2>2. QED
      BY <1>5, <2>1 DEF k, x
  <1>6. QED
    BY <1>4, <1>5

LEMMA OneRuleIs ==
  ASSUME NEW b \in Boards, NEW v \in Values, NEW n \in 1..4
  PROVE  LET c == OneRule(b, n, v)
         IN  /\ c \in Boards /\ RuleHolds(c, n, v)
             /\ \A s \in Settings : s \notin RuleOwn(n, v) => c[s] = b[s]
  <1> DEFINE k == RuleMin[n]
             x == v[k]
             h == OneHoldoff(b, n, v)
             a == Put(h, k, x, 0..127)
             c == OneRule(b, n, v)
  <1>1. /\ k \in Wide /\ k \in Settings /\ k \in Keys /\ Rule[n] \in Keys /\ Rule[n] \in Settings
        /\ k # Rule[n] /\ k # RuleStep[n] /\ k # "SLOWER_TRIGGER_RULES"
    BY NumbersAre, NumberedApart, SettingsAre
  <1>2. x \in Int /\ v[Rule[n]] \in Int
    BY <1>1 DEF Values
  <1>3. /\ h \in Boards
        /\ v[Rule[n]] \in 1..127 => h[Rule[n]] = v[Rule[n]]
        /\ v[Rule[n]] <= 0 => h = b
        /\ \A s \in Settings :
             s \notin {Rule[n], RuleStep[n], "SLOWER_TRIGGER_RULES"} => h[s] = b[s]
    BY OneHoldoffIs
  <1>4. c = IF x <= 0 THEN h ELSE IF n < 2 THEN h ELSE a.board
    BY DEF OneRule, tipSetTriggerHoldoffMin, Refused
  <1> HIDE DEF k, x, h, c
  <1>5. /\ a.board \in Boards /\ (x \in 0..127 => a.board[k] = x)
        /\ \A s \in Settings : s # k => a.board[s] = h[s]
    <2>1. Fits(k, x)
      BY <1>1, <1>2, FitsAre
    <2>2. Answers(a, h, {k}) /\ (a.ok => a.board[k] = x) /\ (a.ok <=> x \in 0..127)
      BY <1>1, <1>2, <1>3, <2>1, PutIs
    <2> HIDE DEF a
    <2>3. QED
      BY <2>2 DEF Answers
  <1> HIDE DEF a
  <1>6. c \in Boards /\ (x <= 0 => c = h) /\ \A s \in Settings : s # k => c[s] = h[s]
    BY <1>3, <1>4, <1>5
  <1>7. n >= 2 /\ x \in 1..127 => c[k] = x
    BY <1>2, <1>4, <1>5
  <1>8. c[Rule[n]] = h[Rule[n]]
    BY <1>1, <1>6
  <1>9. RuleHolds(c, n, v)
    BY <1>3, <1>7, <1>8 DEF RuleHolds, k, x
  <1>10. ASSUME NEW s \in Settings, s \notin RuleOwn(n, v) PROVE c[s] = b[s]
    <2>1. x > 0 => s # k
      BY <1>10 DEF RuleOwn, k, x
    <2>2. v[Rule[n]] > 0 => s \notin {Rule[n], RuleStep[n], "SLOWER_TRIGGER_RULES"}
      BY <1>10 DEF RuleOwn
    <2>3. h[s] = b[s]
      BY <1>2, <1>3, <2>2
    <2>4. c[s] = h[s]
      BY <1>2, <1>6, <2>1
    <2>5. QED
      BY <2>3, <2>4
  <1>11. QED
    BY <1>6, <1>9, <1>10 DEF c

\* What the first n inputs have done to b.
InputsDid(c, n, b, v) ==
  /\ c \in Boards
  /\ \A i \in 1..n : InputHolds(c, i, v)
  /\ \A s \in Settings : c[s] # b[s] => \E i \in 1..n : s \in InputOwn(i, v)

LEMMA InputMore ==
  ASSUME NEW b \in Boards, NEW v \in Values, NEW n \in 1..6, NEW c,
         InputsDid(c, n - 1, b, v)
  PROVE  InputsDid(OneInput(c, n, v), n, b, v)
  <1> DEFINE d == OneInput(c, n, v)
  <1>1. c \in Boards /\ \A i \in 1..(n - 1) : InputHolds(c, i, v)
    BY DEF InputsDid
  <1>2. /\ d \in Boards /\ InputHolds(d, n, v)
        /\ \A s \in Settings : s \notin InputOwn(n, v) => d[s] = c[s]
    BY <1>1, OneInputIs
  <1>3. \A i \in 1..(n - 1) : i \in 1..6 /\ i \in 1..n /\ i # n
    OBVIOUS
  <1>4. n \in 1..n /\ \A i \in 1..n : i = n \/ i \in 1..(n - 1)
    OBVIOUS
  <1> HIDE DEF d
  <1>5. \A i \in 1..(n - 1) : InputHolds(d, i, v)
    <2> SUFFICES ASSUME NEW i \in 1..(n - 1) PROVE InputHolds(d, i, v)
      OBVIOUS
    <2>1. InputHolds(c, i, v)
      BY <1>1
    <2>2. PrescaleTS[i] \in Settings /\ PrescaleTS[i] \notin InputOwn(n, v)
      BY <1>3, NumbersAre, NumberedApart, SettingsAre DEF InputOwn
    <2>3. QED
      BY <1>2, <2>1, <2>2 DEF InputHolds
  <1>6. ASSUME NEW s \in Settings, d[s] # b[s] PROVE \E i \in 1..n : s \in InputOwn(i, v)
    <2>1. CASE c[s] # b[s]
      <3>1. PICK i \in 1..(n - 1) : s \in InputOwn(i, v)
        BY <2>1 DEF InputsDid
      <3>2. QED
        BY <1>3, <3>1
    <2>2. CASE c[s] = b[s]
      BY <1>2, <1>4, <1>6, <2>2
    <2>3. QED
      BY <2>1, <2>2
  <1>7. InputsDid(d, n, b, v)
    BY <1>2, <1>4, <1>5, <1>6 DEF InputsDid
  <1>8. QED
    BY <1>7 DEF d

\* The fold that takes the inputs one by one.
InputsFrom(b, v) ==
  LET NextInput(at, n) == OneInput(at, n, v)
  IN  FoldLeft(NextInput, b, <<1, 2, 3, 4, 5, 6>>)

LEMMA InputsFold ==
  ASSUME NEW b \in Boards, NEW v \in Values
  PROVE  InputsDid(InputsFrom(b, v), 6, b, v)
  <1> DEFINE q == <<1, 2, 3, 4, 5, 6>>
             D == SUBSET DOMAIN q
             P(iter) == iter = [s \in D |->
               IF s = {} THEN b ELSE OneInput(iter[s \ {Max(s)}], q[Max(s)], v)]
             iter == CHOOSE iter : P(iter)
             step == [p \in (1..6) \X Boards |-> OneInput(p[2], p[1], v)]
  <1>1. InputsFrom(b, v) = iter[DOMAIN q]
    BY DEF InputsFrom, FoldLeft, MapThenFoldSet
  <1>2. DOMAIN q = 1..6 /\ \A i \in 1..6 : q[i] = i
    OBVIOUS
  <1> HIDE DEF q
  <1>3. D = SUBSET (1..6)
    BY <1>2
  <1>4. step \in [(1..6) \X Boards -> Boards]
    <2>1. \A p \in (1..6) \X Boards : OneInput(p[2], p[1], v) \in Boards
      <3> SUFFICES ASSUME NEW i \in 1..6, NEW c \in Boards PROVE OneInput(c, i, v) \in Boards
        OBVIOUS
      <3>1. QED
        BY OneInputIs
    <2>2. QED
      BY <2>1
  <1>5. \E g : Folding(g, 6, Boards, b, step)
    <2> HIDE DEF step
    <2>1. QED
      BY <1>4, FoldExists
  <1>6. PICK g : Folding(g, 6, Boards, b, step)
    BY <1>5
  <1>7. \A i \in 1..6, c \in Boards : step[<<i, c>>] = OneInput(c, i, v)
    OBVIOUS
  <1> HIDE DEF step
  <1>8. P(g)
    <2>1. g = [s \in D |-> g[s]]
      BY <1>3, <1>6 DEF Folding
    <2>2. ASSUME NEW s \in D
          PROVE  g[s] = IF s = {} THEN b ELSE OneInput(g[s \ {Max(s)}], q[Max(s)], v)
      <3>1. CASE s = {}
        BY <1>6, <3>1 DEF Folding
      <3>2. CASE s # {}
        <4>1. Max(s) \in 1..6 /\ g[s] = step[<<Max(s), g[s \ {Max(s)}]>>]
          BY <1>3, <1>6, <3>2 DEF Folding
        <4>2. g[s \ {Max(s)}] \in Boards
          BY <1>3, <1>6 DEF Folding
        <4>3. QED
          BY <1>2, <1>7, <3>2, <4>1, <4>2
      <3>3. QED
        BY <3>1, <3>2
    <2>3. QED
      BY <2>1, <2>2
  <1>9. P(iter)
    <2> HIDE DEF P
    <2>1. QED
      BY <1>8
  <1> HIDE DEF iter
  <1>10. iter[1..0] = b
    BY <1>3, <1>9
  <1>11. \A i \in 1..6 : iter[1..i] = OneInput(iter[1..(i - 1)], i, v)
    <2> SUFFICES ASSUME NEW i \in 1..6
                 PROVE  iter[1..i] = OneInput(iter[1..(i - 1)], i, v)
      OBVIOUS
    <2>1. 1..i \in D /\ 1..i # {} /\ i \in 1..i /\ (1..i) \ {i} = 1..(i - 1)
      <3>1. 1..i \in SUBSET (1..6) /\ i \in 1..24
        OBVIOUS
      <3> HIDE DEF D
      <3>2. QED
        BY <1>3, <3>1, OneLess
    <2>2. Max(1..i) = i
      BY <2>1, Greatest
    <2>3. iter[1..i] = OneInput(iter[(1..i) \ {Max(1..i)}], q[Max(1..i)], v)
      BY <1>9, <2>1
    <2>4. q[i] = i
      BY <1>2
    <2> HIDE DEF P
    <2>5. QED
      BY <2>1, <2>2, <2>3, <2>4
  <1> HIDE DEF P
  <1> DEFINE Q == {i \in 0..6 : InputsDid(iter[1..i], i, b, v)}
  <1>12. 0 \in Q
    <2>1. InputsDid(b, 0, b, v)
      BY DEF InputsDid
    <2>2. QED
      BY <1>10, <2>1
  <1>13. ASSUME NEW i \in 1..6, i - 1 \in Q PROVE i \in Q
    <2>1. InputsDid(iter[1..(i - 1)], i - 1, b, v)
      BY <1>13
    <2>2. InputsDid(iter[1..i], i, b, v)
      BY <1>11, <2>1, InputMore
    <2>3. QED
      BY <2>2
  <1>14. \A i \in 0..6 : i \in Q
    <2> HIDE DEF Q
    <2>1. QED
      BY <1>12, <1>13, UpTo
  <1>15. InputsDid(iter[1..6], 6, b, v)
    BY <1>14
  <1>16. QED
    BY <1>1, <1>2, <1>15

\* What the first n rules have done to b.
RulesDid(c, n, b, v) ==
  /\ c \in Boards
  /\ \A i \in 1..n : RuleHolds(c, i, v)
  /\ \A s \in Settings : c[s] # b[s] => \E i \in 1..n : s \in RuleOwn(i, v)

LEMMA RuleMore ==
  ASSUME NEW b \in Boards, NEW v \in Values, NEW n \in 1..4, NEW c,
         RulesDid(c, n - 1, b, v)
  PROVE  RulesDid(OneRule(c, n, v), n, b, v)
  <1> DEFINE d == OneRule(c, n, v)
  <1>1. c \in Boards /\ \A i \in 1..(n - 1) : RuleHolds(c, i, v)
    BY DEF RulesDid
  <1>2. /\ d \in Boards /\ RuleHolds(d, n, v)
        /\ \A s \in Settings : s \notin RuleOwn(n, v) => d[s] = c[s]
    BY <1>1, OneRuleIs
  <1>3. \A i \in 1..(n - 1) : i \in 1..4 /\ i \in 1..n /\ i # n
    OBVIOUS
  <1>4. n \in 1..n /\ \A i \in 1..n : i = n \/ i \in 1..(n - 1)
    OBVIOUS
  <1> HIDE DEF d
  <1>5. \A i \in 1..(n - 1) : RuleHolds(d, i, v)
    <2> SUFFICES ASSUME NEW i \in 1..(n - 1) PROVE RuleHolds(d, i, v)
      OBVIOUS
    <2>1. RuleHolds(c, i, v)
      BY <1>1
    <2>2. Rule[i] \in Settings /\ Rule[i] \notin RuleOwn(n, v)
      BY <1>3, NumbersAre, NumberedApart, SettingsAre DEF RuleOwn
    <2>3. RuleMin[i] \in Settings /\ RuleMin[i] \notin RuleOwn(n, v)
      BY <1>3, NumbersAre, NumberedApart, SettingsAre DEF RuleOwn
    <2>4. QED
      BY <1>2, <2>1, <2>2, <2>3 DEF RuleHolds
  <1>6. ASSUME NEW s \in Settings, d[s] # b[s] PROVE \E i \in 1..n : s \in RuleOwn(i, v)
    <2>1. CASE c[s] # b[s]
      <3>1. PICK i \in 1..(n - 1) : s \in RuleOwn(i, v)
        BY <2>1 DEF RulesDid
      <3>2. QED
        BY <1>3, <3>1
    <2>2. CASE c[s] = b[s]
      BY <1>2, <1>4, <1>6, <2>2
    <2>3. QED
      BY <2>1, <2>2
  <1>7. RulesDid(d, n, b, v)
    BY <1>2, <1>4, <1>5, <1>6 DEF RulesDid
  <1>8. QED
    BY <1>7 DEF d

\* The fold that takes the rules one by one.
RulesFrom(b, v) ==
  LET NextRule(at, n) == OneRule(at, n, v)
  IN  FoldLeft(NextRule, b, <<1, 2, 3, 4>>)

LEMMA RulesFold ==
  ASSUME NEW b \in Boards, NEW v \in Values
  PROVE  RulesDid(RulesFrom(b, v), 4, b, v)
  <1> DEFINE q == <<1, 2, 3, 4>>
             D == SUBSET DOMAIN q
             P(iter) == iter = [s \in D |->
               IF s = {} THEN b ELSE OneRule(iter[s \ {Max(s)}], q[Max(s)], v)]
             iter == CHOOSE iter : P(iter)
             step == [p \in (1..4) \X Boards |-> OneRule(p[2], p[1], v)]
  <1>1. RulesFrom(b, v) = iter[DOMAIN q]
    BY DEF RulesFrom, FoldLeft, MapThenFoldSet
  <1>2. DOMAIN q = 1..4 /\ \A i \in 1..4 : q[i] = i
    OBVIOUS
  <1> HIDE DEF q
  <1>3. D = SUBSET (1..4)
    BY <1>2
  <1>4. step \in [(1..4) \X Boards -> Boards]
    <2>1. \A p \in (1..4) \X Boards : OneRule(p[2], p[1], v) \in Boards
      <3> SUFFICES ASSUME NEW i \in 1..4, NEW c \in Boards PROVE OneRule(c, i, v) \in Boards
        OBVIOUS
      <3>1. QED
        BY OneRuleIs
    <2>2. QED
      BY <2>1
  <1>5. \E g : Folding(g, 4, Boards, b, step)
    <2> HIDE DEF step
    <2>1. QED
      BY <1>4, FoldExists
  <1>6. PICK g : Folding(g, 4, Boards, b, step)
    BY <1>5
  <1>7. \A i \in 1..4, c \in Boards : step[<<i, c>>] = OneRule(c, i, v)
    OBVIOUS
  <1> HIDE DEF step
  <1>8. P(g)
    <2>1. g = [s \in D |-> g[s]]
      BY <1>3, <1>6 DEF Folding
    <2>2. ASSUME NEW s \in D
          PROVE  g[s] = IF s = {} THEN b ELSE OneRule(g[s \ {Max(s)}], q[Max(s)], v)
      <3>1. CASE s = {}
        BY <1>6, <3>1 DEF Folding
      <3>2. CASE s # {}
        <4>1. Max(s) \in 1..4 /\ g[s] = step[<<Max(s), g[s \ {Max(s)}]>>]
          BY <1>3, <1>6, <3>2 DEF Folding
        <4>2. g[s \ {Max(s)}] \in Boards
          BY <1>3, <1>6 DEF Folding
        <4>3. QED
          BY <1>2, <1>7, <3>2, <4>1, <4>2
      <3>3. QED
        BY <3>1, <3>2
    <2>3. QED
      BY <2>1, <2>2
  <1>9. P(iter)
    <2> HIDE DEF P
    <2>1. QED
      BY <1>8
  <1> HIDE DEF iter
  <1>10. iter[1..0] = b
    BY <1>3, <1>9
  <1>11. \A i \in 1..4 : iter[1..i] = OneRule(iter[1..(i - 1)], i, v)
    <2> SUFFICES ASSUME NEW i \in 1..4
                 PROVE  iter[1..i] = OneRule(iter[1..(i - 1)], i, v)
      OBVIOUS
    <2>1. 1..i \in D /\ 1..i # {} /\ i \in 1..i /\ (1..i) \ {i} = 1..(i - 1)
      <3>1. 1..i \in SUBSET (1..4) /\ i \in 1..24
        OBVIOUS
      <3> HIDE DEF D
      <3>2. QED
        BY <1>3, <3>1, OneLess
    <2>2. Max(1..i) = i
      BY <2>1, Greatest
    <2>3. iter[1..i] = OneRule(iter[(1..i) \ {Max(1..i)}], q[Max(1..i)], v)
      BY <1>9, <2>1
    <2>4. q[i] = i
      BY <1>2
    <2> HIDE DEF P
    <2>5. QED
      BY <2>1, <2>2, <2>3, <2>4
  <1> HIDE DEF P
  <1> DEFINE Q == {i \in 0..4 : RulesDid(iter[1..i], i, b, v)}
  <1>12. 0 \in Q
    <2>1. RulesDid(b, 0, b, v)
      BY DEF RulesDid
    <2>2. QED
      BY <1>10, <2>1
  <1>13. ASSUME NEW i \in 1..4, i - 1 \in Q PROVE i \in Q
    <2>1. RulesDid(iter[1..(i - 1)], i - 1, b, v)
      BY <1>13
    <2>2. RulesDid(iter[1..i], i, b, v)
      BY <1>11, <2>1, RuleMore
    <2>3. QED
      BY <2>2
  <1>14. \A i \in 0..4 : i \in Q
    <2> HIDE DEF Q
    <2>1. QED
      BY <1>12, <1>13, UpTo
  <1>15. RulesDid(iter[1..4], 4, b, v)
    BY <1>14
  <1>16. QED
    BY <1>1, <1>2, <1>15

LEMMA InputsDo ==
  ASSUME NEW b \in Boards, NEW v \in Values
  PROVE  LET c == Inputs(b, v)
         IN  /\ c \in Boards
             /\ \A n \in 1..6 : InputHolds(c, n, v)
             /\ \A k \in Elements(EnableTS) : v[k] > 0 => c[k] = 1
             /\ \A s \in Settings : c[s] # b[s] =>
                  \/ \E n \in 1..6 : s \in InputOwn(n, v)
                  \/ s \in Elements(EnableTS) /\ \E k \in Elements(EnableTS) : v[k] > 0
  <1> DEFINE mask == Asked(v, Elements(EnableTS))
             set == InputsFrom(b, v)
             c == Inputs(b, v)
  <1>1. c = IF mask = {} THEN set ELSE tipEnableTSInput(set, mask).board
    BY DEF Inputs, InputsFrom, OneInput
  <1>2. InputsDid(set, 6, b, v)
    BY InputsFold
  <1> HIDE DEF set, c
  <1>3. /\ set \in Boards /\ \A n \in 1..6 : InputHolds(set, n, v)
        /\ \A s \in Settings : set[s] # b[s] => \E n \in 1..6 : s \in InputOwn(n, v)
    BY <1>2 DEF InputsDid
  <1>4. \A k \in Elements(EnableTS) : k \in mask <=> v[k] > 0
    BY DEF Asked
  <1>5. CASE mask = {}
    <2>1. c = set
      BY <1>1, <1>5
    <2>2. \A k \in Elements(EnableTS) : ~(v[k] > 0)
      BY <1>4, <1>5
    <2> HIDE DEF mask
    <2>3. QED
      BY <1>3, <2>1, <2>2 DEF c
  <1>6. CASE mask # {}
    <2>1. PICK k \in mask : TRUE
      BY <1>6
    <2>2. k \in Elements(EnableTS) /\ v[k] > 0
      BY <2>1 DEF Asked
    <2> HIDE DEF mask
    <2>3. Elements(EnableTS) \subseteq Settings
      BY SettingsAre DEF OneBits
    <2>4. c = [s \in Settings |-> IF s \in Elements(EnableTS)
                                  THEN IF s \in mask THEN 1 ELSE 0 ELSE set[s]]
      BY <1>1, <1>3, <1>6, BoardIs DEF tipEnableTSInput, Done, Bit
    <2>5. c \in Boards
      <3>1. \A s \in Settings : c[s] \in Int /\ Fits(s, c[s])
        <4> SUFFICES ASSUME NEW s \in Settings PROVE c[s] \in Int /\ Fits(s, c[s])
          OBVIOUS
        <4>1. CASE s \in Elements(EnableTS)
          <5>1. c[s] \in {0, 1} /\ s \in OneBits
            BY <2>4, <4>1, NumberedApart
          <5>2. QED
            BY <5>1, FitsAre
        <4>2. CASE s \notin Elements(EnableTS)
          BY <1>3, <2>4, <4>2, BoardIs
        <4>3. QED
          BY <4>1, <4>2
      <3>2. c \in [Settings -> Int]
        BY <2>4, <3>1
      <3>3. QED
        BY <3>1, <3>2 DEF Boards
    <2>6. \A n \in 1..6 : InputHolds(c, n, v)
      <3>1. \A n \in 1..6 : PrescaleTS[n] \in Settings /\ PrescaleTS[n] \notin Elements(EnableTS)
        BY NumbersAre, NumberedApart, SettingsAre
      <3>2. QED
        BY <1>3, <2>4, <3>1 DEF InputHolds
    <2>7. \A s \in Elements(EnableTS) : v[s] > 0 => c[s] = 1
      BY <1>4, <2>3, <2>4
    <2>8. \A s \in Settings : s \notin Elements(EnableTS) => c[s] = set[s]
      BY <2>4
    <2>9. QED
      BY <1>3, <2>2, <2>5, <2>6, <2>7, <2>8 DEF c
  <1>7. QED
    BY <1>5, <1>6

LEMMA RulesDo ==
  ASSUME NEW b \in Boards, NEW v \in Values
  PROVE  RulesDid(Rules(b, v), 4, b, v)
  <1>1. Rules(b, v) = RulesFrom(b, v)
    BY DEF Rules, RulesFrom, OneRule, OneHoldoff
  <1>2. QED
    BY <1>1, RulesFold

-----------------------------------------------------------------------------
(* A whole load *)

\* b has what the file of values v says, as far as a load came that ended
\* with r.
Decided(b, v, r, m) ==
  /\ \A i \in 1..24 : Came(r, i) => Holds(b, Calls[i], v, m)
  /\ r = "none" => /\ \A n \in 1..6 : InputHolds(b, n, v)
                   /\ \A k \in Elements(EnableTS) : v[k] > 0 => b[k] = 1
                   /\ \A n \in 1..4 : RuleHolds(b, n, v)

\* The settings that the inputs and the rules of v may change.
Late(s, v) ==
  \/ \E n \in 1..6 : s \in InputOwn(n, v)
  \/ s \in Elements(EnableTS) /\ \E k \in Elements(EnableTS) : v[k] > 0
  \/ \E n \in 1..4 : s \in RuleOwn(n, v)

\* What a load of v makes of b.
Loaded(load, b, v) ==
  /\ load \in Loads /\ load.refused # "BUSY"
  /\ Decided(load.board, v, load.refused, tipMaster)
  /\ \A s \in Settings : load.board[s] # b[s] =>
       \/ \E i \in 1..24 : /\ s \in Own(Calls[i]) /\ Active(Calls[i], v)
                           /\ Came(load.refused, i) \/ load.refused = Calls[i]
       \/ load.refused = "none" /\ Late(s, v)

\* The inputs' settings and the rules' are neither the calls' nor each other's.
InputSettings == Elements(PrescaleTS) \union Elements(DelayTS) \union Elements(EnableTS)
RuleSettings  == Elements(Rule) \union Elements(RuleStep) \union Elements(RuleMin)
                   \union {"SLOWER_TRIGGER_RULES"}
CallSettings  == (Elements(Calls) \ {"BUSY"}) \union BusyKeys

LEMMA LateApart ==
  /\ InputSettings \intersect RuleSettings = {}
  /\ InputSettings \intersect CallSettings = {}
  /\ RuleSettings \intersect CallSettings = {}
  /\ InputSettings \union RuleSettings \union CallSettings \subseteq Settings
  <1>1. /\ InputSettings \intersect RuleSettings = {}
        /\ InputSettings \intersect CallSettings = {}
        /\ RuleSettings \intersect CallSettings = {}
    BY NamesAre DEF InputSettings, RuleSettings, CallSettings, BusyKeys, ReadoutCalls
  <1>2. CallSettings \subseteq Settings
    BY SettingsAre, NamesAre DEF CallSettings, ReadoutCalls, OneBits
  <1>3. InputSettings \union RuleSettings \subseteq Settings
    BY SettingsAre, NumberedApart DEF InputSettings, RuleSettings
  <1>4. QED
    BY <1>1, <1>2, <1>3

LEMMA OwnSettings ==
  ASSUME NEW v
  PROVE  /\ \A n \in 1..6 : InputOwn(n, v) \subseteq InputSettings
         /\ \A n \in 1..4 : RuleOwn(n, v) \subseteq RuleSettings
  BY NumbersAre DEF InputOwn, RuleOwn, InputSettings, RuleSettings

LEMMA HoldsOn ==
  ASSUME NEW b, NEW c, NEW v, NEW m, NEW k \in Elements(Calls), Holds(b, k, v, m),
         \A s \in CallSettings : c[s] = b[s]
  PROVE  Holds(c, k, v, m)
  <1>1. k # "BUSY" => k \in CallSettings
    BY DEF CallSettings
  <1>2. BusyKeys \subseteq CallSettings /\ "BUSY_SOURCE_FIBER1" \in BusyKeys
    BY NamesAre DEF CallSettings, BusyKeys
  <1>3. QED
    BY <1>1, <1>2 DEF Holds

LEMMA LoadIs ==
  ASSUME NEW b \in Boards, NEW v \in Values, tipMaster \in BOOLEAN, NEW sticks \in BOOLEAN
  PROVE  Loaded(param2ti(b, v, sticks), b, v)
  <1> DEFINE g == General(b, v, sticks)
             in == Inputs(g.board, v)
             c == Rules(in, v)
             load == param2ti(b, v, sticks)
  <1>1. /\ g \in Loads /\ g.board \in Boards /\ g.refused # "BUSY"
        /\ \A i \in 1..24 : Came(g.refused, i) => Holds(g.board, Calls[i], v, tipMaster)
        /\ \A s \in Settings : g.board[s] # b[s] =>
             \E i \in 1..24 : /\ s \in Own(Calls[i]) /\ Active(Calls[i], v)
                              /\ Came(g.refused, i) \/ g.refused = Calls[i]
    BY GeneralDoes DEF Did, Loads
  <1>2. load = IF g.refused # "none" THEN g ELSE [g EXCEPT !.board = c]
    BY DEF param2ti
  <1> HIDE DEF g, load
  <1>3. CASE g.refused # "none"
    <2>1. load = g
      BY <1>2, <1>3
    <2>2. Loaded(g, b, v)
      BY <1>1, <1>3 DEF Loaded, Decided
    <2>3. QED
      BY <2>1, <2>2 DEF load
  <1>4. CASE g.refused = "none"
    <2>1. /\ in \in Boards /\ \A n \in 1..6 : InputHolds(in, n, v)
          /\ \A k \in Elements(EnableTS) : v[k] > 0 => in[k] = 1
          /\ \A s \in Settings : in[s] # g.board[s] =>
               \/ \E n \in 1..6 : s \in InputOwn(n, v)
               \/ s \in Elements(EnableTS) /\ \E k \in Elements(EnableTS) : v[k] > 0
      BY <1>1, InputsDo
    <2> HIDE DEF in
    <2>2. /\ c \in Boards /\ \A n \in 1..4 : RuleHolds(c, n, v)
          /\ \A s \in Settings : c[s] # in[s] => \E n \in 1..4 : s \in RuleOwn(n, v)
      BY <2>1, RulesDo DEF RulesDid
    <2> HIDE DEF c
    <2>3. load.board = c /\ load.refused = "none" /\ load \in Loads
      BY <1>1, <1>2, <1>4, <2>2 DEF Loads
    <2>4. \A s \in InputSettings : c[s] = in[s]
      BY <2>2, LateApart, OwnSettings
    <2>5. \A s \in CallSettings : in[s] = g.board[s] /\ c[s] = in[s]
      BY <2>1, <2>2, LateApart, OwnSettings DEF InputSettings
    <2>6. \A i \in 1..24 : Holds(c, Calls[i], v, tipMaster)
      <3> SUFFICES ASSUME NEW i \in 1..24 PROVE Holds(c, Calls[i], v, tipMaster)
        OBVIOUS
      <3>1. Holds(g.board, Calls[i], v, tipMaster) /\ Calls[i] \in Elements(Calls)
        BY <1>1, <1>4, CallOf DEF Came
      <3>2. QED
        BY <2>5, <3>1, HoldsOn
    <2>7. \A n \in 1..6 : InputHolds(c, n, v)
      BY <2>1, <2>4, NumbersAre DEF InputHolds, InputSettings
    <2>8. \A k \in Elements(EnableTS) : v[k] > 0 => c[k] = 1
      BY <2>1, <2>4 DEF InputSettings
    <2>9. Decided(load.board, v, load.refused, tipMaster)
      BY <2>2, <2>3, <2>6, <2>7, <2>8 DEF Decided
    <2>10. ASSUME NEW s \in Settings, load.board[s] # b[s]
           PROVE  \/ \E i \in 1..24 : /\ s \in Own(Calls[i]) /\ Active(Calls[i], v)
                                      /\ Came(load.refused, i) \/ load.refused = Calls[i]
                  \/ load.refused = "none" /\ Late(s, v)
      <3>1. CASE g.board[s] # b[s]
        BY <1>1, <1>4, <2>3, <3>1
      <3>2. CASE in[s] # g.board[s]
        BY <2>1, <2>3, <3>2 DEF Late
      <3>3. CASE c[s] # in[s]
        BY <2>2, <2>3, <3>3 DEF Late
      <3>4. QED
        BY <2>3, <2>10, <3>1, <3>2, <3>3
    <2>11. Loaded(load, b, v)
      BY <2>3, <2>9, <2>10 DEF Loaded
    <2>12. QED
      BY <2>11 DEF load
  <1>5. QED
    BY <1>3, <1>4

-----------------------------------------------------------------------------
(* The pulsers' settings *)

PulserSettings == {"FIXED_NUMBER", "FIXED_PERIOD", "FIXED_RANGE", "RANDOM_ENABLE",
  "RANDOM_PRESCALE", "RANDOM_ENABLE_2"}

LEMMA PulsersApart ==
  /\ PulserSettings \intersect (InputSettings \union RuleSettings \union CallSettings) = {}
  /\ \A k \in Elements(Calls) : Own(k) \intersect PulserSettings = {}
  /\ PulserSettings \subseteq Settings
  <1>1. PulserSettings \intersect (InputSettings \union RuleSettings \union CallSettings) = {}
    BY NamesAre DEF PulserSettings, InputSettings, RuleSettings, CallSettings, BusyKeys,
       ReadoutCalls
  <1>2. \A k \in Elements(Calls) : k \notin PulserSettings
    BY NamesAre DEF PulserSettings, ReadoutCalls
  <1>3. BusyKeys \intersect PulserSettings = {}
    BY <1>1 DEF CallSettings
  <1>4. \A k \in Elements(Calls) : Own(k) \intersect PulserSettings = {}
    <2> SUFFICES ASSUME NEW k \in Elements(Calls) PROVE Own(k) \intersect PulserSettings = {}
      OBVIOUS
    <2>1. CASE k = "BUSY"
      BY <1>3, <2>1, OwnIs
    <2>2. CASE k # "BUSY"
      <3>1. Own(k) \subseteq {k, "BUSY_SOURCE_FIBER1", "TRIGGER_OUTPUT_WIDTH",
              "TRIGGER_OUTPUT_DELAYSTEP", "TRIGGER_2_PULSE", "SYNCRESET_WIDTH",
              "SYNCRESET_WIDTHSTEP", "RANDOM_PULSER_EVENTTYPE"}
        BY <2>2, OwnIs
      <3>2. QED
        BY <1>2, <3>1 DEF PulserSettings
    <2>3. QED
      BY <2>1, <2>2
  <1>5. PulserSettings \subseteq Settings
    BY SettingsAre DEF PulserSettings, Scales, Wide
  <1>6. QED
    BY <1>1, <1>4, <1>5

LEMMA LoadKeepsPulsers ==
  ASSUME NEW load, NEW b, NEW v, Loaded(load, b, v), NEW s \in PulserSettings
  PROVE  load.board[s] = b[s]
  <1>1. s \in Settings
    BY PulsersApart
  <1>2. \A i \in 1..24 : s \notin Own(Calls[i])
    BY PulsersApart, CallOf
  <1>3. ~Late(s, v)
    BY PulsersApart, OwnSettings DEF Late, InputSettings
  <1>4. QED
    BY <1>1, <1>2, <1>3 DEF Loaded

LEMMA DecidedStays ==
  ASSUME NEW b, NEW c, NEW v, NEW m, NEW r, Decided(b, v, r, m),
         \A s \in Settings : s \notin PulserSettings => c[s] = b[s]
  PROVE  Decided(c, v, r, m)
  <1>1. \A s \in InputSettings \union RuleSettings \union CallSettings : c[s] = b[s]
    BY PulsersApart, LateApart
  <1>2. \A i \in 1..24 : Holds(b, Calls[i], v, m) => Holds(c, Calls[i], v, m)
    <2> SUFFICES ASSUME NEW i \in 1..24, Holds(b, Calls[i], v, m) PROVE Holds(c, Calls[i], v, m)
      OBVIOUS
    <2>1. QED
      BY <1>1, CallOf, HoldsOn
  <1>3. \A n \in 1..6 : InputHolds(b, n, v) => InputHolds(c, n, v)
    BY <1>1, NumbersAre DEF InputHolds, InputSettings
  <1>4. \A n \in 1..4 : RuleHolds(b, n, v) => RuleHolds(c, n, v)
    BY <1>1, NumbersAre DEF RuleHolds, RuleSettings
  <1>5. \A k \in Elements(EnableTS) : c[k] = b[k]
    BY <1>1 DEF InputSettings
  <1>6. QED
    BY <1>2, <1>3, <1>4, <1>5 DEF Decided

\* b and c differ in settings of the pulsers at most.
PulsersOnly(b, c) ==
  c \in Boards /\ \A s \in Settings : s \notin PulserSettings => c[s] = b[s]

LEMMA SoftTrigIs ==
  ASSUME NEW b \in Boards, NEW n \in Int, NEW p \in Int, NEW r \in Int
  PROVE  LET c == tipSoftTrig(b, n, p, r).board
         IN  /\ PulsersOnly(b, c)
             /\ c["RANDOM_ENABLE"] = b["RANDOM_ENABLE"]
             /\ c["RANDOM_ENABLE_2"] = b["RANDOM_ENABLE_2"]
             /\ n = 0 /\ p = 0 /\ r = 0 => c["FIXED_NUMBER"] = 0
  <1> DEFINE k == "FIXED_NUMBER"
             d == "FIXED_PERIOD"
             e == "FIXED_RANGE"
             b1 == [b EXCEPT ![k] = n]
             b2 == [b1 EXCEPT ![d] = p]
             b3 == [b2 EXCEPT ![e] = r]
             c == tipSoftTrig(b, n, p, r).board
  <1>1. /\ {k, d, e} \subseteq Wide /\ {k, d, e} \subseteq Settings
        /\ {k, d, e} \subseteq PulserSettings
        /\ "RANDOM_ENABLE" \in Settings /\ "RANDOM_ENABLE_2" \in Settings
    BY SettingsAre DEF Wide, PulserSettings
  <1>2. c \in {b, b3} /\ (n = 0 /\ p = 0 /\ r = 0 => c = b3)
    <2> DEFINE bad == n \notin 0..65535 \/ p \notin 0..32767 \/ r \notin {0, 1}
    <2>1. tipSoftTrig(b, n, p, r) = IF bad THEN Refused(b) ELSE Done(b3)
      BY SMT DEF tipSoftTrig
    <2>2. n = 0 /\ p = 0 /\ r = 0 => ~bad
      BY SMT
    <2> HIDE DEF bad, b3
    <2>3. QED
      BY <2>1, <2>2 DEF Done, Refused
  <1> HIDE DEF c
  <1>3. b1 \in Boards /\ b1[k] = n /\ \A s \in Settings : s # k => b1[s] = b[s]
    BY <1>1, FitsAre, SetOne
  <1> HIDE DEF b1
  <1>4. b2 \in Boards /\ \A s \in Settings : s # d => b2[s] = b1[s]
    BY <1>1, <1>3, FitsAre, SetOne
  <1> HIDE DEF b2
  <1>5. b3 \in Boards /\ \A s \in Settings : s # e => b3[s] = b2[s]
    BY <1>1, <1>4, FitsAre, SetOne
  <1> HIDE DEF b3
  <1>6. b3[k] = n /\ \A s \in Settings : s \notin {k, d, e} => b3[s] = b[s]
    BY <1>1, <1>3, <1>4, <1>5
  <1>7. PulsersOnly(b, b) /\ PulsersOnly(b, b3)
    BY <1>1, <1>5, <1>6 DEF PulsersOnly
  <1>8. QED
    BY <1>1, <1>2, <1>6, <1>7 DEF c

\* What the random pulser's register is written with.
Randomized(b, x, y, z) ==
  [b EXCEPT !["RANDOM_ENABLE"] = x, !["RANDOM_PRESCALE"] = y, !["RANDOM_ENABLE_2"] = z]

LEMMA RandomIs ==
  ASSUME NEW b \in Boards, NEW x, NEW y, NEW z, x \in Int, y \in 0..15, z \in Int
  PROVE  LET c == Randomized(b, x, y, z)
         IN  /\ PulsersOnly(b, c)
             /\ c["FIXED_NUMBER"] = b["FIXED_NUMBER"]
             /\ c["RANDOM_ENABLE"] = x /\ c["RANDOM_ENABLE_2"] = z
  <1> DEFINE k == "RANDOM_ENABLE"
             d == "RANDOM_PRESCALE"
             e == "RANDOM_ENABLE_2"
             b1 == [b EXCEPT ![k] = x]
             b2 == [b1 EXCEPT ![d] = y]
             b3 == [b2 EXCEPT ![e] = z]
  <1>1. /\ {k, e} \subseteq Wide /\ d \in Scales /\ {k, d, e} \subseteq Settings
        /\ {k, d, e} \subseteq PulserSettings /\ "FIXED_NUMBER" \in Settings
    BY SettingsAre DEF Wide, Scales, PulserSettings
  <1>2. x \in Int /\ y \in Int /\ z \in Int /\ Fits(k, x) /\ Fits(d, y) /\ Fits(e, z)
    BY <1>1, FitsAre
  <1>3. b1 \in Boards /\ b1[k] = x /\ \A s \in Settings : s # k => b1[s] = b[s]
    BY <1>1, <1>2, SetOne
  <1> HIDE DEF b1
  <1>4. b2 \in Boards /\ \A s \in Settings : s # d => b2[s] = b1[s]
    BY <1>1, <1>2, <1>3, SetOne
  <1> HIDE DEF b2
  <1>5. b3 \in Boards /\ b3[e] = z /\ \A s \in Settings : s # e => b3[s] = b2[s]
    BY <1>1, <1>2, <1>4, SetOne
  <1> HIDE DEF b3
  <1>6. b3[k] = x /\ \A s \in Settings : s \notin {k, d, e} => b3[s] = b[s]
    BY <1>1, <1>3, <1>4, <1>5
  <1>7. PulsersOnly(b, b3) /\ b3["FIXED_NUMBER"] = b["FIXED_NUMBER"]
    BY <1>1, <1>5, <1>6 DEF PulsersOnly
  <1>8. QED
    BY <1>5, <1>6, <1>7 DEF b1, b2, b3, Randomized

LEMMA BoardType == \A b \in Boards, s \in Settings : b[s] \in Int
  BY BoardIs

LEMMA PulserKeysAre ==
  ASSUME ini \in Values
  PROVE  \A k \in PulserKeys : ini[k] \in Int
  BY SettingsAre DEF Values

LEMMA GoIs ==
  ASSUME NEW b \in Boards, ini \in Values
  PROVE  /\ PulsersOnly(b, Random(Fixed(b)))
         /\ ini["FIXED_ENABLE"] = 0 =>
              Random(Fixed(b))["FIXED_NUMBER"] = b["FIXED_NUMBER"]
         /\ ini["RANDOM_ENABLE"] = 0 =>
              /\ Random(Fixed(b))["RANDOM_ENABLE"] = b["RANDOM_ENABLE"]
              /\ Random(Fixed(b))["RANDOM_ENABLE_2"] = b["RANDOM_ENABLE_2"]
  <1> DEFINE c == Fixed(b)
             d == Random(c)
             x == ini["RANDOM_PRESCALE"]
  <1>1. \A k \in {"FIXED_NUMBER", "FIXED_RANGE", "RANDOM_PRESCALE"} : ini[k] \in Int
    BY PulserKeysAre DEF PulserKeys
  <1>2. /\ PulsersOnly(b, c) /\ c["RANDOM_ENABLE"] = b["RANDOM_ENABLE"]
        /\ c["RANDOM_ENABLE_2"] = b["RANDOM_ENABLE_2"]
        /\ ini["FIXED_ENABLE"] = 0 => c = b
    <2>1. CASE ini["FIXED_ENABLE"] = 0
      BY <2>1 DEF Fixed, PulsersOnly
    <2>2. CASE ini["FIXED_ENABLE"] # 0
      <3> DEFINE n == ini["FIXED_NUMBER"]
                 r == ini["FIXED_RANGE"]
      <3>1. c = tipSoftTrig(b, n, n, r).board
        BY <2>2 DEF Fixed
      <3>2. n \in Int /\ r \in Int
        BY <1>1
      <3> HIDE DEF n, r, c
      <3>3. QED
        BY <2>2, <3>1, <3>2, SoftTrigIs
    <2>3. QED
      BY <2>1, <2>2
  <1> HIDE DEF c
  <1>3. c \in Boards
    BY <1>2 DEF PulsersOnly
  <1>4. /\ PulsersOnly(c, d) /\ d["FIXED_NUMBER"] = c["FIXED_NUMBER"]
        /\ ini["RANDOM_ENABLE"] = 0 => d = c
    <2>1. CASE ini["RANDOM_ENABLE"] = 0 \/ x > 15
      BY <1>1, <1>3, <2>1 DEF Random, PulsersOnly, tipSetRandomTrigger, Refused
    <2>2. CASE ini["RANDOM_ENABLE"] # 0 /\ ~(x > 15)
      <3> DEFINE y == x % 16
                 z == Bit(x < 0)
                 on == 1
                 e == Randomized(c, on, y, z)
      <3>1. d = e
        BY <2>2 DEF Random, tipSetRandomTrigger, Done, Randomized
      <3>2. y \in 0..15 /\ z \in Int
        BY <1>1 DEF Bit
      <3>3. on \in Int
        OBVIOUS
      <3> HIDE DEF y, z, on
      <3>4. PulsersOnly(c, e) /\ e["FIXED_NUMBER"] = c["FIXED_NUMBER"]
        BY <1>3, <3>2, <3>3, RandomIs
      <3> HIDE DEF e, d
      <3>5. QED
        BY <2>2, <3>1, <3>4
    <2>3. QED
      BY <2>1, <2>2
  <1> HIDE DEF d
  <1>5. PulsersOnly(b, d)
    BY <1>2, <1>4 DEF PulsersOnly
  <1>6. QED
    BY <1>2, <1>4, <1>5 DEF c, d

LEMMA EndIs ==
  ASSUME NEW b \in Boards, ini \in Values
  PROVE  LET d == RandomOff(FixedOff(b))
         IN  /\ PulsersOnly(b, d)
             /\ ini["FIXED_ENABLE"] # 0 \/ b["FIXED_NUMBER"] = 0 => d["FIXED_NUMBER"] = 0
             /\ ini["RANDOM_ENABLE"] # 0 \/ (b["RANDOM_ENABLE"] = 0 /\ b["RANDOM_ENABLE_2"] = 0)
                  => d["RANDOM_ENABLE"] = 0 /\ d["RANDOM_ENABLE_2"] = 0
  <1> DEFINE c == FixedOff(b)
             d == RandomOff(c)
  <1>1. 0 \in Int /\ 0 \in 0..1 /\ 0 \in 0..15
    OBVIOUS
  <1>2. /\ PulsersOnly(b, c) /\ c["RANDOM_ENABLE"] = b["RANDOM_ENABLE"]
        /\ c["RANDOM_ENABLE_2"] = b["RANDOM_ENABLE_2"]
        /\ ini["FIXED_ENABLE"] # 0 \/ b["FIXED_NUMBER"] = 0 => c["FIXED_NUMBER"] = 0
    <2>1. CASE ini["FIXED_ENABLE"] = 0
      BY <2>1 DEF FixedOff, PulsersOnly
    <2>2. CASE ini["FIXED_ENABLE"] # 0
      <3>1. c = tipSoftTrig(b, 0, 0, 0).board
        BY <2>2 DEF FixedOff
      <3> HIDE DEF c
      <3>2. QED
        BY <1>1, <3>1, SoftTrigIs
    <2>3. QED
      BY <2>1, <2>2
  <1> HIDE DEF c
  <1>3. c \in Boards
    BY <1>2 DEF PulsersOnly
  <1>4. /\ PulsersOnly(c, d) /\ d["FIXED_NUMBER"] = c["FIXED_NUMBER"]
        /\ ini["RANDOM_ENABLE"] # 0 \/ (c["RANDOM_ENABLE"] = 0 /\ c["RANDOM_ENABLE_2"] = 0)
             => d["RANDOM_ENABLE"] = 0 /\ d["RANDOM_ENABLE_2"] = 0
    <2>1. CASE ini["RANDOM_ENABLE"] = 0
      BY <1>3, <2>1 DEF RandomOff, PulsersOnly
    <2>2. CASE ini["RANDOM_ENABLE"] # 0
      <3> DEFINE off == 0
                 e == Randomized(c, off, off, off)
      <3>1. d = e
        BY <2>2 DEF RandomOff, tipDisableRandomTrigger, Done, Randomized
      <3>2. PulsersOnly(c, e) /\ e["FIXED_NUMBER"] = c["FIXED_NUMBER"]
            /\ e["RANDOM_ENABLE"] = off /\ e["RANDOM_ENABLE_2"] = off
        <4>1. off \in Int /\ off \in 0..15
          OBVIOUS
        <4> HIDE DEF off
        <4>2. QED
          BY <1>3, <4>1, RandomIs
      <3> HIDE DEF e, d
      <3>3. QED
        BY <3>1, <3>2
    <2>3. QED
      BY <2>1, <2>2
  <1> HIDE DEF d
  <1>5. PulsersOnly(b, d)
    BY <1>2, <1>4 DEF PulsersOnly
  <1>6. QED
    BY <1>2, <1>4, <1>5 DEF c, d

LEMMA ResetIs ==
  ASSUME NEW b \in Boards, NEW master \in BOOLEAN
  PROVE  LET c == tipResetSlaveConfig(b, master).board
         IN  c \in Boards /\ \A s \in PulserSettings : c[s] = b[s]
  <1> DEFINE S == Elements(FiberBusy) \union {"ENABLE_FIBER_1"}
             d == [k \in DOMAIN b |-> IF k \in S THEN 0 ELSE b[k]]
  <1>1. tipResetSlaveConfig(b, master).board = IF master THEN d ELSE b
    BY DEF tipResetSlaveConfig, Done, Refused
  <1>2. DOMAIN b = Settings
    BY BoardIs
  <1>3. S \subseteq OneBits \union Wide /\ S \subseteq CallSettings
    BY NamesAre DEF OneBits, Wide, BusyKeys, CallSettings, ReadoutCalls
  <1> HIDE DEF S
  <1>4. d \in Boards
    <2>1. \A k \in Settings : d[k] \in Int /\ Fits(k, d[k])
      <3> SUFFICES ASSUME NEW k \in Settings PROVE d[k] \in Int /\ Fits(k, d[k])
        OBVIOUS
      <3>1. CASE k \in S
        <4>1. d[k] = 0 /\ 0 \in Int /\ 0 \in {0, 1}
          BY <1>2, <3>1
        <4> HIDE DEF d
        <4>2. QED
          BY <1>3, <3>1, <4>1, FitsAre
      <3>2. CASE k \notin S
        BY <1>2, <3>2, BoardIs
      <3>3. QED
        BY <3>1, <3>2
    <2>2. d \in [Settings -> Int]
      BY <1>2, <2>1
    <2> HIDE DEF d
    <2>3. QED
      BY <2>1, <2>2 DEF Boards
  <1>5. \A s \in PulserSettings : d[s] = b[s]
    BY <1>2, <1>3, PulsersApart
  <1> HIDE DEF d
  <1>6. QED
    BY <1>1, <1>4, <1>5

-----------------------------------------------------------------------------
(* The start *)

Named == {"BUSY_SOURCE_LOOPBACK", "SYNC_SOURCE", "TRIGGER_SOURCE", "CLOCK_SOURCE",
  "SYNCRESET_DELAY", "SYNCRESET_WIDTH", "CRATE_ID", "BLOCK_LEVEL", "BLOCK_BUFFER_LEVEL",
  "EVENT_FORMAT", "TRIGGER_OUTPUT_WIDTH", "TRIGGER_2_PULSE"}

LEMMA StartIs ==
  ASSUME NEW m \in BOOLEAN, Named \subseteq Settings
  PROVE  LET b == AfterInit(m)
         IN  /\ DOMAIN b = Settings
             /\ \A s \in Settings \ Named : b[s] = 0
             /\ b["BUSY_SOURCE_LOOPBACK"] = Bit(m)
             /\ b["SYNC_SOURCE"] = IF m THEN 16 ELSE 2
             /\ b["TRIGGER_SOURCE"] = Bit(~m) /\ b["CLOCK_SOURCE"] = Bit(~m)
             /\ b["SYNCRESET_DELAY"] = IF m THEN 84 ELSE 0
             /\ b["SYNCRESET_WIDTH"] = IF m THEN 47 ELSE 36
             /\ b["CRATE_ID"] = 89
             /\ b["BLOCK_LEVEL"] = 1 /\ b["BLOCK_BUFFER_LEVEL"] = 1
             /\ b["EVENT_FORMAT"] = 3
             /\ b["TRIGGER_OUTPUT_WIDTH"] = 15 /\ b["TRIGGER_2_PULSE"] = 15
  BY Zenon DEF AfterInit, Named

LEMMA StartFits ==
  ASSUME NEW m \in BOOLEAN
  PROVE  AfterInit(m) \in Boards /\ \A s \in PulserSettings : AfterInit(m)[s] = 0
  <1> DEFINE b == AfterInit(m)
  <1>1. Named \subseteq Settings
    BY SettingsAre, NamesAre DEF Named, OneBits, Small, Delays, Wide, BusyKeys
  <1>2. PulserSettings \subseteq Settings \ Named
    BY PulsersApart DEF PulserSettings, Named
  <1>3. /\ "BUSY_SOURCE_LOOPBACK" \in OneBits
        /\ {"CRATE_ID", "BLOCK_LEVEL", "BLOCK_BUFFER_LEVEL", "TRIGGER_OUTPUT_WIDTH"} \subseteq Small
        /\ {"SYNCRESET_DELAY", "SYNCRESET_WIDTH"} \subseteq Delays
        /\ {"SYNC_SOURCE", "TRIGGER_SOURCE", "CLOCK_SOURCE", "EVENT_FORMAT",
            "TRIGGER_2_PULSE"} \subseteq Wide
    BY NamesAre DEF OneBits, Small, Delays, Wide, BusyKeys
  <1>4. \A s \in Settings : b[s] \in Int /\ Fits(s, b[s])
    <2> SUFFICES ASSUME NEW s \in Settings PROVE b[s] \in Int /\ Fits(s, b[s])
      OBVIOUS
    <2> HIDE DEF b
    <2>1. CASE s \notin Named
      <3>1. b[s] = 0 /\ 0 \in {0, 1} /\ 0 \in Bytes /\ 0 \in 0..127 /\ 0 \in 0..15
        BY <1>1, <2>1, StartIs DEF b, Bytes
      <3>2. QED
        BY <3>1, FitsAre, SettingsAre
    <2>2. CASE s = "BUSY_SOURCE_LOOPBACK"
      <3>1. b[s] = Bit(m)
        BY <1>1, <2>2, StartIs DEF b
      <3>2. b[s] \in {0, 1}
        BY <3>1 DEF Bit
      <3>3. QED
        BY <1>3, <2>2, <3>2, FitsAre
    <2>3. CASE s \in {"SYNC_SOURCE", "EVENT_FORMAT", "TRIGGER_2_PULSE"}
      <3>1. b[s] \in {2, 3, 15, 16}
        BY <1>1, <2>3, StartIs DEF b
      <3>2. QED
        BY <1>3, <2>3, <3>1, FitsAre
    <2>4. CASE s \in {"TRIGGER_SOURCE", "CLOCK_SOURCE"}
      <3>1. b[s] = Bit(~m)
        BY <1>1, <2>4, StartIs DEF b
      <3>2. b[s] \in {0, 1}
        BY <3>1 DEF Bit
      <3>3. QED
        BY <1>3, <2>4, <3>2, FitsAre
    <2>5. CASE s \in {"SYNCRESET_DELAY", "SYNCRESET_WIDTH"}
      <3>1. b[s] \in {84, 0, 47, 36}
        BY <1>1, <2>5, StartIs DEF b
      <3>2. QED
        BY <1>3, <2>5, <3>1, FitsAre
    <2>6. CASE s \in {"CRATE_ID", "BLOCK_LEVEL", "BLOCK_BUFFER_LEVEL", "TRIGGER_OUTPUT_WIDTH"}
      <3>1. b[s] \in {89, 1, 15}
        BY <1>1, <2>6, StartIs DEF b
      <3>2. QED
        BY <1>3, <2>6, <3>1, FitsAre DEF Bytes
    <2>7. QED
      BY <2>1, <2>2, <2>3, <2>4, <2>5, <2>6 DEF Named
  <1>5. b \in [Settings -> Int]
    <2>1. b = [s \in Settings |-> b[s]]
      BY Zenon DEF AfterInit
    <2> HIDE DEF b
    <2>2. QED
      BY <1>4, <2>1
  <1>6. \A s \in PulserSettings : b[s] = 0
    BY <1>1, <1>2, StartIs
  <1> HIDE DEF b
  <1>7. QED
    BY <1>4, <1>5, <1>6 DEF Boards, b

-----------------------------------------------------------------------------
(* The inductive invariant *)

Types ==
  /\ tipMaster \in BOOLEAN /\ cut \in BOOLEAN
  /\ board \in Boards /\ ini \in Values
  /\ ir \in Files \union {NoFile}
  /\ phase \in {"loaded", "downloaded", "active"}
  /\ refused \in Elements(Calls) \union {"none"}
  /\ loads \in 0..MaxLoads

\* From a Download to the Reset the board has what the file says.
FileOnBoard ==
  ir # NoFile /\ phase # "loaded" => Decided(board, parseIni(ir), refused, tipMaster)

\* A pulser that is on in a run is one that End will stop: the maps are those
\* that it was started by.
PulsersOwned ==
  ~cut =>
    /\ board["FIXED_NUMBER"] = 0 \/ (phase = "active" /\ ini["FIXED_ENABLE"] # 0)
    /\ \/ board["RANDOM_ENABLE"] = 0 /\ board["RANDOM_ENABLE_2"] = 0
       \/ phase = "active" /\ ini["RANDOM_ENABLE"] # 0

Correct == Types /\ FileOnBoard /\ PulsersOwned

LEMMA IntStays ==
  ASSUME NEW x \in Int
  PROVE  Int32(x) \in Int
  <1> DEFINE m == 2 * Half
             y == x + Half
  <1>1. m \in Nat \ {0} /\ y \in Int /\ Half \in Int
    BY ConfigAssumption
  <1>2. Int32(x) = (y % m) - Half
    BY DEF Int32
  <1> HIDE DEF m, y
  <1>3. y % m \in Int
    BY <1>1
  <1>4. QED
    BY <1>1, <1>2, <1>3

LEMMA ParseIs ==
  ASSUME NEW f \in Files
  PROVE  parseIni(f) \in Values
  <1>1. \A k \in DOMAIN f : Int32(f[k]) \in Int
    BY ConfigAssumption, IntStays
  <1>2. QED
    BY <1>1 DEF parseIni, Values

LEMMA PulserNames ==
  {"FIXED_NUMBER", "RANDOM_ENABLE", "RANDOM_ENABLE_2"} \subseteq PulserSettings
  BY DEF PulserSettings

LEMMA InitCorrect == Init => Correct
  <1> SUFFICES ASSUME Init PROVE Correct
    OBVIOUS
  <1>1. tipMaster \in BOOLEAN
    BY ConfigAssumption DEF Init
  <1>2. board \in Boards /\ \A s \in PulserSettings : board[s] = 0
    BY <1>1, StartFits DEF Init
  <1>3. ini \in Values
    BY DEF Init, Values
  <1>4. Types
    <2>1. MaxLoads \in Nat
      BY ConfigAssumption
    <2>2. loads \in 0..MaxLoads
      BY <2>1 DEF Init
    <2>3. QED
      BY <1>1, <1>2, <1>3, <2>2 DEF Init, Types
  <1>5. PulsersOwned
    BY <1>2, PulserNames DEF PulsersOwned
  <1>6. QED
    BY <1>4, <1>5 DEF Correct, FileOnBoard, Init

\* What a Download of a file does to the board.
LEMMA DownloadLoads ==
  ASSUME Types, NEW file \in Files, NEW sticks \in BOOLEAN, Download(file, sticks)
  PROVE  /\ Loaded([board |-> board', refused |-> refused'], board, parseIni(file))
         /\ board' \in Boards /\ refused' \in Elements(Calls) \union {"none"}
         /\ ir' = file /\ ini' = parseIni(file)
  <1> DEFINE v == parseIni(file)
             load == param2ti(board, v, sticks)
  <1>1. file # NoFile /\ v \in Values
    BY ConfigAssumption, ParseIs
  <1>2. board' = load.board /\ refused' = load.refused /\ ir' = file /\ ini' = v
    BY <1>1 DEF Download
  <1> HIDE DEF v
  <1>3. Loaded(load, board, v)
    BY <1>1, LoadIs DEF Types
  <1> HIDE DEF load
  <1>4. load \in Loads
    BY <1>3 DEF Loaded
  <1>5. load = [board |-> board', refused |-> refused']
    BY <1>2, <1>4 DEF Loads
  <1>6. board' \in Boards /\ refused' \in Elements(Calls) \union {"none"}
    BY <1>2, <1>4 DEF Loads
  <1>7. QED
    BY <1>2, <1>3, <1>5, <1>6 DEF v

LEMMA StepCorrect == Correct /\ [Next]_vars => Correct'
  <1> SUFFICES ASSUME Correct, [Next]_vars PROVE Correct'
    OBVIOUS
  <1> USE DEF Correct
  <1>1. ASSUME NEW file \in Files \union {NoFile}, NEW sticks \in BOOLEAN,
               Download(file, sticks)
        PROVE  Correct'
    <2>1. /\ phase # "active" /\ phase' = "downloaded" /\ loads' = loads + 1
          /\ loads < MaxLoads /\ ir' = file /\ UNCHANGED <<tipMaster, cut>>
      BY <1>1 DEF Download
    <2>2. loads' \in 0..MaxLoads
      BY <2>1, ConfigAssumption DEF Types
    <2>3. CASE file = NoFile
      <3>1. UNCHANGED <<board, ini, refused>>
        BY <1>1, <2>3 DEF Download
      <3>2. Types'
        BY <2>1, <2>2, <3>1 DEF Types
      <3>3. PulsersOwned'
        BY <2>1, <3>1 DEF PulsersOwned
      <3>4. QED
        BY <2>1, <2>3, <3>2, <3>3 DEF FileOnBoard
    <2>4. CASE file \in Files
      <3> DEFINE load == [board |-> board', refused |-> refused']
      <3>1. /\ Loaded(load, board, parseIni(file))
            /\ board' \in Boards /\ refused' \in Elements(Calls) \union {"none"}
            /\ ini' = parseIni(file)
        BY <1>1, <2>4, DownloadLoads
      <3>2. Types'
        BY <2>1, <2>2, <2>4, <3>1, ParseIs DEF Types
      <3>3. FileOnBoard'
        BY <2>1, <3>1 DEF FileOnBoard, Loaded
      <3>4. \A s \in PulserSettings : board'[s] = board[s]
        <4>1. load.board = board'
          OBVIOUS
        <4> HIDE DEF load
        <4>2. QED
          BY <3>1, <4>1, LoadKeepsPulsers
      <3>5. PulsersOwned'
        BY <2>1, <3>4, PulserNames DEF PulsersOwned
      <3>6. QED
        BY <3>2, <3>3, <3>5
    <2>5. QED
      BY <2>3, <2>4
  <1>2. CASE Go
    <2>1. /\ phase = "downloaded" /\ phase' = "active" /\ board' = Random(Fixed(board))
          /\ UNCHANGED <<tipMaster, ir, ini, refused, loads, cut>>
      BY <1>2 DEF Go
    <2>2. /\ PulsersOnly(board, board')
          /\ ini["FIXED_ENABLE"] = 0 => board'["FIXED_NUMBER"] = board["FIXED_NUMBER"]
          /\ ini["RANDOM_ENABLE"] = 0 => /\ board'["RANDOM_ENABLE"] = board["RANDOM_ENABLE"]
                                         /\ board'["RANDOM_ENABLE_2"] = board["RANDOM_ENABLE_2"]
      BY <2>1, GoIs DEF Types
    <2>3. Types'
      BY <2>1, <2>2 DEF Types, PulsersOnly
    <2>4. FileOnBoard'
      BY <2>1, <2>2, DecidedStays DEF FileOnBoard, PulsersOnly
    <2>5. PulsersOwned'
      BY <2>1, <2>2 DEF PulsersOwned
    <2>6. QED
      BY <2>3, <2>4, <2>5
  <1>3. CASE End
    <2>1. /\ phase = "active" /\ phase' = "downloaded"
          /\ board' = RandomOff(FixedOff(board))
          /\ UNCHANGED <<tipMaster, ir, ini, refused, loads, cut>>
      BY <1>3 DEF End
    <2>2. /\ PulsersOnly(board, board')
          /\ ini["FIXED_ENABLE"] # 0 \/ board["FIXED_NUMBER"] = 0 => board'["FIXED_NUMBER"] = 0
          /\ \/ ini["RANDOM_ENABLE"] # 0
             \/ board["RANDOM_ENABLE"] = 0 /\ board["RANDOM_ENABLE_2"] = 0
             => board'["RANDOM_ENABLE"] = 0 /\ board'["RANDOM_ENABLE_2"] = 0
      BY <2>1, EndIs DEF Types
    <2>3. Types'
      BY <2>1, <2>2 DEF Types, PulsersOnly
    <2>4. FileOnBoard'
      BY <2>1, <2>2, DecidedStays DEF FileOnBoard, PulsersOnly
    <2>5. PulsersOwned'
      BY <2>1, <2>2 DEF PulsersOwned
    <2>6. QED
      BY <2>3, <2>4, <2>5
  <1>4. CASE Reset
    <2>1. /\ phase' = "loaded" /\ cut' = (cut \/ phase = "active")
          /\ board' = tipResetSlaveConfig(board, tipMaster).board
          /\ UNCHANGED <<tipMaster, ir, ini, refused, loads>>
      BY <1>4 DEF Reset
    <2>2. board' \in Boards /\ \A s \in PulserSettings : board'[s] = board[s]
      BY <2>1, ResetIs DEF Types
    <2>3. Types'
      BY <2>1, <2>2 DEF Types
    <2>4. FileOnBoard'
      BY <2>1 DEF FileOnBoard
    <2>5. PulsersOwned'
      BY <2>1, <2>2, PulserNames DEF PulsersOwned
    <2>6. QED
      BY <2>3, <2>4, <2>5
  <1>5. CASE UNCHANGED vars
    BY <1>5 DEF vars, Types, FileOnBoard, PulsersOwned
  <1>6. QED
    BY <1>1, <1>2, <1>3, <1>4, <1>5 DEF Next

\* Every reachable state is one that the code means to be in: see Correct.
THEOREM ConfigCorrect == Spec => []Correct
  BY InitCorrect, StepCorrect, PTL DEF Spec

-----------------------------------------------------------------------------
(* What follows *)

LEMMA CorrectTypes == Correct => TypeOK
  <1> SUFFICES ASSUME Correct PROVE TypeOK
    OBVIOUS
  <1>1. Types /\ board \in Boards /\ ini \in Values
    BY DEF Correct, Types
  <1>2. DOMAIN board = Settings /\ DOMAIN ini = Keys /\ \A k \in Keys : ini[k] \in Int
    BY <1>1, BoardIs DEF Values
  <1>3. \A s \in Settings : Fits(s, board[s])
    BY <1>1, BoardIs
  <1>4. \A s \in OneBits : board[s] \in {0, 1}
    BY <1>3, SettingsAre DEF Fits
  <1>5. \A s \in Small : board[s] \in Bytes
    BY <1>3, SettingsAre DEF Fits
  <1>6. \A s \in Delays : board[s] \in 0..127
    BY <1>3, SettingsAre DEF Fits
  <1>7. \A s \in Scales : board[s] \in 0..15
    BY <1>3, SettingsAre DEF Fits
  <1>8. QED
    BY <1>1, <1>2, <1>4, <1>5, <1>6, <1>7 DEF TypeOK, Types, OneBits, Small, Delays, Scales

\* Every setting of the board is one that its register can have, and a load
\* ends with a call of the general section or none.
THEOREM WellTyped == Spec => []TypeOK
  BY ConfigCorrect, CorrectTypes, PTL

LEMMA CorrectStops == Correct => PulsersStop
  BY DEF Correct, PulsersOwned, PulsersStop, Pulsing

\* No pulser is on out of a run, unless a Reset cut one short: what Go starts
\* End stops, by the same maps.
THEOREM StopsPulsers == Spec => []PulsersStop
  BY ConfigCorrect, CorrectStops, PTL

\* What the last file says, and what the maps have.
LEMMA SaysIs ==
  ASSUME Types, NEW k \in Keys, Says(k) > 0
  PROVE  /\ ir # NoFile /\ ir \in Files /\ parseIni(ir) \in Values
         /\ parseIni(ir)[k] = Says(k)
  <1>1. ir # NoFile
    BY DEF Says
  <1>2. ir \in Files
    BY <1>1 DEF Types
  <1>3. QED
    BY <1>1, <1>2, ParseIs DEF Says

LEMMA CorrectListens == Correct => ListensToSlave
  <1> SUFFICES ASSUME Correct, phase = "downloaded", refused = "none",
                      Says("ENABLE_FIBER_1") > 0
               PROVE  board["ENABLE_FIBER_1"] = 1 /\ board["BUSY_SOURCE_FIBER1"] = 1
    BY DEF ListensToSlave
  <1> DEFINE k == "ENABLE_FIBER_1"
             v == parseIni(ir)
  <1>1. Calls[24] = k /\ k \in Elements(Calls) /\ k # "BUSY"
    BY CallsAre, CallOf
  <1>2. k \in Keys
    BY <1>1, KeyIs, SettingsAre
  <1>3. ir # NoFile /\ v[k] > 0
    BY <1>2, SaysIs DEF Correct
  <1>4. Came(refused, 24)
    BY DEF Came
  <1>5. Holds(board, k, v, tipMaster)
    BY <1>1, <1>3, <1>4 DEF Correct, FileOnBoard, Decided
  <1> HIDE DEF v
  <1>6. QED
    BY <1>1, <1>3, <1>5 DEF Holds

\* A master that a whole load made the master of a slave listens to the
\* slave's busy, whatever the busy keys of the file are.
THEOREM HearsSlave == Spec => []ListensToSlave
  BY ConfigCorrect, CorrectListens, PTL

LEMMA CorrectDecides == Correct => FileDecides
  <1> SUFFICES ASSUME Correct, phase = "downloaded", NEW k \in Keys, Says(k) > 0, Before(k)
               PROVE  /\ k \in Switches => board[k] = 1
                      /\ k \in Numbers => board[k] = Says(k)
                      /\ k \in Bounded \union Ignored /\ InBounds(tipMaster, k, Says(k))
                           => board[k] = Says(k)
    BY DEF FileDecides
  <1> DEFINE v == parseIni(ir)
             c == IF k \in BusyKeys THEN "BUSY" ELSE k
  <1>1. ir # NoFile /\ v \in Values /\ v[k] = Says(k) /\ v[k] > 0 /\ v[k] \in Int
    <2>1. ir # NoFile /\ v \in Values /\ v[k] = Says(k)
      BY SaysIs DEF Correct
    <2>2. QED
      BY <2>1 DEF Values
  <1> HIDE DEF v
  <1>2. Decided(board, v, refused, tipMaster)
    BY <1>1 DEF Correct, FileOnBoard, v
  <1>3. \A i \in 1..24 : Calls[i] = c => Came(refused, i)
    <2>1. CASE refused = "none"
      BY <2>1 DEF Came
    <2>2. CASE refused # "none"
      <3>1. PICK i \in 1..24, j \in 1..24 : i < j /\ Calls[j] = refused /\ Calls[i] = c
        BY <2>2, CallsAre DEF Before
      <3> HIDE DEF c
      <3>2. QED
        BY <3>1, CallsApart DEF Came
    <2>3. QED
      BY <2>1, <2>2
  <1>4. c \in Elements(Calls) => Holds(board, c, v, tipMaster)
    <2> HIDE DEF c
    <2>1. c \in Elements(Calls) => \E i \in 1..24 : Calls[i] = c
      BY CallsAre DEF Elements
    <2>2. QED
      BY <1>2, <1>3, <2>1 DEF Decided
  <1>5. c \notin Elements(Calls) => refused = "none"
    <2>1. ASSUME refused # "none" PROVE c \in Elements(Calls)
      <3>1. PICK i \in 1..24, j \in 1..24 : Calls[i] = c
        BY <2>1, CallsAre DEF Before
      <3>2. QED
        BY <3>1, CallOf
    <2>2. QED
      BY <2>1
  <1>6. /\ "BUSY" \in Elements(Calls) /\ BusyKeys \intersect Elements(Calls) = {}
        /\ Numbers \subseteq Elements(Calls) /\ Numbers \intersect BusyKeys = {}
        /\ "BUSY" \notin Numbers
        /\ Bounded \subseteq Elements(Calls) \ BusyKeys /\ "BUSY" \notin Bounded
        /\ InputSettings \intersect BusyKeys = {} /\ InputSettings \intersect Elements(Calls) = {}
        /\ RuleSettings \intersect BusyKeys = {} /\ RuleSettings \intersect Elements(Calls) = {}
    <2>1. "BUSY" \in Elements(Calls) /\ BusyKeys \intersect Elements(Calls) = {}
      BY NamesAre DEF BusyKeys, ReadoutCalls
    <2>2. "BUSY" \notin Numbers
      BY DEF Numbers
    <2>3. "BUSY" \notin InputSettings \union RuleSettings
      BY NamesAre DEF InputSettings, RuleSettings
    <2>4. QED
      BY <2>1, <2>2, <2>3, PlainKeys, BoundedKeys, LateApart DEF CallSettings
  <1>7. k \in Switches => board[k] = 1
    <2>1. CASE k \in BusyKeys \ {"BUSY_SOURCE_P2"}
      <3>1. Holds(board, "BUSY", v, tipMaster)
        BY <1>4, <1>6, <2>1
      <3>2. QED
        BY <1>1, <2>1, <3>1 DEF Holds
    <2>2. CASE k \in Elements(EnableTS)
      <3>1. refused = "none"
        BY <1>5, <1>6, <2>2 DEF InputSettings
      <3>2. QED
        BY <1>1, <1>2, <2>2, <3>1 DEF Decided
    <2>3. CASE k \in {"INSTANT_BLOCKLEVEL_ENABLE", "BROADCAST_BUFFER_LEVEL_ENABLE",
                      "SYNC_RESET_TYPE", "FP_INPUT_READOUT_ENABLE"}
      <3>1. k \in Elements(Calls) /\ k # "BUSY" /\ k \in Switches
        BY <2>3, PlainKeys
      <3>2. Holds(board, k, v, tipMaster)
        BY <1>4, <1>6, <3>1
      <3>3. QED
        BY <1>1, <3>1, <3>2 DEF Holds
    <2>4. QED
      BY <2>1, <2>2, <2>3 DEF Switches
  <1>8. k \in Numbers => board[k] = Says(k)
    <2> SUFFICES ASSUME k \in Numbers PROVE board[k] = Says(k)
      OBVIOUS
    <2>1. Holds(board, k, v, tipMaster) /\ k # "BUSY"
      BY <1>4, <1>6
    <2>2. QED
      BY <1>1, <2>1 DEF Holds
  <1>9. ASSUME k \in Ignored, InBounds(tipMaster, k, Says(k)) PROVE board[k] = Says(k)
    <2>1. refused = "none"
      BY <1>5, <1>6, <1>9 DEF Ignored, InputSettings, RuleSettings
    <2>2. CASE k \in Elements(PrescaleTS)
      <3>1. v[k] \in 1..15
        BY <1>1, <1>9, <2>2, SMT DEF InBounds
      <3>2. PICK n \in 1..6 : k = PrescaleTS[n]
        BY <2>2, NumbersAre
      <3>3. QED
        BY <1>1, <1>2, <2>1, <3>1, <3>2 DEF Decided, InputHolds
    <2>3. CASE k \notin Elements(PrescaleTS)
      <3>1. v[k] \in 1..127
        BY <1>1, <1>9, <2>3, SMT DEF InBounds, Ignored
      <3>2. CASE k \in Elements(Rule)
        <4>1. PICK n \in 1..4 : k = Rule[n]
          BY <3>2, NumbersAre
        <4>2. QED
          BY <1>1, <1>2, <2>1, <3>1, <4>1 DEF Decided, RuleHolds
      <3>3. CASE k \in Elements(RuleMin) \ {"RULE_MIN_1"}
        <4>1. PICK n \in 1..4 : k = RuleMin[n]
          BY <3>3, NumbersAre
        <4>2. n >= 2
          BY <3>3, <4>1, NumbersAre
        <4>3. QED
          BY <1>1, <1>2, <2>1, <3>1, <4>1, <4>2 DEF Decided, RuleHolds
      <3>4. QED
        BY <1>9, <2>3, <3>2, <3>3 DEF Ignored
    <2>4. QED
      BY <2>2, <2>3
  <1>10. ASSUME k \in Bounded, InBounds(tipMaster, k, Says(k)) PROVE board[k] = Says(k)
    <2>1. Holds(board, k, v, tipMaster) /\ k # "BUSY"
      BY <1>4, <1>6, <1>10
    <2>2. QED
      BY <1>1, <1>10, <2>1 DEF Holds
  <1>11. QED
    BY <1>7, <1>8, <1>9, <1>10

\* After a Download the board has what the file says of each key of Switches,
\* Numbers, Bounded and Ignored whose call was made, in bounds, whatever
\* was loaded before.
THEOREM DecidesByFile == Spec => []FileDecides
  BY ConfigCorrect, CorrectDecides, PTL

-----------------------------------------------------------------------------
(* What a load changes *)

\* The settings of Single are those that a call, an input or a rule has of
\* its own.
LEMMA SingleIs ==
  /\ Single \subseteq Settings
  /\ Single \intersect (BusyKeys \union Elements(EnableTS)) = {}
  /\ Single \intersect (Elements(DelayTS) \union Elements(RuleStep)) = {}
  /\ Single \intersect (Arguments \union {"BUSY", "TRIGGER_2_PULSE", "SLOWER_TRIGGER_RULES"}) = {}
  /\ Single \subseteq Keys
  <1>1. Single \subseteq Keys
    BY SettingsAre DEF Single
  <1>2. Single \intersect (BusyKeys \union Elements(EnableTS)) = {}
    BY NamesAre DEF Single, ReadoutCalls, BusyKeys
  <1>3. Single \intersect (Elements(DelayTS) \union Elements(RuleStep)) = {}
    BY NamesAre DEF Single, ReadoutCalls
  <1>4. Single \intersect (Arguments \union {"BUSY", "TRIGGER_2_PULSE", "SLOWER_TRIGGER_RULES"}) = {}
    BY NamesAre DEF Single, ReadoutCalls, Arguments
  <1>5. "FIXED_ENABLE" \notin Single
    BY NamesAre DEF Single, ReadoutCalls
  <1>6. QED
    BY <1>1, <1>2, <1>3, <1>4, <1>5, SettingsAre

LEMMA SingleOwn ==
  ASSUME NEW k \in Elements(Calls), NEW s \in Single, s \in Own(k)
  PROVE  s = k /\ k # "BUSY"
  <1>1. CASE k = "BUSY"
    BY <1>1, OwnIs, SingleIs
  <1>2. CASE k # "BUSY"
    <2>1. Own(k) \subseteq {k, "TRIGGER_2_PULSE", "BUSY_SOURCE_FIBER1"} \union Arguments
      BY <1>2, OwnIs DEF Arguments
    <2>2. "BUSY_SOURCE_FIBER1" \in BusyKeys
      BY NamesAre DEF BusyKeys
    <2>3. QED
      BY <1>2, <2>1, <2>2, SingleIs
  <1>3. QED
    BY <1>1, <1>2

\* The call of a key came before what ended a load.
CameKey(r, k) ==
  \/ r = "none"
  \/ \E i, j \in 1..24 : /\ i < j /\ Calls[j] = r
                         /\ Calls[i] = IF k \in BusyKeys THEN "BUSY" ELSE k

\* What changed has its own key above 0, and that key's call was made.
LEMMA LoadReason ==
  ASSUME NEW v \in Values, NEW b, NEW load, Loaded(load, b, v),
         NEW s \in Single, load.board[s] # b[s]
  PROVE  v[s] > 0 /\ (CameKey(load.refused, s) \/ s = load.refused)
  <1>1. s \in Settings /\ s \notin BusyKeys
    BY SingleIs
  <1>2. CASE \E i \in 1..24 : /\ s \in Own(Calls[i]) /\ Active(Calls[i], v)
                              /\ Came(load.refused, i) \/ load.refused = Calls[i]
    <2>1. PICK i \in 1..24 : /\ s \in Own(Calls[i]) /\ Active(Calls[i], v)
                             /\ Came(load.refused, i) \/ load.refused = Calls[i]
      BY <1>2
    <2>2. s = Calls[i] /\ s # "BUSY"
      BY <2>1, CallOf, SingleOwn
    <2>3. QED
      BY <1>1, <2>1, <2>2 DEF Active, Came, CameKey
  <1>3. CASE load.refused = "none" /\ Late(s, v)
    <2>1. \A n \in 1..6 : s \in InputOwn(n, v) => v[s] > 0
      BY NumbersAre, SingleIs DEF InputOwn
    <2>2. \A n \in 1..4 : s \in RuleOwn(n, v) => v[s] > 0
      BY NumbersAre, SingleIs DEF RuleOwn
    <2>3. s \notin Elements(EnableTS)
      BY SingleIs
    <2>4. QED
      BY <1>3, <2>1, <2>2, <2>3 DEF Late, CameKey
  <1>4. QED
    BY <1>1, <1>2, <1>3 DEF Loaded

LEMMA LoadStep ==
  ASSUME Correct, Next, loads' > loads, NEW s \in Single, board'[s] # board[s]
  PROVE  Says(s)' > 0 /\ (Before(s)' \/ s = refused')
  <1>1. PICK file \in Files \union {NoFile}, sticks \in BOOLEAN : Download(file, sticks)
    BY DEF Next, Go, End, Reset, Correct, Types
  <1>2. file \in Files
    BY <1>1 DEF Download
  <1> DEFINE v == parseIni(file)
             load == [board |-> board', refused |-> refused']
  <1>3. Loaded(load, board, v) /\ ir' = file
    BY <1>1, <1>2, DownloadLoads DEF Correct
  <1>4. v \in Values /\ file # NoFile
    BY <1>2, ParseIs, ConfigAssumption
  <1>5. Says(s)' = v[s]
    BY <1>3, <1>4 DEF Says
  <1> HIDE DEF v
  <1>6. v[s] > 0 /\ (CameKey(refused', s) \/ s = refused')
    <2>1. load.board[s] # board[s] /\ load.refused = refused'
      OBVIOUS
    <2> HIDE DEF load
    <2>2. v[s] > 0 /\ (CameKey(load.refused, s) \/ s = load.refused)
      BY <1>3, <1>4, <2>1, LoadReason
    <2>3. QED
      BY <2>1, <2>2
  <1>7. CameKey(refused', s) => Before(s)'
    BY CallsAre DEF CameKey, Before
  <1>8. QED
    BY <1>5, <1>6, <1>7

\* A load changes a setting of Single only if its own key is above 0 and its
\* call came before the one that ended the load, or was it (param2ti's early
\* returns).
THEOREM ChangesByItsKey == Spec => OnlyByItsKey
  <1> DEFINE Step == loads' > loads =>
               \A k \in Single : board'[k] # board[k] =>
                 Says(k)' > 0 /\ (Before(k)' \/ k = refused')
  <1>1. Correct /\ [Next]_vars => [Step]_vars
    BY LoadStep
  <1> HIDE DEF Step
  <1>2. Spec => [][Step]_vars
    BY <1>1, ConfigCorrect, PTL DEF Spec
  <1>3. QED
    BY <1>2 DEF OnlyByItsKey, Step

=============================================================================
