---------------------------- MODULE MCTipConfig -----------------------------
EXTENDS TipConfig

\* For a number: two good values, the first and the last, and one too many.
Samples == [
  CRATE_ID |-> {1, 255, 256}, BLOCK_LEVEL |-> {2, 255, 256}, BLOCK_BUFFER_LEVEL |-> {5, 256},
  BLOCK_LIMIT |-> {7}, TRIGGER_SOURCE |-> {1, 5, 6, 11}, SYNC_SOURCE |-> {4, 256},
  CLOCK_SOURCE |-> {0, 1, 2}, PRESCALE |-> {65535, 65536}, EVENT_FORMAT |-> {0, 1, 4},
  TRIGGER_WINDOW |-> {255, 256}, TRIGGER_INHIBIT_WINDOW |-> {1, 256},
  TRIGGER_LATCH_ON_LEVEL_ENABLE |-> {1, 2}, PROMPT_TRIGGER_WIDTH |-> {127, 128},
  SYNCEVENT_INTERVAL |-> {9, 16777216}, TRIGGER_TABLE |-> {3, 4},
  RULE_1 |-> {1}, RULE_2 |-> {2, 4, 128}, RULE_MIN_1 |-> {1}, RULE_MIN_2 |-> {3, 128},
  PRESCALE_TS1 |-> {1, 16}, PRESCALE_TS6 |-> {15, 512}, DELAY_TS1 |-> {3}]

On == Switches \union {"ENABLE_FIBER_1", "BUSY_SOURCE_P2", "FIXED_ENABLE"}

Singles == UNION {{k :> v : v \in Samples[k]} : k \in DOMAIN Samples}
             \union {k :> 1 : k \in On}

\* Keys whose calls take several arguments, and keys that meet on the board.
Groups == {
  "TRIGGER_OUTPUT_DELAY" :> 127 @@ "TRIGGER_OUTPUT_WIDTH" :> 255 @@ "TRIGGER_OUTPUT_DELAYSTEP" :> 1,
  "TRIGGER_OUTPUT_DELAY" :> 4,
  "TRIGGER_OUTPUT_DELAY" :> 128 @@ "TRIGGER_OUTPUT_WIDTH" :> 15 @@ "PRESCALE_TS1" :> 2,
  "SYNCRESET_DELAY" :> 4 @@ "SYNCRESET_WIDTH" :> 127 @@ "SYNCRESET_WIDTHSTEP" :> 1,
  "SYNCRESET_DELAY" :> 5,
  "FIXED_PULSER_EVENTTYPE" :> 253 @@ "RANDOM_PULSER_EVENTTYPE" :> 254,
  "FIXED_PULSER_EVENTTYPE" :> 253,
  "RANDOM_ENABLE" :> 1 @@ "RANDOM_PRESCALE" :> 15,
  "RANDOM_ENABLE" :> 0 @@ "FIXED_ENABLE" :> 0,
  "RANDOM_ENABLE" :> 0 @@ "FIXED_ENABLE" :> 1 @@ "FIXED_NUMBER" :> 100 @@ "FIXED_RANGE" :> 1,
  "RANDOM_ENABLE" :> 1 @@ "RANDOM_PRESCALE" :> 16,
  "BUSY_SOURCE_SWA" :> 1 @@ "BUSY_SOURCE_FP" :> 1 @@ "ENABLE_FIBER_1" :> 1,
  "BLOCK_LEVEL" :> 3 @@ "EVENT_FORMAT" :> 4 @@ "PRESCALE" :> 8,
  "CRATE_ID" :> 9 @@ "BLOCK_LEVEL" :> 256 @@ "TRIGGER_SOURCE" :> 5 @@ "ENABLE_TS1" :> 1,
  "CLOCK_SOURCE" :> 1 @@ "PRESCALE" :> 3 @@ "RULE_3" :> 5,
  "ENABLE_TS1" :> 1 @@ "ENABLE_TS6" :> 1 @@ "PRESCALE_TS1" :> 3 @@ "PRESCALE_TS6" :> 4,
  "RULE_2" :> 1 @@ "RULE_TIMESTEP_2" :> 2 @@ "RULE_3" :> 127 @@ "RULE_TIMESTEP_3" :> 1,
  "RULE_4" :> 8 @@ "RULE_TIMESTEP_4" :> 2 @@ "RULE_MIN_4" :> 127,
  "BLOCK_BUFFER_LEVEL" :> 2 * Half + 5 @@ "CRATE_ID" :> Half + 1,
  "CRATE_ID" :> -1}

MCFiles == Singles \union Groups
=============================================================================
