----------------------------- MODULE RelayPort -----------------------------
(***************************************************************************)
(* The physical relay adapter, RaspberryPiRelay of src/bridgewire/gpio.py, *)
(* as operators: each call has a set of outcomes, [ok, relay], over a      *)
(* relay record                                                            *)
(*   pin     - what BCM 23 is driven to: "low", "high", or "input" when    *)
(*             the channel is not an output (never set up, or cleaned up)  *)
(*   channel - _channel has been assigned                                  *)
(*   closed  - _closed                                                     *)
(* ok = FALSE is an exception.  A GPIO call that raises may or may not     *)
(* have reached the pin, so both are outcomes.                             *)
(***************************************************************************)

Pins   == {"input", "low", "high"}
Relays == [pin : Pins, channel : BOOLEAN, closed : BOOLEAN]

NewRelay == [pin |-> "input", channel |-> FALSE, closed |-> FALSE]

Usable(r) == r.channel /\ ~ r.closed

(* setup(): a second call returns at once; GPIO.setup(initial=LOW). *)
SetupOutcomes(r) ==
  IF r.channel
  THEN {[ok |-> TRUE, relay |-> r]}
  ELSE {[ok |-> TRUE, relay |-> [pin |-> "low", channel |-> TRUE, closed |-> FALSE]]}
       \cup [ok : {FALSE}, relay : {r, [r EXCEPT !.pin = "low"]}]

(* command(high): refused before setup() and after cleanup(). *)
CommandOutcomes(r, level) ==
  IF Usable(r)
  THEN {[ok |-> TRUE, relay |-> [r EXCEPT !.pin = level]]}
       \cup [ok : {FALSE}, relay : {r, [r EXCEPT !.pin = level]}]
  ELSE {[ok |-> FALSE, relay |-> r]}

(* cleanup(): output LOW, and whether or not that raises GPIO.cleanup() and *)
(* _closed = True; when GPIO.cleanup() itself raises, _closed stays False.  *)
CleanupOutcomes(r) ==
  IF ~ Usable(r)
  THEN {[ok |-> TRUE, relay |-> r]}
  ELSE LET done == [r EXCEPT !.pin = "input", !.closed = TRUE]
       IN  {[ok |-> TRUE, relay |-> done], [ok |-> FALSE, relay |-> done]}
           \cup [ok : {FALSE},
                 relay : {[r EXCEPT !.pin = p] : p \in {r.pin, "low", "input"}}]

=============================================================================
