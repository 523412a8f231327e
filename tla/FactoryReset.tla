------------------------------ MODULE FactoryReset ------------------------------
(***************************************************************************)
(* The factory reset (config_reset_fully) and the sentinel byte that tells *)
(* an initialised EEPROM from a blank one (config_init), with power lost   *)
(* at any time.  A reset polls USB between its writes, so that requests of *)
(* the host, another reset among them, fall into it; a reset that is such  *)
(* a request itself is not disturbed (in_task in USB_KeepAlive).           *)
(***************************************************************************)
EXTENDS Naturals, Sequences

CONSTANT MaxLosses      \* bound on the power losses

ASSUME LossesAssumption == MaxLosses \in Nat

\* Mutant: the sentinel is written before the rest.
MutResetOrderSentinelFirst ==
    <<"sentinel", "flags", "debounce_len", "mouse_div", "wheel_div", "saved_key_mapping_indices",
      "programs_index", "macro_index", "macros", "logical_to_hid_map">>

\* The areas in the order config_reset_fully writes them.
ResetOrder ==
    <<"flags", "debounce_len", "mouse_div", "wheel_div", "saved_key_mapping_indices",
      "programs_index", "macro_index", "macros", "logical_to_hid_map", "sentinel">>

Areas ==
    {"flags", "debounce_len", "mouse_div", "wheel_div", "saved_key_mapping_indices",
     "programs_index", "macro_index", "macros", "logical_to_hid_map"}

\* The areas between whose writes the reset calls USB_KeepAlive(true).
PolledAreas == {"saved_key_mapping_indices", "programs_index", "macro_index", "macros"}

\* The areas that a request of the host writes.
HostAreas == {"flags", "programs_index", "macro_index", "macros", "logical_to_hid_map"}

VARIABLES
    area,       \* blank (never written), factory, user, or torn between the two
    sentinel,   \* whether the sentinel byte is EEPROM_SENTINEL
    mode,       \* off, resetting or running
    next,       \* position in ResetOrder of the area that is written next
    in_task,    \* whether the reset is a request of the host
    outer,      \* where the reset goes on into which that request fell; 0 is none
    reset,      \* whether the last reset was not yet followed by a change
    losses      \* power losses so far

resetVars == <<area, sentinel, mode, next, in_task, outer, reset, losses>>

ResetTypeOK ==
    /\ area \in [Areas -> {"blank", "factory", "user", "torn"}]
    /\ sentinel \in BOOLEAN /\ reset \in BOOLEAN /\ in_task \in BOOLEAN /\ losses \in 0..MaxLosses
    /\ mode \in {"off", "resetting", "running"}
    /\ next \in 1..Len(ResetOrder) /\ outer \in 0..Len(ResetOrder)

ResetInit ==
    /\ area = [a \in Areas |-> "blank"] /\ sentinel = FALSE
    /\ mode = "off" /\ next = 1 /\ in_task = FALSE /\ outer = 0 /\ reset = FALSE /\ losses = 0

config_init ==
    /\ mode = "off"
    /\ \/ sentinel /\ mode' = "running" /\ UNCHANGED <<next, reset>>
       \/ ~sentinel /\ mode' = "resetting" /\ next' = 1 /\ reset' = TRUE
    /\ UNCHANGED <<area, sentinel, in_task, outer, losses>>

\* The key combination; the sentinel stays as it is.
BeginReset ==
    /\ mode = "running"
    /\ mode' = "resetting" /\ next' = 1 /\ reset' = TRUE
    /\ UNCHANGED <<area, sentinel, in_task, outer, losses>>

\* USB_KeepAlive(true): only a reset that is not itself a request serves one.
Polls == mode = "resetting" /\ ~in_task /\ ResetOrder[next] \in PolledAreas

\* RESET_FULLY, from the main loop or inside another reset, which goes on behind it.
HostReset ==
    /\ mode = "running" \/ Polls
    /\ mode' = "resetting" /\ next' = 1 /\ in_task' = TRUE /\ reset' = TRUE
    /\ outer' = IF mode = "running" THEN 0 ELSE next
    /\ UNCHANGED <<area, sentinel, losses>>

\* What follows the last write: the reset inside another one returns to it.
EndReset ==
    /\ in_task' = FALSE /\ outer' = 0
    /\ \/ outer = 0 /\ mode' = "running" /\ UNCHANGED next
       \/ outer # 0 /\ next' = outer /\ UNCHANGED mode

\* Mutant: the sentinel is not written.
MutResetAreaNoSentinel ==
    /\ mode = "resetting"
    /\ IF ResetOrder[next] = "sentinel" THEN UNCHANGED area
       ELSE area' = [area EXCEPT ![ResetOrder[next]] = "factory"]
    /\ IF next < Len(ResetOrder) THEN next' = next + 1 /\ UNCHANGED <<mode, in_task, outer>>
       ELSE EndReset
    /\ UNCHANGED <<sentinel, reset, losses>>

\* One area is rewritten; the last one is the sentinel.
ResetArea ==
    /\ mode = "resetting"
    /\ IF ResetOrder[next] = "sentinel" THEN sentinel' = TRUE /\ UNCHANGED area
       ELSE area' = [area EXCEPT ![ResetOrder[next]] = "factory"] /\ UNCHANGED sentinel
    /\ IF next < Len(ResetOrder) THEN next' = next + 1 /\ UNCHANGED <<mode, in_task, outer>>
       ELSE EndReset
    /\ UNCHANGED <<reset, losses>>

\* Remapping, recording, saving a layout, a vendor write...
Customise(a) ==
    /\ mode = "running"
    /\ area' = [area EXCEPT ![a] = "user"] /\ reset' = FALSE
    /\ UNCHANGED <<sentinel, mode, next, in_task, outer, losses>>

\* A vendor write inside a reset.  The host may write a part of the area, so that
\* a blank one stays so.  Between two writes of that very area it is kept where
\* the reset has already been; the rest of the area is written over it.
HostWrites(a) ==
    /\ Polls
    /\ reset' = FALSE
    /\ \/ /\ area' = [area EXCEPT ![a] = IF @ = "blank" THEN "blank" ELSE "user"]
          /\ UNCHANGED next
       \/ /\ a = ResetOrder[next]
          /\ area' = [area EXCEPT ![a] = "torn"]
          /\ next' = next + 1
    /\ UNCHANGED <<sentinel, mode, in_task, outer, losses>>

\* The area being written may be torn; a blank one stays unusable.
Torn(a) == IF area[a] \in {"user", "torn"} THEN "torn" ELSE area[a]

PowerLoss ==
    /\ mode # "off" /\ losses < MaxLosses
    /\ mode' = "off" /\ in_task' = FALSE /\ outer' = 0 /\ losses' = losses + 1
    /\ \/ UNCHANGED area
       \/ /\ mode = "resetting" /\ ResetOrder[next] \in Areas
          /\ area' = [area EXCEPT ![ResetOrder[next]] = Torn(ResetOrder[next])]
    /\ UNCHANGED <<sentinel, next, reset>>

ResetNext ==
    \/ config_init \/ BeginReset \/ HostReset \/ ResetArea \/ PowerLoss
    \/ \E a \in Areas : Customise(a)
    \/ \E a \in HostAreas : HostWrites(a)

\* The firmware runs by itself while there is power.  A poll serves one request
\* and an area has finitely many polls, so that a reset the host keeps
\* interrupting still goes on.
ResetSpec ==
    /\ ResetInit /\ [][ResetNext]_resetVars
    /\ WF_resetVars(config_init) /\ WF_resetVars(ResetArea)
    /\ SF_resetVars(ResetArea /\ ~in_task)

--------------------------------------------------------------------------------
\* config_init: however often power is lost in the first reset, and whatever the
\* host asks for inside it, the keyboard never runs with an area that was not written.
NeverRunsBlank == mode = "running" => \A a \in Areas : area[a] # "blank"

\* config_init, config_reset_fully: a keyboard that is off or resetting comes to run,
\* with a valid sentinel, also after an interrupted first reset and with a host
\* that keeps asking for another one.
ComesToRun == (mode # "running") ~> (mode = "running" /\ sentinel)

\* "Resets all keyboard customizations": a keyboard that runs after a reset
\* was begun, and was not changed since, has no customization left.
ResetsAll == mode = "running" /\ reset => \A a \in Areas : area[a] = "factory"
================================================================================
