# TLA+ models of the keyboard firmware

This directory models the parts of the firmware that keep state: the key state
with its debouncing and layers, the mouse, the macro storage and its playback,
the layout backups, the factory reset, the main loop, the program interpreter,
the buzzer and the drivers of the external EEPROMs. TLC checks the models on
small instances; for instances of any size TLAPS proves the invariants of the
key state, the main loop, the interpreter, the layout backups, the macro storage,
the reset, the playback and the EEPROM drivers, that the writes of the storage
calls implement the calls, and that the macro storage behaves as a map and the
layout backups as independent copies. Every safety property of a passing run has
a theorem. The models follow the LUFA build for
the K84CS board (three layers, USE_BUZZER, KATY_DEBUG off), where layouts and
macro data are on the SPI EEPROM and mapping, macro index and programs on the
AVR EEPROM.

## 1. The system

| component | state | operations | used by |
|---|---|---|---|
| key state (`keystate.c`) | debounce ring, debounced set, 14 slots, layer, `key_press_count`, change hook | `keystate_update` every 2 ms; hide, check and get keys; keyboard and mouse reports | main loop, interpreter |
| configuration (`config.c`) | sentinel, flags, debounce length, mouse and wheel dividers, current mapping | get and save, `config_reset_defaults`, `config_reset_fully`, `config_init` | everything |
| layout backups (`config.c`) | ten `[start, end]` pairs into one array of differences | save, load, delete | program-key chords |
| macro index (`macro_index.c`) | 128 sorted entries | lookup (bisection), create, remove, iterate, reset | `macro.c`, main loop, host |
| macro data (`macro.c`) | packed byte area, end offset, recording cursor, playback cursor | start, append, commit, abort, playback, reset | main loop |
| main loop (`Keyboard.c`) | `current_state`, `next_state`, `wait_key_press_count`, edited setting, trigger being recorded | one handler per state, report callbacks, LED report | USB glue |
| interpreter (`interpreter.c`) | six virtual machines with stacks, wait states and reports | start, step, append reports | main loop |
| extra reports (`extrareport.c`) | up to six virtual keys and modifiers | add, remove, toggle, append | macros, interpreter |
| printing (`printing.c`) | message cursor | one character per report | main loop |
| storage drivers (`storage/`) | chip busy, page buffers | read, write, memmove, memset | all storage users |
| buzzer, LCD, LEDs, USB glue, ports | timers and registers | interrupts, callbacks | main loop |

There is one thread, the loop in `Keyboard_Main`, and interrupts that only count
milliseconds and run the buzzer. Concurrency comes from elsewhere: the user's
keys change at any scan; the host asks for reports and sends vendor requests
whenever the loop polls USB, also in the middle of a storage operation; power
may fail between two writes. One operation reads what an earlier one left in
statics (slots, last trigger, waiting count, cursors), so that the hard
behaviour is in long sequences of legal steps.

What makes each part correct:

* key state: no key is lost or doubled, `key_press_count` never drifts, every
  press is undone under the code it was announced with although the layer may
  change in between, a layer is never left on by accident, hidden keys stay
  hidden until released;
* macro storage and layout backups: whatever was recorded, replaced, deleted or
  refused before, the packed storage behaves as a map, so that changing one
  element leaves the others alone;
* main loop: every state is left again, a setting is saved once, a recording
  belongs to the trigger the user pressed, and holds what the user typed;
* reports: what a macro or a program presses reaches the host, once, whatever
  else is in the report; buttons follow their keys although most mouse reports
  repeat an old sample;
* interpreter: calls nest in the stack, no wait ends early, every wait ends;
* storage: a call changes the bytes asked for and no others, however it is cut into
  pages; after a power loss in the middle of an operation the rest of the
  memory is still usable.

`PROJECT.json` lists the hazards found in the code, each at its line, with the
properties that watch it.

## 2. The modules

| module | models | checked by |
|---|---|---|
| `KeyCodes` | the code ranges of `keystate.h` | |
| `KeyState` | `keystate.c` and the operations of `Keyboard.c` and `config.c` that act on it between scans | `MCKeyState` with `MCKeyStateLock.cfg`, `MCKeyStateShift.cfg` |
| `Ranks` | the order in which loops visit a set of keys, entries or addresses | |
| `Lemmas` | what all proofs share: induction over loops, least elements, ranks, lists of writes | TLAPS |
| `KeyStateProofs` | theorems about `KeyState` | TLAPS |
| `Macros` | `macro.c`, `macro_index.c`, one step per call | through `MacroWrites` |
| `MacroStore` | what the macro storage promises | refined by `Macros` |
| `SavedLayouts` | the backups of `config.c`, one step per call | through `LayoutWrites` |
| `LayoutStore` | what the backups promise | refined by `SavedLayouts` |
| `KeyboardMain` | the loop, handlers and keyboard reports of `Keyboard.c`, the cursor of `printing.c` | `MCKeyboardMain.cfg` |
| `KeyboardMainProofs` | theorems about `KeyboardMain` | TLAPS |
| `ExtraReport` | `extrareport.c` | through `Playback` and `Interpreter` |
| `ExtraReportProofs` | lemmas about `ExtraReport` for the proofs of both | TLAPS |
| `Playback` | playing macros into reports (`macro.c`, `Keyboard.c`) | `MCPlayback.cfg` |
| `Interpreter` | `interpreter.c`, its callers in `Keyboard.c`, the millisecond counter | `MCInterpreter.cfg` |
| `InterpreterProofs` | theorems about `Interpreter` | TLAPS |
| `Mouse` | `keystate_Fill_MouseReport` | `MCMouse.cfg` |
| `Buzzer` | `buzzer.c` | `MCBuzzer.cfg` |
| `PagedEeprom` | `storage/spi_eeprom.c`, `storage/i2c_eeprom.c`, the vendor streams to them | `MCPagedEeprom.cfg` |
| `FactoryReset` | `config_init`, `config_reset_fully` | `MCFactoryReset.cfg` |
| `DeviceProofs` | theorems about `Mouse`, `FactoryReset`, `PagedEeprom` and `Playback` | TLAPS |
| `LayoutWrites` | the calls of `SavedLayouts` write by write, with power loss | `MCLayoutWrites.cfg` |
| `LayoutWritesProofs` | theorems about `LayoutWrites` | TLAPS |
| `MacroWrites` | the calls of `Macros` write by write, with power loss | `MCMacroWrites` with `MCMacroWrites.cfg`, `MCMacroWritesFull.cfg` |
| `MacroWritesProofs` | theorems about `MacroWrites` | TLAPS |

Definitions carry the names of the functions and variables they model; each one
is tied to its lines in `PROJECT.json`. Definitions whose name begins with `Mut`
are deliberate faults, used to see that a property notices them; no
specification uses them.

### KeyState

One action `Scan` is one call of `keystate_update` on an arbitrary set of closed
contacts; the parts of the function are operators in the order the code runs
them (debounce, mark released, record pressed, layer loop, notification loop).
Bit fields are sets of keys. The layer loop depends on the order of the slots and
is a recursive function over them (`LayerFold`). The notification loop is written
with the sets of slots that are pressed and released, since `key_press_count`
and the hook's knowledge do not depend on the order; `hooked` is a history
variable, the codes a listener on the change hook believes to be down. Between
scans the main loop may hide trigger keys (`HideTrigger`), remap the one held key
(`RemapHeldKey`), restore the mapping (`config_reset_defaults`, a chord or a
request of the host), load a backup (`config_load_layout`) and change the debounce
length (`config_save_debounce_len`: at the end of a chord, or, with any keys held, by
a full reset).
Beeps and the press statistics are left out.

### Macros and MacroStore

Index entries are `[keys, type, data]`. A trigger, up to four sorted codes, is
abstracted to its rank in the order in which `macro_idx_cmp` compares triggers,
so that the format function (sort and pad) has no counterpart; an unused entry has
the highest rank, `NO_TRIGGER`. The length of a
macro is kept in the first byte of its header; the other header bytes are unused.
Lookup is the bisection of `bsearch` on the real array, turn by turn, create and remove move
entries exactly as the loops do, delete moves data and offsets with 16-bit
arithmetic. `macros_abort_macro` stands for the hook's reaction to a failed
write, which only the I2C chip reports. `ClientAddsProgram` is a `WRITE_MACRO_INDEX`
request by which the client application puts a program entry into the index; what it
writes is taken to be the index as it is now, with the entry added.
`ImplementsStore` maps index and bytes to the map of `MacroStore`.

The host's requests are served in any state. `RESET_FULLY` (`lufa_main.c:270`) and
`WRITE_MACRO_INDEX` may fall into a recording, and nothing in `config_reset_fully` or
`macros_reset_defaults` clears `recording_state`: the later commit raises the end
offset over bytes that no entry owns, and an empty one removes the entry that has taken
the place of the recorded one. The history variable `disturbed` says that this has
happened since the last reset outside a recording. `PackedBetween`,
`ImplementsStoreBetween` and `KeepsOtherMacros` say that it is the only way to
lose the storage, and that such a reset brings it back: `MacroStore` has a variable
`lost` and a step `Lose`, allowed only in a recording, after which it promises nothing until
its `Reset`. `SortedBetween` holds even then. Section 4 has `PackedAlways`, without the
exception. A reset in a playback leaves the map whole; the playback goes on, for as many
events as it had left, over the new bytes.

### SavedLayouts and LayoutStore

Each operation is one action that includes its failures: saving deletes the old
backup first, writes the differences until the space ends, and only then writes
the index. `message` is what the operation prints. `ImplementsStore` maps the
array to independent layouts; a slot without backup is the factory layout. The space
the other backups take is counted as pairs of slot and remapped key. The full reset
(`config_reset_fully`) erases the indices and leaves the array.

### KeyboardMain

`pc` follows one iteration of the loop: `Sense` (perhaps a scan, then the saving of
an edited setting), `Handle` (the handler of the current state), then the reports.
`SendReport` is the report callback for the interrupt endpoint, `GetReport` a second
fill asked for by a control request in the same iteration, `NoReport` a host
that takes none, and `HostRequest` one that sets the flags or resets the layout or
everything, in whatever state the loop is. `Reboot` is the chord that restarts the firmware.

`board` is one of `Boards`, chosen at the start and never changed: the factory mapping,
the mappings a load may bring, the factory macros and the flags of an earlier
session. The other components appear by what they promise. The key state is the set `down`
with its hidden part and the forced base layer: `KeyState` shows that
`key_press_count` is the number of tracked keys and that `keystate_get_keys`
returns them. Only one layer of meanings is kept. The macro storage is the map
that `MacroStore` promises, `index`, with the recording beside it; the number of
events is counted up to `MaxEvents`. A layout load brings one of `Backups`, which
keep the steering keys as `config_save_definition` and the save of differences do.
The storage errors the code handles (an event that is refused, a length or an
event that cannot be read) may happen at any time; only the I2C chip reports them.
`key` is `{}` while `last_count` is 0, since its contents are then never read.
`seen` and `changed` are history variables for two properties. The meanings
of keys are named for the chord they take part in, so that `DIGIT` is any of the
number keys, `LEFT_CONTROL` any modifier and `PLAIN` and `OTHER` anything else.

`FairSpec` assumes that the loop goes on (`WF_vars(Next)`: `Keyboard_Main` never
returns and no handler blocks) and that the host takes reports again and again
(`SF_vars(SendReport)`: a configured host polls the interrupt endpoint every few
milliseconds). Nothing is assumed of the user; `ComesBack` says in its own
hypothesis that the keys are all up again and again.

### ExtraReport and Playback

An extra report has a fixed number of places for keys and a set of modifiers; its
operations are functions on that record. `Playback` plays any recorded macro, one
event per report, alone or merged with the report of the held keys, in which two keys
that are mapped to the same code appear twice. `pressed` is a
history variable: the keys that the events played so far leave down.

### Interpreter

A machine is its state, its stack, its contribution to the reports and what it waits
for. The stack keeps where its top is, the highest byte ever written and the
frames; the values in it are abstracted, so a running machine may execute any
instruction for which its method has the operands. `StackOps` holds what the
computing instructions pop and push. `vm_step_all` steps all machines;
`Fill_KeyboardReport` and `Fill_MouseReport` are the report callbacks of the normal
state, `FillElsewhere` those of the others. The counter wraps at `Wrap`, for 2^32;
`Splits` are the values of its bytes (2^8, 2^16 and 2^24 in the code). `uptimems()` copies
it byte by byte with interrupts enabled, so that the millisecond interrupt may fall
between two reads of a pass of `vm_step_all` or into one of them, which then has
the low bytes of the old and the high bytes of the new value (`Torn`). `setup` is one of
`Setups`, chosen at the start and never changed: which machines have a program, the
instructions it uses, its globals and main's locals, the keys of the board and the
bound the time is not driven past (`Horizon`). The five setups of
`MCInterpreter` put each mechanism next to what it can collide with, without the
product of all of them. The last keyboard report is not kept: `AppendedReport` is what
the host would fetch. History are `past`, the time without the current turn of the
counter; `io.pending`, a change no report has shown yet; and in a wait `until`, the true time it
should last to, `wrapped`, whether its deadline lies behind the wrap, and `early`: by how much
the last wait that ran out was too short, the byte at which the read that ended it was
torn, and whether its deadline had wrapped.
Programs are read from the AVR EEPROM, whose reads do not fail, so the crash on
a failed read is left out. `stack.reach` is the highest byte written; what lies behind a stack
is the rest of the machine's own record and the next machine (`interpreter.h:247`), and
what an overrun does to them is not followed: `OverrunBounded` says how far it reaches.

`FairSpec` assumes that the loop runs (stepping is strongly fair, since any
iteration that ends in the normal state steps), that time passes, that the user
leaves the other states, and that the host polls both endpoints: it does so every few
milliseconds, while leaving and entering the normal state takes key presses, so
the reports are strongly fair too.

### Mouse

The four speeds are one function over axes; one axis that moves and one under the
wheel divider are enough to tell them apart. `fresh` says that the last report
came from the normal state. One key is bound to each direction. Speeds are
bytes of `2 * Int8` values that wrap. The dividers change in any state, by a chord or
by a host's reset, and may be 1, with which no report ever samples the keys
(`keystate.c:400`): `ButtonsReported` and `Stops` are about the other values, section 4 has
both for all. The host polls the mouse endpoint (weak fairness).

### Buzzer

`buzzer_start_f` is split where the interrupt may fall: two stores of a byte each,
in either order, then the output. At most one interrupt falls into a call, which
takes microseconds. The run has lengths of every kind: one millisecond, with a low byte
of zero (in the code the multiples of 256), and others. A program may ask for any of
them; the firmware's own sounds are all of the last kind. The first two may run out
between the store and the output, so that `EventuallySilent` excepts them; section 4
has `AlwaysSilent` for all.

### PagedEeprom

The chip programs a page at a time, wraps inside it and loses what is sent to
it meanwhile; the driver's call is cut into pages as the code cuts it. `expected` is
the reference: what the finished calls should have left. For I2C the chip may
refuse any byte. `StreamByte` is a vendor write byte by byte, `HostRead` a vendor
read wherever the code polls USB. `build` is the chip and driver of one of `Chips`.
A page has two or three bytes, the chip three or two
pages, so that calls of every length start and end at every offset. The SPI chip is
asked to move downward only (`SpiMovesDown`), as both callers of `storage_memmove` do
(`config.c:250`, `macro.c:158`): they close the gap of a deleted element. Fairness: a call is a
loop of the main program, and the chip ends every write cycle.

### FactoryReset

The reset is its sequence of writes; an area is blank, factory, user or torn. Power may
be lost before any write or inside it. `config_init` runs at every start. Where the
reset polls USB between its writes (`config.c:157`, `macro_index.c:112`, `macro.c:98`) a
vendor write or another reset may fall into it (`HostWrites`, `HostReset`); a reset that
is itself a request of the host is not disturbed, since `USB_KeepAlive` does nothing
inside a USB task (`in_task`). The firmware runs by itself while it has power (weak
fairness of the writes); a poll serves one request and an area has finitely many polls,
so that a host that asks again and again does not hold up a reset (strong
fairness of the outer reset's writes).

### LayoutWrites and MacroWrites

Each call of `SavedLayouts` and `Macros` becomes the list of writes it makes, planned from
the arguments of the call and the storage before it, and
power may be lost before any of them; reset, remapping, playback and the requests of the host come
between the calls. `shown` is the storage before the call;
with `Visible` as the mapping, the write-by-write specification implements the whole-step
one (`ImplementsSavedLayouts`, `ImplementsMacros`), and that one, under the same mapping,
the abstract store (`ImplementsStoreBetween`): two refinements, one above the other.
`SortedBetween` and `PackedBetween` are the invariants of the representation that
the code relies on between calls. What the memory is worth
after a loss is stated by the invariants over `~power`; such a state is final, which
is why these runs do not check deadlock.

## 3. The runs

| run | module, cfg | properties | shows |
|---|---|---|---|
| `keystate_lock` | `MCKeyState`, `MCKeyStateLock.cfg` | `SlotsConsistent`, `HookBalanced`, `LayerJustified`, `NoKeyLostWithinCapacity`, `HiddenUntilReleased` | Scans of a four-key board with program, layer lock, keypad shift and a plain key over three slots, with every bounce pattern and more keys than slots: slots, notifications and layer stay consistent and no key is lost within capacity. |
| `keystate_shift` | `MCKeyState`, `MCKeyStateShift.cfg` | `TypeOK`, `SpecialKeysFixed`, `CountExact`, `GetKeysFillsCount` | The same key state with function shift, macro shift, remapping of held keys, loaded layouts, the factory reset and changes of the debounce length under held keys, over two slots: the ring index stays in the ring, the count of pressed keys is exact, keystate_get_keys fills what its callers read, and steering keys stay where they are. |
| `macros` | `MCMacroWrites`, `MCMacroWrites.cfg` | `SortedBetween`, `PackedBetween`, `KeepsOtherMacros`, `ImplementsMacros`, `ImplementsStoreBetween` | Recording, replacing, deleting and playing macros with four triggers over three index entries, factory macros and a client program, each call write by write with power lost at any of them, and the host resetting the storage or writing the index also in a recording or a playback: uninterrupted, the writes implement the steps of Macros and those a map from triggers to macros, which only a request inside a recording breaks and the next reset restores; interrupted, they spare every macro that is not stored behind a replaced one. |
| `macros_full` (violated) | `MCMacroWrites`, `MCMacroWritesFull.cfg` | `RecordingInArea` | A recording that reaches the end of the macro area goes on behind it. |
| `layouts` | `MCLayoutWrites`, `MCLayoutWrites.cfg` | `PackedBetween`, `KeepsEarlier`, `NeverHalfSaved`, `ImplementsSavedLayouts`, `ImplementsStoreBetween` | Saving, replacing, deleting, loading and resetting layout backups that share one array, write by write with power lost at any of them: uninterrupted, the writes implement the steps of SavedLayouts and those independent layouts; interrupted, they spare the earlier backups and never leave half a backup. |
| `main` | `MCKeyboardMain`, `MCKeyboardMain.cfg` | `OneMacroAtATime`, `OneSettingEdited`, `SteeringKeysFixed`, `HeldTriggerPlaysOnce`, `ComesBack` | The main loop on five small boards (macros and programs; two settings; layout chords with messages and a full reset; remapping; flags), all orders of key changes, scans, reports and host requests, under fairness of the loop and of the host's polling: one macro is recorded at a time, one setting is edited, steering keys stay, a held trigger plays once, and the keyboard always comes back. |
| `playback` | `MCPlayback`, `MCPlayback.cfg` | `ReportShowsMacro` | Every macro of up to four events over three keys and a modifier, from a playback report of two places, alone or merged with held keys (one, or two that are mapped to the same code), into reports of three keys: a macro whose keys fit is shown to the host event by event, each key it adds once. |
| `vm` | `MCInterpreter`, `MCInterpreter.cfg` | `ChangesReachHost`, `MovesOnce`, `FramesNest`, `OverrunBounded`, `DelayElapses`, `ReportWaitsEnd`, `TimedWaitsEnd` | Five setups of the interpreter under fairness of the loop and the host: two programs sharing the report with held keys, a program that moves the mouse, one whose calls fill the stack, one that waits for keys and for time, and one whose delays meet the wrap of the counter; the interrupt falls between and into the reads of the counter. No program goes on before the host has seen its change, a movement is reported once, frames nest and an overrun stays within a frame header, no delay ends early but by a deadline behind the wrap or a torn read, and by no more than its torn bytes count, and every report wait and timed wait ends. |
| `eeprom` | `MCPagedEeprom`, `MCPagedEeprom.cfg` | `ContentsAsAsked`, `CallsReturn` | Two calls of any kind, length and alignment in the SPI and in the I2C driver, on chips with pages of two and three bytes that are deaf while they program and, on I2C, may refuse a byte: the bytes asked for and no others are changed, a call that fails leaves the bytes it did not reach, and every call returns. |
| `buzzer` | `MCBuzzer`, `MCBuzzer.cfg` | `EventuallySilent` | Sounds of up to more than a byte's milliseconds, started while another runs, with the interrupt at every point of the two-byte store: the buzzer goes off, unless the last sound was one whose time may run out before the tone is on. |
| `mouse` | `MCMouse`, `MCMouse.cfg` | `ButtonsReported`, `ButtonsFollowKeys`, `Stops` | A button, a moving and a wheel axis under dividers of one, two and three that change in any state, with the main loop leaving and entering the normal state: buttons follow the keys, and where the divider lets a report sample them, a pressed one is reported and a released axis stops. |
| `reset` | `MCFactoryReset`, `MCFactoryReset.cfg` | `NeverRunsBlank`, `ComesToRun` | The first start and any number of resets asked for, by chord or by the host, with vendor writes and further resets served inside them and power lost twice at any write: the keyboard comes to run and never with memory that was not written. |

Liveness is checked in `main`, `vm`, `buzzer`, `mouse`, `eeprom` and `reset`, under
the fairness described with the modules; the other runs check safety. Each module
with state has a type invariant; only that of `KeyState` is a property of a run, the others
hold in the same instances.

The bounds. Debouncing, slot allocation, layers and notifications never compare
slots or keys beyond order and equality, so two or three slots with one key more
than slots reach the full table, the drop of a key and its later release; the two
boards together have every kind of steering key. Three index entries with four
triggers reach the full index, insertion and removal at the front, in the middle
and at the end; factory macros of length 2 and recordings of length 1 give
different sizes to move. Three backups of up to two keys over four usable
elements reach the full array with every order of saves and deletes. The boards of
`MCKeyboardMain` have one key for each kind of meaning a chord is about and allow
every set of keys at every scan; the macro board takes triggers of up to two keys, so
that three keys are too many, and fills the index with two. The boards are
separate initial states, so that their state spaces add up instead of multiplying. A playback report
of two places with three keys in use overflows, and reports of three keys still have room
for a macro beside two held keys with the same code; stacks of a few dozen bytes with two kinds of
methods reach every offset from their end; four milliseconds carry the counter, of three
bytes of two values each, past the carry into every byte, with delays of two that end before,
at and behind it, and eleven carry it past its wrap at eight, with delays that start before
it and end behind it. At most one interrupt falls into a pass over the machines, which takes
less than a millisecond. Dividers of one, two and three are all there are up to the number of
reports between two samples. Two power losses interrupt a reset and its repetition.

A storage that was disturbed (`Macros`) is followed to the end of its recording and until the next
reset, but nothing is recorded or played on it: its lengths may be no lengths any more,
and the properties promise nothing for it. `macros_append` is bounded by the events of a
recording (`MaxMacroLen`) and the modelled part of the chip, neither of which is in the
code: `macros_full` has a chip longer than the area. In `KeyboardMain` the host sets the flags
of a board's earlier session, and resets everything only outside a recording; a reset
inside one is in `Macros`.

Distinct states and times of the largest runs, with two workers: `macros` 1,406,367 in 2 to 3
minutes, `main` 903,818 in 2 to 3, `keystate_shift` 543,312 in 2, `vm` 81,164 in 3; each
of the others ends within two minutes.

## 4. Known disagreements

What the code does and what a comment or document says of it differ in the places
below. The first is a run of its own (`macros_full`, violated). For each of the
others TLC finds the violation within a minute when the property stands alone in
the cfg of the run named, with the change named.

| property | run, change | the code | the text |
|---|---|---|---|
| `RecordingInArea` | `macros_full` | `macro.c:255`: `macros_append` never compares its cursor with the size of the area | `macro.h:94` "Returns false if no space left or write failed." |
| `WholeArrayUsable` | `layouts` | `config.c:285` refuses at the last element, so that 254 remappings fit | `README.md:83` "In total, there is space for 256 key remappings" |
| `KeepsOthers` | `layouts` | `config.c:248`: indices shift before the array moves; a power loss in between mixes up the later backups | `README.md:78` "up to 10 independent backup layouts" |
| `TriggerPressedNow` | `main` | `Keyboard.c:464`: cancelling the choice of a trigger keeps its keys, which the next recording takes for its trigger | `README.md:107` "Then, press and release a combination of up to four keys as a trigger" |
| `NothingMissed` | `main` | `Keyboard.c:526`: a scan may come between entering the recording state and registering the hook | `Keyboard.c:556` "They will also be recorded via the keystate change hook." |
| `ReleaseReleases` | `playback`, `MaxEvents = 5` | `extrareport.c:105`: a press without a free place is dropped, its release then presses | `macro.h:57` "if not pressed, press, else release" |
| `StackInBounds` | `vm` | `interpreter.c:248` lets an instruction run with one byte left | same line "must keep enough stack to push a short" |
| `PackedAlways` | `macros` | `lufa_main.c:270`: a reset in a recording leaves `recording_state`, and the commit that follows gives the end offset or the entries of the recording to the reset storage | `README.md:99` "Resets all keyboard customizations (current layout, saved layouts, macros, programs)." |
| `NoDelayCut` | `vm`, only the setup `Wraps`, `Splits = {}` | `interpreter.c:882`: the end of a delay wraps with the counter | `interpreter.h:182` "causes execution to be stopped until arg1 ms elapsed" |
| `NoDelayCut` | `vm`, only the setup `Times` | `Keyboard.h:56`: four bytes are read with interrupts enabled | the same |
| `AlwaysSilent` | `buzzer` | `buzzer.c:159`: the time is stored before the output is enabled, and may run out in between: of 1 ms, or of a multiple of 256 ms whose low byte the interrupt finds at zero | `interpreter.h:191` "be run for the next time ms" |
| `AlwaysStops` | `mouse` | `keystate.c:400`: with a divider of 1, which the editor allows, no report samples the keys, so that the last movement goes on | `keystate.h:98` `SPECIAL_HID_KEY_MOUSE_RIGHT` |
| `ButtonsAlwaysReported` | `mouse` | `keystate.c:400`: with a divider of 1, which the editor allows, no report samples the keys | `Descriptors.h:76` "Button mask for currently pressed buttons in the mouse." |
| `MovesForward` | `mouse` | `keystate.c:385`: the speed of a held direction wraps | `keystate.h:98` `SPECIAL_HID_KEY_MOUSE_RIGHT` |
| `ContentsAsAsked` | `eeprom`, an SPI chip with `upward` | `spi_eeprom.c:258`: an upward move never adds the length to its pointers (no caller moves upward) | `i2c_eeprom.c:237` "Cursor points to just after the end of the array" |
| `HostReadsContents` | `eeprom` | `spi_eeprom.c:211`: USB is polled right after a page was sent, and a read served there does not wait | `spi_eeprom.c:160` "caller must call this at least 6 ms after the last write" |
| `ReturnsWritten` | `eeprom` | `i2c_eeprom.c:169` returns 0 when nothing and -1 when something was written | `i2c_eeprom.c:153` "Returns number of bytes written if any bytes were successfully written, otherwise -1." |
| `ResetsAll` | `reset` | `config.c:171`: the sentinel stays valid during a reset, which is not resumed after a power loss | `README.md:99` "Resets all keyboard customizations" |

## 5. The proofs

Every theorem holds for all values of the constants that satisfy the assumptions of
section 5.7.

### 5.1 Key state

`KeyStateProofs` proves `Spec => []IInv` (theorem `Invariance`) and from it one
theorem for each of `TypeOK`, `SlotsConsistent`, `SpecialKeysFixed`,
`CountExact`, `HookBalanced`, `LayerJustified` and `GetKeysFillsCount`. `IInv` is
the conjunction of the first six. None of them is inductive alone:
the count is only right after a scan if every occupied slot was announced before
it (`SlotsConsistent`); the codes in `hooked` only cancel if no key has two slots
and logical codes are injective on a layer; a remapping only leaves count and
layers alone because it never touches a steering key (`SpecialKeysFixed`); the
layer is only justified after the layer loop because it was before it.
`GetKeysFillsCount` then follows from count, slots and `DefaultMapAssumption`.

The step for a scan goes through `ScannedSlotsResult` (what the slots hold after
marking and recording), `LayerAfterJustified` (an induction over the turns of the
layer loop) and the balance of the notifications (`CountBalance`, `CodesBalance`).
The loop is a recursive function; `Lemmas` proves that such a function exists
and satisfies its equation (`LoopExists`), and induction over an interval of
numbers stated over sets, because the library's theorems take an operator.

The same facts about a scan give the action properties `HiddenUntilReleased`
(`HiddenStaysHidden`) and `NoKeyLostWithinCapacity` (`NoKeyLost`, which counts the
slots that are free when the pressed keys are recorded).

### 5.2 Main loop

`KeyboardMainProofs` has one invariant for each concern. `SteeringInv` adds to
`SteeringKeysFixed` that the code chosen for a remapping is none of a steering key:
the choice and the assignment are made in different states; a request of the host only
brings the factory's mapping. `EditInv` adds to
`OneSettingEdited` that the saved values are within their limits, hence not zero,
which stands for no edit. `HeldInv` carries `HeldTriggerPlaysOnce` across the
iterations between playback and release: until a key changes, the number of keys
waited for is the number of keys down. `MacroInv` adds to `OneMacroAtATime` which states
a wait may lead to, that no entry of the index is without events, and that the index
has room for the macro being recorded; `TypeInv` is all of them with what is left of
`TypeOK`.

### 5.3 Interpreter

`InterpreterProofs` reduces a step of the system to six ways in which a machine can
change (`MachineChange`) and an instruction to five (`Outcome`); the invariants of a
machine are proved from these lists. `MachinesInv` says what a stack looks like, with
its frames in order below its top; `FramesNest` follows. `OverrunBounded` needs that
the globals of a program fit the stack, a hypothesis of its theorem since no code
checks it. `MoveInv` adds to `MovesOnce` that a machine with a movement waits
for the mouse report. `TimeInv` says that a deadline that has not wrapped is no earlier than the
true time its wait should last to, on the current turn of the counter: a torn read that sets a
deadline only makes it later. A read that checks one is ahead of the time by less than the
bytes at which it was torn count, and not at all otherwise (`GoodReads`). `DelaysElapse` has no hypothesis: the interrupt may fall
between and into any reads, and the counter wraps. Its conclusion names the two ways in
which a wait can still be cut, and how much at most by a torn read; section 4 shows that
both happen. `ReportInv` relates a pending change to the extra report it was
made in, so that every report that appends it shows the change.

### 5.4 Layout backups

`StorageInv` of `LayoutWritesProofs` says that the indices are packed between two
calls, also right after a full reset, which leaves none. `CallInv` holds during one: the writes left lead from the storage as it is
to the storage after the whole call. From both follow `PackedBetween` and the
refinement `ImplementsSavedLayouts`: the last write of a call is the step of
`SavedLayouts`, every other one a stutter. For a loss of power `FrontInv` says that
no write left touches a backup in front, `EraseInv` that the index of the backup is
erased before anything else moves and written again by the last write;
`KeepsEarlier` and `NeverHalfSaved` follow.

`LayoutsBehaveAsCopies` goes up to `LayoutStore`. A part of the array lists a layout
(`Lists`) if it holds the remapped keys of the layout in ascending order with their codes; an
array holds copies of layouts (`Copies`) if the part of every used slot lists its layout and
that of an unused one is the factory layout. A delete moves the lists behind it as a
whole (`DeletedCopies`); a save writes a list behind the last one, key by key by its rank
(`SavedCopies`); the loop of a load has, after every turn, set the keys in front of it
and stands behind their elements, or at the last one (`LoadTurnStands`), so that it
ends with the layout listed (`LoadedIs`). A save is refused exactly when `LayoutStore`
refuses it: the elements in use are in bijection with the pairs of another slot and a key
remapped there (`SpaceTaken`). `CopiesInv` says that the storage shown between calls holds
copies, and that the call in progress will do to them what `LayoutStore` does; the second
part is needed because the result of a call is fixed when it begins and appears at its
last write.

### 5.5 Macros

`MacroWritesProofs` first shows what the bisection finds in a sorted index and where it
ends otherwise (`Search` is again a recursive function). `MacroInv` is the conjunction of
`WritesInv` (types, and writes that lead to the result of the call), `BetweenInv`
(between calls the index is sorted and, unless the storage was disturbed, the macros are
packed up to the end offset, with the recording right behind) and `DuringInv` (the same of the storage before the call). It
gives `SortedBetween`, `PackedBetween` and the refinement `ImplementsMacros`. Moving the
entries or the data passes through states where an entry is doubled or two macros
overlap. `KeepInv` describes them for `KeepsOtherMacros`: a call has made the first `m` of
its writes, and what those have made of the index and the data is given by the shape of
its list of writes (`OneShape`, `After`). In each such state the keys do not
descend, so the bisection still finds every other trigger, and what it starts is
untouched unless it is stored behind the macro being replaced, where the data move.

`MacrosBehaveAsMap` goes up to `MacroStore`: a storage stands for a map (`MapOf`), a
recording (`RecordingOf`) and what is left of a playback (`PlayingOf`), which are those of
the refinement mapping (`WholeMaps`, `WholePlaying`). `StartMaps`, `EndMaps`, `AppendMaps`,
`ProgramMaps`, `FactoryMaps` and `PlayMaps` say what a call makes of them, from the lemmas
about an index with an entry more or less and about data moved under it. Besides
`MacroInv` the argument needs `PlayInv`: while a macro is played nothing is recorded, so
the bytes still to be played do not move, unless the host resets them, which `MacroStore`
allows. That is the guard of `macros_start_macro` and `macros_start_playback` in the
model, which `OneMacroAtATime` (5.2) justifies. A disturbed storage maps to a lost one, of which
`MacroStore` says nothing; the argument there is only that the index stays sorted and typed and that
a reset outside a recording leads back to the factory's map.

### 5.6 Mouse, reset, drivers and playback

`DeviceProofs` proves the action property `ButtonsFollowKeys` for any buttons, axes and
dividers; its invariant `SampleInv` says that a fresh report shows the buttons of the last
sample. It proves `NeverRunsBlank` (with `ResetTypeOK`) for any number of power losses and of requests
served inside a reset.
There the inductive invariant `SentinelInv` says that no area is blank once the sentinel is valid,
and that in a reset the areas already passed are not blank; the last
step of a reset then makes the sentinel valid with no area left, and a reset around it goes on
with all areas written.

`CallsLeaveWhatWasAsked` is `ContentsAsAsked` of the drivers, for pages and chips of any
size and any number of calls. `EepromInv` has three parts: the call stays inside the
chip, and a write that is not split stays inside a page (`OpInv`); only a vendor write
leaves a page open, at the address its next byte belongs to (`ChipInv`); the contents,
with the bytes still to be written replaced by what the call wants there, are what is
expected (`ContentsInv`). The last part is what a move is about: the source bytes still
to be read must not have been overwritten, which holds for a downward move from the front
and for an upward one from the back. The theorem has `SpiMovesDown` as its hypothesis,
which both callers satisfy; section 4 shows that the property fails without it.

`MacroIsShown` is `ReportShowsMacro`, for any macros, held keys and sizes of the reports. `PlayInv` says
that `pressed` holds the keys that occur an odd number of times in the events played, and that the
playback report holds the same keys, each once, if the macro fits. What the merged report
then contains is `AppendExact` of `ExtraReportProofs`, by induction over the turns of
`ExtraKeyboardReport_append`; the number of its keys takes `NoRepeat`, since a key held
in two places would be appended twice.

### 5.7 Assumptions

They are on the constants, and TLC evaluates them in every run of the module.

* Key state: 1 to 255 slots and at most 84 keys (`SizeAssumption`; the count is a byte
  and 255 is NO_KEY), the remap and debounce bounds are legal values
  (`BoundAssumption`), and the factory mapping gives a steering key the same meaning on
  all layers (`DefaultMapAssumption`, true of the tables in `hardware/`).
* Main loop: a board has finitely many keys, its backups keep the steering keys, its
  factory macros fit the index and its triggers have a legal number of keys
  (`MainAssumption`).
* Interpreter: sizes and the operands of the instructions have their types, and the bytes
  divide the range of the counter (`InterpreterAssumption`, `ReportAssumption`).
* Layouts: keys and elements of the array are numbered by a byte, 255 standing for no
  key (`LayoutSizes`).
* Macros: entries are numbered by a byte, addresses by 15 bits, the unused entry ranks
  last, and the factory macros have different triggers, one length, and fit the index and
  the area (`MacroSizes`).
* Mouse and reset: dividers are not zero, an axis is for moving or for the wheel, and a key
  is a button or a direction (`MouseAssumption`); `LossesAssumption` types a bound.
* Drivers: a chip has whole pages (`PagedAssumption`), and `SpiMovesDown` as a
  hypothesis of the theorem.
* Playback: macros are sequences of keys and modifiers, and the held keys make a report
  (`PlaybackAssumption`, `ReportAssumption`).

### 5.8 Only model-checked

Liveness (`ComesBack`, `ReportWaitsEnd`, `TimedWaitsEnd`, `EventuallySilent`, `ButtonsReported`,
`Stops`, `CallsReturn`, `ComesToRun`): fairness and ENABLED are outside the prover's reach. These are
all properties of passing runs without a theorem. The statements of section 4 that the
code violates have none either.

## 6. What is not modelled, and the plan

The plan, in order:

1. The keyboard report with its rollover code as a sequence, so that the order of
   the slots matters.
2. Vendor requests served between two writes of an operation on the macro index.
3. The memory behind a machine's stack, so that an overrun reaches the next machine.

Not modelled, and why:

* Register access (`hardware/`, `twi.c`, the PWM of the buzzer), LED output, USB
  descriptors and endpoints, the LCD: no state of their own that another part depends
  on. The tables in `hardware/` appear as constants with the assumptions they meet.
* Values computed by programs: they decide which instruction comes next, and every
  choice is allowed instead.
* The AVR EEPROM, flash and RAM drivers: each is one call of the C library.
* The vendor requests that copy a whole area (mapping, programs, macro index): what
  they leave is what the client sends, and the code makes no promise about it. The
  requests that meet an operation in progress are in `PagedEeprom`, `Macros` (a recording or a
  playback) and `FactoryReset`. Left out are requests served between two writes of one
  call on the macro index or the macro data (`USB_KeepAlive(true)` at `macro_index.c:162`,
  187, 220 and 228 and inside the driver's moves) or of a delete of a layout.
* A storage that the host changed under a recording, beyond the end of that recording (section
  3), and an index that the client read before and writes back after another change of it.
* What the I2C chip does with the bytes of a vendor stream that follow a refused one: the
  driver ends the transaction (`i2c_eeprom.c:213`), the caller ignores the error
  (`lufa/eeext_endpoint_stream.c:24`) and sends the next byte outside of one, where the
  outcome is up to the TWI hardware. `Fail` covers the calls whose error ends them.
* What lies behind the stack of a machine: a header written past it changes the next machine's
  state and deadline (`interpreter.h:247`).
* A mapping written by the host (`WRITE_MAPPING`), which may contain anything, steering keys
  moved or removed included.
* The order of keys in the keyboard report and its rollover code; the translation of
  characters in `printing.c`; `macro_idx_format_key` and
  `sort.c`, pure functions whose result is the rank that stands for a trigger.
* The compiler and the client applications (`compiler/`, `qtclient/`), and the
  vendored libraries: `lufa/LUFA`, `lufa/Projects`, `lufa/Bootloaders`,
  `lufa/Demos` and `LiquidCrystal`. They make up all but some twenty thousand of the
  repository's lines and are not part of this program's own logic.
