# A verified model of the FC Galaxian project

The repository builds a Galaxian-style shooter for the DE2-115 board. The game
runs in SystemVerilog (`src/fc_galaxian_game.sv`) at one step per video frame;
a Nios II program (`src/software/text_mode/`) drives a CY7C67200 USB host chip
and hands the game one keycode through a parallel port. An older part of the
project, a text-mode display (`src/vga_text_avl_interface.sv` and its C driver),
is still in the system-on-chip. This directory holds TLA+ modules of that code,
the TLC configurations that check them on small instances, and proofs for every
value of the constants.

## 1. Inventory

| Component | State it keeps | Operations | Hard because |
|---|---|---|---|
| Game core, `fc_galaxian_game.sv` 1-593 | game state, ship, shots, formation, lives, wave, score, timers (20 registers) | reset; one tick per frame: title, play, life lost, game over, restart | one tick makes several moves at once through non-blocking assignments: the last assignment wins, every test reads the old registers; unsigned arithmetic on 10-bit positions; switches change at any time |
| Renderer, `fc_galaxian_game.sv` 144-219, 293-303, 595-1030 | none | colour of a pixel | long, visual |
| VGA timing, `VGA_controller.sv`; frame tick, `fc_galaxian_game.sv` 130-142 | pixel clock, beam, syncs, tick | one step per clock edge; asynchronous reset | counters run in a derived clock; registered syncs beside combinational flags |
| Text-mode display, `vga_text_avl_interface.sv` | VRAM, palette, scan-out pipeline | Avalon reads and writes with byte enables; scan-out | two ports on one memory, a pipeline that must stay aligned, read latency |
| HPI bridge, `hpi_io_intf.sv`, `io_handler.c` | registered strobes, address, data both ways | `IO_init`, `IO_write`, `IO_read` | the bus is driven combinationally while the strobes are registered |
| USB transfers, `usb.c` | the chip's transfer list and message register | set address, descriptors, configuration; `UsbWaitTDListDone`, `UsbGetRetryCnt` | a list written again while the chip walks it, completion messages left over from a repeated sending, a message register that is read and cleared in two accesses |
| USB keyboard, `usb_keyboard.c` | place in the enumeration, toggle, data size, keycode port | enumerate, poll, unplug and plug again | unplugging at any moment, waits without limits, acknowledgements that belong to another command |
| Text-mode software, `text_mode_vga_color.c`, `text_mode_vga.c` | none of its own | clear, draw text, set palette (read, modify, write) | read-modify-write through the bus |
| Demos and tests, `keyboard_test.c`, `mixed_keyboard_vga_test.c`, `palette_test.c`, `lab9_vga_demo.c` | none | call the drivers | - |
| `fc_galaxian_top.sv`, `HexDriver.sv` | none | wiring, a table | - |
| `software/receive/`, `lab9_soc/`, board support, databases | - | older copies and generated or vendored code | - |

How they interact. The VGA counters raise `frame_tick`; at the next clock edge
the game core moves, reading `keycode` and `SW` as they are; the renderer draws
the registers while the beam passes. The keyboard driver writes `keycode`
through a port register, with no handshake. `KEY[0]` resets everything.

What makes each correct:

- Game core: registers stay in range; lives, state, wave and fleet agree; the
  score counts kills; the formation stays visible and comes down; a cleared
  wave, a hit and a landing in the same tick leave a sensible game; a lost life
  ends in play.
- VGA timing: one tick per picture, away from the visible pixels' drawing;
  syncs in the blanking; ticks for ever.
- Text display: a pixel is drawn from one cell; a palette write changes one
  colour; a read returns what was written.
- HPI bridge: a call reaches the register it names; a read returns what the
  register held during the call; nobody drives the bus against the chip.
- USB: a keyboard that stays is set up, step by step, each on a list of its own;
  its reports arrive; its removal is noticed; the lists' addresses fit together.

## 2. Modules

| Module | Models | State and actions |
|---|---|---|
| `FcGalaxianGame` | the game core | one variable per register (a shot is a position or `NoBullet` instead of an active bit and two coordinates; `enemy_alive` is the set of set bits; `score_ones` is constant 0 and left out). Actions: `TitleTick`, `PlayTick`, `LifeLostTick`, `GameOverTick`, `RestartTick` (the branches of the `case`), `Reset` |
| `GalaxianRules` | no code: the abstract game, implemented by `FcGalaxianGame` | phase, lives, wave, fleet, points; `Title`, `Start`, `Play`, `Respawn` |
| `VgaController` | `VGA_controller.sv` and the frame tick | `ClkEdge`, `ResetEdge`; `drawn` is a history variable that counts the pixels begun since the last tick (saturating one past a picture, so that a missing tick shows) |
| `Cy7c67200` | external: the host chip, the keyboard on its port and the user | mailbox, SIE1msg and the two flags of the HPI status, the list in memory and the one being run, the keyboard; executing a command, taking a list, ending it cleanly, with a used retry or without an answer, plugging, unplugging, pressing |
| `UsbKeyboard` | `usb_keyboard_run`, `UsbSoftReset`, `UsbWaitTDListDone`, `UsbGetRetryCnt`; extends `Cy7c67200` | place and step of the driver, its counters, what it read last, the keycode port. One action per stretch between two accesses at which the chip's progress matters |
| `KeyboardHost` | no code: a host that makes its requests in order, each at most twice, and makes the next one only after every making has ended; implemented by `UsbKeyboard` with a prompt chip | request, its stage, the makings that have not ended, the last outcome, the keyboard; `Make`, `MakeAgain`, `MakeNoMore`, `Answer`, `NoAnswer`, `Proceed`, `StartAgain`, `BusReset` |
| `UsbTransferLists` | the nine functions of `usb.c` that write a list, and the poll's list | the words of the lists; `HandOver`, `Take`, `Walk`, `Resend`, `Proceed`: the chip follows the next pointers while the driver may write the list again |
| `HpiBridge` | `io_handler.c`, `hpi_io_intf.sv` | ports, bridge registers, bus, the chip's registers; `Edge` (with or without a port access of `IO_init`, `IO_write`, `IO_read`), `Call`, `ChipChanges`, `Reset` |
| `HpiRegisters` | no code: a register file, implemented by `HpiBridge` | registers, the call in progress, its result |
| `VgaText` | `vga_text_avl_interface.sv`, `textVGAColorClr`, `textVGADrawColorText`, `setColorPalette`, the read-back of `textVGATest` | VRAM, palette, scan-out registers, the bus's read, the program's call; one action per clock of the program's transfer, `Wait` for a clock without |
| `TextDisplay` | no code: a screen and a palette that calls change, implemented by `VgaText` | code and colours of each place, palette, the call in progress; `PutCode`, `PutLook`, `SetColor`, and `SpoilColors` for a text that goes on as far as the palette |
| `FcGalaxianGameProofs`, `FcGalaxianShotProofs`, `VgaControllerProofs`, `UsbKeyboardProofs`, `UsbTransferListsProofs`, `HpiBridgeProofs`, `VgaTextProofs`, `VgaTextCallsProofs` | theorems | - |
| `MCFcGalaxianGame`, `MCUsbKeyboard`, `MCVgaText` | sets of keys, switches, reports, calls for TLC | - |

Mapping decisions of the game and the VGA timing.

- One step of `FcGalaxianGame` is a clock edge with `reset_n` low or
  `frame_tick` high; at all other edges the registers keep their values. All
  right-hand sides read unprimed variables. Where the code assigns a register
  several times in one tick, the order of the conditions in the `_next`
  operators is the code's order from the last assignment to the first; the
  comments name the lines.
- `Init` is the power-up state, all registers zero, since nothing presses the
  reset key before the first frame. `ST_TITLE` is 0.
- Keycodes are grouped as the decoders of lines 105-111 tell them apart. `W`
  and `A S D` are the arrows; Enter (0x28, 0x58) is "enter".
- Localparams and literals are CONSTANTS. The widths of the registers do not
  appear: `TypeOK` bounds every register by a value its width holds, so
  wrapping never happens (that is what is proved), except the score, whose
  digit arithmetic is modelled.
- Colours, glyphs, the shapes the display switches select and the reported
  `difficulty_level` output are left out of the core: no register depends on
  them.
- In `VgaController` the reset key is held for at least one edge of the 50 MHz
  clock (a push button), so the asynchronous and synchronous resets show as one.

Mapping decisions of the USB driver.

- A list is its step and the control word of its first transfer; its words are
  the subject of `UsbTransferLists`. A control word is `done` (0x03), `active`
  (0x13) or anything else (`retried`).
- SIE1msg is a set of bits: `TDListDone` (0x1000) and every other one. The
  driver compares the whole word with 0x1000, so another bit beside it hides it;
  the chip may post either. Reading it and clearing it are two actions.
- The data at 0x051e, where the driver looks for keycodes, is a variable: the
  lists of the enumeration and the reports share that word (`LeftInReport`).
- `UsbSoftReset` takes 600 ms; what the chip's BIOS leaves behind in that time
  is `BiosGarbage`. A command executed by the chip is acknowledged in the
  mailbox; the second acknowledgement is not waited for (187), as in the code.
- `swapped` and `clean` are history variables: unplugged since the bus reset,
  and the step whose list ended cleanly last, 0 if none did since the first
  sending of the present step.
- Reading the mailbox in `InitAnswered` and `ResetAnswered` lowers its flag in
  the chip; the flag is not looked at again before `ClearInterrupts` has lowered
  it, so the model leaves that out. A message just read is forgotten when it was
  looked at.
- Where the driver leaves the chip's behaviour open, the chip is open: how long
  a list takes, whether a retry shows in the control word (`RETRIES`), whether a
  poll without a report ends.
- The chip's frames of 1 ms have a clock of their own. `FrameStart` may come
  between any two accesses of the driver, for either value of `PROMPT`: while it
  looks at the flag and writes the whole list again (240-244), so that a list
  may run twice, and between the pointer to the endpoint descriptor and the next
  list (407-419), so that the descriptor may be taken for a list (`running` is
  -1 then, and a message comes for nothing).
- `PROMPT` is about the end of lists only: a list that waits or runs, and the
  one it may have been at when the list was sent again, ends before a sleep of
  the driver is over. That is the 10 ms between two looks at the flag and the
  100 ms after the first sending of the second configuration descriptor request
  (359; `SleptEnough`), 8000 reads of an empty message or 2000 of the same one
  (`WaitRead`), and 2000 looks at a control word (`RetryControl`), each with a
  sleep of 1 ms. A poll without a report is excepted: the keyboard answers when
  it has one.

Mapping decisions of the bridge. A step is an edge of the 50 MHz clock; at most
one port access of the program ends at it. `GAP`, the edges between two
accesses, is at least 3: the Nios II/e takes six cycles or more for an
instruction, and has no caches. The ports drive the bus directly and everything
else through one register. `KEEP`, at least 1, is how many edges an undriven
bus holds its value, its hold time: the chip takes a word when its strobe
rises, one edge after the bridge released the bus. The chip does not listen
until `IO_init` is over.

Mapping decisions of the text display. A step is a clock; a pixel takes two
(`half`). The memory's second port registers its address; the pixel is delayed
beside it. A word that is written at the clock at which it is drawn comes out as
anything of `Garbage` (mixed ports, read during write). A read takes two clocks
and the second one fetches. Byte enables of a write are the fields of a
character. A text is written to the places from its first one on, whatever is
there: behind the screen's words nothing, and from byte 0x2000 on, place 4096
(`PALETTE_PLACE`), the eight words of the palette. There a byte is merged into
the word (202-206): a code or a pair of colours lands on the bits of one or both
of the word's colours (`HalvesHit`), which become anything of `Rgb`. The
component has 12 address bits, 8192 places (`ADDRESSES`); texts that go on past
them reach other components and are excluded by `CallsAssumption`. `shown` and
`settled` are history variables.

## 3. Runs

| Run | Instance | Shows |
|---|---|---|
| `GameCombat` | 1x2 enemies, 2 ship shots, 1 enemy shot, all keys, coarse grid (steps of 40-60 pixels), 2 waves, 2 lives, fair ticks | ranges, agreement of lives and state, shots that never overlap or pass their target, a quiet start of waves, one shot per kill, refinement of `GalaxianRules`; a lost life ends, a wave ends |
| `GameSwitches` | 4 switch settings that change at any tick: shot limits, three formations, three difficulty levels; 3 waves, binary digits | the formation on screen while switches move, the score equals the kills through all carries; at every step it changes by one kill, to 0 at the start of a game, or not at all, and at the display's end falls back to the highest digit alone |
| `GameRealGrid` | the source's own numbers, 15 lives, keys none and Enter, hardest switches | the formation on the screen of the real grid, until it lands |
| `VgaSmall` | 13x11 picture | one tick per picture, sync placement, ticks for ever |
| `VgaVSync` | the source's lines, 8 columns | *violation*: the vertical pulse is on lines 489-490, the comment says 490-491 |
| `UsbAnyTiming` | any timing of chip and user, used retries, limits of 1 and 2 | no descriptor is asked of a keyboard without an address; no step is left on a stale message alone; the chip is at most one list behind until a step can be given up |
| `UsbUnplug` | a prompt chip with frames at any moment, retries that do not show, unplugging at any moment, fairness | a keyboard that stays is set up and polled, but for one endless wait (section 5), its report reaches the port, its removal is noticed; the chip is at the present step's list or at the endpoint descriptor just pointed to; refinement of `KeyboardHost` |
| `UsbPhantomKey` | as `UsbUnplug`, no fairness | *violation*: the port shows a key nobody pressed |
| `UsbLists` | the source's words, each list written again up to twice | the chip never leaves the list that is meant, data covers what was requested and stays off the list, toggles alternate |
| `HpiBridge` | 2 registers, 2 words, the smallest gap and hold time, resets at any edge | nobody drives against the other, the chip takes only the word of a call, a read returns a value of the call's time, refinement of `HpiRegisters` |
| `TextScreen` | 2x2 characters of 2x1 pixels, 2 colours in one word at places 6 and 7, texts over the end of a line, over the end of the screen and onto the palette | the picture is memory's, refinement of `TextDisplay` |
| `TextReadBack` | the same | *violation*: VRAM does not read back what was written |

Why the bounds are enough. The game's grids are coarse but keep every comparison
relevant: an enemy and a shot meet in several slots, the march turns at both
edges, the formation lands, a shot leaves at the top and at the bottom.
Reachability of the hard coincidences on `GameCombat` was confirmed by negating
them: a wave cleared on a tick with a march, with an enemy shot fired, with a
landing, with a hit; a hit on the tick of a landing while lives remain; two ship
shots in flight; a kill at the top score. `START_LIVES`, `MAX_WAVE`,
`MAX_LEVEL`, the periods and `SCORE_RADIX` are small in the runs; each counter
reaches its limit. `GameRealGrid` has a 15-life game because with 3 an idle ship
dies before the formation lands; the idle keys keep it to one path per start.

The driver's limits are 5 and 7 looks, 8000 reads and 2000 equal words; the runs
use 1 and 2. A limit is only compared with a counter that grows by one, so what
matters is that it is passed, met and not met, and that a message comes before
and after. The proofs hold for every limit. Two reports, no key and one in the
second place, tell apart a key that arrives, one that goes and one that is
overlooked. `UsbLists` has no small numbers: its lists are the code's.
Two registers and two words of `HpiBridge` tell the addressed register from
another and the call's word from another. On `VgaText`'s screen a line has one
memory word, a text crosses a line and the screen's end, and a pixel, its
character and its half change at different clocks. No bound was added to a
specification itself: their states are finite.

Fairness. `FairSpec` of the game assumes ticks keep coming. `FramesKeepComing`
shows that of `VgaController`, from the fairness of the oscillator alone and
provided the reset key is not pressed for ever again. `FairSpec` of `UsbKeyboard`
assumes that the program keeps running, and that the chip starts frames, ends a
list that it can end and executes its commands, each weak fairness; nothing is
assumed about the user, and nothing about a poll that has no report to carry.
Two windows need strong fairness: a frame does not start every time between the
pointer and the look at the flag (`LookInTime`, some microseconds), nor between
that look and the end of the rewriting (`ResendInTime`, some hundreds of
microseconds, against a frame of 1 ms). If it did, every try would run its list
twice, the second `SET ADDRESS` would go unanswered, and the driver would start
again (254-258) for ever. Frame clock and program are not locked to each other,
and the sleeps and resets between two tries shift them.

Liveness also needs `PROMPT`, and it is not true without: `UsbGetRetryCnt`
(usb.c 589) waits without limit for one more message when it finds one, and with
a chip slower than the sleeps that message can have been the last. With a prompt
chip the same wait is endless in one case, which `KeyboardSetUp` excepts by name
(`WaitsForNoMessage`): the endpoint descriptor was taken for a list and its
message for the next list's. `RETRIES = FALSE` is needed because steps 4 and 5
wait for a clean control word and do not send again.

Every property of a passing run has a mutant in `PROJECT.json`: an operator
written next to the one it replaces, which breaks the property the way a
plausible bug would.

## 4. Proofs

All proofs are for every value of the constants that satisfies the named
assumptions. TLC evaluates the assumptions in the runs; those of the game with
the source's numbers in `GameRealGrid`.

`FcGalaxianGameProofs` and `FcGalaxianShotProofs` (every grid, number of enemies
up to 4x8, lives, waves, key and switch sets):

- `TypeCorrect`: `Spec => []TypeOK`;
- `LivesDecideGame`: `Spec => []GameAlive`;
- `FormationVisible`: `Spec => []FormationOnScreen`;
- `RulesHold`: `Spec => RulesImplemented`, the refinement of `GalaxianRules`;
- `ScoreCountsKills`: `Spec => []ScoreMatchesWaves`;
- `KillsAreScored`: `Spec => KillsScore`, with more than one enemy (the kill of
  a single one clears the wave, and the fleet is the same after it);
- `ShotsApart`: `Spec => []ShotsKeepApart`;
- `ShotsMeetTheirTargets`: `Spec => NoTunnelling`;
- `KillsSpendShots`: `Spec => KillSpendsShot`;
- `WavesStartQuiet`: `Spec => WaveStartsQuiet`.

The inductive invariant is `IInv`, the conjunction of `TypeOK`, `GameAlive`,
`FormationRoom` and `ShipAboveFloor`. `TypeOK` alone is not inductive: that the
formation's registers stay in range needs that a landing ends the game before
the second drop, which is the relation of height and `move_timer` in
`FormationRoom`; that in turn needs the ship to stay above its floor. The
geometry is reduced to linear arithmetic by lemmas about rows and columns
(`GridIndex`, `TimesMonotone`).

`ShotsApart` needs a strengthening of its own, `ShotsAhead`: the ship is behind
every shot of its own by the shot's length and what the shot has gained in the
ticks of cool-down gone since the last one was fired. With the source's numbers
the distance at the next shot is at least 10 * 3 + 8 = 38 pixels against a
length of 12. `NoTunnelling` rests on `TunnelAssumption`: in one tick a shot and
an enemy close by 8 + 16 = 24 pixels, less than their heights' sum of 28.
`ScoreCountsKills` rests on `ScoreAssumption` (15 * 32 kills in 1000 counts).
`KillsScore` gives the score after every step in every state: 0 when a game
starts or is reset, the next number when `enemy_alive` changed, the old one
otherwise; the lemma `KillShows` says that a kill always changes `enemy_alive`.

`VgaControllerProofs` proves `BeamTypeCorrect`, `TickPerPicture`,
`TickIsAtOrigin` and `VisibleWithoutSync` for every picture size and pulse
placement that satisfies `TimingAssumption`. The invariant adds to `TypeOK` that
`drawn` is the beam's place counted from the last tick (`Place`) and what the
detector and the derived clock look like around the origin (`Origin`).

`HpiBridgeProofs` proves `TypeCorrect`, `OneDriver`, `WordsAreCalls`,
`ReadsAreCurrent` and `Implements` (the refinement of `HpiRegisters`) for every
register and word set, every gap of 3 or more and every hold time. The invariant
says what the ports show at each place of the program (`PortsInv`), which of
them the bridge's registers have caught up with, given the edges since the last
access (`PinsInv`), and what a write has on the bus and a read has on its way
back (`WriteInv`, `ReadInv`). `PaceAssumption` is where the gap is needed: a
word read passes three registers.

`UsbKeyboardProofs` proves `TypeCorrect`, `AddressedFirst`, `StepsEnd`, `KeepsUp`
and `HostImplements` for every set of reports and every limit, and all but the
last one for both values of `PROMPT` and `RETRIES`: any timing of chip and user.
The invariant says which step can be
where (`PlaceInv`), that no command is pending once the first step is left and
no list while the port is set up (`PendingInv`), and so that the list which ends
the first step is the one that gave the keyboard its address (`FirstListInv`).

The later steps share one control word at 0x0508, and a list may have been sent
twice, so whose end the driver sees needs an argument about the chip's list. Of
a chip of any speed, `SlowInv` says: it may still be at the list of the step
before, but once the control word is no longer active it is not; that is what
keeps it from falling two lists behind. From the first step that
`wait_for_td_control_done` may give up the argument ends, and so does the
property. Of a prompt chip, `PromptInv` says: outside the
sleep the step's list waits (`Pending`, perhaps behind the endpoint descriptor),
runs (`Running`) or has ended (`Ended`), and the control word says which. During
the sleep after it was sent again the first sending may still run or may have
run (`Again`), but by the end of the sleep both are over. A clean control word
then means that `clean` is the present step. `KeepsUp` adds that the chip can be at the endpoint
descriptor, but only in the step after it was pointed to.

`HostImplements` is the refinement of `KeyboardHost`, for `PROMPT`. The makings
that have not ended are the list that runs and the one that waits (`Open`), and
each action has a lemma that gives the host's step: a frame start is a stutter,
the end of a list an `Answer` or a `NoAnswer`, the list written again a
`MakeAgain` whether the first sending waits, runs or has ended. That a step is
left with nothing open needs `PromptInv`. The first step starts everything again
when its control word is not clean, and that must be the failure of its own
list, the second run of an answered one included: no done message is left over
for it from before the reset (`MessageInv`), and the waits that end without one
outlast the list (`RequestInv`). Before the reset the chip may still be at a
poll, which the keyboard does not notice (`StartInv`).

`VgaTextProofs` proves `PictureDrawn` for every screen with an even number of
columns, every glyph table, palette and program. The invariant adds that the
memory's second port shows the word of the pixel one clock back (`WordInv`);
`PlaceSplits` is the arithmetic: the code's `row * 40 + col / 2` and the half
`col % 2` are word and half of the place `row * 80 + col` that the program
writes.

`VgaTextCallsProofs` proves `TypeCorrect` and `CallsCorrect`, the refinement of
`TextDisplay`, for the same constants and any set of calls that satisfies
`CallsAssumption`: texts at any place and of any length within the component's
addresses, also past the end of the screen, with the characters and colours that
the screen has. A character changes a colour only from `PALETTE_PLACE` on, and
then only those of its word (`PaletteHit`, `SpoilShown`); `AddressAssumption`
is what keeps the screen's words apart from the palette's (`ScreenFirst`). The
driver needs many accesses for one call, and `TextDisplay` changes one place or
one colour at a time; the attribute byte of
`textVGADrawColorText` and its code byte are two writes, of which the first one
is the abstract step's colour and the second one its code. The invariant
`CallInv` is the loop invariants of the C functions: the places before the
present one are cleared (`ClearedSoFar`) or hold the text (`DrawnSoFar`), the
halves of the place being written included; the word that `setColorPalette` has
read is still the palette's when it is written back (`WordFetched`), so that
the other colour of that word is not lost; the colour is set when the call
returns (`ColorSet`). That is an invariant because one program makes the calls:
with a second writer `WordFetched` would be the conjunct to fall.

`UsbTransferListsProofs` proves `TypeCorrect`, `WalkCorrect`, `DataCovered`,
`BuffersClear` and `TogglesCorrect` for every number of resends. What the
addresses have to do with one another is stated once for a list (`Linked`: each
next pointer is the address after its descriptor and the last one is 0) and
once for a request (`Stage`, `Whole`, `Enclosed`: setup, data in one block,
status), and a lemma shows it for each list of `usb.c`, constant by constant.
The invariant `WalkInv` is about the chip's walk while the driver writes: memory
holds the list's words up to the one written last, all of them once the list was
handed over, and the chip stands at the address that follows from the number of
descriptors it has done. Writing the list again stores the words that are there
already, which is why it may happen under the chip's walk.

Only model-checked: liveness (`RespawnEnds`, `WavesEnd`, `FramesKeepComing`,
`KeyboardSetUp`, `ReportArrives`, `RemovalNoticed`), which the proof system does
not handle. Every safety property of a passing run is a theorem.

## 5. Findings

- The vertical sync pulse is one line earlier than its comment says
  (`VGA_controller.sv` 98 and 105, run `VgaVSync`). Horizontal sync compensates
  its register by looking one pixel ahead; the same `+ 1` in the vertical
  comparison looks one *line* ahead. Monitors do not mind.
- A first poll that ends without data gives the game the key 0x20, the low byte
  of the next pointer 0x0520 that the last list of the enumeration left in the
  word at 0x051e (`usb_keyboard.c` 559-572, run `UsbPhantomKey`). The game does
  not decode that key, so nothing moves.
- A read of VRAM returns the word of the address that was on the bus a clock
  earlier: the memory registers the address, the slave registers the word, and
  the bus waits one clock only (`vga_text_avl_interface.sv` 208-215,
  `VGA_text_mode_controller_hw.tcl` 107, run `TextReadBack`). The palette takes
  one register and reads right. Only `textVGATest`, which is not in the present
  `Makefile`, reads VRAM.

Behaviours that are not errors of the code but surprise a reader, all modelled:
a wave cleared on the tick of a march keeps the old formation's place
(`MoveFormation`); one enemy shot can cross into the next wave
(`WaveStartsQuiet` bounds it); landing counts the places of dead enemies too
(`Invaded`); the score falls back from 9990 to 9000 (`CountKill`; `KillsScore` says that this
is all that happens at the end of the display). A text that goes on 1696 places
beyond the screen changes the palette (`SpoilColors`). In the
keyboard driver: a frame between the pointer and the end of the rewriting
(238-246) lets a list run twice, and when the second `SET ADDRESS` comes to a
keyboard that has its address, it goes unanswered and everything starts again
(254-258); a frame between 407 and 419 runs the patched endpoint descriptor as a
list, its message passes for the next list's, and `UsbGetRetryCnt`, when it
then finds the step's own message, waits for another one for ever (`usb.c`
585-591), also with a prompt chip; with a chip that takes longer than 10 ms for a list, the clean
end of a list that was sent twice ends the next step too, whose own request may
then be answered later or, when its list is written over before a frame starts,
never (`StepsEndCleanlyOrStuck` allows it for `PROMPT = FALSE` only);
`LAB9_PROGRESS_REPORT.md` 399-401 describes a test of the done bit, the code
compares the whole message (`usb.c` 534, 585), and the other exits of the wait
make up for it; the report's "timeout" of steps 7 to 9 (402) bounds the control
word's repetition but not the wait inside `UsbGetRetryCnt`; a
keyboard swapped for another between two looks is polled without ever being set
up; the keycode port keeps its last key while no keyboard is there.

## 6. Plan

Left, in this order:

1. The renderer's boxes against the collision boxes: which pixels a sprite
   covers and what the hit tests compare.
2. The composition of keyboard port, frame tick and game: every press held for
   two frames is seen once. Each side is modelled; the port between them is one
   register.
3. The keyboard's side of the data toggle, if a source for what the chip does
   with a wrong one turns up.
4. Proofs: what the port shows while the keyboard is polled, as part of
   `KeyboardHost`: the last report that arrived, or what the enumeration left
   in its place.

## 7. Not modelled

See `components` in `PROJECT.json` for each part and the reason. In the modelled
parts: `RESET` of the text display in mid-run, which is its initial state only;
the wait states of its writes, which change nothing; the screen saver and
the colour tests of `text_mode_vga.c`, loops over modelled calls; the words of
the keyboard's descriptors, which the driver only stores, but for the length it
reads. `software/receive/` is an earlier copy of `usb.c` and `usb_keyboard.c`
that the present system does not build. Metastability of the unsynchronised
inputs, clock skew between `clk` and the derived pixel clock and electrical bus
behaviour beyond `KEEP` are outside the models.

How much of the repository this is. Most of its C and header lines are register
definitions of the chip (`cy7c67200.h`, twice), generated board support and
vendored examples; the project's own C program is about 3000 lines in two
copies, of which the driver's logic, the bridge's access functions and the text
calls are modelled, and the hardware is SystemVerilog.
