# ElecRegulModule: a TLA+ model of the regulator

`src/module` is a daemon in C that manages the energy of a house with solar
panels, a battery and a Studer Xtender inverter/charger. It talks to a gateway
through an MQTT broker: it receives the power of each energy meter, the state of
the battery and of the mains, decides once per alarm of an interval timer
whether the battery charges or injects, and writes ten set-points to the
inverter. This directory holds the modules that model it, the TLC configurations
that check them and the theorems that TLAPS proves about them.

Its messages are JSON, read and written by a copy of cJSON 1.5.3 that is part of
the repository and modelled with it. The repository also holds the headers of
the Paho client, a log of an older version (`read_fast.txt`, whose format and
states are no longer those of the code) and `json_cfg.c`, which the Makefile does
not compile.

## 1. Inventory

| Component | State it keeps | Operations | Modelled in |
|---|---|---|---|
| Parameters: the `t_param` globals (Main:61-105) | `Value` of each of 30 parameters; 11 set-points, 19 readings | written by the MQTT thread, `State_management` and `Write_p`; read by the cycle | `Params`, `CFloat` |
| Energy management: `Calculs_p_k`, `Algo`, `State_management` (Main:233-419) | `STATE`, `Eb`, `Pb`, `SOC`, `Ps`, `Pr` | one decision and two calls of `State_management` per cycle | `Regulation`, `ControlCycle` |
| Control loop: `main` (Main:671-688), `Read_p`, `Write_p` (connection.c:119-216) | `algo_on`, progress of the writes | poll, request, decide, write | `RegulThreads`, `Session` |
| Reception: `msgarrvd` (connection.c:35-116), `parse_*` (conversion.c:87-154) | `meters[]`, `Ppv`, `Pl`, the `Value`s | one call per message, on the thread of the MQTT client | the values in `ControlCycle`, `RegulThreads`, `Session`; the texts in `Payloads` |
| Alarm and log: `timer_init`, `catch_alarm` (Main:431-513) | `algo_on`; `Time_now`, `Time_old` for the log | SIGALRM handler | `RegulThreads` (the log is left out) |
| Session: start-up of `main` (Main:622-655), `connlost`, `delivered` | subscriptions, the connection, the cursor of the loop | connect, subscribe, lose the connection | `Session`, `RegulThreads` |
| Dictionary: `dictionary.c`, `init_dic` | a linked list of key and parameter | new, add, has, get, remove, free | `DictList`, `Dictionary` |
| Payloads: `send_json_obj`, `strip`, `Read`, `Write`; the head of `msgarrvd` | the texts on their way, the memory each call leaves behind | build, print, cut up, publish; cut up, parse, look up, store | `Payloads`, `TextFilters` |
| cJSON, texts | `parse_buffer`, `printbuffer` | parse, print in four ways, minify | `JsonText`, `Utf16`, `JsonParse`, `PrintBuffer`, `JsonPrint`, `TextFilters` |
| cJSON, items | items linked by three pointers, with the memory they own | create, add, reference, insert, replace, detach, duplicate, compare, delete | `ItemLinks`, `JsonItems`, `JsonTrees`, `JsonCopies`, `ItemForest` |
| Daemonisation, `json_cfg.c`, Paho | - | - | not modelled (section 8) |

**How they interact.** Three activities share the globals without any lock. The
main thread runs the cycle. The client's thread calls `msgarrvd`, which stores a
reading in the `Value` that the dictionary names, or recomputes `Ppv` and `Pl`
from the meters. The signal handler raises `algo_on` at any point. The gateway
answers the requests of `Read_p`, and also reports the set-points, whose topics
the program subscribes to: what it reports lands in the same `Value` that
`State_management` computes and `Write_p` sends.

**What is hard.** A cycle is some fifty accesses to memory the two other
activities write. `Write_p` is ten publications, each waited for up to 10 s, and
none checked. Algo applies the former state to the new balance before it
decides, and one of its branches decides nothing. Before the gateway has
answered, the currents are quotients by 0 or by -10, and a C comparison with NaN
is false. The subscription loop moves the very global that `msgarrvd` looks
parameters up from. Nothing repairs a lost connection. Messages are cut up by
loops of their own before they are parsed, and commands after they are printed,
so what is parsed is not JSON any more. cJSON builds trees whose every step may
run out of memory, prints into buffers that grow under it, and links its items
by three pointers that five functions repair by hand.

**What makes each component correct.**

- *Energy management*: the two switches say one mode, that of `STATE`; the grid
  is not fed from an empty battery and a full one is not charged; the grid
  charges the battery only when it is nearly empty; currents stay within the
  battery's limits and the breakers; powers make up the balance.
- *Control loop*: the same between two cycles whatever arrived meanwhile; the two
  modes never start to overlap in the dangerous order; no alarm is lost; in the
  end the inverter does what the house calls for.
- *Session*: every reading requested is heard; the lookup never starts from NULL;
  what was lost at the start is made up for.
- *Dictionary*: it is a map.
- *Payloads*: a parameter gets the number its message meant, the gateway reads the
  command that was meant, and every message leaves the same behind.
- *cJSON*: the parser accepts JSON, frees what it built of anything else, and what
  is printed is read back as it was, within its buffer; the items are a forest,
  none lost and none freed twice, whatever fails.

## 2. Modules

| Module | Lines of code it stands for | Role |
|---|---|---|
| `CFloat` | arithmetic and comparisons of Main:251-286 | floats: integers, NaN, both infinities |
| `Params` | Main:61-105, connection.c:157-216 | parameters, initial values, what a write sends |
| `Regulation` | Main:233-419 | pure operators: `Decide`, `State_management`, `Saturate`, the currents |
| `ControlCycle` | the main loop and `msgarrvd` | the **abstract** program: a cycle is one step |
| `RegulThreads` | the same | the **detailed** program: one access at a time, three activities |
| `RegulThreadsRefinement` | - | `RegulThreads` implements `ControlCycle` |
| `DictList` | dictionary.c | the calls of the dictionary as operators on a sequence |
| `Dictionary` | dictionary.c | every sequence of those calls |
| `KeyMap` | - | the **abstract** dictionary: a map |
| `Session` | Main:523-565, 622-688, connection.c:20-152 | connection, subscriptions, requests, lookups |
| `JsonText` | cJSON.h:53-73, cJSON.c:170-191, 1697-1744 | texts as sequences of symbols, items as trees |
| `Utf16` | cJSON.c:485-640 | `\uXXXX` literals and the UTF-8 made of them |
| `JsonParse` | cJSON.c:219-293, 643-769, 908-1014, 1140-1193, 1274-1365, 1430-1536 | the parser, with its limits, its allocations and its clean-up |
| `JsonGrammar` | - | the **reference**: which texts are JSON |
| `PrintBuffer` | cJSON.c:314-403 | the sizes of a print buffer and `ensure` |
| `JsonPrint` | cJSON.c:406-482, 772-897, 1018-1137, 1196-1271, 1368-1427, 1539-1650 | the printer and its four entries |
| `TextFilters` | conversion.c:20-36, connection.c:58-69, cJSON.c:2370-2432 | what is done to a text in place |
| `Payloads` | connection.c:35-116, conversion.c:40-84, 140-154 | messages and commands as texts |
| `ItemLinks` | cJSON.c:158-191, 1668-2017 | items with their pointers, and the functions that follow and change those of one list |
| `JsonItems` | cJSON.c:170-191, 1944-2368 | the functions that create, free and copy whole trees, as runs of steps |
| `JsonTrees` | cJSON.c:158-191, 1774-2368 | a program that calls these functions in any order |
| `JsonCopies` | cJSON.c:2534-2635 | `cJSON_Compare`, and the copies of the items of `JsonTrees` |
| `ItemTrees` | - | lists of children and the trees they make |
| `ItemForest` | - | the **abstract** items: a forest of ordered trees |
| `RegulationProofs` | - | lemmas about `Regulation`, used by the proofs of both programs |
| `ControlCycleProofs`, `DictionaryProofs`, `SessionProofs` | - | theorems about the modules they are named after |
| `RegulThreadsProofs` | - | theorems about `RegulThreads` and `RegulThreadsRefinement` |
| `TextProofs` | - | theorems about `Utf16`, the parser, the printer and `Payloads` |
| `JsonItemsProofs` | - | what the functions of `ItemLinks` and `JsonItems` do to a heap of any size |
| `JsonTreesProofs` | - | theorems about `JsonTrees` and `ItemForest` |
| `MC*` | - | values of the constants for TLC |

`RegulThreads` and `ControlCycle` share `Regulation`, which shares `Params` and
`CFloat`. `Session` uses `DictList`. `Payloads` puts the parser, the printer and the
filters together, and `JsonGrammar` sets the grammar beside them (`AcceptsJson` is
stated there); `JsonTrees` calls `JsonItems`, which extends `ItemLinks`, and implements
`ItemForest`; both speak of trees in the terms of `ItemTrees`.

The functions that call themselves in the code are written so that they can be
reasoned about where a proof needs them. The parser and the printer are functions over levels
of nesting: `parse_value` of one level calls that of the level below, and there are
`Levels` of them, more than the nesting limit lets the parser use. `cJSON_Delete` and
`cJSON_Duplicate` are runs of steps with the calls under way in the state. Only
`cJSON_Compare` and the reference grammar are RECURSIVE operators, in modules of their
own that no proof reaches. An operator commented as a *seeded fault*
belongs to no specification: it is a definition with a plausible bug, by which
each property was shown to be able to fail.

### State and actions of RegulThreads

| Model | Code |
|---|---|
| `Value[p]` | field `Value` of the `t_param` named `p` |
| `meters`, `Ppv`, `Pl`, `State`, `Eb`, `Pb`, `SOC`, `Ps`, `Pr`, `algo_on` | the globals of these names (`STATE` is a reserved word) |
| `inverter[p]` | the set-point the inverter holds: the last one published |
| `reports` | reports of set-points on their way back |
| `pc`, `second`, `next` | the main thread's place: in the cycle, in which call of `State_management`, at which write |
| `MeterArrives`, `ParamArrives`, `ReportArrives` | `msgarrvd`, per kind of topic |
| `ReportSetpoint` | the gateway (external) |
| `ConnLost`, `Alarm` | `connlost`, `catch_alarm` |
| `Poll`, `Begin` | Main:674-679, with `Read_p` |
| `Calculs_p_k` | Main:297-348 |
| `SetFlags`, `SetCurrents`, `CutToCeiling` | `State_management` in three steps |
| `TakeDecision` | Algo between its two calls and its saturation, Main:352-418 |
| `Write`, `TestForce`, `SendForce`, `ClearForce` | `Write_p`, one publication or one access per step |

In `ControlCycle` all of the main thread's actions are one, `Cycle`.

### State and actions of Session

`Parameter_dic` is a sequence: the entries from the node the global points to.
`Subscribe` and `Advance` are the two statements of the loop's body,
`MoreEntries` its condition, `Restore` the assignment after it;
`sub_energ_counter` follows, then `Read_p` once per cycle. `msgarrvd` looks the
parameter up from wherever the cursor is and drops the message when it is not
found. `Answer`, `Announce` and `Change` are the gateway.

### State and actions of Payloads

`text` is a text in the making: `Extend` is the peer of the broker that writes it.
`MeterMessage`, `ParameterMessage` and `UnknownMessage` are `msgarrvd` called with
it, from the bracket filter to `cJSON_Delete`; `send_json_obj` is the function of
that name, when the text is an array that the format strings of `Read` and `Write`
can make. `live` counts the blocks of memory the calls leave behind, `status` says
whether the program survived: a message without `data` ends it, and the second
loop of the filter may corrupt it when there was no bracket to take out.

### State and actions of JsonTrees

`at` is the memory: each item with the fields of `struct cJSON` (cJSON.h:53-73).
`blocks` counts what is allocated; `held` are the items whose pointer the program
has. `lists` and `lent` are history: the lists as the pointers make them, and what
a reference shares. The actions have the names of the functions; each takes the
number of allocations it will be granted, so that memory runs out at any of its
steps. `ItemForest` says the same in terms of lists alone.

## 3. Abstractions

- **Floats** are integers of the quantity's unit, rounded toward zero, and tenths
  of a percent for the state of charge; division by zero and comparisons with NaN
  are those of C. The properties compare quantities with limits; none depends on
  a fraction. `1.03*SOCmin` and `0.97*SOCmax` are compared by cross
  multiplication, exactly.
- **Shared memory.** A step of the main thread accesses one global that another
  activity writes, or several that independent messages write, which could as
  well have come in another order. The data races are resolved as the build
  resolves them: the Makefile compiles with `-Og`, and the code gcc generates
  reads `Ppv` and `Pl` once in `Calculs_p_k` (so `Eb` and `Pb` are one balance),
  stores the very limit it compared, and reads back only the current that a
  conditional assignment stored. `algo_on`, though not volatile, is read again in
  each turn of the loop because of the calls in it. Another compiler or level of
  optimisation may give other outcomes, which these modules do not cover.
- **The inverter** holds the last published value of each set-point. `Write_p`
  waits for each publication, so they arrive in order.
- **Messages** carry one value of one known topic in `ControlCycle`, `RegulThreads`
  and `Session`; `Payloads` is about their text and keeps one parameter and one
  meter. The two meet in what a message stores: a number of its `data`.
- **Texts** are sequences of symbols: a byte or one of the three words (`Width` says
  how many bytes each takes). A `\uXXXX` literal is its six bytes, which `parse_hex4`
  reads, whatever they are. A name of several letters is one symbol. Numbers are digits with a sign: what `strtod`
  and `%1.15g` do with fractions and exponents is libc's.
- **Allocations** are counted: a call is granted a number of them, and every later
  one fails. `realloc` is there for the program; a library user may replace the
  allocators, and then there is none (cJSON.c:128-155). Both are modelled.
- **Items** carry the text they own and the name, owned or constant, but no value.
  The program of `JsonTrees` passes what the functions require and keeps what a
  reference shares unchanged. Where a function would follow a NULL pointer
  (`cJSON_ReplaceItem*` of an item that does not exist, a reference that could not
  be made added to an object, a member without a name compared exactly) there is
  no step.
- **Not stored:** `Psmax_charge`, `Psmax_discharge`, `Plsec`, `Kg`, `Ps_opti` and
  the log's variables, which no decision reads; `Transfer_relay_allowed` is kept,
  though `Write_p` never sends it.
- **SIGALRM** may interrupt the main thread between any two steps.

## 4. Runs

| Run | Specification | Question | Result |
|---|---|---|---|
| `control_cycle` | `ControlCycle!Spec` | do whole cycles protect the battery and balance the powers? | holds, 280 k states |
| `control_cycle_recommended` | same | is the charge current below the recommended one, as the note at Main:111 says? | **violated** |
| `control_cycle_start` | same | is the charge current one the breakers stand from the first cycle? | **violated** (NaN) |
| `threads` | `RegulThreads!FairSpec` | mode, ceilings, battery and order of the writes, with readings at any point and a connection lost anywhere; alarms served, changes of mode completed, the house followed | holds, 531 k |
| `threads_inject` | `RegulThreads!Spec` | the ceilings on the injection side, while limits change and reports overwrite the current | holds, 463 k |
| `threads_reports` | `RegulThreads!Spec` | does the mode survive reports of set-points? | **violated** |
| `refinement` | `RegulThreads` with a history variable | do the accesses add up to the atomic cycle, when no message comes in between? | holds, 1.2 M |
| `dictionary` | `Dictionary!Spec` | does every call do what its name says, and is the list a map? | holds, 634 |
| `session` | `Session!FairSpec` | cursor valid, all requests heard, losses made up for | holds, 141 k |
| `session_dropped` | `Session!Spec` | is what is dropped really unknown? | **violated** |
| `payloads` | `Payloads!Spec` | parser, printer, `Minify`, `msgarrvd` and `send_json_obj` on every short text | holds, 120 k |
| `items` | `JsonTrees!Spec` | pointers, memory and copies of items, against the forest | holds, 153 k |

What the properties say:

- `ModeMatchesState` is the heart: between cycles exactly one of charging and
  injecting is on, the one of `STATE`. In `ControlCycle` it holds even when
  reports of older set-points arrive between cycles, because every decision of a
  known state rewrites both switches. In `RegulThreads` it holds for readings at
  any point and breaks for reports (section 5).
- `NoInjectionWhenEmpty`, `NoChargeWhenFull`, `DeficitChargeOnlyNearEmpty`:
  through all sequences of states, among them the branch that keeps the former
  one (Main:391-394). `BatteryProtected` says it of the threads, against the
  level that the cycle read.
- `BreakersHold`, `CeilingsHold`, `InjectionWithinDischargeLimit`,
  `ChargeWithinLimit`: stated as "never greater", since that is what the code's
  comparisons establish; that NaN passes them is the finding
  `ChargeCurrentForBreakers`. `CeilingsHold` covers the Values that
  `State_management` leaves uncut for a moment.
- `PowerBalance`: `Ps + Pr` is the balance (state 2 adds 50 W), up to `Prmax`,
  in the right direction.
- `InjectsDeficitOnly`: the state is never decided on one balance and the
  current computed from another.
- `InjectionNeverStartsWhileCharging` rests on the order of two lines of
  `Write_p`; `OverlapCloses` says the overlap in the other direction ends.
- `AlarmServed` holds without any later alarm: `algo_on` is cleared before the
  readings are used, never after. `PlantFollows` is the purpose of the program.
- `RefinesControlCycle`: the abstract step is taken at the last write; until then
  the abstract variables keep their values from before the cycle, which a history
  variable remembers.
- `HeardWhenRunning`: neither subscription loop reaches the end of its list, and
  what they leave out is no reading and one meter only. This justifies
  `SubscribedMeters` in `ControlCycle`. `CatchesUp`: a value lost while the
  cursor moved reaches the program in the end, because cycles ask for it again.
- `CallsDoWhatTheySay`, `KeysUnique`, `MapWhileFirstStays`: the last one has to
  except calls that move the first entry, after which its successor has the
  value of the key that was removed (dictionary.c:82-91). The program adds each
  key once and removes none, so it never makes such a call.

- `AcceptsJson` compares two independent definitions of JSON, the recursive descent
  with its offsets and the grammar: the parser accepts JSON, and nothing else but
  texts in which a `\u` lacks its four hexadecimal digits. To those `parse_hex4` answers
  0, which is no error and taken for the code (cJSON.c:505-508), so `"\uZZZZ"` is read
  as the empty string. `ParseBalances` runs the parser on every text
  with every number of allocations it could ask for, so that it stops at each of
  them, and asks that the decoded string and its terminator fit what `parse_string` has
  allocated; `PrintBalances` is the same question of memory for the printer.
- `RoundTrip`: printing and parsing are inverse, formatted or not. `PrintsAlike`:
  the four entries write the same text, from buffers that grow, are guessed or
  given, never beyond them; the five spare bytes that cJSON.h:148 asks for are
  enough and a buffer one byte too short is refused.
- `StoresTheData`: though the brackets of a message are taken out before it is
  parsed, which leaves a text that is no JSON, a message that was JSON stores the
  number of its `data` and ends nothing. It rests on `cJSON_Parse` not asking for
  the end of the text. `NamesFound`: the lookup never meets a member without a
  name, because no array survives the filter.
- `SaysWhatWasMeant`: what is published reads as the command with the array as an
  array, though it is built as a string and cut up as a text.
- `LeavesTheSame`: each message leaves two blocks behind and each command one,
  whatever it was. The leaks are the code's; that nothing else leaks is the point.
- `Linked`, `MemoryCounted`: no pointer leads to a freed item, lists read the same
  in both directions, and the memory in use is that of the items in use, through
  failed allocations, renamed members, constant names and references.
  `CopiesAreWhole`: a copy is equal or leaves no trace. `RefinesForest`: each call
  does to the lists what its name says, and one tree is one place.

### Bounds

- Two meters, one of production and one of consumption: Algo sees only sums. Their
  powers give a surplus and a deficit, below and (in `control_cycle`) above the
  8000 W of `Prmax`.
- State of charge: a value on each side of the four thresholds, the one between
  `SOCmin` and `1.03*SOCmin` among them (102); 0, the initial value, is the empty
  battery.
- One value per voltage and limit beside the initial one (0, or -10 for the
  mains), so that each limit is met both before and after its first reading. They
  are chosen so that every cut is reached: 240 A against the 200 A of the
  breakers, 39 A against the 34 A of the mains.
- `MaxReports = 1` report in flight, of one set-point: one report suffices for
  the violation, and reports of several set-points are independent stores.
- `Presets`: the inverter as a former run left it, charging.
- `Quiet` lets messages in only between cycles, in `refinement` alone; the
  invariants of the other runs are checked without it.
- `Session`: the first entry of the dictionary and one in its middle are followed,
  with two values each, and one message of each topic in flight; all 30 entries
  are subscribed. `Dictionary`: four keys (a first, a last and two middle nodes)
  and two values.

- `Payloads`: every text of up to six pieces that may still become JSON, or has
  just stopped to: brackets, the `[{` that opens a message, comma, colon, blank,
  digit, sign, a word, the member that is looked up, strings with a good and a
  bad escape; and every string of up to six pieces: a quote, a backslash, the letter
  of an escape, a control byte, literals of the two halves of a surrogate pair and
  of a letter of two bytes, and `u000`, which after a backslash starts a literal
  whose last digit is whatever follows, a backslash among them.
  `Plenty = 100` allocations are more than any of these texts takes. `NestingLimit = 2` and `NumberSize = 3` bring both limits within
  reach, and `Levels = 4` leaves the two levels beyond that an array of what was
  parsed needs; `INT_MAX` is the code's. Two calls, so that a second one meets what a
  first has left.
- `JsonTrees`: four items, which make lists of three and trees of three levels, and
  four more for a copy that is looked at; allocations for 1, 2, 3, 5 or all of a
  call's needs; one copied and one constant name that differ in case only. Items
  are interchangeable, so they are a symmetry set: no operator chooses among them
  but by `CHOOSE` of any free one, and the properties are the same for each.

### Fairness

`RegulThreads!FairSpec` assumes weak fairness of the main thread alone:
`MQTTClient_waitForCompletion` is bounded by `TIMEOUT` (conversion.c:78), and
nothing else in the loop blocks. Messages and the alarm get none. `PlantFollows`
states what it needs as a premise: the timer keeps firing (Main:498-513 sets an
interval), the connection stays up, and the balance keeps its sign.
`Session!FairSpec` adds the client's thread, which delivers what it received, and
the gateway's answers to requests; messages nobody requested are never assumed.

## 5. Findings

1. **Recommended current** (`control_cycle_recommended`). The note at
   Main:111 and Write_read_v20.h:90 has the charge current {1138} below {7065},
   the recommended one. Main:283 compares it with {7063}, the limit; the
   recommended one is received and never read.
2. **First cycle** (`control_cycle_start`). `algo_on` starts at 1 and `Read_p`
   only sends requests, so the first cycle computes `0/0`. The NaN passes both
   tests at Main:283-286 and is published as charge current.
3. **Reports undo decisions** (`threads_reports`). A report of `Charger_allowed`
   that arrives between `State_management` and its write is what gets written:
   the cycle ends in state 1 with charger and grid feeding both allowed, until a
   later cycle.
4. **Messages lost at start** (`session_dropped`). While the subscription loop
   moves `Parameter_dic`, messages of the entries it has passed are not found,
   and are reported as missing from a dictionary they are in. For readings
   `CatchesUp` holds; a set-point, which no cycle requests, stays unknown.

Noted without a run, as no text of the repository says otherwise:
`Transfer_relay_allowed` and `SKIN_RECEP` are never subscribed; an AC-IN voltage
of -10 makes the first AC-IN current -800 A. In the texts: two objects are lost
per message and a buffer per command (connection.c:41, conversion.c:52), and
`MQTTClient_free` is given the array of a parameter's topic (conversion.c:81); a
parameter's message without `data` is read through NULL; a second opening bracket
in a message may do the same, since taking it out leaves no JSON. In cJSON: when
`realloc` fails, `ensure` returns NULL plus the offset and loses the old buffer,
so that without memory a print writes through it; `cJSON_PrintBuffered` keeps its
buffer when it fails; a digit that is not hexadecimal makes a literal the code 0,
which is accepted and ends the string (the exception of `AcceptsJson`); a number is read in pieces of 63 bytes; `cJSON_Minify`
reads on after a string or a comment that nothing closes; `cJSON_Compare` looks
only at the elements both arrays have and the members of the first object.

## 6. Proofs

`ControlCycleProofs` proves for **every** set of meters, readings and presets
what `control_cycle` checks on a small one: `TypeCorrect`, `Mode`,
`EmptyBatteryKept`, `DeficitChargesLast`, `FullBatteryNotCharged`,
`BreakersProtected`, `PowersBalanced`, and the action properties
`FeedingWithinLimit` and `ChargingWithinLimit`.

*Assumptions*: `FloatAssumption` (NaN and the infinities are three distinct
values outside the integers) and `InputAssumption` (readings and powers are
integers, the presets map set-points to integers, no meter outside the
subscribed ones).

*Argument.* `TypeOK` is inductive by itself: closure lemmas show that each
division and each cut returns a float for integer readings. Its part
"every measure is finite" is what the rest needs: `Cycle` divides measures only.
The safety invariants follow from `TypeOK` and one lemma about a cycle: its
outcome is determined by the state it decides, so each invariant splits by the
leaves of `Decide`. Only the branch that keeps the former state needs care:
there the battery is not `Empty` and is `NearlyEmpty`, so whichever state is kept
satisfies the invariants with the new level. Messages between cycles change
neither `inverter`, `SOC` nor `Eb`, so they preserve what the cycle established;
that is why the invariants speak of the level the cycle read. For
`NoChargeWhenFull` the current of state 5 is `0 / U`: zero, or NaN which is not
greater than zero, and the announced limit can only replace it by something
smaller; the full case is proved for negative limits and voltages too.

`RegulThreadsProofs` proves what `threads` checks of its safety, for every set of
readings, at every interleaving. One invariant serves each property, and each
says at which program points which part of the shared state can be trusted:

- `Types`: `TypeOK` with the reports as a sequence (`TypeCorrect`).
- `CeilingInv`: a current above its ceiling is in the `Value` it is sent from
  between `SetCurrents` and `CutToCeiling` only, and no report carries one, since
  reports repeat what the inverter holds. `Ceilings` assumes that the presets keep
  the ceilings, as the former run of the program left them so.
- `DecisionInv`: `Eb = Pb`, and from the decision to the next cycle `Ps` and `SOC` are
  those of the state decided (`DeficitOnly`).
- `ModeInv`: the switches in the `Value`s are those of `STATE` from `SetFlags` to the
  last write, those of the inverter from the second and the third write on
  (`Mode`, `ChargerOffFirst`). `Mode` assumes that the two switches are not
  reported; `threads_reports` shows that it has to.
- `BatteryInv`: the same for the charge current of a full battery, from the NaN or
  zero that `ChargeDemand` makes of no power, through the cut, to the seventh write
  (`BatterySpared`, which also needs that this current is not reported).

The same module proves `Refinement`: with messages between cycles only, no reports
and a connection that holds - what the run `refinement` assumes - `HSpec` implements
`ControlCycle`. `CycleInv` gives `Value` at each program point as one of the
operators of `Regulation` applied to what the cycle started with (`Source`,
`Outcome`), and the inverter as a mixture of the values sent and the former ones,
divided at `next`. It rests on the invariants above for `second` and `next`.

`DictionaryProofs`: for any keys and values, `KeysUnique`, `CallsDoWhatTheySay` and
`MapWhileFirstStays` hold after any calls. Both ways of taking an entry out leave the
keys in their order without one (`LosesKey`), and a key that is in the list once is
found where it is (`Found`).

`SessionProofs` proves of `Session`, for any published parameters and data, that the
cursor is on an entry of the dictionary at every moment (`TypeCorrect`), that a
running program with its connection up has subscribed to what it requests
(`Heard`), and that a message is stored under its own parameter or arrives while
the subscription loop is under way (`StoredOutsideTheLoop`). The dictionary that
`init_dic` makes with thirty additions is first shown to be the list of `InitOrder`
(`DicFacts`). The invariant `SInv` then says which suffix of it the cursor is at: some
`n`, which is 1 again at every point outside the loop, such that as long as the
connection lasts the entries before `n` are subscribed.

### The texts

`TextProofs` is about texts, trees and buffers of any size. On the literals: the halves
of a surrogate pair and the code points of the supplementary planes are in
one-to-one correspondence (`PairsReachThePlanes`, `PairsAreApart`); the UTF-8 of any
code point reads back as it (`Utf8IsReadBack`) and takes at most three bytes for each
literal of six characters (`LiteralFits`).

`StringsFit`: of any text, what `parse_string` writes and its terminator fit the output it
has allocated, the length of the string less `skipped_bytes` (cJSON.c:656-681). The
difficulty is that the two loops do not always see the same escapes: where a literal
lacks digits, the first loop counts a backslash among them as one more escape, and
the second takes it for a digit. Places the first loop jumps from are never next to
each other (`JumpsAre`), so of the six symbols of a literal it has skipped at most
three, which leaves the three bytes of `LiteralFits`; and of the two of a short escape
at most one. So what is written and skipped so far never exceeds what was read
(`Inside`), by induction along the second loop. Where that loop takes the closing quote
for an escaped character, the argument uses the byte that was counted for the first
quote; the code has it to spare otherwise.

*The parser.* `ParsingBalances`: of every text, with any number of allocations, the
parser ends within the text and returns a tree of valid items, no deeper than the
nesting limit allows, whose blocks are exactly those it keeps, or nothing, and keeps
nothing. The argument goes up the levels of nesting: what a level returns is described
by one set, `Reading`, and a level that calls a reader of that kind is one itself. A
list of elements is read by a run whose length the text bounds; along it the blocks in
use are those of the elements so far. From it and `StringsFit` come `ParsesBalance` (`ParseBalances`) and,
with the invariant `Counted` of `Payloads`, `NamesAreFound` (`NamesFound`: the filter
leaves no array, so every child that is looked at has a name) and `CallsLeaveTheSame`
(`LeavesTheSame`).

*What the bracket filter does to a message.* `DataIsStored` (`StoresTheData`): a message that
is an object in brackets has no other bracket in it, so the filter leaves the
text without its first and its last symbol, which is no JSON. `Shadows(b, c)` relates
the parser in the whole text to the parser in `Tail` of it: one symbol further, one
level of nesting deeper, with no more allocations. Each function of the parser takes
two such buffers to two such buffers with the same item, as long as the first
one succeeds. `ElementsAreRead` says that of a whole array; the closing bracket that
is missing in the other text is never asked for, since `cJSON_Parse` does
not ask for the end of the text.

*The printer.* `ensure`, when it succeeds, gives the room it was asked for, whatever
the buffer, the need and the doubling up to `INT_MAX` (`EnsureGivesRoom`); a write within
what was asked for keeps the buffer sound (`StoredStaysInside`). `PrintsAreOneText`: for
every tree there is one text such that `print`, `cJSON_PrintBuffered` and
`cJSON_PrintPreallocated` write it or return nothing, never outside their buffer, and
a given buffer with two bytes to spare takes it. The argument follows the buffer:
what a function has at its start is some text `t`, what it leaves when it
succeeds is `t` followed by what the item reads as at that depth, and what it needs is
bounded by the length of that. `ParsedItemsPrint` is the same of whatever the parser
has returned, and `PrintsBalance` (`PrintBalances`) adds that a print of it that is
refused memory keeps nothing, with allocators of the user. Where `realloc` is there
and fails, the code writes through NULL (section 5): these theorems leave it
out, by the condition `Spared` on the buffer.

### The items of cJSON

`JsonItemsProofs` is about single calls, on a heap of any size that is `Sound`:

- its pointers *show* the lists `k` (`Shows`): `child` is the first of a list, `next` and
  `prev` are its neighbours in it, an item of no list has neither;
- the lists are those of a forest (`IsForest`): no item in two places, none of the
  roots in a list, every item in use under a root;
- `live` is the number of blocks the items in use are made of, and an item that is
  not in use is blank.

`DetachImplemented`, `AddImplemented`, `InsertImplemented` and `ReplaceImplemented`: the
assignments to three or five pointers make of the lists exactly what the call is
named for, at both ends and in the middle, and touch no other field of any item.
`IndexFinds` and `NameFinds`: following `next` finds what is in the lists. A call that
visits a whole tree is a run of steps; an invariant holds along it, a number
decreases with each step, so the run ends, and a bound on that number at its
start shows that it ends in time. `DeleteImplemented`: what has been freed, what is
waiting for its children and what is still to come make up the tree at any moment,
and each item is freed after all of its children. `ArrayMade`, `DuplicateMade`: the
calls under way hold disjoint pieces of the new tree, so a failure at any of them
frees all that was made and nothing else.

`JsonTreesProofs` is about a program that makes any of these calls in any order, with
any number of allocations granted. The inductive invariant `IInv` has two parts:
the heap is `Sound` for the history variable `lists` with the roots `held`, and it is
`Lending`: each reference shares the first child of the item `lent` names, which is
in use and is no reference itself. The second part is what `Linked` alone does not
say, and what a deletion needs: the guards `MayFree` and `Owners` keep what is shared
from being freed or changed, so that `child` of a reference never dangles. From it
follow `PointersHold` (`Linked`), `MemoryHolds` (`MemoryCounted`) and `ForestRefined`
(`RefinesForest`): each action is a step of `ItemForest` or changes no list. `ForestSafe`
says what that forest keeps: every item in one place, only items in use linked,
and each of them under one the program holds. `TreesSafe` puts the two together.

*Assumption*: `TreesAssumption` (finitely many items, NULL is neither an item nor a
name, the types are those modelled, allocations and indices are natural numbers; a
negative index returns at once in the code). The invariant holds of every set of
items; the run checks its consequences on four.

*Assumptions* of the others: `ThreadAssumption` (inputs as in `ControlCycle`),
`DictionaryAssumption` (NULL is no value), `SessionAssumption` (what is published is in
the dictionary, NULL is not, and -10 is no reading), `IntAssumption` (`INT_MAX` is a
positive integer), `TextAssumption` and `ParseAssumption` (NULL is neither a text nor a tree;
trees have two levels more than the parser may nest; a number is at least one byte),
`PiecesAssumption` (what a peer writes are sequences of symbols), `PlentyAssumption` (a
call is granted some positive number of allocations, any one: "any size" does not
rest on the 100 of the run); the rest are hypotheses of the theorems that need them.

### What is only model-checked

- `RoundTrip`, `PrintsAlike` and `SaysWhatWasMeant` say of every text of the run that its
  print *succeeds*, which for texts of any size depends on `INT_MAX` and on the
  allocations granted; and `RoundTrip` and `SaysWhatWasMeant` that the text
  printed is read back, which would take the argument of the parser once more, for the
  texts that the printer makes. Of `PrintsAlike`, that the entries write one text, within
  their buffer, is `PrintsAreOneText`.
- `AcceptsJson` and `MinifyKeeps`: the first compares the parser with a recursive
  grammar, which no proof reaches; the second would take the parser through two texts
  side by side, as `DataIsStored` does, with blanks taken out anywhere.
- `CopiesAreWhole`: that a failed copy leaves no trace is `DuplicateMade`; that a whole
  one is *equal*, by the code's own recursive `cJSON_Compare`, is what the run adds.
- Liveness: `AlarmServed`, `OverlapCloses`, `PlantFollows` and `CatchesUp` rest on fairness,
  which is out of the prover's reach.
- The four violations of section 5.

Where induction over a recursive *function* of the naturals was needed (the fold of
`init_dic`, the levels of a tree, the runs of steps), it is made through sets of
naturals and their least elements.

## 7. Plan

Done: all modules of section 2, their runs and the theorems of section 6.

Left, in the order of what it would add:

1. Refinement of `RegulThreads` with messages during the cycle: the abstract cycle
   would take its snapshot of each reading at the point where it is read, and
   reports would be part of it.
2. The parser through the texts that the printer and `cJSON_Minify` make, along the
   argument of `DataIsStored`: `RoundTrip` and `MinifyKeeps` for texts of any size, as far as the
   memory suffices.
3. A recursion-free form of `cJSON_Compare`, as runs of steps like `cJSON_Delete`, so that
   the equality of a copy can be proved too.
4. Numbers with fraction and exponent, as cJSON prints them and reads them back.

## 8. Not modelled

- The text of topics and of the log.
- Fractions and exponents of numbers, the decimal point of the locale,
  `cJSON_SetNumberHelper` and the saturated `valueint`, `cJSON_InitHooks` (its effect,
  allocators without `realloc`, is), `cJSON_Version`, `cJSON_GetErrorPtr`.
- In the texts, a backslash before a word and a word among the digits of a literal: a
  word is one symbol, which the code reads letter by letter there.
- `fork_process`, `setsid`, file descriptors: they happen before anything is
  shared. The termination signals increment a counter nothing reads, so the
  program cannot be stopped by them; there is no state to model.
- The log: `catch_alarm` prints and opens a file from a signal context without
  checking `fopen`. Its effect on the regulation is `algo_on`.
- `json_cfg.c`: not compiled, and it calls a function that does not exist. Paho:
  third-party headers and a binary; the model assumes callbacks on their own
  thread and publications in order.
