# Verification of cardputer-ai

TLA+ specifications of the Cardputer firmware (`src/firmware`) and of the proxy
it talks to (`src/proxy`), small instances of them for TLC, and proofs for the
TLA+ proof system.  Paths below are relative to the repository; `fw/` stands for
`src/firmware/src/` and `px/` for `src/proxy/src/cardputer_proxy/`.

## 1. The system

A Cardputer (an ESP32 with a keyboard and a small screen) joins a Wi-Fi, brings
up a WireGuard tunnel to a home server and sends the user's messages to a proxy
there.  The proxy checks the device's bearer, picks the profile the device names,
calls the provider's API and streams the answer back as server-sent events.  A
command line tool on the server registers devices: it draws keys, an address and
a bearer, and writes a bundle of two files that travels to the device on an SD
card.

The firmware has one task (Arduino's `setup()` and `loop()`); whatever blocks it
blocks the device.  The proxy is asynchronous: handlers of different connections
interleave at every `await`, and the profile handlers run on a thread pool.  The
command line tool is a process of its own per command.

### Inventory

| Component | Code | State | Operations |
|---|---|---|---|
| chat turn, device | `fw/chat_client.cpp`, `fw/http_sse.cpp`, `fw/main.cpp` `send_current_input` | the conversation in RAM, one socket, one line buffer, two kinds of timeout | send, read a line, parse an event, give up |
| chat turn, proxy | `px/app.py`, `px/sse.py`, `px/adapters/` | per connection: handler, adapter iteration, upstream stream | admit or refuse, translate an event, end, fail, be cancelled |
| tunnel link | `fw/wg_link.cpp` | three flags over a library | start, stop, is_up |
| supervisor | `fw/main.cpp` `setup`, `loop`; `fw/wifi_sta.cpp` | place in the loop, status bar | connect Wi-Fi, ask for the time, start, repair, heartbeat, reconnect |
| provisioning | `fw/provisioning.cpp`, `fw/sd_bundle.cpp`, `fw/nvs_config.cpp`, `fw/profile_store.cpp`, `fw/main.cpp`, `fw/settings_view.cpp` | five NVS namespaces, two files on the card | read, commit, wipe, restart, factory reset |
| token registry | `px/tokens.py`, `px/auth.py`, `px/config.py` | `tokens.json`, the running server's copy of it | load, add, revoke, look up |
| peer registry and CLI | `px/peers.py`, `px/cli.py` | `peers.json`, bundles on disk | peer add, peer revoke, rollback, list |
| profile catalog | `px/catalog.py`, `px/app.py` | `profiles.json`, a dictionary | list, create, patch, delete, test |
| scrollback | `fw/scrollback.cpp` | a ring of 32 wrapped lines | push, append to the last |
| chat view | `fw/chat_view.cpp`, `fw/main.cpp` | status, label and input as last set, the dirty flag, what is painted | set, mark, render |
| keyboard and menus | `fw/keyboard_input.cpp`, `fw/picker_view.cpp`, `fw/settings_view.cpp`, `fw/main.cpp` | a ring of 16 characters, a ring of 8 special keys, four pending flags; per view its cursor or its text | poll; input line, picker, settings, reset prompt |
| profile client | `fw/proxy_api.cpp`, `fw/profile_store.cpp` | cached profile list, active profile in RAM and NVS | fetch, choose |
| hardware probes, deployment | `fw/probe_*.cpp`, `fw/net_probe.cpp`, `src/ops` | none | bring-up, installation |

How they meet: the chat turn's two sides share a TCP connection; the supervisor
drives the link and shares the only task with the chat turn and the menus; the
CLI and the server share `tokens.json`, through the file system alone; the CLI
and the provisioning share the bundle on the card; the provisioning and
`setup()` share the NVS.  The four views read one keyboard, one after the other,
and everything that reports to the user goes through one scrollback and one dirty
flag.  The profile client shows what the catalog served.

### What is hard, and what makes each part correct

* **Chat turn.**  A turn the device gave up on (5 s of silence, 60 s in all) is
  still being streamed by its handler when the next one starts; the connection
  may die in the middle of a line; the upstream may fail before or after the
  chunk that commits the status code.  Correct: no reply holds text of another
  turn, no hole and nothing twice; a failed turn leaves no trace in the history;
  every request alternates roles; the turn always ends.
* **Link and supervisor.**  Handshake, Wi-Fi, path and clock change at any point
  of blocking waits, and the library's calls fail.  Correct: the flags say what
  the library does, the default route never stays in a dead tunnel, the tunnel
  comes back unaided and takes the default route.
* **Provisioning.**  Power may go between any two writes to the flash or the
  card, and cards are exchanged meanwhile.  Correct: no file leaves a card before
  the device has the whole bundle it commits, and the device runs with one whole
  bundle or with none.
* **Registries.**  Two files are replaced one after the other, by processes that
  may be killed, fail, or overlap, and a server reads one of them at its start
  only.  Correct: what was handed out works, addresses are distinct, a
  revocation sticks.
* **Catalog.**  Check, change and save by several threads over one dictionary,
  without a lock; a write that fails after the dictionary was changed; a service
  killed in between.  Correct: an overlap never touches a profile that no request
  names, and a change that runs alone is durable, or fails without a trace but for the
  one error path that is not rolled back.
* **Keyboard and menus.**  Rings that fill up while a view paints, keys left over
  from one view and read by the next.  Correct: keys come in order, are dropped
  only when their ring is full, and no leftover key confirms a factory reset.
* **Scrollback and chat view.**  A ring of lines at its limit, texts that break
  in the middle of words, painting that only happens when somebody asks for it.
  Correct: the newest lines, every letter in order, nothing stale on the display.

`PROJECT.json` lists the hazards line by line.

## 2. Modules

| Module | Models | Composed of |
|---|---|---|
| `ChatWire` | the connection of a turn: request, lines in flight, loss | |
| `DeviceChat` | `send_current_input`, `chat_client::send`, `http_sse::post_sse` | `ChatWire` |
| `ProxyChat` | `chat_completions`, the adapters, `chunks_to_sse` | `ChatWire` |
| `ChatTurn` | device, proxy and network interleaved; the properties | both |
| `Conversation` | what a chat promises its user | |
| `WgLink` | `wg_link.cpp` as operators on its flags and on the library | |
| `Supervisor` | `setup()` and `loop()` with the world around them | `WgLink` |
| `Provisioning` | the provisioning fork, commit, wipe, factory reset | |
| `Enrolment` | what provisioning promises | |
| `Registry` | both files, the CLI processes, the server's copy | |
| `TokenLife` | what the token registry promises | |
| `Catalog` | `catalog.py`, its routes in `app.py`, the seeding in `config.py` | |
| `Shelf` | what a durable catalog promises to changes made one at a time | |
| `KeyRing` | the two rings of `keyboard_input.cpp`, for any size | |
| `Keyboard` | `poll()`: the look, the sorting, the key it returns | `KeyRing` |
| `KeyFifo` | what a keyboard promises the views that read it | |
| `ProfileList` | `fetch_profiles` as a function of what arrived | |
| `Console` | the input line, the picker, the settings and the prompt | `Keyboard`, `ProfileList` |
| `Scrollback` | `scrollback.cpp` as operators on its ring | |
| `LineWindow` | what a scrollback promises | |
| `Screen` | every caller of the scrollback and of `chat_view.cpp` | `Scrollback` |
| `MC...` | small instances for TLC | |
| `...Proofs` | theorems and proofs | |

In every module an operator that is a deliberately wrong version of an action is
marked "Mutant"; it is used nowhere in the specification.  Replacing the action
by it breaks a property, which shows that the property depends on the code.

### ChatTurn

A connection is numbered by the turn that opened it, so `sock[t]`, `wire[t]`,
`asked[t]` outlive the turn, as the sockets of the code do on the proxy's side.
Text is a sequence of units `<<turn, position>>`; position 0 is the question.
That is all the properties tell apart: whose text, which part, in which order.
The JSON around it is not modelled, but an event longer than the device's line
buffer is (`LineCap`): `read_line` returns it in pieces.

`DeviceChat` has one action per blocking read of `post_sse`: status line, headers
(their loop is one action, since only the status code counts afterwards; in the
code each header line has a wait of its own and the loop no deadline over all, so the
model takes it that a peer ends its headers), the
head of the body loop, where the overall deadline is looked at, and a body line.
`Fail` and `Succeed` include what `chat_client::send` and `send_current_input` do
after the return: the `pop_back`, or the push of the reply, and the status.  Time
is `Tick`, 5 s each; `HeadTicks`, `LineTicks` and `OverallTicks` are the three
timeouts in ticks.

`ProxyChat` has one action per event of the upstream.  Before the first chunk
(`handler[t] = "first"`) nothing is on the wire; the first chunk writes the
response head and itself, which is what `_wrapped` in `app.py` does.  The two
adapters differ in which events yield a chunk and which end the iteration
(`Yields`, `Ends`).  `Refusal` has the checks in the order of the code.

### Supervisor and WgLink

`WgLink` keeps the wrapper's flags (`initialized`, `connected`, `default_set`)
beside what the library does (`inits`, `armed`, `peer`, `route`).  `start()` is
cut at its wait for the handshake: `Start` up to it, `AwaitHandshake` in
`Supervisor` for the wait, `TakeRoute` after it.  The failing exits of `start()`
are `StartFails`.  `pc` names the places where the task blocks.  The server
refuses a handshake that is not newer than the last (`accepted`): that is why
`setup()` asks for the time first.  A wait may be over at once in `loop()`
because `millis() < deadline` fails when the deadline wrapped (`BeginWait`).

### Provisioning

A card is named by the bundle it carries and a key of the NVS holds the name of
the bundle its value came from, so a mixture of two bundles is visible.  The
commit is one action per key (`WriteKey`), the wipe one per file, the factory
reset one per namespace: power may be lost between any two of them.  `Cleared` has
the Wi-Fi's namespace first, as `wipe_all` does.  `Remove` acts on the card that
is in the slot when it runs, as `SD.remove` does, whichever was read.  The two
reads of `try_read` are one step, at which the card may be pulled but not
exchanged.  A cleared namespace goes as a whole.  The schema byte of a namespace
is written before its keys and cleared with them, so it is not a variable.  `Init`
allows for Wi-Fi settings that are there already, as the comment in
`provisioning.cpp` (70-71) says of the unit of M4; nothing else in the code writes
them.

### Registry

Each command is cut where another process can run: load `peers.json`, load
`tokens.json`, replace `tokens.json`, replace `peers.json`, write the bundle.  A
process works on the copies it loaded (`job[p].toks`, `job[p].prs`) and a save
replaces the whole file by its copy.  `mode` is the owner and mode of
`tokens.json`: the replacement is a temporary file of mode 0600 that belongs to
whoever ran the command.  `Restart` is a start of the service, which reads the
file or fails.

### Catalog

A request to a route that is not async runs on a thread of the pool, and the
interpreter may switch threads anywhere.  `Create`, `Patch` and `Delete` are the
checks of the routes, `Look`, `Put` and `Pop` the accesses to the dictionary,
`Encode` and `Replace` the two halves of `_save` (what is written is what the
dictionary held when it was encoded), `Rollback` the `except` branches.  `Encode`
also ends in the `RuntimeError` of a dictionary whose size changed while it was
iterated, or in the `OSError` of the `mkdir` (`Failures` has `directory`), and
nobody catches either: the answer is `raised` where that of a `CatalogError` is
`error`, and the dictionary keeps the change.  A shelf maps ids to profiles; the
order of the file is left out.  `Shelf` tells what is kept, what is served and
what was served before the change being made (`base`): a change is committed,
taken back, or left.  `lone`, `began`, `loaded`, `touched`, `alone` and `seen`
only record what the properties speak of.

### Keyboard and Console

A call of `poll()` is cut into `Look`, one `SortKey` for each character of the
library's word, and `ServeKey`, which returns a key and lets the open view act on
it; a key may be pressed before every call.  `Meaning` is the `switch` of
`poll()`.  The rings are arrays with a head and a tail (`KeyRing`); `Contents`
reads them off oldest first.  `view` says whose loop polls: that is all the
control there is, since a view returns only by its own code.  `Fetch` replaces
the list by what `Walk` makes of any beginning of an answer; `Walk` is a recursive
function on the positions of the text, as the code's loop is, and goes on behind
`ObjectEnd`.  An object without an id (`NoId`) is passed over, as in the code; the
lists that the model serves have none.  Sending a message
and repairing the tunnel are other modules' business and take no key.

### Scrollback and Screen

A character is 0 for the space, or a letter, numbered in the order in which the
program hands letters to the scrollback; so the order, the loss and the
repetition of text are visible, and texts are given as shapes of letters and
spaces.  `Cut` is where `push` ends a line, `Remainder` what it goes on with,
`Room` and `Overflow` how `append_to_last` fills the last line.  A handler of
`main.cpp` is the list of the calls it makes (`todo`); each call is a step, and
`push` one step per line.

## 3. What TLC checks

| Run | Instance | Distinct states | Shows |
|---|---|---|---|
| `chat_turns` | 2 turns, 3 units of text, 3 lines in flight, two profiles (Anthropic and pass-through) | 971,686 | types, `HistoryAlternates`, `RequestWellFormed`, `ReplyIsPrefix`, `DoneMeansAllText`, refinement of `Conversation` |
| `chat_one` | 1 turn, 4 units, 4 lines, all refusals, a line buffer that holds one unit | 53,491 | `FailureShowsNothing`, `TurnEnds`, refinement of `Conversation` |
| `link` | all failures `start()` looks at, 2 looks per wait, 1 reconnect | 7,880 | types, `FlagsMirror`, `StaleRouteCleared`, `TunnelRecovers` |
| `link_full_tunnel` | no failures | | violates `UpMeansFullTunnel` |
| `provision` | 2 good bundles and a broken one, 2 power losses, 1 reset, a failing card, a put that may fail (`prov_at`) | 1,790,944 | types, `KeptBeforeWiped`, `CommittedComesUp`, refinement of `Enrolment` |
| `provision_fresh` | nothing fails | | violates `FreshComesUp` |
| `registry_solo` | 3 devices, 3 hosts, 3 mints, one process, every failure and kill | 135,904 | the registry's invariants, `StartKnows`, refinement of `TokenLife` |
| `registry_resurrect` | two processes, nothing fails | | violates `RevokeMarks` |
| `registry_locked` | nothing fails | | violates `ServerComesBack` |
| `catalog` | 3 ids, 2 profiles, 2 threads (symmetric) and the starting one, 3 requests, 2 starts, a directory that may not be made | 1,934,305 | types, `OthersUntouched`, `LoneSaveHeals`, `LoneFailureContained`, refinement of `Shelf` |
| `console` | rings of 3 slots, 7 keys in 9 combinations, 4 presses, 2 boots, lists of 1 and 2 profiles | 240,903 | types, `ListIsWhole`, `ResetByHand`, `PickerCloses`, refinement of `KeyFifo` |
| `screen` | 3 lines of 3 characters, 2 of them on the display, texts of 4 shapes, 8 letters, 2 boots | 287,878 | types, `LettersInOrder`, `ScreenCurrent`, `HandlerReturns`, refinement of `LineWindow` |

**Bounds.**  Two turns are what it takes for a late handler to meet a later turn;
a third only repeats the second's situation, and the proofs have no such bound.
Three units of text in events of up to two give an event that is cut in its
middle, a chunk after the first, and a text that ends early; every event fits the
buffer in `chat_turns`, and an event of two units is split in `chat_one`; three
lines in flight are the head and an event, or the event and `[DONE]`.  A wait of
two looks has a first look, a later one and a deadline.  Two power losses cut a
commit and the commit that repeats it; the broken bundle has a card that can be
swapped with a good one between reading and wiping.  Three hosts, one of them the
server, are two addresses for three devices: the pool runs empty.  Three requests
on two threads are two that overlap, in every way, and one that comes alone after
them, which is what `LoneSaveHeals` is about; two starts give one after every kind
of end.  Rings of three slots hold two keys, so that three held at once overflow
them, and four presses open two views, fill a ring and confirm a prompt; the word
of the prompt is one character.  Three lines of three characters wrap the ring
with a text of four letters, which is cut in the middle, and one of five with
spaces in front, where the break comes late; six lines of them leave the ring.  A
delta of spaces alone is not among them, since the bound counts letters;
`LettersKeepOrder` holds for every text.

**Symmetry** is used in `catalog` alone: the request threads are interchangeable
and no property of that run is a liveness property.

**Fairness.**  `ChatTurn!Fairness` is weak fairness of the device's own steps
(the task is never suspended) and strong fairness of `Tick` (time passes even if
lines keep coming); the proxy, the upstream and the network need do nothing.
`Supervisor!Fairness` is weak fairness of the task, of a user who closes a menu,
and of the library's handshake timer once the clock is right, and strong
fairness of a start that succeeds: a call of the library that is tried again and
again works in the end.  `Provisioning` assumes that the task runs while there
is power, `Registry` that systemd starts a service that is down
(`Restart=` in `src/ops/cardputer-proxy/cardputer-proxy.service`).
`Console!Fairness` is weak fairness of the task, and strong fairness of the
picker's deadline: it is looked at in every pass without a key, and 30 s are over
in the end.  `Screen!FairSpec` says that a handler that has begun goes on.

**Deadlock** is not checked for the chat, which may stop after its last turn, nor
for the provisioning, the catalog, the console and the screen, whose bounds on
outages, requests, presses and letters can be used up.

### Disagreements between the code and its docs

Each violation run is one.  In short:

* `link_full_tunnel`: the default route moves to the tunnel only inside
  `start()`'s own wait; a handshake that completes later leaves the tunnel up
  and the traffic outside it (`fw/wg_link.cpp` 130-143, `fw/main.cpp` 335).
* `provision_fresh`: `is_provisioned()` asks for Wi-Fi settings that no bundle
  has and no code writes, so a fresh device, or one after a factory reset,
  commits, wipes the card, restarts and halts (`fw/nvs_config.cpp` 171).
* `registry_resurrect`: a `peer add` that overlaps a `peer revoke` writes the
  revoked token back (`px/tokens.py` 47).
* `registry_locked`: the replaced `tokens.json` can be read by root only, and the
  service fails at its next start (`px/tokens.py` 57).

Others came up while modelling and have no run of their own:

* An event that does not fit `line[512]` is split, and the pieces that do not
  begin with `data: ` are dropped (`fw/http_sse.cpp` 57, 82); with the
  `LineCap = 1` of `MCChatOne.cfg`, where it is not checked, `ReplyIsPrefix` fails.
* The rollback of `peer add` revokes the token where it should remove it, although
  its comment says "so peer_add is atomic"; the device id is used up
  (`px/cli.py` 171-172).
* `post_sse` gives up after 5 s of silence, and after 60 s even while bytes move;
  `fw/http_sse.h` 17 promises `overall_timeout_ms` of silence.
* `[DONE]` is sent also when the upstream's stream just ended, so a cut reply
  looks whole (`px/sse.py` 17).
* When Wi-Fi is late at boot, `setup()` returns before the clock is asked for and
  `loop()` starts the tunnel with the clock unset (`fw/main.cpp` 287, 338).
* The heartbeat shows "ready" whatever the link does (`fw/main.cpp` 351).
* Results of `putString` are ignored: when a put fails, the others are made, the card
  is wiped and the commit reports success (`fw/nvs_config.cpp` 97,
  `fw/provisioning.cpp` 82-103), while `fw/provisioning.h` 15 has `kFailed` for "write
  failed" and the plan of M5 (180) says "if any fails, `wipe_all()` and return
  `kFailed`".  A bundle one of whose keys did not reach the NVS is then lost with its
  card, and a device that loses `ep_host`, say, comes up without it or with the
  value of an earlier bundle.  In `provision` only the put of `prov_at` fails, which
  nothing reads; with any other key in `Fragile`, `KeptBeforeWiped` fails.
* The wipe removes `/wg.conf` and `/proxy.json` by their paths (`fw/sd_bundle.cpp`
  200-205) from whatever card is in the slot.  A card exchanged between the reading
  and the wipe loses its files although nothing has read them, and the card
  that was committed keeps its keys.  `KeptBeforeWiped` is about the bundle that is
  being committed, and says nothing of what an exchanged card held.
* Power lost after the put of `dev_id` and before the wipe leaves the bundle on
  the card, and a provisioned device reads no card (`fw/main.cpp` 226).
* A factory reset clears the active profile, which the report of M5 (62-63)
  says survives (`fw/main.cpp` 142).
* A revoked token is accepted until the server restarts (`px/config.py` 87);
  `StartKnows` says what holds instead.
* Two overlapping `peer add` commands hand out one address twice
  (`px/peers.py` 114); `AddressesDistinct` fails with two processes.
* Two requests that change the catalog at the same time can both be answered well
  and leave a file that differs from the dictionary until the next change or
  restart: the slower one replaces the file by what it encoded before.  The plan
  of M4 (2194) says that CRUD "goes through the in-process instance, so it stays
  consistent".  Two patches of one profile lose one of them, and a rollback can
  undo what another request saved.  A `RuntimeError` from the iteration is an
  answer 500 with the change kept in the dictionary (`px/catalog.py` 48, 86).
* So is an `OSError` of `directory.mkdir`, which stands before the `try` of `_save`
  (`px/catalog.py` 52), and this one needs no overlap: a lone request is answered 500
  and its change is served until the next save makes it durable or a restart
  drops it, although the comment (87) says "Roll back in-memory so a failed write
  doesn't leak partial state".  `LoneFailureContained` says what holds.
* The same `mkdir` in `px/peers.py` 58: its error is no `PeerStoreError`, so
  `peer add` does not roll back and leaves a token without a peer (`px/cli.py` 166-172).
* The plan of M5 (263) calls `peer add` "idempotent on `device-id`: re-running
  with the same id regenerates a new bundle [...] (and rotates the bearer token)".
  The command refuses an id that exists (`px/cli.py` 141-142), and a test asserts
  it (`test_peer_add_refuses_duplicate`).  `TokenLife` follows the code: a bearer
  is issued once for a device and never changes.  It is the step that would help
  when the bundle cannot be written after both files were (`px/peers.py` 215): the
  keys are then lost, the id is used up, and only an edit of the files by hand
  frees it.
* The plan of M4 (33) promises a "hot-read on every GET"; the catalog is read once,
  at the start (`px/config.py` 76).
* `append_to_last` is documented to return 0 or 1; it returns as many lines as the
  overflow takes (`fw/scrollback.h` 30, `fw/scrollback.cpp` 85).
* Replies are "streamed in green" (report of M3); the lines after the first are of
  kind `kSystem` and grey (`fw/scrollback.cpp` 52, 85).
* After a fetch for a picker that is then cancelled, the status row keeps the id of
  the profile where it could show its label (`fw/main.cpp` 108-119).
* Fn+S does not close the settings, although `fw/settings_view.h` 25 says "Fn+S
  again": the view has no case for `KB_SETTINGS` (`fw/settings_view.cpp` 111-136).
* Enter, Backspace, Esc and Tab overtake the characters typed before them when
  these still wait in the ring (`fw/keyboard_input.cpp` 87-93); `KeyFifo` says so.
* A message cannot begin with `p`: the picker opens (`fw/main.cpp` 366).

## 4. What is proved

All theorems hold for every value of the constants: any number of turns, devices,
processes, bundles, addresses, timeouts and buffer sizes, under the assumptions
named in the modules (`TurnAssumption`, `CatalogAssumption`, ...), which only say
what kind of value a constant is.  Where a theorem needs more than that (`EventsFit`,
`Sturdy`, `Solo`), it is a hypothesis of the theorem and named below.  Every safety
invariant, action property and refinement that a passing run checks is proved.

**Chat** (`ChatTurnProofs`, `ChatOrderProofs`).  `TypeCorrect`; `HistoryAlways`
(`HistoryAlternates`); `RequestsAlways` (`RequestWellFormed`); `FailuresShowNothing`
(`FailureShowsNothing`); `RepliesArePrefixes` (`ReplyIsPrefix`) and `DoneIsWhole`
(`DoneMeansAllText`), both under `EventsFit`; `ChatImplements` (the refinement of
`Conversation`).  `HistoryAlternates` is inductive once the
types and the parity of the history are there.  The refinement needs more: that a
reply is in order depends on what is still in flight.  `OrderInv` says that the
data lines on a connection are in increasing order, none reaches beyond what the
upstream has generated for that turn, and all of them come after the text already
shown (`TextOrdered`, `Follows`); `QuestionInv` says that the open question is the
last message and everything before it is of earlier turns.  Losing a suffix of
the wire, cutting a line, splitting one and appending a new one each preserve
`OrderInv`.  The last lemma maps each shape of a device step (`Asking`,
`Answering`, `Failing`, `Forgetting`, ...) to a step of `Conversation`.

`FailureShowsNothing` is about where the code may fail: after a 2xx status every way
out of `post_sse`'s loop is a success, before it no text is read.  That no text is
read before it depends on the proxy and the network as well, and `ArrivalInv` says
so: a connection not yet opened has no handler, a handler that waits for its first
chunk has written nothing (`Untouched`), only the connection of the present turn
holds lines and `[DONE]` comes from a handler that has ended (`Latest`), and a
status line is the first thing on the wire (`HeadFirst`).

`ReplyIsPrefix` is more than order: nothing may be missing in the middle, and what
closes a hole is what is still in flight.  `WholeText` adds that the data lines on
the wire go on exactly where the shown text ends, each where the one before it ended
and, as long as the connection is open, up to all that has been generated
(`Complete`).  Reading a line, losing a suffix, writing a chunk and writing `[DONE]`
each keep `Complete`.  `EventsFit` (`MaxDelta <= LineCap`) is a hypothesis and not a
fact about the code: `read_line` splits a longer event and `post_sse` drops the
pieces without a prefix (section 3), so without it the two theorems are false.
`MCChatTurns.cfg` satisfies it.

**Link** (`SupervisorProofs`).  `LinkTypeCorrect`; `FlagsAlwaysMirror`
(`FlagsMirror`, for every set of failing calls without `restore` and `disconnect`,
whose results `stop()` ignores: after such a failure the flags say that the route,
or the tunnel, is given back and the library still has it).  `FlagsMirror` is
inductive with the types.

**Provisioning** (`ProvisioningProofs`).  `ProvisioningTypeCorrect`;
and, under `Sturdy`, that no put fails of a key other than `prov_at`,
`KeptUntilWhole` (`KeptBeforeWiped`), for whatever card is in the slot when the wipe
comes, and `ProvisioningImplements` (the refinement of `Enrolment`).  `WipeInv` says
that a commit is of a bundle that parses and has written the keys before the next one.
`CommitInv` is the reason the order of the writes is right: no code writes the
Wi-Fi settings and a reset clears them first, so while they are there no key has
been cleared (`DeviceLast`: `dev_id` is unset, or all the keys are of its bundle),
and a commit that is cut off before `dev_id`, the last key that `is_provisioned`
looks at, leaves a device that is not provisioned.

**Registry** (`RegistryProofs`).  `RegistryTypeCorrect` for any number of
processes at once; and for one process at a time (`Solo`), with every failure and
kill, `PeersHaveTokens`, `RevocationsStay`, `BundlesKnown` (`BundleKnown`),
`AddressesUnique` (`AddressesDistinct`), `CachesArePast` (`CacheIsPast`),
`StartsKnow` (`StartKnows`) and `RegistryImplements` (the refinement of
`TokenLife`).  `SoloInv` adds to the properties that the copies of
the running process are the files as they are (`Working`), which is what a second
process breaks, and that bearers and addresses in use are distinct
(`BearersSound`, `PeersSound`).

**Catalog** (`CatalogProofs`), for any ids and any number of threads, requests
and restarts.  `CatalogTypeCorrect`; `OthersStay` (`OthersUntouched`), where
`OthersInv` adds that what waits to be written has the other profiles as they were
loaded; `SaveHeals` and `FailureContained` (`LoneSaveHeals`,
`LoneFailureContained`), where `LoneInv` says what a lone request has found so far
(`Recorded`, `Solitary`); `CatalogImplements` (the refinement of `Shelf`), where
`ShelfInv` says that without overlaps `seen` is the catalog as it is, and `base` what
the request at work found; each of its steps is then one of a few `Moves`.

**Console** (`ConsoleProofs`), for rings of every size and lists of every length.
`ResetsByHand` (`ResetByHand`): the flag of an Enter pressed before the prompt was
drawn is down when the prompt opens, since flags are served first and Enter opened
it (`EnterKnown`).  `ConsoleImplements` (the refinement of `KeyFifo`):
`PutAppends` and `TakenTails` say that writing at the head and reading at the
tail, modulo the size, append to and take from the sequence `Contents`.
`ListsAreWhole` (`ListIsWhole`): what has arrived of an answer is read as the
whole list or as a failure.  `WalkFrom` is a recursive function on positions, so
its existence is proved first, by least counterexample; it ends since `ObjectEnd`
lies behind the object's beginning.  The same argument, from the list's last
object to its first, gives `AllOrNothing`: from the beginning of object `i` on,
the walk returns the list from `i` on (`Read`), or fails because the text was cut
before the closing bracket. `TypesHold` (`TypeOK`) then holds in all of the
console: the marked row of a picker or of the settings is a row of the view,
because the list the picker shows is whole or unchanged (`UiTypeOK`, `CountsOK`).

**Screen** (`ScreenProofs`), for every capacity, width and set of texts.
`ScreenTypeCorrect`, which bounds the width of every line (`CutWidth`,
`RoomType`); `ScreenImplements` (the refinement of `LineWindow`): `PushedWindow`
and `ExtendedWindow` say what a write at the head, and one to the last slot, do to
the window.

`ScreenIsCurrent` (`ScreenCurrent`) depends on what a handler has still to do:
`CurrentInv` says that among the calls that wait every change of content is followed
by one that marks it and every mark by a `render` (`Settles`), that what is painted is
the image of the state unless the dirty flag or such a call will see to it
(`PaintInv`), and that label and input are those of `main.cpp` or about to be set
(`ShownInv`).  `LettersKeepOrder` (`LettersInOrder`): `LettersInv` speaks of the lines
shown and the texts that wait as one series, sorted, the lines before the texts, with
nothing missing but what is older than all of it (`Remains`).  The lemmas say that
breaking a text (`Cut`, `Remainder`) and filling the last line (`Room`, `Overflow`)
yield two pieces that hold the letters of the text, the first before the second
(`TwoPieces`), and that a push into a full ring drops the oldest letters only.
`CallsShrink` has no run: while a handler has calls to make, each step makes one of
them go, turns an append into the push of what overflows, or leaves a push with
strictly less text.  It is the measure behind `HandlerReturns`; what it cannot say is
that the next step is taken.

**Only model-checked:** the six liveness properties (`TurnEnds`, `StaleRouteCleared`,
`TunnelRecovers`, `CommittedComesUp`, `PickerCloses`, `HandlerReturns`), since the
proof system handles neither fairness nor `ENABLED`.

## 5. What is not modelled

* Of the chat: the wording of requests and events, the memory the history takes,
  the legacy single bearer, and the `test` endpoint of a profile.
* Of the provisioning: the two parsers (a bundle parses or not: `Broken`), and a
  namespace half cleared.
* Of the registry: `peer list`, the fields of a bundle, and the secrets.
  `secrets set` truncates a file and writes it again (`px/cli.py` 91), so that a
  request in between finds an empty key and is refused, and a start in between
  fails; a process killed there leaves the empty file.
* Of the catalog: the order of the entries (a failed delete puts its profile at the
  end of the dictionary), and temporary files that a killed process leaves.
* Of the console: scrolling of the picker, and the escapes inside the strings of
  an answer.  Of an object of the profile list only its id is kept.
* Of the screen: geometry, colours, the detail in the status row, and newlines in
  a delta, which the scrollback keeps as characters.
* The probes of M0 and M1 and the deployment scripts have no state that the other
  parts depend on.

External parts are modelled from how the code uses them: the TCP connection, the
providers' streams, the WireGuard library and its server, SNTP, the SD card, the
power and the user.

## 6. Plan

Done, in this order: the chat turn (1), the link and its supervisor (2), the
registries (3), the provisioning (4), the scrollback and the screen (5), the
catalog (6), the keyboard and the menus (7), and the proofs of every safety property
and refinement the runs check (8).  Next:

9. `Rollout`: `Registry`, `Provisioning` and `ProxyChat`'s admission composed: a
   device that went through `peer add` and a commit is accepted until revoked.
10. The secrets: a file that is truncated and rewritten under its readers.

## 7. Running it

    tlc -config MCChatTurns.cfg MCChatTurn.tla
    tlapm ChatTurnProofs.tla

Each `.cfg` begins with the name of its `MC` module (`MCChat...` belongs to
`MCChatTurn`, `MCLink...` to `MCSupervisor`, `MCProvision...` to
`MCProvisioning`, `MCRegistry...` to `MCRegistry`, and `MCCatalog`, `MCConsole`,
`MCScreen` to the module of the same name).
