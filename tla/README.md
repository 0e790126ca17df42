# A verification project for xcin 2.5

xcin is an XIM server: X clients connect to it, open input contexts (ICs), and
forward their key presses; an input method module turns the keys into Chinese
text, which xcin commits to the client. This directory holds TLA+ modules that
model its core, TLC configurations that check them on small instances, and
proofs, checked by TLAPS, of the main properties for every instance.

All references below are to files under `src/`; line numbers are those of the
modelled commit, and `PROJECT.json` maps every definition to its lines.

## 1. Inventory

xcin is single threaded. `gui_loop()` (`src/gui.c`) reads one X event at a time;
IMdkit turns client messages into calls of `im_protocol_handler()`
(`src/xim.c`), which runs to its end before the next event is read. What makes
the program hard is therefore not threads but *orders*: a dozen kinds of
request, of several clients, on ICs that share state through the core record and
(in one mode) through one input method context; a sweep at the end of every
request that deletes ICs of other clients; a signal handler; clients that vanish.

| Part | State | Operations | Interacts with | What is hard, and what makes it correct |
|---|---|---|---|---|
| XIM handlers, IM switching (`src/xim.c`) | the core record `xccore` (`ic`, `icp`, `im_focus`, `default_im`, `xcin_mode`), static `first_call`, `commit_buf` | one handler per XIM request; `change_IM`, `circular_change_IM`, `call_xim_init`, `call_xim_end`, `xim_connect`, `xim_disconnect` | IC manager (below it), modules (called), clients (messages) | five places switch input methods, each with its own idea of connect and focus flags. Flags, selected and bound module must agree; `xim_init`/`xim_end` must alternate |
| IC manager, IMC system (`src/xim_IC.c`, `include/IC.h`) | lists of ICs and IMCs in use and free, the id counter | `ic_create`, `ic_destroy`, `ic_clean_all`, `ic_set_values`, `check_ic_exist` | handlers; the GUI follows `xccore->ic` | recycled memory and ids, deletion by third parties; no id shared, no dangling current IC |
| Garbage collection (`check_ic_exist`) | `exec_time` of ICs, `last_check` | the sweep ending a request | X server (`gui_check_window`), time | stale times, equal windows; never delete an IC in use |
| Termination (`src/xcin_main.c`, `xim.c`, `gui.c`, `gui_main.c`, `gui_main2.c`) | run flags of `xcin_mode`, static `n_check` | `sighandler`, `xim_close`, `xim_sync_reply_handler`, destruction of a main window | signals, clients' answers, IMdkit's `ims->sync` | answers of the wrong client, two exits at once, clients that die; an exit that has begun ends, after the answers |
| GUI requests (`greq_*`, `src/gui_menusel.c`) | request slots of each IMC, window list | register, unregister, query, destroy by user | modules, window list | slots shift under pointers; destroy callbacks unregister |
| GUI loop and window list (`src/gui.c`) | window list, font cache | search, new, free; font reference counts | everything that draws | freeing while iterating |
| Main and pre-edit windows (`gui_main*.c`, `gui_overspot.c`, `gui_onspot.c`) | what is displayed; the OverTheSpot clients | draw; new and deleted OverTheSpot client | core record, IMC | resources of deleted ICs |
| Function keys (`src/fkey.c`) | key tables, trigger keys | `set_funckey`, `search_funckey`, `get_trigger_key` | handlers | equal keys, table limits |
| Input method table (`src/module.c`) | `IM[MAX_IM_ENTRY]` | register, get, next, previous, search, free | start-up, switching, loader | empty table, last slot, slots that fail to load |
| Loader (`lib/xcintool/load_module.c`) | stack of open modules, reference counts | load, unload | module table | partial failure |
| Start-up, rcfile (`src/xcin_main.c`, `lib/xcintool`) | configuration | options, SETKEY ranges, default module | module table | boundaries |
| `gen_inp` | per IC: keys typed, candidates, page; per module: tables; one global buffer size | `xim_init`, `xim_end`, `keystroke`, `show_keystroke` | core | paging, wildcards, sizes shared by ICs |
| `bimsphone` | per IC: phonetic string, selection; libtabe's contexts | same | core, libtabe | its state and libtabe's must stay in step |
| `zh_hex`, `im_comm` | per IC: digits typed; tables | same | core | boundaries of codes |
| `lib/charset`, `lib/xcintool` | tables | pure functions | all | |
| `cin2tab` | none that lasts | table compiler | writes gen_inp's tables | what it packs, sorts and numbers has to be what gen_inp looks for |
| IMdkit (`lib/IMdkit`) | connections with their queues of keys; cursors over messages | one handler per message, the frame manager | carries every request and answer between clients and handlers | synchronous messages, recycled connections, lists nested in lists |
| siod, libtabe, Xlib | | | | third-party: external |

`PROJECT.json` lists the same parts as components, with what is modelled of each,
and the hazards of the code at their lines.

## 2. Modules

| Module | Models |
|---|---|
| `ImContext` | IC manager, IMC system and every XIM handler |
| `ImSession` | abstract: what the IMC system promises a module's author |
| `ExitProtocol` | termination: signals, closed windows, XIM_SYNC, clients |
| `ICGarbage` | the sweep of `check_ic_exist()`, ids, windows, time |
| `ModuleTable` | `IM[]`, the loader's list of libraries, start-up defaults, the searches of the key functions |
| `XimProtocol` | connections, messages and their orders, synchronous messages, the queue of keys |
| `ImFrames`, `FrameMgr`, `ImRequests` | the layout of messages, the frame manager, and the handlers that read and write lists |
| `GenInp` (uses `Wildcard`) | the keystroke automaton of gen_inp |
| `CharCode`, `CinTable` | character numbers; a .cin file made a table, loaded and searched |
| `ZhHex`, `KeyPath` (uses both and `CinTable`) | input by code; what becomes of a key after the method has seen it |
| `Bimsphone` | zhuyin and pinyin input over an external bims |
| `FontCache`, `OverspotClients` | the cache of font sets and the over-the-spot records that use it |
| `MC...` | model values and small instances for TLC |
| `..._proofs` | inductive invariants and theorems, checked by TLAPS |

Definitions named "Faulty" stand beside the operator they are a wrong form of;
no specification uses them. Exchanging one for the operator makes TLC report the
property it is listed with in `PROJECT.json`.

### ImContext

**State.** `ic_list`, `ic_free`, `icid` are the lists of ids in use and free and
the static counter of `new_IC()`. `ic[i]` has the owner and the flags NEWIC,
CONNECT, FOCUS. `imc[i]` is an IMC: flags of `inp_state`, selected slot
`inp_num`, bound module `imodp`, the module whose data hangs on `inpinfo.iccf`,
and whether the module keeps composed text (`n_lcch`). `xccore` and `first_call`
are the core record and the static of `change_IM()`; `unsent` is the set of ICs
whose text is in `commit_buf`. `unpaired` is a history variable: some `xim_init()`
found data on `inpinfo`, or some `xim_end()` or deletion found there something else
than the data of the module that was on.

**Steps.** One action is one client request, from the switch of
`im_protocol_handler()` to its return, the sweep at the end included. A handler
is a chain of operators on a *context* (IMC at hand, flags of the IC, core
record, commit buffer), in the order of the code, and `Handled` stores the
result, deletes the swept set `D` and clears `xccore->ic`/`icp`. Requests that
name no IC in use, XIM_OPEN and XIM_RESET_IC change nothing and are stutters.

**Abstractions.** A module is its slot in `IM[]` (`IM_load()` creates a record per
slot). A slot that cannot be loaded is unregistered by `IM_get()` and never
loads later, so `Loadable` is a constant. The free list is a set: the code takes
the id freed last, the model any. The sweep may delete any other ICs: the clock
and the windows are left out, so what follows a deletion is checked, not whether
it was justified. Which text is committed is left out. `IMPreeditStart()` fails
only without trigger keys and is taken to succeed. `s_imodp` and `sinp_num`
(whose keystrokes are displayed) and `ic_rec` are left out. Ids are not reused by
wrapping around: `MaxIC` is far below 2^16.

With `SingleIMC`, the one IMC is that of id 1, the first id given out; it is
never freed. The slot number of English is `MaxImEntry`; `change_IM(ic, -1)` and
`change_IM(ic, MAX_IM_ENTRY)` do the same in the code.

### ImSession

A session is what `doc/En/internal/module.En` describes: the span from `xim_init`
to `xim_end`. When a request has been served, the session of its IC is that of the
module the IC types through (none in English); the two calls come in turns; the
requests and deletions of other ICs leave it alone; deleting an IC ends it. `ImContext`
implements this in multi mode under `live <- ic_list`, `bound <- imodp` and `session <-
iccf` of every IMC, and `unpaired <- unpaired`: an `xim_end()` left out on the way to
English, or an `xim_init()` on top of data that is still there, is no step of `ImSession`.
In single mode the refinement does not hold: all ICs share one session.

### ExitProtocol

Each client has at most one IC, named like the client. A client sends requests
(`queue`), answers synchronous messages (`owed`), or dies (`window`). The server
serves the head of any queue; *which* request it is, is chosen when it is read.
Handlers are reduced to what an exit depends on: who is current, who has focus,
which ICs exist, who owes an answer, and that no handler but that of
XIM_SYNC_REPLY acts once XCIN_RUN_EXIT is set. IMdkit passes an XIM_SYNC_REPLY on
only if `IMSyncXlib()` was called since the last one, whatever the client was
answering (`sync`): commits and forwarded events are synchronous too, so other
answers can be under way. A signal comes between requests; the race of
`sighandler()` with a half-done `xcin_mode |=` is not modelled.

### ICGarbage

`check_ic_exist()` ends every request. Times are ages, capped one past the limit
they are compared with. `owner` is the X server: whose window an id is, since
windows vanish and their ids are given out again. A client believes it has the
ids in `held`; a sweep tells nobody. `errstatus` is the X error
`gui_check_window()` may mistake for its own.

### ModuleTable

`IM` and `imodp` are the table, `mod_stack` the loader's list with its counts; an
attempt to load may succeed, be refused or find no library, anew each time. The
start (`ReadCinput`, `LoadDefaultIM`, ...) is a sequence of phases. The
loops of `circular_change_IM()` and `change_simd()` are taken round by round
(`call`), so that one that never ends is seen. A pointer read from past the table
is NULL or "wild"; nothing is said of what follows a wild one.

### XimProtocol

`to_server[c]` and `to_client[c]` are the messages under way, in order per client
and in any order between clients. `clients` and `free_clients` are the records of
IMdkit, with `sync` and `pending`; `ic`, `ic_free`, `icid` are the IC list as far as
messages tell. `Serve` takes one message through IMdkit's switch, the
handler of `xim.c` and the messages that go out, and then `ProcessQueue()`. What a
method makes of a key is open (`Outcome`). The clients are the X library:
`waits` is the one question that is open, `mask` the ICs whose event mask
says that keys are forwarded. `CONNECT` stands with the other questions about
the method. `CommitsOnSwitch = TRUE` lets a method that is switched off hand back
text (a finding); `DistinctWindows` keeps two ICs of one client off one window, as
the sweep would take the first. `AnswerOwed` and `MaskAgrees` except what a client that
is gone (`DiedAsking`) still asks for in its messages: such a request may meet an IC of
another client that has been given the id since (a finding).

### FrameMgr, ImFrames, ImRequests

`ImFrames` has the tables of `i18nIMProto.c`, `FrameMgr` the cursor that
walks them: a message area is a function from offsets to cells, and lists,
pointers, counters and paddings are as in the C code, guesses included
(`_FrameInstDecrement`). `ImRequests` runs one request at a time in phases: read
token by token, group nested ids, serve, write, send. A handler that cannot go on
is a deadlock, so that run checks for deadlock. Left out: byte order, failing
allocation. A long has 4 bytes. A length that the code never sets is any of
`Uninitialised`. Attributes are read into places and counted apart, since a nested
attribute with an unknown id leaves a gap. Inputs are requests a client's X library makes:
lists to create, set, get and query are not empty, nested lists of ids end with
the separator, ids of IC attributes are known ones; FontSet and AreaNeeded are not asked
for, nor attributes that were never set (all four: findings). XIM_PREEDIT_START and
XIM_STATUS_START are never sent by xcin. Requests about the method as a whole come
before the IC is made (`BeforeIC`).

### GenInp and Wildcard

One action per class of key; each starts with `Begin` and ends with `Finish`, the
beginning and end of `gen_inp_keystroke()`. A candidate is the sequence of its
characters, the table a sorted sequence. The buffers that are static in C
functions are `static`, shared by all contexts; the history variable `filled` says whose
page was in each of them last, so that `GroupingOfPage` can except a context whose lengths
another one has overwritten (a finding), and no other. `Keyboard` bounds which keys are
pressed in which context under which options. `EffectiveMode` is what
`gen_inp_init()` makes of the options of the two sections. `Places` are the places of
the table, and a loop through it from one end is `Kept`: the places that are in a set, in
the order in which the loop meets them. `Wildcard` has
`strcmp_wild()` as the code has it and `Glob`, a reference that tries every place.

### CharCode, CinTable, ZhHex, KeyPath

`CharCode` turns the rules of sys.cin into planes and ranges and numbers
characters with them (`ccode_to_idx` and back). `CinTable` reads the lines of a
.cin file, packs keystrokes into words, sorts, numbers phrases, writes, loads and
searches. Memory that `realloc()` has added holds anything (`Leftover`).
`ZhHex` is the handler of zh_hex; `KeyPath` passes each key through it,
`process_IMKEY()`, the full width table and `call_simd()`. Meanwhile the user goes to
gen_inp, to English and back (`ChangeIM`, which leaves what is displayed as it is) and
changes what recalls keystrokes (`ChangeSimd`). Of a key in gen_inp it is told only what it
publishes and suggests, wild cards aside. Every context has its own IMC. Quick phrases are
left out: zh_hex asks for none. In the instance the schemas of an encoding are
prefix-free and a key is typed only while the file has at most `TypedLines` lines.

### Bimsphone

bims is external: each of its answers is chosen among the ones
`bimsphone.c` is written for. `inp` is what the context has copied of it, `bc` what
bims has, `cdp` and `dp` the data pools, `winsize` the width of the window in
characters, from which the buffers are sized. Characters are counted, not named. Of the
constants it is assumed (`BimsphoneConstants`) what `phone_resource()` makes of any rcfile:
selection keys are digits or the home row, so never Escape, BackSpace or another
character, and N_SELECTION_PHR is no negative number (a finding); lists of bims are not
empty. `PageIsSlice` says of the last page what the
code can know: where phrases may not fit in the 30 characters of a page, pages are not
even (`EvenPages`) and the mark is sometimes wrong (a finding, `EndAlwaysTold`).

### FontCache, OverspotClients

The doubly linked lists of `gui.c` as nodes with `prev` and `next`, exactly as the
code links them. A font set that cannot be opened is one outside `Valid`. The
rcfile names one font, a valid one, for both windows. `oc` is the array of
records, `hint` the static index of `search_struct_oc()`.

## 3. Runs

| Run | Instance | Shows |
|---|---|---|
| `im_multi` | 1 client, 2 ids, 3 slots (1 not loadable) | `SelectionCoherent`; refinement of `ImSession` |
| `im_multi_focus` | 2 slots (1 not loadable), XCIN_IM_FOCUS with its key | `IdsPartition`, `CurrentIsLive`, `ConnectedIsActive`, `FocusModes` |
| `im_single` | single mode, 2 slots, focus key, a module keeping text | `SharedSelection`, `SingleKeepsSession` |
| `exit` | 2 clients, 2 answers, 1 signal | `WaitsForAnswer`, `AllAnswersFirst`, `ExitCompletes` |
| `ic_sweep` | 2 clients, 2 ids, 2 windows, limits 0 and 1 | `HeldIdsExact`, `LiveIcSpared`, `Collected` |
| `mod_table` | 3 slots, 2 libraries, 3 names, 1 context | `StackCounts`, `ModulesHeld`, `SearchesEnd` |
| `xim_protocol` | 2 clients (1 may die), 2 ids, 3 keys, 3 requests (4 keys and requests of one client together), 1 session each | `KeysInOrder`, `WaitHasAnswer`, `AnswerOwed`, `MaskAgrees`, `ICsConnected`, `KeysHandled` |
| `frames` | lists of up to 3, nested lists of up to 2, an unknown IM attribute, 2 values for a length never set, 11 kinds of request, 6 of notice | `ReadsBack`, `RepliesLaidOut`, `BuffersSuffice`, no deadlock |
| `gen_inp` | 8 entries, 2 contexts under 1 option set and 1 under 4, keystrokes of up to 3 | `PageIsSlice`, `GroupingOfPage`, `CommitAnswers`, `WildWithinGlob` |
| `chars` | 2 encodings, files of up to 4 of 9 lines, 20 keys, 2 methods and English | `KeystrokeFinds`, `WildStart`, `KeyAccounted`, `RecallFollows` |
| `bims` | 3 methods, lists of 1, 3 and 5 candidates, 2 window sizes | `ContextMirrorsBims`, `PageIsSlice`, `CommitAnswers`, `BuffersFit` |
| `overspot` | 2 ids, 3 good fonts and a bad one, 4 nodes, 3 records | `FontsAccounted`, `OneRecord` |

**Bounds and why they are enough.** *ImContext.* `MaxIC`: no handler looks at
more than the IC it is for, the current and the previous one, and IMCs of
different ICs do not touch each other, so two ids give every aliasing of the
three and one more request on a reused id. `MaxImEntry`: three slots give the
selected one, another, and one that fails; two suffice where loading failures are
not the point. One client suffices: ownership matters only to `ic_clean_all()`,
and `ICGarbage` has two. *ExitProtocol.* `SyncChecks` is 5 in the code; 2 keeps
both branches of the counter. `MaxQueue`, `MaxOwed`, `MaxSignals` bound what
a client has under way. *ICGarbage.* Two windows let one vanish while the other
stays and be reused; the limits 0 and 1 keep "due", "not due", "idle" and "not
idle" apart. *ModuleTable.* Three slots are the least in which a search passes one,
and two libraries the least in which one is shared while another is not.
*XimProtocol.* Only what comes after a key that was handed back waits, so three keys are
the least of which two are held back and can be swapped (the mutant puts the later one in
front); `MaxDone` keeps three keys from meeting two requests. A second client's connection
takes over the first one's ids; that it takes over its record needs two sessions. Larger instances (two windows and
four requests of one client, two of the other; two sessions with both clients mortal;
two keys of one and one of the other) were run to their end outside the runs, with no
violation. *ImRequests.* Nothing
remembers more than the previous item of a list; lists of three have a first, a
middle and a last, and names of 2, 3, 4 and 12 or 13 bytes give every padding.
*GenInp.* Two selection keys make three candidates two pages, wild cards
three; keystrokes one longer than the table's longest; the options interact in
pairs, which the sections contain. Two contexts share whatever contexts can share: under
one section one reaches pages of phrases and of characters, the other wild cards as well,
with four keys each. Under the other four sections one context has all keys. *KeyPath, CinTable.* Keystrokes end
inside a word, at its end and in the next; two entries per character, phrase and
order. *Bimsphone.* Two selection keys and five candidates give three pages, the
last one short. *OverspotClients.* One record more than there are ICs, and fonts
for every list to hold two.

`frames` and `gen_inp` check deadlock. Elsewhere the program may stop: nobody has to
send a request, and a model may have used up its bounds.

**Mutants.** Every property of a run is violated by at least one small change of
the modelled code, listed in `PROJECT.json`.

**Findings** are disagreements between the code and its documents, and plain
errors, met while modelling; `PROJECT.json` has each at its line. In short:

- *Switching.* In single mode, module A, English, module B calls B's `xim_init()` on
  A's data (`SwitchOutBeforeInit`, which also forbids ending another's); `first_call` can be used up by a change to English,
  after which a module is given keys without `xim_init()` (`KeystrokeHasContext`); text
  returned by `xim_end()` outside a key request waits for some IC's next commit
  (`NoPendingText`), and may find its client gone.
- *Termination.* `sighandler()` ends xcin at once while the IC found by probing the
  input focus is current (`SignalSparesCurrent`); another client's answer counts
  (`CurrentAnswersFirst`); XCIN_RUN_KILL waits for a request (`KillNoticed`).
- *Module table.* A failing default method, SETKEY 12, `change_simd()` from the last
  slot (`EveryImTried`, `SimdEnds`).
- *Protocol library.* Keys overtaken by the destruction of their IC, requests that get no
  answer, a length never set (any is allowed by `RepliesLaidOut`), attributes lost behind one
  with an unknown id (`ReadsBack` with such an id among `Preedit`), recycled connections, atoms used twice, fonts a length too long; a late
  XIM_DESTROY_IC of a client that is gone destroys the IC another client was given.
- *gen_inp, cin2tab.* Stale offsets and groupings with phrases (`PhraseAnswers`), a wild
  card search that does not go back; the array of groups shared by contexts
  (`GroupingOfPage` without `OwnsGrouping`); a key of DISABLE_SEL_LIST before a selection key
  while a page is being selected from, after which the page and the mark are of the
  keystroke before (`PageIsSlice` and `CommitAnswers` with `DisableSel = {"a"}`);
  keystrokes of one key with AUTO_FULLUP, where one key press commits twice or loses its
  COMMIT (`CommitAnswers` with `n_max_keystroke = 1`); keystrokes of more than ten keys are cut, memory
  is compared that was never written, phrases too long shift those behind them.
- *bimsphone, over-the-spot.* One data pool for all contexts (`OwnPool`), unreachable
  code, a page of phrases marked the last by the length of the page before
  (`EndAlwaysTold`), N_SELECTION_PHR without a lower bound, fonts lost from the cache (`FontsListed`), records of other ICs deleted
  (`RecordKept`).

The properties named in parentheses are stated in the modules and hold only of a
corrected program: adding one to the configuration of its module makes TLC print
the trace (those of `GenInp` are in its configuration and need the constant given; for `SwitchOutBeforeInit` and `KeystrokeHasContext` with `SingleIMC = TRUE`
and three slots, for `NoPendingText` with a module in `PhraseIM`, for those of
`ExitProtocol` with `SyncChecks = 5`, for `OwnPool` with two contexts). No run
includes them.

## 4. Fairness

`ImContext`, `GenInp`, `Bimsphone`, `KeyPath`, `OverspotClients` and `ImRequests` have
none: their properties are safety properties, and no client or user has to do anything.

`ExitProtocol` assumes weak fairness of three things. `ExitAll` and, for every
client, `Serve`: `gui_loop()` is an endless loop around `XNextEvent()`, and the
connections are read in turn, so a message that has arrived is served. `Answer`:
a client's X library answers a synchronous message from inside the library,
without the application's help, as long as the client lives. Nothing is assumed
of `Send`, `Die`, `Sighandler` and `CloseMainwin`. `ExitCompletes` excepts runs in
which a client dies: xcin has no timeout and would wait for that client for ever.

`XimProtocol` assumes the same two things of messages: the server takes each
client's messages (`WF_to_server`) and a client's X library reads what it is sent
(`WF_to_client`). Nobody has to type, ask or close. `KeysHandled` excepts keys of
clients that close or die.

`ICGarbage`: weak fairness of `Tick` (time passes) and, for `Collected` only, strong
fairness of "some client that has an IC sends a request when a sweep is due". The code
sweeps only when somebody asks for something, so without it nothing is
collected, and `Collected` says so.

`ModuleTable`: weak fairness of the rounds of a loop that was entered, which is what
running a loop means.

## 5. Proofs

`ImContext_proofs` proves, from the named assumption `ConstantsOK` alone, for any
number of clients, ids and slots:

- both modes: `TypeCorrect`, `IdsNeverShared`, `CurrentNeverDangles`,
  `SelectionAlwaysCoherent`, `FocusModesAgree`;
- single mode: `SelectionShared`, and `SingleSessionKept`: from the first `change_IM()`
  on, the data of the shared IMC changes only when another module is selected (the step
  is checked handler by handler; the deletions of the sweep never free the one IMC);
- multi mode: `ContextAlwaysBalanced` (every `xim_init()` is matched by an `xim_end()`),
  `ConnectedAlwaysActive`, `SessionRefined` (the refinement of `ImSession`, initial
  states and every step; it needs `SoundIMC` and `~unpaired` of the invariant).

All rest on `Invariance`: the inductive invariant `IInv` holds. `IInv` is `TypeOK`,
`IdsPartition`, `CurrentIsLive`, and

- `SoundIMC` of every IMC, not only of those in use: IM_CINPUT iff a module is
  bound, that module is the selected one, focus flags imply mode flags, and in
  multi mode the data is the bound module's. *Why of every IMC:* in single mode
  the IMC outlives the ICs, and `new_IC()` takes an IMC up again;
- in single mode `Shared`: `inp_num` is `default_im`, and `im_focus` under
  XCIN_IM_FOCUS. *Why:* `ic_create()` writes `inp_num` of the shared IMC from the core
  record; were it another value, "the bound module is the selected one" would
  break under the other ICs;
- in multi mode: nothing `unpaired`, `ConnectedIsActive`, and the IMC of an id not in
  use has nothing bound (so that a recycled id starts clean).

The argument follows the code. `XimEndSpec`, `XimInitSpec` and `ChangeIMSound` say
what `call_xim_end`, `call_xim_init` and `change_IM` make of a sound context. A
context is `Sound` while a handler works and `Final` when it may be stored, the
difference being that a connected IC then has something switched on. One lemma
per handler (or group) shows it ends in a final context, and `HandledKeeps` and
`DeletedKeeps` carry that to the state, whatever the sweep deletes.

`ExitProtocol_proofs` proves, from `ConstantsOK` and `NoICFresh`, for any number of
clients, queue lengths, signals and answers: `TypeCorrect`, `AlwaysWaitsForAnswer`,
`AnswersComeFirst` and `FrozenOnceExiting`. The inductive invariant says of the
core record, the queues and the windows (`Good`) what the two safety properties
say, and two facts they lean on: XCIN_RUN_EXITALL implies XCIN_RUN_EXIT (else a
request read late could still run its handler), and until XCIN_RUN_EXITALL is set
the count is below `MAX_XIM_SYNC_CHECK` (else an answer could overshoot it).
`XimCloseGood`, `AnsweredGood` and `EndOfRequestGood` follow a request through
`xim_close`, `xim_sync_reply_handler` and the end of `im_protocol_handler`;
`StoreKeeps` carries the result to the state. `FrozenOnceExiting` needs no
invariant: with XCIN_RUN_EXIT set every path stores the same `ic`, `ics` and `focus`.

`ICGarbage_proofs` proves, for any number of clients, windows and ids and any limits:
`TypeCorrect`, `ListsAlwaysPartition` (an id is in use, free or never used),
`HeldIdsAlwaysExact` and `LiveIcAlwaysSpared`. The invariant is the conjunction of the
first three; *why together:* a new IC takes an id that nobody holds only because
the lists partition the ids and those held are all in use. The last is an action property: a
sweep takes, of the ICs whose window lives and which are nobody's duplicate, at most
one, and that only when an X error of somebody else is pending. `SweepSpares` follows the loop's
effect as a set, with the requesting IC never in it.

`ModuleTable_proofs` proves, for any number of slots, libraries, names and contexts:
`TypeCorrect`, `ModulesSafe` (a module a context types through or displays is
loaded), `SlotsSettled` (a loaded slot stays as it is; an empty one stays empty once
the program runs; a slot with a name has a trigger key) and `StackCountsAlways` (the count
of a library is the number of slots that use it). The invariant
adds `SlotsNamed` and `CallExists`: a running search belongs to a context that exists.
Most steps are `TableSafe`, i.e. they load and free slots only. `StackCounts` needs
`Counted`: no library is twice in the list and none is there with a count of 0,
since `unload_module()` lowers the first it finds. Slots are counted with
`FiniteSetTheorems`: a load that succeeds adds one slot to the users of one library and a
load that fails after opening one takes its count back.

`OverspotClients_proofs` proves, for any ids, fonts, nodes and records, `OneRecordAlways` and
`FontsAccountedAlways`. For the first, `Sound`: records in use lie below the bound `edx`
and no two have one IC; then the search from `hint` around the array finds the
only one. For the second, its first half says what the two functions of `gui.c` make of
`Cached(c, H, main, name)`: `H` gives the font of every user, and every count in the cache is
the number of users `H` has for it, whether the node is still in a list or was lost. The
lists are taken up as the sets of nodes that can be reached from a head (`Chain`); no node
comes twice, so a walk of as many steps as there are nodes (pigeonhole) has seen all of
them. Since `prev` is never set, freeing a node cuts off everything in front of it; the
main window's font is the last of the list, which is *why* the lists stay finite and
ended.

`XimProtocol_proofs` proves, for any number of clients, ids, windows, keys, requests and
sessions: `KeysInOrderAlways`, `WaitHasAnswerAlways` and, with `ASSUME ~CommitsOnSwitch`
(otherwise it is false, a finding), `ICsConnectedAlways`. The inductive invariant `IInv` is

- `Typed`; `Listed`: no two records have one window or one connect_id, and the free
  ids are not in use; `Numbered`: ids are given out in order;
- `Awaited` and `Staged`, of every client: what it waits for is what is under way, at
  most once, and fits the stage of its connection. *Why:* only a client that is not
  waiting asks, so XIM_CLOSE and XIM_DISCONNECT meet a server that has answered
  everything else;
- `Cleaned`: once the server has seen XIM_CLOSE no IC has the connect_id of the
  connection. *Why:* XIM_DISCONNECT frees the record without looking at the ICs, and the
  next client gets its connect_id;
- `KeysPlaced`, `KeysInOrder`: the keys handed on, those pending, and those under way, put
  together in that order, are those typed; `WaitHasAnswer`: a queue that is not empty
  has an answer coming that will empty it; and, with the assumption, `Up`.

The handlers are functions on one record, the server; a lemma for each says what it makes of
a sound one (`Sends`, `Works`, `Serves`). `Takes` and `Attends` say what becomes
of the invariant when a message is taken off a queue and such a function has served
it. `ProcessQueue()` is a loop, so what it hands on is an induction over the number
of its turns, as is the splitting of a queue into its keys.

The second half of `XimProtocol_proofs` proves `AnswerOwedAlways` and `MaskAgreesAlways`, for any number of
clients, ids, windows, keys, requests and sessions, from `ASSUME DistinctWindows`: a client
that puts two ICs on one window has one of them swept, and what it asks about that one is not
answered. Whether methods hand back text (`CommitsOnSwitch`) makes no difference here. To `IInv`
come two invariants, each beginning "unless a client died asking", as the properties do:

- `OwnInv`. `Own(c)` is what an account of the messages says the ICs of `c` are: those it
  holds, those in an answer it has not read, and those whose DESTROY_IC xcin has not taken.
  `Owns`: they are in use, made for a record of `c`, with windows of their own, and (until
  xcin takes XIM_CLOSE) all the ICs of that record; a window asked for is none of theirs, and
  requests that need an IC are about one that is held. *Why "all":* only then is no IC
  of a client that lives ever `Doomed`, i.e. a duplicate that `check_ic_exist()` takes, and
  only then does the request find its IC and the answer go out. `Sound` adds that every IC
  in use has a record and a window of that record's client, and that none is on `ic_free`
  (else CREATE_IC would give out an id twice).
- `MaskInv`. `Fits`: what the client will think of an IC when it has read all that is under
  way is what IC_CONNECT says. *Why more is needed:* a mask sent to an id the client does not
  know yet, or knows no longer, would decide what it thinks of the IC that is given
  the id next. So `Knows` adds that the client hears of no ICs but its own and those whose
  destruction it has yet to read, and that nothing about an IC comes after the answer to
  DESTROY_IC or to XIM_CLOSE.

The functions of the server are gone through once for each: `Spares` (only doomed ICs and
those of D go, the others stay whose they are) and `Tells` (whoever would think right before,
thinks right after, and hears of no others' ICs). `Passes` is what is left of `Spares` when a
connection is made or ended. `ServeMinds` puts the handlers together; on the side of the
clients `ClientMinds` reduces a step to the one client that takes it, and `ToldTail` says what
reading one message does to what a client will think.

`Bimsphone_proofs` proves, for any contexts, methods, keys, lists of candidates and window
sizes: `TypeCorrect`, `ContextMirrorsBimsAlways`, `CommitAnswersAlways`, `BuffersFitAlways` and,
under `PagesAssumed`, `PageIsSliceAlways`. A handler is a set of worlds (the context,
bims, the answer so far), and every answer of bims another one; the lemmas follow a world from
the key to `Finish`. A world is `Sound` if the context mirrors bims (`Mirrors`), its
buffers have room (`Roomy`), the list is one that bims has for its state and the
page begins at one of its candidates (`Listed`), and the page shown is the
slice it says (`Paged`: `Placed` and `Shown`). *Why `Placed`:* where phrases always fit, a page begins
at a multiple of the page length, without which turning back would not undo turning
forth. `Good` adds that the answer says COMMIT iff text was fetched. Between
the two a world is `Stale`: bims has been fed and the context has not looked yet;
`editing_status()` makes it `Copied`. A selection is followed through `Selects`,
`Turned` and `Turns`, and `EvenTurn` is the arithmetic of a turn. `PagesAssumed` is what
`PageIsSlice` cannot do without: a page has room for one phrase (N_SELECTION_PHR 1 or more), and
Up, Down and space come without Ctrl or Alt; both exceptions are findings.

`GenInp_proofs` proves, from `ConstantsOK`, for any table, keys, rcfiles and
limits: `TypeCorrect`, `WildWithinGlobAlways` and `GroupingOfPageAlways`; with
`DisableSel = {}`, `PageIsSliceAlways`; and if also `n_max_keystroke > 1`,
`CommitAnswersAlways`. Each hypothesis is a case in which the code is wrong (findings):
a disabled selection key typed during a selection
leaves the page of a shorter keystroke, and one key can make two texts. The number of
contexts is any. A handler is a function of a world, i.e.
one context, the shared buffers and the texts assembled, and is gone through twice:

- `GenInpInv`: every world is `Sound`, i.e. well typed (`Typed`), and what has no phrases is
  single characters (`Plain`); keystrokes stay within their limit. The grouping named by `mcch_grouping` is that of the page
  (`Grouped`) of every context that `OwnsGrouping`; *why only then:* a page may be grouped by
  `normal` or `wild`, which the next search of any context writes.
- `GoodInv`: moreover worlds are `Good` and the last text answers its keystroke
  (`TextAnswers`). `Good` is `Selected` (a selection has a keystroke and a page; with
  nothing typed the page, its mark and the modes are clean) and, in a world that is `Synced`
  (candidates are searched for as keys are typed, or the user is selecting), `Shown`: the
  page is the slice of `Found`, all answers in the order of the table, that begins at a multiple
  of the page length, its mark says whether there are pages on either side, and `hidx`
  and `eidx` are where that slice begins and ends: places of the table with wild cards,
  places in the list of candidates without. *Why `Synced`:* without AUTO_COMPOSE nothing is
  searched for until space, and the page may be that of a shorter keystroke (a finding).
  *Why `hidx` and `eidx`:* with wild cards a page is searched for again from its
  ends (`FillOnShown`, `FillBackShown`), and is the next or previous slice only if no answer
  lies between the end and the slice.

An answer of a handler is `Told` if the text is right and COMMIT says so; `Fair` if it is
told whenever no text came before it in the same key press; `Honest` if it is told
where keystrokes have room for two keys. Under these are lemmas about what the handlers
are made of: `Kept` (what a search finds is all, once and in order; a search up or down
from a place is a part of the whole one: `FoundAbove`, `FoundBelow`), and
`MatchWithinGlob`: whatever strcmp_wild() accepts, `Glob` accepts, for every pattern and
word. That one compares two tables row by row from the end of the pattern; where
strcmp_wild() goes on behind the first occurrence of the run after a "*", `Glob` may too.

*Induction.* The induction theorems of the library that take an operator cannot be
used here. Where a recursive function has to be taken up, the proofs do it over a
*set* of numbers, from the well-foundedness of < on Nat (`SetInduction`).

**Only model-checked:** `KeystrokeFinds` and `WildStart` of `CinTable`, `KeyAccounted` and `RecallFollows` of
`KeyPath`, which are about what recursive searches and a sort compute; `ReadsBack`,
`RepliesLaidOut` and `BuffersSuffice` of `ImRequests`, over the RECURSIVE operators of
`FrameMgr`; and all liveness (`ExitCompletes`, `Collected`, `SearchesEnd`, `KeysHandled`),
which is beyond the prover.
**Only proved:** type correctness, the inductive invariants, `ContextBalance`, `FrozenWhileExiting`, `ListsPartition`
and `SlotsSettle`.

## 6. Not modelled, and why

- Drawing, geometry, colours, X resources and locale handling: output.
- `fkey.c` and the quick phrases: constant tables, looked up by key.
- `greq_*` in `xim_IC.c` and `gui_menusel.c`: no method of the repository makes a request
  to the GUI, so no state of the program lets a model of it start.
- The hints of gen_inp from a phrase database (HAVE_LIBTABE) and bimsphone's extraction of
  user phrases: they need libtabe, and nothing in the state they share with the rest
  depends on more than the text committed.
- IMdkit's transport by properties and over TCP, byte swapping and string conversion.
- The race of `sighandler()` with a half-done `xcin_mode |=`.
- siod, libtabe, bims and Xlib: third-party; the models use what `src/` relies on.
- `testprog`: a sample client. `bims.cin` and the header lines of a .cin file.

## 7. What could follow

1. A proof of `KeyAccounted` of `KeyPath`, once the sort and the searches of `CinTable` are
   written without RECURSIVE operators.
2. `ICGarbage` within `XimProtocol`: a client whose IC the sweep took waits for ever for an
   answer (a finding now by reading).
3. A GUI request model, once a method uses it; the hints of gen_inp with libtabe.
