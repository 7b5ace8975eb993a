# A verification project for MaruPop

MaruPop is a resident program that shows a dictionary card for the Japanese text
under the mouse pointer. It grabs a region of the screen around the pointer,
recognizes the text in it, looks the character under the pointer up in the
dictionaries of the user, and draws the answer next to the pointer. This
directory holds TLA+ models of that program, written from its C++ source
(`src/` of the repository; paths below are relative to it), the configurations
that check them with TLC, and proofs of their main invariants that TLAPS checks.

`PROJECT.json` names, for every definition that models code, the lines it
models (`map`), for every property a mutation of the code that breaks it
(`mutants`), and the hazards of the code with the properties that cover them.

## 1. The system

### Components, their state and their operations

| component | state | operations | interacts with |
|---|---|---|---|
| `scan::ScanController` | the result the pointer is over, the last hit, the scan in flight, generation and ticket numbers, the settings it reads | pointer sample, poll tick, throttle fire, frame ready / failed, recognized, lookup delivered, set scanning / lock / settings / result count, forced rescan | everything below; emits `lookupReady`, `hitMoved`, `nothingUnderCursor` |
| `scan::Throttle`, `PeriodicPoller` | last fire, interval, single-shot timer | `request`, `cancel`, `setIntervalMs`, timeout | fires scans of the controller |
| `scan::ScanCache` | eight results by region and pixel hash, in order of use | `find`, `insert`, `clear` | read and filled by the controller |
| `capture::FrameSource`: KWin, wlroots and Windows sources | the grab in flight, the one remembered rect, the protocol state of the grab, a watchdog | `grab`, protocol events, timeout | the compositor; `frameReady` / `failed` to the controller |
| `capture::scanregion` | none | initial region, growth ladder, tile grid, coordinate maps | used by controller and sources |
| `ocr::OcrService` | mailbox of one, worker thread, active and published backend, generation | `recognize`, `setEngine`, drain, publish, destruction | callbacks to the controller |
| OCR backends, hit test, grouping, resolution | models in memory | recognize an image, group lines, find the character at a point | called by the worker and the controller |
| `ocr::ModelStore` | downloads of model files | download, verify, install | network, file system |
| `lookup::Engine` with query, ranking, variants, deconjugation, `jp` | published dictionary set, classified selections, cache of results | `lookup` on pool threads, `setDictionaries` on the main thread | stores of the dictionaries |
| `dict::DictionaryManager` with jobs, `Store`, importers | list of dictionaries, open stores, pending promotions and removals, running imports, published snapshot; files on disk | load, save, add, remove, order, enable, import, retry | engine, manager dialog, file system |
| `popup::PopupWindow`, placement, rendering | model, pinned, suppressed, mapped, fading, geometry | `setModel`, `showNear`, `hidePopup`, `setPinned`, `setSuppressed` | driven by the application; occludes grabs |
| `app::Application`, lookup window, tray, dialogs, shortcuts | retained response, lookup-window state | routes signals between all of the above | everything |
| cursor trackers and lock watchers | last position, connection to the compositor | samples at 8 ms, lock reports | controller |
| `platform`, `wayland`, `win32`, `core` | session detection, bindings, settings accessors | start-up | everything |

One thread runs the controller, the sources, the popup and the manager. The
recognition and the Windows capture have one worker thread each, lookups run on
the global thread pool, imports have a thread each.

### What is hard about it

* A scan is a chain of four asynchronous steps (throttle, grab, recognition,
  lookup). At any point the pointer moves on, the poll starts another scan,
  scanning is paused, or the settings change. Each step identifies itself by a
  region, a generation or a ticket, and stale ones are dropped; the state they
  would have updated has to be left consistent.
* The card must be right when the pointer stops: nothing re-evaluates a pointer
  at rest except the poll, and not even that when the poll is off.
* Growth of the region, descent to a finer one and a card that covers its own
  text are feedback loops that may oscillate.
* The grab and the recognition are servers that hold one request and remember
  one. A lost wakeup or a slot that is never freed stops the program for good.
* Dictionaries are replaced under running lookups, and files that are still
  open cannot be replaced on one of the platforms.
* The card is driven by the loop, by the lookup window, by pinning, by fades and
  by the settings; whatever kept it from following the loop, it has to agree with
  it again.
* The manager dialog and the application each run checks, downloads and imports
  on the same files and do not know of each other; the dialog may be closed on
  its queue.
* The Windows source answers from a copy of the desktop that has to keep up with
  what is presented while the copy is made, used, lost and released.

### What makes each component correct

* Controller: the card shown answers for the character under the pointer; the
  record of the last hit always stands for an answer that is on screen or on its
  way; a pause leaves nothing behind; a pointer at rest is answered and the loop
  then settles.
* Throttle: at most one fire per interval, no request forgotten, none postponed.
* Sources: one grab at a time, the newest request is never lost, every grab ends,
  no frame lacks what was on screen before its grab, and a duplicated output is
  not held for good.
* Regions: the first one and every rung lie in the workspace around the pointer,
  a session asks the compositor for few boxes, and what is grabbed for the
  pointer holds it.
* OCR service: no lost wakeup, the newest frame is answered, callbacks in order
  and none after destruction, the published backend is the loaded one.
* Dictionary manager: lookups are given current stores only, an import is never
  lost to an older removal, what has to wait is done later or at the next start,
  and a database never answers through the filter of another import.
* Engine: a lookup is answered from the one dictionary set it selected, and from
  nothing that was cached for another.
* Application: once dictionaries were replaced, neither the retained response nor
  the lookup window keeps a store of the old ones open; a lookup window that
  opens shows the last hit.
* Popup: the card follows the reports of the loop whenever it is free to; pinned,
  it is frozen; placed, it lies on its screen, off the text where the session wants
  that, until the settings change its size; and a wavering hand turns it at most
  once.
* Tasks on dictionaries: the queue never stalls, a source or a store that is in
  place is complete, and without a fault what the server published and what the
  user added reaches the store.

## 2. The modules

| module | models | composed of |
|---|---|---|
| `Throttle` | `scan/throttle.cpp`, in milliseconds | |
| `ThrottleWallClock` | the same on the clock the constructor installs | extends `Throttle` |
| `LatestWins` | what `framesource.h:48-51` promises: an abstract server that serves one request and remembers the newest | |
| `FrameSource` | `beginRequest()` / `endRequest()` as functions of the slot | |
| `WinFrameSource` | `capture/winframesource.cpp`: the source and its worker with a duplicated output | extends `FrameSource` |
| `CaptureSources` | `WlrFrameSource`, `KWinFrameSource` with `KWinGrab`, and the Windows source: a session has one | extends `WinFrameSource`, refines `LatestWins` |
| `PointerGrabs` | the throttle firing grabs of the source it drives | extends `Throttle` and `CaptureSources` |
| `OcrService` | `ocr/ocrservice.cpp`: two threads, a mailbox, both event queues | |
| `ScanCache` | `scan/scancache.cpp` as functions of a sequence of keys | |
| `ScanController` | `scan/scancontroller.cpp` with a source, a recognition, a thread pool and a throttle around it | uses `ScanCache` |
| `StoreFiles` | the four files of one dictionary, their promotion and removal, as functions (`dict/store.cpp`) | |
| `DictionaryManager` | `dict/dictionarymanager.cpp` with import jobs, `StoreWriter::finish()`, the removals and undos of the dialog, lookups that keep files open, and the end of the process at any step | extends `StoreFiles` |
| `DictionaryTasks` | the queue of `dictui/dictionarymanagerdialog.cpp`, the update chain of `app/application.cpp` and the three jobs (`updatecheckjob`, `dictionarydownloadjob`, `dictionaryimportjob`) on shared files | |
| `LookupEngine` | `lookup/engine.cpp`: the published set and the cache of results, with lookups on the thread pool | |
| `Rectangles` | `QRect` and the rounding of coordinates | |
| `ScanRegion` | `capture/scanregion.cpp`: the first region, the growth ladder, the tile grid and the mappings of points, as functions; `MCScanLoop` takes its regions from it | extends `Rectangles` |
| `Placement` | `popup/placement.cpp`: both placements with their hysteresis, as functions | extends `Rectangles` |
| `PopupWindow` | `popup/popupwindow.cpp`: the card as a record and a function per member | extends `Placement` |
| `Application` | the slots of `app/application.cpp` and `app/lookupwindow.cpp` around the card, the engine and a reduced loop | extends `PopupWindow` and `LookupEngine` |
| `ScanSettling` | the controller under a pointer that comes to rest, with fairness | extends `ScanController` |
| `ScanAcrossPause` | the controller with a record of frames from before a lock | extends `ScanController` |
| `PointerGrabsProofs`, `ScanRegionProofs`, `OcrServiceProofs`, `ScanControllerProofs`, `DictionaryManagerProofs`, `DictionaryTasksProofs`, `PopupWindowProofs`, `ApplicationProofs` | theorems | extend the modules they are about; `PointerGrabsProofs` is also about the throttle and the sources, `PopupWindowProofs` is also about `Placement`, and `ApplicationProofs` builds on it |

`MC*` modules give the constants their values for TLC.

### How the controller's state corresponds to the code

* `current` is `m_currentRect` with `m_currentHash`; `NoKey` is the empty rect.
  A *key* is a region with the pixels in it (what page is on the desktop and what
  part of it the card covers), which is what a hash stands for. Recognition is a
  function of the key (`Reading`), so a cache entry is its key.
* `answer` collects the record of the last hit (`m_lastRect`, `m_lastHash`,
  `m_lastParagraph`, `m_lastCharIndex`), `m_hitActive`, `m_nothingReported`, the
  newest request (`m_lastRequest`, `m_lastContext`, `m_pendingHit`), the lookups
  on the pool, and `shown`, what the signals told the application last.
* `scan` is `m_pendingRect`, `m_scanInFlight`, `m_pollDeferred`,
  `m_grewUnmeasured`.
* Generations and tickets only grow and are only compared for equality with the
  copy a job carries. A lookup with an old ticket is dropped unread, so it leaves
  the model when the ticket is raised; a recognition with an old generation still
  occupies the service, so it stays as `OldKey`.
* `source` is the latest-wins server that `CaptureSources` is shown to
  implement; `mailbox` and `reading` are the mailbox and the worker of
  `OcrService`. `Capture` is the moment the compositor reads the pixels, which
  may be long before `OnFrameReady`.
* `throttle` is "open", "closed" (within an interval) or "pending" (a trailing
  fire is scheduled): `Throttle` without the numbers.
* Every slot is one action, with the calls it makes: `OnFrameReady` contains
  `scanReturned()`, `evaluate()`, `growAndRescan()`, `startScan()` and the grab
  it submits.

What is left out of it: texts, log lines, `error()` messages and timings; the
screen-dependent scale in `growthResolvesText()` (the model compares extents);
that `nothingUnderCursor()` and `lookupReady()` may be ignored by a pinned or
suppressed popup, which is in `Application`.

### How the pixel sources' state corresponds to the code

* `slot` is `m_inFlight` and `m_pendingRect` of `FrameSource`; `job` is what the
  source keeps of the grab on the wire (`Pending`, `KWinGrab`, or the queued call
  to the worker and its answer). `backend` chooses the source for a behaviour.
* `worker` is `WinCaptureWorker`: `calls` is its event queue, `step` how far
  `capture()` has come, `output` the duplicated output with what Desktop
  Duplication holds back for it (`queued`), `timed` the idle timer, `deferred`
  the time before `m_retryAfter`. `output.lacks` says that the copy in
  `Output::last` misses a present that no drain will bring any more; a grab
  answered from such a copy is "stale". One monitor stands for all.

### How the card's state corresponds to the code

* `card` is `PopupWindow`: `model`, `pinned`, `suppressed`, `visible`, `hiding` (a
  fade that ends in `hide()`), `screen` and `surface` (`m_surfaceScreen` of a
  layer surface), `rect`, the `sides` it took and the paragraph to `avoid`. Each
  member function of the class is a function of the record; `Application` calls
  them in the order its slots do.
* `Size` is what `updateSize()` lays a card out to: a constant of its model,
  whether it is pinned, and the `Layout` of the settings, which stands for the
  fonts, the padding, the largest width and height and the render options.
  `Themed` is `applyTheme()` and `applyRenderOptions()`: they forget the sides and
  resize a card on screen in place, without placing it again; the next placement
  takes new sides, so known sides tell a card that was placed since
  (`PlacedSince`).
* `loop` is `ScanController` as far as the three signals depend on it. A scan that
  returns (`ScanReturns`) may come at any time after the pointer moved, and in
  the same region as the last one or in another. `missed` is a history variable:
  the card was kept from following the loop since it last took a report (pinned,
  suppressed, or a response it must not take).
* `published` is the number of the dictionary set, `cache` the list of cached
  results, `pool` the lookups in the order they were started. A lookup is queued,
  has selected its set under the mutex, has missed the cache and queries without
  it, or is answered; whether anybody listens is its ticket.

### How the state of the tasks corresponds to the code

* `server`, `source` and `db` are the versions of a dictionary at their three
  places, with whether a file is complete and which server version its
  modification time stands for (`If-Modified-Since`). `part` and `tmp` name the
  jobs that write `<source>.part` and created `<database>.tmp`.
* `work` holds the job of the dialog, the job of the application and a job of a
  dialog that was closed, per dictionary; `queue` and `open` are the dialog's.
* `dropped`, `leftOver`, `met` and `faults` are history variables: work that was
  cancelled or failed, a dialog closed on its work, files two jobs worked on at
  once, and the number of faults for the bound.

### How the dictionary manager's state corresponds to the code

* A file is the number of the import that wrote it, 0 when it does not exist:
  `db`, `keys` and their two staged copies are the files `store.cpp` names with
  `keyFilterPathFor()` and `stagedPathFor()`. An open `Store` is the pair of the
  database and the filter it mapped. `windows` says whether an open file refuses
  to be replaced or deleted; the code is the same on both systems, only the
  answers of `renameOver()` and `removeFile()` differ.
* `entry` is `m_dictionaries`: `imported` stands for `importedAt`, `unavailable`
  for `storeUnavailable`; `needsReimport` and `unavailable` are not in the saved
  form (`Json`, `Parsed`), as in `Dictionary::toJson()`.
* `snapshot` is the set published under the mutex and `held` what a lookup, the
  card or the retained response still keeps of an older one. It may be kept for
  as long as it likes, which is more than `holdsReplacedStore()` allows.
* `job` is the import job of a dictionary and the place its thread has reached.
  The thread has a step per file it moves in `StoreWriter::finish()`; everything
  else runs on the main thread and is one step per handler, with the snapshot it
  publishes at the end. `Kill` waits for the thread, as `doKill()` does.
* `diskList` and `diskRemovals` are the two files a start reads. `Restart` is
  the end of the process at any step together with the `load()` of the next one.
* `restored` and `torn` are history variables. `restored` collects the entries an
  undo put back, or a list the last process had not saved yet; `torn` those whose
  import was cut between two of its files, or found the filter open.

Left out: several imports of one dictionary at once (the dialog and the
application can start one each; `DictionaryTasks` has both), order and priority,
a list that
cannot be read, stores of another schema version, deletes that fail although the
file is not open, and a process that ends inside `removeStoreFiles()` or
`promoteStagedStore()`. `UnseenImports` allows a removal while the application
imports the entry, which the dialog does not notice; the runs leave it out, and
section 5 says which theorems hold with it.

## 3. The runs

| run | checks | size |
|---|---|---|
| `pointer_grabs` | `PointerGrabs`: the throttle with intervals 0 (clamped to 1) and 3 and timeouts up to one tick late, driving the KWin source, the Windows source or a wlroots compositor of protocol version 1 or 3 with three regions; refinement of `LatestWins` with liveness | 266 910 states |
| `throttle_clock` | violation: `TrailingFireEndsWindow` on a wall clock that is set back | |
| `ocr_service` | `OcrService` with three requests and two engine selections; liveness | 25 365 states |
| `scan_loop` | `ScanController`: two positions on an output whose tiles overlap, a page with text and one without, a cache of one entry, result counts 0 and 2, all environment actions | 841 376 states |
| `scan_growth` | `ScanSettling` on a ladder of two regions with growth, descent, occlusion, foreign text, an unknown word, a page that changes and a lock screen; liveness | 52 171 states |
| `scan_rungs` | violation: `RungSettles` over an empty spot near small text | |
| `scan_across_pause` | violation: `ComesBackToNewPixels` | |
| `dictionary_manager` | `DictionaryManager`: one dictionary, built-in or custom, on both systems, three imports, one end of the process | 654 185 states |
| `dictionary_restart` | violation: `PublishedFilterMatches` after an import that was cut | |
| `dictionary_tasks` | `DictionaryTasks`: one dictionary of a server and one custom list, one change of a source, one waiting task, one fault | 577 778 states |
| `custom_entries` | violation: `CustomEntriesAreReimported` when the dialog is closed | |
| `card` | `Application`: two screens of different size and origin, two characters, two dictionary sets, three combinations of session and settings with two layouts, two lookups at once, two commands, a cache of one result | 1 090 846 states |

Why the bounds are enough. The throttle compares distances from the last fire
only, so a clamped and a longer interval with a horizon above both show every
order of fires, requests and changes. Three regions let one grab be in flight,
one remembered and one replace it; a duplicated output has two halves and one
thing waiting to be drained, whatever its size. Three requests are one running,
one in the mailbox and one that replaces it. In `scan_loop` the
regions are those `ScanRegion` gives two positions on an output of eight columns:
the tile of a region is never the region itself, and two tiles that share one
position separate "inside the region of the last result" from "inside
the region of the scan in flight", two pages make every hash change, and a cache
of one entry makes every second result evict. In `scan_growth` the small region
cuts the large text and the large one brings in text it does not resolve, which
are the two measurements growth and descent go by. In `dictionary_manager`
dictionaries share nothing but the timer and the file of pending removals, and
every property speaks of each by itself, so one shows the interleavings; three
imports are one in place, one staged and one that overtakes both. In
`dictionary_tasks` one waiting task (`MaxQueued`) next to a running one is enough
for a queue that stalls, and one change (`MaxChanges`) for work that must follow;
each property speaks of one fault (`MaxFaults`) at most, a kill, a failure, a
removal or a closed dialog. In `card` two characters tell an answer from the
previous one, two sets a replaced store from a current one, and two lookups
(`MaxLookups`) let one overtake the other; two commands (`MaxCommands`) are one
that frees the card after one that held it. After a command one lookup runs at a
time, to keep the run within minutes. `Hysteresis` 2 and `Offset` 1 are scaled to
screens of 14 x 12 and 10 x 8. One character lies at the left edge of its screen,
one at the right, and the only point of the other screen at the edge next to it,
so a card is turned, shifted and moved between screens. Of the two layouts the
large one makes a visible card grow across the edge of its screen, or over the
paragraph beside it: `CardIsWellPlaced` without `PlacedSince` is violated in
either way. `MaxDisturbances` bounds the environment's steps before the pointer
comes to rest in `scan_growth` and `scan_rungs`; the loop
itself is not bounded.

`CHECK_DEADLOCK FALSE` is set where the system really stops or a bound is
reached: after the OCR service is destroyed and its queue is empty
(`ocr_service`), when a pointer rests and neither trigger nor poll is on
(`scan_growth`, `scan_rungs`), when every task is done and the bounds on changes
and faults are used up (`dictionary_tasks`, `custom_entries`), and when the pool
is full after the last command (`card`).

### Fairness

* `CaptureSources`: the watchdog timer of the wlroots source, the D-Bus reply (or
  its timeout, `kwingrabber.cpp:30`), the reader of the pixel pipe, and on Windows
  the event loops of the two threads. The compositor's own events are not
  assumed to come, nor a duplication to succeed.
* `OcrService`: both threads run their event loops. No caller has to call.
* `ScanSettling`: the event loop delivers timers and queued calls, the source
  ends its grabs and the worker drains its mailbox, as the two modules above
  show, lookups return and the popup is drawn. Fairness is stated per action and
  only once the pointer rests. `TimelyPollTick` states the one assumption about
  time: a scan takes less than two poll intervals (2 s each by default), so a
  tick does not overtake a scan an earlier tick has deferred to. Without it every
  second tick may overtake the recognition in flight and nothing is ever shown.

The other runs check safety only and state no fairness.

## 4. What the violations show

* `throttle_clock`: `throttle.h:28` asks for a monotonic clock, the constructor
  installs the wall clock. A clock that is set back postpones the trailing fire
  by as much, and until it comes all pointer motion is coalesced into it.
* `scan_rungs`: growth without a character to measure, and the descent it
  permits, alternate under a pointer at rest, which `scancontroller.h:223-227`
  says `m_grewUnmeasured` prevents. It prevents it for a growth that had text to
  measure, as `scan_growth` shows.
* `scan_across_pause`: a frame captured before the greeter came up is accepted
  after it is gone if a grab of the same region is awaited by then
  (`scancontroller.cpp:295` compares regions only), against the comment at
  `scancontroller.cpp:794-796`.
* `dictionary_restart`: `StoreWriter::finish()` moves the new database into place
  and replaces the key filter afterwards. A process that ends in between leaves
  the new database with the filter of the old one, which the next start opens
  and publishes: the filter rejects the keys the import added
  (`store.cpp:641-643` says why it must not stay), until the next import.
  `promoteStagedStore()` deletes the filter first for this reason
  (`store.h:293-297`).
* `custom_entries`: an entry is appended to a custom list while another task runs,
  and its import is queued behind it. Closing the dialog deletes the queue, and
  no import is started for the entry, against `docs/ARCHITECTURE.md:170`.

## 5. What is proved

Every theorem holds for all values of the constants that satisfy the named
assumptions of the modules.

* `PointerGrabsProofs!ThrottleSafety`, `RequestsAreCarried`, `ThrottleRate`. The invariant: while a fire is
  scheduled, its time and the time since the last fire add up to an interval, and
  the age of the oldest request and the time left stay within the longest one.
  Assumes that a longest interval exists (`LongestAssumption`).
* `PointerGrabsProofs!SourcesSafety`: type correctness and `SlotMatchesJob`,
  which need nothing more for the Linux sources. `SourcesAreLatestWins`: under
  the invariant every step of any source is a step or a stutter of `LatestWins`,
  with `turn` telling a request from an equal one that follows it.
* `PointerGrabsProofs!DuplicationIsTimed` (`HeldIsTimed`) and `WindowsSafety`
  (`FramesAreCurrent`), for every set of regions. The strengthening `WinInv` says that at most one call to
  `capture()` is queued or running and only while the grab on the wire is
  unanswered, that an output is half made only in the middle of `capture()`,
  under a running timer, and that its copy exists only together with the
  duplication. The last is why the order in `startDuplication()` matters: a copy
  without a duplication would miss what is presented meanwhile.
* `PointerGrabsProofs!PointerIsThrottled` and `GrabsAreServed` carry all of this
  over to `PointerGrabs`, the throttle and the source it fires: every step of the
  two together is a step or a stutter of either (`GrabsAreBoth`), so that neither
  can break what the other promises.
* `ScanControllerProofs`, for every set of points, regions, pages, characters,
  settings and locks, every reading of a page and every positive capacity of the
  cache: `TypeCorrectness`, `AnswerSafety`, `CountSafety`, `CacheSafety`,
  `FlagSafety`, `PauseSafety` and `PointerSafety` are the types and the invariants
  that `scan_loop` checks, `PlacementSafety` and `OcclusionSafety` the two action
  properties. None of the first group is inductive alone. `IInv` adds
  `AnswerInv`, which ties the parts of the answer together (every lookup under
  way is the last request, a last hit is what that request asks about at the
  count in force, and a card with no lookup under way is the response to it), and
  `ShotIsServed` (captured pixels belong to the grab being served, so that a
  dropped frame is never the one awaited). The parts need each other: a response
  that arrives is the newest one because an inactive loop has no lookups, and a
  raised count is satisfied because the card and the request agree. The proof
  has one lemma per answer function, per cache operation and per handler.
  `PlacementSafety` needs `CurrentIsCached`: without the trigger and the poll the
  card follows the pointer only where the result it is over is still found.
  `PointerSafety` (`CardMatchesPointer`) needs a further conjunct, `RequestIsPointed`:
  over the text of the current result the request that is answered or under way
  asks about the character under the pointer. An empty spot that made the loop
  grow keeps the previous card for the grab that follows, so with growth the
  statement speaks of states with a last hit; a setting that switches growth off
  meanwhile does not end that grab, and so the exemption is for `MayGrow`, that
  some setting under consideration grows. Where none does, as in `scan_loop`, it
  holds without the exemption.
* `DictionaryManagerProofs`, for every set of dictionaries, on both systems, any
  number of imports and restarts and with removals during unseen imports:
  `TypesAndSnapshots` (the types, `SnapshotIsCurrent` and `WaitingIsRetried`),
  `WaitingHasTimer`, and the action properties `RetriesKeepImports` and `StartsRecover`. `IInv` adds two
  facts: a removal that waits is of an entry without an import
  (`RemovalsSpareImports`, kept because the slot of `finished()` drops the
  removal before that of `result()` records the import), and the file of pending
  removals agrees with the set in memory (`RemovalsRecorded`). The proof rests on
  lemmas about the operators: a promotion keeps the newest database, opening a
  store changes nothing of an entry but its store, and a publication keeps every
  part of the invariant whatever entries and files it is given.
* `SupersededStaysClosed` (`SupersededNotPublished`) and `FiltersMatch`
  (`FilterMatchesDatabase`) of the same module rest on `AlwaysPlaced`. Its
  invariant, `ImportsPlaced`, says per dictionary where the newest import is at
  every step of the thread that places it: imports are numbered in the order they
  start (`Numbered`), the newest one recorded is the database or its staged copy
  (`Covered`), the files a running import has moved so far are its own (`Moved`),
  and no filter lies beside the database of another import (`Matched`, except
  after the cut of `dictionary_restart`). The three assume `~UnseenImports`. With
  removals during an unseen import they do not hold: on Windows an update import of
  the application stages its files beside an open database, the user removes the
  entry, which deletes the staged copy, and `finishImport()` records the import
  over the database that could not be deleted (`dictionarymanager.cpp:559`).
* `DictionaryTasksProofs`, for every set of dictionaries and custom lists, any
  number of changes, waiting tasks and faults: `TasksAreServed` (`QueueIsServed`),
  `SourcesAreWhole` (`SourceIsWhole`), `StoresAreWhole` (`InstalledIsWhole`) and
  `WorkArrives` (`WorkReachesStore`). The invariant relates, per dictionary, each
  of the three jobs that may run to the files it has in hand (`Fits`: a partial
  download or a temporary database belongs to one job that is at the step that
  writes it) and says of every source that is newer than its store what will bring
  it there (`Reaches`: the download that still has to report, the import that
  runs, or a task in the queue). Files two jobs worked on are in `met`, and the
  invariant shows that every such meeting is recorded.
* `ScanRegionProofs`, for all positions, sizes, workspaces and outputs.
  `InitialIsAround`, `GrownIsLarger`: the first region and every rung lie in the
  workspace, hold the pointer, and every rung is larger, so that the ladder ends.
  The comment in `grow()` (`scanregion.cpp:101-102`) is proved for
  coordinates that are not negative; left of or above the origin
  `QRect::center()` rounds to the other side. `TilesAreOfTheGrid`, `TilesKeepMargin` and
  `TilesAreFew` are what `scanregion.h:44-48` says of the tile grid; the count is
  for even sizes, an odd size has a stride half a pixel shorter.

  `PointerIsHeld` says when the tile around a pointer holds it wherever it is on
  one output: exactly if the lattice of half tiles reaches both far edges
  (`Reaches`). It does for 480 by 270 on 1920 by 1080 and on 2560 by 1440.
  It does not on 1280 by 720, the logical size of a scaled panel
  (`EdgeIsMissed`): `initialRect()` moves the region into the output,
  `wlrTileFor()` rounds it away from the edge again, and the tile ends 80 columns
  and 45 rows short of the corner. `tests/capture/wlrtile_test.cpp:8-11` asks that
  the pointer keeps a margin, and `:67-68` that a tile at an edge keeps it inside;
  the tests use an output where it does. On such an output `evaluate()` takes the
  grab for one the pointer has left (`scancontroller.cpp:395-402`) and asks the
  throttle for another, which grabs the same tile: with the pointer in those
  columns or rows the loop grabs at the rate of the throttle and never answers.
  `RestIsAnswered` is therefore a property of regions that hold their pointer, as
  those of `scan_growth` do. `RungIsSpent` is about growth: `growAndRescan()`
  declines a rung whose tile does not hold the pointer
  (`scancontroller.cpp:624-628`), but `startScan()` rounds the tile once more, and
  the tile of a tile need not be that tile; between two outputs of 2560 by 1440
  an accepted rung is grabbed without the pointer.
* `OcrServiceProofs`, for every set of requests and engines: `RequestsAreDrained`
  (`MailboxIsDrained`), `NewestIsKept` (`NewestIsHeld`), `PublicationsFollow`
  (`PublishedFollowsWorker`) and the action property `CallbacksAreOrdered`
  (`CallbacksInOrder`). The invariant orders what the two event queues hold: the
  posted results, the request that runs and the one in the mailbox carry
  increasing numbers, and the last publication in the queue says what the worker
  has loaded.
* `PopupWindowProofs`: whatever the geometry, a card that
  fits is placed within its screen and, beside a paragraph with room in some
  band, off the paragraph; and every member of the card keeps its types and that.
  `WaverRests` is about a pointer that goes back and forth. A side that was
  changed at one point is kept at every point within the hysteresis of it
  (`LeftIsKept`, `AboveIsKept`), and so it is changed at most once, by the third
  sample. The bands compare distances of centres, which are square roots in the
  code; the way to a band that is free is along one axis (`DistanceIsAway`), so
  they are whole numbers, the handicap of a kept band is a subtraction
  (`NearerIsLess`), and the band taken is the strict leader among the free ones
  (`NearestLeads`). A card that keeps its sides moves by no more than the
  hysteresis when the pointer does (`SidedSteps`), so none of its distances
  changes by more (`ApartSteps`), and of two bands neither can overtake the other
  in turn: the band is settled two samples after the sides (`TakenBandsRest`).
* `ApplicationProofs`, for every set of texts, points, screens, paragraphs,
  settings and dictionary sets and any number of lookups and commands:
  `CardFollows` (`CardFollowsReports`), `PinnedStays` (`PinnedIsFrozen`),
  `OpenedWindowShows` (`OpenedWindowIsCurrent`), `CardPlaced` (`CardIsWellPlaced`), `ReplacedStoresGo`
  (`ReplacedStoresAreLetGo`) and `AnswersAreOfOneSet` (`AnswersFromItsSet`). The
  invariant is `EngineInv`, which ties each lookup and each cache entry to the
  set it names, with `AppInv`: the lookup that is listened to is the newest and
  asks for what the loop asked last, a card that is free to follow agrees with
  the loop, and a card on screen lies where its last placement put it. The
  proof has one lemma per slot. `CardPlaced` holds for every size the layouts may
  give a card: of a card that the settings resized where it was (`ThemedCard`) the
  invariant keeps its corner and its surface, and its next placement, by a sample
  or a response, gives back the rest (`ShownAfresh`). `WaversSettle` (`WaverSettles`) asks for screens a
  third of which is no less high than the hysteresis (96 logical pixels for the 32
  of `kSideHysteresisPx`) and which are as wide as twice the offset of the card
  from the pointer (400 for the 200 `marupopsettings.kcfg:420` allows): between
  the thirds of a lower screen VisualNovel has no room to keep a side, and a hand
  can send the card across the pointer on every sample; over a narrower one its
  anchor, which wanders by twice the offset on the way from the edge to the
  centre, moves faster than the pointer.

  The proof corrected the property. A kept band may give way to the one nearest
  at one end of the waver and that to the one nearest at the other end; where the
  second sample also turns a side of the pointer, both may happen once more, and
  the band rests from the fifth sample on only. `BandRests` first said the fourth,
  which the small numbers of the `card` run (hysteresis 2) do not tell from the
  fifth: with the numbers of the code, on a screen of 1920 by 1080 in the mode
  that flips on both axes with an offset of 16, a card of 400 by 200 wavering
  between (1524, 872) and (1534, 841) over a paragraph of 300 by 241 at
  (1320, 635) takes the bands 1, 1, 1, 0, 2, 2, 2.

Only model-checked: liveness, which is outside the reach of the prover
(`NewestIsAnswered`, the leads-to properties of `scan_growth`, and what
`ImplementsLatestWins` says beyond `LW!Safety`). Every invariant and every action
property of the passing runs is a theorem. The operators of `ScanRegion` are
integers throughout, so the theorems about them need no instance; `MCScanLoop`
evaluates the ones that give its regions.

## 6. What is not modelled, and why

Pure input and output (rendering, dialogs, pixel conversion, importers, codecs,
protocol bindings), start-up (`platform`, autostart, shortcuts), generated
tables, and inference in the OCR backends: they keep no state that a later step
of another component depends on, or a test on their inputs says all there is to
say. This is the larger part of the source by lines: the interactive state of
the program is in the tenth of it that the models cover. `OcrService::setBackend()`,
`ScanCache::invalidate()`, `PopupWindow::setFollowCursor()`,
`WinFrameSource::setDesktopDuplicationEnabled()` and the controller without a
lookup function are reached from tests alone. `PROJECT.json` lists every
component with its status.

Known gaps and reductions in what is modelled:

* Regions: `workspaceRect()`, `screenlayout`, the mappings of rectangles and an
  output's share of a region that lies on several are left out. `ScanController`
  itself keeps regions as constants.
* Loop: frames are identified by page, region and card, so hash collisions are
  not considered; a change of the recognition engine, the lookup category or the
  lookup length does not invalidate anything in the code and is not an action.
* Throttle: the run of `ThrottleWallClock` only sets the clock back. One that is set
  forward opens the window early by as much, and no property covers it:
  `AtMostOncePerInterval` is about a clock that goes evenly.
* Sources: the shared-memory buffer reused after the watchdog abandons a frame,
  the `noScreenShare` check, several monitors and the destructors are left out. On
  Windows the rectangle of the card is taken when a grab is issued
  (`winframesource.cpp:658-659`) and the pixels when the worker comes to it; the
  difference is not modelled.
* Card: settings that make a card larger resize a visible one where it is
  (`application.cpp:656-659`, `popupwindow.cpp:120-162`), so it may reach across the
  edge of its screen or cover its paragraph until the next sample or response
  places it; a pinned card stays so while it is pinned. The model does this, and
  `CardIsWellPlaced` leaves out just these states. The offset of the card from the
  pointer and the geometry of the screens are constants.
* Card: `hitMoved()` also moves and maps a card whose suppression was released, or
  that was unpinned, with the model it had before (`application.cpp:269-271`), and
  a card that is pinned and unpinned while it is suppressed stays on screen. The
  properties except these through `missed`. A request the loop dispatches again
  because the count was raised is the same request, and the controller holding a
  card through an occluded grab is in `ScanController` alone.
* Engine: the cache keeps entries of a replaced set, and with them its stores open,
  until they are displaced (`engine.cpp:346`, as `engine.h:129-131` says);
  `docs/ARCHITECTURE.md:162-164` can be read as if it did not.
* Tasks: the key filter, the retries and the list file are in `DictionaryManager`;
  Yomitan sources, whose updates end in a write error, the undo and the message
  bar are left out. `InstalledIsWhole` leaves out dictionaries two imports worked
  on at once (`met`): they share `<database>.tmp`, and `store.h:169-171` leaves
  one import at a time to the callers. What becomes of a dictionary two jobs met on
  is covered by no property. `WorkReachesStore` leaves out work that was
  cancelled or failed (`dropped`): after a download whose import was cancelled
  the server answers 304 and nothing imports the file, because the check sends
  the modification time of the local file, not `Last-Modified` of the server
  (`dictionarydownloadjob.h:7-8` and `updatecheckjob.h:6-7` name the latter). An
  entry removed while the application imports it stays imported without files
  (`dictionarymanager.cpp:559`); `UpdateCheckJob::doKill()` emits one result, as
  the job class guarantees. `finishDownloadedFile()` removes the old source before
  the rename, so that a failing rename leaves none (`FailDownload` with `unmoved`).
* Manager: on Windows an entry that is restored while its removal waits for open
  files loses its files to a later retry (`restored` excludes it).

## 7. Plan

What is left, in this order:

1. The hit test and the grouping of `ocr/`, as operators, against the assumptions
   `ScanController` makes about a reading.
2. `DictionaryManager`: an undo whose removal still waits, and liveness of
   publications and retries on a smaller instance.
3. Ranking and deconjugation against reference definitions. The comparison of
   `lookup/ranking.cpp:194-253` is said to be a total order (`:239-240`), which the
   step on secondary frequencies (`:211-217`, `:53-67`) makes worth checking.
4. The cursor relays with their reconnects, and the downloads of `ocr::ModelStore`.
