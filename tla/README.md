# A TLA+ verification of the CSSE4011 practicals

This directory holds TLA+ models of the firmware in this repository, the TLC
configurations that check them, and proofs checked by TLAPS. Paths below are
relative to `src/mycode/apps/`; everything under a `build/` directory is
generated and left aside.

To check a model: `tlc -config MCBaseNode.cfg MCBaseNode`; to check the proofs of
a module: `tlapm BaseNodeProofs.tla`.

## 1. Inventory

The repository is a course's worth of Zephyr applications in C with a few Python
viewers. The core is the localisation system of prac 3; prac 2 is a sensor logger
with a command line and a button.

| Part | State | Operations | Interacts with |
|---|---|---|---|
| **prac3/basenode**: beacon registry | `beacon_list` (a doubly linked list), `beacon_nodes[]`, the kernel heap | shell: `add`, `list`, `list -a`, `clear`, `clear -a`, `ultra` | read by the position thread under `dlist_mutex` |
| **prac3/basenode**: position thread (`thread_pos`) | `exists[]`, `distances[]`, `x_hat`, `cov`, the queue item `p`, all on its stack | every 100 ms: scan the list, read `rssi_values`, least squares, Kalman filter, ultrasonic correction, put the position | three mutexes; the queue to the JSON thread |
| **prac3/basenode**: receive callback (`device_found`) | `rssi_values[]`, `dist` | stores the bytes of a frame of the mobile or the ultrasonic node | runs on the Bluetooth receive thread |
| **prac3/basenode**: JSON thread (`thread_json`) | – | takes a position from `pos_queue`, prints it with the RSSI values | `pos_queue`, `rssi_mutex` |
| **prac3/mobilenode** | `beacon_rssi[]`, the advertisement | `device_found` stores an RSSI; the main loop copies the array into the advertisement every 50 ms | radio |
| **prac3/ultrasonic** | the last sample | sample every 250 ms, range check, advertise | radio |
| **prac3/gui.py** | trail of positions | read a line, draw, upload | serial line |
| **mylib/kalman_filter.c** | the caller's `x_hat`, `cov` | one predict and update | `thread_pos` |
| **prac2/task1**: sampling control | five flags `sampling_settings`, four sensor threads, JSON threads on one shared stack, `global_sampling_rate` | shell: `sample s/p <DID>`, `sample w <rate>`, `sensor`, `rtc`; button interrupt | flags are read by all threads and written by the shell and the interrupt |
| **mylib** sensor readers | one byte ring buffer for each sensor | sampling loop puts, JSON threads get | sampling control |
| **mylib/rtc.c** | the clock, one static text buffer | get (sets a default when the read fails, which it takes for a clock without a time), set | shell command `rtc`, JSON threads |
| **prac2 viewers** | lists of samples | receive thread, plot timer | serial line |
| **prac1/task1** | signal, random number | a thread draws and raises, another prints and resets | – |
| **prac1/task2** | message queue of colours, clock and data pin | a thread puts a colour every two seconds, another sends it bit by bit | LED driver chip |
| **prac1/task3** | two globals, a semaphore, LED states | shell `led s/t <mask>`, `time` | the shell gives, `led_thread` takes |
| **mylib/thingy52_gas_colour.c** | `gasSignal`, ring buffer, `sensorMutex` | control thread fetches a value, set thread sets a colour | its producer is not in the repository |
| **mylib/wifi.c** | two semaphores | connect, wait for connection and address, then ping and HTTP | network management events |
| **Thesis/seminarold** | the sampling control of prac 2 without button and magnetometer, a socket | the same commands; each line of all sensors is posted to a server | network, server |
| **Thesis/espcode** | the last samples | one loop that reads two sensors and prints | – |

What is hard in this code: shell commands, threads of equal priority, the
Bluetooth receive thread and an interrupt share variables; some of them under a
mutex, some protected by nothing but time (`pos_queue`); state that outlives what
it was computed from (`exists[]`, `dist`, copies of `beacon_nodes[]`); frames that
are lost, repeated or late; fixed-size arrays, heaps and rings at their limit;
signals and semaphores that hold one event and are reset by the one who waits;
calls to a network that fail or never return. The threads' order of priority is
part of the protocol: the shell is the lowest of all, `main` has priority 0,
equal priorities are not sliced (`CONFIG_TIMESLICE_SIZE=0`), so that a shared
variable is often protected by nothing but who may interrupt whom.
`PROJECT.json` lists each hazard at its line.

What makes each part correct:

- *registry*: labels name the real neighbours; nothing is leaked; a registered
  beacon has a valid identity; a command affects the beacon it names;
- *position thread*: a scan sees one list; the matrices are full and never
  overrun; the filter stays free of NaN; positions come from registered beacons;
  each measurement is used once;
- *RSSI link*: a value belongs to its beacon, values of one frame are not mixed
  with another's, values only get newer, and they keep up with what the mobile
  node hears;
- *queue*: a position is read before it is overwritten, the queue is not
  initialised while it is in use, and nothing faults afterwards;
- *sampling control*: at most one live thread per thread structure and stack, a
  stop really stops, what is printed is what was measured;
- *clock*: a date is one moment, the time the user set is not overwritten because
  of a read that came before it;
- *small programs*: every number, command, colour and value takes effect once and
  in order; `main` of the Wi-Fi program goes on exactly when it is connected; a
  distance survives its conversions; no socket is left open, every post ends.

## 2. Modules

```
SequenceLemmas          lemmas on RemoveAt and on sequences without repetition
BeaconList              operators: the list with its labels
  BeaconRegistry        shell commands on the registry      <- MCBeaconRegistry
    BeaconRegistryProofs
NameQueues              abstract registry: a FIFO queue per name
BaseNode                threads of the base node            <- MCBaseNode
  BaseNodeProofs
RssiLink                beacon -> mobile node -> base node  <- MCRssiLink
  RssiLinkProofs
PositionQueue           queue to thread_json, start-up, time <- MCPositionQueue
  PositionQueueProofs
SamplingControl         sample command, button, threads of prac 2 <- MCSamplingControl
  UploadSampling        the sampling program of the thesis
    SamplingControlProofs
ByteRing                ring buffer of the sensor readers   <- MCByteRing
  ByteRingProofs
ReadingQueue            abstract ring: a queue of whole readings
ChainableLed            prac1/task2
ColourWheel             abstract LED: the colours in their order
RtcClock  LedShell  WifiStart  UltrasonicNode  RngDisplay  GasColour
Programs                the small programs, one on the board <- MCPrograms
  ProgramProofs
```

`Programs` is one specification for all the small programs (the ring, `UploadSampling`,
`ChainableLed` and the line of six above), which share nothing: its variable `program`
says which one is on the board, and only that one moves. Its properties are those of
the modules; where a liveness property would be asked of a program that is not there,
it is restated with `program = ...`. The names of each module carry its own prefix
(`RingNext`, `RtcNext`, ...), so that `Programs` can extend them all.

### BeaconList and BeaconRegistry

`list` is `beacon_list` as a sequence of nodes with name, identity and the labels
`left` and `right`, which the code sets by hand. `table` is major and minor of
`beacon_nodes[]`; name, address and coordinates there never change. `heap` counts
the free blocks that `k_malloc` can return; when there is none the code writes
through NULL, so `CmdAddNoMemory` ends the run. One action is one shell command
with all it does, because the shell runs one command after another. `LinkTail`
and `Unlink` are the list surgery of `cmd_add` and `cmd_clear`; the cast to
`uint16_t` is `Uint16`, and `AcceptedId` has the test in the order of the code,
after the cast. `reply` is the return value with what was shown.

`NameQueues` says what the registry is to its user: for each name a queue of
identities. `add` enqueues, `clear` removes the oldest, `list` shows the oldest,
and how names are mixed in the one list is invisible. `ImplementsQueues` is the
refinement. Its mapping is `IdsOf`: the identities at the positions of a name in
their order, where `Nth` is the position that has k positions of the name up to it.

### BaseNode

Interleaves the shell, `thread_pos` and the receive thread. A command is two
steps, going for its mutex and doing its work, because a thread may wait between
them; the scan is a step for each node, because the position thread may be
preempted anywhere and only the mutex protects it. `mutex` has owner and waiting
threads; unlocking hands the mutex on, as the kernel does. The receive thread has
a cooperative priority: its critical section is one step that needs the mutex to
be free.

Numbers are abstracted: an estimate is finite or NaN, a distance is there or not
(-1), an ultrasonic node has an axis in the code (B, F, H, I, M) or not. Rows
count: `RowCount` entries of `exists[]` go into matrices of `Rows` rows. With
fewer, memory is uninitialised; with more, memory behind the matrices is written;
in both cases the solution may be anything, NaN included. `everListed` and
`everTwice` are history variables that say what kind of session it was.

### RssiLink

A value is a record of whose signal it is and which strength it was, so that
mixing two beacons or an old value with a new one shows. The mobile node's
receive thread stores values between any two bytes that its main loop copies.
`bt_le_adv_update_data` may fail, frames may be received any number of times or
never. The filter of the scan may forget an address that it has reported, or
never: the controller is built with 16 filter entries (`CONFIG_BT_CTLR_DUP_FILTER_LEN`),
more than there are beacons. On the base node a frame is stored under `rssi_mutex`, and a reader (both
readers have the same shape) reads entry after entry under it.

### PositionQueue

Here time is explicit, since nothing else protects the queue item: `thread_pos`
puts the address of one stack variable each round, and a `k_fifo` links items
through their first word. Timers count down; a tick passes only if nobody is past
a deadline. `Lag` bounds how long a ready `thread_json` is kept waiting by threads
of higher priority, `JsonWork` how long it takes to print a line. `thread_pos` may
wake late. The two inits of `main` (`MainInit`) come whenever Bluetooth is up: before or
after the 50 ms delay of `K_THREAD_DEFINE`, or never (`MainFails`). Who uses the queue
(`JsonGet`) or the list (`ShellAdds`) in zeroed memory makes the kernel follow a null
pointer, and the node stops.

### SamplingControl

`cmd_contin` of prac 2 is taken apart at every point where the button interrupt
may matter: between the test of a flag, its setting, each `k_thread_create`, and
between the flags `sample p 15` clears. The interrupt handler itself is one step,
since nothing preempts it. A sensor thread is not there, about to test its flag,
or asleep for a sampling period; the four `read_..._continous` functions have
the same shape (the magnetometer's is the reference for the error paths, which
all lead to the same sleep). The JSON thread is one record because all of them
run on `json_thread_stack`; `Create` on a structure or stack in use sets
`health` to `"reused"`, after which anything may happen and the model stops.
`did` is a pointer to the third word of the line in the shell's command buffer:
`word` is what stands there now. The mutex is never initialised, so having to
wait for it sets `health` to `"contended"`. `unsettled` is a history variable: the
threads that lived at the last stop and have not run since; `patient` is another,
whether the user has kept to what `StaysSane` demands.

### ByteRing

A byte is the number of a reading and its position in it. `ring_buf_put` takes
what there is room for, `ring_buf_get` gives what there is, and neither says so in
a way the callers look at. The history variable `cut` says whether a put was cut since
the last error; it is what breaks the abstract `ReadingQueue`.

### RtcClock

`get_date_time` is taken apart between the calls to the clock, its default, the
second get and the two halves of the text that `snprintf` writes into the one static
buffer; a moment is a pair so that a mixture shows. The JSON thread may come
between any two steps of the shell, never the other way round (`CallerRuns`). A read may
fail at any time, and `rtc.c` takes every error for a clock without a time. `rtc w` sets
the clock or fails, and returns 0 in both cases. `misread` is a history variable: who is
about to set the default although the clock had a time of the user when he read it.

### RngDisplay

The two threads and their `k_poll_signal`, which holds one event. Time is explicit:
nothing but the two seconds keeps a raise from falling between the look at the
signal and its reset. Numbers are counted modulo 4, which tells a skipped or
repeated one.

### ChainableLed and ColourWheel

Each bit that `send_rgb_data` sends is a step on the data pin and two on the clock
pin. The chip is external and modelled from how the code talks to it: 32 zeros,
then 32 bits, of which six must be the inverses of the top bits of blue, green and
red. `ColourWheel` is what a spectator sees: eight colours in their order.

### LedShell

`led` writes the letter, then the mask, then gives the semaphore. `ordered` is a
history variable: what all commands so far amount to. A missing mask is read through
NULL, so it may be any mask.

### GasColour

Both threads with their polls, the signal and the ring of items. An item that does
not fit into the structure stays in the ring (`ControlTooBig`). Time is explicit here
too: the control thread sleeps `SamplingPeriod` and then goes on, whatever the set
thread is doing (`ControlWakes`); that thread is done with a signal within `SetWork` and
sleeps `SetPause`. The control thread may wake late; a tick passes only if
the set thread is in time. The control thread has `sensorMutex` while it polls, but not
when it empties the ring. The producer is not in the repository and the model has
two: one that takes `sensorMutex` for a delivery (`locking`) and one that does not.

### WifiStart

`main` up to its second wait, and the handler of network events, which run some
time after what they report has happened. The network connects, refuses, loses the
link and assigns addresses as it likes. `informed` is a history variable: the
connection as the handler was last told.

### UltrasonicNode

A distance from the sensor reading to `dist` of the base node: the range check, the
low byte of an `int`, the `int8_t` cast. Measurements and updates of the advertisement
may fail, frames may be lost or repeated.

### UploadSampling

Extends `SamplingControl`: the thesis has the command and the threads of prac 2
without button and magnetometer. New is `send_json_to_influxdb` with a failure at
each call. For the rest of the program the thread is asleep until it returns, which
is why the model implements `SamplingControl` (theorem `UploadIsSampling`) and what
was proved there carries over.

## 3. Runs

| Run | Bounds | Result |
|---|---|---|
| `registry` | 2 names, 4 heap blocks, arguments 1, 65536, 65538 | all hold (235 thousand states) |
| `basenode` | 3 names, 2 rows, lists up to 2 | all hold (250 thousand states) |
| `basenode_used`, `basenode_fix` | the same, lists up to 3 | `UsedAreListed`, `FixFusedOnce` fail |
| `rssi` | 2 beacons, one change of strength each | all hold (133 thousand states) |
| `rssi_each` | the same | `EachBeaconStored` fails |
| `queue` | ticks of 10 ms, sleeps of the code | all hold |
| `sampling` | 3 sensors, one not ready | all hold (163 thousand states) |
| `sampling_report` | the same | `SamplingIsReported` fails |
| `ring_whole` | 10 bytes, readings of 4, 12 readings | `WholeReadings` fails |
| `programs` | see below | all hold (48 thousand states) |
| `led_set` | none needed | `SetLightsLeds` fails |

What they show:

- `registry`: `LinksAgree` (labels right after any history), `HeapAccounted` (no
  leak, no double free), `NewestIsCurrent` (the last node of a name has the identity in the table) and the
  refinement of `NameQueues`, whose identities have no zeros: the test in `cmd_add` is
  on the stored value. Four nodes of two names contain every shape the list surgery
  distinguishes: empty, one node, both ends, the middle, a repeated name with
  another between; three numbers are one plain one, one that becomes zero, one
  that is cut to another valid one.
- `basenode`: `ScanIsOfOneList`, `OrderlySessionIsSafe`, `CommandsReturn` and
  `KeepsTracking` (a list that stays complete keeps leading to positions). Three
  names against two rows give too few, enough and too many rows, the last because
  `exists[]` keeps what was cleared; a list of two holds a repetition. The safety
  properties are also proved for all bounds.
- `rssi`: `SnapshotIsWhole`, `RightBeacon`, `NeverOlder`, `KeepsUp`. Two strengths
  suffice for "older", which compares two values; two beacons for "another's". The
  safety properties are proved for any number of beacons. `KeepsUp` is in two parts: a
  mobile node that stays where it is passes on what it has heard, and that is the
  present strength, except of a beacon that the filter of the scan keeps for ever.
- `queue`: `ItemIsFree` with the sleeps of the code (100 ms, 10 ms), 30 ms to print
  and 30 ms of delay twice in a round: exactly what fits. `InitBeforeUse` with a
  start delay of 50 ms and a `main` that takes any time: when it gets to `k_fifo_init`,
  nobody is waiting and no item is in the queue, because the first user is always
  `thread_json`, and its use of zeroed memory ends the run. Such a fault, and that of an
  early `add`, is possible until `main` is done, or for ever if Bluetooth fails, and
  impossible afterwards.
- `sampling`: `SamplingHasThread`, whatever the button does between the steps of a
  command. Three sensors are two that share an entry point of the JSON threads
  (of three in the code) and the magnetometer, which has its own; the one that is
  not ready ends at once. Nothing in the code depends on the number of sensors,
  which the proof confirms for this property. `StopsEnd`: a thread whose flag stays
  off ends. `StaysSane`: what a user has to observe so that nothing undefined
  happens. Each condition is needed: a second sensor started while one is sampled
  gets its JSON thread on the stack of the first one's; a start within a sampling
  period after a stop (sample p, or the button pressed three times) reuses the
  stacks of threads that still sleep; the button during a command starts threads
  the command starts again; a change of rate while sampling may make a thread wait
  on the mutex that is not initialised.
- `programs`, ring: `ErrorResyncs`, a failed get drops the remains of a torn reading,
  and the refinement of `ReadingQueue`: a queue of whole readings until a put finds no
  room and again from the next error on. The queue gives the oldest reading, although
  the functions are called `get_latest_...`. Sizes are those of temperature, humidity
  and pressure; twelve readings fill, tear and empty the ring several times. The
  magnetometer's ring (1000 bytes, readings of 24) has the same remainder problem
  after 41 readings. Both are proved for every size.
- `programs`, clock: `LinesWhole`; `DefaultOnlyOnMisread`: that the clock had no time yet
  is still true when the default is set, since the user's command cannot come in
  between. A read that fails with an error of another kind does overwrite the user's time. Two values for each half of a
  moment tell a mixture; the theorems are for any.
- `programs`, prac 1: `EachNumberOnce` with a sleep of 5 ticks and at most 4 for the
  display; `ShowsTheWheel` and `ColoursKeepTurning` (`WheelTurns` of the module) with
  all eight colours and every bit; `CommandsObeyed` and `StaysInStep` with every letter and mask.
- `programs`, gas: `ShowsLatest`, `GoesOnIndicating` (`KeepsIndicating` of the module). The
  readings 40, 41 and 246 are both sides of a limit and the highest band; the ring holds one
  item. A sleep of 3 ticks against a pause and a work of 1 is the tightest that
  the assumption of the proof allows; in the code it is 1000 ms against 50 ms and the
  setting of a colour.
- `programs`, Wi-Fi: `ConnectsWhenInformed`, `LastingLinkIsUsed`. Three pending events
  are a connection, its loss and one in between.
- `programs`, ultrasonic node: `DistWasMeasured`, `PersonIsFound`. Places at 0, 59 and
  60 cm are the limits of the range; 2.56 m is the distance whose low byte is 0.
- `programs`, thesis: `SocketsClosed`, `PostsEnd`. One sensor, which can be sampled alone
  or as all there are, and room for a second socket that must never be opened.
- `led_set`: after `led t 01` the LED is off and recorded as on, because `main` had
  switched it on; `led s 01` then leaves it dark.

The failing properties are what the documentation, or another part of the
code, says:

1. Commands "add, list, or clear the used beacons", but `exists[]` is never reset:
   a cleared beacon goes on being used, and after enough changes more than eight
   rows are written into matrices of eight.
2. Positions are fused, but with an ultrasonic node that has no axis the RSSI
   position is fused twice.
3. The mobile node sends "the RSSI values of each beacon", but the base node drops
   the thirteenth.
4. "Encodes the sampled data", but the JSON thread compares a device id in the
   shell's buffer and ends when the next line is typed.
5. "Encodes the sampled data", but a value may be put together from two readings.
6. "Set or toggle LEDs using a bitmask", but `led_thread` believes that the LEDs,
   which `main` has switched on, are off.

More is visible in the models without a run of its own:

- `clear <A-M>` "removes selected beacon", but takes one registration of a beacon that
  was added twice (`CmdClear`);
- the first frames of the mobile node carry a UUID that the base node stores as RSSI
  values (`AdvStart`; `NeverOlder` shows that they do not come back), and the
  ultrasonic node advertises distance 0 before its first measurement;
- `sample p 15` answers "No sensors are currently running" although sensors run that
  were started one by one (`CmdStopRefused`);
- "the mobile node broadcasts the RSSI values of each beacon", but the scan filters
  duplicates and has more filter entries than there are beacons: the value of a beacon
  may be the first that was heard of it for ever (second part of `KeepsUp`);
- if `main` of the base node takes longer than 50 ms to start Bluetooth, or Bluetooth
  fails, `thread_json` uses a queue in zeroed memory; so does an `add` with the list
  (`JsonGet`, `ShellAdds`);
- a read of the clock that fails for any reason sets it to 4 May 2025, also when the
  user has set it (`SetDefault`);
- a response of the server is called optional, but `zsock_recv` has no timeout: a
  server that accepts a post and never answers keeps the JSON thread from printing
  and from ending (`Recv`; `PostsEnd` names the case);
- the date that `rtc r` prints may be mixed with the one of a JSON thread that comes
  between the two halves; only the thread's own line is whole (`LinesWhole`);
- a value of the gas sensor that is too big for the structure blocks the ring for ever
  (`Blocked` in `KeepsIndicating`), and a producer that needs `sensorMutex` may wait for
  the control thread, which waits for its item, for ever (`Embrace`);
- if the one request for a connection fails, `main` of the Wi-Fi program waits for
  ever (`WifiConnect`).

### Deadlock

`registry` and `queue` do not check deadlock: after the NULL write, or after the
JSON thread's fault, the node has stopped. Nor do the runs of `SamplingControl`,
where the model stops once `health` is lost, nor `programs`, where the same holds for
the thesis program, the ring has had its readings, and the Wi-Fi program is done or
waits for an event that the network need not send. All other runs check it.

### Fairness

- `BaseNode`: `WF` on the shell's command in execution (it may be preempted but the
  other threads sleep most of the time) and on `thread_pos` (its sleep ends, no
  thread of higher priority runs for ever). Nothing forces the user to type.
- `RssiLink`: `WF` on the loops and receive threads; `SF` on a successful
  `bt_le_adv_update_data`, which is retried every 50 ms; `WF` on the reception of
  frames, i.e. not all are lost. Nothing is assumed of the controller's duplicate
  filter, which need never forget an address.
- `SamplingControl`: `WF` on each sensor thread and on the JSON thread, whose sleeps
  end and whose priority is above that of the shell. Nothing is assumed of the
  shell, the user or the button.
- `Programs`: `WF` on the steps of the LED threads and pins (timers end), on the gas
  indicator's two threads and its time, on the start of its producer's delivery while one
  is asked for and on its end (a producer that waits for `sensorMutex` is not helped), on `main` and the event handler of the
  Wi-Fi program, on the loop of the ultrasonic node, and on the threads and the calls
  `zsock_socket`, `zsock_connect` and `zsock_send` of the thesis, which return. `SF` on
  a measurement that succeeds and goes out, repeated every 250 ms, and on the arrival
  of a frame with a given distance: not every one is lost. Nothing is assumed of the
  network, of the server (`zsock_recv` may never return) or of the person.

## 4. Proofs

TLAPS checks the following for all values of the constants under the named
assumptions of the modules: `NoNameAssumption` (no beacon is called like a missing
neighbour), `WidthAssumption`, `ArgsAssumption`, `HeapAssumption`, `NamesAssumption` and
`RowsAssumption` (finitely many names, at least one row), `BeaconsAssumption`,
`MovesAssumption`, the two of `PositionQueue` on its times, `OrderAssumption` and
`ReadyAssumption` on the sensors, `SizeAssumption` (a reading fits into the ring),
`ReadingsAssumption`, `SetTimesAssumption` (the set thread works and sleeps for less time
than the control thread sleeps), `NapAssumption` (the display's work is shorter than the other
thread's sleep), `PlacesAssumption` and `DefaultAssumption`. TLC evaluates each on the
configurations above.

Every invariant that a run checks is a theorem, and so is every action property and
every refinement; 31 of the 40 properties of the passing runs.

- `BeaconRegistryProofs`: `TypeCorrect`, `HeapCorrect` (`HeapAccounted`), `LabelsCorrect`
  (`LinksAgree`), `NewestCorrect`, `IdsCorrect`: no registered identity has a zero
  (`IdsAccepted`; the run checks it through the refinement), and `QueuesCorrect`, the
  refinement of `NameQueues`. The inductive
  invariant is `TypeOK` with `HeapAccounted`, the others are inductive relative to
  it. The work is in four lemmas on `LinkTail` and `Unlink`: what they return at each
  position, and that they preserve `Linked`. The refinement rests on counting: a new
  greatest position gets the next rank (`RankAdd`), without the least one all ranks
  go down by one (`RankDrop`), and closing the gap that a removed node leaves changes none (`RankGap`).
  So `add` enqueues (`AddEnqueues`), `clear` dequeues and leaves other names alone
  (`ClearDequeues`), the node that `list` finds first is the head (`FirstIsHead`), and
  the queues together are as long as the list (`TakenIsLength`), which is what ties the
  heap to their capacity.
- `BaseNodeProofs`: `TypeCorrect`, `ScanCorrect`, `OrderlyCorrect`. This one needs an
  invariant of its own: while a scan runs, the position thread owns `dlist_mutex`
  and the shell does not, what is marked were once listed names, a session that
  never repeats a name has as many nodes as names, and if a round goes on to solve,
  an orderly session has exactly `Rows` entries marked. The last step is a
  cardinality argument: `Rows` distinct names are marked (lemma
  `DistinctCardinality`) and at most `Rows` names were ever listed.
  `NobodyIsStuckCorrect` is the safety half of `CommandsReturn`: who waits for a mutex
  waits for a thread that has it and waits for none. Its invariant `LocksInOrder` ties
  the mutexes to the control state: a thread has or awaits exactly what it `Wants`,
  which is never two at a time.
- `RssiLinkProofs`: `TypeCorrect`, `SnapshotCorrect`, `BeaconCorrect`, `NewerCorrect`,
  for any number of beacons. Every value on its way belongs to the beacon of its
  index, and along array, frame, air and copy each is at least as old as the one
  before it; a reader that owns the mutex has read what is still there.
- `PositionQueueProofs`: `TypeCorrect`, `QueueCorrect`, `InitCorrect`. Time left until the
  next round is always at least the time the consumer still needs; the assumption
  `Lag + JsonWork + JsonSleep + Lag =< PosSleep` is what makes it so, and is the
  timing requirement the code silently relies on. `InitCorrect` makes no assumption on
  `main`: as long as the queue is zeroed `thread_json` has not got past its first
  `k_fifo_get`, and `thread_pos`, which begins with its sleep, has put nothing.
- `SamplingControlProofs`: `TypeCorrect`, `HasThreadCorrect` and `StaysSaneCorrect` for any
  sensors, in any order. `SamplingHasThread` is inductive relative to the types: a
  flag that is set by the shell is followed by the creation with no step of the shell
  in between, and the button creates threads only for flags it finds off. `StaysSane`
  needs to know, while a patient user's command is on its way, which threads it has
  created so far and that no others are alive.
  `UploadIsSampling`: every step of `UploadSampling` is one of `SamplingControl` or
  leaves its variables alone, so `UploadStaysSane` follows. `UploadSocketsClosed`: a
  post goes on only while its thread is asleep, and a thread that is not asleep
  has no call under way. `UploadTypeCorrect`: its types.
- `ByteRingProofs`: `RingTypeCorrect`, `ResyncCorrect` and `QueueCorrect`, for every capacity
  that a reading fits into. The invariant `Aligned` says that between an error and the
  next successful get the ring starts with a whole reading: the error emptied it.
  `QueueCorrect` is the refinement of `ReadingQueue`. Its invariant is `Whole`: as long
  as no put was cut the ring consists of n whole readings, the k-th of which begins at
  `Start(k)`. The lemmas say that a put appends one number to the queue they stand
  for, that a get takes the oldest, and (`Fits`) that a put is cut only when
  `Capacity \div Size` readings are there.
- `ProgramProofs`, first the programs one by one: `LinesCorrect` and `MisreadCorrect`
  (the front of the buffer is the JSON thread's while it formats; who has found no time
  knows that the user has set none, or has misread the clock), `CommandsCorrect` and `InStepCorrect` (what is
  ordered is what is done, or what the command in the globals will make of it),
  `ConnectsCorrect` for any bound on events (the semaphore is up only while the
  connection is there as far as known), `DistCorrect` for any places, `NumbersCorrect`
  for any sleep longer than the work (the display has been late for as long as the
  other thread has slept), `LatestCorrect` for any readings and sleeps (while the set thread
  has work, what is left of the control thread's sleep is longer than what is left of it,
  so that it is at rest when the next value is fetched), which includes that the tests of the code divide values
  into steps of 41; and the types of each.
- `ProgramProofs`, the chain of LEDs: `WheelCorrect`, the refinement of `ColourWheel`. The
  lemmas read a frame bit by bit: `SendByte` of a component that is full on or off is
  eight times its top bit (`ByteBits`), the prefix carries the inverses (`PrefixBits`),
  a frame is 32 zeros, four bytes, 32 zeros (`FrameBits`), and a chip that has these 32
  bits accepts the word and reads from it the colour that was sent (`WordIsRead`). The
  invariant `ChainInv` follows a frame through the pins: `Given` bits have been put on
  the data pin, `Clocked` of them the chip has seen; up to 32 it has counted
  zeros, up to 64 it holds what was sent since, then it shows the colour. What is shown
  is the last colour put, or the one before while a frame is `Ahead`. `ChipStep` is the
  step that needs all of this; every other one moves bits along.
- `ProgramProofs`, all together: `ProgramsRun` (the specification that is run implies
  the specification of each program), hence `ProgramTypeCorrect` (`ProgramTypeOK`) and
  `ProgramsCorrect`: all safety properties of the run `programs`, from its own
  specification.

Model-checked only are the liveness properties, which need fairness and `ENABLED` and
are beyond the prover: `CommandsReturn`, `KeepsTracking`, `KeepsUp`, `StopsEnd`,
`ColoursKeepTurning`, `GoesOnIndicating`, `LastingLinkIsUsed`, `PersonIsFound` and
`PostsEnd`.

## 5. Not modelled

- The Python viewers (`gui.py` of prac 2 and prac 3): they draw and post what they
  receive and control nothing.
- `Thesis/espcode`: one loop without state but the last samples, which it prints
  again, or uninitialised, when a fetch fails.
- Floating-point arithmetic: least squares and Kalman filter appear as "finite or
  NaN". `tot_dist`, which adds distances from the origin, is part of it.
- The part of `wifi.c` behind the two waits (ping, name lookup, HTTP request) and
  `wifi_disconnect`, which has no caller; `set_rtc_to_system_time`, which has none
  either.
- The commands `sensor` and `time`, which read and print and change nothing.
- The layout of JSON lines and prompts, logging, radio physics; commented-out drivers,
  an empty sample, generated code.
- The values that are uploaded: their tag is whatever stands in the shell's buffer by
  then, and the time stamp is always 0.
- Two error returns that the heaps and boards of the programs do not take: `-ENOMEM` of
  `sample s 4` in prac 2 (`main.c:465`), which would leave a flag without a thread, and
  the return of `main` of prac1/task2 when its port is not ready.
