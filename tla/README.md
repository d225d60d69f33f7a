# A formal model of the low-power voltage sensor firmware

This directory keeps a TLA+ model of the firmware in this repository, the TLC
configurations that check it, and proofs of its central properties.

## 1. The system

An ESP8266 runs on a battery. It wakes from deep sleep, measures its own supply
voltage, and sleeps again, with the radio off. Every twentieth boot has the
radio on: it joins a WiFi network, connects to `iot.espressif.cn`, uploads the
twenty measurements and sleeps. Before any of this a user configures it: the
device opens a soft access point and a web server, is told a network and a
token, and registers itself at the cloud server with that token. Holding the
key for five seconds takes it back to that point.

| component | source | state it keeps | operations |
|---|---|---|---|
| sampling cycle | `app/driver/sensor_lp.c`, `app/user/user_main.c` | RTC memory: `init_flg`, `cnt`, `data[20]`; the deep-sleep option | `data_func`, once every boot |
| parameter store | `app/user/user_esp_platform.c` 73-166 | two flash sectors, a flag sector, `esp_param` in RAM | `load_param`, `save_param`, `set_token`, `set_active` |
| cloud client | `app/user/user_esp_platform.c` 168-845 | `client_timer` (one timer, six callbacks), `device_recon_count`, `device_status`, `active_nonce`, `esp_server_ip`, the WiFi mode in flash, `dhcp_info` in RTC memory | `init`, `check_ip`, DNS, connect, sent, received, disconnect, error, AP change |
| sleep and key policy | `app/user/user_sensor.c` | `sensor_sleep_timer`, `link_start_time` | `user_sensor_init`, long press, `deep_sleep_enter` |
| key driver | `app/driver/key.c` | `key_level`, two timers, the interrupt mode | interrupt handler, 50 ms and 5 s callbacks |
| web server | `app/user/user_webserver.c` | reassembly buffer, `rstparm`, `sta_conf`, `ap_conf`, `restart_10ms`, scan list, upgrade state | request handlers, `restart_10ms_cb`, `json_scan_cb`, upgrade |
| timer schedule | `app/user/user_esp_platform_timer.c` | a list of timed actions, one os timer | parse, start, fire |
| JSON helpers | `app/user/user_json.c` | none | path lookup, paged output |
| device finder | `app/user/user_devicefind.c` | a UDP socket | answer a broadcast |
| drivers | `app/driver/{pwm,i2c_master,uart,spi,gpio16}.c` | registers, buffers | not used by this application, except the console UART |

How they interact:

* A boot runs `user_init`, `user_sensor_init` and `data_func`. `data_func` calls
  `user_esp_platform_init` in the boots that upload or are configured, and the
  web server in those that are configured; all other boots end in deep sleep
  before the event loop starts.
* Cloud client, web server and key share flash (`esp_param`, the WiFi mode, the
  station's settings), the one `client_timer`, and the right to end the boot.
* All connections of the web server share one reassembly buffer, one set of
  borrowed settings, one scan list and one upgrade.

Everything runs on one processor without preemption, except interrupt handlers:
the SDK's event loop calls one callback at a time. What makes the system hard:

* the program may be cut at any instant (power, watchdog, deep sleep), and
  different memories survive different cuts: flash all of them, RTC memory
  sleeps and resets, RAM none;
* the wake-up option of deep sleep takes effect one boot later than it is set;
* the cloud client is driven by callbacks whose order the network decides, and
  by one timer whose meaning each of them overwrites;
* a request to the web server is answered at once and carried out by a timer
  10 ms later, and another connection may speak in between;
* the state of an unfinished request, scan or upload is global and outlives the
  connection it belonged to;
* the pin may move while the key's handlers run, unseen by the interrupt.

What makes each component correct:

| component | correctness |
|---|---|
| parameter store | a save is atomic across power failures; RAM and flash do not diverge |
| sampling cycle | an upload has the radio; its batch is the last N measurements, none of them in two batches; uploads go on for ever |
| cloud client, sleep policy | there is always a next step; a registered device can always join a network; what was sent ends in sleep; the time awake is bounded |
| key driver | short presses never make a long one; a long press is recognised; the driver falls in step again after a missed edge |
| duty cycle and client together | every boot ends as the next one expects; what is sent is a full batch; a registered device whose server is there uploads again and again |
| web server | requests are served whole and not early, also after broken ones; a setting that was posted is carried out and nothing else is; a scan's list is never over-read and reaches the client; an upgrade is finished exactly when the whole file is there, and its lock is released |
| JSON helpers | a request is met with the one answer it asks for; each field reaches its own setting |
| timer schedule | every action at its time, weeks wrap |
| device finder | who asks is told the address he can reach, and by the device he asked for |
| PWM | each pin is high for its duty, while the tables change under the interrupt |
| I2C, SPI, UART | what is sent arrives, whatever calls and interrupts follow one another; no bit is taken for a condition of the bus |

The hazards of the code, each at its line and with the properties aimed at it,
are listed in `PROJECT.json`.

## 2. The modules

| module | models | actions and the code |
|---|---|---|
| `ParamStore` | `load_param`, `save_param` and their callers | a save is a sequence of four flash operations (`EraseSector`, `WriteSector`, `EraseFlag`, `WriteFlag`), started by `SetToken` or `SetLongToken` (a token that fits its field or does not), by `SetActive` for a long press, or by `Activate`, the answer in `recv_cb` to what `Ask` has sent; `PowerLoss` may fall between or within them. `asked` is the token that the nonce of the last request stands for; the history variables `registered` and `unfounded` keep which tokens were answered for, and which may be active without: those activated by an answer for another, and those too long for the field |
| `AtomicParam` | what `ParamStore` promises: one register | `Begin`, `Commit`, `GoDown` |
| `SamplingCycle` | `data_func`, statement by statement, over any number of boots | `EnterConfig`, `Flush`, `Measure`, `Record`, `SetOption`, `Sleep`, `Upload`; resets fall between them; what an upload and a configuration end in is `UploadEnds`, `Activated`, `ConfigSleep`, `LongPress` |
| `CloudClient` | every callback of `user_esp_platform.c`, the sleep timer, the long press of `user_sensor.c` cut anywhere, and what the web server does to the client | one action per callback; `Boot` is `user_esp_platform_init`; `Crash` and `NetChange` are the world |
| `Device` | the two before as one device | `DataFunc`, `ConfigBoot` and `UploadBoot` are the steps of `data_func`, the last two with the client's `Boot`; `Callback` is any callback of the client, and sleeps if the callback did; `Restarts`, `Watchdog`, `PowerFails` |
| `HttpReceive` | `save_data` and the part of `webserver_recv` around it | `Get`, `PostHead`, `PostBody` are fragments of requests whose head is whole, `PartOfHead` and `HeadRest` those of a head that comes in parts; `Abandon` is a client that goes away. What follows once something was written behind the buffer (`trust = "overrun"`) is not modelled |
| `LocalUpgrade` | the upgrade commands, `local_upgrade_download`, both of its timers | `Start`, `FileHead`, `FileHeadRest` (the end of a head that comes in parts), `FileBody`, `Other`, `CheckTimer`, `DeinitTimer` |
| `WebServer` | `webserver_recv`, which is `HttpReceive` while `upgrade_lock` is clear and `LocalUpgrade` while it is set | `Request`, `PostStart` (the request that sets the lock), `UploadHead`, `UploadHeadRest`, `UploadBody`, `OtherHead`, `OtherBody` (requests, and parts of them, that meet the lock), `GiveUp`, both timers |
| `WebConfig` | GET and POST `config?command=wifi`, POST `sleep`, `restart_10ms_cb` | one action per request, `Reconnect`, `GoToSleep` and `Wait` for the timer |
| `ScanPages` | the scan commands, `json_send(SCAN)`, `scan_get`, `json_scan_cb` | `Scan`, `ScanDone` and `ScanFails` (`json_scan_cb`, which does not look at the status), `GetPage` |
| `WebRequest` | `parse_url` on sequences of words, the choice of an answer, the settings' callbacks under `json_parse`, a page of networks under `json_ws_send` | `RecvRequest`, `ScanAnswer`, `RecvForm`, `SendPageOf` |
| `TimerSchedule` | `user_esp_platform_timer.c`: the wait of each kind of timer, the minimum, the chain of hours, the loop after an action | `Message`, `OverflowCheck`, `DeviceAction`; `Second` is time, `StackReused` any other call |
| `DeviceFind` | `user_devicefind_recv` in each WiFi mode | `Receive`, `NetChange`, `FindBoot` |
| `KeyDriver` | `key.c`: interrupt handler, both timers, the pin | each handler is two actions, so that the pin may move (`Glitch`) between reading a level and leaving the handler; `Tick` is time |
| `PwmDriver` | `pwm.c`: the table `pwm_start` makes, the two buffers, the timer interrupt | `PwmStart`, `PwmStartTimer` and `PwmStartToggle` are the parts of `pwm_start` between which the interrupt (`EntryEnds`, `PeriodEnds`) may fall |
| `I2cMaster` | `i2c_master.c`, a call being the levels it puts on the two lines | one action per call, `HalfClock` for each level, `I2cReset`; the slave follows the standard |
| `SpiLink` | both ends of `spi.c`, over one bus and two lines | `Transfer`, `Reply` of the master, `Reinit` (the two initialisations, also during a transfer); the interrupt handler of the slave statement by statement, and `set_miso_data` beside it |
| `UartConsole` | `uart.c`: the receive ring of UART0 and the console of UART1 | `RxEnter`, `RxTake`, `RxLeave` are the handler, during which `Arrive` may come; `TxOne` waits for room in the FIFO |
| `*_proofs` | theorems about the module of that name; `CloudClient_proofs` also those about `Device`, `WebServer_proofs` those about `HttpReceive` and `LocalUpgrade`, `Messages_proofs` and `Drivers_proofs` those about the parts of `MCMessages` and `MCDrivers` | |
| `MC*` | the instances TLC checks; `MCDrivers` and `MCMessages` hold modules that share no state, of which one runs in a behaviour | |

How the modules are composed. `Device` extends `CloudClient` and instantiates
`SamplingCycle` with `active` for `activeflag = 1`. It takes data_func's steps from
the one and the callbacks from the other, and says itself only where they touch: a
callback that took the client down left the device asleep, `system_restart` left it
at the start of a boot. That each such end is one `SamplingCycle` allows is
`IsSamplingCycle`, checked and proved. `WebServer` extends `HttpReceive` and
`LocalUpgrade` and lets `upgrade_lock` choose between them: its actions are theirs,
joined where one fragment moves both. `ParamStore` implements `AtomicParam`,
which is why `activeflag` may change in one step elsewhere. The web server appears
in `CloudClient` by its effects on the client (`WebPost`, `WebSleep`,
`RestartTimer`), which `WebConfig` has in detail; `WebRequest` decides which
command a request is, and `WebConfig`, `ScanPages` and `LocalUpgrade` what the
command does.

What the models leave out of the code they stand for: the wording of requests and
answers; the LEDs and `device_status`, which only display; the token in
`CloudClient`, but for whether it fits its field; the fields of the WiFi settings other than the ssid in
`WebConfig` (`WebRequest` has them); clock dividers, baud rates and bit orders in
the drivers; allocation failures.

## 3. The runs

| run | distinct states | question |
|---|---|---|
| `param_store` | 112,206 | Is a save atomic, whatever instant the power fails at, and has the server answered for every token that counts as active? |
| `sampling_cycle` | 86,288 | Does each upload have the radio and the right batch, whatever resets fall between the steps of `data_func`, and do uploads go on? |
| `device` | 277,406 | Do cycle and client fit together: is there always a next step, does each boot end as the next expects, is what is sent a batch, does the device sleep and upload again? |
| `web_server` | 898,490 | Are requests and images of two clients put together whole, and is the server free again after an upgrade? |
| `messages` | 66,232 | What is made of requests, settings, scans, timers and searches, at once and later? |
| `drivers` | 451,190 | Does each driver keep its promises while interrupts, timers and the other end of its bus fall between its steps? |
| `unregistered_device`, `upload_time`, `reconnect`, `get_crosses_post`, `pwm_newest`, `timer_minimum` | | six places where the code disagrees with its comments, below |

Every property has a mutant: a change to one definition, of the kind a slip in
the code would be, under which TLC finds the property violated. The mutants stand
beside the definitions they change, marked `Mutant`. A property that is the
conjunction of several has one for each.

### Properties

* `BlockKept`, `ImplementsRegister` (`ParamStore`): the order erase
  data, write data, erase flag, write flag is what makes a save atomic. A flag
  byte that is neither 0 nor 255, left by a cut, still selects the sector that was
  in use or a sector that is whole. `RamMatchesFlash`, its second part: a save, which
  writes the whole RAM block back, does not resurrect an old token.
  `ActiveIsRegistered`: the flag says something about the token beside it, and the two
  change by different events: posted settings, an answer of the server, a long press.
  No order of these and of power failures, no shorter token before a rest of a longer
  one, and no old block in the other sector, makes
  a device active by a token the server has not answered for. Two ways are left, and
  `unfounded` tells them apart: a token posted between a request and its answer, and
  one of more than 40 characters, which writes the flag itself.
* `UploadHasRadio` (`SamplingCycle`): `data_func` decides one boot ahead that the
  next one will need the radio, and a reset between the steps must not lose it.
  `BatchIsLastN` and `BatchesDisjoint`: the count is kept in RTC memory during an
  upload, and resets repeat whatever had not been written back. `KeepsUploading`:
  a registered device uploads again and again once it is left alone.
* `NextStepPending` (`CloudClient`): each callback takes `client_timer` away from
  the others; none of their orders leaves an awake, unconnected client with
  nothing armed. `ActiveDeviceCanJoin`: `set_active(0)` must be stored before
  `system_restore` erases the network. `SleepsWhenReachable`: also in STATIONAP
  mode, which has no time limit.
* `IsSamplingCycle`, `BatchUploaded`, `DeviceKeepsUploading` (`Device`): a boot is
  started by RTC memory and `activeflag` together, and ended by any of a dozen
  callbacks. `BatchUploaded` is about what goes to the server: `sent()` looks at
  `activeflag` alone, and must find a full batch and the radio when that is not 0; a
  configuration in which a token overran its field (`overrun`) is excused.
  `DeviceKeepsUploading` is the whole promise of the firmware. Networks may go and
  come back, and boots leave whatever WiFi mode a retry chose in flash; if from some
  sleep on network and server are there and the device stays registered, it uploads
  for ever, in STATIONAP mode too.
* `ServedRightly` (`HttpReceive`): the counters are global and outlive connections.
  The history variable `trust` says in which requests the code can keep this: those
  that cross no other, whose head comes in one fragment and whose body is not too long
  for the buffer. After disorder of any kind but a write behind the buffer it can
  again from the first whole GET on.
  `NothingUnderLock`: clients that are in the middle of a request when
  the lock is set or released.
* `FinishedExactly`, `LockHasBuffer`, `LockIsReleased` (`LocalUpgrade`): the clean-up
  timer of one upgrade may expire after the next has started; while the lock is set
  everything a client sends is image. The history variable `upload` says which
  uploads are one client's, with their head in one fragment, undisturbed.
* `NothingLeft`, `JoinsPosted`, `SleepsWhenTold` (`WebConfig`): requests within the
  10 ms write into the same two borrowed structures and re-arm the same timer.
* `StaysInList`, `AllSent` (`ScanPages`): networks are taken off the list when they
  are sent, and pages may be asked for in any order and again. `early` and `failed`
  leave out pages asked for during a scan, and scans that fail.
* `RequestsMet` (`WebRequest`): where `Host:` stands in the headers decides in 8 bits
  how much of the text is looked at; where the parts of the URL fit their fields of 10
  bytes the request is understood as it was sent, and each that stays within the
  structure has one answer. `JsonKept`: Station and Softap both have an
  ssid and a password, told apart by a path and by what was written before; the five
  values of a network are printed in five calls through one static variable.
* `ActsOnTime` (`TimerSchedule`): fixed, repeated and weekly timers, waited for an
  hour at a time, over the ends of weeks and over new lists, act for the right
  entries and never early, by the time the module reckons with and as long as the
  note on the stack is kept. `FoundRightly` (`DeviceFind`): the answer is for the
  interface the request came from, or the one it names.
* `Resynchronises`, `LongPressIsOne`, `PressFires` (`KeyDriver`): missed edges,
  bounces, and `key_5s` and `key_50ms` due together.
* `PlayedRightly` (`PwmDriver`): channels of one duty share a table entry, those of
  none and of all have none, and the handler walks one buffer while `pwm_start`
  fills the other; a table that is overwritten while it is walked is left out.
* `TransferKept`, `BitsAreNoConditions` (`I2cMaster`): each call begins with the
  levels the call before left, and must not make a start or stop condition of them;
  28 clocks must free a slave that a reset left in the middle of a byte.
* `FrameIsAsked`, `RegistersHeld`, `SlaveInStep` (`SpiLink`): `SPI_USER` is or-ed
  into and the master does not wait for the end of a transfer; the slave's handler
  clears causes that were set after it read them. `spoiled` marks a transfer that met
  an initialisation: a byte may then get a data phase, and nothing else changes.
* `UartKept` (`UartConsole`): bytes that arrive while the handler runs, the ring's
  wrap, and line ends that are given as LF or as CR LF.

### Bounds

* `ParamStore`: one token to post, beside the factory's and the blank one; fields of
  two parts, so that a token is empty, leaves the end of the one before, fills the
  field, or overruns it; bytes 0, 1, 255 and one partly programmed, the classes
  `load_param` tells apart. The proofs have any number of tokens.
* `SamplingCycle`: N is 3 instead of 20. The code compares the count with 0, N-1, N
  and more; 3 has a slot that is none of the first, the last and the one before.
  Two values of a measurement suffice to see a wrong order.
* `Device`: N is 3 and a measurement has one value, as the order of values is
  `SamplingCycle`'s matter; at most 2 name queries under way (`MaxDns`), so that one
  is answered late; `device_recon_count` wraps at 8 instead of 256, past the 5 the
  code looks for. The number of boots is not bounded. The two runs of `MCCloudClient`
  have the same bounds.
* `WebServer`: two clients, bodies and images of up to 3 units in every division, of
  which bodies of 3 are too long (`Room` is 2); heads whole or in parts; `MaxTotal` and
  `MaxImage` 6: two of the longest. A head counts 1 unit in the image. A fragment that
  would pass `MaxTotal` is not sent.
* `WebConfig`: two networks and two connections a boot, so that each request can
  cross each other.
* `ScanPages`: pages of 2 and up to 6 networks instead of 8 and some tens: none,
  one, a last page that is full or not, three in all. A page number is one digit,
  as in the code.
* `WebRequest`: every command the server knows and one it does not, by both methods;
  names of 10, 11 and 13 characters, which fill and overrun a field of 10 bytes;
  headers of 0, 180 and 300 characters and, for the scan, each length around the 255
  at which the count wraps; settings in both orders with fields missing, named twice
  and with an unknown authmode; a page of 3 networks.
* `TimerSchedule`: an hour of 3 seconds, a week of 10, and lists of up to 3 timers:
  waits of several hours, week ends on the way, timers due together, fixed times
  that are over. `DeviceFind`: three nets for two interfaces.
* `KeyDriver`: 2 and 5 ticks for 50 ms and 5 s, so that a bounce can begin and end
  within the debounce time and `key_50ms` can expire before, with and after
  `key_5s`. History counters stop one past what properties look at.
* `PwmDriver`: three channels, in five settings of equal, no, full and close duties,
  at 50, 100 and 501 Hz (the last is above the highest the code accepts).
  `I2cMaster`: the bytes 0, 255, 165 and 78, which have all transitions and both
  last bits; the 28 clocks of the code. `SpiLink`: one byte, and one of 9 bits.
  `UartConsole`: a ring of 2, a FIFO of 3 and a trigger level of 2, so that the
  ring wraps and bytes arrive past the level.

### Fairness

* `SamplingCycle`: the code runs, sleep ends, a registered device's upload ends, and a
  battery is put back. A user who must act is not assumed. `KeepsUploading` assumes
  that resets, long presses and power failures end. That an upload ends is
  discharged in `Device` where the network is there; where it is not, the run
  `upload_time` shows the exception.
* `CloudClient`: armed timers fire, the SDK answers while the network is there, and
  a handler that began goes on. The network need not come back, the server need
  not answer, and nothing wakes a device that is down; `SleepsWhenReachable` itself
  says that the network stays.
* `Device`: both, without the assumption that an upload ends. `DeviceKeepsUploading`
  itself says that disturbances end and that from some sleep on network and server stay:
  a device that was awake when the network came back for good may be one of
  `reconnect`'s below.
* `WebConfig`: the timer of `restart_10ms_cb` expires and clients close their
  connections at some time, which the SDK's idle timeout of a server enforces.
* `WebServer`: both timers of the upgrade expire. That clients go on is not assumed.
* The other modules have safety properties only and assume none.

### Where the code disagrees with its comments

* `unregistered_device`: `data_func` looks at `activeflag` only when RTC memory
  holds no cycle. A long press during an upload leaves `INIT_MAGIC` there, so after
  the restart the unregistered device measures a whole batch, and then joins no
  network and offers no web server.
* `upload_time`: `user_esp_platform_reset_mode` stores STATIONAP in flash. The next
  boot of the registered device then arms no sleep timer, and nothing bounds its
  time awake but an answer from the network.
* `reconnect`: when the SDK has the server's name in its table,
  `espconn_gethostbyname` returns the address and never calls back; the code
  connects only in the callback and checks DNS every second for ever.
* `get_crosses_post`: a GET of the WiFi settings in the 10 ms after a POST frees
  what `restart_10ms_cb` is about to read.
* `pwm_newest`: if the interrupt stops the timer after `pwm_start` found it running,
  the table just made is named but never played.
* `timer_minimum`: the actions a timer is to take are noted on the stack of a
  function that has returned; when it expires, others may stand there.

Known behaviours that the models show or exclude by a condition, without a run:

* A key that bounces up at the instant `key_5s` expires loses its long press: the
  press goes on in the driver's eyes, and no timer is armed for it. `PressFires`
  speaks of presses that the driver saw begin. When an edge was missed, short presses
  may add up to a long one until the next boot; `LongPressIsOne` holds while none was.
* A token that is posted between a request to register and its answer counts as
  registered, and the server has never seen it (`user_esp_platform.c:465`). These
  tokens are in `unfounded` of `ParamStore`.
* A posted token may have 63 characters; `set_token` copies them into a field of 40
  (`user_esp_platform.c:153`). The 41st then is `activeflag`, just after it was cleared: the
  device may be active by a token that nobody knows, or by none (any value but 0 and
  1), and `sent()` then uploads from the configuration boot. These tokens are in
  `unfounded`, too, and set `overrun` in `CloudClient`. The last characters of the longest
  go beyond the structure; of what lies there only `active_nonce` is modelled.
* `user_esp_platform_ap_change` spins until the SDK takes a network, and skips the
  last of its table when it wraps (line 522); a station address saved by one upload
  is used by the next, in whatever network (line 789).
* A page that is asked for while a scan is under way may free the structure
  `json_scan_cb` writes to (`user_webserver.c:848`). Of a scan that failed it takes NULL
  for the list and the SDK's old count for its pages (line 947), and the first page reads
  through NULL. `ScanPages` has both as crashes: `StaysInList` says that there is no other
  way to one.
* A head that comes in two fragments has its blank line in the second only
  (`user_webserver.c:635`): the first is refused, or appended to what the buffer holds, and
  the request is lost. While `upgrade_lock` is set the first part is written into the
  image (line 1022) and the length is never read, so that the upload runs into the time
  limit. `trust` and `upload` are "lost" then.
* Of a request that is longer than 1024 bytes with its head only the head is buffered (line
  660), and each fragment that follows is appended behind the buffer's end. `trust` is
  "overrun" then, and the model ends there.
* The three parts of a URL are copied into fields of 10 bytes without looking at their
  lengths (lines 594 to 612). One of 10 or more characters is no command of the
  server's: it is answered 400, or not at all if it runs beyond the structure
  (`Overruns`).
* After the time limit ended an upload, its counts stay: the head of a retry is
  taken for image and its end is not recognised. `FinishedExactly` excludes this
  with `upload`.
* GET `client?command=info` is answered with its JSON and then with 400, GET
  `upgrade` with an unknown command not at all (`AnsweredOnce` excludes the two);
  each fragment of a request that is not whole yet is answered 400.
* Text of more than 255 characters before `Host:` is cut by its length modulo 256;
  an unknown authmode ends the soft access point's callback, so that fields behind
  it are lost; a page is looked for behind any `&` of the request. `RequestsMet` and
  `JsonKept` exclude the first two.
* An answer of the device finder has 42 to 50 characters and is written into 40: the
  model says which address is written, `lost` that the stack behind is overwritten.
* Timers: a list that comes without the time is reckoned from the time of a message
  before, to which what has gone by since is not added (`user_esp_platform_timer.c:286`): it
  acts late by the clock, and on time by `ActsOnTime`, which goes by the time the module
  has. A wait of 0 leaves the old timer as it was; when all fixed times are over
  the device looks again each hour, up to `0xFFFFFFF` seconds.
* PWM: a second `pwm_start` within a period overwrites the table the handler walks;
  below 77 Hz a period's ticks do not fit 16 bits. `PlayedRightly` excludes both.
* I2C: 28 clocks do not free a slave that was at the eighth bit of a byte it receives.
* SPI: `spi_master_init` and `spi_lcd_mode_init` wait for no transfer (`spi.c:87`). During
  one they may add a data phase to a byte, and a write whose clock changes may reach the
  slave or not. A master that looks at the lines while the slave's handler runs sees those of
  the transfer before (`crossed`); a write to a display sends the data phase of the
  write to a slave before it.
* A reset between the last recording and the upload loses that batch; the next
  cycle starts over. `BatchesDisjoint` allows it.
* `README.md` speaks of one measurement a minute and an upload every 20 minutes;
  `SENSOR_DEEP_SLEEP_TIME` in `user_config.h` is 6 s. Times of sleeps are not
  modelled.

## 4. The proofs

TLAPS proves, for every value of the constants that satisfies the module's
`ASSUME`:

| module | theorems | inductive invariant |
|---|---|---|
| `ParamStore_proofs` | `TypeCorrect`, `KeepsBlock`, `ActiveByAnswer`, `Refinement` | `SaveProgress`: until FLAG is touched the sector being written is the one not selected; from then on both are whole. Without it a cut within a write could not be told from one in the selected sector. `ActiveIsRegistered` is about RAM and both sectors, and so kept by every step: what a boot loads or a save writes was in one of the three |
| `SamplingCycle_proofs` | `TypeCorrect`, `RadioOn`, `BatchInOrder`, `NoOverlap` | `MemInv` (the first cnt entries of `data[]` are the last cnt measurements), `RadioInv` (which option is set, or which radio is on, by the count), `UnsentInv` |
| `CloudClient_proofs` | `TypeCorrect`, `TimerArmed`, `CanJoin`, `NoUploadWithWeb`, of the client alone and in the device; `DeviceHasCycle`, `BatchSent`, `SentInOrder` | what a device that is down has lost, that the key handler runs only after `activeflag` was cleared, that an address or a connection means a network is configured, that the web server runs only unregistered (unless a token overran its field since), that `activeflag` is a character only of such a token, and that `discon` is pending only with a connection. For the device `BootInv`: the client is up in the boots `data_func` calls uploads and configurations, with the web server in the latter |
| `WebServer_proofs` | of `HttpReceive`: `TypeCorrect`, `Served`; of `LocalUpgrade` and the whole: `ServerServes`, `LockIsClean`, `LockIsTimed`, `LockKeepsBuffer`, `WholeImage`, `UpgradeTypeCorrect` | `TrustInv`: where it is trusted one request at most is under way, in no client's head, the buffer holds it and has room for what is to come, and the count and what is to come add up to its length; `LockInv` (which timers and flags go with the lock) and `CleanInv`: units received, the image and what is left of the file add up while `upload` is clean |
| `Messages_proofs` | of `WebConfig`: `ConfigTypeCorrect`, `KeepsNothing`, `JoinsOnlyPosted`; of `ScanPages`: `ScanTypeCorrect`, `InsideTheList`, `EveryNetwork`; of `DeviceFind`: `FindsRightly`; of `TimerSchedule`: `TimerTypeCorrect`, `TimersOnTime`; of `WebRequest`: `NothingMixed`, `MeetsRequests`; of the parts together: `MessagesTypeCorrect`, `MessagesSafe`, `MessagesAct` | `NothingLeft` itself (which of `rstparm`, `sta_conf`, `ap_conf` and `restart_10ms` go together), and `PostedInv`: `sta_conf` names a network exactly if one was posted since the last change; `ListInv`: what is on the list and what was taken off it add up to the scan, and what was taken off are the pages that were asked for; `NetInv`: no two interfaces are on one net; `WaitInv`: what has gone by, what the armed timer still waits for and what is left for later add up to the wait found for the list; `JsonInv`, with an induction over the names of a form and the leaves of a page inside; `RequestsInv`: nothing is sent to a client whose scan has not ended. What `parse_url` makes of a request is a function of how many of its words are copied (`ParsedIs`), whatever their widths |
| `I2cMaster_proofs` | `I2cTypeCorrect`, `TransferKeeps`, `NoConditions` | `WaveInv` (what the call under way has still to put out, as a function of the number of halves left), `OutInv` (when the slave holds SDA), and for each call how far master and slave are in the byte: the bits the one has are the upper bits of the other's. `ClearsInv` counts the clocks that free the slave after a reset |
| `PwmDriver_proofs` | `PwmTypeCorrect`, `PwmPlaysRightly` | `TablesInv`: whose table each buffer holds, at each step of `pwm_start` (the spare one that of `pwm` while `pwm_start` runs, the named one that of the last `pwm_start`, the one that is walked that of the period); `WholeInv`: at an entry each pin was high for its time or for all of the period so far, and is high if its time is still to come |
| `Drivers_proofs` | of the key: `KeyTypeCorrect`, `InStepAgain`, `OnePress`, `InTime`; of the UART: `UartTypeCorrect`, `UartKeeps`; of the SPI: `SpiTypeCorrect`, `FrameRight`, `SlaveKeepsUp`, `HoldsRegisters`; of the drivers together: `DriversTypeCorrect`, `DriversKeep`, `DriversAct` | key: `ModeInv` (mode, level and timers together), `KnowInv` (what the driver knows of the pin at each point), `LongInv` (a key that is up is up no longer than `key_50ms` allows), `CleanInv` (`key_5s` and the time the key is down add up to 5 s); UART: `RingInv` (the ring holds the newest bytes in order, from the place it would write next), `SendInv`; SPI: `SlaveAgrees`, of the two ends of the bus and both lines at each point of the handler, unless a call crossed it |

Each proof shows that `Init` implies the invariant and that each action preserves
it, one lemma an action; the theorems follow. `Refinement` maps every step of a
save, cut or not, to a step of `AtomicParam` or to a stutter.
`DeviceHasCycle` maps each step of the device to a step of `SamplingCycle`, which takes
`BootInv`: every end that a callback makes is one the cycle allows. (That each is a
step of `CloudClient` follows from how `Device` is put together, and is a lemma.) So
what is proved of the two parts holds of the whole: `BatchSent` and `SentInOrder` are
put together from both invariants, the duty cycle's through an instance of
`SamplingCycle_proofs`. A step of `MCMessages` or `MCDrivers` is one of the part
that runs and leaves the others, so that what is proved of a part holds there.

Some theorems are about inputs that the code can handle, and their properties say
which: tokens that fit their field (`ActiveByAnswer`; of the client, that `overrun` is
"no": `NoUploadWithWeb`, `BatchSent`, `SentInOrder`), heads in one fragment and bodies
that fit the buffer (`Served`, `ServerServes`, `WholeImage`), parts of a URL of 9
characters or less (`MeetsRequests`), transfers that met no initialisation
(`HoldsRegisters`, `FrameRight`). The models take the other inputs too, and the
theorems also say that what these leave behind does not spoil what comes later.

`TimersOnTime` rests on two facts about the schedule's arithmetic: the wait found for
a timer ends when it is due and not before (`DueFirst`, for fixed, repeated and weekly
timers), and the minimum of the list is the first of them (`MinTimeFacts`).
`NothingMixed` and `PwmPlaysRightly` need what a recursive function has at its end.
The callbacks and the printing are functions over a form's names and a page's leaves,
the sort and the joining of `pwm_start` functions over a table's entries; that the
recursion has a solution, and what it has at each place, is shown for all places by
taking the least one where it fails (`UpTo`, from the well-foundedness of <). So
induction over data is in reach where the recursion is a function over an interval
and a lemma is stated for it alone.

`PwmPlaysRightly` goes through the table. Sorting keeps the entries and puts them in
order (`SortedFacts`); joining leaves one entry for each time, with the pins of all
(`CombinedFacts`); so the table is that of the times the pins are to be cleared at and
of the period's end (`CombinedIs`). Where 5 ticks a microsecond fit 16 bits, only duty
0 has no time and only duty 255 all of it (`OnTimeIs`, which needs a period of 255 us
or more), and after the differences each entry clears the pins whose time has come
(`TableIs`). No pin's time is between two entries (`NoneBetween`), so a step of the
handler carries `WholeInv` on.

The assumptions on constants: N is at least 2 and `MaxCnt` larger (`SamplingCycle`),
the bytes include 0, 1 and 255 and `Torn` is no block (`ParamStore`), the count is
wider than 5 (`CloudClient`), the long press is longer than the debounce (`KeyDriver`),
`MaxTotal` is at least `MaxBody`, whatever `Room` is (`HttpReceive`), a head is not empty (`LocalUpgrade`), an image is not longer than a body
is counted (`WebServer`), pages are not empty and the networks fit a byte with a page
to spare (`ScanPages`); a stamp is not before the base its week is counted from, and a weekly timer
is within a week (`TimerSchedule`, the latter as the server counts the seconds of a
week); ring and FIFOs are not empty and the level is within the FIFO (`UartConsole`);
what is sent is a byte, or 9 bits (`SpiLink`); there are 1 to 127 channels, as the sort
counts them in an int8, frequencies are of 16 bits and duties of 8 (`PwmDriver`); the clocks of `i2c_master_init` are two
bytes with their acks or more, and one (`I2cMaster`: the code has 28; with 20, 22, 24,
26, 27 or 30 TLC finds `TransferKept` violated, with 19 not); in a form
each field stands behind the name of a section (where the first of them goes otherwise
is undefined in the code), and the words of a URL hold none of the marks that end one
(`WebRequest`).

Only model-checked:

* the liveness properties (`KeepsUploading`, `SleepsWhenReachable`,
  `DeviceKeepsUploading`, `SleepsWhenTold`, `LockIsReleased`), which the prover cannot
  treat under fairness. What they need of the states is proved: a client that is awake
  has a timer armed or a connection (`TimerArmed`), while a setting waits so does
  `restart_10ms` (`KeepsNothing`), and the lock is set exactly while
  `upgrade_check_timer` is armed (`LockIsTimed`);
* the six properties that the code violates.

## 5. Not modelled

* Of the web server: the values that the JSON callbacks for information and status
  print, the wording of HTTP heads, `find_json_path`, whose paths are fixed in the
  program, and `json_putchar`, which lets its position run one past the buffer.
* Of the timer schedule: a message without a list, which frees the list and leaves
  the timer; the splitting of texts; more than 20 timers, for which the list has no
  room.
* GPIO16: four functions that each set or read one register.
* SDK and ROM: binary. What they do is taken from how the code uses them and from
  the headers under `include/`.
* Host tools and scripts, the flash images.
* Failures of flash operations other than by power, and of `os_zalloc`: the code
  ignores the former's results (`user_esp_platform.c:110`), and does not check the
  latter in `user_esp_platform_sent`.
* What the program does once it has written behind a buffer or a structure: a request
  that is too long, a part of a URL, a token of more than 44 characters (but for
  `active_nonce`).

## 6. Plan

Built, in this order: `ParamStore` with `AtomicParam`, `SamplingCycle`,
`CloudClient`, `KeyDriver`, `HttpReceive`, `WebConfig`, `LocalUpgrade`,
`ScanPages`; then the drivers, `WebRequest`, `TimerSchedule`, `DeviceFind`, the
composition `WebServer`, and the composition `Device`. The parts with most to lose
came first: what survives a power failure, then what drains the battery, then what
configures the device, then what this application does not call.

Next:

1. `ParamStore` in place of `activeflag` in `Device`, so that its activations are the
   client's own requests and answers.
2. The loop of `user_esp_platform_ap_change` over the SDK's table of networks.
