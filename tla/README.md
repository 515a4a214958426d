# A TLA+ model of AvDiagnostics

AvDiagnostics is a monitor: once a second it collects the state of a machine
(CPU load, disks, memory, processes, RAID arrays, reachability of other hosts,
licences on a Guardant dongle) and shows it in the nodes of an OPC UA server.
`config.xml` says what is watched and which node shows it. To write only what
changed, every part of the monitor keeps a *cache* of what it believes to have
sent. This project models the parts, the client they share, and the server, and
asks the question that decides whether the monitor is of use: **when do the
nodes of the server show what the monitor measured?**

Contents: 1 the system · 2 hazards · 3 modules · 4 how the model corresponds to
the code · 5 runs · 6 bounds · 7 fairness · 8 proofs · 9 only model-checked ·
10 not modelled · 11 plan.

## 1. The system

Paths are relative to `src/`. `src/main.cpp` and `src/main_old.cpp` are two
versions of one program: both are in `CMakeLists.txt`, both define `main`, and
their functions are alike. The channels below are taken from `main.cpp`, the
main loop from `main_old.cpp` (the one in `main.cpp` refers to
names that are not declared there). Both loops call `time_passed` where
`TimePassed` is defined.

| Component | State it keeps | Operations | Correct when |
|---|---|---|---|
| `OpcUaClient` (`src/opcuaclient.cpp`) | the open62541 session, `is_connected_` | Connect, CheckConnection, Disconnect, Write(vector), Write, Read | a value handed over is stored, or its loss is repaired later |
| CPU channel | `last_sent_cpu_usages`, `cpu_config` | collect (two reads of /proc/stat around a sleep of 1 s), detect, send | nodes are within the threshold of the load of the CPU they are named for |
| Disk channel | `disk_configs`, `last_sent_disk_usage` | collect (statvfs), find_changed_disks, send_full_disk_metrics | the amount fits the units shown beside it |
| RAM channel | `ram_config`, `last_sent_ram` | load_ram_config, collect (free), is_ram_changed, send | nodes are within a megabyte of the last amounts |
| Process channel | `last_sent_states` | collect (config.xml, ps), detect, send | a group's node says whether all members run |
| RAID channel | `raid_config`, `config_loaded`, `first_run`, `last_sent_raids` | collect (/proc/mdstat), detect, send | status and health are those of mdstat, and fit each other |
| IP channel | `last_sent_ips` | collect, detect, send | a group's node is what its logic makes of the pings |
| `IpChecker` | `ips`, `ip_status`, `failed_ips`, `async_checks` | load_ips_from_xml, check_ips, update_async_results, ping threads | statuses are of this cycle; threads are bounded; the loop is not held for ever |
| Guardant channel | `last_sent_guardant` | collect (in a thread), detect, send | a product's node says whether the dongle carries it |
| Main loop | four timers, `guardant_check_running`, the future | calls the channels in turn, starts and takes the Guardant check | every channel gets its turn |
| `AvDiagnostics` class (`src/avdiagnostics.cpp`) | the document `doc_`, for each of its six parts a cache (`last_sent_..._`) and what was collected last | loadXml; load, collect, check and send of CPU, disks, RAM, processes, RAID, IPs | as above |
| `AVLicensing` (`src/avlicensing.cpp`) | nothing between two calls | Checker, GetLicenseInfoJson, ShowProducts | the login and the buffers are given back on every path, and the answer fits the dongle |
| `IndustrialProtocolUtils` (`src/industrialprotocolutils.cpp`) | the caller's structures | ReadConfig with Split and IsIpAddress | the settings of the last device and the addresses of all |
| tinyxml2, open62541, nlohmann, Guardant API | third-party | | - |

How they interact:

* The main loop is one thread. In each turn it calls collect, detect, send of
  CPU, disks, RAM, processes, RAID and IP, in this order, and all send through
  **one** `OpcUaClient`: a Write that fails in one channel closes the session
  that the next channel finds.
* `collect_guardant_states` runs in a `std::async` thread beside the loop; the
  loop takes the result when it is ready.
* `IpChecker` starts a `std::async` ping for each host that does not answer
  within 10 ms; emptying `async_checks` waits for these threads.
* `config.xml` is shared with whoever edits it. It is reread all the time, by
  some functions twice in a cycle.
* Class `AvDiagnostics` is the same monitor once more, rewritten as methods over
  one loaded document. Neither main creates it, so its caller is an assumption:
  one thread that runs collect, check and send of a part in this order and calls
  `loadXml` between cycles.
* The Guardant check calls `GetLicenseInfoJson` of `AVLicensing`; nobody calls
  its other two methods. Each is a row of calls to the library of the dongle,
  which may be pulled or exchanged between any two of them. `ReadConfig` is
  called by nobody in the repository.

What is hard here: the caches are separate from the server, are updated at
different moments in different channels (before, after, or regardless of the
write), and `Write` returns nothing. Whether the nodes are right depends on the
order of five or six steps of a cycle, of the server going away, coming back or
restarting between any two of them, and of edits of `config.xml`.

## 2. Hazards

`PROJECT.json` lists the hazards of this code, each at its line, with the
properties that would notice it going wrong. In short:

* **Lost updates.** Cache and server part company when a batch is lost. Every
  model carries a history variable `missed`, the nodes whose last handover the
  server does not show; safety properties speak about nodes outside `missed`,
  liveness properties say how a node leaves it.
* **Order of caching and sending.** CPU and RAM cache after Write, whatever came
  of it; disks, RAID (first run) and processes cache before it; IP replaces the
  cache at detection and touches it up after sending; Guardant caches after a
  Write that followed a good CheckConnection.
* **Flags nobody set.** `allowed` of a process batch, `is_group_result` of a
  removed address, `key_inserted` of the Guardant differences are uninitialised
  `bool`s. Each is a nondeterministic choice in the model.
* **Two reads of one file**, hosts and dongles that change between two steps,
  threads that end before, during or after the poll.
* **Names that come and go**: groups, arrays and products taken out of
  `config.xml` and put back.
* **Numbers that do not fit**: 16-bit nodes for megabytes and bytes, counters
  that go back and differences that overflow, seconds left compared with the
  time of day.
* **Configurations edited behind a cache**: nodes, types and units of disks and
  memory are reread in every cycle, but only moved amounts are sent.
* **Rows of calls that stop in the middle**: an exception of `std::stoi` in a
  device's settings, a dongle gone after the login.

## 3. Modules

```
OpcUaClient (client, session, server)    Maps  IntNumbers    Publication
   | extended by                                     | refined by
   +--> CpuChannel DiskChannel RamChannel RaidChannel ---> MainTurn (one client)
   +--> ProcessChannel   IpChannel   GuardantChannel
   +--> AvDocument <- AvCpu AvDisks AvRam AvProcesses AvRaids AvIps <- AvDiagnostics
   +--> OpcReadWrite --+
   Mdstat  AVLicensing  AvDriverConfig --> Calls
IpChecker (the pings below IpChannel) --twice--> MainLoop (timers, Guardant)

OpcUaClientProofs --> MainTurnProofs    (CPU, disks, RAM, RAID: alone, and in a turn)
                  --> ProcessChannelProofs   IpChannelProofs
                  --> AvCallsProofs     (class AvDiagnostics; the four parts of Calls)
IpCheckerProofs -> MainLoopProofs       (the loop with both checkers; Guardant)
Publication -> PublicationProofs
```

* `OpcUaClient` - the client and its environment. Channels extend it and share
  its variables `serverUp`, `session`, `nodes`, `missed`.
* `CpuChannel`, `DiskChannel`, `RamChannel`, `ProcessChannel`, `RaidChannel`,
  `IpChannel`, `GuardantChannel` - one module per channel.
* `MainTurn` - the CPU, disk, RAM and RAID parts of a turn of the loop, one
  after the other over one client: what one Write does to the session the next
  channel meets.
* `Mdstat`, `IpChecker` - the two collectors that have a state machine of their
  own.
* `MainLoop` - the loop of main with its timers. It extends `IpChecker` (the
  global checker of collect_ip_states) and instantiates it once more for main's
  own; the channels before IP are one step in it.
* `AvDocument` - what the parts of class `AvDiagnostics` share: the document,
  the client, the caller. `AvCpu`, `AvDisks`, `AvRam`, `AvProcesses`, `AvRaids`
  and `AvIps` are its parts, `AvDiagnostics` puts them together.
* `OpcReadWrite`, `AVLicensing`, `AvDriverConfig` - the methods no channel
  uses, the licence queries, ReadConfig. With `Mdstat` they are the parts that
  keep nothing between two calls; `Calls` is a call of one of the four.
* `Publication` - the abstract specification of a channel: a cache, a server,
  and the keys missed; per step a key is kept, lost or delivered. The process,
  RAID, IP and Guardant channels are proved to implement it, RAID also in the
  turn, and so are four parts of class `AvDiagnostics`.
* `Maps` - `std::map` as partial functions. `IntNumbers` - the ends of an int:
  casts from a number out of range, subtractions that overflow.
* `MC*` - instances for TLC. `*Proofs` - theorems.

## 4. Correspondence with the code

Variables have the names of the code's globals, statics and locals that live
across steps. A `pc` says where in the cycle the thread is. A step ends where
another actor can make a difference: between two looks at the outside world
(files, /proc, the dongle, a call of the client). So the loop that fills a batch
is one step, CheckConnection and Write are two.

* **OpcUaClient.** `CheckConnection(ok)` is Connect with its answer;
  open62541 answers GOOD at once while it believes in its session. `Write(batch)`
  is one of: nothing to write (`items.empty()`), stored, lost (bad
  serviceResult, then Disconnect), stored but the reply was lost. Items of an
  unknown type or with `allowed` false are dropped; items for nodes outside
  `Accepted` are refused one by one, which the code does not notice. `Wire`
  models the union of `Value`: reading a member nobody stored gives `Garbage`,
  and 16-bit types keep 16 bits. `OthersCall` is what the rest of a turn does to
  the session as far as one channel can tell.
* **CpuChannel.** `ReadFirst`/`ReadSecond` are the two reads; line *i* of
  /proc/stat is the *i*-th CPU online, and lines that belong to different CPUs,
  or lie past the end of the second read, give any usage. A usage is a percent,
  or what the unsigned differences give when a counter went back: anything from
  zero down to the least int. `SurelyChanged` is detect_cpu_changes,
  `PerhapsChanged` its answer where `abs(last - usage)` is no int: the channel
  may then send or not. `Send` is send_cpu_metrics; the type is that of
  config.xml, and picks the union member.
* **DiskChannel, RamChannel.** Actions have the functions' names.
  `collect_disk_usage` and `collect_ram_usage` begin with load_disk_configs and
  load_ram_config: any edition of the section goes over what was loaded before,
  with its own nodes, types (`AmountMember`: STRING, INT, REAL or any other) and
  units. `handed_disks` and `handed_ram` are histories of the configurations of
  the last batch.
* **ProcessChannel.** `Build` is the loop of send_process_metrics, which fills
  both the batch and the cache, `Connected`/`NotConnected` its condition, `Send`
  the Write.
* **RaidChannel.** `collect_raid_states` gives every array a status, or one
  entry for the whole system when mdstat cannot be opened, or nothing before the
  configuration is loaded, which happens once. `detect_first_run` is the branch
  of `first_run`, `detect_raid_changes` the other one, with the arrays
  `removed`; `RaidsKept` is the early return when there is nothing to write. A
  percent is part of the status. `Mdstat` reads a file line by line; a line is
  what the regular expressions can tell of it. A header line runs on into the
  patterns for details, where a `_` in the name of a later device passes for a
  missing disk (`up` of `ArrayLines`).
* **IpChannel.** `Collect` combines the two reads of config.xml, which need not
  agree; what the addresses answer is any subset, which is what `IpChecker`
  delivers. `unhanded` is a history variable: groups the cache took back after
  a batch they were not part of.
* **IpChecker.** `Destroy` is one destructor in `async_checks.clear()`, which
  waits for its thread; `PingEnds` is a thread that ends.
* **MainLoop.** `at` is where the loop stands; each `TimePassed` is a step. The
  ages of the four timers grow with `Tick`, whatever the loop is doing; the
  second the CPU channel sleeps, once it has its configuration, is not counted
  on.
  `NotANumber` is the exception of `std::stoi`, which ends the program.
* **GuardantChannel.** The flag `guardant_check_running` lets at most one of
  check and handling be under way (`NoResultLost`, proved of `MainLoop`), so one
  `guard_pc` covers both threads; the dongle, its licences and config.xml change
  between any two steps.
* **MainTurn.** `turn` says whose part of the turn it is; a part ends when its
  channel's cycle is back at its first step. `sections` are the sections
  config.xml has.
* **Class AvDiagnostics.** `part` is the part looked at: the six share only the
  document and the client, and what the others do to those the part meets
  anyway. `loadXml` leaves any edition in `doc_`, or `NoRoot`, or `NoSection`,
  on which the methods read through a null pointer (`Crash`). Usages are
  those of `CpuChannel`. An amount goes out in the member its type picks
  (`AvAmountMember`), the units without a type. The RAM amounts are whatever the
  memory held, since the line of `free` is kept and never parsed; their
  difference wraps and is read as signed (`AvDistance`). `blind` is a history:
  the last cycle had no node to write to. Drives of the LSI controller are looked
  at in order and the first optimal one ends the search.
  `allowed` is unset in the batches of processes and IPs. `convertUnits` is
  declared and nowhere defined for the class; it is taken to be what
  `convert_units` of `main.cpp` is.
* **OpcReadWrite.** The single Write is `WriteOneGood`, with forms for a
  config that is ignored, whose value member nobody stored, or lost; a Read that
  takes a 16-bit value through a pointer to int brings the two bytes behind it
  along; `BOOL` has no branch, a `UA_String` read as `std::string` may end the
  program. A node of a 16-bit type holds 16-bit values, which is what the server
  lets clients write.
* **AVLicensing.** One action per call to the library; a feature reports its
  remaining seconds and runs from `Seconds` and `Runs`. `steady` and `carried`
  are histories of the dongle since the call began.
* **AvDriverConfig.** An address is the sequence of its pieces between dots, as
  `Split` and `std::stoi` tell them apart. A step handles one device, or one
  connection of its connection string; an exception leaves the caller's
  structures as they are at that point.

`PROJECT.json`'s `map` gives the lines of each definition.

## 5. Runs

| Run | Shows |
|---|---|
| `turn` | One client under four channels. CPUs: nodes outside `missed` show, as their type has it, a usage within the threshold of the last sample (`ShownIsCurrent`), with CPUs going off and on and counters going back, except where the difference of the two is no int; a missed node is made up for as soon as some usage moves (`MissedIsMadeUpFor`), because one CPU that moves sends them all. Disks: the two nodes of the last batch show the units of then and what the type of then makes of the amount in them (`AmountFitsUnits`), although nodes, types and units are reread every cycle and sent only with changed amounts. RAM: `RamShown`, the nodes of the last batch show what their type makes of an amount within a megabyte of `free`, and before the first batch no amount exceeds a megabyte; a node or type edited while the amounts stay waits for the next move. RAID: `RaidShown`, `HealthFitsStatus` (also with the server refusing a node of the pair), and the implementation of `Publication` (`RaidPublishes`). |
| `cpu_numbers` | **Violation.** Node *n* need not show CPU *n*: lines are counted, CPUs offline have none. |
| `process` | `GroupShown`: nodes outside `missed` say whether ps listed all members. The channel implements `Publication`. `MissedIsMadeUpFor`, as long as the unset flag reads true. |
| `process_silent` | **Violation.** A batch handed over while the server answers may reach nobody: `allowed` is not set. |
| `ip` | `GroupShown`, implementation of `Publication` and repair of missed nodes, with reads of config.xml that disagree and the unset flag reading either way. |
| `main_loop` | Neither checker ever has a status of an earlier cycle (`StatusesOfThisCycle`); an address has at most one thread per checker, and only if it failed (`ThreadsBounded`); no Guardant result is replaced before it is taken (`NoResultLost`); channels and checks go on although `clear()` blocks and the Guardant timer is spent while a check runs (`TurnsGoOn`, `ChecksGoOn`), unless an unreadable `send_interval` ends the program. |
| `guardant` | `LicenceShown`: while the dongle stays in, nodes end up right, except those missed or remembered without being handed over, and if the unset flag reads true. `GuardantPublishes`: the cache is wrong about no other product. |
| `guardant_removal` | **Violation.** When the dongle is pulled nothing is sent, and the node goes on showing the licence. |
| `av` | The parts of class `AvDiagnostics`: what its nodes show is what was collected last as far as the class looks (`AvCpuShown`, `AvAmountShown`, `AvRamShown`, `AvGroupShown`, `AvRaidShown`, `AvIpShown`), and four parts implement `Publication` (`AvPublishes`), with documents loaded, emptied and edited, counters that go back, and tools that cannot be started. |
| `calls` | Every file of four lines over three arrays is read as a declarative definition says (`StatesAreWhatIsSaid`). Read never makes a value up: the low 16 bits of a 16-bit result, and all of a wider one, were held by the node (`ResultsWereHeld`). No path of a licence query keeps a login or a buffer (`NothingLeft`), and the answer fits a dongle that stayed (`AnswerFits`). ReadConfig ends with the settings of the last device (`SettingsAreTheLast`) and the addresses of all devices added to those the caller had (`AddressesAreAll`). |
| `mdstat_inactive` | **Violation.** An array listed as `inactive` comes out healthy: the code looks for the substring `active`. |
| `licence_expired` | **Violation.** A feature with seconds left is called expired: they are compared with the seconds since 1970. |

Each property also has a mutant of the code that breaks it under the same run
(`PROJECT.json`, `mutants`); the mutated forms stand beside the definitions,
marked "mutant".

Besides the five violations the runs make precise what the code's design does
*not* give: without a later change of the same channel a lost value is never
sent again (`missed` is left only by another handover), and a restarted server
stays empty until values move.

## 6. Bounds

| Run | Bound | Enough because |
|---|---|---|
| `turn` | five sets of sections: each of the four alone, and disks and RAM in turn. 2 CPUs of type INT, usages 0, -1 and the least int; 1 disk that moves from a REAL node in bytes to an INT node in pairs, amounts 65536 and 65537; 2 memory fields, 3 readings, editions that change a type, take a node away and bring one late; 2 arrays, 3 statuses, one node refused | two CPUs tell the moved from the unmoved; 0 and -1 are within the threshold, -1 and the least int beyond it, and the difference of 0 and the least int is no int; 32768 and 32769 pairs are cut by an INT, and one of the two amounts is rounded; zero, the threshold and past the top of 16 bits; one array changes without the other. In the pair (`MCPair`, a state constraint) disks and memory stay within the REAL editions. All four sections at once multiply the states and add only closed sessions, which each part meets from `OthersCall` too; the proofs cover any sizes |
| `process` | 2 processes, 2 AND groups (sharing one) and a group of other logic | all, some and none of the members; one group changes while the other does not |
| `ip` | 2 addresses, an AND and an OR group; 3 forms of the file per read | the file may lose a group, an address or everything, per read |
| `main_loop` | 1 host; a list that repeats it, one that does not, and an empty one; `send_interval` 0 or 1, other intervals 1 and 2 | the host leaves and enters the list, slow, fast or down, with a ping of it still running in the other checker; timers that pass in every pass and timers that do not. The checkers share nothing but the hosts, and what is claimed of their statuses and threads is proved for any hosts and lists. |
| `guardant` | 2 products, one licensable; files without one, or unreadable | a product that moves beside one that does not |
| `av` | one part at a time: CPU 0 as INT or DINT or with a REAL CPU 1, usages 0, -1 and the least int; a disk as REAL in bytes, or on another node as INT in pairs of bytes, amounts 0, 65536 and 65537; 2 fields that come and go, change their type or lose their node, amounts of a word of 2^17, among them two that are one apart when the difference wraps; 2 groups sharing a process; an array of each tool and one of none, 2 drives; 2 groups sharing a host | two editions of each section, so that every name may come and go; two of a kind wherever one may be written without the other; both sides of every cut to 16 bits and of every difference that wraps; every outcome of a tool |
| `calls` | 4 lines, 2 configured arrays and a foreign one; 2 nodes of 4 types that hold 0, 65535 and, where the type allows it, 65536; a feature without limit, with one at its end and with time left (0, 1 and 999 seconds, 0 and 1 runs); 2 devices, 5 sets of numbers at both ends of their ranges, 6 lists of addresses | two sections with a detail each, or one with something between it and a stray detail; a second device over what the first one left; every kind of piece an address may have, before and behind a good address |

No counter needed a cap, except the number of lines (`MaxLines`); the only state
constraint is `MCPair`, in `turn`. Data are
sets of a few values; behaviours are unbounded.

## 7. Fairness

Safety runs need none, and `calls` and `av` assume none. `process`, `ip` and
`guardant` assume weak fairness of the monitor's own steps (`WF_vars(Cycle)`,
`WF_vars(Monitor)`), `turn` of those of a turn (`WF_turnVars(Turn)`): `while
(true)` has no exit, sleeps and calls with timeouts end. For `guardant` this includes the timer: the
minute passes. `main_loop` assumes it of the loop's steps, of the pings of each checker
(`ping -c 1 -W 1` ends by itself), of the end of a Guardant check and of the clock; that
`std::stoi` throws is possible and never assumed. Nothing is assumed of the server, the dongle, the hosts or the
kernel; where a liveness property needs the server to stay up or values to keep
moving, it says so as a premise.

## 8. Proofs

Proved by TLAPS for every value of the constants that meets the assumptions named
in the modules, all of which TLC evaluates on the instances:

* every edition of a configuration gives a disk or a memory field one of the
  nodes set aside for it, or none (`DiskAssumption`, `RamAssumption`,
  `AvDiskEditions`, `AvRamEditions`), and the empty id is no node
  (`NodeIdsAssumption`);
* nodes of a channel are pairwise different and nodes of the server
  (`CpuAssumption`, `DiskAssumption`, `RamAssumption`, `RaidAssumption`, those of
  the `Av` modules), an address is no node id (`IpAssumption`), and the four
  channels of a turn have no node in common (`NodesAssumption`): config.xml gives
  each value a node of its own;
* usages are ints of at most 100, and nothing is assumed of the types config.xml
  gives CPUs, disks and memory: what a node shows is what its type makes of the
  value (`Wire`, `Garbage` where the code stores another member of the union).
  The types of the other nodes are those whose member the channel stores;
  `NoValue` (a node that holds nothing) is none of the values a node can hold,
  `removed` is no status of mdstat and `Optimal` none of the other statuses of
  the RAID tools;
* no node of a CPU, a group or a status in class `AvDiagnostics` is also one of a
  disk, of the memory or of a health (`AvKeysAssumption`), for the same reason;
* a checker may be given the empty list of addresses (`ListsAssumption`: what a
  file that cannot be read amounts to), of the values `send_interval` can have one
  is the greatest (`IntervalsAssumption`: they are ints);
* a node of a 16-bit type holds 16-bit values, the remaining seconds of a feature
  are fewer than have passed since 1970 (`AVLicensingAssumption`), an attribute
  that is absent is no number.

The theorems of a channel are about the channel with its environment: the server,
the kernel, and other users of the client, who may do anything to the session
(`OthersCall`) but write no node of the channel. In `MainTurnProofs` the other
users are the other channels, and that they write none of its nodes is proved.

* `OpcUaClientProofs`: what a caller of Write may rely on. `WriteHands`: a node
  handed over and not missed holds the wire form of its config. `WriteKeeps`:
  other nodes are left alone. `WriteOutcome`, `WriteRefused`: a node of a batch
  holds its value, or the old one and is missed. `ServerStepKeeps`: the server
  on its own changes only nodes that become missed. And the laws of `Maps`.
* `MainTurnProofs`, the four channels of `MainTurn`, first each alone:
  * CPU, `CpuTypeCorrect` and `CpuShown`. `ShownIsCurrent` is not inductive: it
    says nothing while a cycle is under way. The invariant `CpuInv` adds
    `CacheIsShown` (a node not missed shows what the cache says) and
    `CacheIsCurrent` (between cycles the cache is within the threshold of the
    sample, or their difference is no int). The cache is compared before it goes
    over the wire, so the proof asks nothing of the type.
  * Disks, `DiskTypeCorrect` and `DiskAmountFits`. The cache does not say with
    which configuration its amounts were sent and `disk_configs` holds the one of
    the last reading, so `DiskCacheIsShown` speaks of `handed_disks`;
    `HandedIsCached` ties the two together, and `DisksWaitToBeSent` covers the disks
    that are in the cache before their batch is written.
  * RAM, `RamTypeCorrect` and `RamMemoryShown`. `RamCacheIsShown`: the nodes of the
    last batch show the cached amounts in the types they had then.
    `RamCacheAtStart`: before the first batch the cache is all zeros, which is why
    a first amount of up to a megabyte is not sent. `RamCacheIsCurrent`: a cycle
    that has a node leaves no amount more than a megabyte from the cache.
  * RAID, `RaidTypeCorrect`, `RaidStatusShown` and `RaidHealthFits`. The first run
    caches before it sends and later ones while they send: `RaidsWaitToBeSent`
    covers the arrays for which the cache is ahead of the server,
    `NothingCachedYet` the time before the first run.

  Then together, `TurnTypeCorrect`, `TurnShows` and `TurnImplementsPublication`:
  the invariant `TurnInv` is the conjunction of the four and of `OneAtATime` (a
  channel whose turn it is not stands at its first step). A step of one channel
  `Spares` the nodes that are not its own, and each invariant survives any step
  that spares its nodes (`CpuWaits`, `DiskWaits`, `RamWaits`, `RaidWaits`). So
  nothing of the four proofs is done twice, and a write of one channel that
  closes the session is to the others no more than what `OthersCall` allowed.
* `ProcessChannelProofs`: `ProcTypeCorrect`, `ProcGroupShown`. Here the cache is
  written before the batch, so `CacheIsShown` leaves out the nodes of the batch
  under way, and `BatchIsCached` says the batch carries what the cache says.
  The proof holds for whatever the unset flag reads.
* `IpChannelProofs`: `IpTypeCorrect`, `IpGroupShown`. The cache is replaced at
  detection, so it is right about groups that were neither missed nor taken
  back `unhanded`; `ChangesWait` covers the batch under way, `FlagsAreGroups`
  keeps the half-filled states of removed addresses apart from groups' nodes.
* `IpCheckerProofs`: the inductive invariant of one checker, `CheckerInv`.
  `PingedBefore` says what the loop of blocking pings has established up to the
  address it is at, whether or not the list repeats it; `OneCheckPerAddress`
  that no two entries of `async_checks` are of one address; and from the launch
  on the addresses being checked are those that failed.
* `MainLoopProofs`: `LoopTypeCorrect`, `LoopStatuses`, `LoopThreads`. The loop has
  two checkers, and `CheckerInv` is used for both, of main's own by `INSTANCE` of
  the proofs with the constants and variables of the other. `CheckersRest` says
  that neither is at work but where the loop calls it. `LoopKeepsResults` proves
  the action property `NoResultLost` from `OneFuture`: the flag
  `guardant_check_running` is up exactly while there is a future. Then the
  Guardant check: `GuardantTypeCorrect`, from `GuardInv`, which ties what is
  remembered, found and to be handed over to each other at each step.
* `AvCallsProofs`, class `AvDiagnostics`: `AvTypeCorrect`, `AvCpuCorrect`,
  `AvAmountCorrect`, `AvRamCorrect`, `AvGroupCorrect`, `AvRaidCorrect`,
  `AvIpCorrect`. `AvInv` has one invariant for each part (`CpuHolds`, `DisksHold`,
  `RamHolds`, `ProcessesHold`, `RaidsHold`, `IpsHold`) and says that the parts not
  looked at are as they began. Each part's invariant says what the cache knows of
  the nodes (`CpuCached` and its likes: a node not missed shows the wire form of
  what is cached), how far the collected data is from the cache between two
  cycles (`CpuNear`, `RamNear`, `GroupCurrent`, ...), and what the batch under way
  carries.
* `AvCallsProofs`, the parts of `Calls`: `CallsTypeCorrect`; `MdstatCorrect` for
  files of any length: `Stated` gives for each configured array its last header
  among the lines read so far, whether its section is still open, and which line
  last said something of it. So the induction over the lines *is* the induction
  over the steps, and no recursive definition is needed. `ReadCorrect`,
  `LicenceReleased` and `LicenceAnswers` (what the tests passed so far have
  established of a dongle that stayed), and `SettingsCorrect`, where
  `WithinInRange`, `NumberFits` and `MissingFits` show that a default or a number
  brought into its range fits the declared one. `AddressesCorrect` counts: the
  address of a connection stands as far behind the caller's own as there are
  connections with an address up to it (`UpTo`); a step adds at most one place, and
  that one comes behind all others (`ConnectionPlaces`, `AddressAdded`), so no
  rank changes and the last one is the new length.
* **Refinement**: `ProcImplementsPublication`, `RaidImplementsPublication`,
  `TurnImplementsPublication`, `IpImplementsPublication`,
  `GuardantImplementsPublication`, `AvImplementsPublication`. The mapping reads the cache by node and counts
  the batch under way as missed, and for Guardant also a product that is
  remembered without having been handed over. The invariants add to the channel's
  own that nodes hold values of `Publication`. For the class `AvRefInv` adds to
  `AvInv` also that only the parts of the groups keep a batch (`BatchOfGroups`);
  each part has a lemma saying that a step of it publishes (`CpuPublishes`,
  `ProcessesPublish`, `RaidsPublish`, ...), the two parts that keep other books
  that they write no key, and `AnyPublishes` is about the server on its own.
* `PublicationProofs`: `CacheIsHonest`, which by the refinements carries over to
  the channels that implement `Publication`.

What the proofs brought to light of the model: `RamShown` cannot speak of the
configuration as it is now, but only of that of the last batch; `LoopTypeOK` needs the empty list
among `Lists`, since `ips` begins empty; that `Read` of a 16-bit node returns what
the node held needs that no wider value got into it; that connections are walked
only for a Modbus device had to be part of the invariant of ReadConfig. Class
`AvDiagnostics` keeps addresses and groups in one map, so that it implements
`Publication` only as long as no address of config.xml goes by the name of a
node. Where a fold stood for a loop (the poll of `IpChecker`, the connections in ReadConfig) the
loop is now one of steps or a set, and the order of the addresses is stated by
ranks.

## 9. Only model-checked

* Liveness, which is beyond the prover: `MissedIsMadeUpFor` of the three channels,
  `TurnsGoOn`, `ChecksGoOn`, `LicenceShown`.
* The five violations, which are about one behaviour each.

## 10. Not modelled

* Third-party code (tinyxml2, nlohmann, open62541, the Guardant API): what the
  monitor uses of it is modelled as its environment. It is by far the larger
  part of the lines of the repository.
* The copy of the main loop in `main.cpp`, which refers to names that are not
  declared there; the one in `main_old.cpp` is modelled.
* Functions that change nothing and decide nothing: `getOpcAddress`, `checkXml`,
  `Log`, the tables of file system names; `Stop` of the client, whose flag
  nobody reads.
* The counters of /proc/stat themselves: a usage is any int they may give. The
  rounding of amounts above 2^24 to a `float`, and the digits `precision` keeps of
  a REAL. Texts and formats; the strings ReadConfig reads of a variable and drops.
* An element of config.xml without its `node` or `type` where the code takes the
  attribute for granted (TotalRAM and its likes, RAID): constructing a string from
  a null pointer ends the program.
* Edits that give a CPU or an array of the class another node, or an array another
  type, while its name stays: elements come and go, and the types of CPUs change,
  but `AvCpuNode`, `AvStatusNode`, `AvHealthNode` and `AvHealthType` are constants.
  A group goes by its node. In `main.cpp` both sections are loaded once.

Components and reasons are listed in `PROJECT.json`.

## 11. Plan

Order of construction, most important behaviour first.

1. `OpcUaClient`, `CpuChannel`: the publication pattern; theorems for both. Done.
2. `ProcessChannel`, `Publication` as its abstract specification; theorems. Done.
3. `IpChannel` and `IpChecker`; theorems for the first. Done.
4. `RaidChannel` and `Mdstat`; theorems for the first. Done.
5. `DiskChannel`, `RamChannel`; theorems. Done.
6. `GuardantChannel` with the part of the loop that runs it. Done.
7. `PublicationProofs`, and that four channels implement it. Done.
8. `MainLoop`: timers, both checkers, the Guardant check beside a turn; theorems
   about the checkers and the future. Done.
9. `MainTurn`, the channels over one client; theorems. Done.
10. Class `AvDiagnostics`; theorems for its six parts. Done.
11. The parts without state: `OpcReadWrite`, `AVLicensing`, `AvDriverConfig`, with
    `Mdstat`; theorems. Done.
12. That four parts of class `AvDiagnostics` implement `Publication`; theorem.
    Done. What is left to the model checker is what section 9 lists.
