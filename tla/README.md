# cdptools: verification in TLA+

cdptools is a Linux kernel module for the Cisco Discovery Protocol (CDP). It
receives the frames of neighbouring devices, remembers each neighbour for the
time it asked for, shows them under `/proc/net/cdp` and announces the host on
its own interfaces. These modules model that code, TLC checks them on small
instances, and TLAPS proves the main results for every instance.

## The system

| Part | State it keeps | Operations | Who calls it |
|---|---|---|---|
| Neighbour list, `libcdp/cdp_neighbor.c` | doubly linked list (head, tail, count) of entries: interface, MAC address, time, frame buffer | look up or create, refresh, append, remove, take first, purge, empty, free | frame reception, timer, `/proc` readers, unloading |
| Frame reception, `module/cdp_receive.c` | none | records one frame under the write lock | the SNAP layer, in a softirq |
| Timer, loading, unloading, `module/cdp_module.c` | the lock of the list, the timer, the SNAP handle, the time of the last transmission, the strings | purge and transmit every second; build up and tear down | the timer softirq; insmod and rmmod |
| `/proc` readers, `module/cdp_proc*.c` | the saved interrupt flags; the place of a reader in the list | start, next, show, stop | processes, through `seq_file` |
| Transmission, `module/cdp_transmit.c` | none that lasts | one packet per Ethernet device with a carrier | the timer |
| Stream reader and buffer, `libcdp/stream_reader.c` | position and length in a buffer | bounded reads, sub-buffers, checksum | packet parser |
| Packet parser, `libcdp/cdp_packet_parser.c` | the packet being built | one loop over type/length/value records | `/proc` readers, tests |
| Stream writer, packet builder, `libcdp/stream_writer.c`, `libcdp/cdp_packet.c` | position in a buffer; the packet's fields | bounded writes, checksum; setters that own copies | transmission, tests |
| Address and prefix arrays, `libcdp/ip_*_array.c` | arrays of fixed size | new, set, get, delete | packet, transmission |
| `/proc` contents, `module/cdp_proc_json.c`, `cdp_proc_print_sockaddr.c` | none | print an entry, a string, an address into the buffer of a `seq_file` | `/proc` readers |
| Version strings, `libcdp/cdp_software_version_string_*.c` | none | measure, allocate and copy two strings | loading |
| `cdptools/main.c` | none | prints a sample packet | a user |

**What is hard about it.** Frames and the timer run in softirqs on any CPU,
readers are processes that can be suspended by them, and unloading frees what
all of them use. The list is pointers that four operations rewrite and that a
purge removes from while it walks. Allocation may fail anywhere and most
callers go on. The time of a purge is read before the lock is taken, and is the
time of day, which may be set. A reader that dies with the lock, or parses with
it a frame that has no end, and a transmission that keeps the lock of the device
list, stop all the others. The host's name may change while it is copied. The
codec works on lengths a frame states about itself, and what is printed goes into
a buffer that may be full at any byte. `PROJECT.json` lists these
hazards one by one, with the line and the properties that watch it.

**What makes each part correct.** The list: a table with one entry per neighbour,
from which an entry leaves when its time is over and for no other reason, with links
that always agree. The module: one user of the list at a time, no CPU that spins on
a lock it holds itself, nobody left inside when the list is freed. A reader of
`/proc`: sees entries that exist, each at most once, even across batches.
Transmission: every device served, every lock and buffer given back. The codec:
never outside the buffer, ends on every input, states true lengths, keeps no memory,
and agrees with itself on the checksum. Loading: whatever fails, everything is given
back, users before what they use. The files of `/proc`: whole strings, commas and
brackets in their places, addresses that can be read back.

## The modules

* **NeighborTable** is the abstract specification: a set of entries, each an
  identity, the time it was last heard and its hold time. `Hear`, `Expire` and,
  once closed, `Drop`. No list, no pointers, no memory.
* **NeighborList** is `cdp_neighbor.c` as the kernel module drives it. A struct
  is an element of `Neighbors`; `next`, `prev`, `ident`, `receivedAt` and
  `frame` are its fields, `head`, `tail` and `count` those of the list.
  Receiving a frame is `BeginReceive`, then one `LookupNext` per entry passed,
  then `LookupHit`, `Create`, `CreatePartial` or `CreateNoMemory`; the timer is
  `TimerFires` (the clock is read), `BeginPurge` (the lock is held), one
  `PurgeKeep` or `PurgeExpired` per entry, `EndPurge`; unloading is
  `BeginClean`, one `CleanStep` per entry, `DeleteList`. A frame is its length
  and its hold time byte; a frame buffer is whether it is there, its size, the
  length used and the hold time byte in it. Every allocation may fail. Every
  branch that logs a corruption sets `integrity`.
  `cdp_neighbor_list_take_by_identity`, which nothing calls, is left out.
* **CdpModule** extends it with the kernel around it: CPUs with a softirq each,
  the reader-writer lock, processes in the middle of a read of a file, the
  timer, and the stages of `cdp_module_init` and `cdp_module_exit` in `phase`.
  The operations on the list are those of NeighborList, performed by whoever's
  turn it is; here the lock, and not `op`, decides that. A reader may stop there
  with the lock: it dies where it stores the state of the interrupts in memory it
  did not get (`SeqLockedDies`, `cdp_proc.c:30`), or parses a stored frame whose
  TLV states a length of zero (`ShowNeverEnds`, `cdp_proc_json.c:423`).
  `dev_base_lock` is kept for what the timer and the loader wait for: `devChange`
  is somebody who waits for it or holds it to change the devices, `devLeaked` that
  a failed transmission left it held. A reader of that lock waits behind a writer
  that waits, unless it is a softirq: so the loader does (`DevicesFree`), and the
  timer only for one that holds it. The kernel's side
  (when a softirq may start, what `unregister_snap_client` and
  `remove_proc_entry` wait for) is modelled from how the module uses it and
  marked external in the map.
* **ProcReader** extends NeighborList with one process that reads
  `/proc/net/cdp/json`. `StartBatch` is `cdp_seq_start`: it takes the
  lock and looks its index up with `GetByIndex`; `ShowFirst`, `ShowNext` and
  `EndBatch` are one round of `seq_file`; between two batches the list takes any
  of its steps. `doc` is what the process was given: entries, and the brackets
  `cdp_seq_json_show` prints around head and tail. `StartBatchDies` is the process
  that dies with the lock, after which the list never changes again. `seq_file`
  itself is external.
* **Transmit** is `cdp_transmit.c`: the walk over the devices, and for each
  packet the stages `collect`, `fill`, `build` and `send`, each of which may
  fail. `skb` says what became of each device's buffer, `readers` how often
  `dev_base_lock` is held, `slots` and `filled` are the array of addresses.
* **PacketParser** is `cdp_parse_packet` with the stream reader below it. What a
  frame contains is a choice at each read: a type of TLV, a stated length, a
  number of addresses, whether bytes make sense. `pos` is the reader's position,
  `fields` and `arrays` are what the packet owns, and `live` counts the blocks
  the code has allocated and not freed, one by one, so that it can be compared
  with what deleting the packet would free. Actions come in pairs, such as
  `StringValue` and `StringFails`, where error paths differ in what they free.
* **PacketWriter** extends Transmit and replaces its `Build` by what it stands
  for: `cdp_create_packet` fills a packet (`NewPacket`, `SetField`,
  `ProvisionArray`, `CopySlot`), and `cdp_packet_serialize` writes it
  (`StartWriting`, `WriteTlv`, `WriteItem`, `EndWriting`), with the way out of
  each step when memory or room is short. `live` and `copies` are the blocks in
  memory, `pos` is the writer's position and `wire` where each TLV begins and
  what length it states. Transmit is its abstract specification.
* **Checksum** is `ip_compute_csum` with the writer that injects it and the
  reader that validates it, over bytes of any base; a byte may change between.
* **AddressPrinter** is `seq_print_sockaddr` for IPv6: both nested loops of the
  search for the longest run of zeros, step by step, and what is then printed.
* **JsonEscape** is `json_string_out` and `json_escape`: one string put into the
  buffer of a `seq_file`, and shown again into a larger one if that was full.
* **JsonEntry** is the layout of an entry in the JSON file: each member in its
  turn, present or not, as the tokens that are printed.
* **WallClock** is what the timer makes of the time of day: when it transmits and
  when an entry expires, with `SetClock` at any moment, a product that wraps and a
  difference that is cut to an int. The entry has others in front of it (`ahead`):
  `PurgeEndsAhead` is a purge that removes the head and ends there,
  `PurgeGetsThere` one that comes to the entry. Any number of seconds up to
  `MaxDelay`, also none, lies between two events, and `SetClock` and `SecondPasses`
  may come at any time.
* **VersionStrings** makes the two strings by their lengths, while `SetNames`
  changes host and domain name between any two steps. **ModuleLoad** extends it
  with all that `cdp_module_init` obtains, each of its ways out, and
  `cdp_module_exit`: `held` counts what is held, `giving` is what is given back.
* **Units** puts the last six together: they share no variable, a behaviour is
  one of one of them, and the others stay where they are. The **MC** modules give
  the constants of their component their values.
* **NeighborListProofs**, **CdpModuleProofs** and **ProcReaderProofs** hold the
  theorems of their component; **PacketWriterProofs** those of Transmit and
  PacketWriter, **PacketParserProofs** of PacketParser, **ProcContentsProofs** of
  AddressPrinter, JsonEscape and JsonEntry, and **UnitsProofs** of Checksum,
  WallClock, VersionStrings, ModuleLoad and Units. **Induction** has
  the lemmas on natural numbers and finite sets that they share.

Operators named `Mut...` are mistakes the definition below them could have
contained. No specification uses them: `PROJECT.json` names, for every
property, the mistake that TLC finds with it.

## What the runs check

| Run | Instance | What it shows |
|---|---|---|
| `list_safety` | 3 structs, 3 identities, 3 frames, time 0..2 | `ListInv`, unique identities, only expired entries leave, NeighborList implements NeighborTable, the hold time is that of the last frame |
| `list_liveness` | 3 structs, 3 identities, 1 frame, time 0..1, fair | expired entries go; unloading ends |
| `module_safety` | 2 CPUs, 1 reader, 2 structs, 2 identities, frames that never end, time 0..1 | locking, teardown order, the timer |
| `module_liveness` | 2 CPUs, 1 reader, 1 struct, a plain and an endless frame, fair | an unload gets to emptying the list unless a lock was lost in one of three ways |
| `reader_safety` | 4 structs, 2 identities, time 0..1 | across batches no entry is shown twice and the document opens once; within one, the closing bracket goes with the tail, and index and entry agree |
| `writer_safety` | 3 devices, 2 of them Ethernet, up to 2 addresses, 2 rounds, a buffer of 82 bytes | packet buffers, slots and the packet's memory on every error path, room and lengths; success means that all were served; PacketWriter implements Transmit |
| `parser_safety` | frames of 3, 10 and 41 bytes, 8 types of TLV, stated lengths 0, 4, 10, 60, up to 2 addresses, fair | bounds, memory, whole arrays and termination of the parser |
| `units` | see below | the six parts of Units |
| `list_leak`, `module_lock`, `reader_index`, `transmit_lock` | small | the four findings below |

**Bounds.** Three structs give a list with a head, a middle and a tail, so that each
branch of append, remove and take-first occurs, as does a purge that removes a
neighbour of an entry it has just removed; two more identities than entries is never
needed to look one up in vain, because memory may be short. `MaxTime` 2 lets an
entry be heard, kept, and expire (an entry expires a second early). `ShortFrames`
has a frame with a hold time, one that is too short to have one but may be copied
into a buffer that still has the last frame's, and one without a payload; a buffer
too short for its hold time to be read behaves as if the frame had none, and the
theorems hold for all of them. The structs are never given back (a finding), so
`Neighbors` bounds how many entries are ever made. In CdpModule two CPUs suffice for
every pair of users, since the lock serialises the users of the list and a third
would wait, and one reader to lose the lock, since nobody gets it after that but
other readers; one frame that can be parsed and one that cannot suffice, since where
a parse ends otherwise the lock is given back. In `module_safety` every frame is an
endless one: a reader need not come to the end of a parse to give the lock back, as
it may have shown another entry. `TransmitInterval` is 1 rather than 5 so that both
outcomes of its test occur within the time bound. ProcReader needs four structs,
since its reader gets past the first entry only when the counter is 2, which takes a
list that was emptied and filled again. In PacketWriter one device is not an
Ethernet one and comes first, as the loopback device does, and the second round
starts with whatever the first left behind; 82 bytes hold a packet with one address
of each kind but not one with two IPv6 addresses, and the longer string fits in no
TLV and would state a length that was cut. The frames of PacketParser are shorter
than a header, end within the header of a TLV, or hold the longest value; the stated
lengths are zero, an empty value, one prefix and a byte, and more than the frame; of
each kind of TLV that the code treats alike one type occurs, of the scalars the
VLAN, whose setter may refuse. In `units` frames have up to seven bytes of four
values (Base 4: sums carry twice, lengths are odd and even); addresses have eight
hextets of three values, so runs of zeros of every length in every place; strings
are all those of up to four of seven characters, after 0 to 3 bytes, into a buffer
of 4 that doubles; arrays have up to two items and every optional member may be
missing; the clock runs to 10 with an interval of 3, seconds times 4 and numbers
modulo 32, so that the product wraps, at most two seconds passing between events; an
int goes from -8 to 7, so that differences wrap both ways, and up to two entries are
in front of the one that is followed, so that both may be what a purge ends with;
names have up to two characters and are set twice. Symmetry is used only in runs
without liveness properties. `CHECK_DEADLOCK FALSE`: an unloaded module stops, a
process that reads may die with the lock and the list then stops, the rounds of
Transmit are bounded, and a parse, a string or a frame is over at its end.

**Fairness.** A softirq and a process that holds the lock run to their end: WF
or SF of their steps. The timer is armed again by each of its handlers, hence WF
of `TimerFires`, and SF in CdpModule, where a softirq has to find a CPU. The
kernel's reader-writer locks are queued ones, so whoever
waits for one gets it however many others come: SF of the steps that take it.
Processes get a CPU again and again, since softirqs under load are handed to a
thread: SF of the steps of readers and of unloading. Who changes the devices does
so and gives the lock back: WF of `DeviceChange` once begun. Who comes to
`dev_base_lock` after the loader is served after it, hence the guard of
`DeviceChangeBegins`. None of this says that a reader gives the lock back: SF of
`ReadWork` is satisfied when the reader dies (`SeqLockedDies`), and one in the
middle of a parse without end has no step that fairness could ask for. In
NeighborList alone, where `op` stands for the lock and readers are left out, SF of
`BeginPurge` takes readers that do give it back; `ExpiredLeave` is to be read so.
No frame has to arrive, no process has to read, the clock need not advance, no
device has to change and nobody has to unload. The
parser is a sequential function: WF of its next step. So is what shows a string,
and the kernel shows an entry again until it fits: WF of `StringPart`.

**Findings.** (1) `cdp_neighbor_delete` never frees the struct
(`cdp_neighbor.c:47`), so that those of all entries outlive the list. (2)
`del_timer` does not wait for a handler that is running, which then uses the list
while it is freed without the lock (`cdp_module.c:227` on unloading, `:207` when the
SNAP handler could not be registered). (3) An index is taken to be past the end by a
counter that is not the number of entries: appending to a list that is not empty and
removing an item leave it, so `/proc` readers that resume by index miss entries
(`cdp_neighbor.c:431`, `:608`); `CountCoversHead` shows how much of the counter can
be relied on. (4) A device that cannot be served, if only for want of an address,
ends the round and leaves `dev_base_lock` held for reading (`cdp_transmit.c:174`).

More was met on the way that no run is about. A purge ends with the first
head it removes (`cdp_neighbor.c:706`), while the header says that it purges the
expired neighbours; `ExpiredLeave` shows that later timers finish the work. The
parser loses its packet on five kinds of failure (`LostOnlyBy` names them and
shows there is no other). A TLV that states a length of zero is read again
without end (`ParseEnds` shows that nothing else keeps the parser going).

* Readers of `/proc` parse the stored frames under the read lock with interrupts off
  (`cdp_proc_json.c:423`), so one frame with such a TLV and one read keep the lock
  for ever. So does a reader for which there was no memory: the state of the
  interrupts is stored where an allocation that nobody checks said
  (`cdp_proc.c:30`, `:33`). From then on no frame is recorded, no entry expires
  and the module is never unloaded (`LostReaderStopsAll`).
* The loader reads the list of devices under `dev_base_lock` (`cdp_module.c:79`,
  `:111`). When the timer has left that held (finding (4)) and somebody waits to
  change the devices, unloading waits behind. `UnloadDrains` shows that these are
  the only ways in which an unload gets stuck before it empties the list.
* `rc` is read without having been set when a device with a carrier is not an
  Ethernet one (`cdp_transmit.c:171`): `OtherDevice` lets the round go on or give up.

* The packet builder is told the length of the whole socket buffer, of which
  headroom was reserved before (`cdp_transmit.c:114`, `:131`): `NeverPastRoom`
  holds for the length it is told, which is more than there is.
* The addresses collected for a packet are not freed with their array
  (`cdp_transmit.c:134`), although `ip_address_array.h:23` leaves them to the
  caller; in Transmit `addresses` only grows.
* The closing bracket of the JSON file is printed with the entry that is the tail
  when it is shown (`cdp_proc_json.c:464`): if entries come or go between two
  batches, it may stand before the end, or not at all. Within a batch it ends what
  is given (`BracketsPlaced`).
* A backslash is put into a string as it is (`cdp_proc_json.c:55`); `StringKept`
  is about the strings without one. Hexadecimal numbers and addresses are printed
  without quotes (`:122`, `:360`, `:363`), the object of capabilities has a comma
  after its last member only, and ends with the bracket of an array (`:282`,
  `:310`): `SeparatedRight` takes the former for values and leaves the latter out.
* An IPv6 address that begins or ends with its longest run of zeros gets a single
  colon there (`cdp_proc_print_sockaddr.c:67`): `InnerRunsDenote` is about the
  others.
* Names that grow while the device id is made outgrow its room
  (`cdp_software_version_string_linux.c:102`); `StringsHold` says by how much.

## What is proved

**The list**, in NeighborListProofs: for any sets of structs and identities,
any frames with a hold time of one byte and any bound on the clock; only the
three named assumptions of NeighborList are used.

* `TypeCorrect`: `TypeOK`, by one case per action.
* `ListCorrect`: `ListInv`. `NoCorruption` is not inductive: that remove never
  meets a stale neighbour needs the links to agree (`Linked`), the loop variable
  to be in the list (`Turns`), and unused structs to have no links and not to be
  listed (`NoDanglingEntry`, `Accounts`). What each operation does to the links
  is a lemma of its own (`AppendEffect`, `RemoveEffect`, `TakeFirstEffect`),
  and the step is one case per action. `NeverCorrupt` and `NeverDangling` follow.
* `OnlyExpiredEverLeave`: in a step that unlists an entry while the module is
  loaded, the action is `PurgeExpired`, and `stamp <= clock` (`Turns`) carries
  expiry at the timer's time over to the present.
* `NeverInherited`: `HoldIsOfFrame`. The step is `LookupHit`, and whatever buffer
  was there, `StoredFrame` says that afterwards it is missing or holds this frame;
  `TypeOK` is all that this needs.
* `AlwaysUnique`: a lookup that found nothing has compared every entry. This
  needs the order in which the list is walked, and reachability is recursive, so
  the proof carries a numbering of the entries: `Ordered(pos)` says that `next`
  leads to the next higher number, `Searched(pos)` that the entries numbered
  below the loop variable do not match. Each step keeps some numbering
  (`OrderStep`); append gives the new entry a number above the tail's.
* `ListImplementsTable`: with `ListInv` and `UniqueIdentity`, each step of the
  list is a step of the table or none. An entry of the table stands for one
  struct, so removing or refreshing the struct removes or replaces one entry.

**The module**, in CdpModuleProofs: for any number of CPUs, of processes and of
entries, from the assumptions of CdpModule and NeighborList.

* `UsersGone`, `NobodySpins` and `TimerGoesOn`: `UsersGoneBeforeClean`,
  `NoSpinOverHolder` and `TimerAlive`. In `KernelInv`, `FramesGone` and `FilesGone`
  say what each stage of unloading has waited for, and `OwnCpu` that a process at
  the lock has a CPU to itself, whose interrupts are off: hence no softirq can wait
  there for the lock it holds.
* `LockHeldByOne`: `LockExcludes`, the lock from the side of those who use it. One
  softirq at most is past taking it for writing; then no process reads, and the
  operation on the list is the one the holder took it for.
  `OnlyTheTimerMeetsUnloading` follows with `UsersGone`: whoever still uses the
  list while it is freed is the handler of the timer, which is finding (2); there
  is no second one of its kind.
* `ModuleTypeCorrect`: `ModuleTypeOK`, by one case per action. Since the list is
  also used without the lock once it is being freed, the type of NeighborList is
  carried through steps that interleave its operations, which takes `TimerInv`: one
  CPU at most runs the timer's handler, and has read the clock when it purges.
* `LockSerialises`: `ListStepsWhileLoaded`. Nobody is at work on the list unless
  the write lock is held (`LockedOps`), so while it is open each step of CdpModule
  is a step of NeighborList (`LockedStep`).
* `ListSoundWhileLoaded` and `ModuleIsTable`: so while the module is loaded, `ListInv`
  and `UniqueIdentity` hold of the list, and each step of CdpModule is one of
  NeighborTable or none. A list that is closed is not opened again
  (`StaysClosed`), so the step lemmas of NeighborListProofs apply from the start.
* `LostReaderStopsAll`: `LostForGood`. A reader in "parsing" or "dead" has no step
  (`LostStays`) and holds the read lock, so nobody has the write lock
  (`LockExcludes`) and no step changes the list; and its file is not removed while
  it is open (`FilesGone`), so the list is never closed.
* `OnlyExpiredLeaveModule` and `NeverInheritedModule`: `OnlyExpiredLeave` and
  `HoldIsOfFrame`, now of CdpModule. The second holds while the module is unloaded
  too, since no frame looks an entry up then.

**A reader of `/proc`**, in ProcReaderProofs: for any list NeighborList has, any
number of entries in a batch, and whatever the list does between two batches.

* `NeverShownTwice`: `ShownOnce`. An index is a place in a walk that is defined by
  recursion, so the first lemmas say by induction that the walk from the head meets
  entries of the list, each once and in the order of their numbers (`WalkListed`,
  `WalkHigher`, `WalkOnce`), and what the list does to it: appending leaves every
  place as it was and removing moves entries only forward (`AppendPlaces`,
  `RemovePlaces`). Hence `Placed`: what was given and is still listed lies before
  the index to be shown next, and as structs are not used again, what was given
  and is gone stays away.
* `BracketsWhereTheyGo`: `BracketsPlaced`. That the opening bracket comes first
  follows with `Begun`: nothing has been given exactly while that index is 0. The
  closing one is printed for the tail, after which the walk of a batch ends, as the
  list does not change while it lasts (`ClosingInv`). `IndexStaysPlace`:
  `IndexIsPlace`, for the same reason (`ReaderTurns`). `ReaderTypeCorrect`:
  `ReaderTypeOK`.
* `ReadingLeavesList`: each step of ProcReader is one of NeighborList or none, so
  `ReadersSeeTable` takes over to it that the list implements the table, that only
  expired entries leave, and that a frame keeps its own hold time.

**Transmission**, in PacketWriterProofs: for any number of devices, of addresses
and of rounds (`DevicesAssumption`).

* `BuffersOnce` and `SuccessServes`: `BuffersSpent`, with no slot set past the
  array, and `ServedOnSuccess`. The strengthening `TransmitInv` adds that in the
  middle of a packet the buffer of the device, and no other, is owned (`OnePacket`),
  and that the devices seen lie behind the walk (`SeenSoFar`), without which a
  device could be counted as served before its turn.

**The packet builder**, in PacketWriterProofs: for a buffer of any length below
`Word`, strings of any lengths (`WriterAssumption`) and any devices.

* `InsideRoom`, `LengthsStated`, `BuilderKeepsNothing` and `OnlyWholeSent`:
  `NeverPastRoom`, `LengthsTrue`, `NothingKept`, and `SentWhole`:
  a packet that is sent has every TLV in its order and every address. `WriterInv`
  adds how far a call has got (`Progress`), and that the TLVs written are a prefix
  of `Order` (`WireInv`). That a length cut to 16 bits is the true one follows
  because the position, which it adds up to, is below `Room`. `HeadersInv` adds
  that the first TLV follows the packet's header and that each states at least its
  own; for the addresses only once all are written, since their length is stated
  before them and may be a cut one if they do not fit.
* `WriterImplementsTransmit`: `TransmitSpec`; `BuilderServes` takes the theorems on
  Transmit over to the builder.
  The last step of a call maps to `Build` or `BuildFails`, all others to none;
  `Build` wants an array without empty slots, which `Progress` keeps from
  `Writable` on.

**The parser**, in PacketParserProofs: for frames of any length above zero, any
stated lengths and any bound on the addresses (`ParserAssumption`).

* `ReaderInFrame`, `BlocksInPacketOrFreed`, `LostOnKnownPaths` and `ArraysFilled`:
  the four invariants of the run. `ParserInv` adds that the set of fields is
  finite, that there is a packet exactly while one is being parsed
  (`PacketThere`), and that at most the array being filled is not whole
  (`Filling`). The accounting rests on four lemmas: what a field adds or takes
  away (`AddField`, `DropField`) and how the blocks of all arrays change when one
  does (`ArrayBlocksType`, `ArraysUpdate`); then one lemma each for a parse that
  fails, one that loses its packet, a field that is set, a value that is skipped
  and an array that is made, to which the cases of the actions refer.
* `ParserProgress`: `TlvProgress`, since what was read of a TLV lies behind its
  start (`TlvBehind`).

**The contents of `/proc`**, in ProcContentsProofs: for addresses of any number
of hextets, any strings, any first size of the buffer and any text before them, any
members present and any number of items.

* `SearchFindsLongest`: `FoundLongest`. `SearchInv` says that no run before the
  place of the search is longer than the longest found; where the search ends, a
  run that begins later has no room to be.
* `InnerRunsReadBack`: `InnerRunsDenote`. `TextInv` says what was printed of the
  run that was found; that it is the text with a double colon in one place, and
  hextets and colons in turn otherwise, follows from what flattening the pairs of
  them comes to (`FlattenedPairs`, `JoinedIs`, `HeadedIs`).
* `StringsKeptWhole`: `StringKept`, which says of every string that it stays inside
  the buffer, and of those without a backslash that they read back. Every prefix of
  the output reads back as the prefix of the string that is done (`ReadBack`), as
  one more byte is one more step of the reader (`DecodeOneMore`, `KeepOneMore`);
  `Buffered` says at each place of the code how much of the buffer is used and that
  the output is all there unless it is full.
* `EntryIsJson`: `SeparatedRight`. A reader of JSON comes to a known state
  after each member (`Reached`); what a member prints takes it from the
  one to the other (`Carries`, by induction over the items of an array:
  `ItemsRead`).

**The clock**, in UnitsProofs: for any interval, scale and delay, a modulus with room
for an interval and a delay, any number of entries in front, and a hold time that
an int holds (`ClockAssumption`).

* `TimerTransmits`: `NeverSilent`. Without a setting, what is compared is the seconds
  the timer has been quiet; with one, each quiet event but the first has added its
  seconds to what has passed since the last transmission, modulo the modulus
  (`SentAccounted`), and that cannot pass the interval unseen.
* `EntriesGo` and `EntriesStayTheirTime`: `KeptAtMost` and `GoneNotBefore`, from
  `HeardAccounted`: the time that is compared is the age of the entry and what was
  done to the clock. What an int makes of that is a lemma of its own
  (`ExpiredMeans`): only a difference that no int holds gives another answer. A purge
  that gets to the entry leaves it at most its hold time, one that ends in front of
  it one entry fewer to end with (`PurgeKeeps`); hence it goes at the latest when
  as many purges have ended as entries were there.

**Loading**, in UnitsProofs: for names of any length, set at any time.

* `StringsFit`: `StringsHold`. `RoomAccounted` says at every step that what is
  still to be copied fits in the room and what the names grew by.
* `LoadingGivesBack` and `UsersGivenBackFirst`: `GivenBack` and `UsersGoFirst`. While
  loading goes on, what is held is what the stages before this one obtained; on a
  way out it is what `giving` still holds, without repetition and each thing before
  what it uses (`HeldInv`). The lemmas `ProcWayOrderly`, `TimerWayOrderly` and
  `UnloadingOrderly` show this of the orders that are written in the code.

**The checksum**, in UnitsProofs: for bytes of any size (`Base`) and
frames of up to as many bytes as a word has values (`ChecksumAssumption`; 64 KB in
the code, whose frames are shorter), which is what adding the carries twice is
enough for.

* `ChecksumAgrees`: `ChecksumHolds`. `Good` says that the weighed bytes add up to a
  multiple of the largest word, and not to nothing. Adding the carries changes a
  sum by such a multiple (`FoldedIs`), so `ComputeCsum` is zero for these frames
  only (`CsumZero`); the checksum in its placeholder makes a frame one of them
  (`InjectedGood`), and another byte changes the sum by less than the largest word
  (`ByteSumShifts`, `ChangedBad`). `WordsAddUp` says that words and weighed bytes
  have the same sum, at an odd length too. Before all this stands that `Total`, a
  fold that takes the elements of a set in an unknown order, is the sum in any
  order (`AnyOrder`, `InOrder`).

**All six parts together**, in UnitsProofs: for every value of the constants and
an empty string among the strings (`UnitsAssumption`, for the parts in which none is
shown).

* `PartsKeepTheirSpecifications`: a behaviour of Units is one of each part, so the
  theorems above hold of it; only the string, which may have been shown at the
  start, needs its invariant again (`StringInv`). `UnitsCorrect` says so of every
  invariant and action property of the run.
* `UnitsTypeCorrect`: `UnitsTypeOK`. For the timer, loading and the checksum it is
  part of the inductive invariant. The printers build sequences by flattening, of
  which the type is known only from what that comes to (`FlattensTo`,
  `HeadedType`, `CapabilityTokens`), and an entry is empty until its bracket is
  printed (`EmitsTokens`).

**Induction.** The library's induction theorems take an operator as a parameter,
which the provers cannot instantiate. Induction states them for sets and
functions instead, from the well-foundedness of the natural numbers: a set with 0
and with the successor of each of its elements has every number (`SetInduction`), a
function defined by recursion exists (`Recursion`), and so does a fold over a
finite set (`Folding`). With them the walk from the head, the folds over sequences
and the sum of a frame are reasoned about for every length.

**Only model-checked**: liveness (`ExpiredLeave`, `CleanEnds`, `UnloadDrains`,
`ParseEnds`, `ShownInTheEnd`), which is beyond the prover, as is anything about
ENABLED. Every invariant and every action property that a run checks is also a
theorem.

## Plan

Done: all modules above, their runs, and a theorem for every safety property of
a run. Left: a frame that PacketWriter wrote, read by PacketParser, both at the
level of positions and lengths. It takes a parser whose choices are those of one
frame, which is a module of its own; today the two meet in what they promise each
other: the lengths the writer states lead from the header to every TLV and to the
end, and none is zero (`LengthsStated`); a parser that is told lengths above zero
goes on (`ParserProgress`) and stays inside (`ReaderInFrame`).

## Not modelled

* `cdp_neighbor_list_take_by_identity`: nothing calls it.
* The summary and the detail file and `cdp_packet_dump`: they print a decoded
  packet field by field and decide nothing.
* The version strings on Windows, which are for the tests there, and
  `cdptools/main.c`, a driver that prints one sample packet.
* The kernel (softirqs, locks, timers, `seq_file`, SNAP, socket buffers) but for
  what the module relies on; those definitions are marked external in the map.
