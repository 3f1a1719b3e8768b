# USBQ core: a TLA+ model

USBQ core is a Linux kernel module that puts a computer in the middle of a USB
connection. Its *driver* half talks to a real device, its *gadget* half plays that
device for a host, and a userland program on the other side of a UDP socket
passes messages between them. This directory models what the module does with
endpoints, transfers and messages, checks it with TLC and proves parts of it with
TLAPS. `PROJECT.json` maps every definition to the lines it models and lists
runs, mutants, hazards, findings and theorems. The source is in `src/`.

```
 device -- URBs --> driver.c == DATA ==> usbq_userland == DATA ==> gadget.c -- usb_requests --> host
                             <== ACK ===               <== ACK ===
 device <-- URBs -- driver.c <== DATA ==               <== DATA == gadget.c <-- usb_requests -- host
```

## 1. Inventory

| Part | State it keeps | Operations | Where it is |
|---|---|---|---|
| Driver half, bulk and interrupt endpoints | `driver_state.eplist`; per endpoint a descriptor, a workqueue and `reqlist` of URBs | open, first poll, URB completion, work item (`recv`), message from userland, free | `driver.c`; **Driver**, **DriverTeardown** |
| Gadget half, bulk and interrupt endpoints | `gadget_state.eplist`; per endpoint a descriptor, a workqueue and `reqlist` of requests | enable, completion, work item, message from userland, free | `gadget.c`; **Gadget**, **GadgetTeardown** |
| Userland path | datagrams under way | `send_userland`, `com_recv`, `udp_recv` | `com.c`, `com_udp.c`, `msg.c`; **Userland** |
| Control relay, endpoint 0 | two workqueues per half (one per direction), the request queued on the shared `usb_ep`, control URBs | `ubq_setup`, `handle_setup`, completions, work items, messages | `driver.c`, `gadget.c`; **Control** |
| Interfaces and alternate settings | which endpoints exist on each half, `active` flags (gadget), `cur_altsetting` (driver) | `set_interface`, enable default, disable active, on each half | `driver.c`, `gadget.c`; **Interfaces** |
| Device session | `registered`, `init`, `driver_state.dev`, `gadget_state.identity` | probe, disconnect, RESET, RELOAD, NEW_DEVICE, module load and unload | `driver.c`, `gadget.c`, `core.c`; **Session** |
| Device description | the init packet | `build_init_pkt`, `parse_init_pkt` | `driver.c`, `gadget.c`; **InitPkt**, run by **Session** |
| Com layer | `com->state`, `com->wq`, `com->msg`, the socket | init, send, receive callback, work item, close | `com.c`, `com_udp.c`; **Com** |
| Message structure | none | sizes, accessors | `msg.c`; kind and payload; the allocated size in **InitPkt**, `check_msg` a choice in **Com** |
| Isochronous transfers | | | the repository's README says they are not supported; left out |
| Debugging, build, tools | none | | left out |

How they interact. Completions run in interrupt context and do nothing but queue
work on the endpoint's workqueue (the gadget frees a *failed* request on the
spot). Each endpoint has its own worker. One com worker per half handles the
messages from userland one after the other. The lists of endpoints and of
requests are shared by all of these and protected by no lock that spans a lookup
and its use. Nothing in a message says which transfer, or which opening of an
endpoint, it belongs to.

What is hard, and what makes the system correct:

- *Relay.* Flow control exists on IN only and is a credit that travels with the
  data; it must neither multiply nor, when nothing fails, get lost. Payloads must
  not be repeated or reordered. An OUT endpoint must always have a request that
  listens, and no `endpoint_t` two, although two of them may share a hardware endpoint
  after the host has selected the active setting again (`gadget.c:388-405`).
- *Freeing an endpoint* races with its worker, with completions and with the com
  worker. Requests must die before their endpoint, nobody may touch freed
  memory, and the teardown, which waits for the worker, must end.
- *Control.* Requests and answers are matched by nothing but the host's waiting
  for one at a time; two workqueues per half may reorder; an OUT request is
  accepted before the device has seen it; both halves follow the configuration
  independently, the driver in two threads.
- *Session.* The state of a session is held in five places (USB core, driver, messages
  under way, gadget, UDC core) and written by three threads of the driver and two of the
  gadget without a lock. The flags must tell the truth once everybody rests, the
  gadget must present the device that is there, and nothing may survive the module.
- *Com.* The socket's callback is installed before what it needs is there and
  removed after it is gone; one message buffer serves all receive workers; one work
  item stands for one datagram.

The 40 hazards these lead to are in `PROJECT.json`, each at the line where it
bites, with the properties that cover it or the reason why none does. For several of
them the code has no remedy; the property then names the mishap as its one excuse, so that it
says what the mishap may break and what it may not, but does not rule it out.

## 2. Modules

| Module | Models |
|---|---|
| `Userland` | The path between the halves, per endpoint: DATA as sequences of payload numbers, ACKs as a count; loss, reordering, failing sends. |
| `Driver` | Non-control endpoints of `driver.c`. One action per callback: `CompleteIn/Stall/Error/Out` (interrupt), `WorkData/WorkAgain` (worker), `RecvAck/RecvOut` (com worker), `AddEndpoint/FirstPoll/UnlinkEndpoint/FreeEndpoint` (reconfiguration, cut where other threads can come in). |
| `Gadget` | The same for `gadget.c`: `HostRead/HostWrite/RequestError`, `WorkConsumed/WorkOut`, `RecvIn`, `EnableEndpoint/DisableEndpoint/ReleaseEndpoint`. |
| `Relay` | Driver, Userland and Gadget joined, with the properties and the fairness. |
| `Pipe` | The abstract specification of one direction of one endpoint: a lossy FIFO. Relay implements it (`InIsPipe`, `OutIsPipe`). |
| `GadgetTeardown`, `DriverTeardown` | `free_gadget_endpoint` and `free_driver_endpoint`, line by line, against every thread that uses the endpoint. Requests, descriptor and endpoint are memory; a step that uses freed memory is recorded in `bad`. |
| `Interfaces` | Operators: what each half's interface functions do to its bag of endpoints. |
| `Control` | The control relay, running the operators of `Interfaces`. |
| `InitPkt` | Operators: what `build_init_pkt` writes for a device and what `parse_init_pkt` reads from any prefix of it, as sequences of descriptors. |
| `Session` | Plugging and unplugging, `driver_probe`, `driver_disconnect`, RESET, RELOAD, NEW_DEVICE, registration and `ubq_bind`, module load and exit. Runs the operators of `InitPkt`. |
| `Com` | `com_init`, `com_send`, `com_close` step by step against `udp_data_ready`/`wq_recv` in interrupts and `com_recv` in a worker on each CPU. Implements `Pipe` too (`ComIsPipe`). |
| `MCRelay`, `MCControl`, `MCSession` | Constants for TLC. |
| `Relay_proofs`, `Control_proofs`, `GadgetTeardown_proofs`, `DriverTeardown_proofs`, `InitPkt_proofs`, `Session_proofs`, `Com_proofs` | Theorems about the module each is named after. |
| `QueueLemmas` | Lemmas on queues they share: what a queue holds after an operation, in what order, and that it holds nothing twice; the maximum of a set, induction up to a bound, recursive functions and flattened sequences. |

The subjects are split by what they need: `Relay` takes the reconfigurations of
`Control` as given (any order is allowed but two the protocol settles, see its
header) and takes freeing an endpoint in two steps; the teardown modules look
inside that free, for one endpoint; `Control` follows only which endpoints exist;
`Session` follows only whether a half has endpoints, and how it comes to have none;
`Com` looks inside one end of what `Userland` takes as a channel.

Correspondence of state. `Driver.poll[e]` counts submitted IN URBs, `again[e]` the
work items of a stall, `dWork[e]` the payloads in the endpoint's workqueue,
`outUrb[e]` the OUT URBs. In Gadget an `endpoint_t` is the number of the enabling that
created it: `gEps[e]` are those in `eplist`, the newest first (`list_add`), `dying[e]` is the one
whose workqueue is being flushed, and `powered[e]` says whether the hardware endpoint they
share is enabled. `inReq[e]` and `listen[e]` are requests queued on the controller,
`consumed[e]` and `gWork[e]` items of the workqueues, each with the `endpoint_t` it belongs to
(that of an OUT payload is in `sent`): the items of one `endpoint_t` are handled in order, those of
two in any order. One thread at a time reconfigures an endpoint. `enables[e]`,
`taken`, `read`, `sent` and `accepted` are history: what the driver has opened,
what the device has given, what the host has read and written, what the device
has accepted. In the teardown modules a request is a number, given
when it is allocated, and `reqlist` a set of them: `list_add` puts the newest in front, so
the first of the list is the greatest number and the next one the greatest below. In
Control a request is its number in the host's order;
`outcome[n].by` remembers which answer ended transfer n, and `overtook` which datagram of a
request the network put before which.

In Session `init`, `dev`, `dEps` are `driver_state.init`, `dev` and `eplist` (endpoint 0's two
entries, and whether there are others); `registered`, `ident`, `gEps` the same of
`gadget_state`. `intf` and `reg` are what the USB core knows (which interface is bound to
which driver), `udc` what the UDC core knows (a gadget is presented to the host).
`th[t]` says where thread t of the driver is (com worker, hub thread, module exit) and
which interfaces it still has to go through; `gcom` and `unload` do so for the gadget's
com worker and module exit. `happened` is history. In Com the fields of `com_t` are
`state`, `wq`, `msg`; `owner` is the program counter of the thread that loads or unloads
the module, `at[c]` that of the worker of CPU c; `bad` records the first use of something
that is not there, and `swallowed` the datagrams that the loop of `udp_recv` took for the rest of
another one.

Names of faults, so that each run says what it assumes: `lose`, `reorder`, `send`,
`submit`, `urb_error`, `stall`, `abort`, `reselect`, `reread`, `early` (Userland) and `abandon`,
`again`, `lose`, `reorder`, `send`, `submit`, `stall`, `refuse`, `error` (Control); `init`, `alloc`, `noise` (Com).
Session calls them mishaps, for which ones go together matters: `Mishaps` is a set of
sets, and a behaviour stays within one of them.

## 3. Runs

| Run | Instance and bounds | What it shows |
|---|---|---|
| `relay_in` | 1 IN endpoint, all faults, 4 payloads, 3 openings on each half | `CreditBound`, `NoGap`, `AtMostOnce` |
| `relay_pipe` | 1 IN or 1 OUT endpoint (`OneInUse`), all faults but `reorder`, 3 payloads, 3 openings on each half, which may overlap on the gadget's | `OneListener`; the IN direction implements `Pipe` (`InIsPipe`), and so does the OUT direction but for payloads that overtake each other while two `endpoint_t`s share the endpoint (`OutIsPipe`) |
| `relay_live` | 1 IN and 1 OUT endpoint, only `stall`, fairness | `TypeOK`, `StillListening`; `InDelivered`, `PollResumes`, `OutDelivered` |
| `gadget_teardown` | 1 endpoint of either direction, 4 requests, preemption, aborts, com worker beside or not | `TypeOK`, `RequestsDieFirst`, `OneOwner`, `EpAlive`; `TeardownEnds` |
| `driver_teardown` | 1 endpoint of each kind, 3 URBs, com worker beside or not | `TypeOK`, `OnlyLateOnesSurvive`, `OneOwner`, `EpAlive`; `TeardownEnds` |
| `control` | 3 transfers of any kind, 1 interface with 2 settings, the second or one that is not there selected, all faults; datagrams overtake each other only between transfers without data that do not reconfigure (`OvertakesSimple`) | `AnswersMatch`, `DeviceOrder` |
| `control_live` | 4 transfers of a host that configures once, only `stall`, fairness | `TypeOK`, `Served`; `TransfersEnd`, `AcceptedIsSeen` |
| `session` | 2 devices (a disk with 2 interfaces and an alternate setting; a microphone whose interface and endpoint descriptors are longer than the driver counts, 10 and 9 bytes), 1 plugged in besides the one found at load, RESET and RELOAD once each; one kind of mishap per behaviour, or `lose` with `cut` or `bind`; fairness | `TypeOK`, `SessionIsReal`, `EndpointsGone`, `RegisteredIsTrue`, `IdentityIsDevice`, `UnloadedIsGone`; `Converges` |
| `com` | server or client, 2 CPUs, 4 datagrams, all faults; fairness | `TypeOK`, `KnownGaps`, `Backlog`; Com implements `Pipe` (`ComIsPipe`); `Delivered` |
| `relay_listener`, `gadget_cursor`, `gadget_desc` | as small as shows it | violations, section 4 |

Why the bounds are enough. Endpoints share no state in `Relay`, so
one of each direction is every case, and a run that has both uses one or the other (`OneInUse`). The stale messages that matter are those of
an earlier opening: two openings make one stale, three make a stale one meet one
more stale, with four payloads to tell them apart. Three enablings by the gadget are two
`endpoint_t`s at once and one that comes after or between; three OUT payloads are one in the
workqueue of each and one that is overtaken behind them. In the teardown modules the
loop holds two requests (`req` and `tmp`); a third one, and for the gadget a
fourth, is what the worker or the com worker adds meanwhile. In Control two
transfers are the least that can be confused; the third makes an old answer meet
a transfer it was neither meant for nor adjacent to (datagrams that overtake each other do not depend on what is
configured, and a request with data may be overtaken anyway, hence `OvertakesSimple` keeps
the two apart: a GET and a request without data are what must not change places; the proof
in section 5 has every kind), and four are a whole
configuration (read, SET_CONFIGURATION, SET_INTERFACE) with one transfer more.
In Session a device found at load and one plugged in later, each of which can be
unplugged, are the least that gives an old session, its remains and a new one; RESET
and RELOAD may each come before, between or after. Mishaps are kept apart because each
property names the ones it does not survive, so that a second, different one adds
nothing to it; the two pairs are those where a lost message makes the gadget meet the
other one with a gadget already registered. In Com two workers are what can share
`com->msg`; of four datagrams two are under way in workers, one waits and one is late.
Counters are bounded in the guards (`MaxData`, `MaxEnables`, `MaxSent`,
`MaxGadgetEnables`, `MaxReqs`, `MaxSetups`, `MaxPlugs`, `MaxCommands`, `MaxDatagrams`) and
only there. `control` is the largest run, with about 4 million states; `session` has about 1 million,
`com` 58 thousand.

`CHECK_DEADLOCK FALSE` is in every cfg because every subject may really stop: a
device with nothing to say, an endpoint that is gone, a host that asks no more.

Fairness. Weak fairness of what Linux guarantees: a workqueue runs each item, a
com worker handles each message, a thread that has begun to open or free an
endpoint continues. Of the outside world: the host polls IN endpoints and takes
the answer it waits for, the device accepts OUT data and completes each control
URB. Neither has to produce anything: the device's payloads, the host's writes,
requests and reconfigurations have no fairness. The liveness of the relay is
stated for the one fault USBQ recovers from, the stall; with a lost datagram the
code has no way to recover (an IN endpoint then stops for good), so no liveness
property is true. Session assumes that the kernel as a whole goes on (weak fairness
of `System`), which is enough as none of its threads runs for ever; plugging,
unplugging, commands and unloading have none. Com assumes that `com_init` and `com_close`
do not stop half-way and that the worker of each CPU runs.

## 4. What the violations show

- `relay_listener`: a single failed `send_userland` in `ep_gadget_recv_usb`
  (`gadget.c:904`) returns before the resubmission; the OUT endpoint stays enabled
  and never receives again.
- `gadget_cursor`: `list_for_each_entry_safe` in `free_gadget_endpoint`
  (`gadget.c:248`) keeps the next request while the current one is dequeued; the
  worker may free that next one. It takes a kernel that preempts the teardown
  thread there; `Preemptible` makes that explicit.
- `gadget_desc`: `free_endpoint` frees `ep->desc` (`common.c:88`) before it flushes the
  workqueue, whose work item of an OUT endpoint reads it (`gadget.c:1068`). No
  preemption is needed, for the flush itself waits.
`EpAlive`, `OnlyLateOnesSurvive` and `RequestsDieFirst` (gadget) state what *does* hold,
with the exceptions named: a com worker beside the teardown, a late URB (a stall
handled during the teardown submits a new one, `driver.c:532`, after all were cancelled).
A comment (`driver.c:786`) says the driver acknowledges an OUT request without data; that
code is commented out and the gadget acknowledges at once (`gadget.c:1197-1199`), so
that `AcceptedIsSeen` states what remains true: the device sees it in the end.
`AnswersMatch` and `DeviceOrder` likewise name the cases (a host that gave up a
transfer, a request with data, two datagrams the network exchanged) in which the code keeps
no order, and `OutIsPipe` that two `endpoint_t`s over one hardware endpoint do not. In Session every
property names, as the set of mishaps it excludes, what the code does not survive: a
probe that fails leaves `init` set (`driver.c:1170`), a second device takes over the
session (`driver.c:1163`), a device that cannot be parsed or bound leaves `registered` set
(`gadget.c:763`), endpoints opened behind a cleanup stay. `KnownGaps` lists the four
places where `com_t` is used before or after it is complete; `ComIsPipe` holds up to the
first time two workers share `com->msg`. `Backlog` and `Delivered` name the datagrams that
`udp_recv` swallowed (`com_udp.c:303`) as what leaves a work item, or a message, behind.

## 5. Proofs

TLC checks the instances above; TLAPS proves the following for every value of the
constants. The assumptions on them are named and weak: endpoints of the two directions
are different (`EpsAssumption`), a device has finitely many settings, which use its endpoints
(`InterfacesAssumption`), faults and mishaps are among those the modules know, bounds
are natural numbers, at least one request may be allocated (`ConstantsAssumption`, `MaxReqsAssumption`), the
values that stand for "no device" and "RESET" are no devices and a device has a description as
USB core makes them, with interface descriptors of at least nine bytes and
endpoint descriptors of at least seven (`SessionAssumption`), the
CPUs are finitely many (`ComAssumption`), requests have a kind the gadget knows
(`ControlAssumption`). Where a theorem needs more, it says so as a
hypothesis of its own, listed here. The inductive invariants were checked with TLC on the
instances of the runs before they were proved.

Three theorems are about functions that call themselves: `Parse`, `Sum` and the fold of
`Backlog`. The induction theorems of the library take a predicate as a parameter, which the
provers cannot instantiate; here induction is about a *set* instead. `QueueLemmas!Induct`: a set
that has 0 and with each number below N the next one has all of `0..N` (a smallest number outside
it would contradict this). `QueueLemmas!Recursion`: for a set S, a first element and a step
function there is a function on `0..N` that starts there and makes these steps, in S all the way.
A definition that chooses a function by its equation then has the function of `Recursion`,
as the two agree at 0 and from each number to the next.

### Relay

- `Relay_proofs!TypeCorrect`: `Spec => []TypeOK`. One lemma per action over a common
  set of facts on sequences (`SeqFacts`). It needs `Placed`: a request is queued only at a
  hardware endpoint that is enabled, and such an endpoint has an `endpoint_t`.
- `Relay_proofs!SingleListener`: `Spec => []OneListener`, under all faults, a host that
  selects the active setting again among them, and `ListensUnlessFault`: `Spec =>
  []StillListening` when no send, submission or request fails, which is the assumption
  `relay_listener` shows to be needed. `Requests(o)` is the `endpoint_t` of each request of an
  OUT endpoint, with the host or in a workqueue; the property says that it has none twice. That is
  not inductive by itself: the invariant `Listening` adds that requests belong to
  `endpoint_t`s that exist, those in the host's hands to ones in `eplist`, that the one being freed
  has none there, as the hardware endpoint stays disabled until it is gone, and that enabling
  names a new one. It is stated of the *values* of an endpoint's variables (`Sound`, `Hears`), so
  that each kind of step is a lemma about values (`SoundEnable`, `SoundWork`, ...).
- `Relay_proofs!FlowControl`: `Spec => []CreditBound`: the credits of an IN
  endpoint, wherever they are, never exceed the times the driver opened it.
  `CreditBound` is not inductive: an endpoint that has been added but not yet
  polled already counts as opened, and the URB it is owed would break the bound if
  it were not reserved. `CreditInv` adds that URB (`Pending`). Each action then moves
  a credit, loses it, or adds one together with an opening; there is one lemma per
  action, and the theorem puts them together with type correctness.
- `Relay_proofs!NothingTwice`: `Spec => []AtMostOnce`, and `NothingSkipped`:
  `Spec => []NoGap`, under all faults, reordering among them. `EveryStepMoves` shows once
  that every step does one of seven things to the payloads of an endpoint (`InMove`):
  nothing, open it, take a payload from the device, send it, queue it for the host, drop it,
  give it to the host. `Apart` then says that the queues on the way and what was read have
  no payload in common, none of them one twice, and that none is newer than the last
  one taken: so the next one taken is new to all of them. For `NoGap` the invariant `Follows` says that
  in an endpoint opened once the payload under way is the one after the last that was read, and
  the last that was taken; that there is not a second one is flow control, `CreditInv`. It
  also says that an idle credit (a polling URB, an ACK, ...) means that nothing is missing,
  for a lost payload takes the only credit with it.
- `Relay_proofs!OutImplementsPipe` and `InImplementsPipe`: `Spec => OutIsPipe` and
  `Spec => InIsPipe` when datagrams keep their order, under every other fault. A
  direction is three queues in a row, and `Flows` lists what a step may do to one of
  them: append to the back, move the first payload on, take or drop the first, drop any
  datagram, drop all requests of a freed endpoint. `OutFlows` and `InFlows` show that
  each action is one of these, `FlowIsPipe` that each of these is a step of the pipe or
  a stutter, from the algebra of concatenation (`Monoid`, `DropMiddle`, `RowSteps`). For OUT there
  is one step more: the worker of one `endpoint_t` moves a payload on while an older one
  waits in the workqueue of another (`Overtakes`, `PassMiddle`). That this takes two
  `endpoint_t`s (`TwoOwners`) needs the invariant `Listening` and is where the drain of
  `free_endpoint` matters: an `endpoint_t` is gone only when its workqueue is empty, so
  disabling and enabling alone, however often, keeps the order. Without the assumption on
  datagrams the theorems are false: the code numbers nothing and so passes on what the
  network reorders.

### Control

For any number of requests and any device:

- `Control_proofs!TypeCorrect`: `Spec => []TypeOK`, `EachItsAnswer`: `Spec => []AnswersMatch`,
  `DeviceInOrder`: `Spec => []DeviceOrder`, under all faults, reordered datagrams among them. One inductive invariant
  serves the three, for each needs the others:
  - `RightKind`, `Unique`, `Apart`: which requests can be in which queue, work item or URB,
    that none is twice in one, and that none is in two of them. `Apart` has one exception:
    a request without data is answered by the gadget itself while it is forwarded, so it
    may be queued on endpoint 0 and also be on its way to the device. Hence the lines about
    `Queued` distinguish the kinds of request.
  - `Answers`: the requests an answer may still come of (`Answering`: wherever the request or
    its reply is) and those whose answer has ended a transfer (`Spent`) have nothing in
    common. So no answer ends two transfers. That the answer is the host's own follows from this:
    if the answer that comes is an older one, the transfer of that older request has not been
    ended by it, so it was given up, or was ended by one still older (`LateIsExcused`).
  - `InOrder`: a relation `Earlier` (in order of the host, but for the excuses
    `DeviceOrder` names, among them the pairs in `overtook`) holds between any two requests in a queue on the way to the
    device, and from each queue to those behind it. `DeviceOrder` alone says what the device *has
    seen*; this says what it *will* see. IN requests have a workqueue of their
    own and so may pass OUT requests, but only those that bring data (`InsPassOut`): one without
    is forwarded before its transfer is answered, hence before the next one begins. A datagram
    that passes another puts the two into `overtook`; that it holds nothing but
    requests, and nothing where the network keeps the order, is `History`.
- `Control_proofs!BothServe`: `Spec => []Served` under two hypotheses. `OnlyStallsOrSends`:
  the device at most stalls IN requests, `send_userland` may fail on either half, nothing else
  fails and the host sets the device up once. This covers `StallFault` of `control_live` and
  is as weak as it can be in the faults of the model: each of the other seven alone
  (`abandon`, `again`, `lose`, `reorder`, `submit`, `refuse`, `error`) gives TLC a counterexample to `Served`.
  A failed send is harmless where a lost datagram is not, because the gadget
  acknowledges a request only once it has been sent (`gadget.c:1192-1199`): without
  the acknowledgement the host selects nothing, and it begins no other transfer.
  `OwnEndpoints`: no endpoint belongs to two interfaces, as the USB specification
  requires of a configuration; without it, a SET_INTERFACE on one interface would free an endpoint
  of the other, as both halves look endpoints up by their id alone.
  `Served` speaks of moments of rest; the invariant `Serving` follows a selection through both halves.
  `Target` is the settings that count: those selected, and the one the gadget has
  accepted before the host knows. `GadgetServes` says that the gadget has all of its endpoints at once,
  `CurFollows` that what the driver has current is the target but for SET_INTERFACE requests on their
  way, and then the last of them names it (this needs `InOrder`), `DriverServes` that the driver has the
  endpoints of what is current, unless a thread is at that setting (`About`). `ComAt` says where the
  com worker can be. A setting the device does not have is never answered
  (`handle_setup` gives up, `gadget.c:1184-1188`), nor is a request that could not be sent, so
  either can only leave its transfer waiting (`Stuck`).
  `Serving` was checked with TLC on an instance with two interfaces and five transfers, larger than
  that of the run.

### Freeing an endpoint

- `GadgetTeardown_proofs!Types`, `NoneOutlivesTheEndpoint` (`RequestsDieFirst`), `OneOwnerEach`
  (`OneOwner`) and `EndpointOutlivesItsUse` (`EpAlive`), for any number of requests, with or
  without preemption, aborts and a com worker beside. One inductive invariant serves all:
  requests on the list have been allocated (`Fresh`, so that a new one is on no list);
  they are divided among controller, workqueue, worker and com worker
  (`Partition`); and what the teardown has stopped follows from how far it is (`Phases`):
  after `usb_ep_disable` the controller has nothing and accepts nothing, after the flush
  the workqueue is empty and its worker idle. That last step needs the first, as only a
  completion fills the workqueue, and a worker's submission to a disabled endpoint
  fails.
- `GadgetTeardown_proofs!SafeIterationSuffices`: `Spec => []CursorAlive` where the kernel does
  not preempt the teardown and the controller aborts nothing by itself. `CursorAlive` is
  the claim of a comment that `gadget_cursor` refutes in general; the theorem shows that the
  run's finding needs one of these two, for any number of requests.
- `DriverTeardown_proofs!Types`, `OnlyTheLateSurvive` (`OnlyLateOnesSurvive`), `OneOwnerEach`
  (`OneOwner`), `EndpointOutlivesItsUse` (`EpAlive`). The same `Partition`, but the USB core has
  no switch that keeps a worker from submitting: here the loop itself must have killed
  every URB, and `Stopped` says that those still submitted are behind its cursors, none
  once it has ended, *unless an URB was late*. That is why `late` is in both properties.

### Session

- `Session_proofs!TypeCorrect`, `FlagIsTrue` (`RegisteredIsTrue`), `InitIsTrue` (`SessionIsReal`),
  `NoSessionNoEndpoint` (`EndpointsGone`), `ExitLeavesNothing` (`UnloadedIsGone`), for any devices
  and whatever mishaps come together. The properties speak of moments of rest; the invariant is a table of what holds
  at each place a thread can be, each line with the mishaps it does not survive (`Never`):
  - `Walks`: a thread that walks over interfaces has one to go; this is part of the
    types, as the next one is chosen among them.
  - `Flags`, `GadgetClosed`, `GadgetGone`: while the gadget's com worker replaces the
    device nothing is presented, and `registered` is already false if no device
    follows; endpoints are closed behind it; module exit finds it idle.
  - `DriverClosed`, `DriverGone`: the same of the driver's endpoints.
  - `OneDevice`, `Deregisters`, `Orphans`, `Anchored`: what `SessionIsReal` needs. Interfaces
    there belong to one device, and those the hub thread need not go over are absent; a
    thread that deregisters the driver has all bound ones to go over; so an interface
    bound *without* a session is about to be taken away by some thread; and a session has
    an interface of its device.
- `Session_proofs!IdentityIsRead`: `Spec => []IdentityIsDevice`: no order of messages,
  losses, cleanups and registrations makes the gadget present anything but the first settings of a device
  announced to it, complete, and all of them if userland cuts nothing. That what it reads is what the
  driver wrote, `ReadsBack`, is `AnnouncementIsReadBack`, which is `ParseReadsBuild` below;
  `MCSession` evaluates it for the devices of the run too (`DescribedReadsBack`).

### Device description

For a device with any number of interfaces, settings and endpoints:

- `InitPkt_proofs!ParseReadsBuild`: what `parse_init_pkt` reads in a packet of `build_init_pkt` cut
  after any number of descriptors is a prefix of the device's settings; in the whole packet it is all
  of them. `Layout` says where in the packet the descriptors of each setting are (from
  `FlattenLayout`, the same for any flattened sequence). Along them the parser is either `Between`
  two settings, having read exactly those before, or `Inside` one, having read its interface
  descriptor and its first endpoints but not yet the last. `SettingStep` is the heart of it: `Close`
  moves from inside to between exactly with the last endpoint, at once if there is none.
- `InitPkt_proofs!SizeIsAllocated`: `build_init_pkt` never copies less than it has allocated, and
  copies exactly that if and only if every interface descriptor has the nine bytes it counts and
  every endpoint descriptor the seven. (It copies `bLength` of each, and USB core keeps longer
  ones, so a device can make the two differ; no run checks it, since no state is involved.) Both sizes are sums; their partial
  sums are compared setting by setting (`BodySize`) and within a setting descriptor by descriptor
  (`SettingSize`), with "at least as much, and as much only if" as the statement, since one
  longer descriptor is never made up for by a shorter one.

### Com

- `Com_proofs!TypeCorrect`: `Spec => []TypeOK`. Not inductive by itself: a work item
  stands for one datagram (`Numbered`), which bounds the items of a CPU.
- `Com_proofs!GapsAreKnown`: `Spec => []KnownGaps`. The invariant says which pieces of
  `com_t` are set at each step of the owner (`Pieces`) and that the workers have
  nothing to do but while the com is open (`OnlyWhileOpen`): that is why neither is left
  when the memory is freed. What remains is the end of a `com_init` that cannot allocate the
  message buffer: it frees `com` and then reads `com->id` for `com_log`, which is compiled in, as
  `com.h:15` defines `CONFIG_COM_DEBUG` itself.
- `Com_proofs!BacklogIsCounted`: `Spec => []Backlog`: one datagram waits for each work item of
  any CPU and for each that could not be allocated, but for those that were swallowed: a datagram
  that is shorter than it says makes one work item take several. `Counted` adds what is needed to begin with (no datagram
  and no item before the callback is set) and to end with (the socket goes after the workqueue).
  The sum over the CPUs is a fold of the community modules, a recursive function on sets. `SumIsCount` shows that it
  is the number of *units*, pairs of a CPU and a number below its count: both satisfy the equation
  of the fold, and a smallest set on which two solutions differ cannot be (`TotalIsUnique`). One
  more item is then one more unit, and the theorems on cardinalities do the rest.
- `Com_proofs!ImplementsPipe`: `Spec => ComIsPipe`, step by step. What makes it true
  is that, as long as no two workers were at it, `com->msg` holds the only datagram that
  was taken and is not handled yet (`OneHolds`). The step to look at is `CloseSocket`, which drops what
  waits: nothing is held then, because `com_close` has drained the workers, and so the
  drop is a loss of the pipe.

### Only model-checked

- Liveness under fairness: `InDelivered`, `PollResumes`, `OutDelivered`, `TeardownEnds`, `TransfersEnd`,
  `AcceptedIsSeen`, `Converges`, `Delivered`. The provers cannot reason about `ENABLED`, by which
  fairness is defined.

## 6. What is abstracted, and what is missing

- Payloads are numbers. Sizes, splitting of transfers into packets and truncation
  are left out. ACKs of an endpoint are alike.
- `usbq_userland` is not in this repository; it is taken to forward unchanged.
- `compile.sh` builds for a BeagleBoard, whose ARM core is single: threads interleave
  at the points where one can sleep or be interrupted (`Preemptible` adds those where
  the kernel may preempt). The driver side has no
  `Preemptible` constant because `usb_kill_urb` itself may sleep.
- In Control the controller cannot tell the two directions of endpoint 0 apart, as
  both gadget endpoints share one `usb_ep` (`gadget.c:92`). The handlers of the gadget
  are single actions; those of the driver that reconfigure are cut. Requests of
  endpoint 0 are not modelled as memory. The setting the device itself is in is
  not modelled, hence `Served` asks for a host that configures once.
- Relay lets the gadget and the driver reconfigure in any order that Control can
  produce and more, enabling what is enabled among them; it is not composed with Control. Only
  that two threads reconfigure one endpoint of the gadget at the same time is left out.
- In Session a probe and a registration are single actions, a cleanup is two: the hazard
  is what is opened between its halves. Two cleanups of the driver's list at once free
  the same endpoints twice; the mishap `overlap` admits the step that begins it and ends
  the behaviour, for the effect is undefined. A device's interfaces are probed and
  disconnected in order (`Pick`), as the USB core does. After `ubq_core_exit` has begun no
  device, command or endless stream of messages is new, but what is under way is handled.
- In InitPkt a descriptor is its type, its length and what the parser compares. The
  upper bounds of the identity's arrays (number of interfaces and endpoints) are left
  out: devices are taken to fit.
- In Com one message is one datagram, which is what `udp_send` makes. A datagram that is
  no message is `noise`: one that is too long or not well-formed is dropped, one that states more
  bytes than it has may make `udp_recv` take the datagrams after it for the rest (`Fill`), up to any number of
  them; what is put together so counts as its first datagram. That `com_recv` never frees its work item (allocated in
  `com.c:73`) is not modelled: nothing but memory is lost.

Not modelled: isochronous transfers, which the repository says are not supported and
whose code is incomplete; debugging output, assertions that only log, accessors of
messages, build files, which have no state; `usbq_userland`, which is not in this
repository. Three hazards have no property: a stalled OUT endpoint that stays halted
(`driver.c:525`), as the halt is state of the device; `cur_altsetting` after a relayed
SET_CONFIGURATION (`driver.c:430`), as the device's own setting is not modelled; and the size
of the init packet (`driver.c:1109`), which is a theorem about every description
(`SizeIsAllocated`) and no state.

## 7. Plan

Done: the relay of data (`Userland`, `Driver`, `Gadget`, `Relay`, `Pipe`), freeing an endpoint
(`GadgetTeardown`, `DriverTeardown`), endpoint 0 and reconfiguration (`Interfaces`,
`Control`), the session and the device description (`Session`, `InitPkt`), the com layer
(`Com`), and the proofs of section 5: every safety property and every refinement the passing
runs check. What is left:

- Relay composed with Control, instead of the two assumptions in the header of Relay,
  should a run of bearable size be found: two endpoints, one configuration and one
  transfer that changes it.
- In the proofs: `BothServe` excludes `lose` as a whole. A datagram lost on its way from the
  driver to the gadget is as harmless as one that was not sent; the model would have to tell
  the two directions of `Lose` apart to say so.
