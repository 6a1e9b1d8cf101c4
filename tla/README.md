# KDNSSD: a TLA+ verification project

KDNSSD is the KDE library for DNS service discovery: an application publishes its
own services and browses for those of others. The library holds no protocol of its
own; it drives a daemon (Avahi over D-Bus, or mDNSResponder over its C API) and turns
the daemon's events into Qt signals. What can go wrong is therefore in the protocol
between three parties that run concurrently: the application, the library object and
the daemon. That protocol is what the modules here describe, check and prove about.

## Inventory

The build links one of three backends; the public headers are common to them.

| Part | State | Operations and events | What is hard | What makes it correct |
|---|---|---|---|---|
| `PublicService`, Avahi (`avahi-publicservice.cpp`) | `m_running`, `m_published`, `m_collision`, `m_group`, `m_server`, name and configuration; the entry group at the daemon | six setters, `publish`, `publishAsync`, `stop`, destruction; the server's and the group's `StateChanged` | queued signals that are stale when handled, blocking calls that fail half way, setters at any moment, `publish` spinning in an event loop, a daemon restart | nothing announced when stopped or in collision; what is announced is what the object reports; no lost wakeup, no lost verdict; `published` told once it is due |
| `ServiceBrowser`, Avahi (`avahi-servicebrowser.cpp`) | `m_services`, `m_duringResolve`, `m_timer`, flags | `startBrowse`; `ItemNew`, `ItemRemove`, `AllForNow`, timer, `resolved` of its objects | instances of one name on many interfaces, removal racing a resolve, timer racing `AllForNow`, slots that run a nested loop | the lists match the announcements; every awaited object is answered; every batch ends in `finished` |
| `RemoteService`, Avahi (`avahi-remoteservice.cpp`) | `m_running`, `m_resolved`, resolver, host, port, text | `resolve`, `resolveAsync`; `Found`, `Failure` | answers queued behind a failure, text data merged over updates | data valid when resolved |
| `ServiceTypeBrowser`, Avahi | `m_types`, `m_started`, timer | `startBrowse`; `ItemNew`, `ItemRemove`, `AllForNow`, timer | failure after `m_started` is set; several interfaces | the list is the set of types present |
| `DomainBrowser`, Avahi | `m_domains`, `m_started` | `startBrowse` (environment, configuration file, daemon); `ItemNew`, `ItemRemove` | one domain from several sources, `domainRemoved` before the domain leaves the list | list and signals agree; a domain with one source is listed while that has it |
| `Responder`, mdnsd (`mdnsd-responder.cpp`) | `m_ref`, `m_running`, `m_socket` | `setRef`, `stop`, `process` | connections without a socket, connections that break without a word | one connection at most, none lost |
| `PublicService`, mdnsd | the connection, `m_published`, name and configuration | six setters, `publish`, `publishAsync`, `stop`; registration and error replies | `published(true)` emitted before the name is taken over; replies lost with a connection | what is registered is what the object reports; `published` tells the truth; `publish` returns |
| `ServiceBrowser` and `RemoteService`, mdnsd | the connection, `m_services`, `m_duringResolve`, timer, `m_finished`; a connection per object | `startBrowse`, `resolve`, `resolveAsync`; add, remove, error, timer, answers | independent connections, errors inside `resolveAsync`, browsing started again on top of an old list | instances accounted for; batches concluded |
| `ServiceTypeBrowser`, mdnsd | `m_servicetypes`, a `ServiceBrowser` | its slots | `removeAll` for one of several | types follow `services()` |
| `DomainBrowser`, mdnsd | the connection, `m_domains` | `startBrowse`; add, remove, default, error | removal of what is not listed, restart | as for Avahi |
| Item models (`servicemodel.cpp`, `domainmodel.cpp`) | none of their own; views over a browser | rows and data; layout change on added and removed | the removed item is still in the list during the signal | a view shows what is listed and at most what is just leaving |
| `ServiceBase`, conversions (`servicebase.cpp`, `avahi_server_interface.cpp`, `mdnsd-responder.cpp`) | values | equality, `domainIsLocal`, `domainToDNS`, `DNSToDomain` | ACE and native spelling, letter case, bytes that are not Latin-1 or UTF-8 | one name is one domain, and survives the way to the daemon and back |
| `AvahiListener` | `m_dbusObjectPath` | `isOurMsg` | subscriptions by wildcard, filtered when the path is known | only own signals are handled |
| Dummy backend, generated proxies, build, translations | none | - | - | - |

The parts interact by calls (the application into the library, the library into the
daemon, blocking), by signals the bus queues (daemon to library: delivered in order,
one handler at a time, when the event loop runs) and by Qt signals (library to
application, synchronous: a slot may call back into the object). `ServiceBrowser` owns
the `RemoteService` objects it reports and listens to their `resolved`; the models
listen to a browser.

## Modules

### `AvahiPublicService`

One `PublicService` with its entry group at the daemon. `svc` is the C++ object (fields
named as in the source) together with the group (`remote`, `entries`), which nobody else
changes, and with `app`, what the application was last told. `bus` holds the signals that
were sent and not delivered; `serverState` is the daemon's server; `publishing` says that
the application is inside `publish`. `confirmed` is a history variable.

Each C++ method is an operator from a state of the object to the set of states it can
end in, one per choice of D-Bus replies: `Stop`, `FillFailures` and `FillSuccesses` (the
two results of `fillEntryGroup`), `Commit`, `TryApply`, `Reapply` (the common part of the
setters), `ServerStateChanged`, `GroupStateChanged`, `PublishAsync`. An action is a call
by the application, the delivery of one signal, or a change at the daemon. A handler is
one step because Qt delivers no signal during a blocking D-Bus call and every
`published` is emitted in tail position; what the daemon does meanwhile is queued and
is the same as having done it just after.

Type, domain, port, subtypes and text are one value (`Configs`): the code treats them
alike. `SetConfig` stands for their five setters. Names are abstract;
`GetAlternativeServiceName` gives any other one. The `UNCOMMITED` and `REGISTERING`
signals of a group, which the handler ignores, are not sent. Signals of other objects'
groups are dropped by `isOurMsg` and are not modelled. The daemon's restart is one step;
an unreachable daemon is a D-Bus call that fails (`Faults`). Of two calls nobody looks at
the reply: `Reset` may leave the group as it was, and `AddServiceSubtype` may leave an entry
that is not `whole`.

### `AvahiServiceBrowser`

One `ServiceBrowser` with the `RemoteService` objects it resolves. An announcement is one
instance on one interface and protocol; `NameOf` gives its service, since interface and
protocol are what the code drops. Objects have an identity, which is also the path of
their resolver. `heard` (what the delivered signals amount to), `batch` (changes not
concluded by `finished`) and `disturbed` are history variables. The handlers are actions
named as in the daemon's interface (`ItemNew`, `ItemRemove`) or in the code
(`BrowserFinished`, `Resolved` for `serviceResolved`), with the shared ends
`QueryFinished` and `InBatch`. Time is abstracted: an active timer may fire at any moment.

A slot of the application may run an event loop of its own. The handler that emitted the
signal is then on the stack `suspended`, with what it has still to do, and `Resume` does
it: `m_services.removeAll(found)` after `serviceRemoved`, and `m_duringResolve.erase(it)`
after `serviceAdded`. The iterator `it` is `stale` once the list has changed in between,
also if it has changed back: `gotNewService` appends an object whose refused resolver takes
it off again within the same step (`IteratorsDie`). Using a stale iterator is undefined and
ends in `crashed`. Emissions in tail position need no stack.
Nested loops break two things, which the model has and the properties therefore exclude
by `disturbed` and `crashed`: a second `ItemRemove` of a name whose `serviceRemoved` is
being handled finds the same object again, so that one too few leaves the list; and any
change of `m_duringResolve` inside `serviceAdded` invalidates the iterator.

### `AvahiRemoteService`

One `RemoteService` that the application resolves by itself, with `resolve` or
`resolveAsync`. `AvahiServiceBrowser` sees such an object from outside (one resolver, one
answer); here are its insides: the flags, the path that `isOurMsg` compares, host and
port (one value), the keys of the text data. `told` maps each resolver the daemon holds
to the last it has said, so `DOMAIN told` is what a forgotten `Free` would leak. Signals
of earlier requests stay on the bus, also across the deletion of the object, and only the
path tells them apart. The daemon may find a service after it had given up, and give up
after it had found it. The name and domain that `gotFound` assigns are those that were
asked for and are left out. `watch` is a history variable: the application has asked for
more than `resolve`.

### `TypeDirectory` and `AvahiServiceTypeBrowser`

`TypeDirectory` is the abstract specification of a `ServiceTypeBrowser`, as an application
sees it: a set of types, one signal for each change of it, `finished` to conclude. It
knows nothing of interfaces, protocols, timers or the bus. `AvahiServiceTypeBrowser` is
the code: a vector of announcements (here: how often it holds each, since its order only
shows in the order of `serviceTypes`), of which the first and the last of a type are
told. The refinement mapping (`Directory`) is `open <- m_browser` (not null),
`types <- ServiceTypes`, `pending <- batch`. An object whose request was refused never
opens, and owes `finished` all the same (`Unavailable`). `batch` and `said` are history variables, as in `AvahiServiceBrowser`.

### `ServiceBase`, `DomainDirectory`, `AvahiDomainBrowser`, `MdnsdDomainBrowser`, `DomainModel`

`ServiceBase` has the pure functions. A domain is a record of what the functions look at:
its label, the script of its characters, the last section and how it is encoded; `ToAce`,
`FromAce` and `Bytes` do what Qt does to these. `DomainDirectory` is the abstract
specification of a `DomainBrowser`, and no wider than `domainbrowser.h`: a set of domains
that opens once, and a signal for exactly every change of it. Avahi's browser is shown to
implement it. mdnsd's does three things that the header does not allow, which
`DomainDirectory` names apart from its specification, as `Lapses`: it stops when the daemon
is lost, starts again, and emits `domainRemoved` for a domain it does not list.
`ImplementsDirectory` grants them to mdnsd only, so that it says there are no others, and
the run `domains_promises` shows that they happen.
The Avahi one keeps, as above, the stack of handlers in `domainRemoved` slots, and runs
`startBrowse` one configured name at a time, since each emits `domainAdded`. The mdnsd one
may be started again on top of its old list (`leftover`), reports removals of what it does
not list, and skips what comes with the default flag. `DomainModel` composes the view
with either of them: `backend` chooses one at the start. `laidOut` is what a view found
in `domains()` at the last `layoutChanged()`.

### `MdnsdResponder`, `MdnsdPublicService`

`MdnsdResponder` is the connection every mdnsd object owns, as operators on a record;
`allocated` counts what the client library has handed out and not got back.
`MdnsdPublicService` is one object with its connection, what the daemon has registered
over it and the replies not read. `suspended` is the stack of `publish()` calls and of
`customEvent` calls that wait for a slot of `published(true)`, to any depth: a slot may call
`publish()` again, also inside `publish()`. A `publish()` frame that is `inSlot` has called a
slot of `published(false)`, which is emitted in tail position but may still act. Two
histories: `confirmed`, the daemon has reported a registration over this connection;
`crossed`, a reply was read inside a suspended `customEvent`. The daemon keeps the record it
was given and changes its name only (`Under`).

### `MdnsdRemoteService`, `MdnsdServiceBrowser`, `MdnsdBrowsing`

The mdnsd browser with its objects, each of which has a connection of its own; replies on
different connections are not ordered. `MdnsdRemoteService` has the methods of an object
as operators, `MdnsdServiceBrowser` the browser and the daemon, and `MdnsdBrowsing`
composes both with whatever owns the browser: a `ServiceTypeBrowser` of the same backend,
or a `ServiceModel` (which is the same for all backends). Their slots run inside the
browser's step, as Qt runs them. A reply on an object's connection is read in the step in
which it comes, because nothing is ordered with it; a connection may break at any moment
(which covers a daemon that dies) once what was on it has been read.
The daemon announces a name once per interface; the code sees only the name, so `known`
counts.

### `AvahiListener`, `AvahiListeners`, `PublicService`

`AvahiListener` is the base class of the Avahi objects: `isOurMsg`, and what the daemon's
numbering of paths guarantees. `AvahiListeners` and `PublicService` compose modules whose
objects share code or a header and no state; they add no step of their own. In
`AvahiListeners` one variable, `kind`, says whether a `ServiceBrowser`, a
`ServiceTypeBrowser` or a `RemoteService` listens to the bus; in `PublicService` `backend`
says over which daemon `publicservice.h` is implemented, as CMake decides it
(`src/src/CMakeLists.txt`), and `mortal` whether the mdnsd daemon may die. These never
change, and the variables of the object that is not there never leave their initial values.
What several objects promise in the same words - `finished`, an answer, `published` - is
stated there once.

### The `MC...` and `...Proofs` modules, `QList` and `ListFacts`

Values for the constants, and the theorems, of the module they are named after.

`QList` has the one list operation of Qt that the code leaves to the library and the
community modules do not have: `removeAll`. `ListFacts` is the library of lemmas the proofs
about browsers share: what `Append`, `Tail`, `Front`, `RemoveAt`, `RemoveAll` and `SetToSeq`
do to the elements of a list and to how often each occurs in it (`Occurrences`), and how a
queue of signals leads from what its reader has heard to what its writer knows
(`Connects`). What a recursive function on lists computes is proved by the least-number
principle (`LeastNumber`): of the lengths for which a statement fails there would be a
least one.

Definitions named `Mut...` are faulty variants of the definition that follows them; no
specification uses them. Each is a plausible bug, and shows that a property would
notice it.

## What the runs check

| Run | Configuration | What it shows |
|---|---|---|
| `publish_safety` | `AvahiPublicServiceSafety.cfg` | Avahi: all interleavings with every D-Bus call but `Reset` failing at will, four server states, restarts and calls from inside `publish`: type invariant, `StoppedIsWithdrawn`, `CollisionIsWithdrawn`, `AnnouncedIsCurrent`, `NoLostWakeup`, `VerdictNotLost`, `AppNeverStranded` |
| `publishers` | `PublicService.cfg` | Either backend. `publish` returns and `publishAsync` is answered: over Avahi if the server does not enter `FAILURE` and `Commit` and `Reset` are accepted, over mdnsd also if the daemon dies (`publish`) or if it lives (`publishAsync`). `NoConnectionLeaks`, `AnnouncedIsCurrent` with any mdnsd daemon; `PublishedIsConfirmed`, `AppNeverStranded` with one that lives |
| `browse_accounts` | `AvahiServiceBrowserAccounts.cfg` | Both browsing modes, three objects, resolvers that succeed, a daemon that may die, slots that run an event loop: `InstancesAccounted`, `BatchHasAnEnd` |
| `listeners` | `AvahiListeners.cfg` | Refused requests, failing resolvers, slots that run an event loop, a daemon that may die. `ServiceBrowser`: distinct objects, `AnswerComing`, batches concluded. `ServiceTypeBrowser`: `ListIsCurrent` (one entry per announcement the daemon has), `ImplementsDirectory` (refinement of `TypeDirectory`), batches concluded. `RemoteService`: `OneResolver` (no leak, none lost), `AnswerComing`, `OwnAnswer`, `Monitored`, `resolve` returns |
| `domains` | `DomainModel.cfg` | Both backends, configured names, refused requests, nested event loops, a daemon that may die: `ListIsCurrent`, `DomainsAreDistinct` (spellings of one name), `ViewShowsDomains`, `ImplementsDirectory` (refinement of `DomainDirectory`) |
| `mdnsd_browse` | `MdnsdBrowsing.cfg` | Both browsing modes, failing resolves, `resolve` and `resolveAsync` of reported objects, errors, broken connections, repeated `startBrowse`: `InstancesAccounted`, `ObserversFollow` (types and views), batches concluded |
| `publish_null_group` | `AvahiPublicServiceNullGroup.cfg` | Counterexample to `NoCrash`: a setter dereferences the null `m_group` |
| `browse_settled` | `AvahiServiceBrowserSettled.cfg` | Counterexample to `FinishedWhenSettled`: `finished` comes with the first answer, before `AllForNow` |
| `types_refused` | `AvahiServiceTypeBrowserRefused.cfg` | Counterexample to `StartConcludes`: a refused `startBrowse` never emits `finished` |
| `resolve_once` | `AvahiRemoteServiceOnce.cfg` | Counterexample to `ResolvedOnce`: after `resolve` the object goes on following the service |
| `domains_promises` | `DomainModelDirectory.cfg` | Counterexample to `KeepsDirectory`: mdnsd's browser is started again on top of its old list |
| `mdnsd_truth` | `MdnsdPublicServiceTruth.cfg` | Counterexample to `PublishIsTruthful`: `publish` returns true for a registration nobody has confirmed |

The counterexamples are behaviours of the code that contradict a sentence of the public
headers; `PROJECT.json` ("findings") quotes it.

### Promises that are not kept, without a run

The modules define further properties that a header or comment promises and the code does
not keep. Each is stated at the end of its module, with the line it comes from; TLC finds a
counterexample when it is put into a configuration of that module (as PROPERTY if it has a
box, else as INVARIANT). Constants not named here are those of the runs above.

| Property | Module | What happens |
|---|---|---|
| `PublishIsTruthful` | `AvahiPublicService` | `publish` returns true on an `ESTABLISHED` of an earlier publication that was still queued |
| `OneServicePerGroup` | `AvahiPublicService` | a setter during a server collision fills the group, which is filled again afterwards: two entries |
| `StopStopsPublishing` | `AvahiPublicService`, `Faults <- AllFaults` | a `Reset` that fails leaves a stopped service announced |
| `SubtypesAreAnnounced` | `AvahiPublicService` | a subtype the daemon refuses is dropped without a word |
| `PublishTerminates` | `AvahiPublicService`, `Faults <- CommitRefused` or `ServerStates <- AllServerStates` (then `Faults <- NoFaults`) | a refused `Commit`, or a server in `FAILURE`, leaves `publish` spinning: the premises of the run `publishers` are needed |
| `TextIsCurrent` | `AvahiRemoteService` | a key the service has withdrawn stays in `textData` |
| `ResolvedIsMonitored` | `AvahiRemoteService` | a `Found` queued behind a `Failure` resolves an object that has no resolver any more |
| `RemovedWasListed` | `DomainModel` | mdnsd: `domainRemoved` of a domain that is not listed (the second half of `KeepsDirectory`) |
| `KnownIsListed` | `DomainModel` | a domain on two interfaces goes with the first removal, with either backend |
| `AnswerComes` | `MdnsdPublicService` | a request whose connection breaks is never answered |
| `NewNameIsKept` | `MdnsdPublicService` | a name set by a slot of `published(true)` is overwritten by the old one |
| `ErrorConcludes` | `MdnsdServiceBrowser` (with `MdnsdBrowsing`) | an error of the browse after the timer leaves the batch without `finished` |
| `OnlyFirstStart` | `MdnsdServiceBrowser` (with `MdnsdBrowsing`) | `startBrowse` starts again, on top of the old list |
| `TypeStays` | `MdnsdBrowsing` | a type goes with the first of its services, while others are listed |

What the modules show besides, of which no header says anything:

- Avahi `ServiceBrowser`: `ItemRemove` ignores the interface, so after a failed resolve it
  takes the object of another one.
- mdnsd `DomainBrowser` asks for browsing domains for both types
  (`mdnsd-domainbrowser.cpp:39`); type `Publishing` is therefore not told apart.
- mdnsd `ServiceBrowser`: an object whose connection breaks during its resolve is awaited
  for ever.
- `domainIsLocal` does not take "local." for a local domain; the constructor of the mdnsd
  `PublicService` uses that spelling.

### Bounds, and why they are enough

- Two names: one and its alternative; a third could only repeat what the second shows,
  because the code never compares names. Two configurations, so that an old and a new
  one can be told apart.
- A bus of three undelivered signals (`MaxQueue`): one stale signal of the group, one
  of the server and the current one; two in the other runs, where a stale and a current
  signal suffice. The proofs hold for every length.
- Four paths for the resolvers of `AvahiRemoteService`: the object's, one on each of two
  queued signals, and a fresh one (`PathsAssumption`). Two hosts and one key: an old
  answer differs from a new one in either.
- Two instances of one service (two interfaces) and one of another: the first pair shows
  the mix-up of interfaces, the third that names keep apart; the same for types. Identities are enough for
  every listed object and every queued answer (`IdsAssumption`).
- Three objects in `browse_accounts`, one for each instance; two in `listeners`, where their
  resolvers may fail as well. One nested event loop (`MaxNesting`) in both, as handlers meet
  in pairs; two for the mdnsd `PublicService`, where a `publish` may lie between them.
- Four announcements of domains (`DomainModel.cfg`): two interfaces that spell one name
  differently, a local one and one that is garbled on the way, besides the configured
  names: three domains that can be taken off, one more than the two rows `ViewShowsDomains`
  allows to be just leaving.
- Two replies not read (`publishers`, `mdnsd_browse`): one with and one without more
  coming, or an old and a new one. Two objects (`MaxObjects`): the two of one service, or
  one each of two; a list that was left by an earlier connection needs no more.

### Fairness

`WF(Deliver)`, `WF(PublishReturns)`, `WF(TimerFires)`: the event loop runs - `publish`
runs it itself. `SF` of the daemon's steps to `ESTABLISHED`, to `RUNNING` and of a
resolver's answer: the daemon finishes a probe or a query in bounded time unless it is
disturbed, and strong fairness says that it is not disturbed each time; it also makes up
for the bound of the bus. Of the application nothing is assumed for the Avahi objects but,
in `publishers`, that it does not call the object from inside `publish`
(`Reentrant <- FALSE`; `publish_safety` has it): one that stops and publishes again in a slot, for ever,
keeps `publish` from returning by its own doing. For the browsers, liveness is stated for
runs in which the daemon one day stops announcing (`Quiet`): a list that changes for ever
never settles, and a timer that is restarted for ever does not fire. `ResolveTerminates`
is stated for slots that one day stop making requests from inside `resolve`, and for a
daemon that lives; `Speaks`, the first answer of some resolver, is strongly fair. A daemon
that dies while an object is being resolved leaves `resolve` spinning and a
`ServiceBrowser` without `finished`: nothing in the code watches for it. `BatchConcludes`
of `AvahiServiceBrowser` is therefore conditional on a daemon that stays and on no dead
iterator having been used (`Works`); the type browser needs no such premise, since its
timer alone concludes a batch. Slots return (`WF(Resume)`).

For the mdnsd objects sockets are read (`WF(Process)`), the daemon answers registrations
and resolves, and `BatchConcludes` is conditional on browsing going on and on awaited objects
keeping their connections, again `Works`. `PublishTerminates` and `AsyncCompletes` of the
mdnsd object have `Calm` for a premise: the application's slots and setters and the daemon's
renames one day leave the object alone. A broken connection needs no premise for `publish`:
`process` closes it and the loop ends; `publishAsync` is then never answered, so
`AsyncCompletes` is stated for a daemon that lives.

## What is proved

`AvahiPublicServiceProofs` proves, for all sets of names, configurations, server states
and faults and for every bus length, that `Spec` implies always: `TypeOK`,
`StoppedIsWithdrawn`, `CollisionIsWithdrawn`, `AnnouncedIsCurrent`, `NoLostWakeup`,
`VerdictNotLost` and `AppNeverStranded`. The theorems on `TypeOK` and `NoLostWakeup` assume
nothing but what `AvahiPublicService` does of its constants; the others assume that `Reset`
is obeyed (`ResetObeyed`), since a `Reset` that fails leaves a stopped service announced
(`StopStopsPublishing`). Every other call may fail.

The argument is one inductive invariant, `IInv`:

- `Sound(svc)`, about the object alone. The properties are not inductive one by one: that
  a stopped service has an *empty* group is what keeps the next publication from
  announcing old entries; that the proxies exist when needed (`Wired`) is what makes the
  withdrawal in `stop` effective. One lemma per C++ method shows that from any object
  that fits its precondition the method leaves a `Sound` one, with every choice of
  replies; `Ready` is the precondition of `tryApply`.
- `LatestIsCurrent`: the last server signal on the bus carries the server's present
  state. `NoLostWakeup` only speaks of an empty bus and needs this to survive the
  delivery of the last signal. An object without `m_server` has no server signals.
- `VerdictNotLost`: preserved since a handler either keeps the verdict of the group or
  withdraws the group (`Undisturbed` and the `Facts` lemmas).

Every action preserves `IInv` (`AppInv`, `DeliverInv`, `ServerStep`, `GroupChangesInv`,
put together in `StepInv`); each theorem then follows from `Invariance`.

`AvahiServiceTypeBrowserProofs` proves, for every set of announcements and types and
every bus length, `TypeOK`, `ListIsCurrent` and that `Spec` implies `ImplementsDirectory`.

- `ListIsCurrent` says something of announcements nothing is queued about. What is
  inductive says of each announcement that the signals about it on the bus alternate and
  lead from what the vector holds to what the daemon knows (`Consistent`). Two lemmas about
  sequences carry it: `TailConsistent` for a delivery, `AppendConsistent` for a signal
  sent; no induction is needed.
- The refinement needs of the invariant only the types and that nothing is heard without
  a browser; `StepSimulates` maps each action to a step of `TypeDirectory`. It does not
  rest on the daemon sending each announcement once.

`AvahiRemoteServiceProofs` proves `TypeOK`, `OneResolver`, `AnswerComing`, `OwnAnswer` and
`Monitored`. `Monitored` is not inductive: the last signal of the object's resolver on
the bus must be the last it has said (`LastIsTold`; `TailLast` and `SpeaksInv` keep it).
That there is always a path for a new resolver (`FreshPathExists`) is a counting
argument from `PathsAssumption`.

`MdnsdPublicServiceProofs` proves `TypeOK`, `NoConnectionLeaks`, `AnnouncedIsCurrent`,
`PublishedIsConfirmed` and `AppNeverStranded`, for every number of unread replies and every
depth of nested `publish` calls and slots; the last two for a daemon that lives
(`~DaemonMayDie`), since `m_published` outlives a connection that breaks (run `mdnsd_truth`).

- `Sound(svc)` is about the object and its connection: one connection, owned; replies and
  records only over one that runs; while the daemon lives (`Lively`), `m_published` backed by a
  registration confirmed over the present connection. One lemma per method keeps it.
- `AnnouncedIsCurrent` holds only when everything is read. On its way to the object the
  registered name is in the last reply, then in the frame of the `customEvent` that has
  emitted `published(true)` and not yet assigned it; `NameArrives` follows it there, and
  `OneEvent` says that only one such frame exists unless a reply was read inside it.

`DomainModelProofs` proves `TypeOK`, `ListIsCurrent`, `DomainsAreDistinct`, `ViewShowsDomains`
and that `Spec` implies `ImplementsDirectory`, with either backend, for any number of
domains, interfaces, configured names, queued signals and nested event loops.

- Behind the list stands what its browser has heard, and the bus connects that to what
  the daemon has announced. The list follows what was heard, but for domains a suspended
  handler is just taking off (Avahi) or that an earlier connection left (mdnsd).
- A view may show a domain that is just leaving. With nested loops there may be several:
  `ViewShowsDomains` bounds them, and what is inductive bounds them together with the
  handlers that are suspended, since each of those may add one more.
- `DomainsAreDistinct` needs that the script of a domain is a matter of its label
  (`ScriptsAssumption`). For the refinement every step is mapped to one change of the
  directory or to a stutter - for mdnsd, or to one of the `Lapses`.

`AvahiServiceBrowserProofs` proves `TypeOK`, `InstancesAccounted`, `AnswerComing` and
`BatchHasAnEnd`, for every set of announcements and objects, bus length and depth of
nested loops. Each action is first reduced to what it does to five sets of objects and three
numbers per service (`Effect`); the parts of the invariant speak of these alone:

- `Accounts`: `InstancesAccounted` says nothing while a handler is suspended. What is
  inductive counts the suspended handlers: for a service whose handlers have not met,
  there is at most one, and objects = announcements heard + suspended handlers, since a
  handler in `serviceRemoved` has its object still listed and one in `serviceAdded` has it in
  both lists. `RemovedAreListed` says that what the handler will take off is still there.
- `BusLeads`: an `ItemRemove` that is delivered is of an announcement that was heard, so
  there is an object for it to find.
- `ObjectsSound`: an identity is that of one object, an object that is removed is not
  awaited, resolvers are of live objects. `AnswerComing` rests on it: freeing one object's
  resolver does not take another's.

`MdnsdBrowsingProofs` proves `TypeOK`, `InstancesAccounted` and `ObserversFollow`, for every
number of interfaces, unread replies and objects, and whatever is refused, fails or
breaks. It has the same form (`Effects`).

- `InStep`: the unread replies lead, one by one, from the number of instances read of to the
  number announced, never below none and never above the number of interfaces
  (`Accounts`). A Remove therefore always has an instance, and with it an object to take,
  unless a resolve of that service has failed. The equation of `InstancesAccounted` alone does
  not say so and is not inductive.
- `FewListed` keeps the upper bound when the connection has gone: a type with one
  announcement and nothing left over is listed once, so taking it off takes the last
  (`TypesFollow`).
- `RowsFollow`: the view shows the list or the list as it was before the last object left;
  `CellsShown` computes what `data` answers.

The parts of these invariants that TLC can evaluate were model-checked before they were
proved. The assumptions are those the modules make about their constants (`ASSUME`).

Every safety property of the passing runs and both refinements are thus proved, for the
module each is defined in: `PublicService` and `AvahiListeners` only repeat them for the
object that is there, and have no theorems of their own. Only
model-checked are the liveness properties (`PublishTerminates`, `AsyncCompletes`,
`ResolveTerminates` and `BatchConcludes` of the browsers: temporal reasoning under fairness
is out of the prover's reach) and the counterexamples.

## Not modelled

The dummy backend, the generated proxies, the build and the translations have no state
worth a model. `isAvailable`, `resolveHostName` and `getLocalHostName` are single
stateless calls, as are the getters of `ServiceBase` and `headerData`. Of the text records
only the keys (Avahi) or their presence (mdnsd) are kept. Application slots that run an
event loop are modelled for both `ServiceBrowser` and `DomainBrowser` of Avahi and for
`PublicService` of mdnsd, not for the mdnsd `ServiceBrowser`, whose stack would be that of
`AvahiServiceBrowser`. Deleting an object inside one of its own signals is not provided
for by the code and left out. Several objects on one bus, told apart by `isOurMsg`, are
modelled for `AvahiRemoteService` only, whose earlier resolvers are such objects.

## Plan

What is left, in this order:

1. For each `BatchConcludes` and `PublishTerminates`, the safety facts a proof by hand would
   rest on, as action properties with theorems: a batch is concluded in the step in which
   its last reason to wait goes, and `published` is emitted in the step that settles an
   attempt.
2. The second half of `TypesFollow`: an abstract specification that says in which order
   types come and go, implemented by the mdnsd `ServiceTypeBrowser`.
3. Application slots with event loops of their own for the mdnsd `ServiceBrowser`, with the
   stack of `AvahiServiceBrowser`, and the invariant `InStep` extended by it.
