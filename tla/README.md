# TLA+ for proxyreverse

proxyreverse is a reverse proxy written in Go. It listens on a few addresses,
finds for the `Host` of each request the site that is configured for it, by
name or through wildcards, and forwards the request to the site's backend
through a chain of proxies. This directory holds TLA+ modules for its core,
TLC configurations that check them on small instances, and TLAPS proofs of what
matters most for all instances.

    tlc -config MCEdgeListener.cfg MCEdgeListener      # check one instance
    tlapm EdgeListenerProofs.tla                       # check the proofs

`PROJECT.json` lists the runs, maps every definition to the lines of the code
it stands for, and lists the hazards the properties are for. A definition that
its comment calls a mutant changes another one the way a plausible bug would; no
specification uses it, it shows that a property can fail.

## The system

| Component | State | Operations | Who acts on it |
|---|---|---|---|
| HTTP edge listener, `pkg/server/listeners.go` | the tree of matchers (`backends`): per label a subtree, per node a backend | `AddSite`, `matchSite`, `handler`, `NewHTTPEdgeListener` | the main goroutine writes the tree, one goroutine per connection reads it, **without a lock** |
| Server, `pkg/server/server.go` | the maps `proxychains`, `listenPorts`, `listenNames`, `listeners`, `httpSiteMapping` | one loop for each of them, then wait for the context | the main goroutine; each listener adds a goroutine that serves and one that waits to shut down |
| Entrypoint, `pkg/entrypoint/entrypoint.go` | the application's context, the signal channel, the exit code | parse, load, run `Server`, catch SIGTERM once, exit | main and the signal goroutine |
| HTTP backend, `pkg/server/backends.go` | the HTTP client with its TLS configuration, header lists | `NewHTTPBackend`, `ServeHTTP` | all requests for the site, at once |
| Target selectors, `pkg/server/target_selectors.go` | none of their own; they edit the request's path | `GetTarget` | a request |
| Proxychains, `pkg/server/proxychains.go` | the dialer built so far | `NewProxychainFromConfig` | main |
| Configuration, `pkg/server/config` | the decoded configuration | merge with the defaults, two decoding passes, certificate pools | main |
| Release build, `magefile.go` | the queue of slots, the jobs and their result channels; binaries and archives on disk | `concurrentRun`, `waitResults`, `ReleaseAll` and the targets below it, `Clean` | a goroutine per platform, per job and per result; the next run |
| Hooks and tools, `magefile.go`, `githooks` | `.git/hooks`, the tools that are installed | `Autogen`, `Tools`, `concurrencyLimitedBuild`, `Style`, `Lint` | the developer, and git at each commit |

How they interact: `Entrypoint` loads the configuration and calls `Server`,
which builds the chains, **starts the listeners, and only then** creates the
backends and attaches them with `AddSite`. From the first `net.Listen` on,
clients are served. A request goroutine runs `handler`, `matchSite`, then the
backend's `ServeHTTP`, which asks a target selector and dials through the
chain. SIGTERM cancels the context; each listener's goroutine then calls
`Shutdown`, and `Server` returns without waiting for them: the process may end
while requests are being served. The build is a program of its own; the hooks
that it installs call it again.

What is hard here, and what makes each part correct:

* **Edge listener.** Attaching races with serving. A site becomes visible at
  one moment; a request is given to a site that stands for its host or to none;
  a host with its own site goes there however many wildcards surround it; when
  all sites are attached, routing depends on the configuration alone and not on
  the order of a Go map.
* **Server.** Three loops run in map order, errors are sometimes returned and
  sometimes only logged. How startup ends should follow from the configuration;
  "Startup complete" should mean that every site is served by each of its
  listeners; SIGTERM should end the process whenever it comes.
* **Backend.** One TLS configuration is changed by all requests: which name a
  connection is made with depends on the others. A request should be answered
  by its own target or by nobody. Headers are set, deleted and copied in maps
  that other code holds, ports and paths are parsed with errors ignored, and so is
  the error of a reply that breaks off.
* **Configuration.** What the user writes must survive the merge, what was
  checked in the first decoding pass must hold in the second although files
  change, and a chain must lead through all of its proxies in their order.
* **Entrypoint.** A signal may come before it is listened for, during startup,
  or twice; bind errors are only logged, check errors are returned. The exit
  code should tell what happened, and only a stop, an error of the startup, a
  broken listener or a panic of its own handler should cost a client its request.
* **Release build.** Goroutines hold one slot while they wait for another.
  Files are found again by the next run, which takes their time for their
  content.
* **Hooks and tools.** A file is edited through slices that share an array, and
  rewritten in place, once per script, while git may be running it. An accepted
  commit should have passed all scripts.

The hazards are listed at their lines in `PROJECT.json`.

## Modules

| Module | Models | Checked in | Proofs |
|---|---|---|---|
| `HostTrie` | the tree as a value, `matchSite` run alone, and what it means for a site to stand for a host | through the others | lemmas in `HostTrieProofs` |
| `EdgeListener` | one listener from its first request to the end, `AddSite` and `matchSite` access by access | `MCEdgeListener` | `EdgeListenerProofs` |
| `SiteTable` | what a listener promises, without a tree | as a property of `EdgeListener` | `EdgeListenerProofs` |
| `ServerStartup` | `Server`, the signal goroutine, the listeners' goroutines | through `Entrypoint` | `EntrypointProofs` |
| `Entrypoint` | one process around it, from `main` to the exit code, and the clients' connections | `MCEntrypoint` | `EntrypointProofs` |
| `MatchSite` | the rules of `matchSite` without tree or loop | through `Handler` | `HandlerProofs` |
| `Outbound` | one request in `ServeHTTP`: headers, target, URL | through `Handler` | `HandlerProofs` |
| `Answer` | the rest of `ServeHTTP`: the reply as the client library gives it back, headers, status and body | through `Handler` | `HandlerProofs` |
| `Handler` | a request from its arrival to the client's answer, for backends as they are written | `MCHandler` | `HandlerProofs` |
| `Backend` | the requests of one backend and its client, side by side | `MCBackend` | `BackendProofs` |
| `ConfigMerge` | `configMapMerge` | through `Configuration` | `ConfigurationProofs` |
| `ConfigLoad` | `Load`: the merge, then two decoding passes and the certificate pool | through `Configuration` | `ConfigurationProofs` |
| `Proxychain` | `NewProxychainFromConfig` | through `Configuration` | `ConfigurationProofs` |
| `Configuration` | `Load`, then the first loop of `Server` | `MCConfiguration` | `ConfigurationProofs` |
| `BuildPool` | `ReleaseAll` and the queue of slots | `MCReleaseFiles`, `MCBuildPool` | `ReleaseProofs` |
| `ReleaseFiles` | what its jobs do to the binaries and archives, over several runs | `MCReleaseFiles` | `ReleaseProofs` |
| `HookMerge` | `Autogen` and the files in `.git/hooks` | through `Commit` | `CommitProofs` |
| `ToolBuild` | `Tools` and `concurrencyLimitedBuild` | through `Commit` | `CommitProofs` |
| `Commit` | git runs the hook, its scripts build the tools and lint | `MCCommit` | `CommitProofs` |

### HostTrie

A host is the sequence of its labels. A tree is a function: its domain is the
set of matcher objects, each named by the labels on the way from the root, its
value the matcher's backend, named by the host of its site (`NoBackend` is
nil). A node's `subtrees` map is not stored: it has a key exactly when the
longer path is in the domain. That is sound because a matcher is created once,
never moved and never removed.

`MatchLabel` is one iteration of `matchSite`'s loop, `Cursor` the recursive
function that gives where the loop stands behind each component, and `MatchSite`
what it returns.
`StandsFor` and `Covers` say without a tree what it means that a path of labels
matches the beginning of a host.

### EdgeListener

The main goroutine's program counter `pc` walks through the attach loop
(`range`), `AddSite`'s loop (`walk`) and its two writes (`insert`, `set`);
`depth` is how far `currentMatcher` has come along `hostComponents`. Every map
access is a step. A write is two steps, and what a reader may see in between is
a choice of the reader's step:

* the runtime notices a concurrent map access and stops the process
  (`FatalError`);
* a reader of the map that is being inserted into misses the key, any key: the
  insertion may be moving the buckets (`TryWildcard`, `SkipComponent`, `Stop`);
* a reader of the inserted key finds it before its value, or a reader of the
  backend sees half of an interface value, and the goroutine panics, which
  net/http recovers (`Panic`).

A finished write is visible to everyone (as on amd64; the Go memory model would
allow more). One `EdgeListener` is one listener. The sites of other listeners
do not touch its tree, and the attach loop stopping at an unknown listener is
in `ServerStartup`. Requests are slots that serve one request after the other;
`handler` after the backend was called is `Finish`.

History fields (`settled`, `attachedOwn`, `raced`) only record and are read by
no guard.

### SiteTable

A set `attached` that grows by whole sites; a pending request is answered with
the one answer of the configuration if all sites were attached on arrival, and
with an attached site that may serve it, or none, otherwise; requests are
dropped and the process dies only while sites are missing.
`EdgeListener!ImplementsSiteTable` is the refinement: a site whose `AddSite` is
under way is not attached yet, however many of its matchers exist.

### ServerStartup, Entrypoint

`pc` names the loop, `todo` holds the map keys it has not ranged over: any of
them may be next. An early return is the step `Fail`. A listener's address is a
host, which `netip.ParseAddr` accepts (`Literals`) or not (`Hostnames`), and a
port with its network. A failed parse leaves the zero address in the key, a
failed bind a nil interface in `listeners`, and `AddSite` on it panics. Two keys
of one port of which one is `0.0.0.0` cannot be bound at the same time.

`socket` follows each listener's two goroutines. `Shutdown` may come before
`Serve`, which then returns at once. `Held` are the sockets that have not been
given back: when the startup is complete these are all of them, unless a `Serve`
has failed or SIGTERM has come during the startup, which goes on regardless.

`Entrypoint` extends it. `stage` says how far the function is: before `Launch`
a SIGTERM kills the process (`Killed`), after it the signal goroutine is there;
`LoadConfig` is the two loads of the file, which fail, succeed, or are all that
`dump-config` needs. `Exit` ends the process with `ExitCode`, whatever the other
goroutines are at. A client's connection is queued from `net.Listen` on, active
once `Serve` has accepted it, and answered at some moment or never. A request that was
accepted before all sites of its listener were attached is `early`: the two races
of `EdgeListener` are here its `HandlerPanics`, which net/http recovers and drops
the connection, and `RaceIsFatal`, which ends the process with code 2. A handler
also panics at a site whose index no path has. Closing a listener resets what is
queued (`CloseListener`); the end of the process cuts what is active and resets
what is queued (`EndConnections`). A panic in the main goroutine is exit code 2.

### BuildPool, ReleaseFiles

`queue` is the length of the channel of slots. `ConcurrentRun` blocks the
platform's goroutine while it is full. `Receive` needs the receiver that
`WaitResults` starts after the loop over the batch; only then does `Release`
give the slot back. This order is what makes the build hang with few slots.

`ReleaseFiles` refines a job's return into what the job does: it compiles a
command unless the binary is there and newer than all Go sources, or removes an
archive and writes it again. A source is a count of edits, a binary records the
counts it was made `from` and the one it was written at (`mtime`), and whether
an edit came in between (`overtaken`) or a kill (`whole`). `ReleaseAgain` is a
kill or an end at any moment and a new process; what a killed compiler was
writing may be cut, and an archive that was being written is not whole.
`begun` is history.

### HookMerge, ToolBuild, Commit

`HookMerge` holds a file as its lines and `Autogen` as one step per script that
reads a hook and computes the new lines, one that empties the file and one that
fills it. `AppendedInPlace` is the append of the code: the slice `splitHook[:headAt]`
keeps the array's capacity, so a section that fits is written over the lines
behind it before they are read. A line that calls a script is the script's name.
The developer may stop it between any two steps (`Interrupt`) and call it again.

`ToolBuild` has one goroutine per tool that waits for a slot, builds, sends its
result to a channel with room for all, and gives the slot back. `Commit` puts
both together: git starts the hook at any moment, even while it is being written.
The shell that runs it does not take the file as a whole: after each script it
reads on at its offset. `behind` is the lines that it has passed as it read them;
while the file still begins with them, they say where the offset is, and once
`Autogen` has emptied or refilled the file under it (`Moved`) it may be anywhere
(`Places`). Lines that call scripts (`Called`) start a process each that calls
`Tools` and the linter; `"|| exit $?"` ends the hook at the first that fails. Other
lines (`Foreign`) may fail it, and are assumed not to end it with success.
`version` is history: `CommitIsChecked` is about a hook that was whole when git
started it and was not written to since.

### MatchSite, Outbound, Handler

`MatchSite` states the rules of routing without a tree or a loop: a walk says
for each component, from the top-level domain down, whether it matches itself, a
wildcard or, behind a wildcard, nothing, and `Followed` gives the labels that it
has matched behind each. `BestSite` is the site at the end of
the best walk, and `OutcomeFollowsSite` says that the greedy loop finds it, that
the request gets to the backend written for this site, and that the configuration
is refused exactly when a site has a mistake (`Mistaken`).

`Handler` starts from the backends as they are written: `Refuse` is a target
that `HostSpec` does not decode or a selector that `NewTargetSelector` does not
make, `Configure` is `NewHTTPBackend` for each site. Then one request runs
`handler`, `matchSite` (a step, because nothing changes the tree any more) and
`ServeHTTP`.

`Outbound` is `ServeHTTP` up to the call of the client: headers are set,
then deleted, the selector picks the target, the URL is put together. `headers`
is one map although the code has two names for it, because `outbound.Headers`
is assigned from the request's. A header key is a name and a spelling: the
server has canonicalised those of the request, the configuration's are raw.

A string with a host and ports is a record of the name and the sequence of
ports after it. That is enough to tell apart what `SplitHostPort` accepts (one
port) and what it does not, a number that `ParseUint` cuts to sixteen bits, and
text that is no number. `Join` is what `path.Join` does with empty elements and
dots, a fold that pushes one element after the other (`Push`). The client's request is kept in the
history variable `asked`.

An `Index` is an int, and `p.Index+1` wraps at the largest (`Incremented`,
`MaxInt`), so that it panics like a negative one.

`Answer` is what follows. The client library reads the whole body (`Do`), asks for
gzip itself where the request does not say what it accepts, and then unpacks the
body and removes its `Content-Length` (`Unpacks`); a body that breaks off is told
in `resp.Err` only. `ServeHTTP` does not look at it and copies the headers, the status
and what there is of the body (`CopyHeaders`, `WriteHeader`, `CopyBody`). What the
client sees is net/http's decision (`Return`), which holds what was written
against the `Content-Length` that was declared. `CutBodyNoticed` says which cut
replies break off for the client too, and which look complete.

### Backend

The requests of one backend, each a goroutine that is in `ServeHTTP` or in the
client's `Do`. `serverName` is the name in the one `tls.Config` that
`GetTLSClientConfig` returns to all of them, with its two words: they are stored
one after the other (`BeginSetName`, `EndSetName`) without a lock, and a
handshake that copies them in between sees half of each name (`Torn`).

The client is a library (`req`) and is modelled from how it is used: a
connection of the pool is used again for the same host (`Reuse`), otherwise a
new one is made (`Dial`, `Handshake`), with the name of that moment, and refused
unless the certificate is for that name or `no_verify` is set. Connections
break and close at any moment. A reply is a response here; what becomes of its
body is in `Answer`. `disturbed` is history.

### ConfigMerge, ConfigLoad, Proxychain, Configuration

A configuration is a function from the paths of its keys to values, so that a
merge in place is a function that grows. One step is one iteration of one of
the nested loops over `left`, in any order: the loops of a recursive call may
only be interleaved with each other in the model, where the code finishes the
inner one first. That adds orders and removes none, and every order ends in the
same map (`DefaultsFillIn`).

`ConfigLoad` runs `ConfigMerge`, then both `Decode` passes: `WellShaped` is what
mapstructure requires of the values, and `MapStructureDecode` of the certificate
pool is modelled step by step, because `os.Stat` and `ReadFile` are two looks at
a file that somebody may change (`ChangeFile`). `held` and `changed` are history.

In `Proxychain` a dialer is the function that gives for an address the proxies
that a connection to it passes. `FromURL` and `FromEnvironmentUsing` are
external and are defined by what they return. Without a loop, `Only` gives the
explicit proxies of a chain in their order, and `Passing` all proxies that a
connection to an address passes, those of the environment at their places
included. `Configuration` puts the parts
one after the other, as `Entrypoint` and `Server` do: Load, and then each chain
in the random order of a map. Its properties speak of the user's map and of the
finished dialers, over all the steps in between.

## Runs

| Run | Bounds | Question | Result |
|---|---|---|---|
| `MCEdgeListener.cfg` | up to 3 of 6 sites and two sets of 4, 7 hosts of up to 4 labels, 1 request at a time | Are tree and routing right at every access of every order of attachment? Is every request decided, do all sites get attached? | holds |
| `MCHandler.cfg` | all sets of up to two sites of up to 3 labels, the example of the manual with up to 4 rungs, 5 rivals, hosts of up to 4 labels; every way to write a backend next to another site; paths of up to 3 elements of 9 kinds, indexes -1 to 3 and the largest int; every edit of 2 headers in 2 spellings, with 13 kinds of reply | Which site serves, is the backend asked for what the configuration says, and where, and does the client notice a cut reply? | holds |
| `MatchSiteSpecific.cfg` | the same | Is a host that a site matches ever refused? | yes |
| `MCEntrypoint.cfg` | 1-2 listeners of 5 addresses, up to 2 sites, 3 sets of busy addresses, one client at a time | How does startup end, what is served when it is complete, does SIGTERM stop it, with which code, and who loses a request, and why? | holds |
| `MCReleaseFiles.cfg` | a Windows and a Linux platform, 1 command, 2 slots; 1 edit, 2 runs | Are slots counted, errors kept, archives current, does it end? | holds |
| `BuildPoolTwo.cfg` | 2 Windows platforms, 1 command, 2 slots, one run | Does it end? | no |
| `OutboundHostname.cfg` | the same | Does a path element with a port make a target that can be dialed? | no |
| `OutboundDeleted.cfg` | the same | Are headers deleted whatever their spelling? | no |
| `MCBackend.cfg` | 2 requests at a time, 2 hosts, every kind of TLS configuration | Which names are sent, and whose answers arrive? | holds |
| `BackendSharedName.cfg` | the same | Is every connection made with its own host's name? | no |
| `MCCommit.cfg` | 2 hooks with 2 and 3 scripts, found in 19 states; 2 calls of `Autogen`; 2 tools, 1 slot | What is left in the hooks, what has an accepted commit passed, also while the hook is rewritten, is every commit decided? | holds |
| `MCConfiguration.cfg` | users' maps of 3 levels against 4 defaults; up to 3 certificates, 2 files that change twice; chains of up to 4 elements | What survives the merge, what is in a pool, where do connections go? | holds |

Why the bounds are enough:

* The six sites of `MCEdgeListener` overlap in every way the tree tells apart:
  a host beside a wildcard, a wildcard below a wildcard, a bare wildcard, labels
  below a wildcard, one path that is the beginning of another. The hosts reach each, pass one by, and
  end early. Requests only read what the main goroutine writes and do not see
  each other, so that one of them can see everything that one of many can.
* Rules about labels depend on equality and on being the wildcard; three labels
  and length three give every pattern of two decisions and one after them.
* In `ServerStartup` a check compares two listeners, or two sites, or a site and
  a listener; two of each make every check pass and fail at each position.
* One client that asks again after each answer sees everything that one of many
  can, because connections do not see each other.
* Two Windows platforms are the smallest build in which two goroutines each
  hold a slot and want another. With one of them two slots suffice and are still
  contended: its two archives and the other platform's job want three.
* One edit can fall before, into or behind each compilation of each of two runs,
  and a third run would find what the second finds: nothing, a whole file, a cut
  one, or one that is older or newer than a source. Two commands of one platform
  differ from one of each of two only in sharing archives.
* The second script is the first to find a section, the third the first to find
  what the second has damaged; one or two calls of `Autogen` start from no
  section, its own, or a cut file. One slot makes every build wait.
* A selector looks at one element of a path: three are one before it, one after
  it and the element. Every branch on a port has a value below, at and above it.
  `MaxInt` is 100 instead of 2^63-1: no path comes near either.
* A reply's length is declared or not, and then nothing, a part or all of the body
  arrives; it is packed or not, and one cut packed body unpacks to just as much as
  was declared, so that only a removed `Content-Length` tells the two apart.
  Replies vary with the edits of the headers, of which one is `Accept-Encoding`.
* In `Backend` a request is disturbed by one other at a time, and two words are
  torn by two writers. `MCConfigs` only leaves out configurations that differ
  from one it keeps in the name of a host, or in a TLS setting while TLS is off.
* The three families of `MCConfiguration` vary one part of the pipeline each
  while the others are small: the parts hand over values, not control. Three of
  the four defaults are deeper than the embedded file, so that the recursion of
  the merge goes somewhere. Two changes put a different text at each look of one
  `Stat`, `ReadFile` pair, or change a file once in each pass. Chains of four
  have room for an element before and after each two that disagree.

Deadlock is checked everywhere except in the release builds, where a finished
one has nothing left to do (`ReleaseAllReturns` says that it gets there; it is
stated as `[]<>` because a later run waits again). The others let a dead or finished process stutter explicitly.

### Fairness

Weak fairness, and only of what the Go scheduler runs: the main goroutine, a
request goroutine inside `matchSite`, the signal goroutine, `Serve` returning
and `Shutdown`, a platform's goroutine that can go on, a job, the processes that
a hook has started. Nothing makes clients ask, backends answer, the runtime
notice a race, somebody send SIGTERM, edit, commit or call a target, or a socket
break. `Handler`, `Backend` and `Configuration` state safety only:
whether and when a request comes back is up to the backend, and to the client
library's own timeout, which is one of the causes of `Fail`.

### Where code and documentation disagree

Shown by a run:

* Sites `*` and `*.a`: a request for `a` is refused, because the walk has
  followed the label `a` and does not come back to `*` (`MatchingSiteServes`,
  against `README.md:32-34`).
* `ReleaseAll` hangs with two slots (`ReleaseAllReturns`, `magefile.go:243` and
  `214`).
* A path element `h:80` makes the target `h:80:80`, which cannot be dialed
  (`ExtractsHostname`, `target_selectors.go:39-40`).
* Headers to delete are compared as they are spelled (`DeletedNamesNormalized`,
  `models.go:76-77`).
* A connection is made with the name that another request has stored
  (`NamePerRequest`, `backends.go:92`). What contains it is the certificate
  (`AnsweredByTarget`): with `no_verify` nothing does.

Stated in the modules in the same way, next to the properties, and violated when
they are named as the `INVARIANT` of the module's `.cfg`:

* `example.com` also answers `foo.example.com` (`ServesOnlyItsHostname` of
  `Handler`, against `models.go:50`).
* Requests that were accepted are cut off when the process ends after SIGTERM
  (`ShutdownDrains` of `Entrypoint`, `server.go:173`).
* With two scripts or more, the second foot of the section overwrites the first
  line behind it (`LinesBehindKept` of `HookMerge`, against the markers of
  `magefile.go:66-67`); with three, the next step then finds two feet and
  refuses.
* A change of what is compiled in from elsewhere, such as the embedded default
  configuration, does not make the binary be built again (`OtherChangesNoticed`
  of `ReleaseFiles`, `magefile.go:710`).
* `ErrDuplicateListeners` says "but different type" and is returned for equal
  types (`DuplicatesDifferInType` of `ServerStartup`, `server.go:17`).
* A listener address "is the hostname and port number", but with a hostname the
  listener never listens, and startup completes (`HostnameListens` of
  `ServerStartup`, `models.go:44`).
* The backend's port is not guessed from the listener's, it is 0
  (`GuessesListenerPort` of `Outbound`, `README.md:62-64`).
* `sni_name` is overwritten by the first request for a backend without a target
  (`ConfiguredNameSent` of `Backend`, `models.go:67`).
* Text that is no URL is loaded as a proxy with an empty one (`LoadValidates` of
  `Configuration`, `proxy_models.go:14`).

Where no text says otherwise, but one would expect it; also violated when named:

* `Autogen`, called again while a hook runs, empties the file under the shell,
  which finds its end there: the scripts that are left are skipped and the commit
  is accepted (`CheckedWhileRewritten` of `Commit`, `magefile.go:984`).
* A cut reply looks complete to the client if its length was not declared, or if
  the client library removed it with the packing (`CutBodyNeverComplete` of
  `Answer`, `backends.go:112-130`).

## Proofs

Every safety property of the passing runs is also a theorem, for all values of
the constants that meet the modules' assumptions, and so is the refinement of
`SiteTable`. The eight modules of proofs stand beside the modules they are
about; only `HostTrieProofs` holds nothing but lemmas, on sequences, prefixes and
the walk, which `EdgeListenerProofs` and `HandlerProofs` share.

### What is assumed

The named assumptions of the modules, which TLC evaluates for the instances:

* constants have their types (`LabelAssumption`, `HostsAssumption`,
  `SitesAssumption`, `ConfigsAssumption`, `NumbersAssumption`, `LengthAssumption`, and so on), and
  values that stand for different things differ (`TypeAssumption`,
  `TextsAssumption`, `NamesAssumption`);
* platforms and tools are finitely many (`PlatformsAssumption`,
  `ToolsAssumption`), because slots are counted;
* `FamiliesAssumption` of `Handler`: splitting a host or a path at a separator
  never returns an empty slice, and a path with more than one element begins with
  a slash, because net/http parses no other request URI, and is no longer than an
  int counts; configured indexes are any ints and ports any text; a reply is cut
  exactly if less of its body arrives than was declared (`IsReply`);
* `ScenariosAssumption` of `Configuration`: both configurations are what the YAML
  library decodes, maps of maps down to lists and scalars; what the lists hold
  and whether a certificate's file is there is free;
* `HooksAssumption` of `HookMerge`: names of hooks differ, files are sequences of
  lines, and a line that calls a script is no marker, since it begins with a
  quote. In `Commit`, nobody but `Autogen` writes to the hook.

### EdgeListenerProofs

| Theorem | Property | Argument |
|---|---|---|
| `TypeCorrect` | `TypeOK` | `TypeInv`: `TypeOK` and `WriterOK`, which ties `pc`, `hostComponents` and `depth` together. Cursors stay inside the tree because it only grows. |
| `TrieCorrect` | `TrieMatchesAttached` | inductive together with `TypeInv`; the lemmas on `Prefixes` and `Reverse` say that one step of `AddSite` adds one prefix, and that two hosts never share a node as their own. |
| `NeverOverridden` | `NoOverride` | from `TrieMatchesAttached`: the current host is not attached yet. |
| `AttachedHostIsServed` | `AttachedHostWins` | `OwnInv`: `InsertsNew` (what is being inserted is not there yet) and `OwnPath` (such a request stands on a prefix of its host, with all longer prefixes in the tree). |
| `DispatchIsCovered` | `DispatchCovered` | `CursorStands`: there are positions at which the labels on the way stand for components, the last of them where the walk is, or before it behind a wildcard. |
| `RoutingIsSettled` | `SettledRouting` | `RoutedAlone`: once all sites are attached there is nothing to write, the tree is the one of the whole configuration, and a request's cursor is what `Cursor` gives for as many components. |
| `TreeImplementsTable` | `ImplementsSiteTable` | `TableInv`, of all the invariants above and `IdleInv`: a site appears with the store of its backend and not before, every step of a walk but its last is invisible to the table, and the last answers with what `RoutedAlone` or `Covered` allows. |

An invariant such as `DispatchCovered` is not inductive as it stands: it speaks
of the end of the walk only, so the proof carries `CursorStands` through it.

### HandlerProofs

| Theorem | Property | Argument |
|---|---|---|
| `MatchSiteIsBest` | - | for every set of sites and every host, the loop of `matchSite` finds the site of the best walk: the loop follows a walk that takes the best kind at each component (`IsGreedy`), such a walk is better than each other one at the first component where they differ, and two walks are never better than each other. |
| `OutcomeIsTheSites` | `OutcomeFollowsSite` | `SiteInv` and `RequestInv`, with `MatchSiteIsBest`; that `Unmarshals` and `Selects` leave exactly the configurations without `Mistakes`. |
| `TypeCorrect` | `TypeOK` | `HandlerInv`: at every point of `ServeHTTP`, what of the request has been edited is a function of what was asked (`RequestInv`, `HeaderInv`) and of the backend as it is written (`SiteInv`). |
| `HeadersAreAsConfigured` | `HeadersAsConfigured` | `HeaderInv`. |
| `DialsAreAsConfigured` | `DialsAsConfigured` | `RequestInv`, and that only a name without ports gets one that can be dialed. |
| `CutBodiesAreNoticed` | `CutBodyNoticed` | `AnswerInv`: at every stage the length and the body are those of the reply or of the unpacked one, and by `HeaderInv` the request says what it accepts exactly if the client or the configuration does. |
| `RestIsKept` | `RestOfPathKept` | `RequestInv`, and that `Join` keeps a path that has nothing to be cleaned (`JoinPlain`, over all prefixes of the path). |

### EntrypointProofs

One invariant, `IInv`, is inductive for the whole process: `StartupInv` (what
the loops have established, part by part: `ChainInv`, `NameInv`, `ListenInv`,
`SiteInv`, `AttachInv`, and `CauseInv` for the errors), `ProcessInv` (which ties
`stage`, `pc`, `result` and `exitCode` together), `SignalInv` and `RequestInv`.
Each loop has a lemma for its step; that the steps of the other goroutines leave
the startup alone is `StartupFrame`.

| Theorem | Property | Argument |
|---|---|---|
| `TypeCorrect` | `TypeOK` | from `IInv`. |
| `OutcomeIsDecided` | `OutcomeFollowsConfig` | an error has its cause (`CauseInv`), and who has reached the attach loop has passed all checks (`ChecksDone`). |
| `ReadyIsComplete` | `ReadyServesEverySite` | the mapping holds exactly the entries that the loop has come to (`SiteInv`), and each key that has left `todo` is attached (`AllAttached`); a socket is given back only by `Shutdown`, which follows a caught SIGTERM, or when `Serve` fails (`SignalInv`). |
| `ExitCodeIsTrue` | `ExitCodeTells` | `ProcessInv` and `SignalInv`. |
| `CutsHaveCauses` | `CutHasCause` | `RequestInv`; a reason to lose a request does not go away (`RequestFrame`), and what a handler can panic at is a site that is attached, or one that is not yet (`PanicHasCause`). |

### BackendProofs

| Theorem | Property | Argument |
|---|---|---|
| `TypeCorrect` | `TypeOK` | inductive: what is dialed is never the empty host, because `Dial` asks for a target. |
| `FixedNameIsSent` | `FixedNameSent` | `FixedInv`: with a target no request comes to `BeginSetName`, so `serverName` stays what `NewHTTPBackend` made it. |
| `UndisturbedNameIsSent` | `UndisturbedNameSent` | `UndisturbedInv`: after each of its two stores an undisturbed request finds the words it has stored, because every store by another one disturbs it. |
| `AnswersComeFromTarget` | `AnsweredByTarget` | `AnswerInv`: connections in the pool have passed the certificate check, and a request's connection is to its own target from `Reuse` or `Handshake` to the answer. |

`FixedNameSent` is about connections only and says nothing of `serverName`, from
which they are made; `AnsweredByTarget` is about the end of a request only. The
invariants carry both through the steps before.

### ConfigurationProofs

| Theorem | Property | Argument |
|---|---|---|
| `UserIsKept` | `UserWins` | inductive as it is: an iteration adds a key only where there is none. |
| `DefaultsAreFilledIn` | `DefaultsFillIn` | `MergeInv`: what is open (no value of the user's blocks the way) and not there yet is awaited, on the way to it, in `todo`. Every order of the nested loops keeps it. |
| `LoadedPoolIsCurrent` | `PoolIsCurrent` | `LoadInv`: besides the merge, how far Load is (`DecodeInv`) and that each entry that was seen stood for certificates at some moment, which the pool has (`CertsInv`). |
| `LoadOutcomeIsJustified` | `LoadOutcomeHasCause` | `FailedInv`, part of `LoadInv`. |
| `ChainsDecideTheOutcome` | `OutcomeFollowsChains` | `ChainInv`: what was built are chains that can be, up to the element the loop is at. |
| `ProxiesInOrder` | `ExplicitInOrder` | `DialInv`: the dialer that is being built leads where the chain up to this element says, for every address and not for the target only, because the next element dials its own address through it. |
| `EnvironmentIsPassed` | `EnvironmentInPlace` | the same: every dialer leads through exactly the proxies that are `Passing`; an element more puts the hops on the way to it before itself (`PassingAppend`). |

### ReleaseProofs

| Theorem | Property | Argument |
|---|---|---|
| `PoolTypeCorrect` | `TypeOK` | `SlotInv`: jobs a platform has not come to are not started (`Unstarted`), so a new job adds one element to the finite set `Holding`, and a released one removes one; that the queue stays below its capacity is the guard, that it never falls below zero is the count. |
| `SlotsCounted` | `SlotsAreHeld` | the same invariant. |
| `ErrorsReachTheResult` | `NoErrorLost` | `ErrorInv`: a batch in which every job is over without error stays so (`GoodStays`), because only a running job can still fail. |
| `PoolIsImplemented` | - | every step of `ReleaseFiles` is one of `BuildPool`, leaves it alone, or starts it anew. |
| `ReleasePoolTypeCorrect`, `ReleaseSlotsCounted`, `ReleaseErrorsReachTheResult` | the three above | so the pool's properties hold in each of several runs. |
| `FilesTypeCorrect` | - | what binaries, archives and work under way are. |
| `ReleaseIsCurrent` | `ReleasedIsCurrent` | `FileInv`: what a running job has read is what there is, unless an edit overtook it (`WorkInv`); a binary that was written in peace tells its sources by its time (`TimesInv`); a finished build has left a current binary, which nobody else writes (`BuiltInv`), and a finished archive holds the binaries of its platform (`ArchivedInv`). |

### CommitProofs

| Theorem | Property | Argument |
|---|---|---|
| `AcceptedIsChecked` | `CommitIsChecked` | three invariants: a tool that is not installed has failed or is still being built (`ToolsInv`), the hooks behind the loop call all of their scripts (`AutogenInv`), and while `version` is "whole" a script of the hook is among the lines that are left or has passed (`CommitInv`): its lines are the file's, so that no offset has moved. |
| `HookIsKept` | `OutcomeFollowsFile` | `OutcomeInv`: the hook at the loop is `Stage`, what was found with the first scripts in its section. The lemmas `FirstUpdate` and `NextUpdate` say line by line what the append in place makes of the next script, `SectionMarks` where the markers then are. |

### Recursive functions

The provers cannot instantiate the library's induction theorems, which take an
operator. Where a theorem needs what a recursive function or a fold computes
(`Cursor`, `Followed`, `Only`, `Join`), the set of numbers for which it holds is
shown to contain 0 and with each number the next, and `NatSetInduction` (or
`AllNumbers`) concludes that it is all of `Nat`: they are proved without
induction from the least number of a set.

### Only model-checked

* Liveness: `RequestDecided` and `StartupCompletes` of `EdgeListener`,
  `TerminateStops` of `Entrypoint`, `ReleaseAllReturns` of `BuildPool` and
  `CommitDecided` of `Commit`. They need ENABLED and the rules for fairness, which
  are out of this prover's reach.
* That `MatchSite` and the other operators agree with what the Go functions
  return is read off the code; no theorem can say it.
* What a passing run does not check, because it is violated: the properties under
  "Where code and documentation disagree".

## Not modelled

Request logging, the command line's syntax, loggers, embedded assets, version
strings, environment and URL helpers, YAML, mapstructure and X.509 parsing: pure
functions, libraries or I/O whose failure ends the process. Of the HTTP client:
redirects, cookies, retries, HTTP/2, a dial that is abandoned because another
connection has become free, the defaults of `req` other than `Accept-Encoding` (its
`User-Agent`, its proxy from the environment), the
decoding of text bodies to UTF-8, HEAD requests and statuses without a body,
`Range` requests, and an `Accept-Encoding` that is there and empty. Of the
listeners' addresses: that `tcp` and `tcp4` of one address and port exclude each
other (`Overlap` compares ports with their network). Of the configuration: an absent `ca_certs` (the
system's roots are used), and `TLSCertificateMap`, `certutils` and `urlutil`,
which nothing in the program uses. Of the build: `Test`, `Coverage` and
`LintBisect`, which run one tool after the other, the symbolic links of `Binary`, and the lists of files and linters.

Read while modelling, and outside of the models' abstraction: the sanitized dump
shows the user's own map without the defaults and without removing anything,
where it is described as the active configuration; the list of Go sources leaves
out every absolute path with `.git` in it, so that a checkout below such a
directory never looks changed.

Planned, in this order:

1. What keeps `TerminateStops` and `CommitDecided` going as invariants: that the
   process has a step to take whenever it is not done, and what decreases with it.
2. `Clean` and several processes of the build at once, if the targets are ever run
   side by side.
3. The command line's sanitized dump, if it comes to show the active
   configuration.
