# HWAXMcpGateway: a verification project

TLA+ models of the gateway (`src/gateway.py`, `src/rest_proxy.py`), the TLC runs
that check them on small instances, and proofs, checked by TLAPS, of the
properties that matter most for every instance. Every safety property that a
passing run checks is also proved.

The gateway is one asyncio process. It holds one MCP session to each backend,
shows the union of their tools to its clients, and forwards tool calls with the
identity of the caller. Its hard parts are what happens *between two awaits*:
calls, a pass that runs every minute, and requests from the portal read and
replace the same tables. The rest of what can go wrong is in rules that are made
in several places and must agree.

## 1. Inventory

| Part | State | Operations | Interacts with |
|---|---|---|---|
| Backend session, `_Backend` (1106-1179) | `session`, `_gen`, `_ready`, `_stop`, `_recon_lock` | `run`, `reconnect(seen_gen)` | tool calls and the revive pass both reconnect |
| Shared calls, `_call_shared`, `_oneshot`, the tail of `_call_tool_body` (7829-7850, 8440-8504) | `b.inflight` | send over the resident or an own session, one retry, deadline | sessions |
| Revive pass (1571-1592, 1736-1862) | `_LIVENESS_MISS`, `_REAGG` | probe, strikes, `_release_inflight`, reconnect, re-aggregate | sessions, catalog, registry |
| Catalog, `_aggregate` (1332-1484) | `exposed_tools`, `route`, `alias_route`, `_LAST_TOOLS`, `_CONN_ACTIVE` | list all backends, name, alias, `_keep_last` | sessions, access |
| Discovery and declared connections (1485-1547, 1615-1716) | `backends`, `_HEAX_MISS`, `_CONN_REG`, `_CONN_STATUS` | poll, join, drop, reconcile | catalog, policy |
| Response cache (486-579, 969-997) | `_RESP_CACHE` | get, put, flush | tool calls, declarations, `/conn-invalidate` |
| Connection lookups (446-481) | `_CONN_CACHE` | look up, drop | portal, response cache |
| Per-user app tokens (7246-7312, 7636-7681) | `_USER_PATS`, locks | mint, use, forget after a 401 | tool calls, `rest_call`, REST bridge, `/conn-invalidate` |
| Portal PAT handoff (7350-7633) | `_PORTAL_PAT_PENDING`, `_PORTAL_PAT_TRIED` | exchange, register, revoke-self | runs under the token lock |
| Figure store (5292-5745) | `_FIG_META`, `_FIG_KEY`, sums, `_FIG_SWEEP`, files | put, reuse, renew, enforce limits, sweep | worker threads, disk |
| Access policy and entitlements (2015-2045, 2068-2325) | `_ACCESS_POLICY`, `_ENT_CACHE`, `_ENT_LAST` | refresh, look up, deny | portal, declared connections |
| Lists and calls (6948-7240, 8000-8504) | the tables above | list, name, unwrap `invoke_tool`, decide, choose the account | every table above |
| Saves, routines, reports (2448-2608, 6433-6830) | none of their own | requests in a row to the portal, the engine, the archive | portal, tools |
| Bearer gate (8517-8924) | `_DRAIN` | authenticate, route, invalidate | all tables above |
| PAT verification and REST proxy (`rest_proxy.py` 99-369) | `_revoked`, JWKS | verify, mint, forward | tokens, access |
| Graceful shutdown (9022-9037) | `_INFLIGHT_CALLS`, `_DRAIN` | wait, tail, cut | tool calls |
| Evidence ledger, tool search, text tools | per-part rings and indexes | | |

What makes each part right, and what is hard about it:

* **Sessions**: at most one live session per backend; a caller never waits for a
  handshake nobody runs; nobody tears down a session others have just built; a
  call is repeated at most once; every call ends. Hard: a failed call, the pass
  and the end of an old `run` all write `session`, each after an await.
* **Caches**: nobody sees another person's answer; what is shown is no older than
  the last confirmed change. Hard: an answer may be stored after the flush that
  should have removed it.
* **Tokens**: a wave of refusals costs one mint; nobody drops a token that works;
  no call makes another repeat what was done. Hard: a mint ends the token others
  carry, and a tool may have done half of its work when it is refused.
* **Handoff**: a PAT the app has, or may still get, is never revoked by the
  gateway; the portal is not asked in a wave; no wish is forgotten that could be
  fulfilled. Hard: requests that are given up may still be carried out.
* **Figures**: what the table offers is on the disk; what is on the disk is
  counted; the limits hold. Hard: the sweep reads and deletes without the lock
  that the worker threads hold, and the process may die between two files.
* **Catalog and registry**: what came from a declaration is guarded as long as a
  name leads to it; a flickering backend neither empties the catalog nor stays
  for ever; a name keeps its meaning. Hard: guard, declarations, rows and routes
  change in different steps, a fetch of the policy among them.
* **Access**: a right that was withdrawn ends within a stated time, whatever the
  portal does; the administrator mark is never taken from a token or an old
  answer. Hard: answers arrive after the announcement that made them wrong.
* **Calls**: a narrowed token stays narrow under every name and on every road;
  nobody is served by somebody else's account; what is listed is open.
* **Saves, routines, shutdown**: what a save tells agrees with what is stored; a
  job whose start was heard is recorded, folded or told of; the shutdown ends and
  cuts no call early. Hard: a request whose answer is not heard may have been
  carried out.

`PROJECT.json` lists every component with its status, and under `hazards` each
place where such a thing can go wrong, with the properties that would catch it.

## 2. Modules

| Module | Models | Proofs |
|---|---|---|
| `BackendSession` | the session of one backend, the revive pass, tool calls | `BackendSessionProofs` |
| `RespCache` | the response cache, connection lookups, their invalidation | `RespCacheProofs` |
| `UserPat` | the token of one person at one app | `UserPatProofs` |
| `Custody`, `PatHandoff` | what handing over portal PATs promises, and how it is done | `PatHandoffProofs` |
| `FigStore` | the figure store, its sweep, death of the process | `FigStoreProofs` |
| `Catalog` | backends, declarations, lists, names, guards, restarts | `CatalogProofs` |
| `AccessRules`, `Access` | the rules of access, and the answers of the portal they need | `AccessProofs` |
| `CallRules` | one request from its credential to the account it reaches a backend by | `AccessProofs` |
| `LocalCalls` | saves, steps of a routine, reports, and the shutdown | `LocalCallsProofs` |

`AccessRules` is shared: `Access` lets the answers change under two requests,
`CallRules` takes every answer and looks at all roads. `PatHandoff` implements
`Custody` (`INSTANCE ... WITH` in the module, checked and proved). The others are
joined by what they leave open to each other: the session in `Catalog` is a flag
that `BackendSession` explains, the handoff in `UserPat` is a delay that
`PatHandoff` explains, the tables in `CallRules` are those `Catalog` changes.

`MC*.tla` add symmetry sets and enumerated constants, `.cfg` files give the
constants. In every module an action is the code between two awaits (in
`FigStore`: what runs under `_FIG_LOCK`, or one file operation outside it; in
`CallRules`: a stage of one request). Names are the code's where TLA+ allows.
Variables marked *history* are not in the code; they record what the properties
need and no guard reads them, except the bounds on faults and events.
Definitions called `Mut_...` are plausible bugs: each property has one that
breaks it, and they are used nowhere in the specification.

The twelve runs:

| Run | Module, bounds | Shows |
|---|---|---|
| `session_safety` | 2 calls, one with an identity, 1 fault | one unstopped run, the installed session is the newest, no lost waiter, one retry, a session dropped releases its calls, a caller replaces only the generation it saw |
| `session_live` | 1 call, 1 fault | every call and every pass ends; a session is there and alive again; a dropped session is closed |
| `session_latecomer` | 2 calls, 1 fault | finding (violation) |
| `cache` | 2 calls, 1 backend, 2 keys of a person for 2 places and 3 bytes; 2 new connections, 1 write, 1 changed declaration, three of them in all | only a call that overlaps a flush leaves something old; the bounds hold and the order lists what is there |
| `pat` | a tool call, a `rest_call`, a bridge request, of 2 requests each, 2 events | one mint per event, no call refuses another or makes it repeat its work, a working token stays, every call returns |
| `pat_announced` | 2 tool calls, 2 events | finding (violation) |
| `pat_handoff` | rest of 2 ticks in 4, 3 PATs, 1 change of the app | implements `Custody`; one exchange in the rest; no wish is forgotten |
| `fig_keep` | 1 store, sweep, 2 owners, 2 refs, one figure per owner and in all, term 2, clock 2 | limits and sums, table against disk |
| `catalog_stay` | one configured, one hub and one declared backend, 3 events | guard, age of lists, tools that stay, names that stay, an app that comes back |
| `access_gate` | one request to each gate, 2 ticks, 2 events | the mark and the affiliation are present; what was announced is forgotten |
| `call_rules` | 4 backends, 4 sites, 8 tools, every credential of `MCCallRules` | no road round a limit, nobody's account borrowed, lists are open, both roads to a site agree |
| `local_calls` | 2 calls, 2 messages in batches of 1, 1 call per step, 1 tick each | what a save tells agrees with what is stored, which jobs run when their call is answered, one draft once its id is known, calls have their time, the shutdown ends |

### BackendSession

A session is named by the generation (`_gen`) whose `run` opened it. `starting`,
`parked` and `closing` are the stages of `run`: handshake, waiting for `_stop`,
told to stop. `lock` is `_recon_lock`; `pc` follows a call through
`_call_tool_body`, `rpc` follows `_revive_once_locked`. A call captures `_gen`
(`seen`), is sent on the resident session or, if it carries an identity (`Fwd`),
on one of its own, and after an exception comes to `reconnect` under the lock.
A call in `b.inflight` is in `"flight"`, one that the drop of a session has let
go is `"released"`.

The environment breaks connections, fails or delays handshakes and answers
probes late, at most `MaxFaults` times; deadlines of calls may pass at any time.
A shared call, one with an identity, the pass and one fault already give every
race between `run`, `reconnect` and the probe that the code can meet: a call
with an identity reconnects like the others, and a third call only queues on
the same lock. The finding needs two shared calls. What `session_safety` checks
is also proved for any number of calls.

Fairness (`FairSpec`): weak fairness of handshakes, of runs told to stop, of the
pass, and of what each call does without the backend. The event loop runs every
task that can run; handshakes, probes and calls carry deadlines
(`LIVENESS_TIMEOUT_S`, the call deadline), and the pass is a loop with a sleep. A
`run` parked on a session that is gone at the other end need never notice
(1795-1797), so a dead session stays installed until a call or the pass replaces
it: `Recovers` asks for a session that is installed and alive, again and again.
`anyio.Lock` goes to the first in line. A backend that is up finishes a handshake,
except for the faults the instance allows. No call need ever be answered: it ends
then by its deadline.

### RespCache

A call from the cache lookup on. `data[b]` counts the writes a backend has
carried out, `conn[l]` the connections a person has registered, `spec[b]` the
declarations of a backend; an entry records which of each it was obtained under,
so staleness is a comparison. `links` is `_CONN_CACHE`; `cache` and `order` are
the `OrderedDict`. Every entry may expire at any moment (any time to live). A
write that fails or times out may still be carried out later (`OrphanServed`).
`raced` is history: a flush that concerns what the call carries came while it was
under way.

Staleness is between one call and one change, so two calls suffice. A person may
register a connection, have its answers cached, and replace it (`MaxConn = 2`),
so that a `/conn-invalidate` that left the answers of the old one would be seen
(`Mut_Invalidate`). The constraint `FewChanges` leaves out the states with more
than three writes, registrations and declarations at one backend. Two keys of
sizes 1 and 2 meet each of the three bounds: more bytes than fit with fewer
entries than places, more entries than places, and one that is too large.

The property says nothing of calls that overlap a flush, and the code does leave
something old through them, in four ways: a read
under way stores the state from before a write (8272), an answer obtained with a
connection that `/conn-invalidate` has just dropped (8437), an answer masked
under a declaration that has just changed (8438), and a portal lookup under way
caches the connection just announced as changed (480). No run catches these; they
are listed in section 4.

### UserPat

One person at one app. `cached` is `_USER_PATS`, `lock` the lock of the pair,
tokens are numbered as minted, `live` are those the app takes. Four kinds of call
take a token: tools and `rest_call` retry once after a 401, the REST bridge and
panels do not. From outside, at most `MaxEvents` times, a token is revoked or
runs out, `/conn-invalidate` drops it, or the response of a mint is lost. A call
makes `Parts` requests at the app.

With two requests per call (`Parts = 2`) a token can end when part of the work is
done. A tool is then called again and repeats the first request, which the
comment at `_TOKEN_REJECTED` says cannot happen (section 4). What the code does
give is `RepeatNeedsEvent`: another call of the person is never the cause; a mint
that ends a token others are at work with was called for by something from
outside. More than two requests only lengthen the time in which that may happen,
and the theorem holds for any number. `since` is history: the events there had
been when a call got its token.

A tool call, a `rest_call` and a bridge request meet in every order with two
events; a further call repeats a role, and a panel is a bridge request that
drops nothing. Fairness (`FairSpec`): weak fairness of each step of a call
(requests have timeouts) and strong fairness of taking the lock, which
`anyio.Lock` gives since it goes to the first in line. A call need not be made
again, so these runs may stop and do not check deadlock.

### Custody and PatHandoff

`Custody` is the promise: a PAT that was exchanged is loose until the app takes
it, the app keeps one at a time, and only a loose one is ever dropped.
`PatHandoff` is the code under the lock of one person at one app, so one call at
a time (`cur`) goes through `_user_pat`, `_portal_pat_serve` and
`_portal_pat_handoff`: the mint with its wish, the reasons to skip, the
exchange, the registration, revoke-self. `late` are PATs in requests that were
given up and may still be carried out; a call may be cancelled at each of its
awaits. `Fate` is the refinement mapping.

Three PATs let one replace another while a third is under way; four ticks with a
rest of two hold two attempts and the time between them. `closed` is history: the
reasons for which a wish need not be fulfilled any more, one of them the
cancellation of the very call that brought it, which the code forgets (7611).

### FigStore

`table` is the dictionaries and sums, `json` and `image` the two files of a
figure, `store` the locals of the worker threads, `sweep` those of the sweep. A
figure is its owner and its size on disk, which is what the limits and
`_FIG_KEY` tell apart; refs are names. `Dies` may come between any two file
operations and loses everything but the files.

Two refs are enough for a figure and its second copy, and for one that the
limits take for another: with room for one figure in all, a figure of the other
owner meets the total and a second copy the limit of the owner. The term
(2 ticks) and the clock (2 ticks) let a figure age, be renewed and end during one
sweep. A result of two figures and something to evict beside them are out of
TLC's reach here, so that a store spares the figures of its own result is proved
(`OwnStays`) and not checked by a run. Another store and the sweep do not spare
them, see section 4.

### Catalog

`backends`, `session`, `policy`, `active`, `reg`, `rows`, `last`, `heaxMiss`,
`route` and `alias` are the tables of the same names; `pc`, `wanted`, `todo`,
`collected` and `changed` are the locals of the one pass (`_REVIVE_LOCK`), which
goes through declarations, registry, probes and lists; `RefreshPolicy` may come
between any two of its steps. A restart keeps the two cache files (`disk`), may
fall between their writes, and begins with them. `silent` and `absent` are
history: for how many rounds a backend has not answered, for how many answers
the registry has not listed it, counted by what happened and not by the code.

One backend of each kind and three events (of the portal, the registry, the
apps, the vocabulary file, the process) give each change, its undoing and a
third thing between them; all three offer a tool of one name. With `StaleRounds`
1 and `MissDrop` 2 both counters reach their limit.
Fairness (`FairSpec`): weak fairness of the pass and of the policy loop, which
are loops with a sleep whose every wait has a deadline.

### AccessRules and Access

`AccessRules` has `_deny_reason` and the groups a token stands for on each of the
two roads (`GateGroups` of `_bearer_gate`, `RestGroups` of `_rest_groups`).
`Access` has a request to each gate ask the portal (`_portal_access`), with
`_ENT_CACHE`, `_ENT_LAST` and their lifetimes, the answer 404, no answer, and
`/conn-invalidate` at any moment. `offSince` and `told` are history: since when
the person has not a right, and whether its loss was announced while no older
answer was under way. The token still says
administrator and internal service and has never said the right, so nothing the
request ends up with can come from its words.

Rights come in three kinds since the code treats three kinds differently: groups
that the portal answers and the token may also say, the administrator mark, and
the affiliation. One request at each gate overlaps every other; two ticks with a
life of one cover an answer that travels, is kept and is over. The theorems hold
for any number of requests and any lives.

### CallRules

One request goes through the gate (`Forwarded`), the panel, `invoke_tool`, the
reader, the names, the rule, and the choice of the account (`AsWhom`), or through
`rest_call`, the bridge, a resource or a list. There is nothing concurrent here:
the run is a comparison of rules over every credential, name, road and state of
the tables of `MCCallRules`, which has a backend and a site of each kind the code
tells apart, names that clash with the gateway's own, and names that look
destructive at either end.

### LocalCalls

Calls that are several requests in a row: `_save_conversation`, `_routine_call`
with `_rt_fold_orphan`, `_routine_report`, `_routine_simple`. The portal's side
(`talk`, `run`, `report`) and the engine's (`job`) say what really happened, the
call's `told` what its caller heard; each request may be refused, lost, or
carried out unheard. `drain`, `clock` and `force` are `_GracefulServer.shutdown`
with uvicorn's tail.

The first request of a save ends badly in three ways (2559-2594): the portal
refuses (`"refused"`), its answer does not come in time (`"maybe"`, the caller is
told that it may be saved), or anything else is raised (`"unavailable"`, the
caller is told the exception only, and the save may have been carried out). That
an answer other than 200 means that nothing was stored is an assumption on the
portal. A job whose start was carried out and not heard of is `"unheard"`. A stop
folds any part of the jobs in the ledger and names the rest (`run.left`, which is
`delib_cancel_errors`).

Two calls meet in each race of the routine (a start and a stop, two reports, two
starts for one place in the budget); two messages in batches of one have a
create, an append and the end. Fairness: the timers of the shutdown only, so
that nothing is assumed of the calls it waits for.

## 3. What is proved

Every theorem holds for all values of the constants under the named `ASSUME` of
the module, which TLC also evaluates on every run. Each proof has the same shape:
`IInv` is inductive, was checked with TLC first, and each property follows from
it; where a property needs more than the others, what it needs is an invariant of
its own beside `IInv`.

* **`BackendSessionProofs`**, `IInv == TypeOK /\ LockInv /\ RunInv /\ WaitInv /\
  CallInv`. `SessionIsCurrent` is not inductive alone: that an old `run` cannot
  clear a newer session needs that a new generation starts only after the old
  one was told to stop (`RunInv`), and this that only the holder of the lock
  raises `gen` (`LockInv`); that nobody waits in vain needs that every
  generation is ready or starting (`RunInv`, `WaitInv`). `OneRun`,
  `CurrentSession`, `NoWaiterLost`, `RetryOnce`, `IdentityKept` are invariants,
  `NewerSessionSpared` and `CallsReleased` action properties.
* **`RespCacheProofs`**, `IInv == TypeOK /\ KeyInv /\ WorldInv /\ FreshInv /\
  OnlyOverlapGoesStale /\ OwnAnswers`. An entry is as fresh as the call that
  stores it, so freshness has to be known of calls under way (`FreshInv`), and
  nothing may be confirmed that has not happened (`WorldInv`). Theorems
  `StaleByOverlapOnly` and `AnswersAreOwn`. `BoundsHold` needs of each list of
  keys that it has none twice (`BoundsInv`, `WithoutOnly`, `OnceParts`), so that
  its length counts the entries; that bytes only shrink when entries go
  (`BytesGrow`); and that the eviction always comes to an end that fits, the
  empty cache at the latest.
* **`UserPatProofs`**, `IInv == TypeOK /\ LockInv /\ TokenInv /\ MintInv /\
  EventInv /\ RefusedTwiceNeedsTwo /\ WorkInv`. The count of mints against events
  needs which mints are still under way (`MintInv`) and that only an event ends
  the cached token (`TokenInv`). Theorems `OneMint`, `NoMutualRefusal`,
  `WorkingTokenKept`; `RepeatHasCause` for calls of any number of requests: until
  something happens from outside, the token of a call at work is the cached one
  and works (`WorkInv`), and a cached token that works is not minted over
  (`MintInv`).
* **`PatHandoffProofs`**, `IInv == TypeOK /\ CustodyInv /\ TriedInv`. A step of
  the handoff is a step of `Custody` or a stutter only if the PAT that the call
  under way may hand over or revoke is in its hand alone, and those still on
  their way are loose (`CustodyInv`); one exchange in the rest needs that each is
  an attempt that was noted (`TriedInv`). Theorems `HandoffKeepsCustody` (the
  refinement: initial states, steps, stutters), `OneExchange` and `NeverTwo`, an
  invariant of `Custody` carried over. `WishKept` follows the wish through the
  handoff of the call that carries it (`WishInv`): until a reason to forget it
  has come up, only outcomes that put it back are still possible.
* **`FigStoreProofs`**, `IInv` of `FigStore`. A limit compares a sum that the code
  keeps by adding and subtracting, so the sums have to be those of the table
  (`SumsAgree`) at every step of a worker, and the limits hold again whenever the
  lock is free (`WithinLimits`). The table and the disk agree although the sweep
  reads files without the lock: what it has seen, read or is about to delete is
  told apart by whether the table has it meanwhile (`OnInv`, `ReadInv`,
  `ClearInv`). A store spares its own figures since those of one result fit the
  limits by themselves (`BatchInv`), so an eviction ends before it comes to them
  (`OwnStays`, of the evictions that this store makes).
  Sums are recursive functions over the subsets of a finite set; what they need
  (a member taken out, a part, a changed weight) is proved by a smallest
  counterexample among the subsets. Theorems `Limits`, `DiskAgrees`, `OwnStays`.
* **`CatalogProofs`**, `IInv == TypeOK /\ ListInv /\ RoundInv /\ MissInv /\
  BootInv /\ RouteInv /\ DeclaredIsGuarded`. The guard is lifted in the step that
  builds the names, so what they lead to has to be known exactly: that of each
  listed backend with tools there is a name needs that no two tools get the same
  one (lemmas `RoutesLead`, `AliasesLead`). That a backend which is offered and
  gone is built away by the pass under way, and why it went, is `RouteInv`; the
  ages need the code's counters compared with what happened (`RoundInv`,
  `MissInv`), and the union while it is gathered (`ListInv`). Theorems `Guarded`,
  `ListsAreRecent`, `ToolsRemain`. `NamesRemain` says of each name what it leads
  to (`NameInv`): the configured and hub apps in the catalog settle, with the
  family that was read last, how their tools are listed, and by themselves which
  bare names lead to them; so two catalogs with the same of these apps cannot
  differ in them, whatever lies between.
* **`AccessProofs`**, `IInv == TypeOK /\ RightsInv /\ ReqsOK /\ CacheInv /\
  ToldInv`. A right in use came from an answer, and that from the portal at a
  moment between the beginning of the request and now; so the age of an answer
  is carried through both caches and the requests under way (`CacheInv`,
  `ReqsOK`), and after an announcement that met no older answer on its way
  neither cache nor request has a right whose loss it told (`ToldInv`). Theorems
  `OnlyPresent`, `ToldForgotten`; of an announcement that does meet one only
  `OnlyPresent` says something, the time after which the right is gone.
  The module also has the theorems of `CallRules` (`Narrow`, `Undetoured`,
  `OwnName`, `ListedOpen`, `Roads`), for any tools, names, credentials and
  tables. Their invariant (`CallInv`) is that an answer is the one the rules give
  for what was asked, by the headers forwarded of the credential and the tables
  of its moment; each property is then a fact about the rules, met at the names
  that two roads resolve alike.
* **`LocalCallsProofs`**, `IInv` adds to the four properties what is stored for
  calls under way (`TalkInv`), whose jobs run (`JobInv`), which reports may still
  make a draft (`DraftInv`) and how long the shutdown has waited (`CutInv`).
  `SaveIsTrue` and `JobAccounted` say as much as the code tells: after
  CONV_UNAVAILABLE the first request may be stored, a job whose start was not
  heard of runs unknown, and one that a stop could not fold is named. Theorems
  `SaveIsTrue`, `JobAccounted`, `OneDraft`, `CutInTime`.

Each of these modules also proves its types (`TypeCorrect`).

Only model-checked: all liveness (`EveryCallReturns`, `PassReturns`, `Recovers`,
`GivenUpSessionCloses`, `AppComesBack`, `ShutdownEnds`), since fairness and
`ENABLED` are outside the proof system, and the two findings, which are
counterexamples.

What the proofs asked of the models: recursive operators and `SelectSeq` are
written as recursive functions (`SumOf`, `Without`), which the provers can
reason about; `NONE` is assumed to be no entry; and in `CallRules` alternatives
that overlapped are an `IF` in the order of the code, since a `CASE` whose guards
overlap leaves open which one is meant.

## 4. Findings

Two runs must find a violation; `PROJECT.json` quotes the docstring or comment
the code disagrees with.

* `session_latecomer` (1171): a call that arrives during a handshake tears the new
  session down, which the generation number was introduced to prevent.
* `pat_announced` (7664): a token minted before an announcement is cached after it.

Seen while modelling and not stated as a run. No property excludes these, and where
one comes near it says what it leaves open:

* sessions: a late probe drops the session that has replaced the one it probed,
  and lets its calls go (1586); an error answered over a healthy session is
  retried like a failed connection (8465); a call with an identity whose own
  session fails replaces the resident session, which it never used (8473);
* caches: four overlaps of a call and a flush leave something old for its time to
  live. The flush comes before a write and not after it, so a read under way
  stores the state before the write (8272); an answer obtained with the connection
  that `/conn-invalidate` drops is stored after it (8437), and so is that
  connection by a lookup under way (480); an answer masked under a declaration
  that changes meanwhile is stored after the flush (8438);
* tokens: a tool that makes several requests, and meets a 401 after the first, is
  called again and does the first twice (8350), against the comment that a 401 is
  cut off at authentication, so that a second call executes nothing twice
  (7685-7686). `RepeatNeedsEvent` says only that no other call brings it about;
* figures: a figure of a result that is still being stored may be evicted by
  another store, or by the sweep, before the text of the result names it (5499).
  The docstring (5551-5553) gives this as the reason why the limits spare the
  figures of the batch, and they do so in the store that makes it only;
* catalog: rounds are counted by re-aggregations, so the list of an app that is
  dead for good stays while none is asked for (1562, 1842);
* access: the loss of a right that is announced while an older answer of the
  portal is on its way may be cached over (2323); `PresentOnly` bounds how long.
  `ListedIsOpen` compares lists and calls at one state of the tables: between two
  steps of the pass they may differ;
* handoff: the wish of an app is forgotten when the call that brought it is
  cancelled before the handoff returns (7611);
* saves: a save whose answer breaks off or cannot be read is answered
  CONV_UNAVAILABLE with the exception (2593-2594), though it may be stored. The
  comment at 2590 knows that for a timeout, and the one at 2548 that a caller who
  is told of a failure sends again and makes two of one conversation;
* routines: a start whose answer is lost leaves a deliberation that is in no
  ledger and that nothing folds; a stop may leave some it could not fold, and says
  so (`delib_cancel_errors`, 5069, 6455). After any failure of its record in the
  ledger a job is folded, also when only the answer was lost and the portal has
  its id (6700, against the comment at 6697-6698);
* reports: two reports that overlap, and one after a note that was lost, make two
  drafts (6804).

## 5. What is not modelled

In the modelled parts: cancellation by the client inside `_user_pat` outside the
handoff; the per-user SSO branch and calls without an identity in the response
cache; the flush in `_conn_drop` (1633), which is the one of a changed
declaration; exact times to live (arbitrary expiry in `RespCache`, ticks in the
others); figures that are skipped or cannot be decoded; a file that cannot be
unlinked, which the next sweep finds again; the texts of descriptions and the
status told of a declaration; several groups and departments in one rule; the
tools of routines that read one thing; the back-off times of lookups.

The fetch of the revocation list (`rest_proxy.py` 105-134): two overlapping
fetches may leave the older list for 60 s. It has one variable and one step, and
a model of it would restate them; a valid token is a guard in `Access` and
`CallRules`.

Left out for good: masking and audit, the evidence ledger, tool search, the REST
catalog, tickets and downloads, the experts list, configuration scripts and
reports. They are sequential, keep no state that outlives a call or only append
to a file or a ring; what they compute are texts and weights, and a model would
repeat their regular expressions and tables.
