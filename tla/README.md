# st-agent in TLA+

st-agent runs up to three proxy tunnels (xray, hysteria, anytls) on a node and
keeps each of them in line with a list of users that a remote endpoint serves.
These modules model its concurrent and failure-prone parts: the user pool and
its sync loop, what the three tunnels hang on it, traffic accounting, the
supervisor that restarts tunnels, a reload under a pool that is still at work,
and where the tunnels get their certificates.

All paths below are relative to `src/`. `PROJECT.json` maps every definition to
the lines it stands for, lists the runs, and lists what is hard to test in this
code, line by line.

## The system

| Component | State | Operations | Talks to |
|---|---|---|---|
| User pool, `tunnel/common/pool.go`, `user.go` | maps `users`, `userpass`, one RWMutex, `running` per user | `Start`, `syncOnce` (users, then traffic), `GetUserByKey`, `CreateUser`, `RemoveUser`, `Stop` | endpoint over HTTP; hooks of the tunnel; handlers |
| Hysteria pool and `/auth`, `tunnel/hysteria/user.go`, `services.go` | `User.running`; sessions in the hysteria server | `/auth`, `OnUserUpdate`, `OnUserRemove`, `fetchHysteriaTraffic`, `kickUser` | hysteria server (external) over HTTP, both ways |
| Xray pool, `tunnel/xray/user.go`, `services.go` | `User.running`; users of an inbound in xray | `OnUserAdd/Update/Remove`, `fetchXrayTraffic` | xray (external) over gRPC |
| Anytls pool, listener, handlers, `tunnel/anytls/` | listener, one goroutine per connection, process-wide padding scheme | accept loop, `handleTcpConnection`, `AuthenticateHash`, `countingConn` | the pool, under its read lock; the User object without it |
| Traffic accounting, `pool.go:134-166` and the three `FetchTraffic` | counters in server, User fields, report under construction | fetch and reset, `GenTraffic`, `ResetTraffic`, `PostJSON` | endpoint |
| Supervisor, `cli/start.go`, `tunnel/*/server.go` | `instances`, sockets, statistics port, padding scheme | boot, watcher tick, `NeedReload`, `Setup`/`Start`/`Stop` | config file or URL; systemd |
| Configuration loading, `config/`, `init.go`, hysteria `config.go` | none, but its fillers bind sockets | load, fill | supervisor |
| Certificate loader, `tunnel/hysteria/utils/certloader.go` | cached pair with file times, a mutex | `getCertificateWithCache` | files that the operator replaces |
| ACME and default certificates, `tool/tls/`, `cli/action.go` | `CertMagicInstance`, `DefaultTLSConfig` and its bytes; ACME files on disk | `InitCertMagic`, `InitTlsCfg`, `GetCertificatePEM` | certmagic (external); the `Setup` of each tunnel |
| Geo databases, bandwidth recorders, update check, QR, formatting, command line | little or none | | |

What makes it hard:

* **Interleaving.** One goroutine per pool works through a cycle of many
  critical sections, calls and *unlocked* writes, while handlers look users up
  and keep pointers to User objects across the release of the mutex.
* **Partial failure.** Any hook, fetch or report may fail, before or after it
  took effect, and leaves a cycle in the middle. The next one must make up for it.
* **Order.** The entries of the password map are moved user by user.
* **Leftovers.** An object whose `Setup` or `Start` fails is dropped without
  `Stop`, with the sockets and goroutines it has by then. `Stop` of a pool does
  not wait for the cycle under way, which goes on against the next instance.
* **Stale data.** Handlers outlive their user, a stopped pool, or a reload;
  a cache outlives the files it was made of.

What makes each part correct: a password finds its user and nobody else; the
pool converges to the list; a revoked or removed user is cut off; no byte is
charged twice and none is lost without a failure; each tunnel runs as
configured, or is brought there; a handshake always has a certificate, the
tunnels share one, a replaced one is served.

## Modules

```
UserPool ----+---- HysteriaPool        Supervisor
             +---- XrayPool            Certificates
             |        |                CertLoader
             |     XrayReload          TrafficSync ==> TrafficLedger
             +---- AnytlsPool
```

`X ---- Y`: Y extends X with what its hooks and handlers do, and is proved to
implement it (`PoolRefined`). XrayReload composes two XrayPools, the one at hand
and the one before it. `==>`: refinement mapping. `MC<X>` only gives constants
their values; the proofs are in `<X>Proofs`.

* **UserPool**. `users` and `userpass` are functions from ids and keys, with
  `NoUser`/`NoId` for an absent entry. A step of the goroutine is one critical
  section, one network call or one unlocked write: `Fetch`, then per listed
  user `CreateUser`, `KeepUser` or `UpdateUser` (the unlocked
  `UpdateFromServer`) with `Reindex` (the locked re-keying), the hooks, then
  `BeginSweep`, `SweepUser`, `RemoveUser`, and the traffic report, once per tag
  of `IterTags`. Go's map iteration order and the order of the response are the
  choice of `\E i \in todo`. All errors go through `Abort`: the first cycle's
  error makes `Start` fail, a later one waits for the next tick. `Stop` and
  `Exit` model the context. A user's password is kept apart from the other
  fields `Equal` compares (`enable` stands for them), since only the password
  has an index. `remote` is the endpoint's list; it never lists two users with
  one key at a time, and `AllowHandover` says if a key may pass from one user
  to another between two cycles.
* **HysteriaPool**. `/auth` in three steps (look-up, `SetRunning`, answer), the
  session that follows, and the hooks. `conn[c].own` is false once the User
  object a client was found by has left the pool, which is how a stale pointer
  is modelled. `missed` is a history variable: the clients a kick passed by.
* **XrayPool**. `inbound` is what xray serves per tag. Every gRPC call may fail
  before or after its effect. All hooks work on the first tag, and
  `OnUserUpdate` marks the decoded object running, not the pooled one; both are
  as in the code.
* **XrayReload**. The variables of XrayPool are those of the pool at hand. The
  `o...` variables are the pool that `Reload` has stopped in the middle of
  whatever it was doing, and `Old == INSTANCE XrayPool WITH users <- ousers, ...`
  gives it the same steps on the same `inbound`: both reach xray by the address
  of its API. Between `Reload` and `Open` nobody listens there, and the calls of
  the old pool fail. `overlapped` notes that the old pool has changed the users
  of the new instance.
* **AnytlsPool**. No hooks; the accept loop and the handler that reads `Enable`
  after the mutex is released. A handler waits for its client without a
  deadline before the lookup; a sync may overtake it between the lookup and the
  session, which the model lets take any time.
  `raced` is a history variable: the clients that an update, removal or
  re-keying of their user overtook.
* **TrafficSync**, for a tunnel picked in `Init`, and **TrafficLedger**, the
  promise: each byte is charged at most once. The mapping counts as `open` what
  may still get to the bill: server counters, answer, User field, report.
* **Supervisor**. The handling of one tunnel in one tick is one step, since
  nothing else touches `instances`; the statistics server, a goroutine of its
  own, is not part of it. `ghost` holds sockets of dropped objects, and
  `Claims` says which of them keep the next object of the tunnel from starting:
  the UDP socket of hysteria, which `Setup` binds first, and the API listener of
  xray (`XRayConfig.API.Listen`). The inbounds of xray share their ports. That
  its API does not, and that `instance.Start` fails without it, is knowledge of
  xray-core, which is not part of the repository. So an xray whose first sync
  fails (`cli/start.go:83-86`) is never started again by this process, unless
  the address of its API is edited: `Recovers` names the case. A process that
  dies is started again, as `Restart=always` of the unit file says.
* **Certificates**. One boot after the other: `action` with the choice between
  ACME and a self-signed pair, the fallback (inside `InitCertMagic`, where
  nobody calls `InitTlsCfg`, or in `action`, where its error is ignored), then
  the `Setup` and `Stop` of tunnels. `default` and `bytes` are the two globals
  `InitTlsCfg` fills; `generateKeyPair` may set the bytes and fail after that.
  certmagic (external) writes the two files of a pair one after the other,
  `GetCertificatePEM` loads them one after the other (`LoadCert`, `LoadKey`).
  Only the files outlive a crash. anytls and hysteria, which ask at every
  handshake, are one tunnel (`dynamic`); xray, which is told once, is the other.
* **CertLoader**. Each `Stat`, read, atomic load or store, and mutex operation
  of a handshake is a step. Hysteria's `Setup` sets its own certificate
  function (`tunnel/hysteria/server.go:47-52`) and leaves `Cert` and `Key` empty, so
  this program never makes a loader (`config.go:319`). The module describes the
  component as it is written, for a caller that would; none of its races can
  occur in the agent. `InitializeCache` has succeeded.

## Runs

| Run | Shows |
|---|---|
| `pool` | `IndexSound`, `IndexComplete`: the password map is exact up to the one user being re-keyed. `PoolMatchesResponse`: a complete cycle makes up for all aborted ones. `CycleIsFinite`: a cycle does not visit or try anything twice, so it ends by itself. `SettledIsQuiet`: a pool that agrees with the list calls no hook. `Converges`, `StopTerminates`. |
| `pool_handover` | Finding: a complete cycle leaves a pooled user whose password finds nobody, if that password was another's before. |
| `hysteria` | Only clients that were between `GetUserByPass` and their session at a kick (or whose kick failed) keep an old password or outlive their user, and their traffic gets them kicked. `HooksAreFinite`: kicks and walk end by themselves. |
| `xray` | xray serves nobody outside the pool, whatever fails; without failures a user marked running is served, and under its present password, so that no update removes in vain; dropped users leave. `HooksAreFinite`: hooks and walk end by themselves. |
| `xray_update` | Finding: the second change of a user does not reach xray. |
| `xray_reload` | `UntouchedIsExact`: until a late call of the stopped pool reaches the new instance, it serves nobody outside the new pool, and every enabled user when traffic is reported. `StrangersAreOld`: after that, whom only the old pool has. `StrangersLeave`: whom such a call has put there leaves again, once it has connected. |
| `anytls` | Only a client overtaken by a change of its user is admitted on stale data; a revoked password is shut out in the end, also after `Stop`. |
| `traffic` | For each tunnel: `Charged` (implements `TrafficLedger`), `NothingLost`, `EventuallySettled`. |
| `supervisor` | After any edits and failures every tunnel gets to run as configured (`Recovers`), except a hysteria whose own UDP address, or an xray whose own API address, an earlier failed start holds; the padding scheme agrees with the tunnel object. |
| `supervisor_reload` | Finding: a reload of hysteria ends the process. |
| `certificates` | No handshake finds a nil certificate, all tunnels share one self-signed pair, nobody falls back without leave, xray gets the halves of one pair unless a renewal was on its way, an agent with `Fallback` comes up. |
| `certloader` | A cache that looks current is current, it never goes back, a finished replacement reaches the clients. |

### Bounds

* `pool`: two users, three passwords. A disturbance in the password map is
  between two users and a key, and a third password lets one user change while
  the other holds its own. Two tags, so that a cycle has two passes.
  `pool_handover` needs two users and two passwords.
* `hysteria`, `anytls`, `xray`: one user with two passwords. The hooks look at
  one user only (`cur`), the interference of users is in the password map,
  which `pool` covers and the proofs settle for any number. Two clients in
  `hysteria`, because they share the `running` flag; one in `anytls`, where
  handlers touch nothing in common but the pool they read.
* `xray`: two tags, so that the per-tag loop is exercised; `xray_update` one,
  so that its trace does not depend on the second.
* `xray_reload`: one user, present or not, enabled or not; two pools on one
  inbound are in each other's way through a single user. One pool is left over
  at a time: a second `Reload` waits for the old goroutine to end. A new pool
  whose first cycle fails is not tried again: the instance that the watcher
  drops holds the API address, so no other one starts (Supervisor).
* `traffic`: two users, three bytes each (`MaxUse`): one each for a lost, a
  reported and a pending byte. Both directions of traffic are one number.
* `supervisor`: one or two addresses per tunnel, one API address for xray (the
  case where it is edited is left to the theorems, which hold for any set of
  them; `Recovers` is checked where it stays the same), three padding schemes (none,
  one good, one refused). `stats.pending` stops at 2: one goroutine that binds
  and one that fails. The load of a configuration that cannot be read changes
  nothing and is left out.
* `certificates`: six pairs, more than can be in use at a time (two halves on
  disk, two in xray or one being read; a self-signed pair only while certmagic
  is off), so that there is always a new one to make. Renewals and restarts are
  not bounded: a pair that nobody has may come again.
* `certloader`: two handshakes, three writes (`MaxWrites`), enough for a torn
  read (certificate and key) and a third write under a slow handshake. Every
  write gets a time of its own; two writes with equal times defeat the loader
  by design.

No run uses symmetry: most of them check liveness, where it is not sound. All
check for deadlock: none of these systems stops, since the endpoint's list, or
the clients, can always move.

### Fairness

* Pools: `WF` of the goroutine's steps: it is scheduled, and every call returns
  or fails. `WF(Tick)`: the ticker fires. `SF(Exit)`: a `select` that finds
  both `ctx2.Done()` and a tick ready picks one at random, so `Exit` is enabled
  over and over, not continuously. Nothing is assumed of clients, of the
  endpoint, or of `Stop`. XrayReload assumes the same of both pools, and that
  a new instance gets to listen (`WF(Open)`); nothing of `Reload`.
* Traffic: `WF(Report)`. Supervisor: `WF` of the loop, the load on a tick, the
  statistics goroutines, and the restart by systemd. CertLoader: `WF` of each
  handshake.
* Certificates: `WF` of the boot (`ManageSync` runs with a timeout of two
  minutes), of a load under way (a timeout of half a minute), of the end of the
  first starts, and of the restart by systemd. Nothing is assumed of certmagic
  or of the authority.
* Failures are never assumed away by fairness: liveness properties have the
  form `[]<>Fault \/ ...`, with `Fault` only the errors that matter for them.

## Findings

1. *Handed-over password* (`pool.go:120`, `:189`). The entry of an old password
   is deleted whoever owns it by then. No later cycle restores it.
2. *Second update of an xray user* (`xray/user.go:58`). The flag is set on the
   wrong object, so the user is not removed first and its new configuration is
   refused: an old password, or a disabled user, goes on working.
3. *Reload of hysteria* (`hysteria/config.go:959`). The statistics port is
   never released; the second `bind` fails and ends the process.

The second finding is why `EnabledIsServed` says "with *some* password of that
user", the first why `IndexComplete` is checked without handovers.

Two comments that the code does not keep, and that the models show as well:
`OnUserUpdate` is "Called with the pool lock held." (`pool.go:24-25`), but is
called without it (`pool.go:194`), so handlers run in between its steps; and
`IterTags` is for "per-tag sync loops" (`pool.go:46-47`), while every hook of
xray works on `proxyTags[0]` (`xray/user.go:49`), so that a second inbound has
no users. `Served` speaks of the first tag for that reason.

## Proofs

TLAPS checks these for every set of users, passwords, keys, clients, handshakes
and pairs, any `PasswordKey`, hooks, number of tags, order of tunnels and
configurations, and any `MaxUse` and `MaxWrites` that the named assumptions of
the modules (`PoolAssumption` and so on) allow. The assumptions say which hooks
a tunnel has, and that the values for "nobody" and "nothing" are no users, ids,
keys, passwords or pairs.

* **UserPoolProofs.** `TypeCorrect`. `ResponseApplied` (`PoolMatchesResponse`):
  the invariant is not inductive, since it says nothing before the report.
  `LoopInv` adds what each loop has done so far: listed users not in `todo` are
  as in the response (`UpdateLoop`), `todo` of the second loop is exactly the
  set of pooled users that are not listed (`SweepLoop`), and the user in hand
  is still in it (`InHand`). `IndexIsSound` (`IndexSound`) needs `IndexInv`:
  that the user being re-keyed is pooled and its former fields at hand. It
  holds with handovers too: a lost entry is no wrong entry. `IndexIsComplete`
  (`IndexComplete`) assumes `~AllowHandover` and needs `KeyInv`: the keys that
  the pool, the response in hand and the list claim for different users are
  disjoint, which is what makes each deletion hit its own entry.
  `FoundUnlessHandedOver`: under the same assumption the property that
  `pool_handover` refutes holds, so a handover is the only way to lose an entry.
  `CyclesAreFinite` (`CycleIsFinite`) assumes finitely many users. The measure
  is the length of the passes still to come (`LeftOfCycle`); each step of a
  pass takes from it (`PassShrinks`), since a user that leaves `todo` was in it
  (`InHand`), and a new pass is paid for by one less to come (`PassesLeft`).
  `SettledStaysQuiet` (`SettledIsQuiet`): a pool equal to the response has
  nothing to create, update or sweep, whatever of it is visited.
* **XrayPoolProofs.** `XrayPoolRefinesUserPool`. `HandInv` says that the hooks
  work on pooled users, `FlagInv` that `running` is clear when `OnUserUpdate`
  comes to add, as long as no call has failed. With them `Exact` is inductive:
  whom xray serves is in the pool and not about to leave it
  (`ServedAreAnswered`), a user marked running is served under its present
  password (`RunningIsServed`), and an enabled user is served unless a hook has
  it in hand (`EnabledInHand`). That the walk's leaked users are not served any
  more follows from the first of these, so their removal clears no flag. From
  it: `ServedArePooled` (`InboundWithinPool`), `RunningAreServed`,
  `EnabledAreServed` (`EnabledIsServed`), `XTypeCorrect`.
  `CompletePassIsServed` joins it with `ResponseApplied`, carried over by
  refinement: at a report xray serves nobody the *response* does not list.
  `XCyclesAreFinite` (`HooksAreFinite`): a step of a hook either is one of the
  cycle or brings the hook nearer to its end.

  Except for what they say of `Exact`, the lemmas about steps hold of a pool
  whatever the inbound contains, so XrayReload can use them while two pools
  share it. `ReloadInv`: both pools keep their own invariants (`PoolInv`,
  `OldInv`), `Exact` holds of the new one until `overlapped` is set, and
  `StrangersAreOld`. A step of the
  old pool leaves the new one what it needs (`Keeps`), and the other way round
  (`OldKeeps`): a call touches one user's entry, and either takes it out or
  puts in somebody its own pool answers for. Right after `Reload` the new pool
  is `Fresh`, and the inbound, which is a new instance, is empty. This gives
  `UntouchedServesExactly` (`UntouchedIsExact`) and `StrangersComeFromOldPool`
  (`StrangersAreOld`).
* **AnytlsPoolProofs.** `AnytlsPoolRefinesUserPool`. `OnlyCurrentAreAdmitted`
  (`AdmissionIsCurrent`): a handler that holds the pooled object and is not in
  `raced` has the present password of its user (`HandlerInv`), from
  `IndexIsSound` at the time of the look-up, carried over by refinement.
  `ATypeCorrect` adds `LoopType`.
* **HysteriaPoolProofs.** `HysteriaPoolRefinesUserPool`. `RemovalEndsSessions`
  (`OnlyMissedOutliveRemoval`): `RemovalInv` says that between `OnUserRemove`
  and `RemoveUser` everybody under the user has been passed by. That no kick of
  the traffic walk runs in that gap is `WalkReports`. `RunningIsReliable`
  (`RunningUnlessMissed`) and `UpdateEndsSessions` (`OnlyMissedKeepOldPassword`)
  share `UpdateInv`: between the kick of an update and its `SetRunning(false)`
  everybody under the user has been passed by (`ClearedMissed`), and a client
  holds the present password from its look-up on, not only once its session
  runs (`KeysAreCurrent`, again from `IndexIsSound`). `HTypeCorrect`.
  `HCyclesAreFinite` (`HooksAreFinite`), as for xray.
* **TrafficProofs.** `TrafficIsCharged` (`Charged`): each step moves bytes
  between the counter, the answer, the field and the report of a user without
  making any (`Balanced`). That `Reset` takes as much off the field as the
  report holds needs `HeldTwice`, that a byte is in one place only
  `AnswerIsTodo`, `ReportOnce` and `FieldsAreFresh`. `LedgerAtMostOnce` is
  proved of the abstract TrafficLedger alone, and `NoByteTwice` follows from
  both. `NothingIsLost` (`NothingLost`), `TypeCorrect`.
* **CertLoaderProofs.** `CacheLooksRight` (`UpToDateIsCurrent`): the same must
  hold of what a handshake has read and not stored yet (`LoadedIsCurrent`);
  this is where it matters that the code stats a file *before* it reads it.
  `CacheIsMonotonic` (`CacheNeverOlder`): no file is older than the cache or
  than what has been loaded under the lock (`NotOlder`), which only one
  handshake holds (`TypeCorrect`).
* **CertificatesProofs.** `CertificateForHandshakes`, `OneSelfSignedPair`,
  `FallbackOnlyIfAllowed`, `PairForXray`, `TypeCorrect`, from `CertInv`: a new
  process has nothing (`BootIsClean`), bytes of a failed generation are
  replaced before anybody serves them (`BytesAreDefault`), the files are one
  pair whenever certmagic is not writing (`FilesArePaired`), and nothing has
  been written since `GetCertificatePEM` read the certificate, or it is torn
  (`ReadingIsCurrent`).
* **SupervisorProofs.** `ConfiguredServed` (`ConfiguredIsServed`): the tunnels
  the loop has been at run as configured (`PassedIsServed`), and no dropped
  object blocks an address unless something has failed (`GhostsAreFaults`);
  what a blocked start leaves behind in addition changes neither.
  `PaddingIsApplied` (`PaddingApplied`), `TypeCorrect`.

The theorems about the three tunnels use those about `UserPool` through the
refinement. Type correctness and refinement of the three tunnels
(`HTypeCorrect`, `HysteriaPoolRefinesUserPool` and so on) hold for all values
of the constants, and no run repeats them.

Only model-checked is liveness, which is out of the prover's reach:
`Converges`, `StopTerminates`, `LeakedSessionsEnd`, `DroppedUsersLeave`,
`RevokedShutOut`, `EventuallySettled`, `Recovers`, `FallbackBoots`,
`UpdateReachesClients`, `StrangersLeave`. What of the first two does not depend
on fairness is proved: a cycle ends by itself (`CyclesAreFinite`), the one that
gets through leaves the response in the pool (`ResponseApplied`), and from then
on the pool stays as it is (`SettledStaysQuiet`); only that the goroutine runs,
ticks and sees the context cancelled is left to TLC. The proofs say nothing of
the properties that the three findings refute, except where
`FoundUnlessHandedOver` says when one of them holds.

## Not modelled

* Geo database loader (`hysteria/utils/geoloader.go`): one goroutine, at
  `Setup`, nothing shared and nothing kept but the maps it has loaded.
* Bandwidth recorders: no pool of this program has a metric URL, so none is
  ever created.
* Outbound dial and copy of anytls, the three proxy protocols: external
  libraries; they move bytes, which TrafficSync has as `Use...` actions.
* Formatting, parsing and translation of configuration fields (most of
  `hysteria/config.go`), the update check, QR codes, installation; of the flags
  only those of ACME are.
* Which option, DNS provider or credential `InitCertMagic` refuses: one choice,
  `AcmeRejected`.
* The `Reload` methods of the servers, which nothing calls; log levels.
* Calls that never return (no deadline on `AlterInbound`, `QueryStats`): a
  goroutine in one hangs for good; every call of the models returns or fails.

## What could come next

1. The overlap of two pools for hysteria and anytls, where the old pool keeps
   answering the sessions it has admitted.
2. `GeoLoader`: download to a temporary file, rename, reload by file age.
