# A TLA+ development for Dittor

Dittor issues anonymous credentials to Tor relay operators.  A group of
Certificate Authorities (CAs) generates a shared key, a user collects blind
partial signatures from a threshold of them, derives a pseudonym from the
resulting credential, and a Directory Authority (DA) admits a relay if its
pseudonym is new or is shared within a family.  This directory models the
protocol code in TLA+, checks it with TLC on small instances and proves its
safety with TLAPS.  Paths are relative to the repository; `J` stands for
`demo/src/main/java/dittor`.

## The system and its parts

| Part | Code | State | Operations |
|---|---|---|---|
| CA process, DKG | `J/CAMain.java`, `J/protocols/CAProtocol.java` | `state`, `connectedPeerIds`, `receivedHashes`, `disqualifiedIds`, `receivedCommitments`, `receivedPubKeyG1/G2`, `receivedSecretShares` | `main`, `startDKG`, `onOutConnectionUp`, `onOutConnectionFailed`, `handleCommitmentHash`, `handleReveal`, `handleShare`, `handleComplaint` and the three `check...PhaseComplete` |
| CA process, requests | `CAProtocol.java` 330-355 | none of its own | `handleMasterPubKeyRequest`, `handleCredentialRequest` |
| CA cryptography | `J/crypto/CA.java` | coefficients, key share, master key | polynomials, commitments, `hashCommitments`, `verifyShare`, `finalizeDKG`, `issueSignatureShare` |
| Key fetch | `J/protocols/MasterPubKeyFetcher.java` | one future | `fetchBlocking`, `onOutConnectionUp`, `handleReply` |
| User process | `J/protocols/UserProtocol.java`, `J/Main.java` | `receivedShares`, `thresholdReached`, `credential`, `last...` | `startRegistration`, `handleCredentialReply`, `sendRegistrationToDA`, `handleRegisterRelayReply`, Main's loop over the nodes |
| User cryptography, VRF, DLEQ | `J/crypto/User.java`, `J/crypto/vrf/` | none | blinding, Lagrange aggregation, unblinding, pseudonym and proof |
| Directory Authority | `J/crypto/DA.java`, `J/protocols/DAProtocol.java` | `registrations` | `verifyVrf`, `verifyCredentialLinkage`, `registerNode`, `handleRegisterRelay` |
| Tor bridge | `J/tor/DAServer.java` | none | the accept loop |
| Tor side of the bridge | `tor/src/feature/dirparse/dittor_proxy.c`, Dittor blocks of `routerparse.c` and `relay/router.c` | none | proof injection, `dittorProxy`, acceptance of a descriptor |
| Tor descriptor handling | `relay/router.c`, `dirclient/dirclient.c`, `dircache/dircache.c`, `dirauth/process_descs.c`, `dirparse/routerparse.c`, `nodelist/routerlist.c`, `dirclient/dlstatus.c` under `tor/src/feature` | `desc_routerinfo`, the routerlist, `cached-descriptors` and its journal | building, uploading, validating, listing, storing, downloading, re-parsing and reloading a descriptor |
| Set-up, tools | `J/crypto/CryptimeleonSetup.java`, `J/testing/` | none | - |

How they interact: the CAs talk to each other over Babel, one TCP connection in
each direction between two CAs.  `Main` fetches the master key from CA-1,
starts the DA, the bridge and one user per node; a user talks to all CAs and
to the DA; Tor processes reach the DA's registry through the bridge.

What is hard in it, part by part:

* DKG: four message types cross on 2(n-1) connections per CA; CAs are launched
  by hand at different times, so one may get hashes, reveals, even shares
  before its own `startDKG`; the main thread and the event loop share all
  state without a lock; nothing has a timeout; a misbehaving CA may tell its
  peers different things; disqualification is decided by each CA alone and
  spread by complaints.
* Issuance: requests that come before DONE are dropped without a retry,
  repeated key requests race their answers, Main reads results after a fixed
  sleep.
* Registry: two threads register; re-registration keeps the first family ids;
  the registry is in memory only.
* Bridge: one client at a time, five seconds each, several ways to close
  without a reply, which Tor takes as "keep the descriptor"; a denied user ends
  the process that holds the registry.
* Descriptors: the same descriptor is validated again by every authority and
  cache, after every download and after every restart, against a registry that
  changes and may be gone; uploads are not repeated; stores are rewritten while
  a stop may come.

What should hold: honest CAs are never disqualified; commitments are bound
before they are revealed; all finished CAs hold shares of one key that matches
the master public key; every honest CA finishes.  A user's credential verifies
under the DA's key.  One pseudonym is used by one family.  A descriptor is
accepted only after a registration.

## Modules

| Module | Content |
|---|---|
| `DKG` | the core: CA processes, their connections and every DKG step; properties; mutants used to test the properties |
| `DKGThreads` | the DKG when handlers of a CA run while its main thread is inside `startDKG` |
| `KeyGen` | abstract specification: CAs establish one key, once |
| `DKGInvariant` | the inductive invariant `DKGInv` |
| `MCDKG` | fault behaviours and symmetry for the TLC instances |
| `DKGMethodProofs` | lemmas: what each method of `CAProtocol` does to a good state |
| `DKGProofs` | the theorems: `DKGInv`, which every step keeps, and what it implies, phases only move forward, the DKG implements `KeyGen` |
| `Registry` | the DA's registry, `registerNode` and the two threads that call it; properties; mutants |
| `FamilyRegistry` | abstract specification: a node joins a pseudonym in one step, first or through a shared family |
| `MCRegistry` | requests for the TLC instance |
| `RegistryProofs` | the registry's theorems |
| `Admission` | the DA's decision in one step, used by the modules below |
| `Validator` | abstract specification: a validation is decided at most once, or lost |
| `Bridge` | `dittorProxy`, `DAServer`, clients that never write, restarts of `Main`; properties; mutants |
| `MCBridge`, `BridgeProofs` | requests for the TLC instances; theorems |
| `Issuance` | the key fetch, `UserProtocol`, the request handlers of the CAs and Main's loop, with the CAs as `KeyGen` leaves them; properties; mutants |
| `IssuanceProofs` | theorems |
| `Credentials` | the cryptography, from polynomials to an accepted registration, in the exponent over a small field; properties; mutants |
| `MCCredentials` | a hash for the TLC instance |
| `CredentialsAlgebra` | lemmas: arithmetic modulo a prime, folds, polynomials, Lagrange interpolation |
| `CredentialsProofs` | the inductive invariant `CredentialsInv` and the theorems |
| `Descriptors` | relays, authorities, caches and the consensus, with the bridge as `Validator` and the DA as `Admission`; properties; mutants |
| `MCDescriptors` | families and budgets for the TLC instances |
| `DescriptorsProofs` | theorems, and the lemmas on the parser, the routerlist and a step of one server |

How the modules compose: `Registry` shows that `registerNode` with its two
callers is one atomic decision; `Admission` is that decision, and `Bridge` uses
it; `Bridge` shows that a validation is one such decision or `NULL`
(`Validator`), and `Descriptors` uses that.  `DKG` shows what keys the CAs end
with (`KeyGen`), and `Issuance` starts from there, with CAs that hold another
key as the violated runs of `DKG` allow.  `Credentials` justifies what `DKG`
and `Issuance` assume of the values: shares of a polynomial verify, shares of
one key combine to a credential that verifies.

### How DKG corresponds to the code

`ca[i]` is the record of the fields of CA i's `CAProtocol` and `crypto.CA`
objects, under their Java names.  `hashCount` is `receivedHashes.size()`, kept
apart from the map because an unsynchronized `HashMap` can lose one without
the other (`DKGThreads`).  `receivedCommitments` also stands for `receivedPubKeyG1` and
`receivedPubKeyG2`, which are put and read together with it.
`secretCoefficients` says whether the polynomials are there.  `out[j]` is what
has been handed to `sendMessage` for j and not yet been handled by j.
`main[i]` is the position of the main thread in `CAMain.main`, `chan[i][j]` the
outgoing connection from i to j, and `says[i][j]` the values i publishes to j.

Methods without a suspension point are functions from the state to the state
(`handleReveal(i, s, j, r)`, `checkSharePhaseComplete(i, s)`...) that call each
other as the Java methods do; an action takes one event and applies the whole
handler.  `startDKG` is split after the put of its hash and after the
`openConnection` loop.  In `DKG` the handlers of a CA wait until its `startDKG`
has returned, as they would with a lock; before `startDKG` they run.

The code has no lock.  `DKGThreads` extends `DKG`: for a CA in `RacyStart`, from
the put of `startDKG` to its return, `at[i]["main"]` and `at[i]["loop"]` are the
positions of both threads inside the methods of `CAProtocol`, which may be the
same one.  A step is one phase test, one send to one peer, one addition to
`disqualifiedIds`, or a new `state` with the map entry written right after it.
What the two threads do to the same collection is a choice over the outcomes:
`overlappingPut` has the map with both entries and, for a map whose table both
threads allocate, the map without one of them; two threads in `finalizeDKG` may
leave a key that is nobody's.  Apart from these, memory is sequentially
consistent; stale reads and a `ConcurrentModificationException` are left out,
which only makes the behaviours fewer, and the run needs neither.  As soon as the
CA is down to one thread it takes the steps of `DKG`, as the other CAs do.

Abstractions.  A polynomial is a name: `Own` is the one the sender generated,
other members of `Contents` are any other.  A reveal is a pair of names, one
for the commitments and one for the public keys, because the code checks the
two differently.  A hash is equal to another exactly if the reveals are equal.
A share verifies against commitments exactly if it belongs to the same
polynomial.  The key a CA computes is kept as the map from contributor to the
polynomial that was summed (share) or multiplied (master key).

Assumptions about what is not in the repository, or not about its logic:

* The configuration files agree: `n` is the number of CAs, `peers` lists all
  others, and a message's `senderID` is the id of the CA on that connection.
* Babel runs one handler at a time, a handler that throws ends alone, and a
  connection delivers in order while both ends live.
* A faulty CA runs the code, but what it publishes to a peer may belong to
  another polynomial, and it may send its reveal ahead of its hash.
* `openConnection` to a process that does not listen fails; to one that
  listens it succeeds.

### How Registry corresponds to the code

`registrations[key]` is the inner map of a pseudonym, from node to family ids;
`None` marks a node that is not in it, and a map without nodes stands for no
entry (the code never stores an empty one).  `monitor` is the thread inside the
`synchronized` method, `thread[t]` the position of a thread in its handler, with
the request it serves and the answer so far.  `Verify` is both handlers up to
the call of `registerNode`; `RegisterNode` enters the monitor, reads the entry
and decides (`decide` has the tests in the order of the code) and, unless there
is something to put, leaves it; `Put` is the rest.  The split between reading
and putting is what makes `synchronized` matter in the model.  `Reply` sends
the answer.

Abstractions.  Whether the VRF proof and the credential linkage of a request
verify is part of the request (`vrf`, `linkage`); TLC tries all four
combinations.  A pseudonym is the whole key, context included.  `-` in a
VALIDATE line is the empty set of families.  A line whose payload does not
parse is answered as one with bad proofs; a connection that is closed without
an answer changes nothing here and belongs to `Bridge`.  The registry is in
memory; restarts of the DA are in `Bridge` and `Descriptors`.

### How Bridge corresponds to the code

`proxy[c]` is the position of a Tor process in `dittorProxy`: before `connect`,
before `send`, in `read`.  `queue` is the backlog of the server socket, `server`
the client that `DAServer.run` serves and the verdict it has reached, `line[c]`
and `wire[c]` what each side has put into the connection, `leaked[c]` the
sockets of failed connects, which are never closed.  `main` is the process of
`Main`, which holds the DA: a user's registration is `HandleRegisterRelay`, a
denied one leads to `System.exit`, and `StopMain` takes registry, backlog and
connections with it.  `calm` is a history variable: since the call began Main
has run, and the caller itself was not timed out.

Abstractions.  The backlog (50) is larger than the number of clients, and a line
fits the buffer of `dittorProxy`.  A stopped Tor process is not started again.
Any client may be held up for five seconds before it writes, so the timeout may
come whenever the server reads and there is no line.  A line arrives at once: a
client that sends it in pieces, each within five seconds, is not modelled, and
`CallsReturn` says nothing of one.

### How Issuance corresponds to the code

`key[i]` is what CA i answers with once it is DONE: `"master"`, or `"other"` for a
CA in `Odd`.  `main`, `attempt`, `conn`, `asked` and `reply` are `fetchBlocking`
and its one connection; `link[u][i]` follows user u's request to CA i from the
connection to the share; `da[u]` the registration; `registered[u]` says who
holds u's pseudonym at the DA, the node's name that Main registers or the
fingerprint that its Tor process brings later; `file[u]` is the exported proof.

Assumptions: Babel's `sendMessage` queues while a connection is being opened and
drops without one; failed connections are not retried, as no handler is
registered for them; a sleep or a timeout may end at any time relative to other
processes.  The getters that Main reads were written by one handler before it
sends, so reading them is one step.  Each user draws a secret of its own, so
pseudonyms differ.  The DA runs in the process of Main and is reachable while it
runs.

### How Credentials corresponds to the code

A group of prime order is represented by exponents: `op` adds, `pow` and the
pairing `map` multiply.  `evaluatePolynomial`, `verifyShare`, `lambda`,
`aggregateShares`, `unblindSignature`, `buildProof`, `isValid`, `generateProof`
and `verifyProof` are the Java methods of these names; where the code inverts
zero, the handler throws and its effects are missing.  `Hash` is a parameter.
Nothing here says that logarithms are hard: the properties are those that hold
by algebra.

### How Descriptors corresponds to the code

`desc[r]` and `stage[r]` are `desc_routerinfo` with `desc_clean_since` and
`desc_needs_upload`; `accepted[r]` is `has_accepted_serverdesc`.  `dir[n]` has
the routerlist of server n (`routers`, `old`), its store and journal on disk,
what it has still to parse after a start, and the digests it has marked.
`Parse` is `router_parse_entry_from_string` with the Dittor block: a descriptor
without a proof fails, the bridge is asked, `INVALID` fails for good, and only
then the signature is checked.  `AddToRouterlist`, `DirservAddDescriptor`,
`extrainfoResult` and `RebuildStore` are the functions of `routerlist.c` and
`process_descs.c`; `HandlePost`, `Download`, `ReparseOld`, `Load`, `CleanCaches`
apply them as a whole.  A listed descriptor remembers the run of Main that
validated it, or 0 if it came in without an answer (history).

All processes run this build of Tor, relays included.  A relay therefore parses
its own fresh descriptor (`DEBUG_ROUTER_DUMP_ROUTER_TO_STRING` is defined in
`router.c`) before it takes it: `RebuildDescriptor` is a build that gets through,
and registers the relay if the DA answers; `RebuildFails` is one without a proof
file or with the answer `INVALID`, after which the descriptor stays dirty and the
next call of `consider_publishable_server` tries again.  `impossible` collects
the digests that were ever marked since the server started; a mark itself
expires with the entry of the consensus and does not keep a descriptor out when it
is downloaded or uploaded all the same.

Abstractions.  The bridge may answer `NULL` at any time (when it does is
`NullMeansTrouble` of `Bridge`).  Proofs are genuine; what may fail is the
registration.  A relay's families do not change.  Voting is external: the
consensus is what a majority of the authorities lists, and all servers see it
at once.  A download may be damaged in its signature; damage elsewhere gives
another digest.  Whether two descriptors differ only cosmetically is left open.
Writes to disk succeed, and the rebuild at the end of loading is not
interrupted.  Expiry, clock skew, key pinning, reject lists and address checks
are left out, and an extra-info document is always built.

## Runs

| Run | Instance | Checks |
|---|---|---|
| `dkg_faulty` | three CAs, one with at most one kind of wrong value (reveal, share or order) to each peer, `FairSpec` | `DKGInv`, `HonestStayQualified`, `CommitBeforeReveal`, `KeyBacked`, `HonestContribute`, `PolynomialKept`, `NoShareIgnored`, `PhaseForward`, `HonestFinish` |
| `dkg_crash` | every CA may stop, and one may reveal what its hash does not cover | `ImplementsKeyGen` |
| `dkg_wrong_share` | one CA that may send wrong shares | `Agreement`, violated |
| `dkg_wrong_key` | one CA whose public keys may be others | `ShareMatchesKey`, violated |
| `dkg_threads` | three honest CAs, handlers of one of them overlap its `startDKG` | `Agreement`, violated |
| `registry` | one pseudonym, three nodes, two families, both threads, `FairSpec` | `RegistryInv`, `OneFamily`, `AcceptedIsRegistered`, `ImplementsFamilyRegistry`, `SomeoneAnswered` |
| `bridge` | a Tor process with two sockets that may be slow, a silent client, requests for two nodes from Tor and from users, three starts of Main, `FairSpec` | `BridgeInv`, `ValidIsRegistered`, `NullMeansTrouble`, `ImplementsValidator`, `CallsReturn` |
| `bridge_leak` | a Tor process with one socket, two starts of Main | `EnforcedWhileUp`, violated |
| `issuance` | four CAs, threshold three, one that may hold another key, one stop, two attempts, one user, `FairSpec` | `IssuanceInv`, `ApprovedIsGood`, `DeniedIsTaken`, `ExportedIsGood`, `ServedWhenReady` |
| `credentials` | field of five elements, three CAs, two of them dealers, threshold two | `SharesVerify`, `SharesHide`, `OnePseudonym`, `LinkageSound`, `CredentialVerifies`, `RegistrationAccepted` |
| `descriptors` | two relays of a family and a user's node with one pseudonym, an authority and a cache, up to two descriptors per relay, one loss, one restart of a server, two starts of Main (see below), `FairSpec` | `DescriptorsInv`, `OneFamilyListed`, `KeptOnDisk`, `AcceptedIsListed`, `ReloadKeeps`, `NewestListed`, `ProofGetsListed` |
| `descriptors_marked` | the same | `NeverParseable`, violated |

`RegistryInv` contains `RejectedIsTaken` and `IssuanceInv` contains `OneHolder`;
`RegistrationsKept` follows from `ImplementsFamilyRegistry`.

Why the bounds are enough.  The DKG instances have three CAs and threshold 2,
the configuration in `demo/ca-config`.  Three CAs are the smallest group in
which a CA can tell two honest peers different things and in which a complaint
can race a share.  Two polynomials are enough because every test of the code
compares two values for equality.  Three nodes and two families are the
smallest registry in which two nodes of a pseudonym share no family themselves
and are joined by a third; two requests at a time are all there can be, one per
thread.  In `bridge` the competitors of the Tor process for a pseudonym are
users, who reach the registry between any two of its steps, and the silent
client is the one it waits behind.  In `issuance` four CAs leave, besides a
threshold, one that may be late, stopped or odd.  In `credentials` every
subset of CAs that can answer first is tried; `Draws` has zero, one and a
further element.  In `descriptors` the bounds may be used up in part from the
beginning (`Spent`): in one start a single relay has two descriptors, the loss, the
restart and both starts of Main, so that an upload can be lost and repeated, a
server can restart with a store and a journal, and the registry can be lost and
filled by somebody else; in the three others both relays have one descriptor
each, together with either both starts of Main, or the restart of a server, or
the loss, so that they compete for the pseudonym with each other and the user,
and are listed under it at once.  A smaller
budget only leaves behaviours out, so each start is one of the program.  Where safety is proved, it is proved without
these bounds.

`CHECK_DEADLOCK FALSE` is set for all runs but `registry`: the DKG and issuance
end, Tor processes may stop for good, and the numbers of starts and descriptors
are bounded.  The registry serves for ever.

`HonestSymmetry` permutes honest CAs in `dkg_crash`, which checks no liveness; the model never
orders CAs, so it is sound there.  The faulty CA's behaviours (`HashOwn` in
`MCDKG`) are taken up to renaming the polynomials: a wrong hash with the right
reveal is the same mismatch as a right hash with a wrong reveal, and an early
reveal is never compared with a hash.

### Fairness

Only what the code's scheduling gives is assumed.

* DKG: each thread of a live process keeps taking steps, each event loop gets to
  the events of each connection (Babel takes them from one FIFO queue), and each
  connection attempt is answered with up or failed.  `CAMain` is assumed to be
  launched for every CA.  No fairness is assumed for crashes or faulty values.
* Registry: a thread inside or past `registerNode` keeps running, and a free
  monitor is given to some waiting thread.  Java monitors do not promise more,
  so `SomeoneAnswered` says that some request is answered, not that each one is.
* Bridge: `dittorProxy` and the accept loop go on while their processes run,
  the timeout of the server's read included; nobody has to write, stop or start.
* Issuance: connections succeed or fail, messages between running processes are
  handled, and Main's thread goes on.  Nobody has to launch a CA.
* Descriptors: a relay rebuilds its descriptor from time to time, connections
  that do not break are served, servers finish loading, authorities vote, and
  not every download of a descriptor is damaged.  That a rebuild gets through
  needs no assumption of its own: unless there is no proof or the DA refuses the
  relay, every outcome of its own parse does.  Uploads are not repeated by the
  code, so `ProofGetsListed` asks for more descriptors than can get lost.

Each property of a passing run has been tried against a mutant of the code
(the operators `M_...`) that breaks it.

### What the violated properties show

* `dkg_wrong_share`: a share is checked by its receiver alone and each CA
  finalizes by its own count.  A CA that sends a wrong share to one peer is
  excluded by that peer; the other honest CA, all of whose shares verified,
  is already DONE when the complaint arrives.  Their master keys differ.  The
  README's first page promises "disqualification of misbehaving CAs".  With
  wrong reveals the same cannot happen (`dkg_crash`): the complaint travels
  ahead of the complainer's share, which everyone waits for.
* `dkg_wrong_key`: the revealed public keys are bound by the hash but never
  compared with the commitments, so the master public key need not belong to
  the key shares.
* `dkg_threads`: `CAMain` calls `startDKG` on the main thread although the
  event loop runs already.  A handler's put of a hash overlaps the one of
  `startDKG` and is lost, while `size()` counts it.  The reveal of that honest
  peer then looks like one without a hash.  The event loop adds the peer to
  `disqualifiedIds`; before it sends the complaints the main thread finds all
  reveals accounted for and sends its shares.  A third CA gets share before
  complaint and finishes with the peer, this CA without it.  With one thread the
  complaint always travels ahead of the share.
* `bridge_leak`: `dittorProxy` does not close the socket of a failed connect.
  `demo/test-results/RESULTS.md` says that enforcement is lost during the window
  in which the backend is down; once the sockets are used up it stays lost.
* `descriptors_marked`: a comment in `routerlist.c` says of a digest that failed
  before `can_dl_again` was set that it "is never going to be parseable".  The
  answer of the bridge is among the things tested before, and it is not covered
  by the digest: it depends on the registry and on whether the bridge answers.  A
  cache marks a digest after `INVALID`, asks again, gets no answer, and lists the
  descriptor.

Met while modelling, and left as the code has it: `fetchBlocking` gives up after
ten attempts, on a connection that is opened once; the sleep in Main does not
wait for the tasks it is meant for (`ExportedIsGood` says that this is harmless);
a user is approved under the node's name and its relay, which comes with its
fingerprint, is then `INVALID` (`OneHolder`); an authority answers 200 to a
rejected descriptor if it lists an earlier one, so `AcceptedIsListed` says only
that some descriptor is listed.

## Proofs

All assumptions on constants are named in the modules that declare them and
evaluated by TLC in the runs.

### The DKG

The theorems of `DKGProofs` hold for every finite set of CAs, every threshold,
every set of faulty CAs with every behaviour, and every set of CAs that may
crash, from `CAAssumption`, `ContentsAssumption`, `ThresholdAssumption`,
`HashAssumption` and `BehaviourAssumption`.  They are about `DKG`, in which a CA
runs one thread at a time; with overlapping threads agreement is lost
(`dkg_threads`).  The last two also need `Faulty = {}`, as `dkg_wrong_share`
shows.

| Theorem | States |
|---|---|
| `Invariance` | `Spec => []DKGInv` |
| `Typed` | `TypeOK` |
| `HonestQualified` | `HonestStayQualified` |
| `HashThenReveal` | `CommitBeforeReveal` |
| `KeyIsBacked` | `KeyBacked` |
| `HonestAreIn` | `HonestContribute` |
| `SharesAreRead` | `NoShareIgnored` |
| `PolynomialIsKept` | `PolynomialKept` |
| `ForwardOnly` | `PhaseForward` |
| `FaultFreeAgreement` | `Agreement`, if no CA is faulty |
| `FaultFreeRefinement` | `ImplementsKeyGen`, if no CA is faulty |

The argument.  That an honest CA is never disqualified is not inductive: it
depends on what is in flight.  `DKGInv` therefore has a part per CA and a part
per connection.  For a CA (`MapsAgree`, `PhaseOK`, `ConnectedOK`): accepted
commitments are the hashed ones, stored shares are verified, a CA that left
the hash phase is connected to all its peers and holds all hashes, and a
finished CA's key is backed.  For a connection (`InFlightOK`, `SentOK`): from an honest CA,
each reveal in flight is preceded by its hash, in flight or already stored at
the receiver, each share by its reveal, and a CA past the hash phase has put
its reveal on every connection.  The middle fact holds because
`checkHashPhaseComplete` waits for all outgoing connections and
`onOutConnectionUp` sends the hash first; that is the reason for the test on
`connectedPeerIds`, and it makes the late-connection branch of
`onOutConnectionUp` (lines 145-148) unreachable.  The lemmas of
`DKGMethodProofs` follow the calls: `CheckShareGood`, `CheckRevealGood`,
`RevealGood`, then one per handler; each says that the method keeps the parts
about its CA and only appends legal messages.  `DKGProofs` has one lemma for
each step of the main thread, the connections and the handlers, and `NextInv`
joins them.

### The registry

The theorems of `RegistryProofs` hold for all sets of pseudonyms, nodes, families
and requests, from `ClaimsAssumption` and `NoneAssumption` alone.

| Theorem | States |
|---|---|
| `RegistryInvariance` | `Spec => []RegistryInv` |
| `OneFamilyPerPseudonym` | `OneFamily` |
| `AnsweredYes`, `AnsweredNo` | `AcceptedIsRegistered`, `RejectedIsTaken` |
| `NothingForgotten` | `RegistrationsKept` |
| `RegistryRefinement` | `ImplementsFamilyRegistry` |

The argument.  `OneFamily` is not inductive, because a put relies on a decision
made a step before.  `Deciding` adds that a thread about to put owns the
monitor and that its decision is still the one the entry gives; only the owner
of the monitor can put, so the other thread does not disturb it.  `OneFamily`
speaks of all ways to divide the nodes of an entry, so no induction over paths
is needed: `FirstGroup` starts a group, and `GrowGroup` adds a node that shares
a family with any member.  For the refinement, `Put` is the abstract `Join` and
every other step stutters.

### The bridge

The theorems of `BridgeProofs` hold for any Tor processes, silent clients,
requests, numbers of sockets and of starts.

| Theorem | States |
|---|---|
| `BridgeInvariance` | `Spec => []BridgeInv` |
| `ValidAnswers` | `ValidIsRegistered` |
| `NullAnswers` | `NullMeansTrouble` |
| `BridgeRefinement` | `ImplementsValidator` |

The argument.  A reply could go astray in three ways: from a connection that is
in the backlog twice, from an ended Main, or to the next call of the same
process.  `QueueOK` excludes the first two and `ConnectionOK` the third: a
process that is not in a call has no open connection, and one that is has an
open one until the server has answered or closed it.  `CallOK` carries what the
verdict was based on from `ReadLine` to `Reply`.  For the refinement the state
of a call is read off connection and server (`verdictOf`): `ReadLine` decides,
`EndOfFile` and `TimeOut` lose the call, `StopMain` loses all that wait.

### Issuance

The theorems of `IssuanceProofs` hold for any finite set of CAs, any threshold,
numbers of users, attempts and stops, and any set of CAs with another key.

| Theorem | States |
|---|---|
| `IssuanceInvariance` | `Spec => []IssuanceInv` |
| `Approved` | `ApprovedIsGood` |
| `Denied` | `DeniedIsTaken` |
| `Exported` | `ExportedIsGood` |
| `Holder` | `OneHolder` |

The argument.  Where a key came from has to be followed from the CA over the
reply to the user: with one key, no other one is in a reply or fetched
(`KeysOK`), so a credential made of a threshold of shares is good, and a
registration or a file has what the stage before it made (`UserOK`).

### Credentials

The theorems of `CredentialsProofs` hold for every prime order, every set of CAs
with distinct IDs other than zero in the field, every set of dealers among them,
every threshold up to the number of CAs, every context and every hash into the
field, from `PAssumption`, `HAssumption`, `IdsAssumption`, `HashAssumption` and
`NoneAssumption`.  The IDs are the positive numbers of the configuration file and
far below the order of the curve; `h1` is not the neutral element.

| Theorem | States |
|---|---|
| `CredentialsInvariant` | `Spec => []CredentialsInv` |
| `SharesAlwaysVerify` | `SharesVerify` |
| `SharesAlwaysHide` | `SharesHide` |
| `CredentialAlwaysVerifies` | `CredentialVerifies` |
| `AlwaysOnePseudonym` | `OnePseudonym` |
| `LinkageAlwaysSound` | `LinkageSound` |
| `RegistrationAlwaysAccepted` | `RegistrationAccepted` |

The argument.  `CredentialVerifies` relates the credential to a master key whose
polynomials `finalizeDKG` has erased.  `CredentialsInv` keeps what is left of
them (`SharedKey`): there is a polynomial with fewer coefficients than or as many
as the threshold that has the master key at 0 and the CAs' shares at their IDs.
The user's shares are the blinded commitment raised to its values, whoever
answered.  TLC has checked `CredentialsInv` on the instance of the run
`credentials` as well.

What remains is algebra, in `CredentialsAlgebra`.  That Zn is a field
is proved from the definition of a prime (`InverseExists`: the smallest non-zero
multiple of a number divides P).  The folds of the library are defined by
`CHOOSE`; `FoldDefined` shows that the function they choose exists, and
`Rearranged` that for a commutative and associative operation the order of the
elements does not matter, as it must not for Java's maps.  `EvaluateLoop` turns
`evaluatePolynomial` into the loop of the code and `EvaluateHorner` into the
set `Poly(n)` of functions with at most n coefficients, closed under sums,
multiples and division by x - a.  `Interpolation` is the theorem behind
`aggregateShares`: the values at any set of points, weighted by `lambda`, add
up to the value at 0, provided the polynomial has no more coefficients than there
are points; it goes by induction over the set of points, taking out one point
(`LambdaRemove`) and dividing by its factor.  `SharesHide` needs the converse:
`Vanishing` is a polynomial that is zero at the IDs of the others and one at 0.

Induction over numbers and sets does not use the library's induction theorems,
whose parameter is an operator: `Smallest` takes the smallest natural number for
which a fact fails, and `Induction` and `SetInduction` state the facts as
membership in a set.

### Descriptors

The theorems of `DescriptorsProofs` hold for any relays, names, families,
authorities and caches, for any values of the bounds on descriptors, losses,
restarts and starts, and for whatever part of them is used up in the beginning.

| Theorem | States |
|---|---|
| `DescriptorsInvariance` | `Spec => []DescriptorsInv` |
| `Listed` | `OneFamilyListed` |
| `Stored` | `KeptOnDisk` |
| `Reloaded` | `ReloadKeeps` |
| `Newest` | `NewestListed` |
| `AcceptedListed` | `AcceptedIsListed` |

The argument.  `DescriptorsInv` has `OneGroup` for the registry in every state and
ties what a server lists to the run of Main that validated it: an entry of an
earlier run says nothing of the present registry, and no entry is of a later
one.  A relay's own parse changes the registry as a server's does; it only adds to
it (`Registered`).  `DescriptorsProofs` first proves, once, what parsing and
adding to a routerlist do (`ParseFacts`, `AddFacts`), then that each step of a
server changes its state in that way (`ServerStep`, which `DirStep` shows to keep
the invariant), so that the theorems about steps need no case split over the code
of the routerlist.  `AcceptedListed` needs in addition that an
authority with an old descriptor of a relay has a current one (`OldIsListed`),
for an upload may be filed as old.

### Checked by TLC only

Liveness (`HonestFinish`, `SomeoneAnswered`, `CallsReturn`, `ServedWhenReady`,
`ProofGetsListed`) is outside the proof system.  Also without a proof: agreement
under wrong reveals.  Every safety property of the passing runs is otherwise
proved.

## Not modelled

* The set-up of the curve (`CryptimeleonSetup`): constants, equal in every process.
* The manual test tools in `J/testing/`, serialization, logging and configuration
  files.  A payload that does not parse is a request with bad proofs.
* Tor apart from the handling of descriptors, and Chutney: circuits, streams,
  cells, onion services, configuration, event loop, voting.  This is nearly all of
  the vendored 347 000 lines; Dittor neither changes it nor relies on more of it
  than `Descriptors` has, and a model of it would be one of Tor.
* Of the handling of descriptors: expiry, clock skew, key pinning, reject lists,
  address checks, bridges, and the extra-info store.
