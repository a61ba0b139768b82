---------------------------- MODULE Descriptors -----------------------------
(* The descriptors of the relays, from the proof file to the lists of the  *)
(* directory servers: how a relay puts its proof into a descriptor and     *)
(* uploads it, how an authority has it validated and lists it, how the     *)
(* others download it, and how all of them parse it again after a restart. *)
(* The DA's registry is that of Admission and the bridge that of           *)
(* Validator: one decision per request, or NULL.                           *)
EXTENDS Naturals, FiniteSets, Sequences, Admission

CONSTANTS
    Relays,
    Names,          \* node names, under which Main's users register
    Family,         \* Family[r]: the family ids in r's descriptors
    Auths,          \* directory authorities
    Caches,         \* relays that are directory caches
    MaxGen,         \* bound: descriptors a relay builds
    MaxLosses,      \* bound: uploads that are put off, connections that break
    MaxCrashes,     \* bound: restarts of directory servers
    MaxStarts,      \* bound: starts of Main
    Spent           \* how much of these bounds may be used up in the beginning

Dirs == Auths \cup Caches

ASSUME NodesAssumption == Nodes = Relays \cup Names /\ Relays \cap Names = {}
ASSUME FamilyAssumption == Family \in [Relays -> SUBSET FamilyIds]
ASSUME DirsAssumption == Auths \cap Caches = {}
ASSUME BoundsAssumption == {MaxGen, MaxLosses, MaxCrashes, MaxStarts} \subseteq Nat
ASSUME SpentAssumption ==
    Spent \subseteq [builds : [Relays -> 0 .. MaxGen], losses : 0 .. MaxLosses,
                     crashes : 0 .. MaxCrashes, starts : 0 .. MaxStarts]

\* A descriptor: its publication time and the proof in it.
Descriptor == [relay : Relays, published : 1 .. MaxGen, proof : Pseudonyms \cup {None}]

\* A descriptor in a routerlist, with the run of Main that validated it, or 0
\* if it was let in without an answer.
Router == [desc : Descriptor, by : 0 .. MaxStarts]

ASSUME NoneIsNothing == \A x \in Descriptor \cup Router \cup Pseudonyms : x # None

VARIABLES
    proofFile,      \* proofFile[r]: the pseudonym in r's dittor_proof.txt, or None
    desc,           \* desc[r]: desc_routerinfo
    stage,          \* stage[r]: "dirty", "built" (desc_needs_upload) or "clean"
    accepted,       \* accepted[r]: the authorities with has_accepted_serverdesc
    posts,          \* uploads on their way
    replies,        \* responses on their way
    dir,            \* dir[n]: the routerlist and the store of directory server n
    consensus,      \* consensus[r]: the descriptor the consensus lists for r
    registrations,  \* of the DA
    main,           \* is Main, with the DA and the bridge, running
    builds,         \* builds[r]: how many descriptors r has built
    starts, losses, crashes

relayVars == <<proofFile, desc, stage, accepted, builds>>
backend == <<registrations, main, starts>>
vars == <<proofFile, desc, stage, accepted, posts, replies, dir, consensus,
          registrations, main, builds, starts, losses, crashes>>

EmptyDir ==
    [routers |-> [r \in Relays |-> None],   \* routerlist->routers
     old |-> {},                            \* routerlist->old_routers
     store |-> {}, journal |-> <<>>,        \* cached-descriptors and its journal, on disk
     fromStore |-> {}, fromJournal |-> <<>>,   \* at start-up: what is still to be parsed
     impossible |-> {}]                     \* digests that were marked IMPOSSIBLE_TO_DOWNLOAD

Init ==
    /\ proofFile = [r \in Relays |-> None]
    /\ desc = [r \in Relays |-> None]
    /\ stage = [r \in Relays |-> "dirty"]
    /\ accepted = [r \in Relays |-> {}]
    /\ posts = {} /\ replies = {}
    /\ dir = [d \in Dirs |-> EmptyDir]
    /\ consensus = [r \in Relays |-> None]
    /\ registrations = Empty
    /\ main = "down"
    /\ \E spent \in Spent :
          /\ builds = spent.builds /\ losses = spent.losses
          /\ crashes = spent.crashes /\ starts = spent.starts

-----------------------------------------------------------------------------
(* Parsing.                                                                *)

claimOf(d) == [key |-> d.proof, nodeId |-> d.relay, familyIds |-> Family[d.relay], good |-> TRUE]

\* dittorProxy: NULL, or what the DA decides.
DittorProxy(d, answer) ==
    \/ answer = "NULL" /\ UNCHANGED registrations
    \/ /\ main = "up"
       /\ answer = IF Accepts(registrations, claimOf(d)) THEN "VALID" ELSE "INVALID"
       /\ registrations' = Enter(registrations, claimOf(d))

\* Mutant: the bridge is not asked.
M_NotAsked(d, damaged, outcome) ==
    outcome = (IF damaged THEN "again" ELSE "VALID") /\ UNCHANGED registrations

\* Mutant: without an answer the descriptor is rejected.
M_FailClosed(d, damaged, outcome) ==
    \/ d.proof = None /\ outcome = "bad" /\ UNCHANGED registrations
    \/ /\ d.proof # None
       /\ \E answer \in {"VALID", "INVALID", "NULL"} :
             /\ DittorProxy(d, answer)
             /\ outcome = IF answer # "VALID" THEN "bad" ELSE IF damaged THEN "again" ELSE answer

\* router_parse_entry_from_string: "bad" is a failure that is final, "again"
\* one after which the descriptor may be downloaded again.  The bridge is asked
\* before the signature is checked.
Parse(d, damaged, outcome) ==
    \/ d.proof = None /\ outcome = "bad" /\ UNCHANGED registrations
    \/ /\ d.proof # None
       /\ \E answer \in {"VALID", "INVALID", "NULL"} :
             /\ DittorProxy(d, answer)
             /\ outcome = IF answer = "INVALID" THEN "bad" ELSE IF damaged THEN "again" ELSE answer

Parsed(outcome) == outcome \in {"VALID", "NULL"}
routerOf(d, outcome) == [desc |-> d, by |-> IF outcome = "VALID" THEN starts ELSE 0]

-----------------------------------------------------------------------------
(* The relay.                                                              *)

\* Main writes a proof file, or the operator copies one; the move is atomic.
WriteProof(r) ==
    /\ builds[r] < MaxGen
    /\ \E p \in Pseudonyms \ {proofFile[r]} : proofFile' = [proofFile EXCEPT ![r] = p]
    /\ UNCHANGED <<desc, stage, accepted, builds, posts, replies, dir, consensus, backend, losses, crashes>>

\* mark_my_descriptor_dirty: time has passed, or something has changed.
MarkMyDescriptorDirty(r) ==
    /\ stage[r] # "dirty" /\ builds[r] < MaxGen
    /\ stage' = [stage EXCEPT ![r] = "dirty"]
    /\ UNCHANGED <<proofFile, desc, accepted, builds, posts, replies, dir, consensus, backend, losses, crashes>>

\* The dittor-proof line of a descriptor: what is in the file when it is built.
proofLine(r) == proofFile[r]

freshDescriptor(r) == [relay |-> r, published |-> builds[r] + 1, proof |-> proofLine(r)]

\* router_rebuild_descriptor of a dirty descriptor: the relay parses what it has
\* built, and so has it validated and registered.
RebuildDescriptor(r) ==
    /\ \E outcome \in {"VALID", "NULL"} : Parse(freshDescriptor(r), FALSE, outcome)
    /\ desc' = [desc EXCEPT ![r] = freshDescriptor(r)]
    /\ builds' = [builds EXCEPT ![r] = @ + 1]

\* It cannot parse it: the old descriptor stays, and stays dirty, so that the
\* next call tries again.
RebuildFails(r) ==
    /\ Parse(freshDescriptor(r), FALSE, "bad")
    /\ UNCHANGED <<desc, builds, stage, posts, accepted, losses>>

\* router_upload_dir_desc_to_dirservers: to every authority.
Upload(r) ==
    /\ stage' = [stage EXCEPT ![r] = "clean"]
    /\ posts' = posts \cup {[to |-> a, desc |-> desc'[r]] : a \in Auths}
    /\ accepted' = [accepted EXCEPT ![r] = {}]
    /\ UNCHANGED losses

\* The relay does not find itself publishable yet.
PutOff(r) ==
    /\ losses < MaxLosses
    /\ stage' = [stage EXCEPT ![r] = "built"] /\ losses' = losses + 1
    /\ UNCHANGED <<posts, accepted>>

\* consider_publishable_server: the descriptor is rebuilt if it is dirty, and
\* uploaded if it is new and the relay finds itself publishable.
ConsiderPublishableServer(r) ==
    /\ \/ /\ stage[r] = "dirty" /\ builds[r] < MaxGen
          /\ RebuildFails(r) \/ (RebuildDescriptor(r) /\ (Upload(r) \/ PutOff(r)))
       \/ /\ stage[r] = "built"
          /\ UNCHANGED <<desc, builds, registrations>> /\ Upload(r)
    /\ UNCHANGED <<proofFile, replies, dir, consensus, main, starts, crashes>>

\* handle_response_upload_dir: any 200 counts.
HandleResponseUploadDir(m) ==
    /\ m \in replies
    /\ replies' = replies \ {m}
    /\ accepted' = IF m.status = 200 THEN [accepted EXCEPT ![m.desc.relay] = @ \cup {m.from}] ELSE accepted
    /\ UNCHANGED <<proofFile, desc, stage, builds, posts, dir, consensus, backend, losses, crashes>>

\* A connection breaks before or after the upload is handled; nobody retries.
LosePost(m) ==
    /\ m \in posts /\ losses < MaxLosses
    /\ posts' = posts \ {m} /\ losses' = losses + 1
    /\ UNCHANGED <<relayVars, replies, dir, consensus, backend, crashes>>

LoseReply(m) ==
    /\ m \in replies /\ losses < MaxLosses
    /\ replies' = replies \ {m} /\ losses' = losses + 1
    /\ UNCHANGED <<relayVars, posts, dir, consensus, backend, crashes>>

-----------------------------------------------------------------------------
(* The routerlist.                                                         *)

Current(s) == {s.routers[r].desc : r \in {r \in Relays : s.routers[r] # None}}
Known(s) == Current(s) \cup s.old

\* signed_desc_append_to_journal.
AppendToJournal(s, d) == [s EXCEPT !.journal = Append(@, d)]

\* routerlist_insert_old.
InsertOld(s, d, fromCache) ==
    LET t == [s EXCEPT !.old = @ \cup {d}] IN IF fromCache THEN t ELSE AppendToJournal(t, d)

\* routerlist_insert or routerlist_replace, which keeps the old descriptor.
Insert(s, x, fromCache) ==
    LET r == x.desc.relay
        t == [s EXCEPT !.routers[r] = x,
                       !.old = IF s.routers[r] = None THEN @ ELSE @ \cup {s.routers[r].desc}]
    IN  IF fromCache THEN t ELSE AppendToJournal(t, x.desc)

\* Mutant: the descriptor that came last wins.
M_LastWins(n, s, x, fromCache) == IF x.desc \in Known(s) THEN s ELSE Insert(s, x, fromCache)

\* router_add_to_routerlist.
AddToRouterlist(n, s, x, fromCache) ==
    LET d == x.desc
        inConsensus == consensus[d.relay] = d
        newer == s.routers[d.relay] = None \/ s.routers[d.relay].desc.published < d.published
    IN  IF d \in Known(s) THEN s
        ELSE IF ~inConsensus /\ (n \in Caches \/ ~newer) THEN InsertOld(s, d, fromCache)
        ELSE Insert(s, x, fromCache)

\* download_status_mark_impossible, for a digest that the consensus lists.
MarkImpossible(s, d) ==
    IF consensus[d.relay] = d THEN [s EXCEPT !.impossible = @ \cup {d}] ELSE s

\* Mutant: the old descriptors are not written.
M_CurrentOnly(s) == [s EXCEPT !.store = Current(s), !.journal = <<>>]

\* router_rebuild_store.
RebuildStore(s) == [s EXCEPT !.store = Known(s), !.journal = <<>>]

\* What a server has still to load; it handles requests once it has.
Unloaded(s) == s.fromStore \cup {s.fromJournal[i] : i \in DOMAIN s.fromJournal}
Ready(n) == dir[n].fromStore = {} /\ dir[n].fromJournal = <<>>

-----------------------------------------------------------------------------
(* Directory servers.                                                      *)

\* dirserv_add_descriptor: a descriptor that differs from the current one only
\* in what the code calls cosmetic, the proof included, is dropped.
DirservAddDescriptor(a, s, x, cosmetic) ==
    LET cur == s.routers[x.desc.relay]
    IN  IF cur # None /\ cosmetic /\ cur.desc.published < x.desc.published
        THEN MarkImpossible(s, x.desc)
        ELSE AddToRouterlist(a, s, x, FALSE)

\* Mutant: that the relay is unknown is not looked at.
M_NoDescriptor(s, d) ==
    LET cur == s.routers[d.relay]
    IN  IF cur # None /\ cur.desc.published > d.published THEN "BAD_EI"
        ELSE IF cur # None /\ cur.desc.published < d.published THEN "ALREADY_KNOWN" ELSE "ADDED"

\* What dirserv_add_extrainfo returns for the extra-info document of d, given
\* the routerlist after d was handled.
extrainfoResult(s, d) ==
    LET cur == s.routers[d.relay]
    IN  IF cur = None \/ cur.desc.published > d.published THEN "BAD_EI"
        ELSE IF cur.desc.published < d.published THEN "ALREADY_KNOWN" ELSE "ADDED"

\* The status of the response: the more severe of the results for the
\* descriptor and its extra-info document decides; ALREADY_KNOWN is a 200.
status(s, t, d, parsed) ==
    LET results == {extrainfoResult(t, d)} \cup
                     (IF parsed /\ s.routers = t.routers THEN {"ALREADY_KNOWN"} ELSE {})
    IN  IF "BAD_EI" \in results /\ "ALREADY_KNOWN" \notin results THEN 400 ELSE 200

\* An authority handles an upload: dirserv_add_multiple_descriptors.
HandlePost(m) ==
    LET a == m.to  d == m.desc  s == dir[a]
    IN  /\ m \in posts /\ Ready(a)
        /\ posts' = posts \ {m}
        /\ \E outcome \in {"VALID", "NULL", "bad"}, cosmetic \in BOOLEAN :
              LET t == IF Parsed(outcome) THEN DirservAddDescriptor(a, s, routerOf(d, outcome), cosmetic) ELSE s
              IN  /\ Parse(d, FALSE, outcome)
                  /\ dir' = [dir EXCEPT ![a] = t]
                  /\ replies' = replies \cup
                        {[from |-> a, desc |-> d, status |-> status(s, t, d, Parsed(outcome))]}
        /\ UNCHANGED <<relayVars, consensus, main, starts, losses, crashes>>

\* The authorities agree on what most of them list.
Vote ==
    /\ consensus' = [r \in Relays |->
          LET listed(d) == {a \in Auths : dir[a].routers[r] # None /\ dir[a].routers[r].desc = d}
              winners == {d \in {dir[a].routers[r].desc : a \in {a \in Auths : dir[a].routers[r] # None}} :
                             2 * Cardinality(listed(d)) > Cardinality(Auths)}
          IN  IF winners = {} THEN None ELSE CHOOSE d \in winners : TRUE]
    /\ consensus' # consensus
    /\ \A a \in Auths : Ready(a)
    /\ UNCHANGED <<relayVars, posts, replies, dir, backend, losses, crashes>>

\* update_consensus_router_descriptor_downloads and load_downloaded_routers: a
\* listed descriptor is fetched from a server that has it; what arrives may be
\* damaged in its signature (damage elsewhere gives another digest).  The store
\* is rebuilt if its journal has become long.
Download(n, r) ==
    LET d == consensus[r]  s == dir[n]
    IN  /\ d # None /\ Ready(n) /\ d \notin Known(s)
        /\ \E from \in Dirs \ {n} : Ready(from) /\ d \in Known(dir[from])
        /\ \E damaged \in BOOLEAN, outcome \in {"VALID", "NULL", "bad", "again"} :
              LET t == IF Parsed(outcome) THEN AddToRouterlist(n, s, routerOf(d, outcome), FALSE)
                       ELSE IF outcome = "bad" THEN MarkImpossible(s, d) ELSE s
              IN  /\ Parse(d, damaged, outcome)
                  /\ \/ dir' = [dir EXCEPT ![n] = t]
                     \/ t.routers # s.routers /\ dir' = [dir EXCEPT ![n] = RebuildStore(t)]
        /\ UNCHANGED <<relayVars, posts, replies, consensus, main, starts, losses, crashes>>

\* A cache makes an old descriptor current that the consensus lists; it has to
\* be parsed, and so validated, once more.
ReparseOld(c, r) ==
    LET d == consensus[r]  s == dir[c]
    IN  /\ c \in Caches /\ d # None /\ Ready(c)
        /\ d \in s.old \ Current(s)
        /\ \E outcome \in {"VALID", "NULL", "bad"} :
              /\ Parse(d, FALSE, outcome)
              /\ dir' = [dir EXCEPT ![c] =
                    IF Parsed(outcome)
                    THEN AddToRouterlist(c, [s EXCEPT !.old = @ \ {d}], routerOf(d, outcome), TRUE)
                    ELSE s]
        /\ UNCHANGED <<relayVars, posts, replies, consensus, main, starts, losses, crashes>>

\* What a stop leaves as the store: the new one is moved into place before the
\* journal is emptied, and the stop may come in between.
storesLeft(s) == {s.store} \cup {t \in {Known(s)} : Unloaded(s) = {}}

\* A server restarts with what is on disk.
Restart(n) ==
    /\ crashes < MaxCrashes
    /\ crashes' = crashes + 1
    /\ \E store \in storesLeft(dir[n]) :
          dir' = [dir EXCEPT ![n] = [EmptyDir EXCEPT !.store = store, !.fromStore = store,
                                                    !.journal = dir[n].journal, !.fromJournal = dir[n].journal]]
    /\ posts' = {m \in posts : m.to # n} /\ replies' = {m \in replies : m.from # n}
    /\ UNCHANGED <<relayVars, consensus, backend, losses>>

\* The store is sorted by age, and comes before the journal.
NextInStore(s) == {d \in s.fromStore : \A o \in s.fromStore : d.published <= o.published}

\* router_reload_router_list: the next descriptor of the store or the journal;
\* after the last one the store is rebuilt if there was a journal.
Load(n) ==
    /\ ~Ready(n)
    /\ \E d \in IF dir[n].fromStore # {} THEN NextInStore(dir[n]) ELSE {Head(dir[n].fromJournal)},
          outcome \in {"VALID", "NULL", "bad"} :
          LET s == IF dir[n].fromStore # {} THEN [dir[n] EXCEPT !.fromStore = @ \ {d}]
                                            ELSE [dir[n] EXCEPT !.fromJournal = Tail(@)]
              t == IF Parsed(outcome) THEN AddToRouterlist(n, s, routerOf(d, outcome), TRUE)
                   ELSE MarkImpossible(s, d)
              last == t.fromStore = {} /\ t.fromJournal = <<>>
          IN  /\ Parse(d, FALSE, outcome)
              /\ dir' = [dir EXCEPT ![n] = IF last /\ t.journal # <<>> THEN RebuildStore(t) ELSE t]
    /\ UNCHANGED <<relayVars, posts, replies, consensus, main, starts, losses, crashes>>

\* The same from time to time, in routerlist_remove_old_routers.
CleanCaches(n) ==
    /\ Ready(n) /\ dir[n].journal # <<>>
    /\ dir' = [dir EXCEPT ![n] = RebuildStore(@)]
    /\ UNCHANGED <<relayVars, posts, replies, consensus, backend, losses, crashes>>

-----------------------------------------------------------------------------
(* Main.                                                                   *)

StartMain ==
    /\ main = "down" /\ starts < MaxStarts
    /\ main' = "up" /\ starts' = starts + 1
    /\ UNCHANGED <<relayVars, posts, replies, dir, consensus, registrations, losses, crashes>>

\* The registry is only in memory.
StopMain ==
    /\ main = "up"
    /\ main' = "down" /\ registrations' = Empty
    /\ UNCHANGED <<relayVars, posts, replies, dir, consensus, starts, losses, crashes>>

\* A user registers under the node's name, without families.
RegisterUser(x, p) ==
    /\ main = "up"
    /\ registrations' = Enter(registrations, [key |-> p, nodeId |-> x, familyIds |-> {}, good |-> TRUE])
    /\ UNCHANGED <<relayVars, posts, replies, dir, consensus, main, starts, losses, crashes>>

-----------------------------------------------------------------------------

Relay(r) == WriteProof(r) \/ MarkMyDescriptorDirty(r) \/ ConsiderPublishableServer(r)

Connection ==
    \/ \E m \in posts : HandlePost(m) \/ LosePost(m)
    \/ \E m \in replies : HandleResponseUploadDir(m) \/ LoseReply(m)

Server(n) ==
    \/ \E r \in Relays : Download(n, r) \/ ReparseOld(n, r)
    \/ Load(n) \/ Restart(n) \/ CleanCaches(n)

Next ==
    \/ \E r \in Relays : Relay(r)
    \/ Connection
    \/ \E n \in Dirs : Server(n)
    \/ Vote \/ StartMain \/ StopMain
    \/ \E x \in Names, p \in Pseudonyms : RegisterUser(x, p)

Spec == Init /\ [][Next]_vars

\* A relay rebuilds its descriptor again and again and finds itself publishable,
\* connections that do not break are served, a server finishes loading, the
\* authorities vote, and of the downloads of a descriptor some are undamaged.
Fairness ==
    /\ \A r \in Relays : WF_vars(MarkMyDescriptorDirty(r)) /\ WF_vars(ConsiderPublishableServer(r))
    /\ WF_vars(\E m \in posts : HandlePost(m))
    /\ WF_vars(Vote)
    /\ \A n \in Dirs : WF_vars(Load(n)) /\ \A r \in Relays :
          WF_vars((Download(n, r) \/ ReparseOld(n, r)) /\ dir'[n].routers # dir[n].routers)

FairSpec == Spec /\ Fairness

-----------------------------------------------------------------------------
(* Properties.                                                             *)

Dir == [routers : [Relays -> Router \cup {None}], old : SUBSET Descriptor,
        store : SUBSET Descriptor, journal : Seq(Descriptor),
        fromStore : SUBSET Descriptor, fromJournal : Seq(Descriptor), impossible : SUBSET Descriptor]

\* Routerlists, stores, uploads and the registry hold what they are meant to.
TypeOK ==
    /\ proofFile \in [Relays -> Pseudonyms \cup {None}]
    /\ desc \in [Relays -> Descriptor \cup {None}]
    /\ stage \in [Relays -> {"dirty", "built", "clean"}]
    /\ accepted \in [Relays -> SUBSET Auths]
    /\ posts \subseteq [to : Auths, desc : Descriptor]
    /\ replies \subseteq [from : Auths, desc : Descriptor, status : {200, 400}]
    /\ dir \in [Dirs -> Dir]
    /\ consensus \in [Relays -> Descriptor \cup {None}]
    /\ registrations \in Registrations
    /\ main \in {"up", "down"} /\ starts \in 0 .. MaxStarts
    /\ builds \in [Relays -> 0 .. MaxGen]
    /\ losses \in Nat /\ crashes \in Nat

\* The relays that n lists under pseudonym p and that the running DA validated.
Validated(n, p) ==
    {r \in Relays : LET x == dir[n].routers[r]
                    IN  x # None /\ x.desc.proof = p /\ x.by = starts}

\* A directory server never lists a relay without a proof.  The relays it lists
\* under one pseudonym on the word of the running DA are all registered there,
\* and they are one family, whatever was uploaded, downloaded or reloaded in
\* whatever order.
OneFamilyListed ==
    \A n \in Dirs :
        /\ \A r \in Relays : dir[n].routers[r] # None => dir[n].routers[r].desc.proof # None
        /\ main = "up" => \A p \in Pseudonyms :
              Validated(n, p) \subseteq Members(registrations[p]) /\ OneGroup(registrations[p])

OnDisk(s) == s.store \cup {s.journal[i] : i \in DOMAIN s.journal}

\* Whenever a server stops, its store and its journal have every descriptor
\* that it knows, current or old, and every one that it has not loaded yet.
KeptOnDisk == \A n \in Dirs : Known(dir[n]) \cup Unloaded(dir[n]) \subseteq OnDisk(dir[n])

\* What every entry of a routerlist came with.
RouterOK(n, r) ==
    LET x == dir[n].routers[r]
    IN  x # None => x.desc.relay = r /\ x.desc.proof # None /\ x.by <= starts

\* A relay that has no descriptor yet is about to build one.
BuiltOK == \A r \in Relays : desc[r] = None => stage[r] = "dirty"

\* The inductive invariant behind these: entries are never from a later run of
\* Main, a run of Main has a number, and the registry is a family per pseudonym in every state.
DescriptorsInv ==
    /\ TypeOK
    /\ BuiltOK /\ KeptOnDisk
    /\ \A n \in Dirs, r \in Relays : RouterOK(n, r)
    /\ \A p \in Pseudonyms : OneGroup(registrations[p])
    /\ main = "up" => starts # 0
    /\ main = "up" => \A n \in Dirs, p \in Pseudonyms : Validated(n, p) \subseteq Members(registrations[p])

\* A restart loses no descriptor that the DA still stands by: if its relay is
\* registered under its pseudonym, or the bridge gives no answer, it is kept.
ReloadKeeps ==
    [][\A n \in Dirs : \A d \in Unloaded(dir[n]) \ Unloaded(dir'[n]) :
          d.proof # None /\ (main = "up" => d.relay \in Members(registrations[d.proof]))
              => d \in Known(dir'[n])]_vars

\* A cache whose parse of a descriptor fails before can_dl_again is set marks its
\* digest: "This digest is never going to be parseable."  So it does not list
\* the descriptor later.
NeverParseable ==
    [][\A n \in Caches : \A d \in dir[n].impossible : d \in Known(dir'[n]) => d \in Known(dir[n])]_vars

\* A server goes back to an older descriptor of a relay only if the consensus
\* lists that one.
NewestListed ==
    [][\A n \in Dirs, r \in Relays :
          LET x == dir[n].routers[r]  y == dir'[n].routers[r]
          IN  x # None /\ y # None /\ y.desc.published < x.desc.published => consensus[r] = y.desc]_vars

\* The DA refuses r under some pseudonym, as it is another family's.
Refused(r) == \E p \in Pseudonyms :
    ~Accepts(registrations, [key |-> p, nodeId |-> r, familyIds |-> Family[r], good |-> TRUE])

\* A relay with a proof gets into the lists of all directory servers, unless the
\* DA refuses it, if it still builds more descriptors than uploads can be put
\* off or lost: its own parse of a descriptor lets it out, and the authority's,
\* the caches' and those after a restart let it in.
ProofGetsListed ==
    \A r \in Relays :
        proofFile[r] # None /\ builds[r] + (MaxLosses - losses) + (MaxCrashes - crashes) < MaxGen
            ~> (\A n \in Dirs : dir[n].routers[r] # None) \/ Refused(r)

\* An authority that has answered an upload with 200, and so one that the relay
\* counts among those that accepted it, lists a descriptor of the relay, unless
\* a server restarted: the result for the extra-info document hides that the
\* descriptor was rejected only if there is an earlier one.
AcceptedIsListed ==
    crashes = 0 =>
        /\ \A m \in replies : m.status = 200 => dir[m.from].routers[m.desc.relay] # None
        /\ \A r \in Relays : \A a \in accepted[r] : dir[a].routers[r] # None

\* What it rests on: an authority with an old descriptor of a relay has a
\* current one.
OldIsListed == \A a \in Auths : \A d \in dir[a].old : dir[a].routers[d.relay] # None
=============================================================================
