------------------------- MODULE DescriptorsProofs --------------------------
(* What the parser and the routerlist do, from it what one step does to    *)
(* the state of a directory server, and so what a server lists and         *)
(* keeps, for any relays, servers and bounds.                              *)
EXTENDS Descriptors, TLAPS

-----------------------------------------------------------------------------
(* The registry.                                                           *)

\* A node that joins one family, or is alone, leaves one family.
LEMMA JoinsGroup ==
    ASSUME NEW e \in Entry, NEW z \in Nodes, NEW ids \in SUBSET FamilyIds, e[z] = None,
           OneGroup(e), Members(e) = {} \/ SharesFamily(e, ids)
    PROVE  OneGroup([e EXCEPT ![z] = ids])
<1> DEFINE k == [e EXCEPT ![z] = ids]
<1> ids # None
  BY Zenon, NoneIsNoFamily
<1>1. k \in Entry /\ k[z] = ids /\ \A x \in Nodes \ {z} : k[x] = e[x]
  BY Zenon DEF Entry
<1>2. Members(k) = Members(e) \cup {z} /\ z \notin Members(e)
  BY Zenon, <1>1 DEF Members
<1>3. \A x \in Members(e) : k[x] = e[x] /\ x # z
  BY Zenon, <1>1 DEF Members
<1> HIDE DEF k
<1> SUFFICES ASSUME NEW part \in SUBSET Members(k), part # {}, part # Members(k)
             PROVE  \E x \in part, y \in Members(k) \ part : k[x] \cap k[y] # {}
  BY Zenon DEF OneGroup, k
<1>4. PICK w \in Members(e) : e[w] \cap ids # {}
  BY Zenon, <1>2 DEF SharesFamily
<1>5. CASE part = {z}
  BY Zenon, <1>1, <1>2, <1>3, <1>4, <1>5
<1>6. CASE part = Members(e)
  BY Zenon, <1>1, <1>2, <1>3, <1>4, <1>6
<1>7. CASE part # {z} /\ part # Members(e)
  <2> DEFINE rest == part \ {z}
  <2>1. rest \in SUBSET Members(e) /\ rest # {} /\ rest # Members(e)
    BY Zenon, <1>2, <1>7
  <2>2. PICK x \in rest, y \in Members(e) \ rest : e[x] \cap e[y] # {}
    BY Zenon, <2>1 DEF OneGroup
  <2> QED BY Zenon, <1>2, <1>3, <2>1, <2>2
<1> QED BY Zenon, <1>5, <1>6, <1>7

\* A request keeps the registry one, one family per pseudonym, forgets nobody,
\* and enters what it accepts.
LEMMA EnterFacts ==
    ASSUME NEW reg \in Registrations, NEW c \in Claim, \A p \in Pseudonyms : OneGroup(reg[p])
    PROVE  /\ Enter(reg, c) \in Registrations
           /\ \A p \in Pseudonyms : OneGroup(Enter(reg, c)[p])
           /\ \A p \in Pseudonyms : Members(reg[p]) \subseteq Members(Enter(reg, c)[p])
           /\ Accepts(reg, c) => c.nodeId \in Members(Enter(reg, c)[c.key])
<1>1. c.key \in Pseudonyms /\ c.nodeId \in Nodes /\ c.familyIds \in SUBSET FamilyIds /\ c.familyIds # None
  BY Zenon, NoneIsNoFamily DEF Claim
<1>2. reg[c.key] \in Entry
  BY Zenon, <1>1 DEF Registrations
<1>3. CASE Accepts(reg, c) /\ reg[c.key][c.nodeId] = None
  <2> DEFINE k == [reg[c.key] EXCEPT ![c.nodeId] = c.familyIds]
  <2>1. k \in Entry /\ Members(reg[c.key]) \subseteq Members(k) /\ c.nodeId \in Members(k)
    BY Zenon, <1>1, <1>2 DEF Entry, Members
  <2>2. Members(reg[c.key]) = {} \/ SharesFamily(reg[c.key], c.familyIds)
    BY Zenon, <1>3 DEF Accepts, Members
  <2>3. OneGroup(k)
    BY Zenon, <1>1, <1>2, <1>3, <2>2, JoinsGroup
  <2>4. Enter(reg, c) = [reg EXCEPT ![c.key] = k]
    BY Zenon, <1>3 DEF Enter
  <2> HIDE DEF k
  <2>5. Enter(reg, c) \in Registrations /\ Enter(reg, c)[c.key] = k
         /\ \A p \in Pseudonyms \ {c.key} : Enter(reg, c)[p] = reg[p]
    BY Zenon, <1>1, <2>1, <2>4 DEF Registrations
  <2> QED BY <2>1, <2>3, <2>5
<1>4. CASE ~(Accepts(reg, c) /\ reg[c.key][c.nodeId] = None)
  <2>1. Enter(reg, c) = reg
    BY Zenon, <1>4 DEF Enter
  <2> QED BY Zenon, <1>1, <1>4, <2>1 DEF Members
<1> QED BY Zenon, <1>3, <1>4

\* The empty registry is one, and has no members.
LEMMA EmptyFacts ==
    /\ Empty \in Registrations
    /\ \A p \in Pseudonyms : OneGroup(Empty[p])
BY Zenon DEF Empty, Nobody, Registrations, Entry, OneGroup, Members

-----------------------------------------------------------------------------
(* Parsing.                                                                *)

\* The registry only grows, and it has the relay of a descriptor that is VALID.
RegistryStep ==
    /\ registrations' \in Registrations
    /\ \A p \in Pseudonyms : OneGroup(registrations'[p])
    /\ \A p \in Pseudonyms : Members(registrations[p]) \subseteq Members(registrations'[p])

\* The parser registers at most; what it calls VALID has a proof and a member,
\* and what it calls bad has no proof or is rejected.
LEMMA ParseFacts ==
    ASSUME DescriptorsInv, NEW d \in Descriptor, NEW damaged \in BOOLEAN, NEW outcome, Parse(d, damaged, outcome)
    PROVE  /\ RegistryStep
           /\ Parsed(outcome) => d.proof # None
           /\ outcome = "VALID" => main = "up" /\ d.relay \in Members(registrations'[d.proof])
           /\ outcome = "bad" => d.proof = None \/ (main = "up" /\ ~Accepts(registrations, claimOf(d)))
           /\ outcome \in {"VALID", "NULL", "bad", "again"}
<1>1. registrations \in Registrations /\ \A p \in Pseudonyms : OneGroup(registrations[p])
  BY Zenon DEF DescriptorsInv, TypeOK
<1>2. CASE d.proof = None /\ outcome = "bad" /\ UNCHANGED registrations
  BY Zenon, <1>1, <1>2 DEF RegistryStep, Parsed
<1>3. CASE /\ d.proof # None
           /\ \E answer \in {"VALID", "INVALID", "NULL"} :
                 /\ DittorProxy(d, answer)
                 /\ outcome = IF answer = "INVALID" THEN "bad" ELSE IF damaged THEN "again" ELSE answer
  <2> PICK answer \in {"VALID", "INVALID", "NULL"} :
             /\ DittorProxy(d, answer)
             /\ outcome = IF answer = "INVALID" THEN "bad" ELSE IF damaged THEN "again" ELSE answer
    BY Zenon, <1>3
  <2>1. claimOf(d) \in Claim /\ claimOf(d).key = d.proof /\ claimOf(d).nodeId = d.relay
    BY Zenon, <1>3, NodesAssumption, FamilyAssumption DEF claimOf, Claim, Descriptor
  <2>2. CASE answer = "NULL" /\ UNCHANGED registrations
    BY Zenon, <1>1, <1>3, <2>2 DEF RegistryStep, Parsed
  <2>3. CASE /\ main = "up"
             /\ answer = IF Accepts(registrations, claimOf(d)) THEN "VALID" ELSE "INVALID"
             /\ registrations' = Enter(registrations, claimOf(d))
    <3>1. RegistryStep
      BY Zenon, <1>1, <2>1, <2>3, EnterFacts DEF RegistryStep
    <3>2. Accepts(registrations, claimOf(d)) => d.relay \in Members(registrations'[d.proof])
      BY Zenon, <1>1, <2>1, <2>3, EnterFacts
    <3> QED BY Zenon, <1>3, <2>3, <3>1, <3>2 DEF Parsed
  <2> QED BY Zenon, <1>3, <2>2, <2>3 DEF DittorProxy
<1> QED BY Zenon, <1>2, <1>3 DEF Parse

-----------------------------------------------------------------------------
(* The routerlist.                                                         *)

\* From s to t the server has come to know d, and nothing else.
Learned(s, t, d) ==
    /\ t \in Dir
    /\ Known(t) = Known(s) \cup {d}
    /\ t.fromStore = s.fromStore /\ t.fromJournal = s.fromJournal /\ t.impossible = s.impossible
    /\ OnDisk(s) \subseteq OnDisk(t)

\* The journal grows by what is appended, and nothing else changes.
LEMMA AppendFacts ==
    ASSUME NEW s \in Dir, NEW d \in Descriptor
    PROVE  /\ AppendToJournal(s, d) \in Dir
           /\ AppendToJournal(s, d).routers = s.routers /\ Known(AppendToJournal(s, d)) = Known(s)
           /\ AppendToJournal(s, d).fromStore = s.fromStore /\ AppendToJournal(s, d).fromJournal = s.fromJournal
           /\ AppendToJournal(s, d).impossible = s.impossible
           /\ OnDisk(AppendToJournal(s, d)) = OnDisk(s) \cup {d}
<1> DEFINE t == AppendToJournal(s, d)
<1>1. /\ t \in Dir /\ t.routers = s.routers /\ t.old = s.old /\ t.store = s.store
      /\ t.fromStore = s.fromStore /\ t.fromJournal = s.fromJournal /\ t.impossible = s.impossible
      /\ t.journal = Append(s.journal, d)
  <2>1. Append(s.journal, d) \in Seq(Descriptor)
    BY DEF Dir
  <2>2. t = [s EXCEPT !.journal = Append(s.journal, d)]
    BY Zenon DEF AppendToJournal
  <2> HIDE DEF t
  <2> QED BY Zenon, <2>1, <2>2 DEF Dir
<1>2. Known(t) = Known(s)
  BY Zenon, <1>1 DEF Known, Current
<1>3. s.journal \in Seq(Descriptor)
  BY Zenon DEF Dir
<1>4. {t.journal[i] : i \in DOMAIN t.journal} = {s.journal[i] : i \in DOMAIN s.journal} \cup {d}
  <2>1. DOMAIN t.journal = DOMAIN s.journal \cup {Len(s.journal) + 1}
        /\ t.journal[Len(s.journal) + 1] = d /\ \A i \in DOMAIN s.journal : t.journal[i] = s.journal[i]
    BY <1>1, <1>3
  <2> QED BY Zenon, <2>1
<1>5. OnDisk(t) = OnDisk(s) \cup {d}
  BY Zenon, <1>1, <1>4 DEF OnDisk
<1> QED BY Zenon, <1>1, <1>2, <1>5

\* An old descriptor is learned, and the current ones stay.
LEMMA InsertOldFacts ==
    ASSUME NEW s \in Dir, NEW d \in Descriptor, NEW fromCache \in BOOLEAN
    PROVE  /\ Learned(s, InsertOld(s, d, fromCache), d)
           /\ InsertOld(s, d, fromCache).routers = s.routers
           /\ ~fromCache => d \in OnDisk(InsertOld(s, d, fromCache))
<1> DEFINE t == [s EXCEPT !.old = @ \cup {d}]
<1>1. /\ t \in Dir /\ t.routers = s.routers /\ t.old = s.old \cup {d} /\ t.store = s.store /\ t.journal = s.journal
      /\ t.fromStore = s.fromStore /\ t.fromJournal = s.fromJournal /\ t.impossible = s.impossible
  BY Zenon DEF Dir
<1> HIDE DEF t
<1>2. Known(t) = Known(s) \cup {d} /\ OnDisk(t) = OnDisk(s)
  BY Zenon, <1>1 DEF Known, Current, OnDisk
<1>3. InsertOld(s, d, fromCache) = IF fromCache THEN t ELSE AppendToJournal(t, d)
  BY Zenon DEF InsertOld, t
<1> QED BY <1>1, <1>2, <1>3, AppendFacts DEF Learned

\* A current descriptor is learned, and takes the place of its relay's.
LEMMA InsertFacts ==
    ASSUME NEW s \in Dir, NEW x \in Router, NEW fromCache \in BOOLEAN
    PROVE  /\ Learned(s, Insert(s, x, fromCache), x.desc)
           /\ Insert(s, x, fromCache).routers = [s.routers EXCEPT ![x.desc.relay] = x]
           /\ ~fromCache => x.desc \in OnDisk(Insert(s, x, fromCache))
<1> DEFINE r == x.desc.relay
           t == [s EXCEPT !.routers[r] = x,
                          !.old = IF s.routers[r] = None THEN @ ELSE @ \cup {s.routers[r].desc}]
<1>1. r \in Relays /\ x.desc \in Descriptor /\ x # None /\ s.routers \in [Relays -> Router \cup {None}]
  BY Zenon, NoneIsNothing DEF Router, Descriptor, Dir
<1>2. s.routers[r] # None => s.routers[r].desc \in Descriptor
  BY Zenon, <1>1 DEF Router
<1>3. /\ t.routers = [s.routers EXCEPT ![r] = x] /\ t.store = s.store /\ t.journal = s.journal
      /\ t.old = IF s.routers[r] = None THEN s.old ELSE s.old \cup {s.routers[r].desc}
      /\ t.fromStore = s.fromStore /\ t.fromJournal = s.fromJournal /\ t.impossible = s.impossible
  BY Zenon DEF Dir
<1>4. t \in Dir
  BY Zenon, <1>1, <1>2 DEF Dir
<1> HIDE DEF t
<1>5. t.routers[r] = x /\ \A q \in Relays \ {r} : t.routers[q] = s.routers[q]
  BY Zenon, <1>1, <1>3
<1> HIDE DEF r
<1>6. Known(t) = Known(s) \cup {x.desc}
  <2>1. \A d \in Current(t) : d \in Current(s) \/ d = x.desc
    BY Zenon, <1>5 DEF Current
  <2>2. \A d \in Current(s) : d \in Current(t) \/ d \in t.old
    BY <1>3, <1>5 DEF Current
  <2>3. x.desc \in Current(t)
    BY Zenon, <1>1, <1>5 DEF Current
  <2>4. \A d \in t.old : d \in s.old \/ d \in Current(s)
    BY Zenon, <1>1, <1>3 DEF Current
  <2>5. \A d \in s.old : d \in t.old
    BY Zenon, <1>3
  <2> QED BY Zenon, <2>1, <2>2, <2>3, <2>4, <2>5 DEF Known
<1>7. OnDisk(t) = OnDisk(s)
  BY Zenon, <1>3 DEF OnDisk
<1>8. Insert(s, x, fromCache) = IF fromCache THEN t ELSE AppendToJournal(t, x.desc)
  BY Zenon DEF Insert, t, r
<1> QED BY <1>1, <1>3, <1>4, <1>6, <1>7, <1>8, AppendFacts DEF Learned, r

\* On disk is all that the server knows and all that it has still to load.
Kept(s) == Known(s) \cup Unloaded(s) \subseteq OnDisk(s)

\* The routers of t are those of s, except that x may have come in, as a newer
\* descriptor or as the one that the consensus lists.
Replaced(s, t, x) ==
    \A r \in Relays :
        \/ t.routers[r] = s.routers[r]
        \/ /\ r = x.desc.relay /\ t.routers[r] = x
           /\ \/ s.routers[r] = None \/ s.routers[r].desc.published < x.desc.published
              \/ consensus[r] = x.desc

\* A descriptor that is added is known, and is on disk if it was on disk before
\* or did not come from there.
LEMMA AddFacts ==
    ASSUME NEW n, NEW s \in Dir, NEW x \in Router, NEW fromCache \in BOOLEAN
    PROVE  LET t == AddToRouterlist(n, s, x, fromCache)
           IN  /\ Learned(s, t, x.desc)
               /\ Replaced(s, t, x)
               /\ Kept(s) /\ (fromCache => x.desc \in OnDisk(s)) => Kept(t)
<1> DEFINE t == AddToRouterlist(n, s, x, fromCache)
           newer == s.routers[x.desc.relay] = None \/ s.routers[x.desc.relay].desc.published < x.desc.published
<1>0. x.desc \in Descriptor /\ x.desc.relay \in Relays /\ s.routers \in [Relays -> Router \cup {None}]
  BY Zenon DEF Router, Descriptor, Dir
<1>1. CASE x.desc \in Known(s)
  <2>1. t = s
    BY Zenon, <1>1 DEF AddToRouterlist
  <2> QED BY Zenon, <1>1, <2>1 DEF Learned, Replaced
<1>2. CASE x.desc \notin Known(s) /\ t = InsertOld(s, x.desc, fromCache)
  <2>1. Learned(s, t, x.desc) /\ t.routers = s.routers /\ (~fromCache => x.desc \in OnDisk(t))
    BY <1>0, <1>2, InsertOldFacts
  <2> QED BY Zenon, <2>1 DEF Learned, Replaced, Kept, Unloaded
<1>3. CASE x.desc \notin Known(s) /\ t = Insert(s, x, fromCache) /\ (consensus[x.desc.relay] = x.desc \/ newer)
  <2>1. Learned(s, t, x.desc) /\ t.routers = [s.routers EXCEPT ![x.desc.relay] = x]
        /\ (~fromCache => x.desc \in OnDisk(t))
    BY <1>3, InsertFacts
  <2>2. Replaced(s, t, x)
    BY Zenon, <1>0, <1>3, <2>1 DEF Replaced
  <2> QED BY <2>1, <2>2 DEF Learned, Kept, Unloaded
<1> QED BY Zenon, <1>1, <1>2, <1>3 DEF AddToRouterlist

\* A mark changes the marks only.
LEMMA MarkFacts ==
    ASSUME NEW s \in Dir, NEW d \in Descriptor
    PROVE  LET t == MarkImpossible(s, d)
           IN  /\ t \in Dir /\ t.routers = s.routers /\ Known(t) = Known(s) /\ OnDisk(t) = OnDisk(s)
               /\ t.fromStore = s.fromStore /\ t.fromJournal = s.fromJournal
               /\ t.impossible \subseteq s.impossible \cup {d}
BY Zenon DEF MarkImpossible, Dir, Known, Current, OnDisk

\* The rebuilt store has what the server knows.
LEMMA RebuildFacts ==
    ASSUME NEW s \in Dir
    PROVE  LET t == RebuildStore(s)
           IN  /\ t \in Dir /\ t.routers = s.routers /\ Known(t) = Known(s) /\ Known(t) \subseteq OnDisk(t)
               /\ t.fromStore = s.fromStore /\ t.fromJournal = s.fromJournal /\ t.impossible = s.impossible
<1>1. Known(s) \subseteq Descriptor
  BY Zenon DEF Known, Current, Dir, Router
<1>2. <<>> \in Seq(Descriptor)
  OBVIOUS
<1>3. RebuildStore(s) = [s EXCEPT !.store = Known(s), !.journal = <<>>]
  BY Zenon DEF RebuildStore
<1> DEFINE t == RebuildStore(s)
<1>4. /\ t \in Dir /\ t.routers = s.routers /\ t.old = s.old /\ t.store = Known(s)
      /\ t.fromStore = s.fromStore /\ t.fromJournal = s.fromJournal /\ t.impossible = s.impossible
  BY Zenon, <1>1, <1>2, <1>3 DEF Dir
<1> HIDE DEF t
<1>5. Known(t) = Known(s)
  BY Zenon, <1>4 DEF Known, Current
<1>6. Known(t) \subseteq OnDisk(t)
  BY Zenon, <1>4, <1>5 DEF OnDisk
<1> QED BY Zenon, <1>4, <1>5, <1>6 DEF t

\* A server that has nothing to load.
LEMMA ReadyFacts ==
    ASSUME NEW n, Ready(n)
    PROVE  Unloaded(dir[n]) = {}
BY DEF Ready, Unloaded

-----------------------------------------------------------------------------
(* The invariant in a step of one server.                                  *)

\* A router comes in now, and the DA has registered it if it is VALID.
Fresh(x) ==
    /\ x \in Router /\ x.desc.proof # None /\ x.by \in {0, starts}
    /\ x.by # 0 => main = "up" /\ x.desc.relay \in Members(registrations'[x.desc.proof])

\* What the parser lets in is fresh.
LEMMA RouterOfFresh ==
    ASSUME DescriptorsInv, NEW d \in Descriptor, NEW damaged \in BOOLEAN, NEW outcome,
           Parse(d, damaged, outcome), Parsed(outcome)
    PROVE  Fresh(routerOf(d, outcome)) /\ routerOf(d, outcome).desc = d
<1>1. starts \in 0 .. MaxStarts /\ 0 \in 0 .. MaxStarts
  BY BoundsAssumption DEF DescriptorsInv, TypeOK
<1>2. routerOf(d, outcome) \in Router
  BY Zenon, <1>1 DEF routerOf, Router
<1>3. routerOf(d, outcome).by = IF outcome = "VALID" THEN starts ELSE 0
  BY Zenon DEF routerOf
<1> QED BY Zenon, <1>2, <1>3, ParseFacts DEF Fresh, routerOf

\* The DA stands by d, or does not answer.
StandsBy(d) == d.proof # None /\ (main = "up" => d.relay \in Members(registrations[d.proof]))

\* Server n may come to state t: each of its routers stays, goes, or is replaced
\* by a fresh one; and it forgets nothing.
ServerState(n, t) ==
    /\ t \in Dir /\ Kept(t)
    /\ \A r \in Relays :
          LET x == dir[n].routers[r]  y == t.routers[r]
          IN  \/ y \in {None, x}
              \/ /\ Fresh(y) /\ y.desc.relay = r
                 /\ x = None \/ x.desc.published < y.desc.published \/ consensus[r] = y.desc
    /\ \A d \in Unloaded(dir[n]) \ Unloaded(t) : StandsBy(d) => d \in Known(t)

ServerStep(n, t) ==
    /\ ServerState(n, t) /\ dir' = [dir EXCEPT ![n] = t]
    /\ RegistryStep /\ UNCHANGED <<main, starts, consensus>>

\* With nothing left to load, the store may be rebuilt as well.
LEMMA RebuildState ==
    ASSUME NEW n, NEW t, ServerState(n, t), Unloaded(t) = {}
    PROVE  ServerState(n, RebuildStore(t))
<1> DEFINE u == RebuildStore(t)
<1>1. /\ u \in Dir /\ u.routers = t.routers /\ Known(u) = Known(t) /\ Known(u) \subseteq OnDisk(u)
      /\ u.fromStore = t.fromStore /\ u.fromJournal = t.fromJournal /\ u.impossible = t.impossible
  BY Zenon, RebuildFacts DEF ServerState
<1> HIDE DEF u
<1>2. Unloaded(u) = {}
  BY Zenon, <1>1 DEF Unloaded
<1>3. Kept(u)
  BY Zenon, <1>1, <1>2 DEF Kept
<1> QED BY Zenon, <1>1, <1>2, <1>3 DEF ServerState, u

\* A server may stay as it is.
LEMMA SameState ==
    ASSUME DescriptorsInv, NEW n \in Dirs
    PROVE  ServerState(n, dir[n])
BY Zenon DEF DescriptorsInv, TypeOK, KeptOnDisk, Kept, ServerState

\* Such a step keeps the invariant beyond the types.
LEMMA DirStep ==
    ASSUME DescriptorsInv, TypeOK', BuiltOK', NEW n \in Dirs, NEW t, ServerStep(n, t)
    PROVE  DescriptorsInv'
<1>0. /\ t \in Dir /\ dir' = [dir EXCEPT ![n] = t] /\ RegistryStep /\ Kept(t) /\ UNCHANGED <<main, starts>>
      /\ \A r \in Relays : \/ t.routers[r] \in {None, dir[n].routers[r]}
                           \/ Fresh(t.routers[r]) /\ t.routers[r].desc.relay = r
  BY Zenon DEF ServerStep, ServerState
<1>1. dir \in [Dirs -> Dir] /\ dir'[n] = t /\ \A m \in Dirs \ {n} : dir'[m] = dir[m]
  BY <1>0 DEF DescriptorsInv, TypeOK
<1>2. KeptOnDisk'
  <2> SUFFICES ASSUME NEW m \in Dirs PROVE Kept(dir'[m])
    BY Zenon DEF KeptOnDisk, Kept, Known, Current, Unloaded, OnDisk
  <2> QED BY Zenon, <1>0, <1>1 DEF DescriptorsInv, KeptOnDisk, Kept
<1>3. \A m \in Dirs, r \in Relays : RouterOK(m, r)'
  <2> SUFFICES ASSUME NEW m \in Dirs, NEW r \in Relays PROVE RouterOK(m, r)'
    BY Zenon
  <2>1. starts \in Nat
    BY BoundsAssumption DEF DescriptorsInv, TypeOK
  <2>2. RouterOK(m, r)
    BY Zenon DEF DescriptorsInv
  <2> QED BY <1>0, <1>1, <2>1, <2>2 DEF RouterOK, Fresh
<1>4. \A p \in Pseudonyms : OneGroup(registrations'[p])
  BY Zenon, <1>0 DEF RegistryStep
<1>5. ASSUME main' = "up", NEW m \in Dirs, NEW p \in Pseudonyms
      PROVE  Validated(m, p)' \subseteq Members(registrations'[p])
  <2> SUFFICES ASSUME NEW r \in Validated(m, p)' PROVE r \in Members(registrations'[p])
    BY Zenon
  <2> DEFINE x == dir'[m].routers[r]
  <2>1. r \in Relays /\ x # None /\ x.desc.proof = p /\ x.by = starts /\ starts # 0
    BY Zenon, <1>0, <1>5 DEF Validated, DescriptorsInv
  <2>2. CASE x = dir[m].routers[r]
    <3>1. r \in Validated(m, p)
      BY Zenon, <2>1, <2>2 DEF Validated
    <3>2. Validated(m, p) \subseteq Members(registrations[p])
      BY Zenon, <1>0, <1>5 DEF DescriptorsInv
    <3> QED BY Zenon, <1>0, <3>1, <3>2 DEF RegistryStep
  <2>3. CASE Fresh(x) /\ x.desc.relay = r
    BY Zenon, <2>1, <2>3 DEF Fresh
  <2> QED BY Zenon, <1>0, <1>1, <2>1, <2>2, <2>3
<1> QED BY Zenon, <1>0, <1>2, <1>3, <1>4, <1>5 DEF DescriptorsInv, Members, OneGroup

-----------------------------------------------------------------------------
(* The steps of the servers.                                               *)

\* From s, with the routers of server n, t has come to list or to
\* know a fresh descriptor d.
Added(n, s, t, d) ==
    /\ t \in Dir /\ Kept(t) /\ d \in Known(t)
    /\ \A r \in Relays :
          LET x == dir[n].routers[r]  y == t.routers[r]
          IN  \/ y \in {None, x}
              \/ /\ Fresh(y) /\ y.desc.relay = r
                 /\ x = None \/ x.desc.published < y.desc.published \/ consensus[r] = y.desc
    /\ Unloaded(t) = Unloaded(s)

\* A server that adds what it has parsed keeps what it has still to load.
LEMMA AddStep ==
    ASSUME DescriptorsInv, NEW n \in Dirs, NEW d \in Descriptor, NEW outcome, NEW damaged \in BOOLEAN,
           Parse(d, damaged, outcome), Parsed(outcome), NEW s \in Dir, s.routers = dir[n].routers,
           Kept(s), NEW fromCache \in BOOLEAN, fromCache => d \in OnDisk(s),
           NEW t, t = AddToRouterlist(n, s, routerOf(d, outcome), fromCache)
    PROVE  Added(n, s, t, d)
<1> DEFINE x == routerOf(d, outcome)
<1>1. Fresh(x) /\ x.desc = d /\ x \in Router
  BY RouterOfFresh DEF Fresh
<1> HIDE DEF x
<1>2. Learned(s, t, d) /\ Replaced(s, t, x) /\ Kept(t)
  BY Zenon, <1>1, AddFacts DEF x
<1> QED BY <1>1, <1>2 DEF Added, Learned, Replaced, Unloaded

\* An upload.
LEMMA HandlePostStep ==
    ASSUME DescriptorsInv, NEW m \in posts, HandlePost(m)
    PROVE  m.to \in Dirs /\ \E t : ServerStep(m.to, t)
<1> DEFINE a == m.to  d == m.desc  s == dir[a]
<1>1. a \in Dirs /\ d \in Descriptor /\ s \in Dir /\ m = [to |-> a, desc |-> d]
  BY Zenon DEF DescriptorsInv, TypeOK, Dirs
<1>2. Unloaded(s) = {} /\ Kept(s)
  BY Zenon, <1>1, ReadyFacts DEF HandlePost, DescriptorsInv, KeptOnDisk, Kept
<1>3. PICK outcome \in {"VALID", "NULL", "bad"}, cosmetic \in BOOLEAN :
         /\ Parse(d, FALSE, outcome)
         /\ dir' = [dir EXCEPT ![a] = IF Parsed(outcome)
                       THEN DirservAddDescriptor(a, s, routerOf(d, outcome), cosmetic) ELSE s]
  BY Zenon DEF HandlePost
<1>4. UNCHANGED <<main, starts, consensus>>
  BY Zenon DEF HandlePost
<1> DEFINE t == IF Parsed(outcome) THEN DirservAddDescriptor(a, s, routerOf(d, outcome), cosmetic) ELSE s
<1>5. RegistryStep /\ dir' = [dir EXCEPT ![a] = t]
  BY Zenon, <1>1, <1>3, ParseFacts
<1>6. CASE Parsed(outcome) /\ t = AddToRouterlist(a, s, routerOf(d, outcome), FALSE)
  <2>1. Added(a, s, t, d)
    BY Zenon, <1>1, <1>2, <1>3, <1>6, AddStep
  <2> HIDE DEF t
  <2> QED BY Zenon, <1>1, <1>2, <1>4, <1>5, <2>1 DEF ServerStep, ServerState, Added
<1>7. CASE t = MarkImpossible(s, d)
  <2>1. /\ t \in Dir /\ t.routers = s.routers /\ Kept(t) /\ Unloaded(t) = Unloaded(s)
    BY <1>1, <1>2, <1>7, MarkFacts DEF Kept, Unloaded
  <2> QED BY Zenon, <1>1, <1>2, <1>4, <1>5, <2>1 DEF ServerStep, ServerState
<1>8. CASE t = s
  BY Zenon, <1>1, <1>4, <1>5, <1>8, SameState DEF ServerStep
<1>9. routerOf(d, outcome).desc = d
  BY Zenon DEF routerOf
<1> QED BY Zenon, <1>1, <1>6, <1>7, <1>8, <1>9 DEF DirservAddDescriptor

\* A download.
LEMMA DownloadStep ==
    ASSUME DescriptorsInv, NEW n \in Dirs, NEW r \in Relays, Download(n, r)
    PROVE  \E t : ServerStep(n, t)
<1> DEFINE d == consensus[r]  s == dir[n]
<1>1. d \in Descriptor /\ s \in Dir
  BY DEF DescriptorsInv, TypeOK, Download
<1>2. Unloaded(s) = {} /\ Kept(s)
  BY Zenon, ReadyFacts DEF Download, DescriptorsInv, KeptOnDisk, Kept
<1> DEFINE next(outcome) == IF Parsed(outcome) THEN AddToRouterlist(n, s, routerOf(d, outcome), FALSE)
                            ELSE IF outcome = "bad" THEN MarkImpossible(s, d) ELSE s
<1>3. PICK damaged \in BOOLEAN, outcome \in {"VALID", "NULL", "bad", "again"} :
         /\ Parse(d, damaged, outcome)
         /\ dir' = [dir EXCEPT ![n] = next(outcome)] \/ dir' = [dir EXCEPT ![n] = RebuildStore(next(outcome))]
  BY Zenon DEF Download
<1> DEFINE t == next(outcome)
<1>4. RegistryStep /\ UNCHANGED <<main, starts, consensus>>
  BY Zenon, <1>1, <1>3, ParseFacts DEF Download
<1>5. ServerState(n, t) /\ Unloaded(t) = {}
  <2>1. CASE Parsed(outcome)
    <3>1. t = AddToRouterlist(n, s, routerOf(d, outcome), FALSE)
      BY Zenon, <2>1
    <3> HIDE DEF t, next
    <3>2. Added(n, s, t, d)
      BY Zenon, <1>1, <1>2, <1>3, <2>1, <3>1, AddStep
    <3> QED BY Zenon, <1>2, <3>2 DEF Added, ServerState
  <2>2. CASE ~Parsed(outcome) /\ outcome = "bad"
    <3>0. t = MarkImpossible(s, d)
      BY Zenon, <2>2
    <3> HIDE DEF t, next
    <3>1. /\ t \in Dir /\ t.routers = s.routers /\ Kept(t) /\ Unloaded(t) = Unloaded(s)
      BY <1>1, <1>2, <3>0, MarkFacts DEF Kept, Unloaded
    <3> QED BY Zenon, <1>2, <3>1 DEF ServerState
  <2>3. CASE ~Parsed(outcome) /\ outcome # "bad"
    BY Zenon, <1>2, <2>3, SameState
  <2> QED BY Zenon, <2>1, <2>2, <2>3
<1> HIDE DEF t
<1>6. ServerState(n, RebuildStore(t))
  BY Zenon, <1>5, RebuildState
<1> QED BY Zenon, <1>3, <1>4, <1>5, <1>6 DEF ServerStep, t

\* An old descriptor that becomes current.
LEMMA ReparseOldStep ==
    ASSUME DescriptorsInv, NEW n \in Dirs, NEW r \in Relays, ReparseOld(n, r)
    PROVE  \E t : ServerStep(n, t)
<1> DEFINE d == consensus[r]  s == dir[n]  u == [s EXCEPT !.old = @ \ {d}]
<1>1. d \in Descriptor /\ s \in Dir /\ d \in s.old
  BY Zenon DEF DescriptorsInv, TypeOK, ReparseOld
<1>2. Unloaded(s) = {} /\ Kept(s)
  BY Zenon, ReadyFacts DEF ReparseOld, DescriptorsInv, KeptOnDisk, Kept
<1>3. PICK outcome \in {"VALID", "NULL", "bad"} :
         /\ Parse(d, FALSE, outcome)
         /\ dir' = [dir EXCEPT ![n] = IF Parsed(outcome) THEN AddToRouterlist(n, u, routerOf(d, outcome), TRUE) ELSE s]
  BY Zenon DEF ReparseOld
<1>4. RegistryStep /\ UNCHANGED <<main, starts, consensus>>
  BY Zenon, <1>1, <1>3, ParseFacts DEF ReparseOld
<1>5. CASE Parsed(outcome)
  <2> DEFINE t == AddToRouterlist(n, u, routerOf(d, outcome), TRUE)
  <2>1. /\ u \in Dir /\ u.routers = s.routers /\ u.impossible = s.impossible /\ u.old = s.old \ {d}
        /\ u.store = s.store /\ u.journal = s.journal /\ u.fromStore = s.fromStore /\ u.fromJournal = s.fromJournal
    BY Zenon, <1>1 DEF Dir
  <2> HIDE DEF u
  <2>2. d \in OnDisk(u) /\ Kept(u) /\ Unloaded(u) = {}
    BY <1>1, <1>2, <2>1 DEF Kept, Known, Current, Unloaded, OnDisk
  <2>3. Added(n, u, t, d)
    BY Zenon, <1>1, <1>3, <1>5, <2>1, <2>2, AddStep
  <2> HIDE DEF t
  <2>4. ServerState(n, t)
    BY Zenon, <1>2, <2>2, <2>3 DEF ServerState, Added
  <2> QED BY Zenon, <1>3, <1>4, <1>5, <2>4 DEF ServerStep, t
<1>6. CASE ~Parsed(outcome)
  BY Zenon, <1>3, <1>4, <1>6, SameState DEF ServerStep
<1> QED BY Zenon, <1>5, <1>6

\* The descriptor that is loaded next is one that is still to be loaded, and
\* taking it out leaves the others.
LEMMA TakeFacts ==
    ASSUME NEW s \in Dir, s.fromStore # {} \/ s.fromJournal # <<>>,
           NEW d \in IF s.fromStore # {} THEN NextInStore(s) ELSE {Head(s.fromJournal)}
    PROVE  LET u == IF s.fromStore # {} THEN [s EXCEPT !.fromStore = @ \ {d}] ELSE [s EXCEPT !.fromJournal = Tail(@)]
           IN  /\ u \in Dir /\ u.routers = s.routers /\ u.impossible = s.impossible
               /\ Known(u) = Known(s) /\ OnDisk(u) = OnDisk(s)
               /\ d \in Descriptor /\ d \in Unloaded(s)
               /\ Unloaded(u) \subseteq Unloaded(s) /\ Unloaded(s) \subseteq Unloaded(u) \cup {d}
<1> DEFINE u == IF s.fromStore # {} THEN [s EXCEPT !.fromStore = @ \ {d}] ELSE [s EXCEPT !.fromJournal = Tail(@)]
<1>0. s.fromStore \in SUBSET Descriptor /\ s.fromJournal \in Seq(Descriptor)
  BY Zenon DEF Dir
<1>1. CASE s.fromStore # {}
  <2>1. d \in s.fromStore /\ d \in Descriptor
    BY Zenon, <1>0, <1>1 DEF NextInStore
  <2>2. /\ u \in Dir /\ u.routers = s.routers /\ u.impossible = s.impossible /\ u.old = s.old
        /\ u.store = s.store /\ u.journal = s.journal /\ u.fromStore = s.fromStore \ {d} /\ u.fromJournal = s.fromJournal
    BY Zenon, <1>1 DEF Dir
  <2> HIDE DEF u
  <2>3. Known(u) = Known(s) /\ OnDisk(u) = OnDisk(s)
    BY Zenon, <2>2 DEF Known, Current, OnDisk
  <2>4. d \in Unloaded(s) /\ Unloaded(u) \subseteq Unloaded(s) /\ Unloaded(s) \subseteq Unloaded(u) \cup {d}
    BY Zenon, <2>1, <2>2 DEF Unloaded
  <2> QED BY Zenon, <2>1, <2>2, <2>3, <2>4 DEF u
<1>2. CASE s.fromStore = {}
  <2> DEFINE q == s.fromJournal
  <2>1. q \in Seq(Descriptor) /\ q # <<>> /\ d = Head(q)
    BY Zenon, <1>0, <1>2
  <2>2. /\ 1 \in DOMAIN q /\ q[1] = d /\ d \in Descriptor /\ Tail(q) \in Seq(Descriptor)
        /\ \A i \in DOMAIN Tail(q) : i + 1 \in DOMAIN q /\ Tail(q)[i] = q[i + 1]
        /\ \A i \in DOMAIN q \ {1} : i - 1 \in DOMAIN Tail(q) /\ q[i] = Tail(q)[i - 1]
    BY <2>1
  <2>3. /\ u.routers = s.routers /\ u.impossible = s.impossible /\ u.old = s.old
        /\ u.store = s.store /\ u.journal = s.journal /\ u.fromStore = s.fromStore /\ u.fromJournal = Tail(q)
    BY Zenon, <1>2 DEF Dir
  <2>4. u \in Dir
    BY Zenon, <1>2, <2>2 DEF Dir
  <2> HIDE DEF u
  <2>5. Known(u) = Known(s) /\ OnDisk(u) = OnDisk(s)
    BY Zenon, <2>3 DEF Known, Current, OnDisk
  <2>6. d \in Unloaded(s) /\ Unloaded(u) \subseteq Unloaded(s) /\ Unloaded(s) \subseteq Unloaded(u) \cup {d}
    <3>1. d \in {q[i] : i \in DOMAIN q}
      BY Zenon, <2>2
    <3>2. {Tail(q)[i] : i \in DOMAIN Tail(q)} \subseteq {q[i] : i \in DOMAIN q}
      BY <2>2
    <3>3. \A i \in DOMAIN q : q[i] = d \/ q[i] \in {Tail(q)[j] : j \in DOMAIN Tail(q)}
      BY Zenon, <2>2
    <3>4. Unloaded(s) = {q[i] : i \in DOMAIN q} /\ Unloaded(u) = {Tail(q)[i] : i \in DOMAIN Tail(q)}
      BY Zenon, <1>2, <2>3 DEF Unloaded
    <3> QED BY Zenon, <3>1, <3>2, <3>3, <3>4
  <2> QED BY Zenon, <2>2, <2>3, <2>4, <2>5, <2>6 DEF u
<1> QED BY Zenon, <1>1, <1>2

\* A descriptor that is loaded at start-up.
LEMMA LoadStep ==
    ASSUME DescriptorsInv, NEW n \in Dirs, Load(n)
    PROVE  \E t : ServerStep(n, t)
<1> DEFINE s == dir[n]
           rest(d) == IF s.fromStore # {} THEN [s EXCEPT !.fromStore = @ \ {d}] ELSE [s EXCEPT !.fromJournal = Tail(@)]
           next(d, outcome) == IF Parsed(outcome) THEN AddToRouterlist(n, rest(d), routerOf(d, outcome), TRUE)
                               ELSE MarkImpossible(rest(d), d)
<1>1. PICK d \in IF s.fromStore # {} THEN NextInStore(s) ELSE {Head(s.fromJournal)}, outcome \in {"VALID", "NULL", "bad"} :
         /\ Parse(d, FALSE, outcome)
         /\ dir' = [dir EXCEPT ![n] =
                IF (next(d, outcome).fromStore = {} /\ next(d, outcome).fromJournal = <<>>) /\ next(d, outcome).journal # <<>>
                THEN RebuildStore(next(d, outcome)) ELSE next(d, outcome)]
  BY Zenon DEF Load
<1> DEFINE u == rest(d)  t == next(d, outcome)
<1>2. s \in Dir /\ (s.fromStore # {} \/ s.fromJournal # <<>>) /\ Kept(s)
  BY Zenon DEF DescriptorsInv, TypeOK, KeptOnDisk, Kept, Load, Ready
<1>3. /\ u \in Dir /\ u.routers = s.routers /\ u.impossible = s.impossible
      /\ Known(u) = Known(s) /\ OnDisk(u) = OnDisk(s)
      /\ d \in Descriptor /\ d \in Unloaded(s)
      /\ Unloaded(u) \subseteq Unloaded(s) /\ Unloaded(s) \subseteq Unloaded(u) \cup {d}
  BY Zenon, <1>1, <1>2, TakeFacts
<1>4. RegistryStep /\ UNCHANGED <<main, starts, consensus>>
  BY Zenon, <1>1, <1>3, ParseFacts DEF Load
<1>5. t = IF Parsed(outcome) THEN AddToRouterlist(n, u, routerOf(d, outcome), TRUE) ELSE MarkImpossible(u, d)
  BY Zenon
<1>6. dir' = [dir EXCEPT ![n] = IF (t.fromStore = {} /\ t.fromJournal = <<>>) /\ t.journal # <<>> THEN RebuildStore(t) ELSE t]
  BY Zenon, <1>1
<1> HIDE DEF s, rest, next, u, t
<1>7. Kept(u) /\ d \in OnDisk(u)
  BY Zenon, <1>2, <1>3 DEF Kept
<1>8. ServerState(n, t)
  <2>1. CASE Parsed(outcome)
    <3>1. Added(n, u, t, d)
      BY Zenon, <1>1, <1>3, <1>5, <1>7, <2>1, AddStep DEF s
    <3> QED BY Zenon, <1>3, <3>1 DEF ServerState, Added, s
  <2>2. CASE ~Parsed(outcome)
    <3>1. /\ t \in Dir /\ t.routers = s.routers /\ Kept(t) /\ Unloaded(t) = Unloaded(u)
      BY <1>3, <1>5, <1>7, <2>2, MarkFacts DEF Kept, Unloaded
    <3>2. d.proof = None \/ (main = "up" /\ ~Accepts(registrations, claimOf(d)))
      BY Zenon, <1>1, <1>3, <2>2, ParseFacts DEF Parsed
    <3>3. ~StandsBy(d)
      BY Zenon, <3>2 DEF StandsBy, Accepts, claimOf
    <3> QED BY Zenon, <1>3, <3>1, <3>3 DEF ServerState, s
  <2> QED BY Zenon, <2>1, <2>2
<1>9. CASE (t.fromStore = {} /\ t.fromJournal = <<>>) /\ t.journal # <<>>
  <2>1. Unloaded(t) = {}
    BY <1>9 DEF Unloaded
  <2> QED BY Zenon, <1>4, <1>6, <1>8, <1>9, <2>1, RebuildState DEF ServerStep
<1>10. CASE ~((t.fromStore = {} /\ t.fromJournal = <<>>) /\ t.journal # <<>>)
  BY Zenon, <1>4, <1>6, <1>8, <1>10 DEF ServerStep
<1> QED BY Zenon, <1>9, <1>10

\* A restart: what is still to be loaded is all that is on disk.
LEMMA RestartStep ==
    ASSUME DescriptorsInv, NEW n \in Dirs, Restart(n)
    PROVE  \E t : ServerStep(n, t)
<1> DEFINE s == dir[n]
           restarted(store) == [EmptyDir EXCEPT !.store = store, !.fromStore = store,
                                                !.journal = s.journal, !.fromJournal = s.journal]
<1>1. PICK store \in storesLeft(s) : dir' = [dir EXCEPT ![n] = restarted(store)]
  BY Zenon DEF Restart
<1> DEFINE t == restarted(store)
<1>2. s \in Dir /\ Kept(s)
  BY Zenon DEF DescriptorsInv, TypeOK, KeptOnDisk, Kept
<1>3. Known(s) \subseteq Descriptor /\ s.store \subseteq Descriptor /\ s.journal \in Seq(Descriptor)
  BY Zenon, <1>2 DEF Known, Current, Dir, Router
<1>4. store \subseteq Descriptor
  BY Zenon, <1>1, <1>3 DEF storesLeft
<1>5. /\ t.routers = [r \in Relays |-> None] /\ t.old = {} /\ t.impossible = {}
      /\ t.store = store /\ t.fromStore = store /\ t.journal = s.journal /\ t.fromJournal = s.journal
  BY Zenon DEF EmptyDir
<1>6. t \in Dir
  BY Zenon, <1>3, <1>4 DEF EmptyDir, Dir
<1> HIDE DEF restarted, t, s
<1>7. Known(t) = {}
  BY Zenon, <1>5 DEF Known, Current
<1>8. Unloaded(t) = OnDisk(t)
  BY <1>5 DEF Unloaded, OnDisk
<1>9. Unloaded(s) \subseteq Unloaded(t)
  <2>1. CASE Unloaded(s) = {}
    BY Zenon, <2>1
  <2>2. CASE store = s.store
    BY <1>2, <1>5, <2>2 DEF Kept, Unloaded, OnDisk
  <2> QED BY Zenon, <1>1, <2>1, <2>2 DEF storesLeft
<1>10. ServerState(n, t)
  BY Zenon, <1>5, <1>6, <1>7, <1>8, <1>9 DEF ServerState, Kept, s
<1>11. RegistryStep /\ UNCHANGED <<main, starts, consensus>>
  BY Zenon DEF Restart, backend, RegistryStep, DescriptorsInv, TypeOK
<1> QED BY Zenon, <1>1, <1>10, <1>11 DEF ServerStep, t

\* A store that is rebuilt from time to time.
LEMMA CleanCachesStep ==
    ASSUME DescriptorsInv, NEW n \in Dirs, CleanCaches(n)
    PROVE  \E t : ServerStep(n, t)
<1>1. ServerState(n, RebuildStore(dir[n]))
  BY Zenon, SameState, ReadyFacts, RebuildState DEF CleanCaches
<1>2. dir' = [dir EXCEPT ![n] = RebuildStore(dir[n])]
  BY Zenon DEF CleanCaches
<1>3. RegistryStep /\ UNCHANGED <<main, starts, consensus>>
  BY Zenon DEF CleanCaches, backend, RegistryStep, DescriptorsInv, TypeOK
<1> QED BY Zenon, <1>1, <1>2, <1>3 DEF ServerStep

-----------------------------------------------------------------------------
(* The invariant.                                                          *)

\* A server's step keeps the types, if it keeps the uploads and the responses.
LEMMA ServerTypes ==
    ASSUME DescriptorsInv, NEW n \in Dirs, NEW t, ServerStep(n, t), UNCHANGED relayVars,
           posts' \subseteq posts, replies' \subseteq [from : Auths, desc : Descriptor, status : {200, 400}],
           losses' \in Nat, crashes' \in Nat
    PROVE  TypeOK' /\ BuiltOK'
<1>1. dir' \in [Dirs -> Dir] /\ registrations' \in Registrations
  BY Zenon DEF ServerStep, ServerState, RegistryStep, DescriptorsInv, TypeOK
<1> QED BY Zenon, <1>1 DEF ServerStep, DescriptorsInv, TypeOK, BuiltOK, relayVars

\* What the servers do.
LEMMA ServerInv ==
    ASSUME DescriptorsInv, NEW n \in Dirs, Server(n)
    PROVE  DescriptorsInv' /\ \E t : ServerStep(n, t)
<1>1. PICK t : ServerStep(n, t)
  BY Zenon, DownloadStep, ReparseOldStep, LoadStep, RestartStep, CleanCachesStep DEF Server
<1>2. /\ UNCHANGED relayVars /\ posts' \subseteq posts /\ replies' \subseteq replies /\ UNCHANGED losses
      /\ crashes' \in {crashes, crashes + 1}
  BY Zenon DEF Server, Download, ReparseOld, Load, Restart, CleanCaches
<1>3. TypeOK' /\ BuiltOK'
  <2>1. /\ replies' \subseteq [from : Auths, desc : Descriptor, status : {200, 400}]
        /\ losses' \in Nat /\ crashes' \in Nat
    BY <1>2 DEF DescriptorsInv, TypeOK
  <2> QED BY Zenon, <1>1, <1>2, <2>1, ServerTypes
<1> QED BY Zenon, <1>1, <1>3, DirStep

\* An upload is handled.
LEMMA HandlePostInv ==
    ASSUME DescriptorsInv, NEW m \in posts, HandlePost(m)
    PROVE  DescriptorsInv'
<1>1. m.to \in Auths /\ m.desc \in Descriptor
  BY Zenon DEF DescriptorsInv, TypeOK
<1>2. PICK t : ServerStep(m.to, t) /\ m.to \in Dirs
  BY Zenon, HandlePostStep
<1>3. \A s, u, parsed : status(s, u, m.desc, parsed) \in {200, 400}
  BY DEF status
<1>4. replies' \subseteq [from : Auths, desc : Descriptor, status : {200, 400}]
  <2>1. PICK x \in {200, 400} : replies' = replies \cup {[from |-> m.to, desc |-> m.desc, status |-> x]}
    BY <1>3 DEF HandlePost
  <2> QED BY <1>1, <2>1 DEF DescriptorsInv, TypeOK
<1>5. UNCHANGED relayVars /\ posts' \subseteq posts /\ losses' \in Nat /\ crashes' \in Nat
  BY Zenon DEF HandlePost, DescriptorsInv, TypeOK
<1>6. TypeOK' /\ BuiltOK'
  BY Zenon, <1>2, <1>4, <1>5, ServerTypes
<1> QED BY Zenon, <1>2, <1>6, DirStep

\* A step that is not a server's keeps the rest, if all that it does in Main is
\* to register.
LEMMA Registered ==
    ASSUME DescriptorsInv, TypeOK', BuiltOK', RegistryStep, UNCHANGED <<dir, main, starts>>
    PROVE  DescriptorsInv'
<1>1. \A n \in Dirs, q \in Pseudonyms : Validated(n, q)' = Validated(n, q)
  BY Zenon DEF Validated
<1>2. (main = "up" => \A n \in Dirs, q \in Pseudonyms : Validated(n, q) \subseteq Members(registrations[q]))'
  <2> SUFFICES ASSUME main' = "up", NEW n \in Dirs, NEW q \in Pseudonyms
               PROVE  Validated(n, q)' \subseteq Members(registrations'[q])
    BY Zenon DEF Members
  <2> QED BY Zenon, <1>1 DEF DescriptorsInv, RegistryStep
<1>3. (\A q \in Pseudonyms : OneGroup(registrations[q]))'
  BY Zenon DEF RegistryStep, OneGroup, Members
<1>4. KeptOnDisk' /\ \A n \in Dirs, r \in Relays : RouterOK(n, r)'
  BY DEF DescriptorsInv, KeptOnDisk, RouterOK, Known, Current, Unloaded, OnDisk
<1> QED BY Zenon, <1>2, <1>3, <1>4 DEF DescriptorsInv

\* As it does if it does nothing in Main.
LEMMA Elsewhere ==
    ASSUME DescriptorsInv, TypeOK', BuiltOK', UNCHANGED <<dir, registrations, main, starts>>
    PROVE  DescriptorsInv'
<1>1. RegistryStep
  BY Zenon DEF RegistryStep, DescriptorsInv, TypeOK
<1> QED BY Zenon, <1>1, Registered

\* What a relay does with its descriptor, built now or before.
LEMMA RelaySends ==
    ASSUME DescriptorsInv, NEW r \in Relays, Upload(r) \/ PutOff(r),
           desc' \in [Relays -> Descriptor \cup {None}], desc'[r] \in Descriptor,
           \A q \in Relays \ {r} : desc'[q] = desc[q]
    PROVE  /\ posts' \subseteq [to : Auths, desc : Descriptor]
           /\ stage' \in [Relays -> {"dirty", "built", "clean"}]
           /\ accepted' \in [Relays -> SUBSET Auths] /\ losses' \in Nat /\ BuiltOK'
<1>1. posts' \subseteq [to : Auths, desc : Descriptor]
  BY DEF Upload, PutOff, DescriptorsInv, TypeOK
<1>2. stage' \in [Relays -> {"dirty", "built", "clean"}] /\ \A q \in Relays \ {r} : stage'[q] = stage[q]
  BY Zenon DEF Upload, PutOff, DescriptorsInv, TypeOK
<1>3. accepted' \in [Relays -> SUBSET Auths]
  BY Zenon DEF Upload, PutOff, DescriptorsInv, TypeOK
<1>4. losses' \in Nat
  BY DEF Upload, PutOff, DescriptorsInv, TypeOK
<1>5. BuiltOK'
  BY Zenon, <1>2, NoneIsNothing DEF DescriptorsInv, BuiltOK
<1> QED BY Zenon, <1>1, <1>2, <1>3, <1>4, <1>5

\* A relay builds a descriptor, parses it and uploads it.
LEMMA PublishInv ==
    ASSUME DescriptorsInv, NEW r \in Relays, ConsiderPublishableServer(r)
    PROVE  DescriptorsInv' /\ UNCHANGED dir
<1> DEFINE d == freshDescriptor(r)
<1>1. UNCHANGED <<proofFile, replies, dir, consensus, main, starts, crashes>>
  BY Zenon DEF ConsiderPublishableServer
<1>2. CASE stage[r] = "built" /\ UNCHANGED <<desc, builds, registrations>> /\ Upload(r)
  <2>1. desc[r] \in Descriptor /\ desc \in [Relays -> Descriptor \cup {None}]
    BY <1>2 DEF DescriptorsInv, TypeOK, BuiltOK
  <2>2. /\ posts' \subseteq [to : Auths, desc : Descriptor]
        /\ stage' \in [Relays -> {"dirty", "built", "clean"}]
        /\ accepted' \in [Relays -> SUBSET Auths] /\ losses' \in Nat /\ BuiltOK'
    BY Zenon, <1>2, <2>1, RelaySends
  <2>3. TypeOK'
    BY Zenon, <1>1, <1>2, <2>2 DEF DescriptorsInv, TypeOK
  <2> QED BY Zenon, <1>1, <1>2, <2>2, <2>3, Elsewhere
<1>3. CASE builds[r] < MaxGen /\ (RebuildFails(r) \/ (RebuildDescriptor(r) /\ (Upload(r) \/ PutOff(r))))
  <2>1. builds[r] \in Nat /\ builds[r] + 1 \in 1 .. MaxGen /\ builds[r] + 1 \in 0 .. MaxGen
    BY <1>3, BoundsAssumption DEF DescriptorsInv, TypeOK
  <2>2. d \in Descriptor
    BY Zenon, <2>1 DEF freshDescriptor, proofLine, Descriptor, DescriptorsInv, TypeOK
  <2>3. RegistryStep
    BY Zenon, <1>3, <2>2, ParseFacts DEF RebuildFails, RebuildDescriptor
  <2>4. CASE RebuildFails(r)
    <3>1. TypeOK' /\ BuiltOK'
      BY Zenon, <1>1, <2>3, <2>4 DEF RebuildFails, RegistryStep, DescriptorsInv, TypeOK, BuiltOK
    <3> QED BY Zenon, <1>1, <2>3, <3>1, Registered
  <2>5. CASE RebuildDescriptor(r) /\ (Upload(r) \/ PutOff(r))
    <3>1. desc' = [desc EXCEPT ![r] = d] /\ builds' = [builds EXCEPT ![r] = builds[r] + 1]
      BY Zenon, <2>5 DEF RebuildDescriptor
    <3> HIDE DEF d
    <3>2. /\ desc' \in [Relays -> Descriptor \cup {None}] /\ desc'[r] \in Descriptor
          /\ \A q \in Relays \ {r} : desc'[q] = desc[q]
      BY Zenon, <2>2, <3>1 DEF DescriptorsInv, TypeOK
    <3>3. builds' \in [Relays -> 0 .. MaxGen]
      BY Zenon, <2>1, <3>1 DEF DescriptorsInv, TypeOK
    <3>4. /\ posts' \subseteq [to : Auths, desc : Descriptor]
          /\ stage' \in [Relays -> {"dirty", "built", "clean"}]
          /\ accepted' \in [Relays -> SUBSET Auths] /\ losses' \in Nat /\ BuiltOK'
      BY Zenon, <2>5, <3>2, RelaySends
    <3>5. TypeOK'
      BY Zenon, <1>1, <2>3, <3>2, <3>3, <3>4 DEF RegistryStep, DescriptorsInv, TypeOK
    <3> QED BY Zenon, <1>1, <2>3, <3>4, <3>5, Registered
  <2> QED BY Zenon, <1>3, <2>4, <2>5
<1> QED BY Zenon, <1>2, <1>3 DEF ConsiderPublishableServer

\* What a relay does.
LEMMA RelayInv ==
    ASSUME DescriptorsInv, NEW r \in Relays, Relay(r)
    PROVE  DescriptorsInv' /\ UNCHANGED dir
<1>1. CASE WriteProof(r)
  <2>1. TypeOK' /\ BuiltOK'
    BY <1>1 DEF WriteProof, backend, DescriptorsInv, TypeOK, BuiltOK
  <2> QED BY Zenon, <1>1, <2>1, Elsewhere DEF WriteProof, backend
<1>2. CASE MarkMyDescriptorDirty(r)
  <2>1. TypeOK' /\ BuiltOK'
    BY Zenon, <1>2 DEF MarkMyDescriptorDirty, backend, DescriptorsInv, TypeOK, BuiltOK
  <2> QED BY Zenon, <1>2, <2>1, Elsewhere DEF MarkMyDescriptorDirty, backend
<1>3. CASE ConsiderPublishableServer(r)
  BY Zenon, <1>3, PublishInv
<1> QED BY Zenon, <1>1, <1>2, <1>3 DEF Relay

\* What becomes of the connections.
LEMMA ConnectionInv ==
    ASSUME DescriptorsInv, Connection
    PROVE  DescriptorsInv'
<1>1. ASSUME NEW m \in posts, HandlePost(m) PROVE DescriptorsInv'
  BY Zenon, <1>1, HandlePostInv
<1>2. ASSUME NEW m \in posts, LosePost(m) PROVE DescriptorsInv'
  <2>1. TypeOK' /\ BuiltOK'
    BY <1>2 DEF LosePost, relayVars, backend, DescriptorsInv, TypeOK, BuiltOK
  <2> QED BY Zenon, <1>2, <2>1, Elsewhere DEF LosePost, backend
<1>3. ASSUME NEW m \in replies, LoseReply(m) PROVE DescriptorsInv'
  <2>1. TypeOK' /\ BuiltOK'
    BY <1>3 DEF LoseReply, relayVars, backend, DescriptorsInv, TypeOK, BuiltOK
  <2> QED BY Zenon, <1>3, <2>1, Elsewhere DEF LoseReply, backend
<1>4. ASSUME NEW m \in replies, HandleResponseUploadDir(m) PROVE DescriptorsInv'
  <2>1. m.from \in Auths /\ m.desc.relay \in Relays
    BY Zenon DEF DescriptorsInv, TypeOK, Descriptor
  <2>2. accepted' \in [Relays -> SUBSET Auths]
    BY <1>4, <2>1 DEF HandleResponseUploadDir, DescriptorsInv, TypeOK
  <2>3. TypeOK' /\ BuiltOK'
    BY Zenon, <1>4, <2>2 DEF HandleResponseUploadDir, backend, DescriptorsInv, TypeOK, BuiltOK
  <2> QED BY Zenon, <1>4, <2>3, Elsewhere DEF HandleResponseUploadDir, backend
<1> QED BY Zenon, <1>1, <1>2, <1>3, <1>4 DEF Connection

\* A vote.
LEMMA VoteInv ==
    ASSUME DescriptorsInv, Vote
    PROVE  DescriptorsInv'
<1>1. consensus' \in [Relays -> Descriptor \cup {None}]
  <2> DEFINE all(r) == {dir[a].routers[r].desc : a \in {a \in Auths : dir[a].routers[r] # None}}
             listed(r, d) == {a \in Auths : dir[a].routers[r] # None /\ dir[a].routers[r].desc = d}
             winners(r) == {d \in all(r) : 2 * Cardinality(listed(r, d)) > Cardinality(Auths)}
  <2>1. consensus' = [r \in Relays |-> IF winners(r) = {} THEN None ELSE CHOOSE d \in winners(r) : TRUE]
    BY Zenon DEF Vote
  <2>2. \A r \in Relays : winners(r) \subseteq all(r)
    BY Zenon
  <2>3. \A r \in Relays : all(r) \subseteq Descriptor
    BY DEF DescriptorsInv, TypeOK, Dirs, Dir, Router
  <2> HIDE DEF winners, all
  <2>4. \A r \in Relays : winners(r) # {} => (CHOOSE d \in winners(r) : TRUE) \in winners(r)
    BY Zenon
  <2> QED BY Zenon, <2>1, <2>2, <2>3, <2>4
<1>2. TypeOK' /\ BuiltOK'
  BY Zenon, <1>1 DEF Vote, relayVars, backend, DescriptorsInv, TypeOK, BuiltOK
<1> QED BY Zenon, <1>2, Elsewhere DEF Vote, backend

\* Main starts: nothing that is listed is from the new run.
LEMMA StartMainInv ==
    ASSUME DescriptorsInv, StartMain
    PROVE  DescriptorsInv'
<1>1. starts \in Nat /\ starts' = starts + 1 /\ UNCHANGED <<dir, registrations>> /\ dir \in [Dirs -> Dir]
  BY BoundsAssumption DEF StartMain, DescriptorsInv, TypeOK
<1>2. TypeOK' /\ BuiltOK'
  BY BoundsAssumption DEF StartMain, relayVars, DescriptorsInv, TypeOK, BuiltOK
<1>3. \A n \in Dirs, r \in Relays :
         dir[n].routers[r] # None => dir[n].routers[r].by \in Nat /\ dir[n].routers[r].by <= starts
  BY <1>1, BoundsAssumption DEF DescriptorsInv, RouterOK, Dir, Router
<1>4. \A n \in Dirs, r \in Relays : RouterOK(n, r)'
  BY <1>1, <1>3 DEF DescriptorsInv, RouterOK
<1>5. \A n \in Dirs, p \in Pseudonyms : Validated(n, p)' = {}
  BY <1>1, <1>3 DEF Validated
<1> QED BY <1>1, <1>2, <1>4, <1>5 DEF DescriptorsInv, KeptOnDisk, Known, Current, Unloaded, OnDisk, OneGroup, Members

\* Main stops, and the registry is gone.
LEMMA StopMainInv ==
    ASSUME DescriptorsInv, StopMain
    PROVE  DescriptorsInv'
<1>1. main' = "down" /\ registrations' = Empty /\ UNCHANGED <<dir, starts>>
  BY Zenon DEF StopMain
<1>2. TypeOK' /\ BuiltOK'
  BY Zenon, EmptyFacts DEF StopMain, relayVars, DescriptorsInv, TypeOK, BuiltOK
<1>3. (\A p \in Pseudonyms : OneGroup(registrations[p]))'
  BY <1>1, EmptyFacts DEF OneGroup, Members
<1> QED BY <1>1, <1>2, <1>3 DEF DescriptorsInv, KeptOnDisk, RouterOK, Known, Current, Unloaded, OnDisk

\* A user registers.
LEMMA RegisterUserInv ==
    ASSUME DescriptorsInv, NEW x \in Names, NEW p \in Pseudonyms, RegisterUser(x, p)
    PROVE  DescriptorsInv'
<1> DEFINE c == [key |-> p, nodeId |-> x, familyIds |-> {}, good |-> TRUE]
<1>1. c \in Claim
  BY Zenon, NodesAssumption DEF Claim
<1>2. registrations' = Enter(registrations, c) /\ UNCHANGED <<dir, main, starts>>
  BY Zenon DEF RegisterUser
<1>3. RegistryStep
  BY Zenon, <1>1, <1>2, EnterFacts DEF RegistryStep, DescriptorsInv, TypeOK
<1>4. TypeOK' /\ BuiltOK'
  BY Zenon, <1>3 DEF RegistryStep, RegisterUser, relayVars, DescriptorsInv, TypeOK, BuiltOK
<1> QED BY Zenon, <1>2, <1>3, <1>4, Registered

\* The first state.
LEMMA InitInv == Init => DescriptorsInv
<1> SUFFICES ASSUME Init PROVE DescriptorsInv
  BY Zenon
<1>1. <<>> \in Seq(Descriptor)
  OBVIOUS
<1>2. EmptyDir \in Dir
  BY Zenon, <1>1 DEF EmptyDir, Dir
<1>3. builds \in [Relays -> 0 .. MaxGen] /\ starts \in 0 .. MaxStarts /\ losses \in Nat /\ crashes \in Nat
  <2>1. PICK spent \in Spent : /\ builds = spent.builds /\ losses = spent.losses
                               /\ crashes = spent.crashes /\ starts = spent.starts
    BY Zenon DEF Init
  <2>2. /\ spent.builds \in [Relays -> 0 .. MaxGen] /\ spent.losses \in 0 .. MaxLosses
        /\ spent.crashes \in 0 .. MaxCrashes /\ spent.starts \in 0 .. MaxStarts
    BY Zenon, SpentAssumption
  <2> QED BY <2>1, <2>2, BoundsAssumption
<1>3a. TypeOK /\ BuiltOK
  BY <1>2, <1>3, EmptyFacts DEF Init, TypeOK, BuiltOK
<1>4. Known(EmptyDir) = {} /\ Unloaded(EmptyDir) = {}
  BY DEF EmptyDir, Known, Current, Unloaded
<1>5. KeptOnDisk
  BY Zenon, <1>4 DEF Init, KeptOnDisk
<1>6. \A n \in Dirs, r \in Relays : RouterOK(n, r)
  BY Zenon DEF Init, RouterOK, EmptyDir
<1> QED BY Zenon, <1>3a, <1>5, <1>6, EmptyFacts DEF Init, DescriptorsInv

\* Every step.
LEMMA NextInv ==
    ASSUME DescriptorsInv, [Next]_vars
    PROVE  DescriptorsInv'
<1>1. CASE UNCHANGED vars
  <2>1. TypeOK' /\ BuiltOK'
    BY Zenon, <1>1 DEF vars, DescriptorsInv, TypeOK, BuiltOK
  <2> QED BY Zenon, <1>1, <2>1, Elsewhere DEF vars
<1> QED BY Zenon, <1>1, RelayInv, ConnectionInv, ServerInv, VoteInv, StartMainInv, StopMainInv, RegisterUserInv DEF Next

-----------------------------------------------------------------------------
(* The theorems.                                                           *)

\* The invariant holds for any relays, families, servers, votes and bounds.
THEOREM DescriptorsInvariance == Spec => []DescriptorsInv
BY InitInv, NextInv, PTL DEF Spec

\* The relays listed under a pseudonym on the word of the running DA are
\* registered with it, and are one family.
THEOREM Listed == Spec => []OneFamilyListed
<1>1. DescriptorsInv => OneFamilyListed
  BY Zenon DEF DescriptorsInv, RouterOK, OneFamilyListed
<1> QED BY <1>1, DescriptorsInvariance, PTL

\* Whenever a server stops, the disk has what it knows.
THEOREM Stored == Spec => []KeptOnDisk
<1>1. DescriptorsInv => KeptOnDisk
  BY Zenon DEF DescriptorsInv
<1> QED BY <1>1, DescriptorsInvariance, PTL

\* A step changes the state of a server only as ServerStep says.
LEMMA NextServers ==
    ASSUME DescriptorsInv, [Next]_vars, dir' # dir
    PROVE  \E n \in Dirs : \E t : ServerStep(n, t)
<1>1. ASSUME NEW m \in posts, HandlePost(m) PROVE \E n \in Dirs : \E t : ServerStep(n, t)
  BY Zenon, <1>1, HandlePostStep
<1>2. CASE Connection
  BY Zenon, <1>1, <1>2 DEF Connection, LosePost, LoseReply, HandleResponseUploadDir
<1>3. CASE \E n \in Dirs : Server(n)
  BY Zenon, <1>3, ServerInv
<1> QED BY Zenon, <1>2, <1>3, RelayInv DEF Next, vars, Vote, StartMain, StopMain, RegisterUser

\* A restart keeps every descriptor that the DA stands by.
THEOREM Reloaded == Spec => ReloadKeeps
<1>1. ASSUME DescriptorsInv, [Next]_vars, NEW n \in Dirs, NEW d \in Unloaded(dir[n]) \ Unloaded(dir'[n]), StandsBy(d)
      PROVE  d \in Known(dir'[n])
  <2>1. PICK m \in Dirs : \E t : ServerStep(m, t)
    BY Zenon, <1>1, NextServers
  <2>1a. PICK t : ServerStep(m, t)
    BY Zenon, <2>1
  <2>2. dir'[m] = t /\ \A k \in Dirs \ {m} : dir'[k] = dir[k]
    BY <1>1, <2>1a DEF ServerStep, DescriptorsInv, TypeOK
  <2> QED BY Zenon, <1>1, <2>1a, <2>2 DEF ServerStep, ServerState
<1>2. DescriptorsInv /\ [Next]_vars =>
         [\A n \in Dirs : \A d \in Unloaded(dir[n]) \ Unloaded(dir'[n]) :
             d.proof # None /\ (main = "up" => d.relay \in Members(registrations[d.proof]))
                 => d \in Known(dir'[n])]_vars
  BY Zenon, <1>1 DEF StandsBy
<1> QED BY <1>2, DescriptorsInvariance, PTL DEF Spec, ReloadKeeps

\* A server goes back to an older descriptor only with the consensus.
THEOREM Newest == Spec => NewestListed
<1>1. ASSUME DescriptorsInv, [Next]_vars, NEW n \in Dirs, NEW r \in Relays,
             dir[n].routers[r] # None, dir'[n].routers[r] # None,
             dir'[n].routers[r].desc.published < dir[n].routers[r].desc.published
      PROVE  consensus[r] = dir'[n].routers[r].desc
  <2> DEFINE x == dir[n].routers[r]  y == dir'[n].routers[r]
  <2>1. x \in Router /\ y \in Router
    <3>1. DescriptorsInv'
      BY Zenon, <1>1, NextInv
    <3> QED BY <1>1, <3>1 DEF DescriptorsInv, TypeOK, Dir
  <2>2. x.desc.published \in Nat /\ y.desc.published \in Nat
    BY <2>1, BoundsAssumption DEF Router, Descriptor
  <2>3. y # x
    BY <1>1, <2>2
  <2>4. PICK m \in Dirs : \E t : ServerStep(m, t)
    BY Zenon, <1>1, <2>3, NextServers
  <2>4a. PICK t : ServerStep(m, t)
    BY Zenon, <2>4
  <2>5. dir'[m] = t /\ \A k \in Dirs \ {m} : dir'[k] = dir[k]
    BY Zenon, <1>1, <2>4a DEF ServerStep, DescriptorsInv, TypeOK
  <2>6. x = None \/ x.desc.published < y.desc.published \/ consensus[r] = y.desc
    BY <1>1, <2>3, <2>4a, <2>5 DEF ServerStep, ServerState
  <2> QED BY <1>1, <2>2, <2>6
<1>2. DescriptorsInv /\ [Next]_vars =>
         [\A n \in Dirs, r \in Relays :
             LET x == dir[n].routers[r]  y == dir'[n].routers[r]
             IN  x # None /\ y # None /\ y.desc.published < x.desc.published => consensus[r] = y.desc]_vars
  BY Zenon, <1>1
<1> QED BY <1>2, DescriptorsInvariance, PTL DEF Spec, NewestListed

-----------------------------------------------------------------------------
(* What a 200 means.                                                       *)

\* A state of an authority in which every relay with an old descriptor has a
\* current one, and every current descriptor is its relay's.
Ordered(s) ==
    /\ \A d \in s.old : s.routers[d.relay] # None
    /\ \A r \in Relays : s.routers[r] # None => s.routers[r].desc.relay = r

\* From s to t no relay has disappeared.
Keeps(s, t) ==
    /\ \A d \in t.old : t.routers[d.relay] # None
    /\ \A r \in Relays : s.routers[r] # None => t.routers[r] # None

\* An authority that adds a descriptor lists one of its relay.
LEMMA AddListed ==
    ASSUME NEW n, n \notin Caches, NEW s \in Dir, Ordered(s), NEW x \in Router, NEW fromCache \in BOOLEAN
    PROVE  LET t == AddToRouterlist(n, s, x, fromCache)
           IN  Keeps(s, t) /\ t.routers[x.desc.relay] # None
<1> DEFINE t == AddToRouterlist(n, s, x, fromCache)  r == x.desc.relay
<1>1. r \in Relays /\ x # None /\ s.routers \in [Relays -> Router \cup {None}]
  BY Zenon, NoneIsNothing DEF Router, Descriptor, Dir
<1>2. CASE x.desc \in Known(s)
  <2>1. t = s
    BY Zenon, <1>2 DEF AddToRouterlist
  <2>2. s.routers[r] # None
    BY <1>2 DEF Ordered, Known, Current
  <2> QED BY Zenon, <2>1, <2>2 DEF Ordered, Keeps
<1>3. CASE t = InsertOld(s, x.desc, fromCache) /\ s.routers[r] # None
  <2>1. t.routers = s.routers /\ t.old = s.old \cup {x.desc}
    BY Zenon, <1>3 DEF InsertOld, AppendToJournal, Dir
  <2> QED BY Zenon, <1>3, <2>1 DEF Ordered, Keeps
<1>4. CASE t = Insert(s, x, fromCache)
  <2>1. /\ t.routers = [s.routers EXCEPT ![r] = x]
        /\ t.old \subseteq s.old \cup (IF s.routers[r] = None THEN {} ELSE {s.routers[r].desc})
    BY Zenon, <1>4 DEF Insert, AppendToJournal, Dir
  <2>2. t.routers[r] # None /\ \A q \in Relays : s.routers[q] # None => t.routers[q] # None
    BY Zenon, <1>1, <2>1
  <2>3. \A d \in s.old : d \in Descriptor
    BY Zenon DEF Dir
  <2>4. \A d \in t.old : t.routers[d.relay] # None
    BY <1>1, <2>1, <2>2, <2>3 DEF Ordered, Descriptor
  <2> QED BY Zenon, <2>2, <2>4 DEF Keeps
<1> QED BY Zenon, <1>2, <1>3, <1>4 DEF AddToRouterlist

\* Marks, and what is still to be loaded, change nothing about it.
LEMMA SameListed ==
    ASSUME NEW s \in Dir, Ordered(s), NEW d
    PROVE  /\ Keeps(s, s) /\ Keeps(s, MarkImpossible(s, d))
           /\ \A t : Keeps(s, t) /\ t \in Dir => Keeps(s, RebuildStore(t))
<1>1. \A t \in Dir : RebuildStore(t).routers = t.routers /\ RebuildStore(t).old = t.old
  BY Zenon DEF RebuildStore, Dir
<1>2. MarkImpossible(s, d).routers = s.routers /\ MarkImpossible(s, d).old = s.old
  BY Zenon DEF MarkImpossible, Dir
<1> QED BY Zenon, <1>1, <1>2 DEF Keeps, Ordered

\* The states of the authorities are such.
LEMMA AuthOrdered ==
    ASSUME DescriptorsInv, OldIsListed, NEW a \in Auths
    PROVE  a \in Dirs /\ dir[a] \in Dir /\ Ordered(dir[a]) /\ a \notin Caches
BY Zenon, DirsAssumption DEF DescriptorsInv, TypeOK, RouterOK, OldIsListed, Ordered, Dirs

\* A download.
LEMMA DownloadListed ==
    ASSUME DescriptorsInv, OldIsListed, NEW a \in Auths, NEW r \in Relays, Download(a, r)
    PROVE  \E t : dir' = [dir EXCEPT ![a] = t] /\ Keeps(dir[a], t)
<1> DEFINE d == consensus[r]  s == dir[a]
           next(outcome) == IF Parsed(outcome) THEN AddToRouterlist(a, s, routerOf(d, outcome), FALSE)
                            ELSE IF outcome = "bad" THEN MarkImpossible(s, d) ELSE s
<1>1. PICK damaged \in BOOLEAN, outcome \in {"VALID", "NULL", "bad", "again"} :
         /\ Parse(d, damaged, outcome)
         /\ dir' = [dir EXCEPT ![a] = next(outcome)] \/ dir' = [dir EXCEPT ![a] = RebuildStore(next(outcome))]
  BY ZenonT(60) DEF Download
<1>2. d \in Descriptor /\ s \in Dir /\ Ordered(s) /\ a \notin Caches
  BY Zenon, AuthOrdered DEF DescriptorsInv, TypeOK, Download
<1>3. Parsed(outcome) => routerOf(d, outcome) \in Router
  BY Zenon, <1>1, <1>2, RouterOfFresh DEF Fresh
<1> DEFINE t == next(outcome)
<1>4. t \in Dir /\ Keeps(s, t)
  <2>1. CASE Parsed(outcome)
    <3>1. t = AddToRouterlist(a, s, routerOf(d, outcome), FALSE)
      BY Zenon, <2>1
    <3> HIDE DEF t, next
    <3> QED BY Zenon, <1>2, <1>3, <2>1, <3>1, AddListed, AddFacts DEF Learned
  <2>2. CASE ~Parsed(outcome) /\ outcome = "bad"
    <3>1. t = MarkImpossible(s, d)
      BY Zenon, <2>2
    <3> HIDE DEF t, next
    <3> QED BY Zenon, <1>2, <3>1, SameListed, MarkFacts
  <2>3. CASE ~Parsed(outcome) /\ outcome # "bad"
    BY Zenon, <1>2, <2>3, SameListed
  <2> QED BY Zenon, <2>1, <2>2, <2>3
<1> HIDE DEF t
<1>5. Keeps(s, RebuildStore(t))
  BY Zenon, <1>2, <1>4, SameListed
<1> QED BY Zenon, <1>1, <1>4, <1>5 DEF t

\* A descriptor that is loaded at start-up.
LEMMA LoadListed ==
    ASSUME DescriptorsInv, OldIsListed, NEW a \in Auths, Load(a)
    PROVE  \E t : dir' = [dir EXCEPT ![a] = t] /\ Keeps(dir[a], t)
<1> DEFINE s == dir[a]
           rest(d) == IF s.fromStore # {} THEN [s EXCEPT !.fromStore = @ \ {d}] ELSE [s EXCEPT !.fromJournal = Tail(@)]
           next(d, outcome) == IF Parsed(outcome) THEN AddToRouterlist(a, rest(d), routerOf(d, outcome), TRUE)
                               ELSE MarkImpossible(rest(d), d)
<1>1. PICK d \in IF s.fromStore # {} THEN NextInStore(s) ELSE {Head(s.fromJournal)}, outcome \in {"VALID", "NULL", "bad"} :
         /\ Parse(d, FALSE, outcome)
         /\ dir' = [dir EXCEPT ![a] =
                IF (next(d, outcome).fromStore = {} /\ next(d, outcome).fromJournal = <<>>) /\ next(d, outcome).journal # <<>>
                THEN RebuildStore(next(d, outcome)) ELSE next(d, outcome)]
  BY Zenon DEF Load
<1>2. s \in Dir /\ (s.fromStore # {} \/ s.fromJournal # <<>>) /\ Ordered(s) /\ a \notin Caches
  BY Zenon, AuthOrdered DEF Load, Ready
<1> DEFINE u == rest(d)  t == next(d, outcome)
<1>3. u \in Dir /\ u.routers = s.routers /\ d \in Descriptor
  BY Zenon, <1>1, <1>2, TakeFacts
<1>4. u.old = s.old
  BY Zenon, <1>2 DEF Dir
<1>5. t = IF Parsed(outcome) THEN AddToRouterlist(a, u, routerOf(d, outcome), TRUE) ELSE MarkImpossible(u, d)
  BY Zenon
<1>5a. dir' = [dir EXCEPT ![a] = t] \/ dir' = [dir EXCEPT ![a] = RebuildStore(t)]
  <2> DEFINE last == (t.fromStore = {} /\ t.fromJournal = <<>>) /\ t.journal # <<>>
  <2>1. dir' = [dir EXCEPT ![a] = IF last THEN RebuildStore(t) ELSE t]
    BY Zenon, <1>1
  <2> HIDE DEF last, t
  <2> QED BY Zenon, <2>1
<1> HIDE DEF u, t, rest, next
<1>6. Ordered(u)
  BY Zenon, <1>2, <1>3, <1>4 DEF Ordered
<1>7. Parsed(outcome) => routerOf(d, outcome) \in Router
  BY Zenon, <1>1, <1>3, RouterOfFresh DEF Fresh
<1>8. t \in Dir /\ Keeps(u, t)
  <2>1. CASE Parsed(outcome)
    BY Zenon, <1>2, <1>3, <1>5, <1>6, <1>7, <2>1, AddListed, AddFacts DEF Learned
  <2>2. CASE ~Parsed(outcome)
    BY Zenon, <1>3, <1>5, <1>6, <2>2, SameListed, MarkFacts
  <2> QED BY Zenon, <2>1, <2>2
<1>9. Keeps(s, t) /\ Keeps(s, RebuildStore(t))
  BY Zenon, <1>3, <1>6, <1>8, SameListed DEF Keeps
<1> QED BY Zenon, <1>5a, <1>9

\* A store that is rebuilt.
LEMMA CleanListed ==
    ASSUME DescriptorsInv, OldIsListed, NEW a \in Auths, CleanCaches(a)
    PROVE  \E t : dir' = [dir EXCEPT ![a] = t] /\ Keeps(dir[a], t)
<1>1. dir' = [dir EXCEPT ![a] = RebuildStore(dir[a])]
  BY Zenon DEF CleanCaches
<1>2. Keeps(dir[a], RebuildStore(dir[a]))
  BY Zenon, AuthOrdered, SameListed
<1> QED BY Zenon, <1>1, <1>2

\* An upload: a 200 is given only for a relay that is listed then.
LEMMA PostListed ==
    ASSUME DescriptorsInv, OldIsListed, NEW m \in posts, HandlePost(m)
    PROVE  \E t : /\ m.to \in Auths /\ dir' = [dir EXCEPT ![m.to] = t] /\ Keeps(dir[m.to], t)
                  /\ \A x \in replies' : x \in replies \/
                        (x.from = m.to /\ x.desc = m.desc /\ (x.status = 200 => t.routers[m.desc.relay] # None))
<1> DEFINE a == m.to  d == m.desc  s == dir[a]
           next(outcome, cosmetic) ==
               IF Parsed(outcome) THEN DirservAddDescriptor(a, s, routerOf(d, outcome), cosmetic) ELSE s
<1>1. PICK outcome \in {"VALID", "NULL", "bad"}, cosmetic \in BOOLEAN :
         /\ Parse(d, FALSE, outcome)
         /\ dir' = [dir EXCEPT ![a] = next(outcome, cosmetic)]
         /\ replies' = replies \cup
               {[from |-> a, desc |-> d, status |-> status(s, next(outcome, cosmetic), d, Parsed(outcome))]}
  BY Zenon DEF HandlePost
<1>2. a \in Auths /\ d \in Descriptor
  BY Zenon DEF DescriptorsInv, TypeOK
<1>3. s \in Dir /\ Ordered(s) /\ a \notin Caches
  BY Zenon, <1>2, AuthOrdered
<1> DEFINE t == next(outcome, cosmetic)  x == routerOf(d, outcome)
<1>4. t = IF Parsed(outcome) THEN DirservAddDescriptor(a, s, x, cosmetic) ELSE s
  BY Zenon
<1>5. x.desc = d /\ (Parsed(outcome) => x \in Router)
  <2>1. x.desc = d
    BY Zenon DEF routerOf
  <2> QED BY Zenon, <1>1, <1>2, <2>1, RouterOfFresh DEF Fresh
<1> HIDE DEF next, t, x
<1>6. Keeps(s, t) /\ (Parsed(outcome) => t.routers[d.relay] # None)
  <2>1. CASE Parsed(outcome) /\ t = AddToRouterlist(a, s, x, FALSE)
    BY Zenon, <1>3, <1>5, <2>1, AddListed
  <2>2. CASE Parsed(outcome) /\ t = MarkImpossible(s, d) /\ s.routers[d.relay] # None
    <3>1. Keeps(s, t)
      BY Zenon, <1>3, <2>2, SameListed
    <3> QED BY Zenon, <1>2, <2>2, <3>1 DEF Keeps, Descriptor
  <2>3. CASE ~Parsed(outcome)
    BY Zenon, <1>3, <1>4, <2>3, SameListed
  <2> QED BY Zenon, <1>4, <1>5, <2>1, <2>2, <2>3 DEF DirservAddDescriptor
<1>7. status(s, t, d, Parsed(outcome)) = 200 => t.routers[d.relay] # None
  <2>1. extrainfoResult(t, d) # "BAD_EI" => t.routers[d.relay] # None
    BY Zenon DEF extrainfoResult
  <2>2. ASSUME extrainfoResult(t, d) = "BAD_EI", ~Parsed(outcome)
        PROVE  status(s, t, d, Parsed(outcome)) = 400
    BY Zenon, <2>2 DEF status
  <2> QED BY <1>6, <2>1, <2>2
<1>8. \A y \in replies' : y \in replies \/
         (y.from = a /\ y.desc = d /\ (y.status = 200 => t.routers[d.relay] # None))
  BY <1>1, <1>7 DEF t
<1> QED BY Zenon, <1>1, <1>2, <1>6, <1>8 DEF t

\* The pair of invariants.
ListedInv == OldIsListed /\ AcceptedIsListed

\* The pair is kept if no authority loses a relay, and every new 200 and every
\* authority newly counted has a listed relay.
LEMMA ListedKept ==
    ASSUME DescriptorsInv, ListedInv, crashes' = crashes,
           \A a \in Auths : Keeps(dir[a], dir'[a]),
           \A m \in replies' : m \in replies \/ (m.status = 200 => dir'[m.from].routers[m.desc.relay] # None),
           \A r \in Relays : \A a \in accepted'[r] : a \in accepted[r] \/ dir'[a].routers[r] # None
    PROVE  ListedInv'
<1>1. OldIsListed'
  BY Zenon DEF OldIsListed, Keeps
<1>2. ASSUME crashes = 0, NEW m \in replies, m.status = 200 PROVE dir'[m.from].routers[m.desc.relay] # None
  <2>1. m.from \in Auths /\ m.desc.relay \in Relays
    BY Zenon DEF DescriptorsInv, TypeOK, Descriptor
  <2> QED BY <1>2, <2>1 DEF ListedInv, AcceptedIsListed, Keeps
<1>3. ASSUME crashes = 0, NEW r \in Relays, NEW a \in accepted[r] PROVE dir'[a].routers[r] # None
  <2>1. a \in Auths
    BY Zenon DEF DescriptorsInv, TypeOK
  <2> QED BY Zenon, <1>3, <2>1 DEF ListedInv, AcceptedIsListed, Keeps
<1>4. AcceptedIsListed'
  BY Zenon, <1>2, <1>3 DEF AcceptedIsListed
<1> QED BY Zenon, <1>1, <1>4 DEF ListedInv

\* A step of one authority.
LEMMA ListedAuth ==
    ASSUME DescriptorsInv, ListedInv, NEW a \in Auths, NEW t, dir' = [dir EXCEPT ![a] = t], Keeps(dir[a], t)
    PROVE  \A n \in Auths : Keeps(dir[n], dir'[n])
<1>1. dir'[a] = t /\ \A n \in Auths \ {a} : dir'[n] = dir[n]
  BY Zenon DEF DescriptorsInv, TypeOK, Dirs
<1> QED BY <1>1 DEF ListedInv, OldIsListed, Keeps

\* A server's step.
LEMMA ServerListed ==
    ASSUME DescriptorsInv, ListedInv, NEW n \in Dirs, Server(n)
    PROVE  ListedInv'
<1>1. replies' \subseteq replies /\ UNCHANGED accepted /\ crashes \in Nat
  BY Zenon DEF Server, Download, ReparseOld, Load, Restart, CleanCaches, relayVars, DescriptorsInv, TypeOK
<1>2. CASE Restart(n)
  <2>1. crashes' # 0
    BY <1>1, <1>2 DEF Restart
  <2>2. OldIsListed'
    <3> DEFINE restarted(store) == [EmptyDir EXCEPT !.store = store, !.fromStore = store,
                                                    !.journal = dir[n].journal, !.fromJournal = dir[n].journal]
    <3>0. PICK store \in storesLeft(dir[n]) : dir' = [dir EXCEPT ![n] = restarted(store)]
      BY Zenon, <1>2 DEF Restart
    <3>a. restarted(store).old = {}
      BY Zenon DEF EmptyDir
    <3> HIDE DEF restarted
    <3>1. PICK t : dir' = [dir EXCEPT ![n] = t] /\ t.old = {}
      BY Zenon, <3>0, <3>a
    <3>2. dir'[n] = t /\ \A a \in Auths \ {n} : dir'[a] = dir[a]
      BY Zenon, <3>1 DEF DescriptorsInv, TypeOK, Dirs
    <3> QED BY <3>1, <3>2 DEF ListedInv, OldIsListed
  <2> QED BY Zenon, <2>1, <2>2 DEF ListedInv, AcceptedIsListed
<1>3. CASE ~Restart(n)
  <2>1. crashes' = crashes
    BY Zenon, <1>3 DEF Server, Download, ReparseOld, Load, CleanCaches, backend
  <2>2. \A a \in Auths : Keeps(dir[a], dir'[a])
    <3>1. CASE n \in Auths
      <4>1. \A r \in Relays : ~ReparseOld(n, r)
        BY Zenon, <3>1, DirsAssumption DEF ReparseOld
      <4>2. PICK t : dir' = [dir EXCEPT ![n] = t] /\ Keeps(dir[n], t)
        BY Zenon, <1>3, <3>1, <4>1, DownloadListed, LoadListed, CleanListed DEF Server, ListedInv
      <4> QED BY Zenon, <3>1, <4>2, ListedAuth
    <3>2. CASE n \notin Auths
      <4>1. PICK t : ServerStep(n, t)
        BY Zenon, ServerInv
      <4>2. \A a \in Auths : dir'[a] = dir[a]
        BY Zenon, <3>2, <4>1 DEF ServerStep, DescriptorsInv, TypeOK, Dirs
      <4> QED BY Zenon, <4>2 DEF ListedInv, OldIsListed, Keeps
    <3> QED BY Zenon, <3>1, <3>2
  <2> QED BY Zenon, <1>1, <2>1, <2>2, ListedKept
<1> QED BY Zenon, <1>2, <1>3

\* A step with the connections.
LEMMA ConnectionListed ==
    ASSUME DescriptorsInv, ListedInv, Connection
    PROVE  ListedInv'
<1>1. ASSUME NEW m \in posts, HandlePost(m) PROVE ListedInv'
  <2>1. PICK t : /\ m.to \in Auths /\ dir' = [dir EXCEPT ![m.to] = t] /\ Keeps(dir[m.to], t)
                 /\ \A x \in replies' : x \in replies \/
                       (x.from = m.to /\ x.desc = m.desc /\ (x.status = 200 => t.routers[m.desc.relay] # None))
    BY Zenon, <1>1, PostListed DEF ListedInv
  <2>2. dir'[m.to] = t
    BY Zenon, <2>1 DEF DescriptorsInv, TypeOK, Dirs
  <2>3. \A a \in Auths : Keeps(dir[a], dir'[a])
    BY Zenon, <2>1, ListedAuth
  <2>4. UNCHANGED <<accepted, crashes>>
    BY Zenon, <1>1 DEF HandlePost, relayVars
  <2> QED BY Zenon, <2>1, <2>2, <2>3, <2>4, ListedKept
<1>2. ASSUME \/ \E m \in posts : LosePost(m)
             \/ \E m \in replies : LoseReply(m) \/ HandleResponseUploadDir(m)
      PROVE  ListedInv'
  <2>1. UNCHANGED <<dir, crashes>> /\ replies' \subseteq replies
    BY Zenon, <1>2 DEF LosePost, LoseReply, HandleResponseUploadDir
  <2>2. \A a \in Auths : Keeps(dir[a], dir'[a])
    BY Zenon, <2>1 DEF ListedInv, OldIsListed, Keeps
  <2>3. CASE UNCHANGED accepted
    BY Zenon, <2>1, <2>2, <2>3, ListedKept
  <2>4. CASE \E m \in replies : m.status = 200 /\ accepted' = [accepted EXCEPT ![m.desc.relay] = @ \cup {m.from}]
    <3>1. PICK m \in replies : m.status = 200 /\ accepted' = [accepted EXCEPT ![m.desc.relay] = @ \cup {m.from}]
      BY Zenon, <2>4
    <3>2. m.from \in Auths /\ m.desc.relay \in Relays /\ accepted \in [Relays -> SUBSET Auths]
      BY Zenon DEF DescriptorsInv, TypeOK, Descriptor
    <3>3. \A r \in Relays : \A a \in accepted'[r] : a \in accepted[r] \/ (a = m.from /\ r = m.desc.relay)
      BY <3>1, <3>2
    <3>4. OldIsListed'
      BY Zenon, <2>1 DEF ListedInv, OldIsListed
    <3>5. AcceptedIsListed'
      BY <2>1, <3>1, <3>3 DEF ListedInv, AcceptedIsListed
    <3> QED BY Zenon, <3>4, <3>5 DEF ListedInv
  <2> QED BY Zenon, <1>2, <2>3, <2>4 DEF LosePost, LoseReply, HandleResponseUploadDir, relayVars
<1> QED BY Zenon, <1>1, <1>2 DEF Connection

\* A relay's step: a new upload forgets who accepted the last one.
LEMMA RelayListed ==
    ASSUME DescriptorsInv, ListedInv, NEW r \in Relays, Relay(r)
    PROVE  ListedInv'
<1>1. UNCHANGED <<dir, replies, crashes>>
  BY Zenon DEF Relay, WriteProof, MarkMyDescriptorDirty, ConsiderPublishableServer
<1>2. accepted' = accepted \/ accepted' = [accepted EXCEPT ![r] = {}]
  BY Zenon DEF Relay, WriteProof, MarkMyDescriptorDirty, ConsiderPublishableServer,
               RebuildFails, Upload, PutOff
<1>3. \A q \in Relays : accepted'[q] \subseteq accepted[q]
  BY Zenon, <1>2 DEF DescriptorsInv, TypeOK
<1> QED BY Zenon, <1>1, <1>3 DEF ListedInv, OldIsListed, AcceptedIsListed

\* An authority answers 200 only for a relay that it lists.
THEOREM AcceptedListed == Spec => []AcceptedIsListed
<1>1. Init => ListedInv
  BY DEF Init, EmptyDir, Dirs, ListedInv, OldIsListed, AcceptedIsListed
<1>2. DescriptorsInv /\ ListedInv /\ [Next]_vars => ListedInv'
  <2> SUFFICES ASSUME DescriptorsInv, ListedInv, [Next]_vars PROVE ListedInv'
    BY Zenon
  <2>1. ASSUME UNCHANGED <<dir, replies, crashes, accepted>> PROVE ListedInv'
    BY Zenon, <2>1 DEF ListedInv, OldIsListed, AcceptedIsListed
  <2> QED BY Zenon, <2>1, RelayListed, ConnectionListed, ServerListed
          DEF Next, vars, Vote, StartMain, StopMain, RegisterUser, relayVars
<1>3. ListedInv => AcceptedIsListed
  BY Zenon DEF ListedInv
<1> QED BY <1>1, <1>2, <1>3, DescriptorsInvariance, PTL DEF Spec
=============================================================================
