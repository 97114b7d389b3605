-------------------------- MODULE VerifyCacheProofs --------------------------
(***************************************************************************)
(* For any number of recalls, facts, keys and store versions: a cached     *)
(* verification reaches the verdicts of a full one, and a saved sidecar    *)
(* belongs to the version it is stamped with.                              *)
(*                                                                         *)
(* The argument.  A digest is only ever made from a verdict just reached,  *)
(* and it binds everything the verdict depended on, so it stays true       *)
(* whatever happens to the store (DigestTrue).  Verification with a set of *)
(* true digests decides what verification without one does, and makes only *)
(* true digests.  What a recall saves is of the version it stamped, because*)
(* it saves only if the store has not moved on since (OfItsVersion).       *)
(***************************************************************************)
EXTENDS VerifyCache, TLAPS

(* The digest records what the public-key operation really says. *)
DigestTrue(d) == d.status = "valid" <=> SignatureHolds(d.sig, d.key, d.payload)

DigestsTrue ==
    /\ \A r \in Recalls : \A d \in run[r].digests \cup run[r].live : DigestTrue(d)
    /\ IsSidecar(sidecar) => \A d \in sidecar.digests : DigestTrue(d)

(* rpc and run are functions on Recalls. *)
Shape == /\ rpc = [r \in Recalls |-> rpc[r]]
         /\ run = [r \in Recalls |-> run[r]]

CInv == Shape /\ DigestsTrue /\ CacheDecidesNothing

(* A cached verification of one fact reaches the verdict of a full one. *)
LEMMA CachedIsFull ==
    ASSUME NEW s, NEW f, NEW k, NEW D, \A d \in D : DigestTrue(d)
    PROVE  VerifyCached(s, f, k, D) = Verify(s, f, k)
  <1> DEFINE sig == f.att.sig
             now == PayloadNow(s, f)
  <1>1. CASE ~ReachesSignature(f)
    BY <1>1 DEF VerifyCached
  <1>2. CASE ReachesSignature(f) /\ FactDigest(s, f, k, "valid") \in D
    <2>1. SignatureHolds(sig, k, now)
      BY <1>2 DEF FactDigest, DigestOf, DigestTrue
    <2>2. QED
      BY <1>2, <2>1 DEF VerifyCached, Verify, ReachesSignature
  <1>3. CASE /\ ReachesSignature(f)
             /\ FactDigest(s, f, k, "valid") \notin D
             /\ FactDigest(s, f, k, FailStatus(s, f)) \in D
    <2>1. FailStatus(s, f) # "valid"
      BY DEF FailStatus
    <2>2. ~SignatureHolds(sig, k, now)
      BY <1>3, <2>1 DEF FactDigest, DigestOf, DigestTrue
    <2>3. QED
      BY <1>3, <2>2 DEF VerifyCached, Verify, ReachesSignature
  <1>4. CASE /\ ReachesSignature(f)
             /\ FactDigest(s, f, k, "valid") \notin D
             /\ FactDigest(s, f, k, FailStatus(s, f)) \notin D
    BY <1>4 DEF VerifyCached
  <1>5. QED
    BY <1>1, <1>2, <1>3, <1>4

(* The digests a verification makes or uses are true. *)
LEMMA LiveTrue ==
    ASSUME NEW s, NEW k, NEW D, \A d \in D : DigestTrue(d)
    PROVE  \A d \in Live(s, k, D) : DigestTrue(d)
  <1> SUFFICES ASSUME NEW i \in Ids, ReachesSignature(s[i])
               PROVE  DigestTrue(FactDigest(s, s[i], k, VerifyCached(s, s[i], k, D)))
    BY DEF Live, Present
  <1> DEFINE f == s[i]
  <1>1. VerifyCached(s, f, k, D) = Verify(s, f, k)
    BY CachedIsFull
  <1>2. Verify(s, f, k) = "valid" <=> SignatureHolds(f.att.sig, k, PayloadNow(s, f))
    BY DEF Verify, ReachesSignature, FailStatus
  <1>3. QED
    BY <1>1, <1>2 DEF DigestTrue, FactDigest, DigestOf

-----------------------------------------------------------------------------
LEMMA InitCInv == Init => CInv
  <1> SUFFICES ASSUME Init PROVE CInv
    OBVIOUS
  <1>1. \A r \in Recalls : run[r] = Idle /\ rpc[r] = "idle"
    BY DEF Init
  <1>2. Shape
    BY <1>1 DEF Shape, Idle, Memory, Init
  <1>3. DigestsTrue
    BY <1>1 DEF DigestsTrue, Idle, Memory, IsSidecar, Init
  <1>4. CacheDecidesNothing
    BY <1>1 DEF CacheDecidesNothing
  <1>5. QED
    BY <1>2, <1>3, <1>4 DEF CInv

(* A recall that is over holds nothing. *)
LEMMA LeaveCInv ==
    ASSUME CInv, NEW r \in Recalls, Leave(r),
           IsSidecar(sidecar') => \A d \in sidecar'.digests : DigestTrue(d)
    PROVE  CInv'
  <1> USE DEF CInv, Leave, Goto, Holding
  <1>1. \A q \in Recalls : /\ run'[q] = IF q = r THEN Idle ELSE run[q]
                           /\ rpc'[q] = IF q = r THEN "idle" ELSE rpc[q]
    BY DEF Shape
  <1>2. Shape'
    BY <1>1 DEF Shape
  <1>3. DigestsTrue'
    BY <1>1 DEF DigestsTrue, Idle, Memory
  <1>4. CacheDecidesNothing'
    BY <1>1 DEF CacheDecidesNothing
  <1>5. QED
    BY <1>2, <1>3, <1>4

(* A recall moves on, with true digests in memory, and either it has not    *)
(* verified yet or its verdicts are those of a full verification.          *)
LEMMA MoveCInv ==
    ASSUME CInv, NEW r \in Recalls, NEW label, Goto(r, label),
           sidecar' = sidecar,
           NEW m, Holding(r, m),
           \A d \in m.digests \cup m.live : DigestTrue(d),
           \/ label \in {"stamped", "loaded"}
           \/ m.verdicts = [i \in Present(m.facts) |->
                              Verify(m.facts, m.facts[i], m.key)]
    PROVE  CInv'
  <1> USE DEF CInv, Goto, Holding
  <1>1. \A q \in Recalls : /\ run'[q] = IF q = r THEN m ELSE run[q]
                           /\ rpc'[q] = IF q = r THEN label ELSE rpc[q]
    BY DEF Shape
  <1>2. Shape'
    BY <1>1 DEF Shape
  <1>3. DigestsTrue'
    BY <1>1 DEF DigestsTrue
  <1>4. CacheDecidesNothing'
    BY <1>1 DEF CacheDecidesNothing
  <1>5. QED
    BY <1>2, <1>3, <1>4

LEMMA NextCInv ==
    ASSUME CInv, [Next]_vars
    PROVE  CInv'
  <1>0. /\ Shape /\ DigestsTrue /\ CacheDecidesNothing
    BY DEF CInv
  <1>1. ASSUME NEW r \in Recalls, StampStore(r)
        PROVE  CInv'
    <2> DEFINE m == Memory(Stamp, key, {}, {}, FALSE, None, None)
    <2>1. m.digests = {} /\ m.live = {}
      BY DEF Memory
    <2>2. Holding(r, m) /\ Goto(r, "stamped") /\ sidecar' = sidecar
      BY <1>1 DEF StampStore
    <2> HIDE DEF m
    <2>3. QED
      BY <2>1, <2>2, MoveCInv
  <1>2. ASSUME NEW r \in Recalls, LoadDigests(r)
        PROVE  CInv'
    <2> DEFINE ok == HeaderOK(run[r].key)
               D == IF ok THEN sidecar.digests ELSE {}
               m == Memory(run[r].stamp, run[r].key, D, {},
                           sidecar # None /\ (ok => sidecar.stamp # run[r].stamp),
                           None, None)
    <2>1. Holding(r, m) /\ Goto(r, "loaded") /\ sidecar' = sidecar
      BY <1>2 DEF LoadDigests
    <2>2. m.digests = D /\ m.live = {}
      BY DEF Memory
    <2>3. \A d \in D : DigestTrue(d)
      BY <1>0 DEF DigestsTrue, HeaderOK
    <2> HIDE DEF m, D
    <2>4. QED
      BY <2>1, <2>2, <2>3, MoveCInv
  <1>3. ASSUME NEW r \in Recalls, VerifyStore(r)
        PROVE  CInv'
    <2> DEFINE D == run[r].digests
               L == Live(store, run[r].key, D)
               v == [i \in Present(store) |->
                        VerifyCached(store, store[i], run[r].key, D)]
               m == Memory(run[r].stamp, run[r].key, D \cup L, L,
                           run[r].dirty \/ ~(L \subseteq D), store, v)
    <2>1. Holding(r, m) /\ Goto(r, "verified") /\ sidecar' = sidecar
      BY <1>3 DEF VerifyStore
    <2>2. /\ m.digests = D \cup L
          /\ m.live = L
          /\ m.key = run[r].key
          /\ m.facts = store
          /\ m.verdicts = v
      BY DEF Memory
    <2>3. \A d \in D : DigestTrue(d)
      BY <1>0 DEF DigestsTrue
    <2>4. \A d \in L : DigestTrue(d)
      BY <2>3, LiveTrue
    <2>5. v = [i \in Present(store) |-> Verify(store, store[i], run[r].key)]
      BY <2>3, CachedIsFull
    <2> HIDE DEF m, D, L, v
    <2>6. QED
      BY <2>1, <2>2, <2>3, <2>4, <2>5, MoveCInv
  <1>4. ASSUME NEW r \in Recalls, StartSave(r)
        PROVE  CInv'
    <2>1. Holding(r, run[r])
      BY <1>0, <1>4 DEF StartSave, Shape, Holding
    <2>2. run[r].verdicts = [i \in Present(run[r].facts) |->
                               Verify(run[r].facts, run[r].facts[i], run[r].key)]
      BY <1>0, <1>4 DEF StartSave, CacheDecidesNothing
    <2>3. \A d \in run[r].digests \cup run[r].live : DigestTrue(d)
      BY <1>0 DEF DigestsTrue
    <2>4. QED
      BY <1>0, <1>4, <2>1, <2>2, <2>3, MoveCInv DEF StartSave, Shape
  <1>5. ASSUME NEW r \in Recalls, MergePeers(r)
        PROVE  CInv'
    <2> DEFINE D == run[r].live \cup
                       (IF HeaderOK(run[r].key) /\ sidecar.stamp = run[r].stamp
                        THEN sidecar.digests ELSE {})
               m == Memory(run[r].stamp, run[r].key, D, run[r].live,
                           run[r].dirty, run[r].facts, run[r].verdicts)
    <2>1. Holding(r, m) /\ Goto(r, "merged") /\ sidecar' = sidecar
      BY <1>5 DEF MergePeers
    <2>2. /\ m.digests = D
          /\ m.live = run[r].live
          /\ m.key = run[r].key
          /\ m.facts = run[r].facts
          /\ m.verdicts = run[r].verdicts
      BY DEF Memory
    <2>3. \A d \in D \cup run[r].live : DigestTrue(d)
      BY <1>0 DEF DigestsTrue, HeaderOK
    <2>4. run[r].verdicts = [i \in Present(run[r].facts) |->
                               Verify(run[r].facts, run[r].facts[i], run[r].key)]
      BY <1>0, <1>5 DEF MergePeers, CacheDecidesNothing
    <2> HIDE DEF m, D
    <2>5. QED
      BY <2>1, <2>2, <2>3, <2>4, MoveCInv
  <1>6. ASSUME NEW r \in Recalls, CheckStamp(r)
        PROVE  CInv'
    <2>1. CASE Stamp = run[r].stamp
      <3>1. Holding(r, run[r])
        BY <1>0, <1>6, <2>1 DEF CheckStamp, Shape, Holding
      <3>2. run[r].verdicts = [i \in Present(run[r].facts) |->
                                 Verify(run[r].facts, run[r].facts[i], run[r].key)]
        BY <1>0, <1>6 DEF CheckStamp, CacheDecidesNothing
      <3>3. \A d \in run[r].digests \cup run[r].live : DigestTrue(d)
        BY <1>0 DEF DigestsTrue
      <3>4. QED
        BY <1>0, <1>6, <2>1, <3>1, <3>2, <3>3, MoveCInv DEF CheckStamp, Shape
    <2>2. CASE Stamp # run[r].stamp
      BY <1>0, <1>6, <2>2, LeaveCInv DEF CheckStamp, DigestsTrue
    <2>3. QED
      BY <2>1, <2>2
  <1>7. ASSUME NEW r \in Recalls, ReplaceSidecar(r)
        PROVE  CInv'
    <2>1. \A d \in sidecar'.digests : DigestTrue(d)
      BY <1>0, <1>7 DEF ReplaceSidecar, DigestsTrue
    <2>2. QED
      BY <1>7, <2>1, LeaveCInv DEF ReplaceSidecar
  <1>8. ASSUME NEW r \in Recalls, SkipSave(r) \/ Kill(r)
        PROVE  CInv'
    BY <1>0, <1>8, LeaveCInv DEF SkipSave, Kill, DigestsTrue
  <1>9. ASSUME UNCHANGED <<rpc, run>>, sidecar' \in {sidecar, None, Unreadable}
        PROVE  CInv'
    BY <1>0, <1>9 DEF CInv, Shape, DigestsTrue, CacheDecidesNothing,
       IsSidecar
  <1>10. ASSUME StoreStep \/ UNCHANGED vars
         PROVE  UNCHANGED <<rpc, run>> /\ sidecar' \in {sidecar, None, Unreadable}
    BY <1>10 DEF StoreStep, Alter, PutSigned, RemoveFact, SignStore, Rewrite,
       UnlinkSidecar, SpoilSidecar, ReplaceKey, vars
  <1>11. QED
    BY <1>1, <1>2, <1>3, <1>4, <1>5, <1>6, <1>7, <1>8, <1>9, <1>10
       DEF Next, RecallStep

(* Every recall reaches the verdicts of a full verification, whatever other *)
(* recalls saved before it and whatever the store was then (verify_fact,   *)
(* _cached_signature_status).                                              *)
THEOREM CacheSound == Spec => []CacheDecidesNothing
  <1>1. CInv /\ [Next]_vars => CInv'
    BY NextCInv
  <1>2. CInv => CacheDecidesNothing
    BY DEF CInv
  <1>3. QED
    BY InitCInv, <1>1, <1>2, PTL DEF Spec

-----------------------------------------------------------------------------
(* What is saved is of the version it is stamped with.  A recall may verify *)
(* a newer version than it stamped; it goes on to save only if the store   *)
(* still is at its stamp, and versions are never taken back, so then it    *)
(* verified the version it stamped (OfItsVersion).                         *)

VersionsOK == versions \in Seq(Store) /\ key \in Keys /\ Stamp \in Nat \ {0}

OfItsVersion(r) ==
    /\ rpc[r] # "idle" => run[r].stamp \in 1..Stamp
    /\ \/ rpc[r] = "verified" /\ run[r].stamp = Stamp
       \/ rpc[r] \in {"saving", "merged", "replacing"}
       => run[r].live \subseteq DigestsOfVersion(run[r].stamp, run[r].key)
    /\ rpc[r] \in {"merged", "replacing"} =>
          run[r].digests \subseteq DigestsOfVersion(run[r].stamp, run[r].key)

SInv ==
    /\ CInv
    /\ VersionsOK
    /\ \A r \in Recalls : OfItsVersion(r)
    /\ IsSidecar(sidecar) => sidecar.stamp \in 1..Stamp
    /\ SidecarOfItsVersion

(* Verification with true digests hits or makes those it makes without.     *)
LEMMA LiveOfStore ==
    ASSUME NEW s, NEW k, NEW D, \A d \in D : DigestTrue(d)
    PROVE  Live(s, k, D) = Live(s, k, {})
  <1>1. \A f : VerifyCached(s, f, k, D) = VerifyCached(s, f, k, {})
    BY CachedIsFull
  <1>2. QED
    BY <1>1 DEF Live

-----------------------------------------------------------------------------
(* attest_fact makes an attestation. *)
LEMMA AttestType ==
    ASSUME NEW s \in Store, NEW core \in Cores, NEW ps \in SUBSET Ids, NEW k \in Keys
    PROVE  Attest(s, core, ps, k) \in Attested
  <1>1. ParentCores(s, ps) \in [ps -> Cores \cup {None}]
    BY DEF ParentCores, Store, Fact
  <1>2. SignedPayload(s, core, ps) \in [core : Cores, parents : [ps -> Cores \cup {None}]]
    BY <1>1 DEF SignedPayload
  <1>3. SignedPayload(s, core, ps) \in Payload
    BY <1>2 DEF Payload
  <1>4. QED
    BY <1>3 DEF Attest, Attested, Signature

LEMMA ParentsType ==
    ASSUME NEW f \in Fact
    PROVE  ParentsOf(f) \in SUBSET Ids
  BY DEF ParentsOf, Fact, Attested

(* sign_facts leaves a store. *)
LEMMA SignAllType ==
    ASSUME NEW s \in Store, NEW k \in Keys
    PROVE  SignAll(s, k) \in Store
  <1>1. ASSUME NEW i \in Ids, s[i] # None
        PROVE  [s[i] EXCEPT !.att = Attest(s, s[i].core, ParentsOf(s[i]), k)] \in Fact
    <2>1. s[i] \in Fact
      BY <1>1 DEF Store
    <2>2. Attest(s, s[i].core, ParentsOf(s[i]), k) \in Attested
      BY <2>1, AttestType, ParentsType DEF Fact
    <2>3. QED
      BY <2>1, <2>2 DEF Fact
  <1>2. QED
    BY <1>1 DEF SignAll, Store

(* A store is signed when its facts are. *)
LEMMA SignedStoreType ==
    ASSUME NEW k \in Keys, NEW cores \in [Ids -> Cores], NEW parents \in [Ids -> SUBSET Ids]
    PROVE  SignedStore(k, cores, parents) \in Store
  <1> DEFINE unsigned == [i \in Ids |-> [core |-> cores[i], att |-> None]]
  <1>1. unsigned \in Store
    BY DEF Store, Fact
  <1>2. \A i \in Ids : Attest(unsigned, cores[i], parents[i], k) \in Attested
    BY <1>1, AttestType
  <1>3. QED
    BY <1>2 DEF SignedStore, Store, Fact

-----------------------------------------------------------------------------
LEMMA InitSInv == Init => SInv
  <1> SUFFICES ASSUME Init PROVE SInv
    OBVIOUS
  <1>1. PICK cores \in [Ids -> Cores], parents \in [Ids -> SUBSET Ids] :
           versions = <<SignedStore(key, cores, parents)>>
    BY DEF Init
  <1>2. SignedStore(key, cores, parents) \in Store
    BY SignedStoreType DEF Init
  <1>3. VersionsOK
    BY <1>1, <1>2 DEF VersionsOK, Stamp, Init
  <1>4. \A r \in Recalls : OfItsVersion(r)
    BY DEF Init, OfItsVersion
  <1>5. QED
    BY <1>3, <1>4, InitCInv DEF SInv, Init, IsSidecar, SidecarOfItsVersion

(* What was said of the versions so far is true with one more. *)
LEMMA OneMoreVersion ==
    ASSUME SInv, NEW s \in Store, Rewrite(s)
    PROVE  SInv'
  <1>1. /\ VersionsOK'
        /\ Stamp' = Stamp + 1
        /\ \A n \in 1..Stamp : versions'[n] = versions[n]
    BY DEF SInv, VersionsOK, Rewrite, Stamp
  <1>2. \A n \in 1..Stamp : \A k : DigestsOfVersion(n, k)' = DigestsOfVersion(n, k)
    BY <1>1 DEF DigestsOfVersion
  <1>3. CInv'
    BY DEF SInv, CInv, Rewrite, Shape, DigestsTrue, CacheDecidesNothing
  <1>4. ASSUME NEW r \in Recalls
        PROVE  OfItsVersion(r)'
    <2>1. OfItsVersion(r)
      BY DEF SInv
    <2>2. run' = run /\ rpc' = rpc /\ Stamp \in Nat
      BY DEF Rewrite, SInv, VersionsOK
    <2>3. rpc[r] # "idle" => run[r].stamp # Stamp' /\ run[r].stamp \in 1..Stamp'
      BY <1>1, <2>1, <2>2 DEF OfItsVersion
    <2>4. rpc[r] # "idle" => \A k : DigestsOfVersion(run[r].stamp, k)'
                                      = DigestsOfVersion(run[r].stamp, k)
      BY <1>1, <2>1, <2>2 DEF OfItsVersion, DigestsOfVersion
    <2>5. QED
      BY <2>1, <2>2, <2>3, <2>4 DEF OfItsVersion
  <1>5. (IsSidecar(sidecar) => sidecar.stamp \in 1..Stamp)' /\ SidecarOfItsVersion'
    BY <1>1, <1>2 DEF SInv, SidecarOfItsVersion, IsSidecar, Rewrite, VersionsOK
  <1>6. QED
    BY <1>1, <1>3, <1>4, <1>5 DEF SInv

(* A recall moves and no file changes. *)
LEMMA RecallMoves ==
    ASSUME SInv, CInv', NEW r \in Recalls, UNCHANGED <<versions, key, sidecar>>,
           \A q \in Recalls \ {r} : run'[q] = run[q] /\ rpc'[q] = rpc[q],
           OfItsVersion(r)'
    PROVE  SInv'
  <1>1. Stamp' = Stamp /\ \A n, k : DigestsOfVersion(n, k)' = DigestsOfVersion(n, k)
    BY DEF Stamp, DigestsOfVersion
  <1>2. \A q \in Recalls : OfItsVersion(q)'
    BY <1>1 DEF SInv, OfItsVersion
  <1>3. QED
    BY <1>1, <1>2 DEF SInv, VersionsOK, SidecarOfItsVersion, IsSidecar

(* The same, of a step that gives recall r the memory m at the place label. *)
LEMMA RecallHolds ==
    ASSUME SInv, CInv', NEW r \in Recalls, UNCHANGED <<versions, key, sidecar>>,
           NEW label, Goto(r, label), NEW m, Holding(r, m),
           label # "idle" => m.stamp \in 1..Stamp,
           \/ label = "verified" /\ m.stamp = Stamp
           \/ label \in {"saving", "merged", "replacing"}
           => m.live \subseteq DigestsOfVersion(m.stamp, m.key),
           label \in {"merged", "replacing"} =>
              m.digests \subseteq DigestsOfVersion(m.stamp, m.key)
    PROVE  SInv'
  <1>1. \A q \in Recalls : /\ run'[q] = IF q = r THEN m ELSE run[q]
                           /\ rpc'[q] = IF q = r THEN label ELSE rpc[q]
    BY DEF Goto, Holding, SInv, CInv, Shape
  <1>2. Stamp' = Stamp /\ \A n, k : DigestsOfVersion(n, k)' = DigestsOfVersion(n, k)
    BY DEF Stamp, DigestsOfVersion
  <1>3. OfItsVersion(r)'
    BY <1>1, <1>2 DEF OfItsVersion
  <1>4. QED
    BY <1>1, <1>3, RecallMoves

LEMMA NextSInv ==
    ASSUME SInv, [Next]_vars
    PROVE  SInv'
  <1>0. /\ CInv' /\ Shape /\ DigestsTrue /\ VersionsOK
        /\ \A r \in Recalls : OfItsVersion(r)
    BY NextCInv DEF SInv, CInv
  <1>1. ASSUME NEW r \in Recalls, StampStore(r)
        PROVE  SInv'
    <2> DEFINE m == Memory(Stamp, key, {}, {}, FALSE, None, None)
    <2>1. m.stamp \in 1..Stamp
      BY <1>0 DEF Memory, VersionsOK
    <2>2. Goto(r, "stamped") /\ Holding(r, m) /\ UNCHANGED <<versions, key, sidecar>>
      BY <1>1 DEF StampStore
    <2> HIDE DEF m
    <2>3. QED
      BY <1>0, <2>1, <2>2, RecallHolds
  <1>2. ASSUME NEW r \in Recalls, LoadDigests(r)
        PROVE  SInv'
    <2>1. PICK m : /\ Goto(r, "loaded") /\ Holding(r, m) /\ m.stamp = run[r].stamp
                   /\ UNCHANGED <<versions, key, sidecar>>
      BY <1>2 DEF LoadDigests, Memory
    <2>2. m.stamp \in 1..Stamp
      BY <1>0, <1>2, <2>1 DEF LoadDigests, OfItsVersion
    <2>3. QED
      BY <1>0, <2>1, <2>2, RecallHolds
  <1>3. ASSUME NEW r \in Recalls, VerifyStore(r)
        PROVE  SInv'
    <2>1. PICK m : /\ Goto(r, "verified") /\ Holding(r, m)
                   /\ m.stamp = run[r].stamp /\ m.key = run[r].key
                   /\ m.live = Live(store, run[r].key, run[r].digests)
                   /\ UNCHANGED <<versions, key, sidecar>>
      BY <1>3 DEF VerifyStore, Memory
    <2>2. m.stamp \in 1..Stamp
      BY <1>0, <1>3, <2>1 DEF VerifyStore, OfItsVersion
    <2>3. \A d \in run[r].digests : DigestTrue(d)
      BY <1>0 DEF DigestsTrue
    <2>4. Live(store, run[r].key, run[r].digests) = DigestsOfVersion(Stamp, run[r].key)
      BY <2>3, LiveOfStore DEF DigestsOfVersion, store
    <2>5. QED
      BY <1>0, <2>1, <2>2, <2>4, RecallHolds
  <1>4. ASSUME NEW r \in Recalls, StartSave(r)
        PROVE  SInv'
    <2>1. Holding(r, run[r]) /\ Goto(r, "saving") /\ UNCHANGED <<versions, key, sidecar>>
      BY <1>0, <1>4 DEF StartSave, Shape, Holding
    <2>2. /\ run[r].stamp \in 1..Stamp
          /\ run[r].live \subseteq DigestsOfVersion(run[r].stamp, run[r].key)
      BY <1>0, <1>4 DEF StartSave, OfItsVersion
    <2>3. QED
      BY <1>0, <2>1, <2>2, RecallHolds
  <1>5. ASSUME NEW r \in Recalls, MergePeers(r)
        PROVE  SInv'
    <2> DEFINE peers == IF HeaderOK(run[r].key) /\ sidecar.stamp = run[r].stamp
                        THEN sidecar.digests ELSE {}
    <2>1. PICK m : /\ Goto(r, "merged") /\ Holding(r, m)
                   /\ m.stamp = run[r].stamp /\ m.key = run[r].key
                   /\ m.live = run[r].live /\ m.digests = run[r].live \cup peers
                   /\ UNCHANGED <<versions, key, sidecar>>
      BY <1>5 DEF MergePeers, Memory
    <2>2. peers \subseteq DigestsOfVersion(run[r].stamp, run[r].key)
      BY DEF HeaderOK, SInv, SidecarOfItsVersion
    <2>3. /\ run[r].stamp \in 1..Stamp
          /\ run[r].live \subseteq DigestsOfVersion(run[r].stamp, run[r].key)
      BY <1>0, <1>5 DEF MergePeers, OfItsVersion
    <2>4. QED
      BY <1>0, <2>1, <2>2, <2>3, RecallHolds
  <1>6. ASSUME NEW r \in Recalls, CheckStamp(r), Stamp = run[r].stamp
        PROVE  SInv'
    <2>1. Holding(r, run[r]) /\ Goto(r, "replacing") /\ UNCHANGED <<versions, key, sidecar>>
      BY <1>0, <1>6 DEF CheckStamp, Shape, Holding
    <2>2. /\ run[r].stamp \in 1..Stamp
          /\ run[r].live \subseteq DigestsOfVersion(run[r].stamp, run[r].key)
          /\ run[r].digests \subseteq DigestsOfVersion(run[r].stamp, run[r].key)
      BY <1>0, <1>6 DEF CheckStamp, OfItsVersion
    <2>3. QED
      BY <1>0, <2>1, <2>2, RecallHolds
  <1>7. ASSUME NEW r \in Recalls, ReplaceSidecar(r)
        PROVE  SInv'
    <2>1. /\ run[r].stamp \in 1..Stamp
          /\ run[r].digests \subseteq DigestsOfVersion(run[r].stamp, run[r].key)
      BY <1>0, <1>7 DEF ReplaceSidecar, OfItsVersion
    <2>2. Stamp' = Stamp /\ \A n, k : DigestsOfVersion(n, k)' = DigestsOfVersion(n, k)
      BY <1>7 DEF ReplaceSidecar, Stamp, DigestsOfVersion
    <2>3. SidecarOfItsVersion' /\ (IsSidecar(sidecar) => sidecar.stamp \in 1..Stamp)'
      BY <1>7, <2>1, <2>2 DEF ReplaceSidecar, SidecarOfItsVersion
    <2>4. \A q \in Recalls : /\ run'[q] = IF q = r THEN Idle ELSE run[q]
                             /\ rpc'[q] = IF q = r THEN "idle" ELSE rpc[q]
      BY <1>0, <1>7 DEF ReplaceSidecar, Leave, Goto, Holding, Shape
    <2>5. \A q \in Recalls : OfItsVersion(q)'
      BY <1>0, <2>2, <2>4 DEF OfItsVersion
    <2>6. QED
      BY <1>0, <1>7, <2>2, <2>3, <2>5 DEF SInv, VersionsOK, ReplaceSidecar
  <1>8. ASSUME NEW r \in Recalls,
               \/ SkipSave(r) \/ Kill(r)
               \/ CheckStamp(r) /\ Stamp # run[r].stamp
        PROVE  SInv'
    <2>1. Goto(r, "idle") /\ Holding(r, Idle) /\ UNCHANGED <<versions, key, sidecar>>
      BY <1>8 DEF SkipSave, Kill, CheckStamp, Leave
    <2>2. QED
      BY <1>0, <2>1, RecallHolds
  <1>9. ASSUME UNCHANGED <<versions, rpc, run>>, key' \in Keys,
               sidecar' \in {sidecar, None, Unreadable}
        PROVE  SInv'
    <2>1. Stamp' = Stamp /\ \A n, k : DigestsOfVersion(n, k)' = DigestsOfVersion(n, k)
      BY <1>9 DEF Stamp, DigestsOfVersion
    <2>2. \A r \in Recalls : OfItsVersion(r)'
      BY <1>0, <1>9, <2>1 DEF OfItsVersion
    <2>3. QED
      BY <1>0, <1>9, <2>1, <2>2 DEF SInv, VersionsOK, SidecarOfItsVersion, IsSidecar
  <1>10. ASSUME StoreStep
         PROVE  \/ \E s \in Store : Rewrite(s)
                \/ /\ UNCHANGED <<versions, rpc, run>> /\ key' \in Keys
                   /\ sidecar' \in {sidecar, None, Unreadable}
    <2>1. store \in Store /\ key \in Keys
      BY <1>0 DEF VersionsOK, store, Stamp
    <2>2. ASSUME NEW i \in Ids, NEW core \in Cores, Alter(i, core)
          PROVE  \E s \in Store : Rewrite(s)
      <3>1. store[i] \in Fact
        BY <2>1, <2>2 DEF Alter, Store
      <3>2. [store EXCEPT ![i].core = core] \in Store
        BY <2>1, <3>1 DEF Store, Fact
      <3>3. QED
        BY <2>2, <3>2 DEF Alter
    <2>3. ASSUME NEW i \in Ids, NEW core \in Cores, NEW ps \in SUBSET (Ids \ {i}),
                 PutSigned(i, core, ps)
          PROVE  \E s \in Store : Rewrite(s)
      <3>1. [core |-> core, att |-> Attest(store, core, ps, key)] \in Fact
        BY <2>1, AttestType DEF Fact
      <3>2. [store EXCEPT ![i] = [core |-> core, att |-> Attest(store, core, ps, key)]]
               \in Store
        BY <2>1, <3>1 DEF Store
      <3>3. QED
        BY <2>3, <3>2 DEF PutSigned
    <2>4. ASSUME NEW i \in Ids, RemoveFact(i)
          PROVE  \E s \in Store : Rewrite(s)
      <3>1. [store EXCEPT ![i] = None] \in Store
        BY <2>1 DEF Store
      <3>2. QED
        BY <2>4, <3>1 DEF RemoveFact
    <2>5. ASSUME SignStore
          PROVE  \E s \in Store : Rewrite(s)
      BY <2>1, <2>5, SignAllType DEF SignStore
    <2>6. QED
      BY <1>10, <2>1, <2>2, <2>3, <2>4, <2>5
         DEF StoreStep, UnlinkSidecar, SpoilSidecar, ReplaceKey
  <1>11. CASE UNCHANGED vars
    BY <1>0, <1>9, <1>11 DEF vars, VersionsOK
  <1>12. QED
    BY <1>1, <1>2, <1>3, <1>4, <1>5, <1>6, <1>7, <1>8, <1>9, <1>10, <1>11, OneMoreVersion
       DEF Next, RecallStep

(* A saved sidecar holds digests of the facts of the version it is stamped  *)
(* with and of no other, however recalls and rewrites interleave           *)
(* (VerifyCache.save, _peer_digests).                                      *)
THEOREM SidecarOwn == Spec => []SidecarOfItsVersion
  <1>1. SInv /\ [Next]_vars => SInv'
    BY NextSInv
  <1>2. SInv => SidecarOfItsVersion
    BY DEF SInv
  <1>3. QED
    BY InitSInv, <1>1, <1>2, PTL DEF Spec
=============================================================================
