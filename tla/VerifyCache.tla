----------------------------- MODULE VerifyCache -----------------------------
(***************************************************************************)
(* The cache of verified signatures beside facts.json (bin/_verify_cache   *)
(* and its use in bin/_sign.py).  Recalls run at the same time as each     *)
(* other and as the tools that rewrite the store; nobody takes a lock.     *)
(* A recall stamps the store, loads the sidecar, reads the store, verifies *)
(* every fact with the digests it loaded, and saves what it used.          *)
(*                                                                         *)
(* A stamp (mtime and size) is the number of the store's version: two      *)
(* versions never have the same stamp.  A digest is the determination it   *)
(* is the MAC of, made with the key in use.  The sidecar's directory is    *)
(* writable; a temporary file left by a kill is not modelled.              *)
(***************************************************************************)
EXTENDS Attestation, Naturals, Sequences

CONSTANTS
    Recalls,        \* recall processes
    Unreadable,     \* a sidecar that cannot be parsed, or of another version
    MaxVersions,    \* bound of the model: versions of the store
    MaxSpoils       \* bound of the model: sidecars spoiled, keys replaced

ASSUME CacheAssumption == /\ MaxVersions \in Nat \ {0}
                          /\ MaxSpoils \in Nat

VARIABLES
    versions,   \* every version of facts.json, the last one is on disk
    key,        \* the verification key
    sidecar,    \* facts.json.verified-cache.json: None, Unreadable or a record
    rpc,        \* rpc[r]: where recall r is
    run,        \* run[r]: what r holds in memory
    spoils      \* spoiled sidecars and replaced keys so far

vars == <<versions, key, sidecar, rpc, run, spoils>>

Stamp == Len(versions)
store == versions[Stamp]

-----------------------------------------------------------------------------
(* Slip: a verdict is not bound into its digest. *)
DigestOfProof(k, sig, payload, status) ==
    [key |-> k, sig |-> sig, payload |-> payload, status |-> "valid"]

(* cache_digest: one determination of the public-key operation. *)
DigestOf(k, sig, payload, status) ==
    [key |-> k, sig |-> sig, payload |-> payload, status |-> status]

FactDigest(s, f, k, status) == DigestOf(k, f.att.sig, PayloadNow(s, f), status)

(* _cached_signature_status, with the checks of verify_fact before it. *)
VerifyCached(s, f, k, digests) ==
    IF ~ReachesSignature(f) THEN Verify(s, f, k)
    ELSE IF FactDigest(s, f, k, "valid") \in digests THEN "valid"
    ELSE IF FactDigest(s, f, k, FailStatus(s, f)) \in digests THEN FailStatus(s, f)
    ELSE Verify(s, f, k)

Present(s) == {i \in Ids : s[i] # None}

(* The digests hit or added while a store is verified. *)
Live(s, k, digests) ==
    {FactDigest(s, s[i], k, VerifyCached(s, s[i], k, digests)) :
        i \in {j \in Present(s) : ReachesSignature(s[j])}}

-----------------------------------------------------------------------------
(* What a recall holds: the stamp it took, the key, the digests it may hit, *)
(* those it hit or added, whether it has news, the facts it read, and the  *)
(* verdicts it reached.                                                    *)
Memory(stamp, k, digests, live, dirty, facts, verdicts) ==
    [stamp |-> stamp, key |-> k, digests |-> digests, live |-> live,
     dirty |-> dirty, facts |-> facts, verdicts |-> verdicts]

Holding(r, m) == run' = [run EXCEPT ![r] = m]

Idle == Memory(0, None, {}, {}, FALSE, None, None)

VTypeOK ==
    /\ versions \in Seq(Store) /\ Stamp \in 1..MaxVersions
    /\ key \in Keys
    /\ \/ sidecar \in {None, Unreadable}
       \/ /\ sidecar.key \in Keys
          /\ sidecar.stamp \in 1..Stamp
          /\ \A d \in sidecar.digests : d.sig.payload \in Payload
    /\ rpc \in [Recalls -> {"idle", "stamped", "loaded", "verified", "saving",
                            "merged", "replacing"}]
    /\ \A r \in Recalls : rpc[r] # "idle" => run[r].stamp \in 1..Stamp
    /\ spoils \in 0..MaxSpoils

(* A store of which every fact was signed with k. *)
SignedStore(k, cores, parents) ==
    LET unsigned == [i \in Ids |-> [core |-> cores[i], att |-> None]]
    IN  [i \in Ids |-> [core |-> cores[i],
                       att |-> Attest(unsigned, cores[i], parents[i], k)]]

Init ==
    /\ key \in Keys
    /\ \E cores \in [Ids -> Cores], parents \in [Ids -> SUBSET Ids] :
          /\ \A i \in Ids : i \notin parents[i]
          /\ versions = <<SignedStore(key, cores, parents)>>
    /\ sidecar = None
    /\ rpc = [r \in Recalls |-> "idle"]
    /\ run = [r \in Recalls |-> Idle]
    /\ spoils = 0

-----------------------------------------------------------------------------
(* One recall. *)

Goto(r, label) == rpc' = [rpc EXCEPT ![r] = label]

Leave(r) == Goto(r, "idle") /\ Holding(r, Idle)

(* load_for_store stamps the store first. *)
StampStore(r) ==
    /\ rpc[r] = "idle"
    /\ Holding(r, Memory(Stamp, key, {}, {}, FALSE, None, None))
    /\ Goto(r, "stamped")
    /\ UNCHANGED <<versions, key, sidecar, spoils>>

IsSidecar(s) == s \notin {None, Unreadable}

HeaderOK(k) == IsSidecar(sidecar) /\ sidecar.key = k

(* _load_digests: a digest outlives the version it was found in; a sidecar *)
(* that is no sidecar of this key is replaced.                             *)
LoadDigests(r) ==
    /\ rpc[r] = "stamped"
    /\ LET m == run[r]
           ok == HeaderOK(m.key)
       IN  Holding(r, Memory(m.stamp, m.key,
                             IF ok THEN sidecar.digests ELSE {}, {},
                             sidecar # None /\ (ok => sidecar.stamp # m.stamp),
                             None, None))
    /\ Goto(r, "loaded")
    /\ UNCHANGED <<versions, key, sidecar, spoils>>

(* The store is read, maybe a newer version, and verified in memory. *)
VerifyStore(r) ==
    /\ rpc[r] = "loaded"
    /\ LET m == run[r]
           live == Live(store, m.key, m.digests)
           verdicts == [i \in Present(store) |->
                           VerifyCached(store, store[i], m.key, m.digests)]
       IN  Holding(r, Memory(m.stamp, m.key, m.digests \cup live, live,
                             m.dirty \/ ~(live \subseteq m.digests),
                             store, verdicts))
    /\ Goto(r, "verified")
    /\ UNCHANGED <<versions, key, sidecar, spoils>>

(* save: nothing new to tell, or the store has moved on. *)
SkipSave(r) ==
    /\ rpc[r] = "verified"
    /\ ~run[r].dirty \/ Stamp # run[r].stamp
    /\ Leave(r)
    /\ UNCHANGED <<versions, key, sidecar, spoils>>

StartSave(r) ==
    /\ rpc[r] = "verified"
    /\ run[r].dirty
    /\ Stamp = run[r].stamp
    /\ Goto(r, "saving")
    /\ UNCHANGED <<versions, key, sidecar, run, spoils>>

(* Slip: the digests of any version are kept. *)
MergeAnyPeers(r) ==
    /\ rpc[r] = "saving"
    /\ LET m == run[r]
           peers == IF HeaderOK(m.key) THEN sidecar.digests ELSE {}
       IN  Holding(r, Memory(m.stamp, m.key, m.live \cup peers, m.live, m.dirty,
                             m.facts, m.verdicts))
    /\ Goto(r, "merged")
    /\ UNCHANGED <<versions, key, sidecar, spoils>>

(* _peer_digests: what others have saved for the same version is kept. *)
MergePeers(r) ==
    /\ rpc[r] = "saving"
    /\ LET m == run[r]
           peers == IF HeaderOK(m.key) /\ sidecar.stamp = m.stamp
                    THEN sidecar.digests ELSE {}
       IN  Holding(r, Memory(m.stamp, m.key, m.live \cup peers, m.live, m.dirty,
                             m.facts, m.verdicts))
    /\ Goto(r, "merged")
    /\ UNCHANGED <<versions, key, sidecar, spoils>>

(* secure_write_json_atomic: before_replace, then os.replace. *)
CheckStamp(r) ==
    /\ rpc[r] = "merged"
    /\ IF Stamp = run[r].stamp THEN Goto(r, "replacing") /\ UNCHANGED run
                               ELSE Leave(r)
    /\ UNCHANGED <<versions, key, sidecar, spoils>>

ReplaceSidecar(r) ==
    /\ rpc[r] = "replacing"
    /\ sidecar' = [key |-> run[r].key, stamp |-> run[r].stamp,
                   digests |-> run[r].digests]
    /\ Leave(r)
    /\ UNCHANGED <<versions, key, spoils>>

(* The hook kills a recall at its time limit. *)
Kill(r) ==
    /\ rpc[r] # "idle"
    /\ Leave(r)
    /\ UNCHANGED <<versions, key, sidecar, spoils>>

-----------------------------------------------------------------------------
(* The tools that rewrite the store, each by an atomic replace. *)

Rewrite(s) ==
    /\ Stamp < MaxVersions
    /\ versions' = Append(versions, s)
    /\ UNCHANGED <<key, sidecar, rpc, run, spoils>>

(* A fact is added, or edited and signed again; others keep theirs. *)
PutSigned(i, core, ps) ==
    Rewrite([store EXCEPT ![i] =
                [core |-> core, att |-> Attest(store, core, ps, key)]])

(* A fact is changed and not signed again. *)
Alter(i, core) ==
    /\ store[i] # None
    /\ store[i].core # core
    /\ Rewrite([store EXCEPT ![i].core = core])

SignStore == Rewrite(SignAll(store, key))

RemoveFact(i) == store[i] # None /\ Rewrite([store EXCEPT ![i] = None])

(* purge-fact removes the sidecar (unlink_for_store). *)
UnlinkSidecar ==
    /\ sidecar # None
    /\ sidecar' = None
    /\ UNCHANGED <<versions, key, rpc, run, spoils>>

Spoil == spoils < MaxSpoils /\ spoils' = spoils + 1

SpoilSidecar ==
    /\ Spoil
    /\ sidecar' = Unreadable
    /\ UNCHANGED <<versions, key, rpc, run>>

ReplaceKey(k) ==
    /\ Spoil
    /\ key' = k
    /\ UNCHANGED <<versions, sidecar, rpc, run>>

-----------------------------------------------------------------------------
RecallStep(r) ==
    \/ StampStore(r) \/ LoadDigests(r) \/ VerifyStore(r) \/ SkipSave(r)
    \/ StartSave(r) \/ MergePeers(r) \/ CheckStamp(r) \/ ReplaceSidecar(r)
    \/ Kill(r)

StoreStep ==
    \/ \E i \in Ids, core \in Cores :
          \/ Alter(i, core)
          \/ \E ps \in SUBSET (Ids \ {i}) : PutSigned(i, core, ps)
    \/ \E i \in Ids : RemoveFact(i)
    \/ SignStore \/ UnlinkSidecar \/ SpoilSidecar
    \/ \E k \in Keys \ {key} : ReplaceKey(k)

Next == (\E r \in Recalls : RecallStep(r)) \/ StoreStep

Spec == Init /\ [][Next]_vars

-----------------------------------------------------------------------------
(* Whatever was saved, by whom and of which version, a recall reaches the   *)
(* verdicts a full verification of the facts it read would: the cache      *)
(* skips the public-key operation and decides nothing (verify_fact).       *)
CacheDecidesNothing ==
    \A r \in Recalls :
        rpc[r] \in {"verified", "saving", "merged", "replacing"} =>
            run[r].verdicts = [i \in Present(run[r].facts) |->
                                 Verify(run[r].facts, run[r].facts[i], run[r].key)]

(* The digests of every fact of version n, under key k. *)
DigestsOfVersion(n, k) == Live(versions[n], k, {})

(* A saved sidecar holds nothing but digests of facts of the version it is  *)
(* stamped with: those of purged and edited facts do not pile up in it     *)
(* ("a dirty save persists only digests that were hit or added").          *)
SidecarOfItsVersion ==
    IsSidecar(sidecar) => sidecar.digests \subseteq DigestsOfVersion(sidecar.stamp, sidecar.key)

=============================================================================
