---------------------------- MODULE BackendsProofs ----------------------------
(***************************************************************************)
(* That the janitor reaches what it has to delete, and a download what it  *)
(* has to open, for any number of sections, whatever they say.             *)
(***************************************************************************)
EXTENDS Backends, TLAPS

\* What has been read of the file.
Storages ==
    /\ backends \in [DOMAIN backends -> [type : StorageType, scheme : Scheme, place : Place]]
    /\ storages \in [DOMAIN storages -> DOMAIN backends]

LEMMA StoragesInvariant == Spec => []Storages
<1>1. Init => Storages
  BY DEF Init, Storages
<1>2. Storages /\ [Next]_vars => Storages'
  <2> SUFFICES ASSUME Storages, [Next]_vars PROVE Storages'
    OBVIOUS
  <2>1. ASSUME NEW name \in Name, NEW s \in Section, LoadStorage(name, s)
        PROVE  Storages'
    <3>1. /\ DOMAIN backends' = DOMAIN backends \cup {name}
          /\ \A n \in DOMAIN backends : backends'[n] = backends[n]
          /\ backends'[name] =
                [type |-> s.type, scheme |-> s.scheme, place |-> s.place]
          /\ backends' = [n \in DOMAIN backends' |-> backends'[n]]
      BY <2>1 DEF LoadStorage, ValidStorage, Extended
    <3>2. name \notin DOMAIN backends /\ storages' = storages
      BY <2>1 DEF LoadStorage, ValidStorage
    <3>3. [type |-> s.type, scheme |-> s.scheme, place |-> s.place]
              \in [type : StorageType, scheme : Scheme, place : Place]
      <4>1. s.type \in StorageType /\ s.scheme \in Scheme /\ s.place \in Place
        BY DEF Section, Place, StorageType
      <4> QED
        BY <4>1
    <3> QED
      BY <3>1, <3>2, <3>3 DEF Storages
  <2>2. ASSUME NEW host \in Host, NEW f \in ForgeSection, LoadForge(host, f)
        PROVE  Storages'
    <3>1. /\ DOMAIN storages' = DOMAIN storages \cup {LowerHost[host]}
          /\ \A h \in DOMAIN storages \ {LowerHost[host]} : storages'[h] = storages[h]
          /\ storages'[LowerHost[host]] = f.storage
          /\ storages' = [h \in DOMAIN storages' |-> storages'[h]]
      BY <2>2 DEF LoadForge, ValidForge, Extended
    <3>2. f.storage \in DOMAIN backends /\ backends' = backends
      BY <2>2 DEF LoadForge, ValidForge
    <3> QED
      BY <3>1, <3>2 DEF Storages
  <2>3. ASSUME UNCHANGED config
        PROVE  Storages'
    BY <2>3 DEF Storages, config
  <2> QED
    BY <2>1, <2>2, <2>3
       DEF Next, StoragesRead, Refuse, ConfigLoaded, JanitorNew, Upload, Verify, Sweep, vars
<1> QED
  BY <1>1, <1>2, PTL DEF Spec

\* What janitor.New sees to: every scheme in use is the scheme of a backend
\* that it kept.
KeptSchemes ==
    stage = "serving" =>
        /\ kept \subseteq Used
        /\ \A n \in Used : \E m \in kept : backends[m].scheme = backends[n].scheme

LEMMA KeptInvariant == Spec => []KeptSchemes
<1>1. Init => KeptSchemes
  BY DEF Init, KeptSchemes
<1>2. KeptSchemes /\ [Next]_vars => KeptSchemes'
  <2> SUFFICES ASSUME KeptSchemes, [Next]_vars PROVE KeptSchemes'
    OBVIOUS
  <2>1. ASSUME UNCHANGED <<stage, config, kept>>
        PROVE  KeptSchemes'
    BY <2>1 DEF KeptSchemes, Used, config
  <2>2. ASSUME stage' # "serving"
        PROVE  KeptSchemes'
    BY <2>2 DEF KeptSchemes
  <2>3. CASE JanitorNew
    <3>1. PICK names \in SUBSET Used :
              /\ {backends[n].scheme : n \in names} = {backends[n].scheme : n \in Used}
              /\ kept' = names
      BY <2>3 DEF JanitorNew
    <3>2. \A n \in Used : \E m \in names : backends[m].scheme = backends[n].scheme
      BY <3>1
    <3>3. Used' = Used /\ backends' = backends
      BY <2>3 DEF JanitorNew, Used, config
    <3> QED
      BY <3>1, <3>2, <3>3 DEF KeptSchemes
  <2>4. ASSUME \/ \E name \in Name, s \in Section : LoadStorage(name, s)
               \/ StoragesRead \/ Refuse \/ ConfigLoaded
               \/ \E host \in Host, f \in ForgeSection : LoadForge(host, f)
        PROVE  stage' # "serving"
    BY <2>4 DEF LoadStorage, StoragesRead, Refuse, ConfigLoaded, LoadForge
  <2>5. ASSUME \/ \E h \in DOMAIN storages, oid \in Oid : Upload(h, oid) \/ Verify(h, oid)
               \/ \E oid \in Oid : Sweep(oid)
               \/ UNCHANGED vars
        PROVE  UNCHANGED <<stage, config, kept>>
    BY <2>5 DEF Upload, Verify, Sweep, vars, config
  <2> QED
    BY <2>1, <2>2, <2>3, <2>4, <2>5 DEF Next
<1> QED
  BY <1>1, <1>2, PTL DEF Spec

(***************************************************************************)
(* The type invariant, from how far the load has got: nothing is kept      *)
(* before janitor.New, and a host has a storage as soon as it has a forge. *)
(***************************************************************************)
TypeInv ==
    /\ TypeOK
    /\ stage \in {"storages", "forges", "loaded"} => kept = {}
    /\ forges # <<>> => DOMAIN storages # {}

LEMMA LoadStorageType ==
    ASSUME TypeInv, NEW name \in Name, NEW s \in Section, LoadStorage(name, s)
    PROVE  TypeInv'
<1>1. DOMAIN backends' = DOMAIN backends \cup {name}
  BY DEF LoadStorage, Extended
<1>2. UNCHANGED <<stage, forges, storages, kept>> /\ stage = "storages"
  BY DEF LoadStorage
<1>3. storages' \in [DOMAIN forges' -> DOMAIN backends']
  BY <1>1, <1>2 DEF TypeInv, TypeOK
<1>4. DOMAIN backends' \subseteq Name
  BY <1>1 DEF TypeInv, TypeOK
<1>5. Used' = Used
  BY <1>2 DEF Used
<1> QED
  BY <1>2, <1>3, <1>4, <1>5 DEF TypeInv, TypeOK

LEMMA LoadForgeType ==
    ASSUME TypeInv, NEW host \in Host, NEW f \in ForgeSection, LoadForge(host, f)
    PROVE  TypeInv'
<1> DEFINE h == LowerHost[host]
<1>1. h \in Host
  BY HostAssumption
<1>2. UNCHANGED <<stage, backends, kept>> /\ stage = "forges"
  BY DEF LoadForge
<1>3. /\ DOMAIN forges' = DOMAIN forges \cup {h}
      /\ DOMAIN storages' = DOMAIN storages \cup {h}
      /\ \A k \in DOMAIN storages' : storages'[k] = IF k = h THEN f.storage ELSE storages[k]
      /\ storages' = [k \in DOMAIN storages' |-> storages'[k]]
  BY DEF LoadForge, Extended
<1>4. f.storage \in DOMAIN backends
  BY DEF LoadForge, ValidForge
<1>5. storages' \in [DOMAIN forges' -> DOMAIN backends]
  BY <1>3, <1>4 DEF TypeInv, TypeOK
<1>6. kept' = {} /\ stage' = "forges"
  BY <1>2 DEF TypeInv
<1> QED
  BY <1>1, <1>2, <1>3, <1>5, <1>6 DEF TypeInv, TypeOK

\* A host is served only with a forge and a storage that the file has, and the
\* janitor uses only storages that some host uses (config.go:113-154, janitor.go:29-41).
THEOREM TypeCorrect == Spec => []TypeOK
<1>1. Init => TypeInv
  BY DEF Init, TypeInv, TypeOK
<1>2. TypeInv /\ [Next]_vars => TypeInv'
  <2> SUFFICES ASSUME TypeInv, [Next]_vars PROVE TypeInv'
    OBVIOUS
  <2>1. CASE StoragesRead \/ Refuse
    BY <2>1 DEF StoragesRead, Refuse, TypeInv, TypeOK, Used, config
  <2>2. CASE ConfigLoaded
    <3>1. storages # <<>>
      BY <2>2 DEF ConfigLoaded, TypeInv
    <3> QED
      BY <2>2, <3>1 DEF ConfigLoaded, TypeInv, TypeOK, Used, config
  <2>3. CASE JanitorNew
    BY <2>3 DEF JanitorNew, TypeInv, TypeOK, Used, config
  <2>4. CASE \/ \E h \in DOMAIN storages, oid \in Oid : Upload(h, oid) \/ Verify(h, oid)
             \/ \E oid \in Oid : Sweep(oid)
             \/ UNCHANGED vars
    BY <2>4 DEF Upload, Verify, Sweep, TypeInv, TypeOK, Used, config, vars
  <2> QED
    BY <2>1, <2>2, <2>3, <2>4, LoadStorageType, LoadForgeType DEF Next
<1> QED
  BY <1>1, <1>2, PTL DEF Spec, TypeInv

\* A backend with a scheme of its own is not dropped.
LEMMA OwnKept ==
    ASSUME KeptSchemes, stage = "serving", NEW n \in Used, OwnScheme(n)
    PROVE  n \in kept
BY DEF KeptSchemes, OwnScheme

\* A backend accepts the URIs that it makes if they survive, and only then.
LEMMA OwnResolves ==
    ASSUME Storages, NEW n \in Used, NEW oid
    PROVE  /\ Resolves(n, URI(n, oid)) <=> Survives(n)
           /\ Survives(n) => Target(n, URI(n, oid)) = <<Home(n), oid>>
<1> DEFINE place == backends[n].place
<1>1. CASE Presigns(n)
  BY <1>1 DEF Resolves, KeyFromURI, Survives, URI, Target, Home
<1>2. CASE ~Presigns(n)
  <2>1. place \in DOMAIN UrlPath /\ IsPrefix(place, UrlPath[place])
            <=> place \in DOMAIN UrlPath /\ UrlPath[place] = place
    BY PathAssumption DEF IsPrefix
  <2> QED
    BY <1>2, <2>1 DEF Resolves, PathFromURI, Survives, URI, Target, Home
<1> QED
  BY <1>1, <1>2

-----------------------------------------------------------------------------
(***************************************************************************)
(* Every host that a [forge] section names, in any spelling, is found by   *)
(* the requests for it.                                                    *)
(***************************************************************************)
THEOREM HostsFound == Spec => []HostsAreFound
<1>1. Init => HostsAreFound
  BY DEF Init, HostsAreFound
<1>2. HostsAreFound /\ [Next]_vars => HostsAreFound'
  <2> SUFFICES ASSUME HostsAreFound, [Next]_vars PROVE HostsAreFound'
    OBVIOUS
  <2>1. ASSUME NEW host \in Host, NEW f \in ForgeSection, LoadForge(host, f)
        PROVE  HostsAreFound'
    <3>1. /\ DOMAIN forges' = DOMAIN forges \cup {LowerHost[host]}
          /\ DOMAIN storages' = DOMAIN storages \cup {LowerHost[host]}
      BY <2>1 DEF LoadForge, Extended
    <3>2. LowerHost[LowerHost[host]] = LowerHost[host]
      BY HostAssumption
    <3> QED
      BY <3>1, <3>2 DEF HostsAreFound
  <2>2. ASSUME UNCHANGED <<forges, storages>>
        PROVE  HostsAreFound'
    BY <2>2 DEF HostsAreFound
  <2> QED
    BY <2>1, <2>2
       DEF Next, LoadStorage, StoragesRead, Refuse, ConfigLoaded, JanitorNew, Upload, Verify,
           Sweep, vars, config
<1> QED
  BY <1>1, <1>2, PTL DEF Spec

(***************************************************************************)
(* In any configuration, a sweep that takes a row deletes its bytes at     *)
(* each storage whose scheme is its own and whose URIs survive being read. *)
(***************************************************************************)
THEOREM SweepsReachStorage == Spec => DeletesReachStorage
<1> DEFINE Reached ==
      \A oid \in Oid : row[oid] # None /\ row'[oid] = None =>
          \A n \in Holders(oid) : OwnScheme(n) /\ Survives(n) => <<Home(n), oid>> \notin stored'
<1>1. Storages /\ KeptSchemes /\ [Next]_vars => [Reached]_vars
  <2> SUFFICES ASSUME Storages, KeptSchemes, [Next]_vars,
                      NEW oid \in Oid, row[oid] # None, row'[oid] = None,
                      NEW n \in Holders(oid), OwnScheme(n), Survives(n)
               PROVE  <<Home(n), oid>> \notin stored'
    OBVIOUS
  <2>1. Sweep(oid)
    <3>1. ASSUME NEW h \in DOMAIN storages, NEW o \in Oid, Upload(h, o)
          PROVE  row'[oid] = row[oid]
      BY <3>1 DEF Upload
    <3>2. ASSUME NEW h \in DOMAIN storages, NEW o \in Oid, Verify(h, o)
          PROVE  row'[oid] = row[oid]
      <4>1. URI(storages[h], o) \in [scheme : Scheme, place : Place, oid : Oid]
        BY DEF Storages, URI
      <4>2. row' = [row EXCEPT ![o] = URI(storages[h], o)]
        BY <3>2 DEF Verify
      <4> QED
        BY <4>1, <4>2, RowAssumption
    <3>3. ASSUME NEW o \in Oid, Sweep(o), o # oid
          PROVE  row'[oid] = row[oid]
      BY <3>3 DEF Sweep
    <3> QED
      BY <3>1, <3>2, <3>3
         DEF Next, LoadStorage, StoragesRead, LoadForge, Refuse, ConfigLoaded, JanitorNew, vars
  <2>2. n \in Used /\ n \in kept
    BY <2>1, OwnKept DEF Sweep, Holders
  <2>3. Resolves(n, URI(n, oid)) /\ Target(n, URI(n, oid)) = <<Home(n), oid>>
    BY <2>2, OwnResolves
  <2>4. CASE row[oid] = Pending
    <3>1. <<Home(n), oid>> \in DeletePresigned(oid)
      BY <2>2, <2>3, <2>4 DEF Holders, DeletePresigned
    <3> QED
      BY <2>1, <2>4, <3>1 DEF Sweep
  <2>5. CASE row[oid] # Pending
    <3>1. row[oid] = URI(n, oid) /\ row[oid].scheme = backends[n].scheme
      BY <2>5 DEF Holders, URI
    <3>2. <<Home(n), oid>> \in DeleteByURI(row[oid])
      BY <2>2, <2>3, <3>1 DEF DeleteByURI
    <3> QED
      BY <2>1, <2>5, <3>2 DEF Sweep
  <2> QED
    BY <2>4, <2>5
<1> QED
  BY <1>1, StoragesInvariant, KeptInvariant, PTL DEF Spec, DeletesReachStorage

(***************************************************************************)
(* In any configuration, a backend opens an object that it stored, where   *)
(* it stored it, just if its URIs survive being read, and none with        *)
(* another scheme opens it.                                                *)
(***************************************************************************)
THEOREM OpensItsOwn == Spec => []OpenedWhereStored
<1>1. Storages => OpenedWhereStored
  <2> SUFFICES ASSUME Storages, NEW m \in Used, NEW n \in Used, NEW oid \in Oid,
                      m = n \/ Distinct(m, n)
               PROVE  /\ Resolves(m, URI(n, oid)) <=> m = n /\ Survives(n)
                      /\ Resolves(m, URI(n, oid)) => Target(m, URI(n, oid)) = <<Home(n), oid>>
    BY DEF OpenedWhereStored, Used
  <2>1. Distinct(m, n) => ~Resolves(m, URI(n, oid))
    BY DEF Distinct, Resolves, KeyFromURI, PathFromURI, URI
  <2> QED
    BY <2>1, OwnResolves
<1> QED
  BY <1>1, StoragesInvariant, PTL
=============================================================================
