------------------------------ MODULE Backends ------------------------------
(***************************************************************************)
(* The way from the configuration file to the backend that deletes an      *)
(* object.  loadConfig reads the [storage] and then the [forge] sections,  *)
(* janitor.New keeps one backend of each scheme, the handlers store an     *)
(* object with the backend of the request's host, and the janitor finds    *)
(* one for its URI by the scheme.  The file is whatever an operator wrote: *)
(* every section is chosen when it is read.  A root or a bucket is what    *)
(* stands between the scheme and the object id in a URI, cut into words at *)
(* the slashes: a root, which is absolute, begins with the empty word.     *)
(***************************************************************************)
EXTENDS SequencesExt

CONSTANTS
    Name,       \* names of [storage] sections
    Host,       \* hosts of [forge] sections, as written
    LowerHost,  \* strings.ToLower of each host
    Scheme,     \* SCHEME keys, without the "://" that most of them end in
    Ended,      \* those that do end in "://"
    UrlScheme,  \* the scheme that url.Parse reads from a URI that starts with one
    Root,       \* ROOT keys as absolute paths, of which <<"">> is "/"
    Bucket,     \* BUCKET keys
    UrlPath,    \* the path that url.Parse reads from a URI, if it gets as far as
                \* the object id: '%' is decoded, and '#' and '?' end the path
    Oid,        \* object ids
    Malformed,  \* a section name that is malformed
    None,       \* no row
    Pending     \* a row without a URI

Place == Root \cup Bucket

StorageType == {"filesystem", "s3-presign", "", "other"}
ForgeType == {"github", "gitlab", "other"}

ASSUME HostAssumption ==
    /\ LowerHost \in [Host -> Host]
    /\ \A h \in Host : LowerHost[LowerHost[h]] = LowerHost[h]

ASSUME SchemeAssumption == Ended \subseteq Scheme /\ Ended \subseteq DOMAIN UrlScheme

\* Decoding never makes a path longer, so none goes on where its text ended.
ASSUME PathAssumption ==
    /\ DOMAIN UrlPath \subseteq Place
    /\ \A p \in DOMAIN UrlPath : IsPrefix(p, UrlPath[p]) => UrlPath[p] = p

ASSUME RowAssumption ==
    /\ None # Pending
    /\ {None, Pending} \cap [scheme : Scheme, place : Place, oid : Oid] = {}

VARIABLES
    stage,      \* how far loadConfig and main are, or "refused" with an error
    backends,   \* backendsByName
    forges,     \* c.Forges: the provider of a host
    storages,   \* c.Storages: the name of the backend of a host
    kept,       \* the names of the backends that the janitor uses
    stored,     \* the objects that exist, as <<location, oid>>
    row         \* per object: its URI, Pending or None

config == <<backends, forges, storages>>
vars == <<stage, config, kept, stored, row>>

Init ==
    /\ stage = "storages"
    /\ backends = <<>> /\ forges = <<>> /\ storages = <<>>
    /\ kept = {} /\ stored = {}
    /\ row = [oid \in Oid |-> None]

-----------------------------------------------------------------------------
\* What a URI consists of, with either kind of backend.
URI(name, oid) ==
    [scheme |-> backends[name].scheme, place |-> backends[name].place, oid |-> oid]

\* Where the bytes are: a path of the file system, or a bucket of one of the
\* services, each section having its own endpoint.
Location(name, place) ==
    IF backends[name].type = "filesystem" THEN <<"files", place>> ELSE <<name, place>>

Home(name) == Location(name, backends[name].place)

Presigns(name) == backends[name].type = "s3-presign"

Used == {storages[h] : h \in DOMAIN storages}

\* Faulty variant of PathFromURI: only the path is looked at.
PathFromURIAnyScheme(name, uri) ==
    /\ uri.place \in DOMAIN UrlPath
    /\ backends[name].place # <<"">>
    /\ IsPrefix(backends[name].place, UrlPath[uri.place])

\* pathFromURI without an error, and with the path of an object.  What url.Parse
\* read is compared with the configuration as written; nothing begins with the
\* root "/" and another slash.
PathFromURI(name, uri) ==
    /\ UrlScheme[uri.scheme] = backends[name].scheme
    /\ uri.place \in DOMAIN UrlPath
    /\ backends[name].place # <<"">>
    /\ IsPrefix(backends[name].place, UrlPath[uri.place])

\* keyFromURI without an error: the bucket ends at the first slash.
KeyFromURI(name, uri) ==
    /\ uri.scheme = backends[name].scheme
    /\ <<Head(uri.place)>> = backends[name].place

Resolves(name, uri) ==
    IF Presigns(name) THEN KeyFromURI(name, uri) ELSE PathFromURI(name, uri)

\* What the backend then opens or deletes.
Target(name, uri) ==
    <<Location(name, IF Presigns(name) THEN uri.place ELSE UrlPath[uri.place]), uri.oid>>

-----------------------------------------------------------------------------
\* An entry is added to a map.
Extended(map, key, value) ==
    [k \in DOMAIN map \cup {key} |-> IF k = key THEN value ELSE map[k]]

Section ==
    [type : {"filesystem"}, scheme : Scheme, place : Root, complete : BOOLEAN]
        \cup [type : StorageType \ {"filesystem"}, scheme : Scheme, place : Bucket,
              complete : BOOLEAN]

\* The section of a backend: validateStorageScheme and the constructor of its
\* TYPE, which wants every key of that type.
ValidStorage(name, s) ==
    /\ name \in Name \ DOMAIN backends
    /\ s.scheme \in Ended
    /\ s.type \in {"filesystem", "s3-presign"}
    /\ s.complete

LoadStorage(name, s) ==
    /\ stage = "storages"
    /\ ValidStorage(name, s)
    /\ backends' = Extended(backends, name,
                            [type |-> s.type, scheme |-> s.scheme, place |-> s.place])
    /\ UNCHANGED <<stage, forges, storages, kept, stored, row>>

StoragesRead ==
    /\ stage = "storages"
    /\ stage' = "forges"
    /\ UNCHANGED <<config, kept, stored, row>>

ForgeSection ==
    [type : ForgeType, storage : Name, skip : BOOLEAN, allowlist : BOOLEAN]

\* The section of a host: its STORAGE exists, its list compiles, its TYPE is
\* known or not asked for.
ValidForge(h, f) ==
    /\ h \notin DOMAIN forges
    /\ f.storage \in DOMAIN backends
    /\ f.allowlist
    /\ f.skip \/ f.type \in {"github", "gitlab"}

\* Faulty variant of LoadForge: the host is looked up and kept as it is written.
LoadForgeAsWritten(host, f) ==
    /\ stage = "forges"
    /\ ValidForge(host, f)
    /\ forges' = Extended(forges, host, IF f.skip THEN "skip-auth" ELSE f.type)
    /\ storages' = Extended(storages, host, f.storage)
    /\ UNCHANGED <<stage, backends, kept, stored, row>>

LoadForge(host, f) ==
    LET h == LowerHost[host]
    IN  /\ stage = "forges"
        /\ ValidForge(h, f)
        /\ forges' = Extended(forges, h, IF f.skip THEN "skip-auth" ELSE f.type)
        /\ storages' = Extended(storages, h, f.storage)
        /\ UNCHANGED <<stage, backends, kept, stored, row>>

\* Any error ends the load, also that of a file without a forge.
Refuse ==
    /\ \/ stage = "storages" /\ \E name \in Name \cup {Malformed}, s \in Section :
                                   ~ValidStorage(name, s)
       \/ stage = "forges" /\ \E host \in Host \cup {Malformed}, f \in ForgeSection :
                                 host # Malformed => ~ValidForge(LowerHost[host], f)
       \/ stage = "forges" /\ forges = <<>>
    /\ stage' = "refused"
    /\ UNCHANGED <<config, kept, stored, row>>

ConfigLoaded ==
    /\ stage = "forges" /\ forges # <<>>
    /\ stage' = "loaded"
    /\ UNCHANGED <<config, kept, stored, row>>

\* Faulty variant of JanitorNew: one backend of each type is kept.
JanitorByType ==
    /\ stage = "loaded"
    /\ stage' = "serving"
    /\ \E names \in SUBSET Used :
          /\ {backends[n].type : n \in names} = {backends[n].type : n \in Used}
          /\ \A n, o \in names : backends[n].type = backends[o].type => n = o
          /\ kept' = names
    /\ UNCHANGED <<config, stored, row>>

\* janitor.New: of the backends of one scheme, the one that the map yields
\* first.
JanitorNew ==
    /\ stage = "loaded"
    /\ stage' = "serving"
    /\ \E names \in SUBSET Used :
          /\ {backends[n].scheme : n \in names} = {backends[n].scheme : n \in Used}
          /\ \A n, o \in names : backends[n].scheme = backends[o].scheme => n = o
          /\ kept' = names
    /\ UNCHANGED <<config, stored, row>>

-----------------------------------------------------------------------------
\* serveUpload of an object that nobody has stored: proxied with its URI, or
\* presigned without one.
Upload(h, oid) ==
    LET name == storages[h]
    IN  /\ stage = "serving" /\ row[oid] = None
        /\ stored' = stored \cup {<<Home(name), oid>>}
        /\ row' = [row EXCEPT ![oid] =
                      IF Presigns(name) THEN Pending ELSE URI(name, oid)]
        /\ UNCHANGED <<stage, config, kept>>

\* serveVerify of a presigned upload: Head finds it, and VerifyObject keeps
\* where it is.
Verify(h, oid) ==
    LET name == storages[h]
    IN  /\ stage = "serving" /\ row[oid] = Pending
        /\ Presigns(name) /\ Resolves(name, URI(name, oid))
        /\ <<Home(name), oid>> \in stored
        /\ row' = [row EXCEPT ![oid] = URI(name, oid)]
        /\ UNCHANGED <<stage, config, kept, stored>>

\* The backend that deleteByURI picks, and what its Delete removes.  The
\* schemes of a file are not prefixes of one another, so at most one matches.
DeleteByURI(uri) ==
    {Target(n, uri) : n \in {m \in kept : backends[m].scheme = uri.scheme /\ Resolves(m, uri)}}

\* A row without a URI: every Presigner that the janitor has, with its own URI.
DeletePresigned(oid) ==
    {Target(n, URI(n, oid)) : n \in {m \in kept : Presigns(m) /\ Resolves(m, URI(m, oid))}}

\* deleteObjects after the sweep that took the row.  An error is logged.
Sweep(oid) ==
    /\ stage = "serving" /\ row[oid] # None
    /\ row' = [row EXCEPT ![oid] = None]
    /\ stored' = stored \ (IF row[oid] = Pending THEN DeletePresigned(oid)
                                                   ELSE DeleteByURI(row[oid]))
    /\ UNCHANGED <<stage, config, kept>>

Next ==
    \/ \E name \in Name, s \in Section : LoadStorage(name, s)
    \/ StoragesRead
    \/ \E host \in Host, f \in ForgeSection : LoadForge(host, f)
    \/ Refuse
    \/ ConfigLoaded
    \/ JanitorNew
    \/ \E h \in DOMAIN storages, oid \in Oid : Upload(h, oid) \/ Verify(h, oid)
    \/ \E oid \in Oid : Sweep(oid)

Spec == Init /\ [][Next]_vars

-----------------------------------------------------------------------------
TypeOK ==
    /\ stage \in {"storages", "forges", "loaded", "serving", "refused"}
    /\ DOMAIN backends \subseteq Name
    /\ DOMAIN forges \subseteq Host
    /\ storages \in [DOMAIN forges -> DOMAIN backends]
    /\ kept \subseteq Used
    /\ stage \in {"loaded", "serving"} => storages # <<>>

\* No other backend in use has the same scheme.
OwnScheme(n) == \A m \in Used : backends[m].scheme = backends[n].scheme => m = n

\* The URIs that a backend makes say the same when they are read.
Survives(n) ==
    LET place == backends[n].place
    IN  IF Presigns(n) THEN <<Head(place)>> = place
        ELSE /\ UrlScheme[backends[n].scheme] = backends[n].scheme
             /\ place \in DOMAIN UrlPath /\ UrlPath[place] = place
             /\ place # <<"">>

\* The backends in use that may have the bytes of a row: those that make its
\* URI, or, before it has one, every Presigner.
Holders(oid) ==
    {n \in Used : IF row[oid] = Pending THEN Presigns(n) ELSE URI(n, oid) = row[oid]}

(***************************************************************************)
(* In any configuration that the server accepts, the janitor deletes the   *)
(* bytes of every row it takes wherever they may be, at each storage whose *)
(* scheme is its own and whose URIs survive being read: whatever the other *)
(* storages are, those that janitor.New drops and the order of its map     *)
(* included.                                                               *)
(***************************************************************************)
DeletesReachStorage ==
    [][\A oid \in Oid : row[oid] # None /\ row'[oid] = None =>
            \A n \in Holders(oid) :
                OwnScheme(n) /\ Survives(n) => <<Home(n), oid>> \notin stored']_vars

(***************************************************************************)
(* A host that a configuration names is found, with a provider and with a  *)
(* backend, by the requests for it, which look it up in lower case however *)
(* the section and the URL spell it.                                       *)
(***************************************************************************)
HostsAreFound ==
    \A h \in DOMAIN forges : LowerHost[h] \in DOMAIN forges \cap DOMAIN storages

\* The scheme of m is not that of n's URIs, as written or as url.Parse reads it.
Distinct(m, n) ==
    backends[m].scheme \notin {backends[n].scheme, UrlScheme[backends[n].scheme]}

(***************************************************************************)
(* A backend opens an object that it stored, where it stored it, just if   *)
(* its URIs survive being read: with a SCHEME or ROOT that url.Parse       *)
(* changes or refuses, which loadConfig accepts, every download is an      *)
(* error.  A backend with another scheme never opens it, and so never some *)
(* other object, even if its root is around the other's.                   *)
(***************************************************************************)
OpenedWhereStored ==
    \A g, h \in DOMAIN storages, oid \in Oid :
        LET m == storages[g]
            n == storages[h]
        IN  row[oid] = URI(n, oid) /\ (m = n \/ Distinct(m, n)) =>
                /\ Resolves(m, row[oid]) <=> m = n /\ Survives(n)
                /\ Resolves(m, row[oid]) => Target(m, row[oid]) = <<Home(n), oid>>
=============================================================================
