------------------------ MODULE FilesystemPutProofs ------------------------
(***************************************************************************)
(* A file under a final path is the whole object, for any number of        *)
(* uploads, objects and sizes, and any way the bodies come in pieces.      *)
(***************************************************************************)
EXTENDS FilesystemPut, TLAPS

USE ConfigAssumption, SizeAssumption, DiskAssumption

LEMMA PutFields ==
    ASSUME TypeOK, NEW u \in Upload, put[u] # NoPut
    PROVE  /\ put[u] \in Put
           /\ put[u].oid \in Oid /\ put[u].size \in Size /\ put[u].len \in Nat
           /\ put[u].exact \in BOOLEAN /\ put[u].synced \in BOOLEAN
BY DEF TypeOK, Put

LEMMA NoPutPc == NoPut.pc = "none"
BY DEF NoPut

\* A step of one call that leaves the disk alone.
LEMMA PutStep ==
    ASSUME PutInv, NEW u \in Upload, NEW state \in {NoPut} \cup Put,
           put' = [put EXCEPT ![u] = state], UNCHANGED <<file, durable>>,
           state.pc \in {"sync", "rename"} =>
                IsContent(state.oid, state) /\ state.size = ContentSize[state.oid],
           state.pc = "rename" => state.synced
    PROVE  PutInv'
<1>1. put'[u] = state /\ \A v \in Upload \ {u} : put'[v] = put[v]
  BY DEF PutInv, TypeOK
<1>2. TypeOK'
  BY DEF PutInv, TypeOK
<1>3. CopiedIsContent'
  BY <1>1 DEF PutInv, CopiedIsContent, IsContent
<1>4. \A v \in Upload : At(v, "rename")' => put'[v].synced
  BY <1>1 DEF PutInv, At
<1>5. \A oid \in Oid : \A f \in {file'[oid], durable'[oid]} :
            f.exists => f.synced /\ IsContent(oid, f)
  BY DEF PutInv
<1> QED
  BY <1>2, <1>3, <1>4, <1>5 DEF PutInv, IsContent, At

\* A step of the disk that leaves whole files behind.
LEMMA DiskStep ==
    ASSUME PutInv, UNCHANGED put, file' \in [Oid -> File], durable' \in [Oid -> File],
           \A oid \in Oid : \A f \in {file'[oid], durable'[oid]} :
                f.exists => f.synced /\ IsContent(oid, f)
    PROVE  PutInv'
BY DEF PutInv, TypeOK, CopiedIsContent, IsContent, At

LEMMA MoreBytes ==
    ASSUME NEW len \in Nat, NEW n \in 0..MaxRead
    PROVE  len + n \in Nat
OBVIOUS

LEMMA CopyStep ==
    ASSUME PutInv, NEW u \in Upload, NEW n \in 0..MaxRead, NEW right \in BOOLEAN,
           NEW err \in {"nil", "EOF", "unexpected EOF", "other"}, Copy(u, n, right, err)
    PROVE  PutInv'
<1> DEFINE bytes == [len |-> put[u].len + n, exact |-> put[u].exact /\ (right \/ n = 0)]
           sized == ExactSizeRead(put[u].size, bytes.len, err)
           result == SHA256Read(put[u].oid, bytes, sized)
           pc == AfterRead(result)
           state == [put[u] EXCEPT !.len = bytes.len, !.exact = bytes.exact, !.pc = pc]
<1>1. put[u] \in Put /\ put[u].len \in Nat /\ put[u].exact \in BOOLEAN /\ put[u].size \in Nat
        /\ put[u].oid \in Oid
  BY PutFields, NoPutPc DEF PutInv, Copy, At
<1>2. bytes.len = put[u].len + n /\ bytes.len \in Nat /\ bytes.exact \in BOOLEAN
  <2>1. put[u].len + n \in Nat
    BY <1>1, MoreBytes
  <2> QED
    BY <2>1
<1>3. result = "EOF" => IsContent(put[u].oid, bytes) /\ bytes.len = put[u].size
  BY <1>1, <1>2 DEF SHA256Read, ExactSizeRead, AtEnd
<1>4. put' = [put EXCEPT ![u] = state] /\ UNCHANGED <<file, durable>>
  BY DEF Copy
<1> HIDE DEF result, bytes
<1>5. pc \in {"copy", "sync", "failed"} /\ (pc = "sync" => result = "EOF")
  BY DEF AfterRead
<1> HIDE DEF pc
<1>6. /\ state \in Put /\ state.pc = pc /\ state.oid = put[u].oid /\ state.size = put[u].size
      /\ state.len = bytes.len /\ state.exact = bytes.exact
  BY <1>1, <1>2, <1>5 DEF Put
<1>7. pc = "sync" => IsContent(state.oid, state) /\ state.size = ContentSize[state.oid]
  BY <1>2, <1>3, <1>5, <1>6 DEF IsContent
<1> HIDE DEF state
<1> QED
  BY <1>4, <1>5, <1>6, <1>7, PutStep

LEMMA OtherPutSteps ==
    ASSUME PutInv, NEW u \in Upload,
           \/ \E oid \in Oid, size \in Size : Begin(u, oid, size)
           \/ Stat(u) \/ Sync(u) \/ Fail(u) \/ End(u)
    PROVE  PutInv'
<1>1. ASSUME NEW oid \in Oid, NEW size \in Size, Begin(u, oid, size)
      PROVE  PutInv'
  <2> DEFINE state == [pc |-> "stat", oid |-> oid, size |-> size, len |-> 0,
                       exact |-> TRUE, synced |-> FALSE]
  <2>1. state \in Put /\ state.pc = "stat"
    BY DEF Put
  <2> QED
    BY <1>1, <2>1, PutStep DEF Begin
<1>2. ASSUME NEW pc \in {"copy", "returned", "failed"}, put[u] # NoPut,
             put' = [put EXCEPT ![u].pc = pc], UNCHANGED <<file, durable>>
      PROVE  PutInv'
  <2> DEFINE state == [put[u] EXCEPT !.pc = pc]
  <2>1. state \in Put /\ state.pc = pc
    BY <1>2, PutFields DEF PutInv, Put
  <2>2. put' = [put EXCEPT ![u] = state]
    BY <1>2
  <2> QED
    BY <1>2, <2>1, <2>2, PutStep
<1>3. CASE Stat(u) \/ Fail(u)
  BY <1>2, <1>3, NoPutPc DEF Stat, Fail, At
<1>4. CASE Sync(u)
  <2> DEFINE state == [put[u] EXCEPT !.pc = "rename", !.synced = TRUE]
  <2>1. put[u] \in Put
    BY <1>4, PutFields, NoPutPc DEF PutInv, Sync, At
  <2>2. /\ state \in Put /\ state.pc = "rename" /\ state.synced
        /\ state.oid = put[u].oid /\ state.size = put[u].size
        /\ state.len = put[u].len /\ state.exact = put[u].exact
    BY <2>1 DEF Put
  <2>3. IsContent(put[u].oid, put[u]) /\ put[u].size = ContentSize[put[u].oid]
    BY <1>4 DEF PutInv, CopiedIsContent, Sync, At
  <2>4. put' = [put EXCEPT ![u] = state]
    BY <1>4 DEF Sync
  <2> QED
    BY <1>4, <2>2, <2>3, <2>4, PutStep DEF Sync, IsContent
<1>5. CASE End(u)
  BY <1>5, PutStep, NoPutPc DEF End
<1> QED
  BY <1>1, <1>3, <1>4, <1>5

LEMMA RenameStep ==
    ASSUME PutInv, NEW u \in Upload, Rename(u)
    PROVE  PutInv'
<1> DEFINE oid == put[u].oid
           new == [len |-> put[u].len, exact |-> put[u].exact,
                   synced |-> put[u].synced, exists |-> TRUE]
           state == [put[u] EXCEPT !.pc = "returned"]
<1>1. put[u] \in Put /\ oid \in Oid /\ put[u].len \in Nat /\ put[u].exact \in BOOLEAN
        /\ put[u].synced \in BOOLEAN
  BY PutFields, NoPutPc DEF PutInv, Rename, At
<1>2. put[u].synced /\ IsContent(oid, put[u])
  BY DEF PutInv, CopiedIsContent, Rename, At
<1>3. new \in File /\ new.exists /\ new.synced /\ IsContent(oid, new)
  BY <1>1, <1>2 DEF File, IsContent
<1>4. state \in Put /\ state.pc = "returned"
  BY <1>1 DEF Put
<1>5. put' = [put EXCEPT ![u] = state] /\ file' = [file EXCEPT ![oid] = new] /\ durable' = durable
  BY DEF Rename
<1> HIDE DEF new, state
<1>6. put'[u] = state /\ \A v \in Upload \ {u} : put'[v] = put[v]
  BY <1>5 DEF PutInv, TypeOK
<1>7. TypeOK'
  BY <1>1, <1>3, <1>4, <1>5 DEF PutInv, TypeOK
<1>8. CopiedIsContent' /\ \A v \in Upload : At(v, "rename")' => put'[v].synced
  BY <1>4, <1>6 DEF PutInv, CopiedIsContent, IsContent, At
<1>9. \A o \in Oid : \A f \in {file'[o], durable'[o]} : f.exists => f.synced /\ IsContent(o, f)
  BY <1>1, <1>3, <1>5 DEF PutInv, TypeOK
<1> QED
  BY <1>7, <1>8, <1>9 DEF PutInv, IsContent, At

LEMMA DiskSteps ==
    ASSUME PutInv, NEW oid \in Oid, Delete(oid) \/ Flush(oid)
    PROVE  PutInv'
<1>1. NoFile \in File /\ ~NoFile.exists
  BY DEF NoFile, File
<1> QED
  BY <1>1, DiskStep DEF PutInv, TypeOK, Delete, Flush

LEMMA PowerLossStep ==
    ASSUME PutInv, PowerLoss
    PROVE  PutInv'
<1>1. ASSUME NEW oid \in Oid
      PROVE  file'[oid] \in {file[oid], durable[oid]}
  <2>1. Recovered(file[oid]) = {file[oid]} /\ Recovered(durable[oid]) = {durable[oid]}
    BY DEF PutInv, Recovered
  <2> QED
    BY <2>1 DEF PowerLoss
<1>2. file' = [oid \in Oid |-> file'[oid]]
  BY DEF PowerLoss
<1>3. TypeOK'
  BY <1>1, <1>2 DEF PutInv, TypeOK, PowerLoss
<1>4. CopiedIsContent' /\ \A u \in Upload : At(u, "rename")' => put'[u].synced
  BY NoPutPc DEF PowerLoss, CopiedIsContent, At
<1>5. \A o \in Oid : \A f \in {file'[o], durable'[o]} : f.exists => f.synced /\ IsContent(o, f)
  BY <1>1 DEF PutInv, PowerLoss
<1> QED
  BY <1>3, <1>4, <1>5 DEF PutInv, IsContent, At

\* The inductive invariant holds, with losses of power.
THEOREM PutInvariant == PowerSpec => []PutInv
<1>1. Init => PutInv
  BY NoPutPc DEF Init, PutInv, TypeOK, CopiedIsContent, At, NoFile, File
<1>2. PutInv /\ [Next \/ PowerLoss]_vars => PutInv'
  <2> SUFFICES ASSUME PutInv, [Next \/ PowerLoss]_vars PROVE PutInv'
    OBVIOUS
  <2>1. CASE UNCHANGED vars
    BY <2>1 DEF vars, PutInv, TypeOK, CopiedIsContent, IsContent, At
  <2>2. ASSUME NEW u \in Upload, NEW n \in 0..MaxRead, NEW right \in BOOLEAN,
               NEW err \in {"nil", "EOF", "unexpected EOF", "other"}, Copy(u, n, right, err)
        PROVE  PutInv'
    BY <2>2, CopyStep
  <2>3. ASSUME NEW u \in Upload,
               \/ \E oid \in Oid, size \in Size : Begin(u, oid, size)
               \/ Stat(u) \/ Sync(u) \/ Rename(u) \/ Fail(u) \/ End(u)
        PROVE  PutInv'
    BY <2>3, OtherPutSteps, RenameStep
  <2>4. ASSUME NEW oid \in Oid, Delete(oid) \/ Flush(oid)
        PROVE  PutInv'
    BY <2>4, DiskSteps
  <2> QED
    BY <2>1, <2>2, <2>3, <2>4, PowerLossStep DEF Next
<1> QED
  BY <1>1, <1>2, PTL DEF PowerSpec

\* io.Copy ends well only for the object itself, sent with its true size
\* (exact_size_reader.go, sha256_reader.go).
THEOREM CopiedContent == PowerSpec => []CopiedIsContent
<1>1. PutInv => CopiedIsContent
  BY DEF PutInv
<1> QED
  BY <1>1, PutInvariant, PTL

\* A final path holds the whole object or nothing, also after a loss of power:
\* this is what Storage assumes of PutRename (filesystem.go:51-91).
THEOREM WholeFiles == PowerSpec => []FilesAreWhole
<1>1. PutInv => FilesAreWhole
  BY DEF PutInv, FilesAreWhole
<1> QED
  BY <1>1, PutInvariant, PTL

-----------------------------------------------------------------------------
(***************************************************************************)
(* Put implements what Storage says of it.                                 *)
(***************************************************************************)
LEMMA DiskURIs == \A oid \in Oid : URI(Disk, oid) \in StoredFiles <=> file[oid].exists
BY DEF URI, StoredFiles

\* A rename adds the object of the upload to what is stored.
LEMMA RenamePuts ==
    ASSUME PutInv, NEW u \in Upload, Rename(u)
    PROVE  /\ Promised!PutRename(Disk, put[u].oid, put[u].size)
           /\ put[u].oid \in Oid /\ put[u].size \in Size
           /\ put'[u].pc = "returned" /\ \A v \in Upload \ {u} : put'[v] = put[v]
<1> DEFINE oid == put[u].oid
<1>1. put[u] \in Put /\ oid \in Oid /\ put[u].size \in Size
  BY PutFields, NoPutPc DEF PutInv, Rename, At
<1>2. put[u].size = ContentSize[oid]
  BY DEF PutInv, CopiedIsContent, Rename, At
<1>3. \A o \in Oid : file'[o].exists <=> o = oid \/ file[o].exists
  BY <1>1 DEF PutInv, TypeOK, Rename
<1>4. StoredFiles' = StoredFiles \cup {URI(Disk, oid)}
  BY <1>1, <1>3 DEF StoredFiles
<1>5. put'[u].pc = "returned" /\ \A v \in Upload \ {u} : put'[v] = put[v]
  BY <1>1 DEF PutInv, TypeOK, Rename, Put
<1> QED
  BY <1>1, <1>2, <1>4, <1>5 DEF Promised!PutRename, Promised!URI, URI

\* Delete takes the object away, if it is there.
LEMMA DeleteTakes ==
    ASSUME PutInv, NEW oid \in Oid, Delete(oid)
    PROVE  \/ UNCHANGED StoredFiles
           \/ /\ URI(Disk, oid) \in StoredFiles
              /\ Promised!Delete(Disk, URI(Disk, oid))
<1>1. \A o \in Oid : file'[o].exists <=> o # oid /\ file[o].exists
  BY DEF PutInv, TypeOK, Delete, NoFile
<1>2. StoredFiles' = StoredFiles \ {URI(Disk, oid)}
  BY <1>1 DEF StoredFiles, URI
<1>3. Promised!Owns(Disk, URI(Disk, oid))
  BY DEF Promised!Owns, Promised!Uri, URI
<1> QED
  BY <1>2, <1>3 DEF Promised!Delete

\* The other steps of Put and of the disk leave the final paths alone.
LEMMA OthersLeaveFiles ==
    ASSUME PutInv, [Next]_vars,
           \A u \in Upload : ~Rename(u), \A oid \in Oid : ~Delete(oid)
    PROVE  /\ UNCHANGED StoredFiles
           /\ \A u \in Upload : ~At(u, "returned") /\ put'[u].pc = "returned"
                                => file[put[u].oid].exists /\ put[u].oid \in Oid
<1>1. UNCHANGED file
  BY DEF Next, Begin, Stat, Copy, Sync, Fail, End, Flush, vars
<1>2. ASSUME NEW u \in Upload, ~At(u, "returned"), put'[u].pc = "returned"
      PROVE  Stat(u)
  <2>1. ASSUME NEW v \in Upload, NEW state, put' = [put EXCEPT ![v] = state],
               state.pc # "returned"
        PROVE  FALSE
    BY <1>2, <2>1 DEF PutInv, TypeOK, At
  <2>2. ASSUME NEW v \in Upload, Stat(v)
        PROVE  Stat(u)
    BY <1>2, <2>2 DEF PutInv, TypeOK, At, Stat
  <2>3. ASSUME NEW v \in Upload, NEW oid \in Oid, NEW size \in Size, Begin(v, oid, size)
        PROVE  FALSE
    <3> DEFINE state == [pc |-> "stat", oid |-> oid, size |-> size, len |-> 0,
                         exact |-> TRUE, synced |-> FALSE]
    <3>1. put' = [put EXCEPT ![v] = state] /\ state.pc = "stat"
      BY <2>3 DEF Begin
    <3> HIDE DEF state
    <3> QED
      BY <2>1, <3>1
  <2>4. ASSUME NEW v \in Upload, NEW n \in 0..MaxRead, NEW right \in BOOLEAN,
               NEW err \in {"nil", "EOF", "unexpected EOF", "other"}, Copy(v, n, right, err)
        PROVE  FALSE
    <3> DEFINE bytes == [len |-> put[v].len + n, exact |-> put[v].exact /\ (right \/ n = 0)]
               result == SHA256Read(put[v].oid, bytes, ExactSizeRead(put[v].size, bytes.len, err))
               state == [put[v] EXCEPT !.len = bytes.len, !.exact = bytes.exact,
                                       !.pc = AfterRead(result)]
    <3>1. put' = [put EXCEPT ![v] = state] /\ put[v] \in Put
      BY <2>4, PutFields, NoPutPc DEF PutInv, Copy, At
    <3> HIDE DEF bytes, result
    <3>2. state.pc # "returned"
      BY <3>1 DEF AfterRead, Put
    <3> QED
      BY <2>1, <3>1, <3>2
  <2>5. ASSUME NEW v \in Upload, Sync(v) \/ Fail(v)
        PROVE  FALSE
    <3>1. put[v] \in Put
      BY <2>5, PutFields, NoPutPc DEF PutInv, Sync, Fail, At
    <3> QED
      BY <1>2, <2>5, <3>1 DEF PutInv, TypeOK, At, Sync, Fail, Put
  <2>6. ASSUME NEW v \in Upload, End(v)
        PROVE  FALSE
    BY <2>1, <2>6, NoPutPc DEF End
  <2>7. put' # put
    BY <1>2 DEF At
  <2> QED
    BY <2>2, <2>3, <2>4, <2>5, <2>6, <2>7 DEF Next, Flush, vars
<1>3. ASSUME NEW u \in Upload, Stat(u), put'[u].pc = "returned"
      PROVE  file[put[u].oid].exists /\ put[u].oid \in Oid
  <2>1. put[u] \in Put
    BY <1>3, PutFields, NoPutPc DEF PutInv, Stat, At
  <2> QED
    BY <1>3, <2>1 DEF PutInv, TypeOK, Stat, Put
<1>4. UNCHANGED StoredFiles
  BY <1>1 DEF StoredFiles
<1> QED
  BY <1>2, <1>3, <1>4

\* What Storage says of a filesystem backend is so (filesystem.go:51-117): an
\* object appears by one rename of a file of the claimed length, and disappears
\* by Delete alone, but for a loss of power.
THEOREM StoresWhatItPromised == PowerSpec => StoresAsPromised
<1> DEFINE Step ==
        \/ PowerLoss
        \/ /\ \A u \in Upload : ~At(u, "returned") /\ put'[u].pc = "returned"
                                 => URI(Disk, put[u].oid) \in StoredFiles'
           /\ \/ UNCHANGED StoredFiles
              \/ \E u \in Upload :
                     /\ At(u, "rename")
                     /\ Promised!PutRename(Disk, put[u].oid, put[u].size)
              \/ \E uri \in StoredFiles : Promised!Delete(Disk, uri)
<1>1. PutInv /\ [Next \/ PowerLoss]_vars => [Step]_vars
  <2> SUFFICES ASSUME PutInv, [Next]_vars
               PROVE  Step
    OBVIOUS
  <2>1. ASSUME NEW u \in Upload, Rename(u)
        PROVE  Step
    <3>1. /\ Promised!PutRename(Disk, put[u].oid, put[u].size)
          /\ put[u].oid \in Oid /\ At(u, "rename")
          /\ \A v \in Upload \ {u} : put'[v] = put[v]
      BY <2>1, RenamePuts DEF Rename
    <3>2. URI(Disk, put[u].oid) \in StoredFiles'
      BY <3>1 DEF Promised!PutRename, Promised!URI, URI
    <3> QED
      BY <3>1, <3>2 DEF At
  <2>2. ASSUME NEW oid \in Oid, Delete(oid)
        PROVE  Step
    <3>1. UNCHANGED put
      BY <2>2 DEF Delete
    <3> QED
      BY <2>2, <3>1, DeleteTakes DEF At
  <2>3. CASE (\A u \in Upload : ~Rename(u)) /\ \A oid \in Oid : ~Delete(oid)
    <3>1. /\ UNCHANGED StoredFiles
          /\ \A u \in Upload : ~At(u, "returned") /\ put'[u].pc = "returned"
                                => file[put[u].oid].exists /\ put[u].oid \in Oid
      BY <2>3, OthersLeaveFiles
    <3> QED
      BY <3>1, DiskURIs
  <2> QED
    BY <2>1, <2>2, <2>3
<1> QED
  BY <1>1, PutInvariant, PTL DEF PowerSpec, StoresAsPromised

\* Without losses of power the uploads to a disk implement all of Storage.
THEOREM ImplementsStorage == Spec => Promised!StorageSpec
<1>1. Init => Promised!StorageInit
  BY DEF Init, NoFile, StoredFiles, Promised!StorageInit
<1>2. PutInv /\ [Next]_vars => [Promised!StorageNext]_(Promised!storageVars)
  <2> SUFFICES ASSUME PutInv, [Next]_vars
               PROVE  Promised!StorageNext \/ UNCHANGED StoredFiles
    BY DEF Promised!storageVars
  <2>1. ASSUME NEW u \in Upload, Rename(u)
        PROVE  Promised!StorageNext
    BY <2>1, RenamePuts DEF Promised!StorageNext
  <2>2. ASSUME NEW oid \in Oid, Delete(oid)
        PROVE  Promised!StorageNext \/ UNCHANGED StoredFiles
    <3>1. URI(Disk, oid) \in Promised!Uri /\ Disk \in Backend
      BY DEF Promised!Uri, URI
    <3> QED
      BY <2>2, <3>1, DeleteTakes DEF Promised!StorageNext
  <2> QED
    BY <2>1, <2>2, OthersLeaveFiles
<1>3. Spec => PowerSpec
  BY PTL DEF Spec, PowerSpec
<1> QED
  BY <1>1, <1>2, <1>3, PutInvariant, PTL DEF Spec, Promised!StorageSpec
=============================================================================
