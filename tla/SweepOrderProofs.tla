-------------------------- MODULE SweepOrderProofs --------------------------
(***************************************************************************)
(* What ORDER BY, LIMIT and SKIP LOCKED give the janitor, for any number   *)
(* of rows, locks and batch sizes: the rows of a kind stay in one order,   *)
(* which only an older transaction can get into, and each sweep takes its  *)
(* front.                                                                  *)
(***************************************************************************)
EXTENDS SweepOrder, FiniteSetTheorems, FunctionTheorems, TLAPS

USE BatchAssumption

-----------------------------------------------------------------------------
(***************************************************************************)
(* Ranks in a finite strict order.                                         *)
(***************************************************************************)
Under(x, F, R) == {y \in F : <<y, x>> \in R}

Rank(x, F, R) == Cardinality(Under(x, F, R))

Front(n, F, R) == {x \in F : Rank(x, F, R) < n}

LEMMA RankType ==
    ASSUME NEW F, IsFiniteSet(F), NEW R, NEW x
    PROVE  IsFiniteSet(Under(x, F, R)) /\ Rank(x, F, R) \in Nat
BY FS_Subset, FS_CardinalityType DEF Under, Rank

LEMMA RankGrows ==
    ASSUME NEW F, IsFiniteSet(F), NEW R, IsStrictOrder(R, F),
           NEW x \in F, NEW y \in F, <<y, x>> \in R
    PROVE  Rank(y, F, R) < Rank(x, F, R)
<1>1. Under(y, F, R) \in SUBSET Under(x, F, R)
  BY DEF Under, IsStrictOrder
<1>2. Under(y, F, R) # Under(x, F, R)
  BY DEF Under, IsStrictOrder
<1>3. Rank(x, F, R) \in Nat /\ Rank(y, F, R) \in Nat /\ IsFiniteSet(Under(x, F, R))
  BY RankType
<1>4. Rank(y, F, R) <= Rank(x, F, R) /\ Rank(y, F, R) # Rank(x, F, R)
  BY <1>1, <1>2, <1>3, FS_Subset DEF Rank
<1> QED
  BY <1>3, <1>4

\* The rank is an injection of whatever lies under a rank into the numbers below.
LEMMA RankInjects ==
    ASSUME NEW F, IsFiniteSet(F), NEW R, IsStrictOrder(R, F), NEW n \in Nat,
           NEW S \in SUBSET F, \A x \in S : Rank(x, F, R) < n
    PROVE  [x \in S |-> Rank(x, F, R)] \in Injection(S, 0..(n - 1))
<1> DEFINE f == [x \in S |-> Rank(x, F, R)]
<1>1. \A x \in S : Rank(x, F, R) \in 0..(n - 1)
  BY RankType
<1>2. ASSUME NEW x \in S, NEW y \in S, f[x] = f[y]
      PROVE  x = y
  <2>1. Rank(x, F, R) = Rank(y, F, R) /\ Rank(x, F, R) \in Nat
    BY <1>2, RankType
  <2>2. <<x, y>> \notin R /\ <<y, x>> \notin R
    BY <2>1, RankGrows
  <2> QED
    BY <2>2 DEF IsStrictOrder
<1>3. f \in [S -> 0..(n - 1)]
  BY <1>1
<1> QED
  BY <1>2, <1>3, Fun_IsInj

LEMMA Below ==
    ASSUME NEW n \in Nat
    PROVE  IsFiniteSet(0..(n - 1)) /\ Cardinality(0..(n - 1)) = n
BY FS_Interval

LEMMA FrontSize ==
    ASSUME NEW F, IsFiniteSet(F), NEW R, IsStrictOrder(R, F), NEW n \in Nat
    PROVE  IsFiniteSet(Front(n, F, R)) /\ Cardinality(Front(n, F, R)) <= n
<1> DEFINE S == Front(n, F, R)
<1>1. [x \in S |-> Rank(x, F, R)] \in Injection(S, 0..(n - 1))
  BY RankInjects DEF Front
<1>2. IsFiniteSet(0..(n - 1)) /\ Cardinality(0..(n - 1)) = n
  BY Below
<1> QED
  BY <1>1, <1>2, FS_Injection

\* Whoever is not in front has a full front under it.
LEMMA FrontFull ==
    ASSUME NEW F, IsFiniteSet(F), NEW R, IsStrictOrder(R, F), NEW n \in Nat,
           NEW x \in F, x \notin Front(n, F, R)
    PROVE  Front(n, F, R) \subseteq Under(x, F, R) /\ Cardinality(Front(n, F, R)) = n
<1> DEFINE S == Front(n, F, R)
           U == Under(x, F, R)
           r == Rank(x, F, R)
           f == [y \in U |-> Rank(y, F, R)]
           g == [y \in S |-> Rank(y, F, R)]
<1>1. r \in Nat /\ n <= r /\ IsFiniteSet(U) /\ Cardinality(U) = r
  BY RankType DEF Front, Rank
<1>2. \A y \in F : Rank(y, F, R) \in Nat
  BY RankType
<1>3. S \subseteq U
  <2>1. ASSUME NEW y \in S PROVE <<y, x>> \in R
    <3>1. y \in F /\ Rank(y, F, R) < r
      BY <1>1, <1>2 DEF Front
    <3>2. <<x, y>> \notin R /\ x # y
      BY <1>1, <1>2, <3>1, RankGrows
    <3> QED
      BY <3>1, <3>2 DEF IsStrictOrder
  <2> QED
    BY <2>1 DEF Front, Under
<1>4. f \in Surjection(U, 0..(r - 1))
  <2>1. U \in SUBSET F /\ \A y \in U : Rank(y, F, R) < r
    BY RankGrows DEF Under
  <2>2. f \in Injection(U, 0..(r - 1))
    BY <1>1, <2>1, RankInjects
  <2>3. IsFiniteSet(0..(r - 1)) /\ Cardinality(0..(r - 1)) = r
    BY <1>1, Below
  <2> QED
    BY <1>1, <2>2, <2>3, FS_Injection
<1>5. g \in Injection(S, 0..(n - 1))
  BY RankInjects DEF Front
<1>6. g \in Surjection(S, 0..(n - 1))
  <2>1. ASSUME NEW k \in 0..(n - 1) PROVE \E y \in S : g[y] = k
    <3>1. k \in 0..(r - 1)
      BY <1>1
    <3>2. \A j \in 0..(r - 1) : \E y \in U : f[y] = j
      <4> HIDE DEF f, U, r
      <4> QED
        BY <1>4, Fun_SurjectionProperties
    <3>5. PICK y \in U : f[y] = k
      BY <3>1, <3>2
    <3>3. y \in F /\ Rank(y, F, R) = k
      BY <3>5 DEF Under
    <3>4. y \in S
      BY <3>3 DEF Front
    <3> QED
      BY <3>3, <3>4
  <2>2. g \in [S -> 0..(n - 1)]
    BY <1>5, Fun_InjectionProperties
  <2> QED
    BY <2>1, <2>2, Fun_IsSurj
<1>7. IsFiniteSet(0..(n - 1)) /\ Cardinality(0..(n - 1)) = n
  BY Below
<1>8. Cardinality(S) = n
  BY <1>5, <1>6, <1>7, FS_Injection
<1> QED
  BY <1>3, <1>8

-----------------------------------------------------------------------------
(***************************************************************************)
(* How times come, go and change in an order.                              *)
(***************************************************************************)
LEMMA TimesDiffer ==
    /\ CreationTimes \cap LinkTimes = {}
    /\ \A o \in Oid : CreatedAt(o) \notin LinkTimes /\ InsertTime(o) \notin LinkTimes
    /\ \A o \in Oid : VerifiedAt(o) \notin CreationTimes /\ TxTime(o) \notin CreationTimes
BY DEF CreationTimes, LinkTimes, CreatedAt, InsertTime, VerifiedAt, TxTime

LEMMA Members ==
    ASSUME NEW o \in Oid
    PROVE  /\ CreatedAt(o) \in CreationTimes <=> objects[o].status = "pending"
           /\ InsertTime(o) \in CreationTimes <=> o \in inserting
           /\ VerifiedAt(o) \in LinkTimes <=> IsVerified(o)
           /\ TxTime(o) \in LinkTimes <=> o \in running
BY DEF CreationTimes, LinkTimes, CreatedAt, InsertTime, VerifiedAt, TxTime

LEMMA StampedOrder ==
    ASSUME NEW S, NEW T, S \cap T = {}, NEW R,
           R \subseteq (S \X S) \cup (T \X T), IsStrictOrder(R, S), IsStrictOrder(R, T),
           NEW time, time \notin S \cup T
    PROVE  LET Q == R \cup (S \X {time})
               U == S \cup {time}
           IN  /\ Q \subseteq (U \X U) \cup (T \X T)
               /\ IsStrictOrder(Q, U) /\ IsStrictOrder(Q, T)
BY DEF IsStrictOrder

LEMMA RestrictedOrder ==
    ASSUME NEW S, NEW T, NEW R, NEW times,
           R \subseteq (S \X S) \cup (T \X T), IsStrictOrder(R, S), IsStrictOrder(R, T)
    PROVE  LET Q == {pair \in R : pair[1] \notin times /\ pair[2] \notin times}
               U == S \ times
               V == T \ times
           IN  /\ Q \subseteq (U \X U) \cup (V \X V)
               /\ IsStrictOrder(Q, U) /\ IsStrictOrder(Q, V)
BY DEF IsStrictOrder

\* A new time is behind all others of its kind.
LEMMA StampHolds ==
    ASSUME OrderOK, NEW time, time \notin CreationTimes \cup LinkTimes,
           \/ /\ Stamp(time, CreationTimes)
              /\ CreationTimes' = CreationTimes \cup {time} /\ LinkTimes' = LinkTimes
           \/ /\ Stamp(time, LinkTimes)
              /\ LinkTimes' = LinkTimes \cup {time} /\ CreationTimes' = CreationTimes
    PROVE  OrderOK'
<1>1. CASE Stamp(time, CreationTimes) /\ CreationTimes' = CreationTimes \cup {time}
                /\ LinkTimes' = LinkTimes
  BY <1>1, TimesDiffer, StampedOrder DEF OrderOK, Stamp
<1>2. CASE Stamp(time, LinkTimes) /\ LinkTimes' = LinkTimes \cup {time}
                /\ CreationTimes' = CreationTimes
  BY <1>2, TimesDiffer, StampedOrder DEF OrderOK, Stamp
<1> QED
  BY <1>1, <1>2

LEMMA ForgetHolds ==
    ASSUME OrderOK, NEW times, Forget(times),
           CreationTimes' = CreationTimes \ times, LinkTimes' = LinkTimes \ times
    PROVE  OrderOK'
BY RestrictedOrder DEF OrderOK, Forget, Without

\* A time that takes the place of another leaves the order as it is.
LEMMA RenamedOrder ==
    ASSUME NEW S, NEW T, S \cap T = {}, NEW R,
           R \subseteq (S \X S) \cup (T \X T), IsStrictOrder(R, S), IsStrictOrder(R, T),
           NEW from \in S, NEW to, to \notin S \cup T
    PROVE  LET Q == Renamed(R, from, to)
               U == (S \ {from}) \cup {to}
           IN  /\ Q \subseteq (U \X U) \cup (T \X T)
               /\ IsStrictOrder(Q, U) /\ IsStrictOrder(Q, T)
<1> DEFINE Settled(time) == IF time = from THEN to ELSE time
           Was(time) == IF time = to THEN from ELSE time
           Q == Renamed(R, from, to)
           U == (S \ {from}) \cup {to}
<1>0. Q = {<<Settled(pair[1]), Settled(pair[2])>> : pair \in R}
  BY DEF Renamed
<1> HIDE DEF Q
<1>1. ASSUME NEW s \in U \cup T, NEW t \in U \cup T
      PROVE  <<s, t>> \in Q <=> <<Was(s), Was(t)>> \in R
  <2>0. s # from /\ t # from
    OBVIOUS
  <2>1. ASSUME <<s, t>> \in Q PROVE <<Was(s), Was(t)>> \in R
    <3>1. PICK pair \in R : <<s, t>> = <<Settled(pair[1]), Settled(pair[2])>>
      BY <1>0, <2>1
    <3>2. pair = <<pair[1], pair[2]>> /\ pair[1] # to /\ pair[2] # to
      OBVIOUS
    <3> QED
      BY <3>1, <3>2
  <2>2. ASSUME <<Was(s), Was(t)>> \in R PROVE <<s, t>> \in Q
    <3>1. Settled(Was(s)) = s /\ Settled(Was(t)) = t
      BY <2>0
    <3> QED
      BY <1>0, <2>2, <3>1
  <2> QED
    BY <2>1, <2>2
<1>2. /\ \A s \in U : Was(s) \in S
      /\ \A s \in T : Was(s) \in T
      /\ \A s, t \in U \cup T : Was(s) = Was(t) => s = t
  OBVIOUS
<1>3. Q \subseteq (U \X U) \cup (T \X T)
  <2>1. ASSUME NEW pair \in R
        PROVE  <<Settled(pair[1]), Settled(pair[2])>> \in (U \X U) \cup (T \X T)
    OBVIOUS
  <2> QED
    BY <1>0, <2>1
<1>4. ASSUME NEW V, NEW W, W \subseteq U \cup T, \A s \in W : Was(s) \in V, IsStrictOrder(R, V)
      PROVE  IsStrictOrder(Q, W)
  <2> HIDE DEF Was, Q, U
  <2>1. \A s \in W : <<s, s>> \notin Q
    BY <1>1, <1>4 DEF IsStrictOrder
  <2>2. ASSUME NEW s \in W, NEW t \in W, NEW u \in W, <<s, t>> \in Q, <<t, u>> \in Q
        PROVE  <<s, u>> \in Q
    <3>1. <<Was(s), Was(t)>> \in R /\ <<Was(t), Was(u)>> \in R
      BY <1>1, <1>4, <2>2
    <3>2. <<Was(s), Was(u)>> \in R
      BY <1>4, <3>1 DEF IsStrictOrder
    <3> QED
      BY <1>1, <1>4, <3>2
  <2>3. ASSUME NEW s \in W, NEW t \in W, s # t
        PROVE  <<s, t>> \in Q \/ <<t, s>> \in Q
    <3>1. Was(s) # Was(t)
      BY <1>2, <1>4, <2>3
    <3>2. <<Was(s), Was(t)>> \in R \/ <<Was(t), Was(s)>> \in R
      BY <1>4, <3>1 DEF IsStrictOrder
    <3> QED
      BY <1>1, <1>4, <3>2
  <2> QED
    BY <2>1, <2>2, <2>3 DEF IsStrictOrder
<1>5. IsStrictOrder(Q, U) /\ IsStrictOrder(Q, T)
  <2> HIDE DEF Was, Q
  <2> QED
    BY <1>2, <1>4
<1> QED
  BY <1>3, <1>5 DEF Q

\* A row that takes the place of its statement or transaction, and loses another.
LEMMA SettleHolds ==
    ASSUME OrderOK, NEW from, NEW to, NEW times, Settle(from, to, times), from \notin times,
           to \notin (CreationTimes \ times) \cup (LinkTimes \ times),
           \/ /\ from \in CreationTimes
              /\ CreationTimes' = ((CreationTimes \ times) \ {from}) \cup {to}
              /\ LinkTimes' = LinkTimes \ times
           \/ /\ from \in LinkTimes
              /\ LinkTimes' = ((LinkTimes \ times) \ {from}) \cup {to}
              /\ CreationTimes' = CreationTimes \ times
    PROVE  OrderOK'
<1> DEFINE S == CreationTimes \ times
           T == LinkTimes \ times
           R == Without(times)
           Q == Renamed(R, from, to)
<1>1. R \subseteq (S \X S) \cup (T \X T) /\ IsStrictOrder(R, S) /\ IsStrictOrder(R, T)
  BY RestrictedOrder DEF OrderOK, Without
<1>2. S \cap T = {} /\ to \notin S \cup T /\ (from \in S \/ from \in T)
  BY TimesDiffer
<1>3. older' = Q
  BY DEF Settle
<1>4. CASE from \in CreationTimes /\ CreationTimes' = (S \ {from}) \cup {to} /\ LinkTimes' = T
  <2>1. from \in S
    BY <1>4
  <2> HIDE DEF S, T, R
  <2>2. /\ Q \subseteq (((S \ {from}) \cup {to}) \X ((S \ {from}) \cup {to})) \cup (T \X T)
        /\ IsStrictOrder(Q, (S \ {from}) \cup {to}) /\ IsStrictOrder(Q, T)
    BY <1>1, <1>2, <2>1, RenamedOrder
  <2> QED
    BY <1>3, <1>4, <2>2 DEF OrderOK
<1>5. CASE from \in LinkTimes /\ LinkTimes' = (T \ {from}) \cup {to} /\ CreationTimes' = S
  <2>1. from \in T
    BY <1>5
  <2> HIDE DEF S, T, R
  <2>2. R \subseteq (T \X T) \cup (S \X S) /\ T \cap S = {} /\ to \notin T \cup S
    BY <1>1, <1>2
  <2>3. /\ Q \subseteq (((T \ {from}) \cup {to}) \X ((T \ {from}) \cup {to})) \cup (S \X S)
        /\ IsStrictOrder(Q, (T \ {from}) \cup {to}) /\ IsStrictOrder(Q, S)
    BY <1>1, <2>1, <2>2, RenamedOrder
  <2> QED
    BY <1>3, <1>5, <2>3 DEF OrderOK
<1> QED
  BY <1>4, <1>5

-----------------------------------------------------------------------------
(***************************************************************************)
(* Type correctness.                                                       *)
(***************************************************************************)
LEMMA CommitRow ==
    ASSUME DbTypeOK, NEW repo \in Repo, NEW oid \in Oid, NEW size \in Size, NEW b \in Backend,
           \/ LinkObject(repo, oid, size, URI(b, oid))
           \/ VerifyObject(repo, oid, size, URI(b, oid))
    PROVE  /\ DbTypeOK'
           /\ objects'[oid].status = "verified" /\ objects'[oid] # Absent
           /\ \A o \in Oid \ {oid} : objects'[o] = objects[o]
           /\ IsVerified(oid) => objects' = objects
<1> DEFINE uri == URI(b, oid)
           row == Verified(size, uri)
<1>1. uri \in Uri
  BY DEF URI, Uri
<1>2. row \in Row /\ row.status = "verified"
  BY <1>1 DEF Row, Verified
<1>3. Absent.status = "absent" /\ Absent.size = Null
  BY DEF Absent
<1>4. objects = [o \in Oid |-> objects[o]] /\ objects[oid] \in Row
  BY DEF DbTypeOK
<1> HIDE DEF row, uri
<1>5. ASSUME NEW new \in Row, new.status = "verified",
             objects' = [objects EXCEPT ![oid] = new], IsVerified(oid) => new = objects[oid],
             repoObjects' = repoObjects \cup {<<repo, oid>>}
      PROVE  /\ DbTypeOK'
             /\ objects'[oid].status = "verified" /\ objects'[oid] # Absent
             /\ \A o \in Oid \ {oid} : objects'[o] = objects[o]
             /\ IsVerified(oid) => objects' = objects
  BY <1>3, <1>4, <1>5 DEF DbTypeOK
<1>6. CASE LinkObject(repo, oid, size, uri)
  <2>1. Upserted(oid, size, uri) \in Row /\ Upserted(oid, size, uri).status = "verified"
    BY <1>2, <1>4 DEF Upserted, IsVerified, row
  <2> QED
    BY <1>5, <1>6, <2>1 DEF LinkObject, Upserted
<1>7. CASE VerifyObject(repo, oid, size, uri)
  <2> DEFINE new == IF objects[oid].status = "pending" THEN row ELSE objects[oid]
  <2>1. new \in Row /\ new # Absent
    BY <1>2, <1>4, <1>7 DEF VerifyObject, row
  <2>2. new.status = "verified"
    BY <1>2, <1>4, <2>1 DEF Row
  <2>3. IsVerified(oid) => new = objects[oid]
    BY DEF IsVerified
  <2> QED
    BY <1>5, <1>7, <2>1, <2>2, <2>3 DEF VerifyObject, row
<1> QED
  BY <1>6, <1>7 DEF uri

\* What the status of a row says about the row.
LEMMA StatusOfRow ==
    ASSUME DbTypeOK, NEW oid \in Oid
    PROVE  /\ objects[oid].status \in {"absent", "pending", "verified"}
           /\ objects[oid].status = "absent" <=> objects[oid] = Absent
<1>1. objects[oid] \in Row /\ Absent.status = "absent"
  BY DEF DbTypeOK, Absent
<1>2. CASE objects[oid] = Absent
  BY <1>1, <1>2
<1>3. CASE objects[oid] \in [status : {"pending"}, size : {Null}, uri : {Null}, aged : BOOLEAN]
  BY <1>1, <1>3
<1>4. CASE objects[oid] \in [status : {"verified"}, size : Size, uri : Uri \cup {Ignored},
                             aged : {FALSE}]
  BY <1>1, <1>4
<1> QED
  BY <1>1, <1>2, <1>3, <1>4 DEF Row

\* Rows that stay what they are keep their times.
LEMMA SameTimes ==
    ASSUME DbTypeOK, \A o \in Oid : objects'[o].status = objects[o].status
    PROVE  /\ inserting' = inserting => CreationTimes' = CreationTimes
           /\ running' = running => LinkTimes' = LinkTimes
BY DEF CreationTimes, LinkTimes, IsVerified

LEMMA BeginInsertType ==
    ASSUME TypeOK, NEW oid \in Oid, BeginInsert(oid)
    PROVE  TypeOK'
<1>1. /\ UNCHANGED <<dbVars, running, locked>>
      /\ inserting' = inserting \cup {oid}
  BY DEF BeginInsert
<1>2. CreationTimes' = CreationTimes \cup {InsertTime(oid)} /\ LinkTimes' = LinkTimes
  BY <1>1 DEF CreationTimes, LinkTimes, IsVerified, dbVars
<1>3. InsertTime(oid) \notin CreationTimes \cup LinkTimes
  BY Members, TimesDiffer DEF BeginInsert
<1>4. OrderOK'
  BY <1>2, <1>3, StampHolds DEF BeginInsert, TypeOK
<1> QED
  BY <1>1, <1>4 DEF TypeOK, DbTypeOK, Rows, dbVars

LEMMA InsertType ==
    ASSUME TypeOK, NEW oid \in Oid, Insert(oid)
    PROVE  TypeOK'
<1>1. /\ oid \in inserting /\ inserting' = inserting \ {oid}
      /\ UNCHANGED <<running, locked>>
  BY DEF Insert
<1>2. CASE objects[oid] # Absent
  <2>1. UNCHANGED dbVars
    BY <1>2 DEF Insert, InsertPendingObject, dbVars
  <2>2. CreationTimes' = CreationTimes \ {InsertTime(oid)}
    BY <1>1, <2>1 DEF CreationTimes, InsertTime, CreatedAt, dbVars
  <2>3. LinkTimes' = LinkTimes \ {InsertTime(oid)}
    BY <1>1, <2>1 DEF LinkTimes, IsVerified, InsertTime, VerifiedAt, TxTime, dbVars
  <2>4. OrderOK'
    BY <1>2, <2>2, <2>3, ForgetHolds DEF Insert, TypeOK
  <2> QED
    BY <1>1, <2>1, <2>4 DEF TypeOK, DbTypeOK, Rows, dbVars
<1>3. CASE objects[oid] = Absent
  <2>1. Pending(FALSE) \in Row /\ Pending(FALSE).status = "pending" /\ Absent.status = "absent"
    BY DEF Pending, Row, Absent
  <2>2. /\ DbTypeOK' /\ objects'[oid].status = "pending"
        /\ \A o \in Oid \ {oid} : objects'[o] = objects[o]
    BY <1>3, <2>1 DEF Insert, InsertPendingObject, TypeOK, DbTypeOK
  <2>3. IsFiniteSet(Rows')
    <3>1. Rows' \subseteq Rows \cup {oid}
      BY <2>2 DEF Rows
    <3> QED
      BY <3>1, FS_AddElement, FS_Subset DEF TypeOK
  <2>4. /\ CreationTimes' = ((CreationTimes \ {}) \ {InsertTime(oid)}) \cup {CreatedAt(oid)}
        /\ LinkTimes' = LinkTimes \ {}
    <3>1. LinkTimes' = LinkTimes
      BY <1>1, <1>3, <2>1, <2>2 DEF LinkTimes, IsVerified
    <3>2. {o \in Oid : objects'[o].status = "pending"}
              = {o \in Oid : objects[o].status = "pending"} \cup {oid}
      BY <2>2
    <3>3. CreationTimes' = (CreationTimes \ {InsertTime(oid)}) \cup {CreatedAt(oid)}
      BY <1>1, <3>2 DEF CreationTimes, CreatedAt, InsertTime
    <3> QED
      BY <3>1, <3>3
  <2>5. CreatedAt(oid) \notin CreationTimes \cup LinkTimes /\ InsertTime(oid) \in CreationTimes
    BY <1>1, <1>3, <2>1, Members, TimesDiffer
  <2>6. Settle(InsertTime(oid), CreatedAt(oid), {})
    BY <1>3 DEF Insert
  <2>7. OrderOK'
    BY <2>4, <2>5, <2>6, SettleHolds DEF TypeOK
  <2> QED
    BY <1>1, <2>2, <2>3, <2>7 DEF TypeOK
<1> QED
  BY <1>2, <1>3

LEMMA InsertFailsType ==
    ASSUME TypeOK, NEW oid \in Oid, InsertFails(oid)
    PROVE  TypeOK'
<1>1. /\ UNCHANGED <<dbVars, running, locked>>
      /\ inserting' = inserting \ {oid}
  BY DEF InsertFails
<1>2. CreationTimes' = CreationTimes \ {InsertTime(oid)}
  BY <1>1 DEF CreationTimes, InsertTime, CreatedAt, dbVars
<1>3. LinkTimes' = LinkTimes \ {InsertTime(oid)}
  BY <1>1 DEF LinkTimes, IsVerified, InsertTime, VerifiedAt, TxTime, dbVars
<1>4. OrderOK'
  BY <1>2, <1>3, ForgetHolds DEF InsertFails, TypeOK
<1> QED
  BY <1>1, <1>4 DEF TypeOK, DbTypeOK, Rows, dbVars

LEMMA GrowsOldType ==
    ASSUME TypeOK, NEW oid \in Oid, GrowsOld(oid)
    PROVE  TypeOK'
<1>1. Pending(TRUE) \in Row /\ Pending(TRUE).status = "pending" /\ Absent.status = "absent"
  BY DEF Pending, Row, Absent
<1>2. /\ DbTypeOK' /\ \A o \in Oid : objects'[o].status = objects[o].status
      /\ \A o \in Oid : objects'[o] # Absent => objects[o] # Absent
  BY <1>1 DEF GrowsOld, Age, TypeOK, DbTypeOK
<1>3. IsFiniteSet(Rows')
  <2>1. Rows' \subseteq Rows
    BY <1>2 DEF Rows
  <2> QED
    BY <2>1, FS_Subset DEF TypeOK
<1>4. OrderOK'
  BY <1>2, SameTimes DEF TypeOK, OrderOK, GrowsOld, orderVars
<1> QED
  BY <1>2, <1>3, <1>4 DEF TypeOK, GrowsOld, orderVars

LEMMA TxType ==
    ASSUME TypeOK, NEW oid \in Oid, BeginTx(oid) \/ Lock(oid) \/ Rollback(oid)
    PROVE  TypeOK'
<1>1. UNCHANGED <<dbVars, inserting>>
  BY DEF BeginTx, Lock, Rollback, EndTx
<1>2. DbTypeOK' /\ IsFiniteSet(Rows') /\ CreationTimes' = CreationTimes
  BY <1>1 DEF TypeOK, DbTypeOK, Rows, CreationTimes, dbVars
<1>3. running' \subseteq Oid /\ locked' \subseteq running' /\ inserting' \subseteq Oid
  BY <1>1 DEF TypeOK, BeginTx, Lock, Rollback, EndTx
<1>4. CASE BeginTx(oid)
  <2>1. LinkTimes' = LinkTimes \cup {TxTime(oid)}
    BY <1>1, <1>4 DEF LinkTimes, BeginTx, IsVerified, dbVars
  <2>2. TxTime(oid) \notin CreationTimes \cup LinkTimes
    BY <1>4, Members, TimesDiffer DEF BeginTx
  <2>3. OrderOK'
    BY <1>2, <1>4, <2>1, <2>2, StampHolds DEF BeginTx, TypeOK
  <2> QED
    BY <1>2, <1>3, <2>3 DEF TypeOK
<1>5. CASE Lock(oid)
  <2>1. LinkTimes' = LinkTimes /\ older' = older
    BY <1>1, <1>5 DEF LinkTimes, Lock, IsVerified, dbVars
  <2> QED
    BY <1>2, <1>3, <2>1 DEF TypeOK, OrderOK
<1>6. CASE Rollback(oid)
  <2>1. LinkTimes' = LinkTimes \ {TxTime(oid)}
    BY <1>1, <1>6 DEF LinkTimes, Rollback, EndTx, IsVerified, dbVars, TxTime, VerifiedAt
  <2>2. CreationTimes' = CreationTimes \ {TxTime(oid)}
    BY <1>2, TimesDiffer
  <2>3. OrderOK'
    BY <1>6, <2>1, <2>2, ForgetHolds DEF Rollback, TypeOK
  <2> QED
    BY <1>2, <1>3, <2>3 DEF TypeOK
<1> QED
  BY <1>4, <1>5, <1>6

LEMMA CommitType ==
    ASSUME TypeOK, NEW repo \in Repo, NEW oid \in Oid, NEW size \in Size, NEW b \in Backend,
           Commit(repo, oid, size, URI(b, oid))
    PROVE  TypeOK'
<1>1. /\ DbTypeOK' /\ objects'[oid].status = "verified" /\ objects'[oid] # Absent
      /\ \A o \in Oid \ {oid} : objects'[o] = objects[o]
      /\ IsVerified(oid) => objects' = objects
  BY CommitRow DEF Commit, TypeOK
<1>2. /\ running' = running \ {oid} /\ locked' = locked \ {oid} /\ oid \in running
      /\ running' \subseteq Oid /\ locked' \subseteq running'
      /\ inserting' = inserting /\ inserting' \subseteq Oid
  BY DEF Commit, EndTx, TypeOK
<1>3. IsFiniteSet(Rows')
  <2>1. Rows' \subseteq Rows \cup {oid}
    BY <1>1 DEF Rows
  <2> QED
    BY <2>1, FS_AddElement, FS_Subset DEF TypeOK
<1>4. CASE IsVerified(oid)
  <2>1. LinkTimes' = LinkTimes \ {TxTime(oid)}
    BY <1>1, <1>2, <1>4 DEF LinkTimes, IsVerified, TxTime, VerifiedAt
  <2>2. CreationTimes' = CreationTimes \ {TxTime(oid)}
    BY <1>1, <1>2, <1>4, TimesDiffer DEF CreationTimes
  <2>3. OrderOK'
    BY <1>4, <2>1, <2>2, ForgetHolds DEF Commit, TypeOK
  <2> QED
    BY <1>1, <1>2, <1>3, <2>3 DEF TypeOK
<1>5. CASE ~IsVerified(oid)
  <2> DEFINE times == {CreatedAt(oid)}
  <2>1. LinkTimes' = ((LinkTimes \ times) \ {TxTime(oid)}) \cup {VerifiedAt(oid)}
    <3>1. LinkTimes' = (LinkTimes \ {TxTime(oid)}) \cup {VerifiedAt(oid)}
      BY <1>1, <1>2, <1>5 DEF LinkTimes, IsVerified, TxTime, VerifiedAt
    <3> QED
      BY <3>1, TimesDiffer
  <2>2. CreationTimes' = CreationTimes \ times
    <3>1. {o \in Oid : objects'[o].status = "pending"}
              = {o \in Oid : objects[o].status = "pending"} \ {oid}
      BY <1>1
    <3> QED
      BY <1>2, <3>1 DEF CreationTimes, CreatedAt, InsertTime
  <2>3. /\ TxTime(oid) \in LinkTimes /\ TxTime(oid) \notin times
        /\ VerifiedAt(oid) \notin CreationTimes \cup LinkTimes
    BY <1>2, <1>5, Members, TimesDiffer DEF TxTime, CreatedAt
  <2>4. Settle(TxTime(oid), VerifiedAt(oid), times)
    BY <1>5 DEF Commit
  <2>5. OrderOK'
    <3> HIDE DEF times
    <3> QED
      BY <2>1, <2>2, <2>3, <2>4, SettleHolds DEF TypeOK
  <2> QED
    BY <1>1, <1>2, <1>3, <2>5 DEF TypeOK
<1> QED
  BY <1>4, <1>5

LEMMA UnlinkType ==
    ASSUME TypeOK, NEW repo \in Repo, NEW oid \in Oid, OperatorUnlinks(repo, oid)
    PROVE  TypeOK'
BY DEF OperatorUnlinks, Unlink, TypeOK, DbTypeOK, Rows, OrderOK, CreationTimes, LinkTimes,
       IsVerified, orderVars

LEMMA TakeType ==
    ASSUME TypeOK, NEW rows \in SUBSET Oid, DeleteRows(rows), Take(rows)
    PROVE  TypeOK'
<1> DEFINE times == {CreatedAt(o) : o \in rows} \cup {VerifiedAt(o) : o \in rows}
<1>1. Absent \in Row /\ Absent.status = "absent"
  BY DEF Row, Absent
<1>2. \A o \in Oid : objects'[o] = IF o \in rows THEN Absent ELSE objects[o]
  BY DEF DeleteRows
<1>3. DbTypeOK'
  BY <1>1 DEF TypeOK, DbTypeOK, DeleteRows
<1>4. IsFiniteSet(Rows')
  <2>1. Rows' \subseteq Rows
    BY <1>2 DEF Rows
  <2> QED
    BY <2>1, FS_Subset DEF TypeOK
<1>5. CreationTimes' = CreationTimes \ times
  <2>1. inserting' = inserting
    BY DEF Take
  <2> QED
    BY <1>1, <1>2, <2>1 DEF CreationTimes, CreatedAt, InsertTime, VerifiedAt
<1>6. LinkTimes' = LinkTimes \ times
  BY <1>1, <1>2 DEF LinkTimes, IsVerified, CreatedAt, VerifiedAt, TxTime, Take
<1>7. OrderOK'
  <2>1. Forget(times)
    BY DEF Take
  <2> HIDE DEF times
  <2> QED
    BY <1>5, <1>6, <2>1, ForgetHolds DEF TypeOK
<1> QED
  BY <1>3, <1>4, <1>7 DEF TypeOK, Take

LEMMA SweepTakes ==
    ASSUME SweepOrphans \/ SweepUnreferenced
    PROVE  \E kind \in {Orphans, Unneeded} :
                DeleteRows(Selected(kind)) /\ Take(Selected(kind)) /\ Selected(kind) \subseteq Oid
BY DEF SweepOrphans, SweepUnreferenced, SweepOrphanObjects, SweepUnreferencedObjects,
       Selected, Orphans, Unneeded

LEMMA TypeNext == TypeOK /\ [Next]_vars => TypeOK'
<1> SUFFICES ASSUME TypeOK, [Next]_vars PROVE TypeOK'
  OBVIOUS
<1>1. CASE UNCHANGED vars
  BY <1>1 DEF TypeOK, OrderOK, DbTypeOK, Rows, CreationTimes, LinkTimes, IsVerified, vars,
              dbVars, orderVars
<1>2. CASE SweepOrphans \/ SweepUnreferenced
  BY <1>2, SweepTakes, TakeType
<1>3. ASSUME NEW oid \in Oid,
             \/ BeginInsert(oid) \/ Insert(oid) \/ InsertFails(oid) \/ GrowsOld(oid)
             \/ BeginTx(oid) \/ Lock(oid) \/ Rollback(oid)
             \/ \E repo \in Repo : OperatorUnlinks(repo, oid)
             \/ \E repo \in Repo, size \in Size, b \in Backend :
                    Commit(repo, oid, size, URI(b, oid))
      PROVE  TypeOK'
  BY <1>3, BeginInsertType, InsertType, InsertFailsType, GrowsOldType, TxType, UnlinkType,
     CommitType
<1> QED
  BY <1>1, <1>2, <1>3 DEF Next

\* The times of the rows of each kind, and of the transactions that may add to
\* them, are in a strict order, whatever is added, verified and swept.
THEOREM TypeCorrect == Spec => []TypeOK
<1>1. Init => TypeOK
  <2> SUFFICES ASSUME Init PROVE TypeOK
    OBVIOUS
  <2>1. Absent \in Row /\ Absent.status = "absent"
    BY DEF Row, Absent
  <2>2. DbTypeOK /\ Rows = {} /\ CreationTimes = {} /\ LinkTimes = {}
    BY <2>1 DEF Init, DbInit, DbTypeOK, Rows, CreationTimes, LinkTimes, IsVerified
  <2> QED
    BY <2>2, FS_EmptySet DEF Init, TypeOK, OrderOK, IsStrictOrder
<1> QED
  BY <1>1, TypeNext, PTL DEF Spec

-----------------------------------------------------------------------------
(***************************************************************************)
(* The order of the rows only gets shorter in front of a row.              *)
(***************************************************************************)
LEMMA ForgetKeepsOrder ==
    ASSUME NEW times, Forget(times), NEW oid \in Oid
    PROVE  Before(oid)' \subseteq Before(oid)
BY DEF Forget, Without, Before, Older

LEMMA StampKeepsOrder ==
    ASSUME NEW time, NEW times, Stamp(time, times), NEW oid \in Oid,
           time # CreatedAt(oid), time # VerifiedAt(oid)
    PROVE  Before(oid)' \subseteq Before(oid)
BY DEF Stamp, Before, Older

\* The row of o goes where its INSERT or transaction was, which counted already.
LEMMA SettleKeepsOrder ==
    ASSUME OrderOK, NEW o \in Oid, NEW oid \in Oid \ {o}, NEW from, NEW to, NEW times,
           Settle(from, to, times),
           \/ from = InsertTime(o) /\ to = CreatedAt(o)
           \/ from = TxTime(o) /\ to = VerifiedAt(o)
    PROVE  Before(oid)' \subseteq Before(oid)
<1> DEFINE Settled(time) == IF time = from THEN to ELSE time
<1>2. older' = {<<Settled(pair[1]), Settled(pair[2])>> : pair \in Without(times)}
  BY DEF Settle, Renamed
<1>3. ASSUME NEW s, NEW t \in {CreatedAt(oid), VerifiedAt(oid)}, <<s, t>> \in older'
      PROVE  <<s, t>> \in older \/ (s = to /\ <<from, t>> \in older)
  <2>1. PICK pair \in Without(times) : <<s, t>> = <<Settled(pair[1]), Settled(pair[2])>>
    BY <1>2, <1>3
  <2>2. pair = <<pair[1], pair[2]>> /\ pair \in older
    BY DEF OrderOK, Without
  <2>3. t # to
    BY DEF InsertTime, TxTime, CreatedAt, VerifiedAt
  <2>4. pair[2] = t /\ s = Settled(pair[1])
    BY <2>1, <2>3
  <2> QED
    BY <2>2, <2>4
<1>4. ASSUME NEW x \in Oid, x \in Before(oid)'
      PROVE  x \in Before(oid)
  <2>1. CASE <<CreatedAt(x), CreatedAt(oid)>> \in older'
    <3>1. \/ <<CreatedAt(x), CreatedAt(oid)>> \in older
          \/ CreatedAt(x) = to /\ <<from, CreatedAt(oid)>> \in older
      BY <1>3, <2>1
    <3>2. CreatedAt(x) = to => x = o /\ from = InsertTime(x)
      BY DEF CreatedAt, VerifiedAt
    <3> QED
      BY <3>1, <3>2 DEF Before, Older
  <2>2. CASE <<VerifiedAt(x), VerifiedAt(oid)>> \in older'
    <3>1. \/ <<VerifiedAt(x), VerifiedAt(oid)>> \in older
          \/ VerifiedAt(x) = to /\ <<from, VerifiedAt(oid)>> \in older
      BY <1>3, <2>2
    <3>2. VerifiedAt(x) = to => x = o /\ from = TxTime(x)
      BY DEF CreatedAt, VerifiedAt
    <3> QED
      BY <3>1, <3>2 DEF Before, Older
  <2>3. CASE <<InsertTime(x), CreatedAt(oid)>> \in older'
    <3>1. InsertTime(x) # to
      BY DEF InsertTime, CreatedAt, VerifiedAt
    <3> QED
      BY <1>3, <2>3, <3>1 DEF Before
  <2>4. CASE <<TxTime(x), VerifiedAt(oid)>> \in older'
    <3>1. TxTime(x) # to
      BY DEF TxTime, CreatedAt, VerifiedAt
    <3> QED
      BY <1>3, <2>4, <3>1 DEF Before
  <2> QED
    BY <1>4, <2>1, <2>2, <2>3, <2>4 DEF Before, Older
<1> QED
  BY <1>4 DEF Before

\* The objects that a sweep sees before a row become fewer while it waits: an
\* older INSERT or transaction that still gets its row was counted from its start.
THEOREM NoOvertaking == Spec => NeverOvertaken
<1> DEFINE Keeps == \A oid \in Oid :
                        objects[oid] # Absent /\ objects'[oid].status = objects[oid].status
                            => Before(oid)' \subseteq Before(oid)
<1>1. TypeOK /\ [Next]_vars => Keeps
  <2> SUFFICES ASSUME TypeOK, [Next]_vars PROVE Keeps
    OBVIOUS
  <2>1. older' = older => Keeps
    BY DEF Before, Older
  <2>2. ASSUME NEW o \in Oid, BeginInsert(o) \/ Insert(o) \/ InsertFails(o)
        PROVE  Keeps
    <3>1. CASE BeginInsert(o)
      <4>1. \A oid \in Oid : InsertTime(o) # CreatedAt(oid) /\ InsertTime(o) # VerifiedAt(oid)
        BY DEF InsertTime, CreatedAt, VerifiedAt
      <4> QED
        BY <3>1, <4>1, StampKeepsOrder DEF BeginInsert
    <3>2. CASE InsertFails(o) \/ (Insert(o) /\ objects[o] # Absent)
      BY <3>2, ForgetKeepsOrder DEF InsertFails, Insert
    <3>3. CASE Insert(o) /\ objects[o] = Absent
      BY <3>3, SettleKeepsOrder DEF Insert, TypeOK
    <3> QED
      BY <2>2, <3>1, <3>2, <3>3
  <2>3. ASSUME NEW o \in Oid, BeginTx(o)
        PROVE  Keeps
    <3>1. \A oid \in Oid : TxTime(o) # CreatedAt(oid) /\ TxTime(o) # VerifiedAt(oid)
      BY DEF TxTime, CreatedAt, VerifiedAt
    <3> QED
      BY <2>3, <3>1, StampKeepsOrder DEF BeginTx
  <2>4. ASSUME NEW o \in Oid, Rollback(o)
        PROVE  Keeps
    BY <2>4, ForgetKeepsOrder DEF Rollback
  <2>5. ASSUME NEW repo \in Repo, NEW o \in Oid, NEW size \in Size, NEW b \in Backend,
               Commit(repo, o, size, URI(b, o))
        PROVE  Keeps
    <3>1. CASE IsVerified(o)
      BY <2>5, <3>1, ForgetKeepsOrder DEF Commit
    <3>2. CASE ~IsVerified(o)
      <4>1. objects'[o].status # objects[o].status
        BY <2>5, <3>2, CommitRow DEF Commit, TypeOK, IsVerified
      <4> QED
        BY <2>5, <3>2, <4>1, SettleKeepsOrder DEF Commit, TypeOK
    <3> QED
      BY <3>1, <3>2
  <2>6. CASE SweepOrphans \/ SweepUnreferenced
    BY <2>6, ForgetKeepsOrder DEF SweepOrphans, SweepUnreferenced, Take
  <2> QED
    BY <2>1, <2>2, <2>3, <2>4, <2>5, <2>6
       DEF Next, GrowsOld, Lock, OperatorUnlinks, vars, orderVars
<1> QED
  BY <1>1, TypeCorrect, PTL DEF Spec, NeverOvertaken

-----------------------------------------------------------------------------
(***************************************************************************)
(* What one sweep takes.                                                   *)
(***************************************************************************)
LEMMA KindOrder ==
    ASSUME TypeOK, NEW kind \in {Orphans, Unneeded}
    PROVE  LET free == kind \ locked
               R == {pair \in free \X free : Older(pair[1], pair[2])}
           IN  /\ IsFiniteSet(free) /\ IsStrictOrder(R, free)
               /\ Selected(kind) = Front(SweepBatchSize, free, R)
<1> DEFINE free == kind \ locked
           R == {pair \in free \X free : Older(pair[1], pair[2])}
<1>1. free \subseteq Rows
  BY DEF Orphans, Unneeded, Orphan, Unreferenced, IsVerified, Rows, Absent
<1>2. IsFiniteSet(free)
  BY <1>1, FS_Subset DEF TypeOK
<1>3. IsStrictOrder(R, free)
  <2>1. CASE kind = Orphans
    <3>1. \A x \in free : x \in Oid /\ objects[x].status = "pending"
      BY <2>1 DEF Orphans, Orphan
    <3>2. \A x \in free : CreatedAt(x) \in CreationTimes /\ VerifiedAt(x) \notin LinkTimes
      BY <3>1, Members DEF IsVerified
    <3>3. \A x, y \in free : <<x, y>> \in R <=> <<CreatedAt(x), CreatedAt(y)>> \in older
      BY <3>1, <3>2, TimesDiffer DEF Older, TypeOK, OrderOK
    <3>4. \A x, y \in free : CreatedAt(x) = CreatedAt(y) => x = y
      BY DEF CreatedAt
    <3> HIDE DEF R
    <3> QED
      BY <3>2, <3>3, <3>4 DEF IsStrictOrder, TypeOK, OrderOK
  <2>2. CASE kind = Unneeded
    <3>1. \A x \in free : x \in Oid /\ IsVerified(x)
      BY <2>2 DEF Unneeded, Unreferenced
    <3>2. \A x \in free : VerifiedAt(x) \in LinkTimes /\ CreatedAt(x) \notin CreationTimes
      BY <3>1, Members DEF IsVerified
    <3>3. \A x, y \in free : <<x, y>> \in R <=> <<VerifiedAt(x), VerifiedAt(y)>> \in older
      BY <3>1, <3>2, TimesDiffer DEF Older, TypeOK, OrderOK
    <3>4. \A x, y \in free : VerifiedAt(x) = VerifiedAt(y) => x = y
      BY DEF VerifiedAt
    <3> HIDE DEF R
    <3> QED
      BY <3>2, <3>3, <3>4 DEF IsStrictOrder, TypeOK, OrderOK
  <2> QED
    BY <2>1, <2>2
<1>4. Selected(kind) = Front(SweepBatchSize, free, R)
  <2>1. ASSUME NEW x \in free PROVE Ahead(x, free) = Under(x, free, R)
    BY <2>1 DEF Ahead, Under
  <2> HIDE DEF R
  <2> QED
    BY <2>1 DEF Selected, Front, Rank
<1> QED
  BY <1>2, <1>3, <1>4

TakesFront ==
    /\ Taken \cap locked = {} /\ Cardinality(Taken) <= SweepBatchSize
    /\ \A kind \in {Orphans, Unneeded} : Taken \cap kind # {} =>
            \A oid \in kind \ (Taken \cup locked) : FullBatchBefore(oid)

LEMMA NothingTaken ==
    ASSUME Taken = {}
    PROVE  TakesFront
BY FS_EmptySet DEF TakesFront

LEMMA SweepTakesFront ==
    ASSUME TypeOK, NEW kind \in {Orphans, Unneeded}, DeleteRows(Selected(kind))
    PROVE  TakesFront
<1> DEFINE free == kind \ locked
           R == {pair \in free \X free : Older(pair[1], pair[2])}
           front == Front(SweepBatchSize, free, R)
<1>1. /\ IsFiniteSet(free) /\ IsStrictOrder(R, free)
      /\ Selected(kind) = front
  BY KindOrder
<1>2. front \subseteq free
  BY DEF Front
<1>3. kind \subseteq Rows
  BY DEF Orphans, Unneeded, Orphan, Unreferenced, IsVerified, Rows, Absent
<1>4. Taken = front
  BY <1>1, <1>2, <1>3 DEF Taken, DeleteRows, Rows
<1>5. Cardinality(front) <= SweepBatchSize
  <2> HIDE DEF R, free
  <2> QED
    BY <1>1, FrontSize
<1>6. ASSUME NEW oid \in free, oid \notin front
      PROVE  FullBatchBefore(oid)
  <2>1. front \subseteq Under(oid, free, R) /\ Cardinality(front) = SweepBatchSize
    <3> HIDE DEF R, free
    <3> QED
      BY <1>1, <1>6, FrontFull
  <2>2. Under(oid, free, R) \subseteq Before(oid)
    BY <1>3 DEF Under, Before, Rows
  <2> QED
    BY <1>4, <2>1, <2>2 DEF FullBatchBefore
<1>7. ASSUME NEW other \in {Orphans, Unneeded}, front \cap other # {}
      PROVE  other = kind
  BY <1>2, <1>7 DEF Orphans, Unneeded, Orphan, Unreferenced, IsVerified
<1> HIDE DEF front
<1> QED
  BY <1>2, <1>4, <1>5, <1>6, <1>7 DEF TakesFront

\* A sweep takes at most its batch, nothing that is locked, and leaves a free row
\* behind only if its batch is full of older rows of that kind.
THEOREM SweepsOldestFirst == Spec => OldestFirst
<1>1. TypeOK /\ [Next]_vars => TakesFront
  <2> SUFFICES ASSUME TypeOK, [Next]_vars PROVE TakesFront
    OBVIOUS
  <2>1. CASE SweepOrphans \/ SweepUnreferenced
    BY <2>1, SweepTakes, SweepTakesFront
  <2>2. ASSUME NEW oid \in Oid, Insert(oid) \/ GrowsOld(oid)
        PROVE  Taken = {}
    <3>1. \A aged \in BOOLEAN : Pending(aged) # Absent
      BY DEF Pending, Absent
    <3> QED
      BY <2>2, <3>1 DEF Taken, Rows, Insert, InsertPendingObject, GrowsOld, Age, TypeOK, DbTypeOK
  <2>3. ASSUME NEW repo \in Repo, NEW oid \in Oid, NEW size \in Size, NEW b \in Backend,
               Commit(repo, oid, size, URI(b, oid))
        PROVE  Taken = {}
    BY <2>3, CommitRow DEF Commit, Taken, Rows, TypeOK
  <2>4. ASSUME UNCHANGED objects
        PROVE  Taken = {}
    BY <2>4 DEF Taken, Rows
  <2> QED
    BY <2>1, <2>2, <2>3, <2>4, NothingTaken
       DEF Next, BeginInsert, InsertFails, BeginTx, Lock, Rollback, OperatorUnlinks, Unlink, vars,
           dbVars
<1> QED
  BY <1>1, TypeCorrect, PTL DEF Spec, OldestFirst, TakesFront
=============================================================================
