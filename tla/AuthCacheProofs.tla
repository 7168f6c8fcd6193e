--------------------------- MODULE AuthCacheProofs ---------------------------
(***************************************************************************)
(* What a permission that is acted on is worth, for any number of requests *)
(* and keys and any TTLs and clocks that satisfy TimeAssumption.           *)
(***************************************************************************)
EXTENDS AuthCache, TLAPS

(***************************************************************************)
(* Answers under way and cached permissions grow old exactly as fast as    *)
(* the timeout and the TTL run down.                                       *)
(***************************************************************************)
AnswerHolds(r) ==
    LET key == req[r].key IN
    /\ req[r].pc = "repos" => kind[key] = "github"
    /\ req[r].pc \in {"receive-pack", "upload-pack"} => kind[key] = "gitlab"
    /\ \A perm \in Permission :
          Calling(r) /\ req[r].answer \in Permission /\ Covers(req[r].answer, perm)
          => age[key][perm] + req[r].wait <= CallTimeout

EntryHolds(key) ==
    Hit(key) =>
        /\ cache[key].perm \in Permission
        /\ \A perm \in Permission :
              Covers(cache[key].perm, perm) => age[key][perm] + cache[key].left <= Staleness

\* An entry ends a margin before the expiry that was announced, or it began
\* at that very instant.
EndHolds(key) ==
    /\ header[key] # "absent" => kind[key] = "github" /\ life[key] # Never
    /\ Hit(key) => header[key] # "unparsable"
    /\ header[key] = "date" /\ Hit(key) =>
          \/ cache[key].left <= life[key] - skew - TTLMargin
          \/ cache[key].left = life[key] - skew + TTLDefault

\* What the forge grants now is no time ago.
NowHolds(key) ==
    \A perm \in Permission :
        Grants(key) # "none" /\ Covers(Grants(key), perm) => age[key][perm] = 0

AInv ==
    /\ TypeOK
    /\ \A r \in Req : AnswerHolds(r)
    /\ \A key \in Key : EntryHolds(key) /\ EndHolds(key) /\ NowHolds(key)

USE TimeAssumption DEF config

-----------------------------------------------------------------------------
LEMMA TTLType ==
    ASSUME NEW raw \in Int
    PROVE  /\ AuthCacheTTL(raw) \in Int
           /\ AuthCacheTTL(raw) <= TTLMax
           /\ AuthCacheTTL(raw) >= 0 => AuthCacheTTL(raw) > 0 /\ raw >= 0
           /\ raw = 0 => AuthCacheTTL(raw) = TTLDefault
           /\ AuthCacheTTL(raw) >= 0 /\ raw # 0 => AuthCacheTTL(raw) <= raw - TTLMargin
<1> DEFINE ttl == IF raw = 0 THEN TTLDefault ELSE raw - TTLMargin
<1>1. ttl \in Int
  OBVIOUS
<1>2. AuthCacheTTL(raw) = IF raw < 0 \/ ttl <= 0 THEN -1
                          ELSE IF ttl > TTLMax THEN TTLMax ELSE ttl
  BY DEF AuthCacheTTL
<1> QED
  BY <1>1, <1>2

LEMMA InitInv == Init => AInv
<1> SUFFICES ASSUME Init PROVE AInv
  OBVIOUS
<1>1. TypeOK
  BY DEF Init, TypeOK, NoEntry, Level, Permission, Staleness, MinLife
<1>2. \A r \in Req : AnswerHolds(r)
  BY DEF Init, AnswerHolds, Idle, Calling
<1>3. \A key \in Key : EntryHolds(key) /\ EndHolds(key)
  BY DEF Init, EntryHolds, EndHolds, NoEntry, Hit
<1>4. \A key \in Key : NowHolds(key)
  BY DEF Init, NowHolds, Grants
<1> QED
  BY <1>1, <1>2, <1>3, <1>4 DEF AInv

-----------------------------------------------------------------------------
(***************************************************************************)
(* Requests.                                                               *)
(***************************************************************************)
LEMMA ReqFields ==
    ASSUME TypeOK, NEW r \in Req
    PROVE  /\ Calling(r) => /\ req[r] \in Calls
                            /\ req[r].key \in Key /\ req[r].need \in Permission
                            /\ req[r].wait \in 0..CallTimeout
                            /\ req[r].answer \in Level \cup {"awaited"}
           /\ req[r] # Idle => req[r].key \in Key /\ req[r].need \in Permission
           /\ req[r] # Idle /\ ~Calling(r) => req[r] \in Done
BY DEF TypeOK, Calls, Done, Idle, Calling

LEMMA FinishedType ==
    ASSUME NEW key \in Key, NEW need \in Permission, NEW level \in Level
    PROVE  /\ Decided(key, need, level) \in Done
           /\ Decided(key, need, level).key = key /\ Decided(key, need, level).need = need
           /\ Decided(key, need, level).pc = "served" => Covers(level, need)
           /\ Finished(key, need, "refused") \in Done
           /\ Finished(key, need, "failed") \in Done
           /\ Finished(key, need, "refused").pc = "refused"
           /\ Finished(key, need, "failed").pc = "failed"
BY DEF Decided, Finished, Done

LEMMA CallType ==
    ASSUME NEW key \in Key, NEW need \in Permission,
           NEW endpoint \in {"repos", "receive-pack", "upload-pack"}
    PROVE  /\ Call(key, need, endpoint) \in Calls
           /\ Call(key, need, endpoint).pc = endpoint
           /\ Call(key, need, endpoint).key = key
           /\ Call(key, need, endpoint).answer = "awaited"
BY DEF Call, Calls

\* A step of one request that changes nothing but that request and entries of
\* the cache that hold afterwards.
LEMMA RequestStep ==
    ASSUME AInv, NEW r \in Req, NEW state \in {Idle} \cup Calls \cup Done,
           Becomes(r, state), UNCHANGED <<config, granted, life, header, skew, age>>,
           cache' \in [Key -> [perm : Level, left : 0..TTLMax]],
           \A key \in Key : (EntryHolds(key) /\ EndHolds(key))',
           state \in Calls =>
              /\ state.pc = "repos" => kind[state.key] = "github"
              /\ state.pc \in {"receive-pack", "upload-pack"} => kind[state.key] = "gitlab"
              /\ \A perm \in Permission :
                    state.answer \in Permission /\ Covers(state.answer, perm)
                    => age[state.key][perm] + state.wait <= CallTimeout
    PROVE  AInv'
<1>1. TypeOK'
  BY DEF AInv, TypeOK, Becomes
<1>2. req'[r] = state /\ \A q \in Req \ {r} : req'[q] = req[q]
  BY DEF AInv, TypeOK, Becomes
<1>3. ASSUME NEW q \in Req \ {r}
      PROVE  AnswerHolds(q)'
  BY <1>2 DEF AInv, AnswerHolds, Calling
<1>4. AnswerHolds(r)'
  <2>1. CASE state \in Calls
    BY <2>1, <1>2 DEF AnswerHolds, Calling
  <2>2. CASE state \in {Idle} \cup Done
    BY <2>2, <1>2 DEF AnswerHolds, Calling, Idle, Done
  <2> QED
    BY <2>1, <2>2
<1>5. \A key \in Key : NowHolds(key)'
  BY DEF AInv, NowHolds, Grants
<1> QED
  BY <1>1, <1>3, <1>4, <1>5 DEF AInv

LEMMA SameCache ==
    ASSUME AInv, UNCHANGED <<config, granted, life, header, skew, cache, age>>
    PROVE  /\ cache' \in [Key -> [perm : Level, left : 0..TTLMax]]
           /\ \A key \in Key : (EntryHolds(key) /\ EndHolds(key))'
BY DEF AInv, TypeOK, EntryHolds, EndHolds, Hit

LEMMA ArriveStep ==
    ASSUME AInv, NEW r \in Req, NEW key \in Key, NEW need \in Permission,
           Arrive(r, key, need)
    PROVE  AInv'
<1> DEFINE state == req'[r]
<1>1. /\ cache' \in [Key -> [perm : Level, left : 0..TTLMax]]
      /\ \A k \in Key : (EntryHolds(k) /\ EndHolds(k))'
  BY SameCache DEF Arrive
<1>2. cache[key].perm \in Level
  BY DEF AInv, TypeOK
<1>3. CASE \/ Becomes(r, Finished(key, need, "refused"))
           \/ Becomes(r, Decided(key, need, cache[key].perm))
           \/ Becomes(r, Decided(key, need, "write"))
  <2>1. Done \cap Calls = {}
    BY DEF Done, Calls
  <2>2. "write" \in Level
    BY DEF Level, Permission
  <2> QED
    BY <1>1, <1>2, <1>3, <2>1, <2>2, FinishedType, RequestStep DEF Arrive
<1>4. CASE kind[key] = "github" /\ Becomes(r, Call(key, need, "repos"))
  BY <1>1, <1>4, CallType, RequestStep DEF Arrive, Permission
<1>5. CASE kind[key] = "gitlab" /\ Becomes(r, Call(key, need, "receive-pack"))
  BY <1>1, <1>5, CallType, RequestStep DEF Arrive, Permission
<1> QED
  BY <1>3, <1>4, <1>5 DEF Arrive

LEMMA ForgeAnswersStep ==
    ASSUME AInv, NEW r \in Req, ForgeAnswers(r)
    PROVE  AInv'
<1> DEFINE key == req[r].key
           level == Grants(key)
           answer == CASE req[r].pc = "repos" -> level
                       [] req[r].pc = "receive-pack" -> IF level = "write" THEN "write" ELSE "none"
                       [] req[r].pc = "upload-pack" -> IF level = "none" THEN "none" ELSE "read"
           state == [req[r] EXCEPT !.answer = answer]
<1>1. req[r] \in Calls /\ key \in Key /\ req[r].wait \in 0..CallTimeout
  BY ReqFields DEF AInv, ForgeAnswers
<1>2. level \in Level
  BY <1>1 DEF AInv, TypeOK, Grants, Level
<1>3. answer \in Level
  BY <1>1, <1>2 DEF Calls, Level, Permission
<1>4. state \in Calls /\ state.pc = req[r].pc /\ state.key = key /\ state.answer = answer
        /\ state.wait = req[r].wait
  BY <1>1, <1>3 DEF Calls
<1>5. Becomes(r, state)
  BY <1>1 DEF ForgeAnswers, Becomes, AInv, TypeOK
<1>6. \A perm \in Permission :
            answer \in Permission /\ Covers(answer, perm) => age[key][perm] = 0
  <2>1. \A perm \in Permission :
            level # "none" /\ Covers(level, perm) => age[key][perm] = 0
    BY <1>1 DEF AInv, NowHolds
  <2>2. CASE req[r].pc = "repos"
    BY <2>1, <2>2 DEF Permission
  <2>3. CASE req[r].pc = "receive-pack"
    BY <2>1, <2>3 DEF Permission, Covers
  <2>4. CASE req[r].pc = "upload-pack"
    BY <1>2, <2>1, <2>4 DEF Permission, Covers, Level
  <2> QED
    BY <1>1, <2>2, <2>3, <2>4 DEF Calls
<1>7. AnswerHolds(r)
  BY DEF AInv
<1>8. /\ cache' \in [Key -> [perm : Level, left : 0..TTLMax]]
      /\ \A k \in Key : (EntryHolds(k) /\ EndHolds(k))'
  BY SameCache DEF ForgeAnswers
<1> HIDE DEF answer, state
<1> QED
  BY <1>1, <1>4, <1>5, <1>6, <1>7, <1>8, RequestStep DEF ForgeAnswers, AnswerHolds

LEMMA AuthorizedStep ==
    ASSUME AInv, NEW r \in Req, Authorized(r)
    PROVE  AInv'
<1> DEFINE key == req[r].key
           raw == RawTTL(r)
           ttl == AuthCacheTTL(raw)
           answer == req[r].answer
           entry == [perm |-> answer, left |-> ttl]
           state == Decided(key, req[r].need, answer)
<1>1. /\ req[r] \in Calls /\ key \in Key /\ req[r].need \in Permission
      /\ req[r].wait \in 0..CallTimeout /\ answer \in Permission /\ answer \in Level
  BY ReqFields DEF AInv, Authorized, Level
<1>2. AnswerHolds(r) /\ EndHolds(key) /\ TypeOK
  BY <1>1 DEF AInv
<1>3. /\ raw \in Int
      /\ header[key] = "unparsable" => raw < 0
      /\ header[key] = "date" => raw = life[key] - skew
  <2>1. header[key] # "absent" => req[r].pc = "repos" /\ life[key] # Never
    BY <1>1, <1>2 DEF AnswerHolds, EndHolds, Authorized, Calling
  <2>2. skew \in Int /\ (life[key] # Never => life[key] \in Int)
    BY <1>1, <1>2 DEF TypeOK, MinLife
  <2>3. header[key] \in {"absent", "unparsable", "date"}
    BY <1>1, <1>2 DEF TypeOK
  <2>4. CASE header[key] = "absent"
    BY <2>4 DEF RawTTL, GithubTokenTTL
  <2>5. CASE header[key] = "unparsable"
    BY <2>1, <2>5 DEF RawTTL, GithubTokenTTL
  <2>6. CASE header[key] = "date"
    BY <2>1, <2>2, <2>6 DEF RawTTL, GithubTokenTTL
  <2> QED
    BY <2>3, <2>4, <2>5, <2>6
<1> HIDE DEF raw
<1>4. /\ ttl \in Int /\ ttl <= TTLMax
      /\ ttl >= 0 => ttl > 0 /\ raw >= 0
      /\ raw = 0 => ttl = TTLDefault
      /\ ttl >= 0 /\ raw # 0 => ttl <= raw - TTLMargin
  BY <1>3, TTLType
<1>5. cache' = IF ttl < 0 THEN cache ELSE [cache EXCEPT ![key] = entry]
  BY DEF Authorized, raw
<1> HIDE DEF ttl
<1>6. \A perm \in Permission :
            Covers(answer, perm) => age[key][perm] \in Nat /\ age[key][perm] <= CallTimeout
  BY <1>1, <1>2 DEF AnswerHolds, TypeOK, Authorized, Staleness
<1>7. cache' \in [Key -> [perm : Level, left : 0..TTLMax]]
  BY <1>1, <1>2, <1>4, <1>5 DEF TypeOK
<1>8. ASSUME NEW k \in Key
      PROVE  (EntryHolds(k) /\ EndHolds(k))'
  <2>1. CASE ttl < 0 \/ k # key
    <3>1. cache'[k] = cache[k]
      BY <1>2, <1>5, <2>1 DEF TypeOK
    <3> QED
      BY <3>1 DEF AInv, EntryHolds, EndHolds, Hit, Authorized
  <2>2. CASE ttl >= 0 /\ k = key
    <3>1. cache'[k] = entry /\ entry.perm = answer /\ entry.left = ttl
      BY <1>2, <1>4, <1>5, <2>2 DEF TypeOK
    <3>2. EntryHolds(k)'
      BY <1>1, <1>4, <1>6, <2>2, <3>1 DEF EntryHolds, Staleness, Authorized
    <3>3. header[key] # "unparsable"
      BY <1>3, <1>4, <2>2
    <3>4. header[key] = "date" =>
            \/ ttl <= life[key] - skew - TTLMargin
            \/ ttl = life[key] - skew + TTLDefault
      BY <1>3, <1>4, <2>2
    <3>5. EndHolds(k)'
      BY <1>2, <2>2, <3>1, <3>3, <3>4 DEF EndHolds, Authorized
    <3> QED
      BY <3>2, <3>5
  <2> QED
    BY <1>4, <2>1, <2>2
<1>9. state \in Done /\ Done \cap Calls = {}
  BY <1>1, FinishedType DEF Done, Calls
<1> QED
  BY <1>7, <1>8, <1>9, RequestStep DEF Authorized

\* The other ends of a call leave the cache alone.
LEMMA OtherRequestSteps ==
    ASSUME AInv, NEW r \in Req, Denied(r) \/ CallFails(r) \/ Finish(r)
    PROVE  AInv'
<1>1. /\ UNCHANGED <<config, granted, life, header, skew, cache, age>>
      /\ cache' \in [Key -> [perm : Level, left : 0..TTLMax]]
      /\ \A k \in Key : (EntryHolds(k) /\ EndHolds(k))'
  BY SameCache DEF Denied, CallFails, Finish
<1>2. Done \cap Calls = {} /\ Idle \notin Calls /\ "none" \in Level
  BY DEF Done, Calls, Idle, Level
<1>3. CASE Denied(r)
  <2>1. req[r].key \in Key /\ req[r].need \in Permission /\ AnswerHolds(r)
    BY <1>3, ReqFields DEF AInv, Denied
  <2>2. CASE req[r].pc = "receive-pack"
    <3>1. Becomes(r, Call(req[r].key, req[r].need, "upload-pack"))
            /\ kind[req[r].key] = "gitlab"
      BY <1>3, <2>1, <2>2 DEF Denied, AnswerHolds
    <3> QED
      BY <1>1, <2>1, <3>1, CallType, RequestStep DEF Permission
  <2>3. CASE req[r].pc # "receive-pack"
    BY <1>1, <1>2, <1>3, <2>1, <2>3, FinishedType, RequestStep DEF Denied
  <2> QED
    BY <2>2, <2>3
<1>4. CASE CallFails(r)
  <2>1. req[r].key \in Key /\ req[r].need \in Permission
    BY <1>4, ReqFields DEF AInv, CallFails
  <2> QED
    BY <1>1, <1>2, <1>4, <2>1, FinishedType, RequestStep DEF CallFails
<1>5. CASE Finish(r)
  BY <1>1, <1>2, <1>5, RequestStep DEF Finish
<1> QED
  BY <1>3, <1>4, <1>5

-----------------------------------------------------------------------------
(***************************************************************************)
(* The environment.                                                        *)
(***************************************************************************)
LEMMA AgedBound ==
    ASSUME TypeOK, NEW elapsed \in {0, 1}, age' = Aged(elapsed)
    PROVE  /\ age' \in [Key -> [Permission -> 0..Staleness + 1]]
           /\ \A key \in Key : NowHolds(key)'
           /\ \A key \in Key, perm \in Permission :
                /\ age[key][perm] \in Nat
                /\ age'[key][perm] \in Nat
                /\ age'[key][perm] <= age[key][perm] + elapsed
<1>1. \A key \in Key, perm \in Permission : age[key][perm] \in 0..Staleness + 1
  BY DEF TypeOK
<1>2. Staleness \in Nat
  BY DEF Staleness
<1>3. \A key \in Key, perm \in Permission :
        age'[key][perm] =
            IF Grants(key)' # "none" /\ Covers(Grants(key)', perm) THEN 0
            ELSE IF age[key][perm] > Staleness THEN age[key][perm]
            ELSE age[key][perm] + elapsed
  BY DEF Aged
<1>4. \A key \in Key, perm \in Permission :
        age'[key][perm] \in 0..Staleness + 1 /\ age'[key][perm] <= age[key][perm] + elapsed
  BY <1>1, <1>2, <1>3
<1>5. age' \in [Key -> [Permission -> 0..Staleness + 1]]
  <2>1. age' = [key \in Key |-> [perm \in Permission |-> age'[key][perm]]]
    BY DEF Aged
  <2> QED
    BY <2>1, <1>4
<1>6. \A key \in Key : NowHolds(key)'
  BY <1>3 DEF NowHolds
<1> QED
  BY <1>1, <1>2, <1>4, <1>5, <1>6

LEMMA ChangeStep ==
    ASSUME AInv, NEW k \in Key, NEW level \in Level, Change(k, level)
    PROVE  AInv'
<1>1. /\ UNCHANGED <<config, life, header, skew, cache, req>>
      /\ age' = Aged(0) /\ TypeOK
  BY DEF Change, AInv
<1>2. TypeOK'
  BY <1>1, AgedBound DEF TypeOK, Change
<1>3. \A key \in Key, perm \in Permission :
            age[key][perm] \in Nat /\ age'[key][perm] \in Nat /\ age'[key][perm] <= age[key][perm]
  BY <1>1, AgedBound
<1>4. ASSUME NEW r \in Req PROVE AnswerHolds(r)'
  <2>1. AnswerHolds(r)
    BY DEF AInv
  <2>2. Calling(r) => req[r].key \in Key /\ req[r].wait \in Nat
    BY <1>1, ReqFields
  <2> QED
    BY <1>1, <1>3, <2>1, <2>2 DEF AnswerHolds, Calling
<1>5. ASSUME NEW key \in Key PROVE EntryHolds(key)'
  <2>1. EntryHolds(key) /\ cache[key].left \in Nat
    BY <1>1 DEF AInv, TypeOK
  <2> QED
    BY <1>1, <1>3, <2>1 DEF EntryHolds, Hit, Staleness
<1>6. \A key \in Key : EndHolds(key)'
  BY <1>1 DEF AInv, EndHolds, Hit
<1> QED
  BY <1>1, <1>2, <1>4, <1>5, <1>6, AgedBound DEF AInv

LEMMA TickStep ==
    ASSUME AInv, Tick
    PROVE  AInv'
<1>1. /\ UNCHANGED <<config, granted, header, skew>>
      /\ age' = Aged(1) /\ TypeOK
  BY DEF Tick, AInv
<1>2. ASSUME NEW key \in Key
      PROVE  /\ cache[key].left \in 0..TTLMax /\ cache[key].perm \in Level
             /\ cache'[key].perm = cache[key].perm
             /\ cache'[key].left = IF Hit(key) THEN cache[key].left - 1 ELSE 0
             /\ cache'[key] \in [perm : Level, left : 0..TTLMax]
  BY <1>1 DEF Tick, TypeOK, Hit
<1>3. ASSUME NEW key \in Key
      PROVE  /\ life'[key] = IF life[key] = Never \/ life[key] <= MinLife
                            THEN life[key] ELSE life[key] - 1
             /\ life[key] \in {Never} \cup MinLife..MaxLife
             /\ life'[key] \in {Never} \cup MinLife..MaxLife
  <2>1. /\ life'[key] = IF life[key] = Never \/ life[key] <= MinLife
                        THEN life[key] ELSE life[key] - 1
        /\ life[key] \in {Never} \cup MinLife..MaxLife
    BY <1>1 DEF Tick, TypeOK
  <2>2. MinLife \in Int
    BY DEF MinLife
  <2> QED
    BY <2>1, <2>2
<1>4. ASSUME NEW r \in Req
      PROVE  /\ Calling(r) => /\ req[r] \in Calls /\ req[r].wait \in 1..CallTimeout
                              /\ req'[r] = [req[r] EXCEPT !.wait = req[r].wait - 1]
                              /\ req'[r] \in Calls
                              /\ req'[r].pc = req[r].pc /\ req'[r].key = req[r].key
                              /\ req'[r].answer = req[r].answer
                              /\ req'[r].wait = req[r].wait - 1
             /\ ~Calling(r) => req'[r] = req[r]
  <2>1. CASE Calling(r)
    <3>1. req[r] \in Calls /\ req[r].wait \in 1..CallTimeout
      BY <1>1, <2>1, ReqFields DEF Tick
    <3>2. req'[r] = [req[r] EXCEPT !.wait = req[r].wait - 1]
      BY <2>1 DEF Tick
    <3> QED
      BY <2>1, <3>1, <3>2 DEF Calls
  <2>2. CASE ~Calling(r)
    BY <2>2 DEF Tick
  <2> QED
    BY <2>1, <2>2
<1>5. TypeOK'
  <2>1. life' \in [Key -> {Never} \cup MinLife..MaxLife]
    BY <1>3 DEF Tick
  <2>2. cache' \in [Key -> [perm : Level, left : 0..TTLMax]]
    BY <1>2 DEF Tick
  <2>3. req' \in [Req -> {Idle} \cup Calls \cup Done]
    BY <1>1, <1>4 DEF Tick, TypeOK
  <2> QED
    BY <1>1, <2>1, <2>2, <2>3, AgedBound DEF TypeOK
<1>6. \A key \in Key, perm \in Permission :
        /\ age[key][perm] \in Nat /\ age'[key][perm] \in Nat
        /\ age'[key][perm] <= age[key][perm] + 1
  BY <1>1, AgedBound
<1>7. ASSUME NEW r \in Req PROVE AnswerHolds(r)'
  <2>1. AnswerHolds(r)
    BY DEF AInv
  <2>2. CASE Calling(r)
    <3>1. /\ req'[r].pc = req[r].pc /\ req'[r].key = req[r].key
          /\ req'[r].answer = req[r].answer /\ req'[r].wait = req[r].wait - 1
      BY <1>4, <2>2, Zenon
    <3>4. req[r].key \in Key /\ req[r].wait \in 0..CallTimeout
      BY <1>1, <2>2, ReqFields
    <3>2. ASSUME NEW perm \in Permission, req[r].answer \in Permission,
                 Covers(req[r].answer, perm)
          PROVE  age'[req[r].key][perm] + req'[r].wait <= CallTimeout
      <4>1. age[req[r].key][perm] + req[r].wait <= CallTimeout
        BY <2>1, <2>2, <3>2 DEF AnswerHolds
      <4> QED
        BY <1>6, <3>1, <3>4, <4>1
    <3>3. /\ req[r].pc = "repos" => kind[req[r].key] = "github"
          /\ req[r].pc \in {"receive-pack", "upload-pack"} => kind[req[r].key] = "gitlab"
      BY <2>1 DEF AnswerHolds
    <3> QED
      BY <1>1, <3>1, <3>2, <3>3 DEF AnswerHolds
  <2>3. CASE ~Calling(r)
    BY <1>1, <1>4, <2>1, <2>3 DEF AnswerHolds, Calling
  <2> QED
    BY <2>2, <2>3
<1>8. ASSUME NEW key \in Key PROVE EntryHolds(key)'
  <2>1. EntryHolds(key)
    BY DEF AInv
  <2> QED
    BY <1>2, <1>6, <2>1 DEF EntryHolds, Hit, Staleness
<1>9. ASSUME NEW key \in Key PROVE EndHolds(key)'
  <2>1. EndHolds(key) /\ skew \in -MaxSkew..MaxSkew
    BY <1>1 DEF AInv, TypeOK
  <2>2. Hit(key)' => Hit(key) /\ cache'[key].left = cache[key].left - 1
    BY <1>2 DEF Hit
  <2>3. ASSUME header[key] = "date", Hit(key)'
        PROVE  \/ cache'[key].left <= life'[key] - skew - TTLMargin
               \/ cache'[key].left = life'[key] - skew + TTLDefault
    <3>1. life[key] \in Int /\ life[key] >= MinLife
      BY <1>3, <2>1, <2>3 DEF EndHolds, MinLife
    <3>2. cache[key].left \in Nat /\ cache[key].left > 1
      BY <1>2, <2>2, <2>3 DEF Hit
    <3>3. life[key] > MinLife
      BY <2>1, <2>2, <2>3, <3>1, <3>2 DEF EndHolds, MinLife
    <3>4. life'[key] = life[key] - 1
      BY <1>3, <3>1, <3>3 DEF MinLife
    <3> QED
      BY <2>1, <2>2, <2>3, <3>1, <3>2, <3>4 DEF EndHolds
  <2>4. life[key] # Never => life'[key] # Never
    BY <1>3 DEF MinLife
  <2> QED
    BY <1>1, <2>1, <2>2, <2>3, <2>4 DEF EndHolds
<1> QED
  BY <1>1, <1>5, <1>7, <1>8, <1>9, AgedBound DEF AInv

LEMMA RestartStep ==
    ASSUME AInv, Restart
    PROVE  AInv'
<1>1. TypeOK'
  BY DEF AInv, TypeOK, Restart, NoEntry, Level
<1>2. \A r \in Req : AnswerHolds(r)'
  BY DEF Restart, AnswerHolds, Idle, Calling
<1>3. \A key \in Key : (EntryHolds(key) /\ EndHolds(key) /\ NowHolds(key))'
  BY DEF AInv, Restart, EntryHolds, EndHolds, NowHolds, NoEntry, Hit, Grants
<1> QED
  BY <1>1, <1>2, <1>3 DEF AInv

LEMMA StepInv == AInv /\ [Next]_vars => AInv'
<1> SUFFICES ASSUME AInv, [Next]_vars PROVE AInv'
  OBVIOUS
<1>1. CASE UNCHANGED vars
  BY <1>1 DEF vars, AInv, TypeOK, AnswerHolds, EntryHolds, EndHolds, NowHolds, Hit,
              Calling, Grants
<1>2. ASSUME NEW r \in Req, NEW key \in Key, NEW need \in Permission, Arrive(r, key, need)
      PROVE  AInv'
  BY <1>2, ArriveStep
<1>3. ASSUME NEW r \in Req, ForgeAnswers(r) \/ Progress(r)
      PROVE  AInv'
  BY <1>3, ForgeAnswersStep, AuthorizedStep, OtherRequestSteps DEF Progress
<1>4. ASSUME NEW key \in Key, NEW level \in Level, Change(key, level)
      PROVE  AInv'
  BY <1>4, ChangeStep
<1> QED
  BY <1>1, <1>2, <1>3, <1>4, TickStep, RestartStep DEF Next

LEMMA Invariant == Spec => []AInv
BY InitInv, StepInv, PTL DEF Spec

-----------------------------------------------------------------------------
(***************************************************************************)
(* Theorems.                                                               *)
(***************************************************************************)

\* Every variable has its type: an entry never outlives authCacheTTLMax.
THEOREM TypeCorrect == Spec => []TypeOK
<1>1. AInv => TypeOK
  BY DEF AInv
<1> QED
  BY <1>1, Invariant, PTL

\* Whatever the clocks do within TTLMargin and however long answers take, the
\* expiry that GitHub announces is honoured (auth.go:94-97).
THEOREM ExpiryHonoured == Spec => []AnnouncedExpiryHonoured
<1>1. AInv => AnnouncedExpiryHonoured
  <2> SUFFICES ASSUME AInv, NEW key \in Key, header[key] = "date", Hit(key), life[key] <= 0
               PROVE  cache[key].left - (life[key] - skew) = TTLDefault
    BY DEF AnnouncedExpiryHonoured
  <2>1. EndHolds(key) /\ skew \in -MaxSkew..MaxSkew /\ cache[key].left \in Nat
    BY DEF AInv, TypeOK
  <2>2. life[key] \in Int
    BY <2>1 DEF AInv, TypeOK, EndHolds, MinLife
  <2> QED
    BY <2>1, <2>2 DEF EndHolds, Hit
<1> QED
  BY <1>1, Invariant, PTL

\* What a request that has just been served was served with.
LEMMA ServedStep ==
    ASSUME AInv, [Next]_vars, NEW r \in Req,
           req[r].pc # "served", req'[r].pc = "served", kind[req'[r].key] # "skip-auth"
    PROVE  /\ req'[r].key \in Key /\ req'[r].need \in Permission
           /\ \/ Hit(req'[r].key) /\ Covers(cache[req'[r].key].perm, req'[r].need)
              \/ /\ Calling(r) /\ req[r].key = req'[r].key /\ req[r].answer \in Permission
                 /\ Covers(req[r].answer, req'[r].need)
<1> DEFINE key == req'[r].key
           need == req'[r].need
<1>1. TypeOK /\ req'[r] # req[r]
  BY DEF AInv
<1>2. ASSUME NEW k \in Key, NEW n \in Permission, Arrive(r, k, n)
      PROVE  key = k /\ need = n /\ Hit(k) /\ Covers(cache[k].perm, n)
  <2>1. \A state : Becomes(r, state) => req'[r] = state
    BY <1>1 DEF TypeOK, Becomes
  <2>2. cache[k].perm \in Level /\ "write" \in Level
    BY <1>1 DEF TypeOK, Level, Permission
  <2> QED
    BY <1>2, <2>1, <2>2, FinishedType, CallType DEF Arrive
<1>3. ASSUME Authorized(r)
      PROVE  /\ key = req[r].key /\ need = req[r].need /\ Calling(r)
             /\ req[r].answer \in Permission /\ Covers(req[r].answer, need)
             /\ key \in Key /\ need \in Permission
  <2>1. \A state : Becomes(r, state) => req'[r] = state
    BY <1>1 DEF TypeOK, Becomes
  <2> QED
    BY <1>1, <1>3, <2>1, ReqFields, FinishedType DEF Authorized, Level
<1>4. ~ForgeAnswers(r) /\ ~Denied(r) /\ ~CallFails(r) /\ ~Finish(r)
  <2>1. \A state : Becomes(r, state) => req'[r] = state
    BY <1>1 DEF TypeOK, Becomes
  <2>2. ForgeAnswers(r) => req'[r].pc = req[r].pc
    BY <1>1, ReqFields DEF ForgeAnswers, Calls, TypeOK
  <2>3. ~Finish(r)
    BY <2>1 DEF Finish, Idle
  <2>4. ASSUME Calling(r)
        PROVE  /\ Finished(req[r].key, req[r].need, "failed").pc # "served"
               /\ Finished(req[r].key, req[r].need, "refused").pc # "served"
               /\ Call(req[r].key, req[r].need, "upload-pack").pc # "served"
    BY DEF Finished, Call
  <2>5. ~CallFails(r)
    BY <2>1, <2>4 DEF CallFails
  <2>6. ~Denied(r)
    BY <2>1, <2>4 DEF Denied
  <2> QED
    BY <2>2, <2>3, <2>5, <2>6
<1>5. ASSUME NEW q \in Req \ {r}, NEW k \in Key, NEW n \in Permission, Arrive(q, k, n)
      PROVE  FALSE
  BY <1>1, <1>5 DEF Arrive, Becomes, TypeOK
<1>6. ASSUME NEW q \in Req \ {r}, ForgeAnswers(q) \/ Progress(q)
      PROVE  FALSE
  BY <1>1, <1>6 DEF ForgeAnswers, Progress, Authorized, Denied, CallFails, Finish, Becomes, TypeOK
<1>7. ~Tick
  BY <1>1, ReqFields DEF Tick, Calls
<1>8. ~Restart /\ \A k \in Key, level \in Level : ~Change(k, level)
  BY <1>1 DEF Restart, Change, Idle
<1>9. req' # req
  BY <1>1
<1> QED
  BY <1>2, <1>3, <1>4, <1>5, <1>6, <1>7, <1>8, <1>9 DEF Next, Progress, vars

\* No request is served with a permission older than TTLMax and one call to
\* the forge (auth.go:98-128 and the timeouts of the providers' clients).
THEOREM StalenessBounded == Spec => ServedRecentlyGranted
<1>1. AInv /\ [Next]_vars =>
        [\A r \in Req :
            LET key == req'[r].key IN
            /\ req[r].pc # "served" /\ req'[r].pc = "served" /\ kind[key] # "skip-auth"
            => age[key][req'[r].need] <= Staleness]_vars
  <2> SUFFICES ASSUME AInv, [Next]_vars, NEW r \in Req,
                      req[r].pc # "served", req'[r].pc = "served",
                      kind[req'[r].key] # "skip-auth"
               PROVE  age[req'[r].key][req'[r].need] <= Staleness
    BY Zenon
  <2> DEFINE key == req'[r].key
             need == req'[r].need
  <2>1. key \in Key /\ need \in Permission
    BY ServedStep
  <2>2. age[key][need] \in Nat
    BY <2>1 DEF AInv, TypeOK
  <2>3. CASE Hit(key) /\ Covers(cache[key].perm, need)
    <3>1. EntryHolds(key) /\ cache[key].left \in Nat
      BY <2>1 DEF AInv, TypeOK
    <3>2. age[key][need] + cache[key].left <= Staleness
      BY <2>1, <2>3, <3>1 DEF EntryHolds
    <3> QED
      BY <2>2, <3>1, <3>2 DEF Staleness
  <2>4. CASE /\ Calling(r) /\ req[r].key = key /\ req[r].answer \in Permission
             /\ Covers(req[r].answer, need)
    <3>1. AnswerHolds(r) /\ req[r].wait \in Nat
      BY <2>4, ReqFields DEF AInv
    <3> QED
      BY <2>1, <2>2, <2>4, <3>1 DEF AnswerHolds, Staleness
  <2> QED
    BY <2>3, <2>4, ServedStep
<1> QED
  BY <1>1, Invariant, PTL DEF Spec, ServedRecentlyGranted

\* A permission that came with an expiry that the server cannot read is used
\* by the request that asked for it and by no other (github.go:114-142).
THEOREM UnparsableNotCached == Spec => FailsClosed
<1>1. AInv /\ [Next]_vars =>
        [\A r \in Req :
            LET key == req'[r].key IN
            /\ req[r].pc # "served" /\ req'[r].pc = "served" /\ header[key] = "unparsable"
            => age[key][req'[r].need] <= CallTimeout]_vars
  <2> SUFFICES ASSUME AInv, [Next]_vars, NEW r \in Req,
                      req[r].pc # "served", req'[r].pc = "served",
                      header[req'[r].key] = "unparsable"
               PROVE  age[req'[r].key][req'[r].need] <= CallTimeout
    BY Zenon
  <2> DEFINE key == req'[r].key
             need == req'[r].need
  <2>1. req'[r] # Idle /\ TypeOK'
    BY StepInv DEF Idle, AInv
  <2>2. key \in Key
    BY <2>1 DEF TypeOK, Idle, Calls, Done
  <2>3. EndHolds(key)
    BY <2>2 DEF AInv
  <2>4. kind[key] # "skip-auth" /\ ~Hit(key)
    BY <2>3 DEF EndHolds
  <2>5. /\ need \in Permission /\ Calling(r) /\ req[r].key = key
        /\ req[r].answer \in Permission /\ Covers(req[r].answer, need)
    BY <2>4, ServedStep
  <2>6. AnswerHolds(r) /\ req[r].wait \in Nat /\ age[key][need] \in Nat
    BY <2>2, <2>5, ReqFields DEF AInv, TypeOK
  <2> QED
    BY <2>5, <2>6 DEF AnswerHolds
<1> QED
  BY <1>1, Invariant, PTL DEF Spec, FailsClosed
=============================================================================
