------------------------------ MODULE AuthCache ------------------------------
(***************************************************************************)
(* Authorization (cmd/lfsd/auth.go, internal/forge): what a token may do   *)
(* with a repository is asked of the forge, over HTTP, and the answer kept *)
(* in the memory of the process for as long as authCacheTTL says, while    *)
(* the forge may change its mind at any time and tokens expire.            *)
(*                                                                         *)
(* Time is a number of ticks, and every deadline counts down to zero, as a *)
(* timer does.  What the server computes takes no time; a call to a forge  *)
(* takes up to the timeout of its HTTP client.                             *)
(***************************************************************************)
EXTENDS Integers

CONSTANTS
    Req,            \* requests that may be in progress at once
    Key,            \* authCacheKey: host, repository, username and token
    TTLDefault,     \* authCacheTTLDefault
    TTLMax,         \* authCacheTTLMax
    TTLMargin,      \* authCacheTTLMargin
    CallTimeout,    \* the timeout of the HTTP clients
    MaxSkew,        \* how far the forge's clock and the server's are apart
    MaxLife,        \* bound of the model: the longest life of a token
    Never           \* the life of a token that does not expire

ASSUME TimeAssumption ==
    /\ TTLDefault \in Nat \ {0} /\ TTLMax \in Nat /\ TTLDefault <= TTLMax
    /\ TTLMargin \in Nat /\ CallTimeout \in Nat /\ MaxLife \in Nat
    /\ MaxSkew \in Nat /\ MaxSkew <= TTLMargin
    /\ Never \notin Int

VARIABLES
    \* the configuration, which never changes
    kind,       \* the type of the provider of the key's host
    allowed,    \* the keys whose repository is on its host's allowlist
    \* the forges
    granted,    \* what the owner of the key's repository grants its token
    life,       \* how long the token remains valid
    header,     \* what GitHub's token expiration header says
    \* the server
    skew,       \* the server's clock minus the forge's
    cache,      \* the entries of the cache
    req,        \* the requests, from their arrival to their answer
    \* for the properties only
    age         \* how long ago the forge last granted a permission

config == <<kind, allowed>>

vars == <<config, granted, life, header, skew, cache, req, age>>

Permission == {"read", "write"}
Level == Permission \cup {"none"}

\* The permission checks of the handlers: write permission is enough to read.
Covers(level, need) == level = need \/ level = "write"

\* What the forge would answer now.
Grants(key) ==
    IF life[key] = Never \/ life[key] > 0 THEN granted[key] ELSE "none"

\* The oldest that a permission which is still acted on may be.
Staleness == TTLMax + CallTimeout

\* Bound of the model: an expired token need not be followed any further.
MinLife == -(MaxSkew + TTLDefault)

NoEntry == [perm |-> "none", left |-> 0]
Idle == [pc |-> "idle"]

Calls ==
    [pc : {"repos", "receive-pack", "upload-pack"}, key : Key, need : Permission,
     wait : 0..CallTimeout, answer : Level \cup {"awaited"}]
Done == [pc : {"served", "refused", "failed"}, key : Key, need : Permission]

TypeOK ==
    /\ kind \in [Key -> {"github", "gitlab", "skip-auth"}]
    /\ allowed \subseteq Key
    /\ granted \in [Key -> Level]
    /\ life \in [Key -> {Never} \cup MinLife..MaxLife]
    /\ header \in [Key -> {"absent", "unparsable", "date"}]
    /\ skew \in -MaxSkew..MaxSkew
    /\ cache \in [Key -> [perm : Level, left : 0..TTLMax]]
    /\ req \in [Req -> {Idle} \cup Calls \cup Done]
    /\ age \in [Key -> [Permission -> 0..Staleness + 1]]

\* The keys that a forge is ever asked about.
Asked(key) == key \in allowed /\ kind[key] # "skip-auth"

Init ==
    /\ kind \in [Key -> {"github", "gitlab", "skip-auth"}]
    /\ allowed \in SUBSET Key
    /\ granted \in [Key -> {"none", "write"}]
    /\ life \in [Key -> {Never} \cup 1..MaxLife]
    /\ header \in [Key -> {"absent", "unparsable", "date"}]
    /\ \A key \in Key :
          /\ header[key] # "absent" => kind[key] = "github" /\ life[key] # Never
          /\ ~Asked(key) => granted[key] = "none" /\ life[key] = Never
    /\ skew \in -MaxSkew..MaxSkew
    /\ (\A key \in Key : header[key] # "date") => skew = 0
    /\ cache = [key \in Key |-> NoEntry]
    /\ req = [r \in Req |-> Idle]
    /\ age = [key \in Key |-> [perm \in Permission |->
                IF granted[key] = "write" THEN 0 ELSE Staleness + 1]]

-----------------------------------------------------------------------------
(***************************************************************************)
(* How long a decision is cached.                                          *)
(***************************************************************************)

\* GitHub's rawTTL; GitLab's is always zero.
GithubTokenTTL(key) ==
    CASE header[key] = "absent"     -> 0
      [] header[key] = "unparsable" -> -1
      [] header[key] = "date"       -> life[key] - skew

\* Faulty variant of AuthCacheTTL: no maximum.
AuthCacheTTLUncapped(rawTTL) ==
    LET ttl == IF rawTTL = 0 THEN TTLDefault ELSE rawTTL - TTLMargin
    IN  IF rawTTL < 0 \/ ttl <= 0 THEN -1 ELSE ttl

\* Faulty variant of AuthCacheTTL: no margin.
AuthCacheTTLNoMargin(rawTTL) ==
    CASE rawTTL < 0      -> -1
      [] rawTTL = 0      -> TTLDefault
      [] rawTTL > TTLMax -> TTLMax
      [] OTHER           -> rawTTL

\* -1 means that the decision is not cached.
AuthCacheTTL(rawTTL) ==
    LET ttl == IF rawTTL = 0 THEN TTLDefault ELSE rawTTL - TTLMargin
    IN  CASE rawTTL < 0 \/ ttl <= 0 -> -1
          [] ttl > TTLMax           -> TTLMax
          [] OTHER                  -> ttl

-----------------------------------------------------------------------------
(***************************************************************************)
(* Requests.  The token and the repository are there, and the host is one  *)
(* of the forges: the other early returns look at the request alone.       *)
(***************************************************************************)
Becomes(r, state) == req' = [req EXCEPT ![r] = state]

Finished(key, need, pc) == [pc |-> pc, key |-> key, need |-> need]

\* The handler behind authorize looks at the permission and goes on, or not.
Decided(key, need, level) ==
    Finished(key, need, IF Covers(level, need) THEN "served" ELSE "refused")

Call(key, need, endpoint) ==
    [pc |-> endpoint, key |-> key, need |-> need, wait |-> CallTimeout, answer |-> "awaited"]

Hit(key) == cache[key].left > 0

\* Faulty variant of Arrive: a hit starts the life of its entry again.
ArriveRenews(r, key, need) ==
    /\ req[r] = Idle
    /\ IF Hit(key)
       THEN /\ Becomes(r, Decided(key, need, cache[key].perm))
            /\ cache' = [cache EXCEPT ![key].left = TTLDefault]
       ELSE /\ Becomes(r, Call(key, need, IF kind[key] = "github" THEN "repos" ELSE "receive-pack"))
            /\ UNCHANGED cache
    /\ UNCHANGED <<config, granted, life, header, skew, age>>

Arrive(r, key, need) ==
    /\ req[r] = Idle
    /\ \/ /\ key \notin allowed
          /\ Becomes(r, Finished(key, need, "refused"))
       \/ /\ key \in allowed /\ Hit(key)
          /\ Becomes(r, Decided(key, need, cache[key].perm))
       \/ /\ key \in allowed /\ ~Hit(key) /\ kind[key] = "github"
          /\ Becomes(r, Call(key, need, "repos"))
       \/ /\ key \in allowed /\ ~Hit(key) /\ kind[key] = "gitlab"
          /\ Becomes(r, Call(key, need, "receive-pack"))
       \/ /\ key \in allowed /\ ~Hit(key) /\ kind[key] = "skip-auth"
          /\ Becomes(r, Decided(key, need, "write"))
    /\ UNCHANGED <<config, granted, life, header, skew, cache, age>>

Calling(r) == req[r].pc \in {"repos", "receive-pack", "upload-pack"}

\* The forge answers: GitHub with the permission, GitLab with yes or no.
ForgeAnswers(r) ==
    /\ Calling(r)
    /\ req[r].answer = "awaited"
    /\ LET level == Grants(req[r].key) IN
       req' = [req EXCEPT ![r].answer =
                CASE req[r].pc = "repos" -> level
                  [] req[r].pc = "receive-pack" -> IF level = "write" THEN "write" ELSE "none"
                  [] req[r].pc = "upload-pack" -> IF level = "none" THEN "none" ELSE "read"]
    /\ UNCHANGED <<config, granted, life, header, skew, cache, age>>

\* Faulty variant of RawTTL: a header that cannot be parsed is no header.
RawTTLFailsOpen(r) ==
    IF req[r].pc = "repos" /\ header[req[r].key] = "date"
    THEN GithubTokenTTL(req[r].key) ELSE 0

RawTTL(r) == IF req[r].pc = "repos" THEN GithubTokenTTL(req[r].key) ELSE 0

\* The provider returns the permission: it is cached, if it may be, and used.
Authorized(r) ==
    LET key == req[r].key
        ttl == AuthCacheTTL(RawTTL(r))
    IN  /\ Calling(r)
        /\ req[r].answer \in Permission
        /\ cache' = IF ttl < 0 THEN cache
                    ELSE [cache EXCEPT ![key] = [perm |-> req[r].answer, left |-> ttl]]
        /\ Becomes(r, Decided(key, req[r].need, req[r].answer))
        /\ UNCHANGED <<config, granted, life, header, skew, age>>

\* Not even GitLab's git-upload-pack: ErrTokenInvalid, which is never cached.
Denied(r) ==
    /\ Calling(r)
    /\ req[r].answer = "none"
    /\ Becomes(r, IF req[r].pc = "receive-pack"
                  THEN Call(req[r].key, req[r].need, "upload-pack")
                  ELSE Finished(req[r].key, req[r].need, "refused"))
    /\ UNCHANGED <<config, granted, life, header, skew, cache, age>>

\* The client's timeout, a transport error, any other status, or the client of
\* the server is gone.
CallFails(r) ==
    /\ Calling(r)
    /\ Becomes(r, Finished(req[r].key, req[r].need, "failed"))
    /\ UNCHANGED <<config, granted, life, header, skew, cache, age>>

\* The request has been answered.
Finish(r) ==
    /\ req[r] # Idle /\ ~Calling(r)
    /\ Becomes(r, Idle)
    /\ UNCHANGED <<config, granted, life, header, skew, cache, age>>

\* The cache does not outlive the process.
Restart ==
    /\ cache' = [key \in Key |-> NoEntry]
    /\ req' = [r \in Req |-> Idle]
    /\ UNCHANGED <<config, granted, life, header, skew, age>>

-----------------------------------------------------------------------------
(***************************************************************************)
(* The environment.                                                        *)
(***************************************************************************)
Aged(elapsed) ==
    [key \in Key |-> [perm \in Permission |->
        IF Grants(key)' # "none" /\ Covers(Grants(key)', perm) THEN 0
        ELSE IF age[key][perm] > Staleness THEN age[key][perm]
        ELSE age[key][perm] + elapsed]]

\* The owner of the repository changes what the token may do.
Change(key, level) ==
    /\ Asked(key)
    /\ granted' = [granted EXCEPT ![key] = level]
    /\ UNCHANGED <<config, life, header, skew, cache, req>>
    /\ age' = Aged(0)

Tick ==
    /\ \A r \in Req : Calling(r) => req[r].wait > 0
    /\ life' = [key \in Key |-> IF life[key] = Never \/ life[key] <= MinLife
                                THEN life[key] ELSE life[key] - 1]
    /\ cache' = [key \in Key |->
                    [perm |-> cache[key].perm,
                     left |-> IF Hit(key) THEN cache[key].left - 1 ELSE 0]]
    /\ req' = [r \in Req |-> IF Calling(r) THEN [req[r] EXCEPT !.wait = @ - 1] ELSE req[r]]
    /\ UNCHANGED <<config, granted, header, skew>>
    /\ age' = Aged(1)

Progress(r) == Authorized(r) \/ Denied(r) \/ CallFails(r) \/ Finish(r)

Next ==
    \/ \E r \in Req :
          \/ \E key \in Key, need \in Permission : Arrive(r, key, need)
          \/ ForgeAnswers(r) \/ Progress(r)
    \/ \E key \in Key, level \in Level : Change(key, level)
    \/ Tick
    \/ Restart

Spec == Init /\ [][Next]_vars

(***************************************************************************)
(* Time passes, and a goroutine that can go on does.  Nothing is asked of  *)
(* the forge: a call that it does not answer fails in the end.             *)
(***************************************************************************)
FairSpec == Spec /\ WF_vars(Tick) /\ \A r \in Req : WF_vars(Progress(r))

-----------------------------------------------------------------------------
(***************************************************************************)
(* Properties.                                                             *)
(***************************************************************************)

(***************************************************************************)
(* A request that the forge is asked about is served only with a           *)
(* permission that the forge granted at most TTLMax and one call ago: a    *)
(* revoked permission or an expired token is of no use after that.         *)
(***************************************************************************)
ServedRecentlyGranted ==
    [][\A r \in Req :
          LET key == req'[r].key IN
          /\ req[r].pc # "served" /\ req'[r].pc = "served" /\ kind[key] # "skip-auth"
          => age[key][req'[r].need] <= Staleness]_vars

(***************************************************************************)
(* A permission is not found in the cache after the expiry that GitHub     *)
(* announced, although clocks differ and answers take time.  The exception *)
(* is an answer that arrives at the very instant of the expiry: a rawTTL   *)
(* of zero reads as "no expiry signal" and the default is used.            *)
(***************************************************************************)
AnnouncedExpiryHonoured ==
    \A key \in Key :
        /\ header[key] = "date" /\ Hit(key) /\ life[key] <= 0
        => cache[key].left - (life[key] - skew) = TTLDefault

(***************************************************************************)
(* Where the expiry signal of GitHub cannot be interpreted, nothing is     *)
(* cached: every request asks, so none is served that the forge has not    *)
(* granted during its own call.                                            *)
(***************************************************************************)
FailsClosed ==
    [][\A r \in Req :
          LET key == req'[r].key IN
          /\ req[r].pc # "served" /\ req'[r].pc = "served" /\ header[key] = "unparsable"
          => age[key][req'[r].need] <= CallTimeout]_vars

(***************************************************************************)
(* Once the forge has settled on what a token may do, so does the server:  *)
(* neither an older permission nor a denial is kept for good.              *)
(***************************************************************************)
Converges ==
    \A key \in Key, level \in Level :
        Asked(key) /\ <>[](Grants(key) = level)
        => <>[](\A r \in Req :
                  /\ req[r].pc = "served" /\ req[r].key = key => Covers(level, req[r].need)
                  /\ req[r].pc = "refused" /\ req[r].key = key => ~Covers(level, req[r].need))

\* auth.go:96-97: "the cached entry is always invalidated before the underlying
\* token becomes stale".
InvalidatedBeforeStale ==
    \A key \in Key : Hit(key) => life[key] = Never \/ life[key] > 0
=============================================================================
