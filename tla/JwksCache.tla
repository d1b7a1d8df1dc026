------------------------------- MODULE JwksCache -------------------------------
(***************************************************************************)
(* The key cache in front of the OIDC provider, internal/auth/claims.go:   *)
(* concurrent requests of one replica parse tokens, and GetKeys answers    *)
(* them from the cache or fetches the key set again, one fetch at a time.  *)
(* The provider publishes and withdraws keys meanwhile.                    *)
(*                                                                         *)
(* mu is a sync.RWMutex: the look at the cache under RLock is split into   *)
(* taking the lock and the look itself, the store under Lock is one step.  *)
(***************************************************************************)
EXTENDS Naturals, FiniteSets

CONSTANTS
  Keys,           \* signing keys of the provider
  Callers,        \* request goroutines
  Tokens,         \* the tokens requests carry
  Null,           \* a zero time, nobody
  Ttl,            \* ttl of the cache
  FetchTimeout,   \* timeout of jwksHTTPClient
  Skew,           \* the ten seconds of ParseToken
  MaxClock        \* bound: time stops here

ASSUME TokensAssumption == Tokens \subseteq [key : Keys, iat : Nat, exp : Nat]
ASSUME NullAssumption == Null \notin Callers /\ Null \notin Nat /\ Null \notin Tokens
ASSUME BoundsAssumption ==
  Ttl \in Nat \ {0} /\ FetchTimeout \in Nat /\ Skew \in Nat /\ MaxClock \in Nat

VARIABLES
  clock,          \* time.Now()
  publishedAt,    \* publishedAt[k]: when the provider published k, or Null
  withdrawnAt,    \* withdrawnAt[k]: when it withdrew k, or Null
  keys,           \* cache.keys
  fetchedAt,      \* cache.fetchedAt; Null is the zero time
  readers,        \* callers that hold mu for reading
  fetcher,        \* the caller that holds fetchMu, or Null
  call            \* call[c]: where caller c is

provider == <<publishedAt, withdrawnAt>>
cache == <<keys, fetchedAt>>
vars == <<clock, publishedAt, withdrawnAt, keys, fetchedAt, readers, fetcher, call>>

Verdicts == {"accepted", "expired", "future", "nomatch", "error"}
ASSUME VerdictsAssumption == Null \notin Verdicts

CallType ==
  [pc      : {"idle", "look", "queue", "recheck", "fetch", "store"},
   token   : Tokens \cup {Null},
   started : Nat,                      \* when the fetch started
   fetched : SUBSET Keys,              \* the answer of the provider
   verdict : Verdicts \cup {Null},     \* of the last token
   at      : Nat]                      \* when the verdict was reached

Init ==
  /\ clock = 0
  /\ \E first \in SUBSET Keys :
       publishedAt = [k \in Keys |-> IF k \in first THEN 0 ELSE Null]
  /\ withdrawnAt = [k \in Keys |-> Null]
  /\ keys = {} /\ fetchedAt = Null
  /\ readers = {} /\ fetcher = Null
  /\ call = [c \in Callers |->
       [pc |-> "idle", token |-> Null, started |-> 0, fetched |-> {},
        verdict |-> Null, at |-> 0]]

Published == {k \in Keys : publishedAt[k] # Null /\ withdrawnAt[k] = Null}

-----------------------------------------------------------------------------
(* The pure parts.                                                         *)

\* time.Since(c.fetchedAt) < c.ttl
Fresh == fetchedAt # Null /\ clock < fetchedAt + Ttl

\* Mutant: no key matches, and neither claims nor an error is returned.
MutantVerdictNil(token, known) ==
  CASE token.key \notin known       -> "nil"
    [] token.exp + Skew < clock     -> "expired"
    [] token.iat > clock + Skew     -> "future"
    [] OTHER                        -> "accepted"

\* What ParseToken says of a token, given the keys (claims.go:106-118).
Verdict(token, known) ==
  CASE token.key \notin known       -> "nomatch"
    [] token.exp + Skew < clock     -> "expired"
    [] token.iat > clock + Skew     -> "future"
    [] OTHER                        -> "accepted"

-----------------------------------------------------------------------------
(* ParseToken and GetKeys.                                                 *)

Goto(c, pc) == call' = [call EXCEPT ![c] = [call[c] EXCEPT !.pc = pc]]

\* GetKeys returns the key set known, or an error, and ParseToken its verdict.
Return(c, verdict) ==
  call' = [call EXCEPT ![c] =
    [call[c] EXCEPT !.pc = "idle", !.verdict = verdict, !.at = clock, !.fetched = {},
              !.started = 0]]

ReleaseFetch(c) == fetcher' = IF fetcher = c THEN Null ELSE fetcher

\* ParseToken calls GetKeys, which takes mu for reading.
RLock(c, token) ==
  /\ call[c].pc = "idle"
  /\ readers' = readers \cup {c}
  /\ call' = [call EXCEPT ![c] =
       [call[c] EXCEPT !.pc = "look", !.token = token, !.verdict = Null, !.at = 0]]
  /\ UNCHANGED <<clock, provider, cache, fetcher>>

\* Mutant: the cache never expires.
MutantAlwaysFresh(c) ==
  /\ call[c].pc = "look"
  /\ fetchedAt # Null
  /\ Return(c, Verdict(call[c].token, keys))
  /\ readers' = readers \ {c}
  /\ UNCHANGED <<clock, provider, cache, fetcher>>

FreshAtOnce(c) ==
  /\ call[c].pc = "look"
  /\ Fresh
  /\ Return(c, Verdict(call[c].token, keys))
  /\ readers' = readers \ {c}
  /\ UNCHANGED <<clock, provider, cache, fetcher>>

\* Mutant: the read lock is kept until GetKeys returns.
MutantKeepReadLock(c) ==
  /\ call[c].pc = "look"
  /\ ~Fresh
  /\ Goto(c, "queue")
  /\ UNCHANGED <<clock, provider, cache, readers, fetcher>>

StaleAtFirst(c) ==
  /\ call[c].pc = "look"
  /\ ~Fresh
  /\ readers' = readers \ {c}
  /\ Goto(c, "queue")
  /\ UNCHANGED <<clock, provider, cache, fetcher>>

LockFetch(c) ==
  /\ call[c].pc = "queue"
  /\ fetcher = Null
  /\ fetcher' = c
  /\ Goto(c, "recheck")
  /\ UNCHANGED <<clock, provider, cache, readers>>

FreshByNow(c) ==
  /\ call[c].pc = "recheck"
  /\ Fresh
  /\ Return(c, Verdict(call[c].token, keys))
  /\ ReleaseFetch(c)
  /\ UNCHANGED <<clock, provider, cache, readers>>

\* Mutant: the cache is not looked at again under fetchMu.
MutantNoRecheck(c) ==
  /\ call[c].pc = "recheck"
  /\ call' = [call EXCEPT ![c] = [call[c] EXCEPT !.pc = "fetch", !.started = clock]]
  /\ UNCHANGED <<clock, provider, cache, readers, fetcher>>

StaleStill(c) ==
  /\ call[c].pc = "recheck"
  /\ ~Fresh
  /\ call' = [call EXCEPT ![c] = [call[c] EXCEPT !.pc = "fetch", !.started = clock]]
  /\ UNCHANGED <<clock, provider, cache, readers, fetcher>>

\* The provider answers with the keys it publishes at this moment.
FetchAnswered(c) ==
  /\ call[c].pc = "fetch"
  /\ call' = [call EXCEPT ![c] = [call[c] EXCEPT !.pc = "store", !.fetched = Published]]
  /\ UNCHANGED <<clock, provider, cache, readers, fetcher>>

\* Mutant: when the provider cannot be reached the old keys are used.
MutantServeStale(c) ==
  /\ call[c].pc \in {"fetch", "store"}
  /\ Return(c, Verdict(call[c].token, keys))
  /\ ReleaseFetch(c)
  /\ UNCHANGED <<clock, provider, cache, readers>>

\* No connection, timeout, request cancelled, status # 200, unreadable body:
\* the cache keeps what it has.
FetchFails(c) ==
  /\ call[c].pc \in {"fetch", "store"}
  /\ Return(c, "error")
  /\ ReleaseFetch(c)
  /\ UNCHANGED <<clock, provider, cache, readers>>

\* Lock waits for the readers to leave.
StoreKeys(c) ==
  /\ call[c].pc = "store"
  /\ readers = {}
  /\ keys' = call[c].fetched
  /\ fetchedAt' = clock
  /\ Return(c, Verdict(call[c].token, call[c].fetched))
  /\ ReleaseFetch(c)
  /\ UNCHANGED <<clock, provider, readers>>

-----------------------------------------------------------------------------
(* The provider and time.                                                  *)

Publish(k) ==
  /\ publishedAt[k] = Null
  /\ publishedAt' = [publishedAt EXCEPT ![k] = clock]
  /\ UNCHANGED <<clock, withdrawnAt, cache, readers, fetcher, call>>

Withdraw(k) ==
  /\ k \in Published
  /\ withdrawnAt' = [withdrawnAt EXCEPT ![k] = clock]
  /\ UNCHANGED <<clock, publishedAt, cache, readers, fetcher, call>>

\* The timeout of the HTTP client ends a fetch: it is over by its deadline.
Tick ==
  /\ clock < MaxClock
  /\ \A c \in Callers :
       call[c].pc \in {"fetch", "store"} => clock < call[c].started + FetchTimeout
  /\ clock' = clock + 1
  /\ UNCHANGED <<provider, cache, readers, fetcher, call>>

-----------------------------------------------------------------------------
Next ==
  \/ \E c \in Callers :
       \/ \E token \in Tokens : RLock(c, token)
       \/ FreshAtOnce(c) \/ StaleAtFirst(c)
       \/ LockFetch(c)
       \/ FreshByNow(c) \/ StaleStill(c)
       \/ FetchAnswered(c) \/ FetchFails(c) \/ StoreKeys(c)
  \/ \E k \in Keys : Publish(k) \/ Withdraw(k)
  \/ Tick

\* A goroutine runs; the HTTP client answers or fails.
Proceed(c) ==
  \/ FreshAtOnce(c) \/ StaleAtFirst(c)
  \/ FreshByNow(c) \/ StaleStill(c) \/ FetchAnswered(c)

\* sync.Mutex hands itself to a waiter that has starved, and a waiting Lock of
\* sync.RWMutex keeps new readers out.
Fairness ==
  \A c \in Callers :
    WF_vars(Proceed(c)) /\ SF_vars(LockFetch(c)) /\ SF_vars(StoreKeys(c))

Spec == Init /\ [][Next]_vars /\ Fairness

-----------------------------------------------------------------------------
(* Properties.                                                             *)

\* Every variable has its type, and a key is withdrawn only once published.
TypeOK ==
  /\ clock \in Nat
  /\ publishedAt \in [Keys -> Nat \cup {Null}]
  /\ withdrawnAt \in [Keys -> Nat \cup {Null}]
  /\ \A k \in Keys : withdrawnAt[k] # Null => publishedAt[k] # Null
  /\ keys \subseteq Keys
  /\ fetchedAt \in Nat \cup {Null}
  /\ readers \subseteq Callers
  /\ fetcher \in Callers \cup {Null}
  /\ call \in [Callers -> CallType]

\* The longest time the keys a verdict rests on can be out of date.
Window == Ttl + FetchTimeout

\* No token is accepted on a key that was withdrawn a whole window ago,
\* although verdicts rest on what a fetch of another request brought back.
WithdrawnKeysExpire ==
  \A c \in Callers :
    LET k == call[c].token.key
    IN  call[c].verdict = "accepted" =>
          /\ publishedAt[k] # Null
          /\ withdrawnAt[k] # Null => call[c].at < withdrawnAt[k] + Window

\* No token is refused for its key when the key has been published for a whole
\* window, although an unknown key does not make ParseToken fetch again.
PublishedKeysWork ==
  \A c \in Callers :
    LET k == call[c].token.key
    IN  /\ call[c].verdict = "nomatch"
        /\ publishedAt[k] # Null
        /\ publishedAt[k] + Window <= call[c].at
        => withdrawnAt[k] # Null /\ withdrawnAt[k] <= call[c].at

\* Key sets are stored at least a ttl apart, however many requests find the
\* cache expired at the same time (TestJWKSCacheRefreshesOnExpiry, "expected 1 fetch",
\* claims_test.go:30). Fetches that fail are not limited in this way.
StoresAreSpaced ==
  [][fetchedAt' # fetchedAt /\ fetchedAt # Null => fetchedAt' >= fetchedAt + Ttl]_vars

\* Every GetKeys returns: the two mutexes never close a circle, and a failed
\* fetch lets the next caller in (claims.go:51-63, 85-89).
EveryTokenIsAnswered ==
  \A c \in Callers : call[c].pc # "idle" ~> call[c].pc = "idle"
=============================================================================
