------------------------------ MODULE JwksProofs ------------------------------
(***************************************************************************)
(* Theorems about JwksCache for any keys, tokens, number of requests, ttl, *)
(* fetch timeout and skew.                                                 *)
(***************************************************************************)
EXTENDS JwksCache, TLAPS

-----------------------------------------------------------------------------
(* The inductive invariant.                                                *)

Fetching(c) == call[c].pc \in {"fetch", "store"}

\* fetchMu is held by the one caller that looks again or fetches.
LockIsHeld ==
  \A c \in Callers : call[c].pc \in {"recheck", "fetch", "store"} => fetcher = c

\* Nothing happened in the future.
PastIsPast ==
  /\ fetchedAt # Null => fetchedAt <= clock
  /\ \A k \in Keys : publishedAt[k] # Null => publishedAt[k] <= clock
  /\ \A k \in Keys : withdrawnAt[k] # Null => withdrawnAt[k] <= clock
  /\ \A c \in Callers : call[c].verdict # Null => call[c].at <= clock

\* A key set that was asked for at time t is right about the keys at t: a key
\* in it was withdrawn no earlier, a key not in it was published no earlier or
\* is withdrawn.
IsKeySetOf(known, t) ==
  \A k \in Keys :
    /\ k \in known =>
         publishedAt[k] # Null /\ (withdrawnAt[k] # Null => t <= withdrawnAt[k])
    /\ k \notin known =>
         (publishedAt[k] # Null => t <= publishedAt[k] \/ withdrawnAt[k] # Null)

\* A fetch is within its timeout, found the cache expired and brings a key set
\* of the time it started.
FetchesAreTimely ==
  \A c \in Callers :
    /\ Fetching(c) =>
         /\ call[c].started <= clock /\ clock <= call[c].started + FetchTimeout
         /\ fetchedAt # Null => fetchedAt + Ttl <= clock
    /\ call[c].pc = "store" => IsKeySetOf(call[c].fetched, call[c].started)

\* The cached set was asked for at most a fetch timeout before it was stored.
CacheIsKeySet ==
  fetchedAt # Null =>
    \E t \in Nat : /\ t <= fetchedAt /\ fetchedAt <= t + FetchTimeout
                   /\ IsKeySetOf(keys, t)

\* A verdict is about a token, and ends the call.
CallsHaveTokens ==
  \A c \in Callers :
    /\ call[c].pc # "idle" => call[c].token \in Tokens /\ call[c].verdict = Null
    /\ call[c].verdict # Null => call[c].token \in Tokens

IInv ==
  /\ TypeOK /\ LockIsHeld /\ PastIsPast /\ FetchesAreTimely /\ CacheIsKeySet
  /\ CallsHaveTokens /\ WithdrawnKeysExpire /\ PublishedKeysWork

-----------------------------------------------------------------------------
(* Time.                                                                   *)

\* Publish, Withdraw and Tick leave the requests alone.
ProviderStep == (\E k \in Keys : Publish(k) \/ Withdraw(k)) \/ Tick

\* What the provider does later does not make a key set wrong of its time.
LEMMA KeySetsStay ==
  ASSUME TypeOK, ProviderStep, NEW known \in SUBSET Keys, NEW t \in Nat, t <= clock,
         IsKeySetOf(known, t)
  PROVE  IsKeySetOf(known, t)'
<1>1. CASE Tick
  BY <1>1 DEF Tick, IsKeySetOf, provider
<1>2. ASSUME NEW k \in Keys, Publish(k) PROVE IsKeySetOf(known, t)'
  BY <1>2, NullAssumption DEF Publish, IsKeySetOf, TypeOK
<1>3. ASSUME NEW k \in Keys, Withdraw(k) PROVE IsKeySetOf(known, t)'
  BY <1>3, NullAssumption DEF Withdraw, Published, IsKeySetOf, TypeOK
<1> QED BY <1>1, <1>2, <1>3 DEF ProviderStep

LEMMA ProviderKeepsInvariant ==
  ASSUME IInv, ProviderStep
  PROVE  IInv'
<1> USE NullAssumption, VerdictsAssumption, BoundsAssumption DEF Verdicts
<1>0. /\ UNCHANGED <<keys, fetchedAt, readers, fetcher, call>>
      /\ clock' \in Nat /\ clock <= clock'
  BY DEF ProviderStep, Publish, Withdraw, Tick, cache, provider, IInv, TypeOK
<1>1. TypeOK'
  <2>1. CASE Tick
    BY <2>1, <1>0 DEF Tick, provider, IInv, TypeOK
  <2>2. ASSUME NEW k \in Keys, Publish(k) PROVE TypeOK'
    BY <2>2, <1>0 DEF Publish, IInv, TypeOK
  <2>3. ASSUME NEW k \in Keys, Withdraw(k) PROVE TypeOK'
    BY <2>3, <1>0 DEF Withdraw, Published, IInv, TypeOK
  <2> QED BY <2>1, <2>2, <2>3 DEF ProviderStep
<1>2. LockIsHeld'
  BY <1>0 DEF IInv, LockIsHeld
<1>3. PastIsPast'
  <2>1. CASE Tick
    BY <2>1, <1>0 DEF Tick, provider, IInv, TypeOK, PastIsPast, CallType
  <2>2. ASSUME NEW k \in Keys, Publish(k) PROVE PastIsPast'
    BY <2>2, <1>0 DEF Publish, IInv, TypeOK, PastIsPast
  <2>3. ASSUME NEW k \in Keys, Withdraw(k) PROVE PastIsPast'
    BY <2>3, <1>0 DEF Withdraw, IInv, TypeOK, PastIsPast
  <2> QED BY <2>1, <2>2, <2>3 DEF ProviderStep
<1>4. FetchesAreTimely'
  <2> SUFFICES ASSUME NEW c \in Callers
               PROVE  /\ Fetching(c)' =>
                           /\ call[c].started <= clock'
                           /\ clock' <= call[c].started + FetchTimeout
                           /\ fetchedAt # Null => fetchedAt + Ttl <= clock'
                      /\ call[c].pc = "store" =>
                           IsKeySetOf(call[c].fetched, call[c].started)'
    BY <1>0 DEF FetchesAreTimely
  <2>0. call[c] \in CallType
    BY DEF IInv, TypeOK
  <2>1. Fetching(c)' <=> Fetching(c)
    BY <1>0 DEF Fetching
  <2>2. ASSUME Fetching(c) PROVE clock' <= call[c].started + FetchTimeout
    <3>1. CASE Tick
      BY <3>1, <2>2, <2>0 DEF Tick, Fetching, CallType, IInv, TypeOK
    <3>2. CASE ~Tick
      BY <3>2, <2>2 DEF ProviderStep, Publish, Withdraw, IInv, FetchesAreTimely
    <3> QED BY <3>1, <3>2
  <2>3. ASSUME Fetching(c)
        PROVE  call[c].started <= clock' /\ (fetchedAt # Null => fetchedAt + Ttl <= clock')
    BY <2>3, <2>0, <1>0 DEF IInv, FetchesAreTimely, TypeOK, CallType
  <2>4. ASSUME call[c].pc = "store" PROVE IsKeySetOf(call[c].fetched, call[c].started)'
    <3>1. PICK known \in SUBSET Keys, t \in Nat :
            /\ known = call[c].fetched /\ t = call[c].started /\ t <= clock
            /\ IsKeySetOf(known, t)
      BY <2>0, <2>4 DEF CallType, IInv, FetchesAreTimely, Fetching
    <3>2. IsKeySetOf(known, t)'
      BY <3>1, KeySetsStay DEF IInv
    <3>3. known = call'[c].fetched /\ t = call'[c].started
      BY <3>1, <1>0
    <3> QED BY <3>2, <3>3 DEF IsKeySetOf
  <2> QED BY <2>1, <2>2, <2>3, <2>4
<1>5. CacheIsKeySet'
  <2> SUFFICES ASSUME fetchedAt # Null
               PROVE  \E t \in Nat : /\ t <= fetchedAt /\ fetchedAt <= t + FetchTimeout
                                    /\ IsKeySetOf(keys, t)'
    BY <1>0 DEF CacheIsKeySet
  <2>1. PICK t \in Nat : /\ t <= clock /\ t <= fetchedAt /\ fetchedAt <= t + FetchTimeout
                         /\ IsKeySetOf(keys, t)
    BY DEF IInv, TypeOK, CacheIsKeySet, PastIsPast
  <2>2. PICK known \in SUBSET Keys : known = keys
    BY DEF IInv, TypeOK
  <2>3. IsKeySetOf(known, t)'
    BY <2>1, <2>2, KeySetsStay DEF IInv
  <2> QED BY <1>0, <2>1, <2>2, <2>3
<1>6. CallsHaveTokens'
  BY <1>0 DEF IInv, CallsHaveTokens
<1> SUFFICES ASSUME NEW c \in Callers, NEW k \in Keys,
                    k = call[c].token.key, call[c].verdict \in {"accepted", "nomatch"}
             PROVE  /\ call[c].verdict = "accepted" =>
                         /\ publishedAt'[k] # Null
                         /\ withdrawnAt'[k] # Null =>
                              call[c].at < withdrawnAt'[k] + Window
                    /\ /\ call[c].verdict = "nomatch"
                       /\ publishedAt'[k] # Null
                       /\ publishedAt'[k] + Window <= call[c].at
                       => withdrawnAt'[k] # Null /\ withdrawnAt'[k] <= call[c].at
  <2>1. ASSUME NEW c \in Callers, call[c].verdict \in {"accepted", "nomatch"}
        PROVE  call[c].token.key \in Keys
    BY <2>1, TokensAssumption DEF IInv, CallsHaveTokens
  <2>2. WithdrawnKeysExpire'
    BY <2>1, <1>0 DEF WithdrawnKeysExpire, Window
  <2>3. PublishedKeysWork'
    BY <2>1, <1>0 DEF PublishedKeysWork, Window
  <2> QED BY <2>2, <2>3, <1>1, <1>2, <1>3, <1>4, <1>5, <1>6 DEF IInv
<1>7. /\ call[c].at \in Nat /\ call[c].at <= clock /\ Window \in Nat \ {0}
      /\ publishedAt[k] \in Nat \cup {Null} /\ withdrawnAt[k] \in Nat \cup {Null}
      /\ clock \in Nat
  BY DEF IInv, TypeOK, CallType, PastIsPast, Window
<1>8. /\ call[c].verdict = "accepted" =>
           /\ publishedAt[k] # Null
           /\ withdrawnAt[k] # Null => call[c].at < withdrawnAt[k] + Window
      /\ /\ call[c].verdict = "nomatch"
         /\ publishedAt[k] # Null
         /\ publishedAt[k] + Window <= call[c].at
         => withdrawnAt[k] # Null /\ withdrawnAt[k] <= call[c].at
  <2>1. WithdrawnKeysExpire /\ PublishedKeysWork
    BY DEF IInv
  <2>2. call[c].verdict = "accepted" =>
           /\ publishedAt[k] # Null
           /\ withdrawnAt[k] # Null => call[c].at < withdrawnAt[k] + Window
    BY <2>1 DEF WithdrawnKeysExpire
  <2>3. /\ call[c].verdict = "nomatch"
        /\ publishedAt[k] # Null
        /\ publishedAt[k] + Window <= call[c].at
        => withdrawnAt[k] # Null /\ withdrawnAt[k] <= call[c].at
    BY <2>1 DEF PublishedKeysWork
  <2> QED BY <2>2, <2>3
<1>9. CASE publishedAt'[k] = publishedAt[k] /\ withdrawnAt'[k] = withdrawnAt[k]
  BY <1>8, <1>9
<1>10. CASE publishedAt[k] = Null /\ publishedAt'[k] = clock /\ withdrawnAt'[k] = withdrawnAt[k]
  BY <1>7, <1>8, <1>10
<1>11. CASE /\ publishedAt[k] # Null /\ withdrawnAt[k] = Null
            /\ publishedAt'[k] = publishedAt[k] /\ withdrawnAt'[k] = clock
  BY <1>7, <1>8, <1>11
<1> QED
  BY <1>9, <1>10, <1>11 DEF ProviderStep, Publish, Withdraw, Tick, Published, provider, IInv, TypeOK

-----------------------------------------------------------------------------
(* Requests.                                                               *)

\* A step of request c that leaves time, the provider and the cache alone keeps
\* what it must keep for itself.
LEMMA RequestKeepsInvariant ==
  ASSUME IInv, NEW c \in Callers, NEW new \in CallType,
         call' = [call EXCEPT ![c] = new],
         UNCHANGED <<clock, publishedAt, withdrawnAt, keys, fetchedAt>>,
         readers' \subseteq Callers,
         \/ UNCHANGED fetcher
         \/ fetcher' \in {c, Null} /\ fetcher \in {c, Null},
         new.pc \in {"recheck", "fetch", "store"} => fetcher' = c,
         new.pc \in {"fetch", "store"} =>
           /\ new.started <= clock /\ clock <= new.started + FetchTimeout
           /\ fetchedAt # Null => fetchedAt + Ttl <= clock,
         new.pc = "store" => IsKeySetOf(new.fetched, new.started),
         new.pc # "idle" => new.token \in Tokens /\ new.verdict = Null,
         new.verdict # Null => new.token \in Tokens,
         new.verdict # Null => new.at = clock,
         new.verdict = "accepted" =>
           /\ publishedAt[new.token.key] # Null
           /\ withdrawnAt[new.token.key] # Null =>
                clock < withdrawnAt[new.token.key] + Window,
         new.verdict = "nomatch" =>
           \/ publishedAt[new.token.key] = Null
           \/ clock < publishedAt[new.token.key] + Window
           \/ withdrawnAt[new.token.key] # Null
  PROVE  IInv'
<1> USE NullAssumption, VerdictsAssumption, BoundsAssumption DEF Verdicts
<1>0. /\ \A b \in Callers \ {c} : call'[b] = call[b]
      /\ call'[c] = new
      /\ \A b \in Callers : call[b] \in CallType
  BY DEF IInv, TypeOK
<1>1. TypeOK'
  BY DEF IInv, TypeOK
<1>2. LockIsHeld'
  BY <1>0 DEF IInv, LockIsHeld
<1>3. PastIsPast'
  BY <1>0 DEF IInv, TypeOK, PastIsPast
<1>4. FetchesAreTimely'
  <2> SUFFICES ASSUME NEW b \in Callers
               PROVE  /\ call'[b].pc \in {"fetch", "store"} =>
                           /\ call'[b].started <= clock
                           /\ clock <= call'[b].started + FetchTimeout
                           /\ fetchedAt # Null => fetchedAt + Ttl <= clock
                      /\ call'[b].pc = "store" =>
                           IsKeySetOf(call'[b].fetched, call'[b].started)
    BY DEF FetchesAreTimely, Fetching, IsKeySetOf
  <2>1. CASE b = c
    BY <2>1, <1>0
  <2>2. CASE b # c
    BY <2>2, <1>0 DEF IInv, FetchesAreTimely, Fetching
  <2> QED BY <2>1, <2>2
<1>5. CacheIsKeySet'
  BY DEF IInv, CacheIsKeySet, IsKeySetOf
<1>6. CallsHaveTokens'
  BY <1>0 DEF IInv, CallsHaveTokens
<1>7. Window \in Nat
  BY DEF Window
<1>8. WithdrawnKeysExpire'
  <2> SUFFICES ASSUME NEW b \in Callers, call'[b].verdict = "accepted"
               PROVE  /\ publishedAt[call'[b].token.key] # Null
                      /\ withdrawnAt[call'[b].token.key] # Null =>
                           call'[b].at < withdrawnAt[call'[b].token.key] + Window
    BY DEF WithdrawnKeysExpire, Window
  <2>1. CASE b = c
    BY <2>1, <1>0
  <2>2. CASE b # c
    BY <2>2, <1>0 DEF IInv, WithdrawnKeysExpire
  <2> QED BY <2>1, <2>2
<1>9. PublishedKeysWork'
  <2> SUFFICES ASSUME NEW b \in Callers, NEW k, k = call'[b].token.key,
                      call'[b].verdict = "nomatch", publishedAt[k] # Null,
                      publishedAt[k] + Window <= call'[b].at
               PROVE  withdrawnAt[k] # Null /\ withdrawnAt[k] <= call'[b].at
    BY DEF PublishedKeysWork, Window
  <2>1. CASE b = c
    <3>1. k \in Keys
      BY <2>1, <1>0, TokensAssumption
    <3>2. /\ publishedAt[k] \in Nat /\ withdrawnAt[k] \in Nat \cup {Null} /\ clock \in Nat
          /\ withdrawnAt[k] # Null => withdrawnAt[k] <= clock
      BY <3>1 DEF IInv, TypeOK, PastIsPast
    <3> QED BY <2>1, <1>0, <1>7, <3>2
  <2>2. CASE b # c
    BY <2>2, <1>0 DEF IInv, PublishedKeysWork, Window
  <2> QED BY <2>1, <2>2
<1> QED BY <1>1, <1>2, <1>3, <1>4, <1>5, <1>6, <1>8, <1>9 DEF IInv

-----------------------------------------------------------------------------
(* What a verdict out of the cache rests on.                               *)

\* A verdict that is not about the keys is no acceptance and no refusal for
\* its key.
LEMMA VerdictIs ==
  ASSUME NEW token, NEW known
  PROVE  /\ Verdict(token, known) \in Verdicts
         /\ Verdict(token, known) = "accepted" => token.key \in known
         /\ Verdict(token, known) = "nomatch" => token.key \notin known
BY DEF Verdict, Verdicts

\* A verdict on a fresh cache, or on a set of keys that was asked for at t, is
\* out of date by less than a window.
LEMMA KeySetVerdicts ==
  ASSUME IInv, NEW known \in SUBSET Keys, NEW t \in Nat, IsKeySetOf(known, t),
         clock < t + Window, NEW token \in Tokens,
         NEW verdict, verdict = Verdict(token, known)
  PROVE  /\ verdict = "accepted" =>
              /\ publishedAt[token.key] # Null
              /\ withdrawnAt[token.key] # Null =>
                   clock < withdrawnAt[token.key] + Window
         /\ verdict = "nomatch" =>
              \/ publishedAt[token.key] = Null
              \/ clock < publishedAt[token.key] + Window
              \/ withdrawnAt[token.key] # Null
<1> DEFINE k == token.key
<1>1. k \in Keys
  BY TokensAssumption
<1> HIDE DEF k
<1>2. /\ publishedAt[k] \in Nat \cup {Null} /\ withdrawnAt[k] \in Nat \cup {Null}
      /\ clock \in Nat /\ Window \in Nat
  BY <1>1, BoundsAssumption DEF IInv, TypeOK, Window
<1>3. /\ k \in known => publishedAt[k] # Null /\ (withdrawnAt[k] # Null => t <= withdrawnAt[k])
      /\ k \notin known =>
           (publishedAt[k] # Null => t <= publishedAt[k] \/ withdrawnAt[k] # Null)
  BY <1>1 DEF IsKeySetOf
<1>4. /\ verdict = "accepted" => k \in known
      /\ verdict = "nomatch" => k \notin known
  BY VerdictIs DEF k
<1>5. /\ verdict = "accepted" =>
           publishedAt[k] # Null /\ (withdrawnAt[k] # Null => clock < withdrawnAt[k] + Window)
      /\ verdict = "nomatch" =>
           \/ publishedAt[k] = Null
           \/ clock < publishedAt[k] + Window
           \/ withdrawnAt[k] # Null
  BY <1>2, <1>3, <1>4
<1> QED BY <1>5 DEF k

LEMMA FreshVerdicts ==
  ASSUME IInv, Fresh, NEW token \in Tokens, NEW verdict, verdict = Verdict(token, keys)
  PROVE  /\ verdict \in Verdicts
         /\ verdict = "accepted" =>
              /\ publishedAt[token.key] # Null
              /\ withdrawnAt[token.key] # Null =>
                   clock < withdrawnAt[token.key] + Window
         /\ verdict = "nomatch" =>
              \/ publishedAt[token.key] = Null
              \/ clock < publishedAt[token.key] + Window
              \/ withdrawnAt[token.key] # Null
<1>1. PICK t \in Nat : fetchedAt <= t + FetchTimeout /\ IsKeySetOf(keys, t)
  BY DEF IInv, CacheIsKeySet, Fresh
<1>2. clock < t + Window
  BY <1>1, BoundsAssumption DEF Fresh, Window, IInv, TypeOK
<1>3. keys \in SUBSET Keys
  BY DEF IInv, TypeOK
<1> QED BY <1>1, <1>2, <1>3, KeySetVerdicts, VerdictIs

-----------------------------------------------------------------------------
(* The steps.                                                              *)

LEMMA RequestStepsKeepInvariant ==
  ASSUME IInv, NEW c \in Callers,
         \/ \E token \in Tokens : RLock(c, token)
         \/ FreshAtOnce(c) \/ StaleAtFirst(c) \/ LockFetch(c)
         \/ FreshByNow(c) \/ StaleStill(c) \/ FetchAnswered(c) \/ FetchFails(c)
  PROVE  IInv'
<1> USE NullAssumption, VerdictsAssumption, BoundsAssumption DEF cache, provider
<1>0. /\ call[c] \in CallType /\ clock \in Nat /\ fetchedAt \in Nat \cup {Null}
      /\ call[c].pc # "idle" => call[c].token \in Tokens /\ call[c].verdict = Null
      /\ call[c].pc \in {"recheck", "fetch", "store"} => fetcher = c
      /\ readers \subseteq Callers
  BY DEF IInv, TypeOK, CallsHaveTokens, LockIsHeld
<1>1. ASSUME NEW token \in Tokens, RLock(c, token) PROVE IInv'
  <2> DEFINE new == [call[c] EXCEPT !.pc = "look", !.token = token, !.verdict = Null, !.at = 0]
  <2>1. new \in CallType /\ new.pc = "look" /\ new.token = token /\ new.verdict = Null
    BY <1>0 DEF CallType
  <2>2. call' = [call EXCEPT ![c] = new]
    BY <1>1 DEF RLock
  <2>3. UNCHANGED <<clock, publishedAt, withdrawnAt, keys, fetchedAt, fetcher>>
    BY <1>1 DEF RLock
  <2>4. readers' \subseteq Callers
    BY <1>0, <1>1 DEF RLock
  <2> HIDE DEF new
  <2> QED BY <2>1, <2>2, <2>3, <2>4, RequestKeepsInvariant DEF Verdicts
<1> DEFINE moved(pc) == [call[c] EXCEPT !.pc = pc]
           returned(verdict) ==
             [call[c] EXCEPT !.pc = "idle", !.verdict = verdict, !.at = clock,
                             !.fetched = {}, !.started = 0]
<1>2. ASSUME NEW verdict \in Verdicts
      PROVE  /\ returned(verdict) \in CallType /\ returned(verdict).pc = "idle"
             /\ returned(verdict).verdict = verdict /\ returned(verdict).at = clock
             /\ returned(verdict).token = call[c].token
  BY <1>0, <1>2 DEF CallType
<1>3. ASSUME NEW verdict \in Verdicts, Return(c, verdict),
             UNCHANGED <<clock, publishedAt, withdrawnAt, keys, fetchedAt>>,
             readers' \subseteq Callers,
             UNCHANGED fetcher \/ (fetcher = c /\ ReleaseFetch(c)),
             call[c].pc # "idle",
             \/ verdict = "error"
             \/ Fresh /\ verdict = Verdict(call[c].token, keys)
      PROVE  IInv'
  <2>1. call' = [call EXCEPT ![c] = returned(verdict)]
    BY <1>3 DEF Return
  <2>2. PICK new : new = returned(verdict)
    OBVIOUS
  <2>3. /\ new \in CallType /\ new.pc = "idle" /\ new.verdict = verdict
        /\ new.at = clock /\ new.token = call[c].token /\ new.token \in Tokens
    BY <1>0, <1>2, <1>3, <2>2
  <2> HIDE DEF returned
  <2>4. /\ verdict = "accepted" =>
             /\ publishedAt[new.token.key] # Null
             /\ withdrawnAt[new.token.key] # Null =>
                  clock < withdrawnAt[new.token.key] + Window
        /\ verdict = "nomatch" =>
             \/ publishedAt[new.token.key] = Null
             \/ clock < publishedAt[new.token.key] + Window
             \/ withdrawnAt[new.token.key] # Null
    BY <1>3, <2>3, FreshVerdicts
  <2>5. UNCHANGED fetcher \/ (fetcher' \in {c, Null} /\ fetcher \in {c, Null})
    BY <1>3 DEF ReleaseFetch
  <2> QED BY <1>3, <2>1, <2>2, <2>3, <2>4, <2>5, RequestKeepsInvariant
<1>4. Verdict(call[c].token, keys) \in Verdicts /\ "error" \in Verdicts
  BY VerdictIs DEF Verdicts
<1>5. CASE FreshAtOnce(c)
  BY <1>0, <1>3, <1>4, <1>5 DEF FreshAtOnce
<1>6. CASE FreshByNow(c)
  BY <1>0, <1>3, <1>4, <1>6 DEF FreshByNow
<1>7. CASE FetchFails(c)
  BY <1>0, <1>3, <1>4, <1>7 DEF FetchFails
<1> HIDE DEF returned
<1>8. CASE StaleAtFirst(c) \/ LockFetch(c)
  <2>1. PICK new : \E pc \in {"queue", "recheck"} :
          /\ new = [call[c] EXCEPT !.pc = pc] /\ Goto(c, pc)
          /\ pc = "recheck" => fetcher' = c
    BY <1>8 DEF StaleAtFirst, LockFetch
  <2>2. /\ new \in CallType /\ new.pc \in {"queue", "recheck"}
        /\ new.pc = "recheck" => fetcher' = c
        /\ new.token = call[c].token /\ new.verdict = call[c].verdict
        /\ new.at = call[c].at
        /\ call' = [call EXCEPT ![c] = new]
    BY <2>1, <1>0 DEF CallType, Goto
  <2>3. /\ UNCHANGED <<clock, publishedAt, withdrawnAt, keys, fetchedAt>>
        /\ UNCHANGED fetcher \/ (fetcher = Null /\ fetcher' = c)
        /\ readers' \subseteq Callers
        /\ call[c].pc # "idle"
    BY <1>0, <1>8 DEF StaleAtFirst, LockFetch
  <2> QED BY <1>0, <2>2, <2>3, RequestKeepsInvariant DEF Verdicts
<1>9. CASE StaleStill(c)
  <2> DEFINE new == [call[c] EXCEPT !.pc = "fetch", !.started = clock]
  <2>1. /\ new \in CallType /\ new.pc = "fetch" /\ new.started = clock
        /\ new.token = call[c].token /\ new.verdict = call[c].verdict
    BY <1>0 DEF CallType
  <2>2. /\ call' = [call EXCEPT ![c] = new]
        /\ UNCHANGED <<clock, publishedAt, withdrawnAt, keys, fetchedAt, fetcher, readers>>
        /\ call[c].pc = "recheck"
    BY <1>9 DEF StaleStill
  <2>3. fetchedAt # Null => fetchedAt + Ttl <= clock
    BY <1>0, <1>9 DEF StaleStill, Fresh
  <2>4. new.started <= clock /\ clock <= new.started + FetchTimeout
    BY <1>0, <2>1
  <2>5. fetcher' = c /\ readers' \subseteq Callers
    BY <1>0, <2>2
  <2>6. new.token \in Tokens /\ new.verdict = Null
    BY <1>0, <2>1, <2>2
  <2> HIDE DEF new
  <2> QED BY <2>1, <2>2, <2>3, <2>4, <2>5, <2>6, RequestKeepsInvariant DEF Verdicts
<1>10. CASE FetchAnswered(c)
  <2> DEFINE new == [call[c] EXCEPT !.pc = "store", !.fetched = Published]
  <2>1. /\ new \in CallType /\ new.pc = "store" /\ new.started = call[c].started
        /\ new.token = call[c].token /\ new.verdict = call[c].verdict
        /\ new.fetched = Published
    BY <1>0 DEF CallType, Published
  <2>2. /\ call' = [call EXCEPT ![c] = new]
        /\ UNCHANGED <<clock, publishedAt, withdrawnAt, keys, fetchedAt, fetcher, readers>>
        /\ call[c].pc = "fetch"
    BY <1>10 DEF FetchAnswered
  <2>3. /\ call[c].started <= clock /\ clock <= call[c].started + FetchTimeout
        /\ fetchedAt # Null => fetchedAt + Ttl <= clock
    BY <2>2 DEF IInv, FetchesAreTimely, Fetching
  <2>4. IsKeySetOf(Published, call[c].started)
    BY DEF IsKeySetOf, Published
  <2> HIDE DEF new
  <2> QED BY <1>0, <2>1, <2>2, <2>3, <2>4, RequestKeepsInvariant DEF Verdicts
<1> QED BY <1>1, <1>5, <1>6, <1>7, <1>8, <1>9, <1>10

\* The caller that stores knows that its set is of the time its fetch began.
LEMMA StoreKeepsInvariant ==
  ASSUME IInv, NEW c \in Callers, StoreKeys(c)
  PROVE  IInv' /\ (fetchedAt # Null => fetchedAt' >= fetchedAt + Ttl)
<1> USE NullAssumption, VerdictsAssumption, BoundsAssumption DEF cache, provider
<1> DEFINE verdict == Verdict(call[c].token, call[c].fetched)
           new == [call[c] EXCEPT !.pc = "idle", !.verdict = verdict, !.at = clock,
                                  !.fetched = {}, !.started = 0]
<1>1. /\ call[c] \in CallType /\ clock \in Nat /\ call[c].token \in Tokens
      /\ fetcher = c /\ call[c].pc = "store"
      /\ IsKeySetOf(call[c].fetched, call[c].started)
      /\ call[c].started <= clock /\ clock <= call[c].started + FetchTimeout
      /\ fetchedAt # Null => fetchedAt + Ttl <= clock
  BY DEF StoreKeys, IInv, TypeOK, CallsHaveTokens, LockIsHeld, FetchesAreTimely, Fetching
<1>2. verdict \in Verdicts
  BY VerdictIs
<1>3. /\ new \in CallType /\ new.pc = "idle" /\ new.verdict = verdict /\ new.at = clock
      /\ new.token = call[c].token
  BY <1>1, <1>2 DEF CallType
<1>4. /\ verdict = "accepted" =>
           /\ publishedAt[new.token.key] # Null
           /\ withdrawnAt[new.token.key] # Null =>
                clock < withdrawnAt[new.token.key] + Window
      /\ verdict = "nomatch" =>
           \/ publishedAt[new.token.key] = Null
           \/ clock < publishedAt[new.token.key] + Window
           \/ withdrawnAt[new.token.key] # Null
  <2>1. clock < call[c].started + Window
    BY <1>1 DEF CallType, Window
  <2>2. call[c].fetched \in SUBSET Keys /\ call[c].started \in Nat
    BY <1>1 DEF CallType
  <2> QED BY <1>1, <1>3, <2>1, <2>2, KeySetVerdicts
<1>5. /\ call' = [call EXCEPT ![c] = new]
      /\ keys' = call[c].fetched /\ fetchedAt' = clock /\ fetcher' = Null
      /\ UNCHANGED <<clock, publishedAt, withdrawnAt, readers>>
  BY <1>1 DEF StoreKeys, Return, ReleaseFetch
<1> HIDE DEF new, verdict
<1>6. /\ \A b \in Callers \ {c} : call'[b] = call[b]
      /\ call'[c] = new
      /\ \A b \in Callers \ {c} : call[b].pc \notin {"recheck", "fetch", "store"}
  <2>1. \A b \in Callers \ {c} : call[b].pc \notin {"recheck", "fetch", "store"}
    BY <1>1 DEF IInv, LockIsHeld
  <2> QED BY <1>5, <2>1 DEF IInv, TypeOK
<1>7. TypeOK'
  BY <1>1, <1>3, <1>5 DEF IInv, TypeOK, CallType
<1>8. LockIsHeld' /\ FetchesAreTimely'
  BY <1>3, <1>6 DEF LockIsHeld, FetchesAreTimely, Fetching
<1>9. PastIsPast'
  BY <1>1, <1>3, <1>5, <1>6 DEF IInv, PastIsPast
<1>10. CacheIsKeySet'
  <2>1. call[c].started \in Nat
    BY <1>1 DEF CallType
  <2> QED BY <1>1, <1>5, <2>1 DEF CacheIsKeySet, IsKeySetOf
<1>11. CallsHaveTokens'
  BY <1>1, <1>3, <1>6 DEF IInv, CallsHaveTokens
<1>12. WithdrawnKeysExpire'
  BY <1>3, <1>4, <1>5, <1>6 DEF IInv, WithdrawnKeysExpire, Window
<1>13. PublishedKeysWork'
  <2> SUFFICES ASSUME NEW b \in Callers, NEW k, k = call'[b].token.key,
                      call'[b].verdict = "nomatch", publishedAt[k] # Null,
                      publishedAt[k] + Window <= call'[b].at
               PROVE  withdrawnAt[k] # Null /\ withdrawnAt[k] <= call'[b].at
    BY <1>5 DEF PublishedKeysWork, Window
  <2>1. CASE b = c
    <3>1. k \in Keys /\ Window \in Nat
      BY <2>1, <1>1, <1>3, <1>6, TokensAssumption DEF Window
    <3>2. /\ publishedAt[k] \in Nat /\ withdrawnAt[k] \in Nat \cup {Null}
          /\ withdrawnAt[k] # Null => withdrawnAt[k] <= clock
      BY <3>1 DEF IInv, TypeOK, PastIsPast
    <3> QED BY <2>1, <1>1, <1>3, <1>4, <1>6, <3>1, <3>2
  <2>2. CASE b # c
    BY <2>2, <1>6 DEF IInv, PublishedKeysWork, Window
  <2> QED BY <2>1, <2>2
<1> QED
  BY <1>1, <1>5, <1>7, <1>8, <1>9, <1>10, <1>11, <1>12, <1>13 DEF IInv

-----------------------------------------------------------------------------
(* The theorems.                                                           *)

LEMMA InitInvariant == Init => IInv
BY NullAssumption, VerdictsAssumption
   DEF Init, IInv, TypeOK, CallType, LockIsHeld, PastIsPast, FetchesAreTimely, Fetching,
       CacheIsKeySet, CallsHaveTokens, WithdrawnKeysExpire, PublishedKeysWork, Verdicts

LEMMA StepInvariant ==
  ASSUME IInv, [Next]_vars
  PROVE  /\ IInv'
         /\ [fetchedAt' # fetchedAt /\ fetchedAt # Null => fetchedAt' >= fetchedAt + Ttl]_vars
<1>1. CASE UNCHANGED vars
  BY <1>1 DEF vars, IInv, TypeOK, LockIsHeld, PastIsPast, FetchesAreTimely, Fetching,
              CacheIsKeySet, IsKeySetOf, CallsHaveTokens, WithdrawnKeysExpire,
              PublishedKeysWork, Window
<1>2. ASSUME NEW c \in Callers,
             \/ \E token \in Tokens : RLock(c, token)
             \/ FreshAtOnce(c) \/ StaleAtFirst(c) \/ LockFetch(c)
             \/ FreshByNow(c) \/ StaleStill(c) \/ FetchAnswered(c) \/ FetchFails(c)
      PROVE  IInv' /\ UNCHANGED fetchedAt
  <2>1. IInv'
    BY <1>2, RequestStepsKeepInvariant
  <2>2. UNCHANGED fetchedAt
    BY <1>2 DEF RLock, FreshAtOnce, StaleAtFirst, LockFetch, FreshByNow, StaleStill,
                FetchAnswered, FetchFails, cache
  <2> QED BY <2>1, <2>2
<1>3. ASSUME NEW c \in Callers, StoreKeys(c)
      PROVE  IInv' /\ (fetchedAt # Null => fetchedAt' >= fetchedAt + Ttl)
  BY <1>3, StoreKeepsInvariant
<1>4. CASE ProviderStep
  <2>1. IInv'
    BY <1>4, ProviderKeepsInvariant
  <2>2. UNCHANGED fetchedAt
    BY <1>4 DEF ProviderStep, Publish, Withdraw, Tick, cache
  <2> QED BY <2>1, <2>2
<1> QED BY <1>1, <1>2, <1>3, <1>4 DEF Next, ProviderStep

THEOREM InvariantCorrect == Spec => []IInv
<1>1. Init => IInv
  BY InitInvariant
<1>2. IInv /\ [Next]_vars => IInv'
  BY StepInvariant
<1> QED BY <1>1, <1>2, PTL DEF Spec

\* Every variable of the cache has its type (internal/auth/claims.go).
THEOREM TypeCorrect == Spec => []TypeOK
<1>1. IInv => TypeOK
  BY DEF IInv
<1> QED BY <1>1, InvariantCorrect, PTL

\* No token is accepted on a key that was withdrawn ttl plus fetch timeout ago.
THEOREM WithdrawnCorrect == Spec => []WithdrawnKeysExpire
<1>1. IInv => WithdrawnKeysExpire
  BY DEF IInv
<1> QED BY <1>1, InvariantCorrect, PTL

\* No token is refused for a key that was published ttl plus fetch timeout ago.
THEOREM PublishedCorrect == Spec => []PublishedKeysWork
<1>1. IInv => PublishedKeysWork
  BY DEF IInv
<1> QED BY <1>1, InvariantCorrect, PTL

\* Key sets are stored at least a ttl apart.
THEOREM SpacedCorrect == Spec => StoresAreSpaced
<1>1. IInv /\ [Next]_vars =>
        [fetchedAt' # fetchedAt /\ fetchedAt # Null => fetchedAt' >= fetchedAt + Ttl]_vars
  BY StepInvariant
<1> QED BY <1>1, InvariantCorrect, PTL DEF Spec, StoresAreSpaced
=============================================================================
