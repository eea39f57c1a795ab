------------------------------ MODULE NodePush -------------------------------
(***************************************************************************)
(* LokiClient.push of the Node library: pushes that run concurrently share *)
(* one client, its `authorization` and the cache of one                    *)
(* CredentialProvider.  A step goes from one await to the next, except for *)
(* those between whose ends nothing shared is read or written: authHeader  *)
(* returning the string it has, and the body of an answer that is only     *)
(* classified.  Source: common/nodejs/src/loki.ts and                      *)
(* common/nodejs/src/aws/credentials.ts.  Loki and Secrets Manager are     *)
(* external, as in LokiPush; backoff lasts any time.                       *)
(***************************************************************************)
EXTENDS Integers

CONSTANTS
  Pushers,       \* pushes under way at the same time
  MaxRetries,    \* config.maxRetries
  Ttl,           \* ttlSeconds of the provider
  MaxRotations,  \* bound on rotations
  MaxClock,      \* bound on the clock
  NoToken        \* undefined

Tokens == 0 .. MaxRotations

ASSUME NodePushAssumption ==
  /\ MaxRetries \in Nat \ {0} /\ Ttl \in Nat \ {0}
  /\ MaxRotations \in Nat /\ MaxClock \in Nat /\ NoToken \notin Int

VARIABLES
  clock,
  secret,        \* the token Secrets Manager holds
  live,          \* the tokens Loki takes
  replacedAt,    \* history: when each token was rotated out
  cached, expiresAt,   \* CredentialProvider's cache
  authorization, \* LokiClient's header
  phase,         \* of each push: "idle", "auth", "fetch", "token", "send",
                 \* "judge" or "wait"
  attempt,
  header,        \* headers.authorization of the request
  now,           \* resolve's local: when the push asked for its token
  reading,       \* the token read for the push, until authHeader has it
  result,        \* how the last push ended
  accepted       \* history: how often Loki took the batch

envVars  == <<secret, live, replacedAt>>
credVars == <<cached, expiresAt>>
pushVars == <<phase, attempt, header, now, reading, result, accepted>>
vars == <<clock, envVars, credVars, authorization, pushVars>>

Init ==
  /\ clock = 0
  /\ secret = 0 /\ live = {0} /\ replacedAt = [t \in Tokens |-> 0]
  /\ cached = NoToken /\ expiresAt = 0
  /\ authorization = NoToken
  /\ phase = [p \in Pushers |-> "idle"] /\ attempt = [p \in Pushers |-> 0]
  /\ header = [p \in Pushers |-> NoToken] /\ now = [p \in Pushers |-> 0]
  /\ reading = [p \in Pushers |-> NoToken]
  /\ result = [p \in Pushers |-> "none"] /\ accepted = [p \in Pushers |-> 0]

-----------------------------------------------------------------------------
(* The world.                                                              *)

Tick ==
  /\ clock < MaxClock
  /\ clock' = clock + 1
  /\ UNCHANGED <<envVars, credVars, authorization, pushVars>>

Rotate ==
  /\ secret < MaxRotations
  /\ secret' = secret + 1
  /\ live' = live \cup {secret'}
  /\ replacedAt' = [replacedAt EXCEPT ![secret] = clock]
  /\ UNCHANGED <<clock, credVars, authorization, pushVars>>

Revoke(t) ==
  /\ t \in live \ {secret}
  /\ live' = live \ {t}
  /\ UNCHANGED <<clock, secret, replacedAt, credVars, authorization, pushVars>>

\* invalidate(): calls of Secrets Manager under way are not told of it.
Invalidate ==
  /\ cached # NoToken
  /\ cached' = NoToken /\ expiresAt' = 0
  /\ UNCHANGED <<clock, envVars, authorization, pushVars>>

-----------------------------------------------------------------------------
(* push.                                                                   *)

Goes(p, to) == phase' = [phase EXCEPT ![p] = to]

StartPush(p) ==
  /\ phase[p] = "idle"
  /\ Goes(p, "auth")
  /\ attempt' = [attempt EXCEPT ![p] = 1]
  /\ result' = [result EXCEPT ![p] = "none"]
  /\ accepted' = [accepted EXCEPT ![p] = 0]
  /\ UNCHANGED <<clock, envVars, credVars, authorization, header, now, reading>>

\* What authHeader returns is the header the request goes out with, whatever
\* becomes of the client's own.
Send(p, token) ==
  /\ header' = [header EXCEPT ![p] = token]
  /\ Goes(p, "send")

\* authHeader: the client's header serves a first attempt, whoever set it.
UseHeader(p) ==
  /\ phase[p] = "auth" /\ attempt[p] = 1 /\ authorization # NoToken
  /\ Send(p, authorization)
  /\ now' = [now EXCEPT ![p] = clock]
  /\ UNCHANGED <<clock, envVars, credVars, authorization, attempt, reading, result,
                 accepted>>

CacheHit == cached # NoToken /\ clock < expiresAt

\* resolve: what the cache holds ...
UseCache(p) ==
  /\ phase[p] = "auth" /\ (authorization = NoToken \/ attempt[p] > 1)
  /\ CacheHit
  /\ Goes(p, "token")
  /\ reading' = [reading EXCEPT ![p] = cached]
  /\ now' = [now EXCEPT ![p] = clock]
  /\ UNCHANGED <<clock, envVars, credVars, authorization, attempt, header, result, accepted>>

\* ... or an answer of Secrets Manager, which every push awaits on its own.
AskSecret(p) ==
  /\ phase[p] = "auth" /\ (authorization = NoToken \/ attempt[p] > 1)
  /\ ~CacheHit
  /\ Goes(p, "fetch")
  /\ now' = [now EXCEPT ![p] = clock]
  /\ reading' = [reading EXCEPT ![p] = NoToken]
  /\ UNCHANGED <<clock, envVars, credVars, authorization, attempt, header, result, accepted>>

ReadSecret(p) ==
  /\ phase[p] = "fetch" /\ reading[p] = NoToken
  /\ reading' = [reading EXCEPT ![p] = secret]
  /\ UNCHANGED <<clock, envVars, credVars, authorization, phase, attempt, header, now,
                 result, accepted>>

\* Mutant: the TTL runs from the answer.
AnsweredLate(p) ==
  /\ phase[p] = "fetch" /\ reading[p] # NoToken
  /\ cached' = reading[p] /\ expiresAt' = clock + Ttl
  /\ Goes(p, "token")
  /\ UNCHANGED <<clock, envVars, authorization, attempt, header, now, reading, result, accepted>>

\* The answers fill the cache in the order they arrive, not that of the calls.
SecretAnswered(p) ==
  /\ phase[p] = "fetch" /\ reading[p] # NoToken
  /\ cached' = reading[p] /\ expiresAt' = now[p] + Ttl
  /\ Goes(p, "token")
  /\ UNCHANGED <<clock, envVars, authorization, attempt, header, now, reading, result, accepted>>

\* authHeader goes on with the token it awaited; another push may have filled
\* the cache or dropped the header in between.
SetHeader(p) ==
  /\ phase[p] = "token"
  /\ authorization' = reading[p]
  /\ Send(p, reading[p])
  /\ reading' = [reading EXCEPT ![p] = NoToken]
  /\ UNCHANGED <<clock, envVars, credVars, attempt, now, result, accepted>>

Finish(p, r) == Goes(p, "idle") /\ result' = [result EXCEPT ![p] = r]

\* classify of credentials.ts, or a secret that does not parse: the error
\* leaves push().
SecretFails(p, r) ==
  /\ phase[p] = "fetch"
  /\ Finish(p, r)
  /\ reading' = [reading EXCEPT ![p] = NoToken]
  /\ UNCHANGED <<clock, envVars, credVars, authorization, attempt, header, now,
                 accepted>>

Retry(p) ==
  IF attempt[p] < MaxRetries THEN Goes(p, "wait") /\ UNCHANGED result
  ELSE Finish(p, "retryable")

Takes(p, n) == accepted' = [accepted EXCEPT ![p] = @ + n]

Accepted(p) ==
  /\ phase[p] = "send" /\ header[p] \in live
  /\ Takes(p, 1)
  /\ Finish(p, "ok")
  /\ UNCHANGED <<clock, envVars, credVars, authorization, attempt, header, now, reading>>

\* Mutant: any answer resolves.
BusyResolves(p) ==
  /\ phase[p] = "send"
  /\ \E n \in {0} \cup (IF header[p] \in live THEN {1} ELSE {}) : Takes(p, n)
  /\ Finish(p, "ok")
  /\ UNCHANGED <<clock, envVars, credVars, authorization, attempt, header, now, reading>>

\* A retryable status, an aborted request or no answer; Loki may have taken the
\* batch.
Busy(p) ==
  /\ phase[p] = "send"
  /\ \E n \in {0} \cup (IF header[p] \in live THEN {1} ELSE {}) : Takes(p, n)
  /\ Retry(p)
  /\ UNCHANGED <<clock, envVars, credVars, authorization, attempt, header, now, reading>>

Rejected(p) ==
  /\ phase[p] = "send"
  /\ Finish(p, "permanent")
  /\ UNCHANGED <<clock, envVars, credVars, authorization, attempt, header, now, reading,
                 accepted>>

\* 401 or 403; the body of the answer is awaited before it is classified.
Unauthorised(p) ==
  /\ phase[p] = "send" /\ header[p] \notin live
  /\ Goes(p, "judge")
  /\ UNCHANGED <<clock, envVars, credVars, authorization, attempt, header, now, reading,
                 result, accepted>>

\* The first attempt drops the client's header, which may be another push's by
\* now, and tries again; any later one gives up.
Judge(p) ==
  /\ phase[p] = "judge"
  /\ IF attempt[p] = 1
     THEN authorization' = NoToken /\ Retry(p)
     ELSE Finish(p, "unauthorised") /\ UNCHANGED authorization
  /\ UNCHANGED <<clock, envVars, credVars, attempt, header, now, reading, accepted>>

Wake(p) ==
  /\ phase[p] = "wait"
  /\ Goes(p, "auth")
  /\ attempt' = [attempt EXCEPT ![p] = @ + 1]
  /\ UNCHANGED <<clock, envVars, credVars, authorization, header, now, reading, result,
                 accepted>>

Push(p) ==
  \/ StartPush(p) \/ UseHeader(p) \/ UseCache(p)
  \/ AskSecret(p) \/ ReadSecret(p) \/ SecretAnswered(p) \/ SetHeader(p)
  \/ \E r \in {"secretRetryable", "permanent"} : SecretFails(p, r)
  \/ Accepted(p) \/ Busy(p) \/ Rejected(p) \/ Unauthorised(p) \/ Judge(p) \/ Wake(p)

Next ==
  \/ Tick \/ Rotate \/ (\E t \in Tokens : Revoke(t)) \/ Invalidate
  \/ \E p \in Pushers : Push(p)

Spec == Init /\ [][Next]_vars

-----------------------------------------------------------------------------
(* Properties.                                                             *)

\* Every variable has its type.
TypeOK ==
  /\ clock \in Nat
  /\ secret \in Tokens /\ live \subseteq Tokens /\ replacedAt \in [Tokens -> Nat]
  /\ cached \in Tokens \cup {NoToken} /\ expiresAt \in Nat
  /\ authorization \in Tokens \cup {NoToken}
  /\ phase \in [Pushers -> {"idle", "auth", "fetch", "token", "send", "judge", "wait"}]
  /\ attempt \in [Pushers -> 0 .. MaxRetries]
  /\ header \in [Pushers -> Tokens \cup {NoToken}]
  /\ now \in [Pushers -> Nat]
  /\ reading \in [Pushers -> Tokens \cup {NoToken}]
  /\ result \in [Pushers -> {"none", "ok", "retryable", "secretRetryable", "permanent",
                             "unauthorised"}]
  /\ accepted \in [Pushers -> Nat]

\* t was the secret at some moment less than one TTL before `when`.
FreshAt(t, when) == t = secret \/ when < replacedAt[t] + Ttl

\* However the pushes interleave, one that gives up on a 401 had, as its last
\* token, one that was current less than a TTL before it asked: neither another
\* push's header nor a slow answer that overwrites a newer cache entry can make
\* a push fail on a token from before.
GivesUpOnlyDuringRotation ==
  \A p \in Pushers :
    result[p] = "unauthorised" => header[p] # NoToken /\ FreshAt(header[p], now[p])

\* What each caller may conclude, whatever the other pushes do: "ok" means Loki
\* has this batch, and no outcome leaves more copies than attempts.
PushContract ==
  \A p \in Pushers :
    /\ result[p] = "ok" => accepted[p] >= 1
    /\ accepted[p] <= attempt[p] /\ attempt[p] <= MaxRetries
=============================================================================
