------------------------------ MODULE LokiPush -------------------------------
(***************************************************************************)
(* LokiClient.push with the CredentialProvider behind it, in a warm        *)
(* container that pushes again and again while the token is rotated.       *)
(* Source: common/python/src/grafana_cloud_common/loki.py and              *)
(* aws/credentials.py.  Loki and Secrets Manager are external: they answer *)
(* in any way the code tells apart, at any time.                           *)
(*                                                                         *)
(* Tokens are numbered in the order the secret holds them.                 *)
(***************************************************************************)
EXTENDS Integers

CONSTANTS
  MaxRetries,    \* config.max_retries
  Ttl,           \* the provider's cache TTL
  BackoffCap,    \* the 30 s cap on every wait
  RetryAfters,   \* the Retry-After values Loki sends
  MaxRotations,  \* bound on rotations
  MaxClock,      \* bound on the clock
  NoToken        \* None

Tokens == 0 .. MaxRotations

ASSUME PushAssumption ==
  /\ MaxRetries \in Nat \ {0} /\ Ttl \in Nat \ {0} /\ BackoffCap \in Nat \ {0}
  /\ RetryAfters \subseteq Nat
  /\ MaxRotations \in Nat /\ MaxClock \in Nat
  /\ NoToken \notin Int

VARIABLES
  clock,
  secret,      \* the token Secrets Manager holds
  live,        \* the tokens Loki takes
  replacedAt,  \* history: when each token was rotated out
  cached, expiresAt,       \* CredentialProvider._cached and _expires_at
  header,      \* LokiClient._auth_header
  phase,       \* "idle", "auth", "fetch" (get_secret_value), "send" or "wait"
  attempt,
  authAt,      \* resolve's `now`: when the attempt asked for its token
  reading,     \* what Secrets Manager read for the answer under way
  wakeAt,      \* when time.sleep returns
  result,      \* how the last push ended
  accepted     \* history: how often Loki took the batch in hand

envVars  == <<secret, live, replacedAt>>
credVars == <<cached, expiresAt>>
pushVars == <<clock, envVars, credVars, header, phase, attempt, authAt, reading,
          wakeAt, result, accepted>>

PushInit ==
  /\ clock = 0
  /\ secret = 0 /\ live = {0} /\ replacedAt = [t \in Tokens |-> 0]
  /\ cached = NoToken /\ expiresAt = 0
  /\ header = NoToken
  /\ phase = "idle" /\ attempt = 0 /\ authAt = 0 /\ reading = NoToken
  /\ wakeAt = 0 /\ result = "none" /\ accepted = 0

-----------------------------------------------------------------------------
(* The world.                                                              *)

Tick ==
  /\ clock < MaxClock
  /\ clock' = clock + 1
  /\ UNCHANGED <<envVars, credVars, header, phase, attempt, authAt, reading,
                 wakeAt, result, accepted>>

\* An operator puts a new token into the secret ...
Rotate ==
  /\ secret < MaxRotations
  /\ secret' = secret + 1
  /\ live' = live \cup {secret'}
  /\ replacedAt' = [replacedAt EXCEPT ![secret] = clock]
  /\ UNCHANGED <<clock, credVars, header, phase, attempt, authAt, reading,
                 wakeAt, result, accepted>>

\* ... and revokes an old one, at once or later.
Revoke(t) ==
  /\ t \in live \ {secret}
  /\ live' = live \ {t}
  /\ UNCHANGED <<clock, secret, replacedAt, credVars, header, phase, attempt,
                 authAt, reading, wakeAt, result, accepted>>

-----------------------------------------------------------------------------
(* push.                                                                   *)

Finish(r) == phase' = "idle" /\ result' = r

\* A batch with lines in it.  (An empty one returns 0 and a bad label set
\* raises, before anything is sent.)
StartPush ==
  /\ phase = "idle"
  /\ phase' = "auth" /\ attempt' = 1 /\ result' = "none" /\ accepted' = 0
  /\ UNCHANGED <<clock, envVars, credVars, header, authAt, reading, wakeAt>>

CacheHit == cached # NoToken /\ clock < expiresAt

\* _authorization: the header is built once and kept; a retry asks the provider
\* for the token again.
UseHeader ==
  /\ phase = "auth" /\ header # NoToken /\ attempt = 1
  /\ phase' = "send" /\ authAt' = clock
  /\ UNCHANGED <<clock, envVars, credVars, header, attempt, reading, wakeAt, result, accepted>>

\* resolve: the cached credential is still good ...
UseCache ==
  /\ phase = "auth" /\ (header = NoToken \/ attempt > 1)
  /\ CacheHit
  /\ header' = cached
  /\ phase' = "send" /\ authAt' = clock
  /\ UNCHANGED <<clock, envVars, credVars, attempt, reading, wakeAt, result, accepted>>

\* ... or Secrets Manager is asked, `now` having been read before the call.
AskSecret ==
  /\ phase = "auth" /\ (header = NoToken \/ attempt > 1)
  /\ ~CacheHit
  /\ phase' = "fetch" /\ authAt' = clock /\ reading' = NoToken
  /\ UNCHANGED <<clock, envVars, credVars, header, attempt, wakeAt, result, accepted>>

ReadSecret ==
  /\ phase = "fetch" /\ reading = NoToken
  /\ reading' = secret
  /\ UNCHANGED <<clock, envVars, credVars, header, phase, attempt, authAt,
                 wakeAt, result, accepted>>

\* Mutant: the TTL runs from the answer, not from the question.
SecretAnsweredLate ==
  /\ phase = "fetch" /\ reading # NoToken
  /\ cached' = reading /\ expiresAt' = clock + Ttl
  /\ header' = reading
  /\ phase' = "send" /\ reading' = NoToken
  /\ UNCHANGED <<clock, envVars, attempt, authAt, wakeAt, result, accepted>>

SecretAnswered ==
  /\ phase = "fetch" /\ reading # NoToken
  /\ cached' = reading /\ expiresAt' = authAt + Ttl
  /\ header' = reading
  /\ phase' = "send" /\ reading' = NoToken
  /\ UNCHANGED <<clock, envVars, attempt, authAt, wakeAt, result, accepted>>

\* _classify of credentials.py: the error leaves push() as it is, whatever the
\* attempt; the old header and the old cache stay.
SecretFails(r) ==
  /\ phase = "fetch"
  /\ Finish(r) /\ reading' = NoToken
  /\ UNCHANGED <<clock, envVars, credVars, header, attempt, authAt, wakeAt, accepted>>

Lesser(a, b) == IF a < b THEN a ELSE b

\* _backoff_seconds: Retry-After, capped, or full jitter under 2^(attempt-1).
Waits(retryAfter) ==
  IF retryAfter # {} THEN {Lesser(r, BackoffCap) : r \in retryAfter}
  ELSE {s \in 0 .. BackoffCap : s <= 2 ^ (attempt - 1)}

\* Sleep before the next attempt, or give up after the last one.
Retry(retryAfter) ==
  IF attempt < MaxRetries
  THEN /\ phase' = "wait" /\ result' = result
       /\ \E s \in Waits(retryAfter) : wakeAt' = clock + s
  ELSE Finish("retryable") /\ UNCHANGED wakeAt

\* Loki may have taken the batch although the answer says or shows otherwise.
MaybeAccepted ==
  accepted' \in (IF header \in live THEN {accepted, accepted + 1} ELSE {accepted})

Accepted ==
  /\ phase = "send" /\ header \in live
  /\ accepted' = accepted + 1
  /\ Finish("ok")
  /\ UNCHANGED <<clock, envVars, credVars, header, attempt, authAt, reading, wakeAt>>

\* A retryable status, with Retry-After or without.
Busy(retryAfter) ==
  /\ phase = "send"
  /\ MaybeAccepted
  /\ Retry(retryAfter)
  /\ attempt' = attempt
  /\ UNCHANGED <<clock, envVars, credVars, header, authAt, reading>>

\* Mutant: an unknown status below 400 counts as success.
LostIsOk ==
  /\ phase = "send"
  /\ MaybeAccepted
  /\ Finish("ok")
  /\ UNCHANGED <<clock, envVars, credVars, header, attempt, authAt, reading, wakeAt>>

\* A transport error, a timeout, or a 2xx status the code does not know.
Lost ==
  /\ phase = "send"
  /\ MaybeAccepted
  /\ Retry({})
  /\ UNCHANGED <<clock, envVars, credVars, header, attempt, authAt, reading>>

\* Mutant: 401 is permanent on every attempt.
UnauthorisedAtOnce ==
  /\ phase = "send" /\ header \notin live
  /\ Finish("unauthorised")
  /\ UNCHANGED <<clock, envVars, credVars, header, attempt, authAt, reading, wakeAt, accepted>>

\* 401 or 403: the first attempt drops the header and tries again, any later
\* one gives up.
Unauthorised ==
  /\ phase = "send" /\ header \notin live
  /\ IF attempt = 1
     THEN header' = NoToken /\ Retry({})
     ELSE Finish("unauthorised") /\ UNCHANGED <<header, wakeAt>>
  /\ UNCHANGED <<clock, envVars, credVars, attempt, authAt, reading, accepted>>

\* Any other status: raised at once.
Rejected ==
  /\ phase = "send"
  /\ Finish("permanent")
  /\ UNCHANGED <<clock, envVars, credVars, header, attempt, authAt, reading, wakeAt, accepted>>

Wake ==
  /\ phase = "wait" /\ clock >= wakeAt
  /\ phase' = "auth" /\ attempt' = attempt + 1
  /\ UNCHANGED <<clock, envVars, credVars, header, authAt, reading, wakeAt, result, accepted>>

RetryAfterHeaders == {{}} \cup {{r} : r \in RetryAfters}

PushNext ==
  \/ Tick \/ Rotate \/ (\E t \in Tokens : Revoke(t))
  \/ StartPush \/ UseHeader \/ UseCache \/ AskSecret \/ ReadSecret \/ SecretAnswered
  \/ (\E r \in {"secretRetryable", "permanent"} : SecretFails(r))
  \/ Accepted \/ (\E ra \in RetryAfterHeaders : Busy(ra)) \/ Lost
  \/ Unauthorised \/ Rejected \/ Wake

PushSpec == PushInit /\ [][PushNext]_pushVars

-----------------------------------------------------------------------------
(* Properties.                                                             *)

\* Every variable has its type.
PushTypeOK ==
  /\ clock \in Nat
  /\ secret \in Tokens /\ live \subseteq Tokens /\ replacedAt \in [Tokens -> Nat]
  /\ cached \in Tokens \cup {NoToken} /\ expiresAt \in Nat
  /\ header \in Tokens \cup {NoToken} /\ reading \in Tokens \cup {NoToken}
  /\ phase \in {"idle", "auth", "fetch", "send", "wait"}
  /\ attempt \in 0 .. MaxRetries /\ authAt \in Nat /\ wakeAt \in Nat
  /\ result \in {"none", "ok", "retryable", "secretRetryable", "permanent", "unauthorised"}
  /\ accepted \in 0 .. MaxRetries

\* t was the secret at some moment less than one TTL before `when`.
FreshAt(t, when) == t = secret \/ when < replacedAt[t] + Ttl

\* A retry carries a token that was current less than one TTL before the retry
\* asked for it, however long Secrets Manager took to answer the caller that
\* filled the cache (resolve reads the clock before it calls).
RetryTokenFresh ==
  phase = "send" /\ attempt > 1 => header # NoToken /\ FreshAt(header, authAt)

\* push gives up on 401 only within one TTL of a rotation: a container whose
\* header went stale at any earlier time recovers within the same push.
GivesUpOnlyDuringRotation ==
  result = "unauthorised" => header # NoToken /\ FreshAt(header, authAt)

\* What a caller may conclude: "ok" means Loki has the batch, and no outcome
\* leaves more copies of it than there were attempts.  S3Delivery rests on it.
PushContract ==
  /\ result = "ok" => accepted >= 1
  /\ accepted <= attempt
  /\ attempt <= MaxRetries

\* What docs/grafana-cloud-credentials.md says of a rotation: "a 401 triggers
\* an immediate re-fetch and one retry - so a rotation mid-flight recovers on
\* its own".  The token in the secret is always one that Loki takes.
RotationRecovers == result # "unauthorised"
=============================================================================
