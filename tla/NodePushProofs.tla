--------------------------- MODULE NodePushProofs ----------------------------
(***************************************************************************)
(* Proofs about NodePush for any number of concurrent pushes, every retry  *)
(* limit, TTL and number of rotations.                                     *)
(***************************************************************************)
EXTENDS NodePush, TLAPS

\* The cache never outlives its token by a TTL, whichever call filled it last.
Shared ==
  /\ expiresAt <= clock + Ttl
  /\ cached # NoToken => cached = secret \/ expiresAt <= replacedAt[cached] + Ttl

\* Where one push stands.
Counting(p) ==
  /\ phase[p] # "idle" => attempt[p] >= 1 /\ result[p] = "none"
  /\ phase[p] \in {"auth", "fetch", "token", "send"} => accepted[p] < attempt[p]
  /\ phase[p] = "wait" => attempt[p] < MaxRetries
  /\ accepted[p] <= attempt[p]
  /\ result[p] = "ok" => accepted[p] >= 1

\* How old its tokens can be.
Fresh(p) ==
  /\ now[p] <= clock
  /\ phase[p] = "fetch" /\ reading[p] # NoToken =>
       reading[p] = secret \/ now[p] <= replacedAt[reading[p]]
  /\ phase[p] = "token" => reading[p] # NoToken /\ FreshAt(reading[p], now[p])
  /\ phase[p] \in {"send", "judge"} /\ attempt[p] > 1 =>
       header[p] # NoToken /\ FreshAt(header[p], now[p])
  /\ result[p] = "unauthorised" => header[p] # NoToken /\ FreshAt(header[p], now[p])

Each(p) == Counting(p) /\ Fresh(p)

Inv == TypeOK /\ Shared /\ \A p \in Pushers : Each(p)

\* The state of push q is as it was.
Still(q) ==
  /\ phase'[q] = phase[q] /\ attempt'[q] = attempt[q] /\ header'[q] = header[q]
  /\ now'[q] = now[q] /\ reading'[q] = reading[q] /\ result'[q] = result[q]
  /\ accepted'[q] = accepted[q]

LEMMA Untouched ==
  ASSUME NEW q \in Pushers, Each(q), Still(q), UNCHANGED <<clock, envVars>>
  PROVE  Each(q)'
  BY DEF Each, Counting, Fresh, FreshAt, Still, envVars

\* A step of p touches the state of p only.
LEMMA OthersStill ==
  ASSUME Inv, NEW p \in Pushers, Push(p)
  PROVE  /\ UNCHANGED <<clock, envVars>>
         /\ \A q \in Pushers \ {p} : Still(q)
  BY DEF Inv, TypeOK, Push, StartPush, UseHeader, UseCache, AskSecret, ReadSecret,
         SecretAnswered, SetHeader, SecretFails, Accepted, Busy, Rejected, Unauthorised, Judge, Wake,
         Goes, Send, Finish, Retry, Takes, Still

\* The types, the cache and the push that moves, action by action.
LEMMA PushStep ==
  ASSUME Inv, NEW p \in Pushers, Push(p)
  PROVE  TypeOK' /\ Shared' /\ Each(p)'
  <1> USE NodePushAssumption DEF Inv, Each, FreshAt
  <1>0. /\ Counting(p) /\ Fresh(p) /\ TypeOK /\ Shared
        /\ UNCHANGED <<clock, secret, live, replacedAt>>
    BY OthersStill DEF envVars
  <1>1. CASE StartPush(p)
    BY <1>0, <1>1 DEF StartPush, Goes, TypeOK, Shared, Counting, Fresh, credVars
  <1>2. CASE UseHeader(p)
    BY <1>0, <1>2 DEF UseHeader, Send, Goes, TypeOK, Shared, Counting, Fresh, credVars
  <1>3. CASE UseCache(p)
    <2>1. cached # NoToken /\ clock < expiresAt /\ FreshAt(cached, clock)
      BY <1>0, <1>3 DEF UseCache, CacheHit, TypeOK, Shared
    <2> QED BY <1>0, <1>3, <2>1 DEF UseCache, Goes, TypeOK, Shared, Counting, Fresh, credVars
  <1>4. CASE AskSecret(p)
    BY <1>0, <1>4 DEF AskSecret, Goes, TypeOK, Shared, Counting, Fresh, credVars
  <1>5. CASE ReadSecret(p)
    BY <1>0, <1>5 DEF ReadSecret, TypeOK, Shared, Counting, Fresh, credVars
  <1>6. CASE SecretAnswered(p)
    <2>1. FreshAt(reading[p], now[p]) /\ reading[p] \in Tokens
      BY <1>0, <1>6 DEF SecretAnswered, TypeOK, Fresh
    <2>2. Shared'
      BY <1>0, <1>6 DEF SecretAnswered, TypeOK, Shared, Fresh
    <2> QED BY <1>0, <1>6, <2>1, <2>2 DEF SecretAnswered, Goes, TypeOK, Counting, Fresh
  <1>14. CASE SetHeader(p)
    BY <1>0, <1>14 DEF SetHeader, Send, Goes, TypeOK, Shared, Counting, Fresh, credVars
  <1>7. ASSUME NEW r \in {"secretRetryable", "permanent"}, SecretFails(p, r)
        PROVE  TypeOK' /\ Shared' /\ Each(p)'
    BY <1>0, <1>7 DEF SecretFails, Finish, Goes, TypeOK, Shared, Counting, Fresh, credVars
  <1>8. CASE Accepted(p)
    BY <1>0, <1>8 DEF Accepted, Takes, Finish, Goes, TypeOK, Shared, Counting, Fresh, credVars
  <1>9. CASE Busy(p)
    <2>1. PICK n \in {0, 1} : Takes(p, n)
      BY <1>9 DEF Busy
    <2>2. accepted[p]' \in Nat /\ accepted[p]' <= attempt[p] /\ accepted' \in [Pushers -> Nat]
      BY <1>0, <1>9, <2>1 DEF Busy, Takes, TypeOK, Counting
    <2> QED BY <1>0, <1>9, <2>2 DEF Busy, Retry, Finish, Goes, TypeOK, Shared, Counting, Fresh,
                                     credVars
  <1>10. CASE Rejected(p)
    BY <1>0, <1>10 DEF Rejected, Finish, Goes, TypeOK, Shared, Counting, Fresh, credVars
  <1>11. CASE Unauthorised(p)
    BY <1>0, <1>11 DEF Unauthorised, Goes, TypeOK, Shared, Counting, Fresh, credVars
  <1>12. CASE Judge(p)
    BY <1>0, <1>12 DEF Judge, Retry, Finish, Goes, TypeOK, Shared, Counting, Fresh, credVars
  <1>13. CASE Wake(p)
    BY <1>0, <1>13 DEF Wake, Goes, TypeOK, Shared, Counting, Fresh, credVars
  <1> QED
    BY <1>1, <1>2, <1>3, <1>4, <1>5, <1>6, <1>7, <1>8, <1>9, <1>10, <1>11, <1>12, <1>13,
       <1>14 DEF Push

\* Every step keeps the invariant.
LEMMA InvStep ==
  ASSUME Inv, [Next]_vars
  PROVE  Inv'
  <1> USE NodePushAssumption DEF Inv, Each, FreshAt
  <1>1. CASE Tick
    <2>1. /\ clock \in Nat /\ clock' = clock + 1
          /\ UNCHANGED <<envVars, credVars, authorization, pushVars>>
      BY <1>1 DEF Tick, TypeOK
    <2>2. TypeOK' /\ Shared'
      BY <2>1 DEF TypeOK, Shared, envVars, credVars, pushVars
    <2>3. ASSUME NEW p \in Pushers PROVE Each(p)'
      BY <2>1 DEF TypeOK, Counting, Fresh, envVars, pushVars
    <2> QED BY <2>2, <2>3
  <1>2. CASE Rotate
    <2>1. /\ secret \in Nat /\ secret' = secret + 1 /\ secret' \in Tokens
          /\ replacedAt' \in [Tokens -> Nat] /\ replacedAt'[secret] = clock
          /\ \A t \in Tokens \ {secret} : replacedAt'[t] = replacedAt[t]
          /\ live' \subseteq Tokens
          /\ UNCHANGED <<clock, credVars, authorization, pushVars>>
      BY <1>2 DEF Rotate, TypeOK, Tokens
    <2>2. TypeOK' /\ Shared'
      BY <2>1 DEF TypeOK, Shared, credVars, pushVars
    <2>3. ASSUME NEW p \in Pushers PROVE Each(p)'
      <3>1. /\ Counting(p) /\ Fresh(p) /\ now[p] \in Nat /\ clock \in Nat
            /\ header[p] \in Tokens \cup {NoToken} /\ reading[p] \in Tokens \cup {NoToken}
        BY <2>1 DEF TypeOK
      <3>2. Counting(p)'
        BY <2>1, <3>1 DEF Counting, pushVars
      <3>3. ASSUME NEW t \in Tokens, NEW n \in Nat, n <= clock, t = secret \/ n < replacedAt[t] + Ttl
            PROVE  t = secret' \/ n < replacedAt'[t] + Ttl
        <4>1. CASE t = secret
          <5>1. replacedAt'[t] = clock /\ n <= clock /\ n \in Nat /\ Ttl \in Nat \ {0}
            BY <2>1, <3>3, <4>1
          <5> QED BY <3>1, <5>1
        <4>2. CASE t # secret
          <5>1. replacedAt'[t] = replacedAt[t] /\ n < replacedAt[t] + Ttl
            BY <2>1, <3>3, <4>2
          <5> QED BY <5>1
        <4> QED BY <4>1, <4>2
      <3>4. ASSUME NEW t \in Tokens, NEW n \in Nat, n <= clock, t = secret \/ n <= replacedAt[t]
            PROVE  t = secret' \/ n <= replacedAt'[t]
        <4>1. CASE t = secret
          BY <2>1, <3>1, <3>4, <4>1
        <4>2. CASE t # secret
          BY <2>1, <3>4, <4>2
        <4> QED BY <4>1, <4>2
      <3>5. Fresh(p)'
        BY <2>1, <3>1, <3>3, <3>4 DEF Fresh, pushVars
      <3> QED BY <3>2, <3>5
    <2> QED BY <2>2, <2>3
  <1>3. ASSUME NEW t \in Tokens, Revoke(t) PROVE Inv'
    BY <1>3 DEF Revoke, TypeOK, Shared, Counting, Fresh, credVars, pushVars
  <1>4. CASE Invalidate
    BY <1>4 DEF Invalidate, TypeOK, Shared, Counting, Fresh, envVars, pushVars
  <1>5. ASSUME NEW p \in Pushers, Push(p) PROVE Inv'
    <2>1. TypeOK' /\ Shared' /\ Each(p)'
      BY <1>5, PushStep
    <2>2. ASSUME NEW q \in Pushers \ {p} PROVE Each(q)'
      <3>1. Still(q) /\ UNCHANGED <<clock, envVars>>
        BY <1>5, OthersStill
      <3>2. Each(q)
        OBVIOUS
      <3> QED BY <3>1, <3>2, Untouched
    <2> QED BY <2>1, <2>2
  <1>6. CASE UNCHANGED vars
    <2>1. TypeOK' /\ Shared'
      BY <1>6 DEF vars, TypeOK, Shared, envVars, credVars, pushVars
    <2>2. ASSUME NEW p \in Pushers PROVE Each(p)'
      BY <1>6 DEF vars, Counting, Fresh, envVars, pushVars
    <2> QED BY <2>1, <2>2
  <1> QED BY <1>1, <1>2, <1>3, <1>4, <1>5, <1>6 DEF Next

LEMMA InvAlways == Spec => []Inv
  <1>1. Init => Inv
    BY NodePushAssumption DEF Init, Inv, Each, TypeOK, Shared, Counting, Fresh, Tokens
  <1> QED BY <1>1, InvStep, PTL DEF Spec

\* A push gives up on 401 only within one TTL of a rotation, with any number of
\* pushes sharing the header and the cache: GivesUpOnlyDuringRotation.
THEOREM OldRotationsRecover == Spec => []GivesUpOnlyDuringRotation
  <1>1. Inv => GivesUpOnlyDuringRotation
    BY DEF Inv, Each, Fresh, GivesUpOnlyDuringRotation
  <1> QED BY <1>1, InvAlways, PTL

\* What every caller may conclude, whatever the other pushes do: PushContract.
THEOREM Contract == Spec => []PushContract
  <1>1. ASSUME Inv, NEW p \in Pushers
        PROVE  /\ result[p] = "ok" => accepted[p] >= 1
               /\ accepted[p] <= attempt[p] /\ attempt[p] <= MaxRetries
    <2>1. attempt[p] \in 0 .. MaxRetries /\ Counting(p)
      BY <1>1 DEF Inv, Each, TypeOK
    <2> QED BY <2>1, NodePushAssumption DEF Counting
  <1>2. Inv => PushContract
    BY <1>1 DEF PushContract
  <1> QED BY <1>2, InvAlways, PTL
=============================================================================
