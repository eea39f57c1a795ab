---------------------------- MODULE AemPartsProofs -----------------------------
(***************************************************************************)
(* The two parts of the AEM example, each for every run of its own.        *)
(*                                                                         *)
(* RequestCorrelator: for every set of keys, buffer cap and object length. *)
(* StreamBatcher: for every object, whatever its lines and labels; the     *)
(* operators it is built from first (Ranked, GroupBy, Sorted, BuildPayload,*)
(* TotalSize), then its invariants, action by action.  AemObjectProofs     *)
(* puts the two together for the object that drives them.                  *)
(***************************************************************************)
EXTENDS RequestCorrelator, StreamBatcher, FiniteSetTheorems, SequenceTheorems, TLAPS

-----------------------------------------------------------------------------
(* The correlator.                                                         *)

\* What a buffer entry points at, and that nothing has been done with it yet.
Entries ==
  /\ \A k \in Keys : requests[k] > 0 =>
       /\ requests[k] <= read
       /\ dir[requests[k]] = "request" /\ key[requests[k]] = k
       /\ \A l \in Lines : partner[l] # requests[k]
  /\ \A k \in Keys : responses[k] > 0 =>
       /\ responses[k] <= read
       /\ dir[responses[k]] = "response" /\ key[responses[k]] = k
       /\ partner[responses[k]] = 0
  /\ \A k \in Keys : requests[k] = 0 \/ responses[k] = 0
  /\ \A l \in Lines : l > read => partner[l] = 0

Core == TypeOK /\ Entries /\ NoLineLost /\ PairsSound

\* Reading line n: what it does to the input, and that the buffers and the
\* pairs cannot know n yet.
NewLine(n, d, k) ==
  /\ n = Line /\ read' = n /\ n > read /\ read \in Nat /\ n \in Nat
  /\ read' \in 0 .. MaxLines /\ MaxLines \in Nat
  /\ dir' \in [Lines -> Directions] /\ key' \in [Lines -> Keys \cup {NoKey}]
  /\ dir'[n] = d /\ key'[n] = k
  /\ \A l \in Lines : l # n => dir'[l] = dir[l] /\ key'[l] = key[l]
  /\ done' \in BOOLEAN
  /\ \A j \in Keys : responses[j] # n /\ requests[j] # n
  /\ partner[n] = 0 /\ \A l \in Lines : partner[l] # n

LEMMA ReadFacts ==
  ASSUME Core, NEW d \in Directions, NEW k \in Keys \cup {NoKey}, Read(d, k)
  PROVE  \E n \in Lines : NewLine(n, d, k)
  <1>1. read \in 0 .. MaxLines /\ read < MaxLines /\ MaxLines \in Nat
    BY CorrelatorAssumption DEF Core, TypeOK, Read
  <1>2. PICK n \in Lines : n = Line
    BY <1>1 DEF Line, Lines
  <1>3. n > read /\ read \in Nat /\ n \in Nat /\ n \in 0 .. MaxLines
    BY <1>1, <1>2 DEF Line
  <1>4. \A j \in Keys : responses[j] # n /\ requests[j] # n
    BY <1>3 DEF Core, Entries, TypeOK
  <1>5. partner[n] = 0 /\ \A l \in Lines : partner[l] # n
    BY <1>2, <1>3 DEF Core, Entries, PairsSound, TypeOK
  <1> QED BY <1>1, <1>2, <1>3, <1>4, <1>5 DEF Core, TypeOK, Read, NewLine

\* A line read now is emitted at once or held; an older one is emitted when it
\* stops being held, and otherwise stays as it is.
HeldNext(l) == \E k \in Keys : responses'[k] = l

LEMMA EmitStep ==
  ASSUME Core, NEW n \in Lines, NEW d, NEW k, NewLine(n, d, k), NEW S, Emit(S),
         n \in S <=> ~HeldNext(n),
         \A l \in Lines \ {n} : l \in S => l <= read /\ Held(l) /\ ~HeldNext(l),
         \A l \in Lines \ {n} : l \notin S => (HeldNext(l) <=> Held(l))
  PROVE  NoLineLost'
  <1>1. \A l \in Lines : l \in Nat
    BY CorrelatorAssumption DEF Lines
  <1>2. n = read + 1 /\ read' = n /\ read \in Nat /\ n \in Nat
    BY DEF NewLine, Line
  <1>3. ASSUME NEW l \in Lines
        PROVE  emitted'[l] = IF l <= read' /\ ~HeldNext(l) THEN 1 ELSE 0
    <2>1. emitted[l] = IF l <= read /\ ~Held(l) THEN 1 ELSE 0
      BY DEF Core, NoLineLost
    <2>2. emitted'[l] = IF l \in S THEN emitted[l] + 1 ELSE emitted[l]
      BY DEF Emit
    <2>3. CASE l = n
      BY <1>2, <2>1, <2>2, <2>3
    <2>4. CASE l # n
      <3>1. l <= read' <=> l <= read
        BY <1>1, <1>2, <2>4
      <3> QED BY <2>1, <2>2, <2>4, <3>1
    <2> QED BY <2>3, <2>4
  <1> QED BY <1>3 DEF NoLineLost, Held, HeldNext

\* Buffers change by dropping entries and by storing n under its own key.
Stores(before, after, n, k) ==
  \A j \in Keys : after[j] \in {0, before[j]} \/ (j = k /\ after[j] = n)

\* At most one response, c, gets a partner: itself new and its request taken
\* out of the buffer, or itself taken out and its request new.
Pairs(n, c, d, k) ==
  /\ \A l \in Lines \ {c} : partner'[l] = partner[l]
  /\ \/ partner'[c] = partner[c]
     \/ c = n /\ d = "response" /\ requests[k] > 0 /\ partner'[c] = requests[k]
        /\ requests'[k] = 0 /\ responses' = responses
     \/ responses[k] > 0 /\ c = responses[k] /\ d \in {"request", "bare"}
        /\ partner'[c] = n /\ responses'[k] = 0 /\ requests' = requests

LEMMA PairStep ==
  ASSUME Core, NEW n \in Lines, NEW d \in Directions, NEW k \in Keys \cup {NoKey},
         NewLine(n, d, k), NEW c \in Lines, Pairs(n, c, d, k), k \in Keys \/ UNCHANGED partner,
         Stores(requests, requests', n, k), Stores(responses, responses', n, k),
         \A j \in Keys : requests'[j] = n => d = "request",
         \A j \in Keys : responses'[j] = n => d = "response",
         \A j \in Keys : requests'[j] = 0 \/ responses'[j] = 0,
         requests' \in [Keys -> 0 .. MaxLines], responses' \in [Keys -> 0 .. MaxLines]
  PROVE  Entries' /\ PairsSound'
  <1> USE CorrelatorAssumption
  <1>1. /\ MaxLines \in Nat /\ n = read + 1 /\ read' = n /\ read \in Nat /\ dir'[n] = d /\ key'[n] = k
        /\ \A l \in Lines : l # n => dir'[l] = dir[l] /\ key'[l] = key[l]
        /\ \A j \in Keys : responses[j] # n /\ requests[j] # n
        /\ partner[n] = 0 /\ \A l \in Lines : partner[l] # n
    BY DEF NewLine, Line
  <1>2. /\ requests \in [Keys -> 0 .. MaxLines] /\ responses \in [Keys -> 0 .. MaxLines]
        /\ partner \in [Lines -> 0 .. MaxLines]
    BY DEF Core, TypeOK
  <1>3. ASSUME NEW j \in Keys, requests'[j] > 0
        PROVE  /\ requests'[j] <= read'
               /\ dir'[requests'[j]] = "request" /\ key'[requests'[j]] = j
               /\ \A l \in Lines : partner'[l] # requests'[j]
    <2>1. CASE requests'[j] = n
      <3>1. j = k /\ d = "request"
        BY <1>1, <1>2, <1>3, <2>1 DEF Stores
      <3>2. \A l \in Lines : partner'[l] # n
        BY <1>1, <1>2, <1>3, <2>1, <3>1 DEF Pairs
      <3>3. n <= read' /\ dir'[n] = "request" /\ key'[n] = j
        BY <1>1, <3>1
      <3> QED BY <2>1, <3>2, <3>3, Zenon
    <2>2. CASE requests'[j] # n
      <3>1. requests'[j] = requests[j] /\ requests[j] > 0 /\ requests[j] \in Lines
        BY <1>2, <1>3, <2>2 DEF Stores, Lines
      <3>2. /\ requests[j] <= read /\ dir[requests[j]] = "request" /\ key[requests[j]] = j
            /\ \A l \in Lines : partner[l] # requests[j]
        BY <3>1 DEF Core, Entries
      <3>3. ASSUME NEW l \in Lines PROVE partner'[l] # requests[j]
        <4>1. CASE partner'[l] = partner[l]
          BY <3>2, <4>1
        <4>2. CASE partner'[l] = n
          BY <2>2, <3>1, <4>2
        <4>3. CASE requests[k] > 0 /\ partner'[l] = requests[k] /\ requests'[k] = 0 /\ k \in Keys
          <5>1. k # j
            BY <1>3, <4>3
          <5>2. key[requests[k]] = k
            BY <4>3 DEF Core, Entries
          <5> QED BY <3>2, <4>3, <5>1, <5>2
        <4> QED BY <4>1, <4>2, <4>3 DEF Pairs
      <3> QED BY <1>1, <3>1, <3>2, <3>3, <2>2
    <2> QED BY <2>1, <2>2
  <1>4. ASSUME NEW j \in Keys, responses'[j] > 0
        PROVE  /\ responses'[j] <= read'
               /\ dir'[responses'[j]] = "response" /\ key'[responses'[j]] = j
               /\ partner'[responses'[j]] = 0
    <2>1. CASE responses'[j] = n
      <3>1. j = k /\ d = "response"
        BY <1>1, <1>2, <1>4, <2>1 DEF Stores
      <3>2. partner'[n] = 0
        <4>1. responses'[k] = n /\ responses' # responses
          BY <1>1, <2>1, <3>1
        <4> QED BY <1>1, <3>1, <4>1 DEF Pairs
      <3>3. n <= read' /\ dir'[n] = "response" /\ key'[n] = j
        BY <1>1, <3>1
      <3> QED BY <2>1, <3>2, <3>3, Zenon
    <2>2. CASE responses'[j] # n
      <3>1. responses'[j] = responses[j] /\ responses[j] > 0 /\ responses[j] \in Lines
        BY <1>2, <1>4, <2>2 DEF Stores, Lines
      <3>2. /\ responses[j] <= read /\ dir[responses[j]] = "response" /\ key[responses[j]] = j
            /\ partner[responses[j]] = 0
        BY <3>1 DEF Core, Entries
      <3>3. partner'[responses[j]] = 0
        <4>1. CASE c # responses[j]
          BY <3>1, <3>2, <4>1 DEF Pairs
        <4>2. CASE c = responses[j]
          <5>1. c # n
            BY <1>1, <4>2
          <5>2. ~(responses[k] > 0 /\ c = responses[k] /\ responses'[k] = 0 /\ k \in Keys)
            <6>1. SUFFICES ASSUME responses[k] > 0, c = responses[k], responses'[k] = 0, k \in Keys
                           PROVE  FALSE
              OBVIOUS
            <6>2. key[responses[k]] = k
              BY <6>1 DEF Core, Entries
            <6> QED BY <1>4, <3>2, <4>2, <6>1, <6>2
          <5> QED BY <3>2, <4>2, <5>1, <5>2 DEF Pairs
        <4> QED BY <4>1, <4>2
      <3> QED BY <1>1, <2>2, <3>1, <3>2, <3>3
    <2> QED BY <2>1, <2>2
  <1>5. ASSUME NEW l \in Lines, partner'[l] # partner[l]
        PROVE  /\ l <= n /\ partner'[l] \in Lines /\ partner'[l] <= n
               /\ dir'[l] = "response" /\ dir'[partner'[l]] \in {"request", "bare"}
               /\ key'[l] = k /\ key'[partner'[l]] = k
               /\ \A m \in Lines : partner[m] # partner'[l]
    <2>1. l = c /\ k \in Keys
      BY <1>5 DEF Pairs
    <2>2. CASE c = n /\ d = "response" /\ requests[k] > 0 /\ partner'[c] = requests[k]
      <3>1. /\ requests[k] \in Lines /\ requests[k] <= read /\ dir[requests[k]] = "request"
            /\ key[requests[k]] = k /\ \A m \in Lines : partner[m] # requests[k]
        BY <1>2, <2>1, <2>2 DEF Core, Entries, Lines
      <3>2. requests[k] # n /\ n <= n /\ requests[k] <= n
        BY <1>1, <1>2, <2>1, <3>1
      <3>3. dir'[requests[k]] = "request" /\ key'[requests[k]] = k
        BY <1>1, <3>1, <3>2
      <3> QED BY <1>1, <2>1, <2>2, <3>1, <3>2, <3>3
    <2>3. CASE /\ responses[k] > 0 /\ c = responses[k] /\ d \in {"request", "bare"}
               /\ partner'[c] = n
      <3>1. responses[k] <= read /\ dir[responses[k]] = "response" /\ key[responses[k]] = k
        BY <2>1, <2>3 DEF Core, Entries
      <3>2. l # n /\ l = responses[k] /\ partner'[l] = n
        BY <1>1, <2>1, <2>3
      <3>3. dir'[l] = "response" /\ key'[l] = k
        BY <1>1, <3>1, <3>2
      <3>4. l <= n /\ n <= n
        BY <1>1, <1>2, <2>1, <3>1, <3>2
      <3> QED BY <1>1, <2>3, <3>2, <3>3, <3>4
    <2> QED BY <1>5, <2>1, <2>2, <2>3 DEF Pairs
  <1>6. \A l \in Lines : l > n => partner'[l] = 0
    <2> SUFFICES ASSUME NEW l \in Lines, l > n PROVE partner'[l] = 0
      OBVIOUS
    <2>1. l \in Nat /\ l > read
      BY <1>1 DEF Lines
    <2>2. partner[l] = 0
      BY <2>1 DEF Core, Entries
    <2> QED BY <1>1, <1>5, <2>1, <2>2
  <1>7. Entries'
    BY <1>1, <1>3, <1>4, <1>6 DEF Entries
  <1>8. ASSUME NEW l \in Lines, partner'[l] > 0
        PROVE  /\ l <= read' /\ partner'[l] <= read'
               /\ dir'[l] = "response" /\ dir'[partner'[l]] \in {"request", "bare"}
               /\ key'[partner'[l]] = key'[l]
               /\ \A m \in Lines \ {l} : partner'[m] # partner'[l]
    <2>1. CASE partner'[l] = partner[l]
      <3>1. /\ l <= read /\ partner[l] <= read /\ partner[l] \in Lines
            /\ dir[l] = "response" /\ dir[partner[l]] \in {"request", "bare"}
            /\ key[partner[l]] = key[l]
            /\ \A m \in Lines \ {l} : partner[m] # partner[l]
        BY <1>2, <1>8, <2>1 DEF Core, PairsSound, IsResponse, IsRequest, Lines
      <3>2. l # n /\ partner[l] # n
        BY <1>1, <3>1
      <3>3. \A m \in Lines \ {l} : partner'[m] # partner[l]
        <4> TAKE m \in Lines \ {l}
        <4>1. CASE partner'[m] = partner[m]
          BY <3>1, <4>1
        <4>2. CASE partner'[m] # partner[m]
          BY <1>5, <4>2
        <4> QED BY <4>1, <4>2
      <3> QED BY <1>1, <2>1, <3>1, <3>2, <3>3, <1>2
    <2>2. CASE partner'[l] # partner[l]
      <3>1. l = c
        BY <2>2 DEF Pairs
      <3>2. \A m \in Lines \ {l} : partner'[m] = partner[m]
        BY <3>1 DEF Pairs
      <3> QED BY <1>1, <1>5, <2>2, <3>2
    <2> QED BY <2>1, <2>2
  <1>9. PairsSound'
    BY <1>8 DEF PairsSound, IsResponse, IsRequest
  <1> QED BY <1>7, <1>9

\* Every step keeps the core of the invariant.
LEMMA CoreStep ==
  ASSUME Core, [Next]_vars
  PROVE  Core'
  <1> USE CorrelatorAssumption
  <1>1. CASE PassThrough
    <2>1. PICK n \in Lines : NewLine(n, "other", NoKey)
      BY <1>1, ReadFacts DEF PassThrough, Directions
    <2>2. /\ Emit({n})
          /\ UNCHANGED <<requests, responses, partner>>
          /\ paired' \in Nat /\ unpaired' \in Nat /\ evicted' \in Nat
      BY <1>1, <2>1 DEF PassThrough, NewLine, Core, TypeOK
    <2>3. /\ requests \in [Keys -> 0 .. MaxLines] /\ responses \in [Keys -> 0 .. MaxLines]
          /\ partner \in [Lines -> 0 .. MaxLines] /\ emitted \in [Lines -> Nat]
          /\ n \in 0 .. MaxLines /\ n > 0 /\ read \in Nat /\ n > read /\ n \in Nat
      BY <2>1 DEF Core, TypeOK, Lines, NewLine
    <2>4. /\ \A j \in Keys : responses[j] > 0 => responses[j] <= read /\ key[responses[j]] = j /\ responses[j] \in Lines
          /\ \A j \in Keys : responses[j] # n /\ requests[j] # n
          /\ \A j \in Keys : requests[j] = 0 \/ responses[j] = 0
      BY <2>1, <2>3 DEF Core, Entries, NewLine, Lines
    <2>5. TypeOK'
      <3>1. /\ requests' \in [Keys -> 0 .. MaxLines] /\ responses' \in [Keys -> 0 .. MaxLines]
            /\ partner' \in [Lines -> 0 .. MaxLines]
        BY <2>2, <2>3, <2>4 DEF Lines
      <3>2. emitted' \in [Lines -> Nat]
        BY <2>2, <2>3 DEF Emit
      <3> QED BY <2>1, <2>2, <3>1, <3>2 DEF TypeOK, NewLine
    <2>6. NoLineLost'
      <3>1. \A l \in Lines : HeldNext(l) <=> Held(l)
        BY <2>2 DEF Held, HeldNext
      <3>2. ~HeldNext(n)
        BY <2>2, <2>4 DEF HeldNext
      <3> QED BY <2>1, <2>2, <3>1, <3>2, EmitStep
    <2>7. /\ Stores(requests, requests', n, NoKey) /\ Stores(responses, responses', n, NoKey)
          /\ \A j \in Keys : requests'[j] = n => "other" = "request"
          /\ \A j \in Keys : responses'[j] = n => "other" = "response"
          /\ \A j \in Keys : requests'[j] = 0 \/ responses'[j] = 0
      BY <2>2, <2>3, <2>4 DEF Stores
    <2>8. Pairs(n, n, "other", NoKey)
      BY <2>2 DEF Pairs
    <2>9. Entries' /\ PairsSound'
      BY <2>1, <2>2, <2>5, <2>7, <2>8, PairStep DEF TypeOK, Directions
    <2> QED BY <2>5, <2>6, <2>9 DEF Core
  <1>2. ASSUME NEW k \in Keys, NEW d \in {"request", "bare"}, ReleaseHeld(d, k)
       PROVE  Core'
    <2>1. PICK n \in Lines : NewLine(n, d, k)
      BY <1>2, ReadFacts DEF ReleaseHeld, Directions
    <2>2. /\ Emit({n, responses[k]})
          /\ UNCHANGED requests
          /\ responses[k] > 0
          /\ responses' = [responses EXCEPT ![k] = 0]
          /\ partner' = [partner EXCEPT ![responses[k]] = n]
          /\ paired' \in Nat /\ unpaired' \in Nat /\ evicted' \in Nat
      BY <1>2, <2>1 DEF ReleaseHeld, NewLine, Core, TypeOK
    <2>3. /\ requests \in [Keys -> 0 .. MaxLines] /\ responses \in [Keys -> 0 .. MaxLines]
          /\ partner \in [Lines -> 0 .. MaxLines] /\ emitted \in [Lines -> Nat]
          /\ n \in 0 .. MaxLines /\ n > 0 /\ read \in Nat /\ n > read /\ n \in Nat
      BY <2>1 DEF Core, TypeOK, Lines, NewLine
    <2>4. /\ \A j \in Keys : responses[j] > 0 => responses[j] <= read /\ key[responses[j]] = j /\ responses[j] \in Lines
          /\ \A j \in Keys : responses[j] # n /\ requests[j] # n
          /\ \A j \in Keys : requests[j] = 0 \/ responses[j] = 0
      BY <2>1, <2>3 DEF Core, Entries, NewLine, Lines
    <2>5. TypeOK'
      <3>1. /\ requests' \in [Keys -> 0 .. MaxLines] /\ responses' \in [Keys -> 0 .. MaxLines]
            /\ partner' \in [Lines -> 0 .. MaxLines]
        BY <2>2, <2>3, <2>4 DEF Lines
      <3>2. emitted' \in [Lines -> Nat]
        BY <2>2, <2>3 DEF Emit
      <3> QED BY <2>1, <2>2, <3>1, <3>2 DEF TypeOK, NewLine
    <2>6. NoLineLost'
      <3>1. \A j \in Keys : responses'[j] = IF j = k THEN 0 ELSE responses[j]
        BY <2>2, <2>3
      <3>2. \A j \in Keys : responses[j] = responses[k] => j = k
        BY <2>2, <2>4
      <3>3. Held(responses[k]) /\ ~HeldNext(responses[k])
        BY <2>2, <2>3, <2>4, <3>1, <3>2 DEF Held, HeldNext
      <3>4. HeldNext(n) <=> FALSE
        BY <2>3, <2>4, <3>1 DEF HeldNext
      <3>5. \A l \in Lines : l # responses[k] /\ l # n => (HeldNext(l) <=> Held(l))
        BY <2>2, <3>1 DEF Held, HeldNext, Lines
      <3>6. responses[k] <= read /\ responses[k] # n
        BY <2>2, <2>4
      <3> QED BY <2>1, <2>2, <3>3, <3>4, <3>5, <3>6, EmitStep
    <2>7. /\ Stores(requests, requests', n, k) /\ Stores(responses, responses', n, k)
          /\ \A j \in Keys : requests'[j] = n => d = "request"
          /\ \A j \in Keys : responses'[j] = n => d = "response"
          /\ \A j \in Keys : requests'[j] = 0 \/ responses'[j] = 0
      BY <2>2, <2>3, <2>4 DEF Stores
    <2>8. responses[k] \in Lines /\ Pairs(n, responses[k], d, k)
      BY <2>2, <2>3, <2>4 DEF Pairs
    <2>9. Entries' /\ PairsSound'
      BY <2>1, <2>5, <2>7, <2>8, PairStep DEF TypeOK, Directions
    <2> QED BY <2>5, <2>6, <2>9 DEF Core
  <1>3. ASSUME NEW k \in Keys, RememberRequest(k)
       PROVE  Core'
    <2>1. PICK n \in Lines : NewLine(n, "request", k)
      BY <1>3, ReadFacts DEF RememberRequest, Directions
    <2>2. /\ Emit({n})
          /\ UNCHANGED <<responses, partner>>
          /\ responses[k] = 0
          /\ requests' = [requests EXCEPT ![k] = n]
          /\ paired' \in Nat /\ unpaired' \in Nat /\ evicted' \in Nat
      BY <1>3, <2>1 DEF RememberRequest, NewLine, Core, TypeOK
    <2>3. /\ requests \in [Keys -> 0 .. MaxLines] /\ responses \in [Keys -> 0 .. MaxLines]
          /\ partner \in [Lines -> 0 .. MaxLines] /\ emitted \in [Lines -> Nat]
          /\ n \in 0 .. MaxLines /\ n > 0 /\ read \in Nat /\ n > read /\ n \in Nat
      BY <2>1 DEF Core, TypeOK, Lines, NewLine
    <2>4. /\ \A j \in Keys : responses[j] > 0 => responses[j] <= read /\ key[responses[j]] = j /\ responses[j] \in Lines
          /\ \A j \in Keys : responses[j] # n /\ requests[j] # n
          /\ \A j \in Keys : requests[j] = 0 \/ responses[j] = 0
      BY <2>1, <2>3 DEF Core, Entries, NewLine, Lines
    <2>5. TypeOK'
      <3>1. /\ requests' \in [Keys -> 0 .. MaxLines] /\ responses' \in [Keys -> 0 .. MaxLines]
            /\ partner' \in [Lines -> 0 .. MaxLines]
        BY <2>2, <2>3, <2>4 DEF Lines
      <3>2. emitted' \in [Lines -> Nat]
        BY <2>2, <2>3 DEF Emit
      <3> QED BY <2>1, <2>2, <3>1, <3>2 DEF TypeOK, NewLine
    <2>6. NoLineLost'
      <3>1. \A l \in Lines : HeldNext(l) <=> Held(l)
        BY <2>2 DEF Held, HeldNext
      <3>2. ~HeldNext(n)
        BY <2>2, <2>4 DEF HeldNext
      <3> QED BY <2>1, <2>2, <3>1, <3>2, EmitStep
    <2>7. /\ Stores(requests, requests', n, k) /\ Stores(responses, responses', n, k)
          /\ \A j \in Keys : requests'[j] = n => "request" = "request"
          /\ \A j \in Keys : responses'[j] = n => "request" = "response"
          /\ \A j \in Keys : requests'[j] = 0 \/ responses'[j] = 0
      BY <2>2, <2>3, <2>4 DEF Stores
    <2>8. Pairs(n, n, "request", k)
      BY <2>2 DEF Pairs
    <2>9. Entries' /\ PairsSound'
      BY <2>1, <2>2, <2>5, <2>7, <2>8, PairStep DEF TypeOK, Directions
    <2> QED BY <2>5, <2>6, <2>9 DEF Core
  <1>4. ASSUME NEW k \in Keys, NEW old \in Keys, EvictRequest(k, old)
       PROVE  Core'
    <2>1. PICK n \in Lines : NewLine(n, "request", k)
      BY <1>4, ReadFacts DEF EvictRequest, Directions
    <2>2. /\ Emit({n})
          /\ UNCHANGED <<responses, partner>>
          /\ responses[k] = 0 /\ requests[k] = 0
          /\ requests' = [requests EXCEPT ![old] = 0, ![k] = n]
          /\ paired' \in Nat /\ unpaired' \in Nat /\ evicted' \in Nat
      BY <1>4, <2>1 DEF EvictRequest, NewLine, Core, TypeOK, IsOldest, Pending
    <2>3. /\ requests \in [Keys -> 0 .. MaxLines] /\ responses \in [Keys -> 0 .. MaxLines]
          /\ partner \in [Lines -> 0 .. MaxLines] /\ emitted \in [Lines -> Nat]
          /\ n \in 0 .. MaxLines /\ n > 0 /\ read \in Nat /\ n > read /\ n \in Nat
      BY <2>1 DEF Core, TypeOK, Lines, NewLine
    <2>4. /\ \A j \in Keys : responses[j] > 0 => responses[j] <= read /\ key[responses[j]] = j /\ responses[j] \in Lines
          /\ \A j \in Keys : responses[j] # n /\ requests[j] # n
          /\ \A j \in Keys : requests[j] = 0 \/ responses[j] = 0
      BY <2>1, <2>3 DEF Core, Entries, NewLine, Lines
    <2>5. TypeOK'
      <3>1. /\ requests' \in [Keys -> 0 .. MaxLines] /\ responses' \in [Keys -> 0 .. MaxLines]
            /\ partner' \in [Lines -> 0 .. MaxLines]
        BY <2>2, <2>3, <2>4 DEF Lines
      <3>2. emitted' \in [Lines -> Nat]
        BY <2>2, <2>3 DEF Emit
      <3> QED BY <2>1, <2>2, <3>1, <3>2 DEF TypeOK, NewLine
    <2>6. NoLineLost'
      <3>1. \A l \in Lines : HeldNext(l) <=> Held(l)
        BY <2>2 DEF Held, HeldNext
      <3>2. ~HeldNext(n)
        BY <2>2, <2>4 DEF HeldNext
      <3> QED BY <2>1, <2>2, <3>1, <3>2, EmitStep
    <2>7. /\ Stores(requests, requests', n, k) /\ Stores(responses, responses', n, k)
          /\ \A j \in Keys : requests'[j] = n => "request" = "request"
          /\ \A j \in Keys : responses'[j] = n => "request" = "response"
          /\ \A j \in Keys : requests'[j] = 0 \/ responses'[j] = 0
      BY <2>2, <2>3, <2>4 DEF Stores
    <2>8. Pairs(n, n, "request", k)
      BY <2>2 DEF Pairs
    <2>9. Entries' /\ PairsSound'
      BY <2>1, <2>2, <2>5, <2>7, <2>8, PairStep DEF TypeOK, Directions
    <2> QED BY <2>5, <2>6, <2>9 DEF Core
  <1>5. ASSUME NEW k \in Keys, ForgetBare(k)
       PROVE  Core'
    <2>1. PICK n \in Lines : NewLine(n, "bare", k)
      BY <1>5, ReadFacts DEF ForgetBare, Directions
    <2>2. /\ Emit({n})
          /\ UNCHANGED <<requests, responses, partner>>
          /\ paired' \in Nat /\ unpaired' \in Nat /\ evicted' \in Nat
      BY <1>5, <2>1 DEF ForgetBare, NewLine, Core, TypeOK
    <2>3. /\ requests \in [Keys -> 0 .. MaxLines] /\ responses \in [Keys -> 0 .. MaxLines]
          /\ partner \in [Lines -> 0 .. MaxLines] /\ emitted \in [Lines -> Nat]
          /\ n \in 0 .. MaxLines /\ n > 0 /\ read \in Nat /\ n > read /\ n \in Nat
      BY <2>1 DEF Core, TypeOK, Lines, NewLine
    <2>4. /\ \A j \in Keys : responses[j] > 0 => responses[j] <= read /\ key[responses[j]] = j /\ responses[j] \in Lines
          /\ \A j \in Keys : responses[j] # n /\ requests[j] # n
          /\ \A j \in Keys : requests[j] = 0 \/ responses[j] = 0
      BY <2>1, <2>3 DEF Core, Entries, NewLine, Lines
    <2>5. TypeOK'
      <3>1. /\ requests' \in [Keys -> 0 .. MaxLines] /\ responses' \in [Keys -> 0 .. MaxLines]
            /\ partner' \in [Lines -> 0 .. MaxLines]
        BY <2>2, <2>3, <2>4 DEF Lines
      <3>2. emitted' \in [Lines -> Nat]
        BY <2>2, <2>3 DEF Emit
      <3> QED BY <2>1, <2>2, <3>1, <3>2 DEF TypeOK, NewLine
    <2>6. NoLineLost'
      <3>1. \A l \in Lines : HeldNext(l) <=> Held(l)
        BY <2>2 DEF Held, HeldNext
      <3>2. ~HeldNext(n)
        BY <2>2, <2>4 DEF HeldNext
      <3> QED BY <2>1, <2>2, <3>1, <3>2, EmitStep
    <2>7. /\ Stores(requests, requests', n, k) /\ Stores(responses, responses', n, k)
          /\ \A j \in Keys : requests'[j] = n => "bare" = "request"
          /\ \A j \in Keys : responses'[j] = n => "bare" = "response"
          /\ \A j \in Keys : requests'[j] = 0 \/ responses'[j] = 0
      BY <2>2, <2>3, <2>4 DEF Stores
    <2>8. Pairs(n, n, "bare", k)
      BY <2>2 DEF Pairs
    <2>9. Entries' /\ PairsSound'
      BY <2>1, <2>2, <2>5, <2>7, <2>8, PairStep DEF TypeOK, Directions
    <2> QED BY <2>5, <2>6, <2>9 DEF Core
  <1>6. ASSUME NEW k \in Keys, PairResponse(k)
       PROVE  Core'
    <2>1. PICK n \in Lines : NewLine(n, "response", k)
      BY <1>6, ReadFacts DEF PairResponse, Directions
    <2>2. /\ Emit({n})
          /\ UNCHANGED responses
          /\ requests[k] > 0
          /\ requests' = [requests EXCEPT ![k] = 0]
          /\ partner' = [partner EXCEPT ![n] = requests[k]]
          /\ paired' \in Nat /\ unpaired' \in Nat /\ evicted' \in Nat
      BY <1>6, <2>1 DEF PairResponse, NewLine, Core, TypeOK
    <2>3. /\ requests \in [Keys -> 0 .. MaxLines] /\ responses \in [Keys -> 0 .. MaxLines]
          /\ partner \in [Lines -> 0 .. MaxLines] /\ emitted \in [Lines -> Nat]
          /\ n \in 0 .. MaxLines /\ n > 0 /\ read \in Nat /\ n > read /\ n \in Nat
      BY <2>1 DEF Core, TypeOK, Lines, NewLine
    <2>4. /\ \A j \in Keys : responses[j] > 0 => responses[j] <= read /\ key[responses[j]] = j /\ responses[j] \in Lines
          /\ \A j \in Keys : responses[j] # n /\ requests[j] # n
          /\ \A j \in Keys : requests[j] = 0 \/ responses[j] = 0
      BY <2>1, <2>3 DEF Core, Entries, NewLine, Lines
    <2>5. TypeOK'
      <3>1. /\ requests' \in [Keys -> 0 .. MaxLines] /\ responses' \in [Keys -> 0 .. MaxLines]
            /\ partner' \in [Lines -> 0 .. MaxLines]
        BY <2>2, <2>3, <2>4 DEF Lines
      <3>2. emitted' \in [Lines -> Nat]
        BY <2>2, <2>3 DEF Emit
      <3> QED BY <2>1, <2>2, <3>1, <3>2 DEF TypeOK, NewLine
    <2>6. NoLineLost'
      <3>1. \A l \in Lines : HeldNext(l) <=> Held(l)
        BY <2>2 DEF Held, HeldNext
      <3>2. ~HeldNext(n)
        BY <2>2, <2>4 DEF HeldNext
      <3> QED BY <2>1, <2>2, <3>1, <3>2, EmitStep
    <2>7. /\ Stores(requests, requests', n, k) /\ Stores(responses, responses', n, k)
          /\ \A j \in Keys : requests'[j] = n => "response" = "request"
          /\ \A j \in Keys : responses'[j] = n => "response" = "response"
          /\ \A j \in Keys : requests'[j] = 0 \/ responses'[j] = 0
      BY <2>2, <2>3, <2>4 DEF Stores
    <2>8. n \in Lines /\ Pairs(n, n, "response", k)
      BY <2>2, <2>3, <2>4 DEF Pairs
    <2>9. Entries' /\ PairsSound'
      BY <2>1, <2>5, <2>7, <2>8, PairStep DEF TypeOK, Directions
    <2> QED BY <2>5, <2>6, <2>9 DEF Core
  <1>7. ASSUME NEW k \in Keys, HoldResponse(k)
       PROVE  Core'
    <2>1. PICK n \in Lines : NewLine(n, "response", k)
      BY <1>7, ReadFacts DEF HoldResponse, Directions
    <2>2. /\ Emit({})
          /\ UNCHANGED <<requests, partner>>
          /\ requests[k] = 0 /\ responses[k] = 0
          /\ responses' = [responses EXCEPT ![k] = n]
          /\ paired' \in Nat /\ unpaired' \in Nat /\ evicted' \in Nat
      BY <1>7, <2>1 DEF HoldResponse, NewLine, Core, TypeOK
    <2>3. /\ requests \in [Keys -> 0 .. MaxLines] /\ responses \in [Keys -> 0 .. MaxLines]
          /\ partner \in [Lines -> 0 .. MaxLines] /\ emitted \in [Lines -> Nat]
          /\ n \in 0 .. MaxLines /\ n > 0 /\ read \in Nat /\ n > read /\ n \in Nat
      BY <2>1 DEF Core, TypeOK, Lines, NewLine
    <2>4. /\ \A j \in Keys : responses[j] > 0 => responses[j] <= read /\ key[responses[j]] = j /\ responses[j] \in Lines
          /\ \A j \in Keys : responses[j] # n /\ requests[j] # n
          /\ \A j \in Keys : requests[j] = 0 \/ responses[j] = 0
      BY <2>1, <2>3 DEF Core, Entries, NewLine, Lines
    <2>5. TypeOK'
      <3>1. /\ requests' \in [Keys -> 0 .. MaxLines] /\ responses' \in [Keys -> 0 .. MaxLines]
            /\ partner' \in [Lines -> 0 .. MaxLines]
        BY <2>2, <2>3, <2>4 DEF Lines
      <3>2. emitted' \in [Lines -> Nat]
        BY <2>2, <2>3 DEF Emit
      <3> QED BY <2>1, <2>2, <3>1, <3>2 DEF TypeOK, NewLine
    <2>6. NoLineLost'
      <3>1. HeldNext(n)
        BY <2>2, <2>3 DEF HeldNext
      <3>2. \A l \in Lines \ {n} : HeldNext(l) <=> Held(l)
        <4>1. \A j \in Keys : responses'[j] = IF j = k THEN n ELSE responses[j]
          BY <2>2, <2>3
        <4> QED BY <2>2, <4>1 DEF Held, HeldNext, Lines
      <3> QED BY <2>1, <2>2, <3>1, <3>2, EmitStep
    <2>7. /\ Stores(requests, requests', n, k) /\ Stores(responses, responses', n, k)
          /\ \A j \in Keys : requests'[j] = n => "response" = "request"
          /\ \A j \in Keys : responses'[j] = n => "response" = "response"
          /\ \A j \in Keys : requests'[j] = 0 \/ responses'[j] = 0
      BY <2>2, <2>3, <2>4 DEF Stores
    <2>8. Pairs(n, n, "response", k)
      BY <2>2 DEF Pairs
    <2>9. Entries' /\ PairsSound'
      BY <2>1, <2>2, <2>5, <2>7, <2>8, PairStep DEF TypeOK, Directions
    <2> QED BY <2>5, <2>6, <2>9 DEF Core
  <1>8. ASSUME NEW k \in Keys, DisplaceDuplicate(k)
       PROVE  Core'
    <2>1. PICK n \in Lines : NewLine(n, "response", k)
      BY <1>8, ReadFacts DEF DisplaceDuplicate, Directions
    <2>2. /\ Emit({responses[k]})
          /\ UNCHANGED <<requests, partner>>
          /\ requests[k] = 0 /\ responses[k] > 0
          /\ responses' = [responses EXCEPT ![k] = n]
          /\ paired' \in Nat /\ unpaired' \in Nat /\ evicted' \in Nat
      BY <1>8, <2>1 DEF DisplaceDuplicate, NewLine, Core, TypeOK
    <2>3. /\ requests \in [Keys -> 0 .. MaxLines] /\ responses \in [Keys -> 0 .. MaxLines]
          /\ partner \in [Lines -> 0 .. MaxLines] /\ emitted \in [Lines -> Nat]
          /\ n \in 0 .. MaxLines /\ n > 0 /\ read \in Nat /\ n > read /\ n \in Nat
      BY <2>1 DEF Core, TypeOK, Lines, NewLine
    <2>4. /\ \A j \in Keys : responses[j] > 0 => responses[j] <= read /\ key[responses[j]] = j /\ responses[j] \in Lines
          /\ \A j \in Keys : responses[j] # n /\ requests[j] # n
          /\ \A j \in Keys : requests[j] = 0 \/ responses[j] = 0
      BY <2>1, <2>3 DEF Core, Entries, NewLine, Lines
    <2>5. TypeOK'
      <3>1. /\ requests' \in [Keys -> 0 .. MaxLines] /\ responses' \in [Keys -> 0 .. MaxLines]
            /\ partner' \in [Lines -> 0 .. MaxLines]
        BY <2>2, <2>3, <2>4 DEF Lines
      <3>2. emitted' \in [Lines -> Nat]
        BY <2>2, <2>3 DEF Emit
      <3> QED BY <2>1, <2>2, <3>1, <3>2 DEF TypeOK, NewLine
    <2>6. NoLineLost'
      <3>1. \A j \in Keys : responses'[j] = IF j = k THEN n ELSE responses[j]
        BY <2>2, <2>3
      <3>2. \A j \in Keys : responses[j] = responses[k] => j = k
        BY <2>2, <2>4
      <3>3. Held(responses[k]) /\ ~HeldNext(responses[k])
        BY <2>2, <2>3, <2>4, <3>1, <3>2 DEF Held, HeldNext
      <3>4. HeldNext(n) <=> TRUE
        BY <2>3, <2>4, <3>1 DEF HeldNext
      <3>5. \A l \in Lines : l # responses[k] /\ l # n => (HeldNext(l) <=> Held(l))
        BY <2>2, <3>1 DEF Held, HeldNext, Lines
      <3>6. responses[k] <= read /\ responses[k] # n
        BY <2>2, <2>4
      <3> QED BY <2>1, <2>2, <3>3, <3>4, <3>5, <3>6, EmitStep
    <2>7. /\ Stores(requests, requests', n, k) /\ Stores(responses, responses', n, k)
          /\ \A j \in Keys : requests'[j] = n => "response" = "request"
          /\ \A j \in Keys : responses'[j] = n => "response" = "response"
          /\ \A j \in Keys : requests'[j] = 0 \/ responses'[j] = 0
      BY <2>2, <2>3, <2>4 DEF Stores
    <2>8. Pairs(n, n, "response", k)
      BY <2>2 DEF Pairs
    <2>9. Entries' /\ PairsSound'
      BY <2>1, <2>2, <2>5, <2>7, <2>8, PairStep DEF TypeOK, Directions
    <2> QED BY <2>5, <2>6, <2>9 DEF Core
  <1>9. ASSUME NEW k \in Keys, NEW old \in Keys, EvictResponse(k, old)
       PROVE  Core'
    <2>1. PICK n \in Lines : NewLine(n, "response", k)
      BY <1>9, ReadFacts DEF EvictResponse, Directions
    <2>2. /\ Emit({responses[old]})
          /\ UNCHANGED <<requests, partner>>
          /\ requests[k] = 0 /\ responses[k] = 0 /\ responses[old] > 0
          /\ responses' = [responses EXCEPT ![old] = 0, ![k] = n]
          /\ paired' \in Nat /\ unpaired' \in Nat /\ evicted' \in Nat
      BY <1>9, <2>1 DEF EvictResponse, NewLine, Core, TypeOK, IsOldest, Pending
    <2>3. /\ requests \in [Keys -> 0 .. MaxLines] /\ responses \in [Keys -> 0 .. MaxLines]
          /\ partner \in [Lines -> 0 .. MaxLines] /\ emitted \in [Lines -> Nat]
          /\ n \in 0 .. MaxLines /\ n > 0 /\ read \in Nat /\ n > read /\ n \in Nat
      BY <2>1 DEF Core, TypeOK, Lines, NewLine
    <2>4. /\ \A j \in Keys : responses[j] > 0 => responses[j] <= read /\ key[responses[j]] = j /\ responses[j] \in Lines
          /\ \A j \in Keys : responses[j] # n /\ requests[j] # n
          /\ \A j \in Keys : requests[j] = 0 \/ responses[j] = 0
      BY <2>1, <2>3 DEF Core, Entries, NewLine, Lines
    <2>5. TypeOK'
      <3>1. /\ requests' \in [Keys -> 0 .. MaxLines] /\ responses' \in [Keys -> 0 .. MaxLines]
            /\ partner' \in [Lines -> 0 .. MaxLines]
        BY <2>2, <2>3, <2>4 DEF Lines
      <3>2. emitted' \in [Lines -> Nat]
        BY <2>2, <2>3 DEF Emit
      <3> QED BY <2>1, <2>2, <3>1, <3>2 DEF TypeOK, NewLine
    <2>6. NoLineLost'
      <3>1. \A j \in Keys : responses'[j] = IF j = k THEN n ELSE IF j = old THEN 0 ELSE responses[j]
        BY <2>2, <2>3
      <3>2. \A j \in Keys : responses[j] = responses[old] => j = old
        BY <2>2, <2>4
      <3>3. Held(responses[old]) /\ ~HeldNext(responses[old])
        BY <2>2, <2>3, <2>4, <3>1, <3>2 DEF Held, HeldNext
      <3>4. HeldNext(n) <=> TRUE
        BY <2>3, <2>4, <3>1 DEF HeldNext
      <3>5. \A l \in Lines : l # responses[old] /\ l # n => (HeldNext(l) <=> Held(l))
        BY <2>2, <3>1 DEF Held, HeldNext, Lines
      <3>6. responses[old] <= read /\ responses[old] # n
        BY <2>2, <2>4
      <3> QED BY <2>1, <2>2, <3>3, <3>4, <3>5, <3>6, EmitStep
    <2>7. /\ Stores(requests, requests', n, k) /\ Stores(responses, responses', n, k)
          /\ \A j \in Keys : requests'[j] = n => "response" = "request"
          /\ \A j \in Keys : responses'[j] = n => "response" = "response"
          /\ \A j \in Keys : requests'[j] = 0 \/ responses'[j] = 0
      BY <2>2, <2>3, <2>4 DEF Stores
    <2>8. Pairs(n, n, "response", k)
      BY <2>2 DEF Pairs
    <2>9. Entries' /\ PairsSound'
      BY <2>1, <2>2, <2>5, <2>7, <2>8, PairStep DEF TypeOK, Directions
    <2> QED BY <2>5, <2>6, <2>9 DEF Core
  <1>10. CASE Flush
    <2>1. /\ UNCHANGED <<read, dir, key, partner, paired, evicted>>
          /\ Emit({responses[k] : k \in Pending(responses)})
          /\ requests' = [k \in Keys |-> 0] /\ responses' = [k \in Keys |-> 0]
          /\ done' = TRUE
          /\ unpaired' = unpaired + Cardinality(Pending(responses))
      BY <1>10 DEF Flush, inputVars
    <2>2. \A buffer : Cardinality(Pending(buffer)) \in Nat
      BY FS_Subset, FS_CardinalityType DEF Pending
    <2>3. TypeOK'
      BY <2>1, <2>2 DEF Core, TypeOK, Emit
    <2>4. NoLineLost'
      <3>1. ASSUME NEW l \in Lines PROVE emitted'[l] = IF l <= read THEN 1 ELSE 0
        <4>1. emitted[l] = IF l <= read /\ ~Held(l) THEN 1 ELSE 0
          BY DEF Core, NoLineLost
        <4>2. (l \in {responses[k] : k \in Pending(responses)}) <=> Held(l)
          BY DEF Held, Pending, Lines
        <4>3. Held(l) => l <= read
          BY DEF Held, Core, Entries, Lines
        <4> QED BY <2>1, <4>1, <4>2, <4>3 DEF Emit
      <3>2. \A l \in Lines : \A k \in Keys : responses'[k] # l
        BY <2>1 DEF Lines
      <3> QED BY <2>1, <3>1, <3>2 DEF NoLineLost, Held
    <2>5. Entries' /\ PairsSound'
      BY <2>1 DEF Entries, Core, PairsSound, IsResponse, IsRequest
    <2> QED BY <2>3, <2>4, <2>5 DEF Core
  <1>11. CASE UNCHANGED vars
    BY <1>11 DEF vars, inputVars, Core, TypeOK, Entries, NoLineLost, PairsSound, IsResponse,
                 IsRequest, Held
  <1> QED
    BY <1>1, <1>2, <1>3, <1>4, <1>5, <1>6, <1>7, <1>8, <1>9, <1>10, <1>11 DEF Next
-----------------------------------------------------------------------------
(* The caps.                                                               *)

Capped(buffer) == Cardinality(Pending(buffer)) <= MaxPending

LEMMA PendingFinite ==
  ASSUME NEW buffer
  PROVE  IsFiniteSet(Pending(buffer)) /\ Cardinality(Pending(buffer)) \in Nat
  BY CorrelatorAssumption, FS_Subset, FS_CardinalityType DEF Pending

\* A buffer whose pending keys are among those of a capped one is capped.
LEMMA CapSubset ==
  ASSUME NEW before, NEW after, Capped(before), Pending(after) \subseteq Pending(before)
  PROVE  Capped(after)
  <1>1. Cardinality(Pending(after)) <= Cardinality(Pending(before))
    BY PendingFinite, FS_Subset
  <1> QED BY <1>1, PendingFinite, CorrelatorAssumption DEF Capped

\* Storing one more key below the cap.
LEMMA CapStore ==
  ASSUME NEW before, NEW after, NEW k, ~Full(before),
         Pending(after) \subseteq Pending(before) \cup {k}
  PROVE  Capped(after)
  <1> DEFINE P == Pending(before)
  <1>1. /\ IsFiniteSet(P \cup {k})
        /\ Cardinality(P \cup {k}) \in {Cardinality(P), Cardinality(P) + 1}
    BY PendingFinite, FS_AddElement
  <1>2. Cardinality(Pending(after)) <= Cardinality(P \cup {k})
    BY <1>1, FS_Subset
  <1>3. Cardinality(P) < MaxPending /\ Cardinality(P) \in Nat
    BY PendingFinite, CorrelatorAssumption DEF Full
  <1> QED BY <1>1, <1>2, <1>3, PendingFinite, CorrelatorAssumption DEF Capped

\* Storing one key in place of another.
LEMMA CapReplace ==
  ASSUME NEW before, NEW after, NEW k, NEW old \in Pending(before), Capped(before),
         Pending(after) \subseteq (Pending(before) \ {old}) \cup {k}
  PROVE  Capped(after)
  <1> DEFINE P == Pending(before)
             R == P \ {old}
  <1>1. IsFiniteSet(R) /\ Cardinality(R) = Cardinality(P) - 1
    BY PendingFinite, FS_RemoveElement
  <1> HIDE DEF R
  <1>2. IsFiniteSet(R \cup {k}) /\ Cardinality(R \cup {k}) \in {Cardinality(R), Cardinality(R) + 1}
    BY <1>1, FS_AddElement
  <1>3. Cardinality(Pending(after)) <= Cardinality(R \cup {k})
    BY <1>2, FS_Subset DEF R
  <1> QED BY <1>1, <1>2, <1>3, PendingFinite, CorrelatorAssumption DEF Capped

Caps == Capped(requests) /\ Capped(responses)

LEMMA CapsStep ==
  ASSUME Core, Core', Caps, [Next]_vars
  PROVE  Caps'
  <1> USE CorrelatorAssumption
  <1>1. /\ requests \in [Keys -> Nat] /\ responses \in [Keys -> Nat]
        /\ requests' \in [Keys -> Nat] /\ responses' \in [Keys -> Nat]
    BY DEF Core, TypeOK
  <1>2. ASSUME NEW k \in Keys, PairResponse(k) \/ \E d \in {"request", "bare"} : ReleaseHeld(d, k)
        PROVE  Caps'
    <2>1. \A j \in Keys : requests'[j] \in {0, requests[j]} /\ responses'[j] \in {0, responses[j]}
      BY <1>1, <1>2 DEF PairResponse, ReleaseHeld
    <2>2. Pending(requests') \subseteq Pending(requests) /\ Pending(responses') \subseteq Pending(responses)
      BY <2>1 DEF Pending
    <2>3. Capped(requests') /\ Capped(responses')
      BY <2>2, CapSubset DEF Caps
    <2> QED BY <2>3 DEF Caps, Capped, Pending
  <1>3. ASSUME NEW k \in Keys, RememberRequest(k)
        PROVE  Caps'
    <2>1. UNCHANGED responses /\ \A j \in Keys \ {k} : requests'[j] = requests[j]
      BY <1>1, <1>3 DEF RememberRequest
    <2>2. Pending(requests') \subseteq Pending(requests) \cup {k}
      BY <2>1 DEF Pending
    <2>3. CASE requests[k] > 0
      <3>1. Pending(requests') \subseteq Pending(requests)
        BY <2>2, <2>3 DEF Pending
      <3>2. Capped(requests')
        BY <3>1, CapSubset DEF Caps
      <3> QED BY <2>1, <3>2 DEF Caps, Capped, Pending
    <2>4. CASE ~Full(requests)
      <3>1. Capped(requests')
        BY <2>2, <2>4, CapStore
      <3> QED BY <2>1, <3>1 DEF Caps, Capped, Pending
    <2> QED BY <1>3, <2>3, <2>4 DEF RememberRequest
  <1>4. ASSUME NEW k \in Keys, HoldResponse(k) \/ DisplaceDuplicate(k)
        PROVE  Caps'
    <2>1. UNCHANGED requests /\ \A j \in Keys \ {k} : responses'[j] = responses[j]
      BY <1>1, <1>4 DEF HoldResponse, DisplaceDuplicate
    <2>2. Pending(responses') \subseteq Pending(responses) \cup {k}
      BY <2>1 DEF Pending
    <2>3. CASE responses[k] > 0
      <3>1. Pending(responses') \subseteq Pending(responses)
        BY <2>2, <2>3 DEF Pending
      <3>2. Capped(responses')
        BY <3>1, CapSubset DEF Caps
      <3> QED BY <2>1, <3>2 DEF Caps, Capped, Pending
    <2>4. CASE ~Full(responses)
      <3>1. Capped(responses')
        BY <2>2, <2>4, CapStore
      <3> QED BY <2>1, <3>1 DEF Caps, Capped, Pending
    <2> QED BY <1>4, <2>3, <2>4 DEF HoldResponse, DisplaceDuplicate
  <1>5. ASSUME NEW k \in Keys, NEW old \in Keys, EvictRequest(k, old)
        PROVE  Caps'
    <2>1. /\ old \in Pending(requests) /\ old # k /\ UNCHANGED responses
          /\ requests' = [requests EXCEPT ![old] = 0, ![k] = Line]
      BY <1>5 DEF EvictRequest, IsOldest, Pending
    <2>2. Pending(requests') \subseteq (Pending(requests) \ {old}) \cup {k}
      BY <1>1, <2>1 DEF Pending
    <2>3. Capped(requests')
      BY <2>1, <2>2, CapReplace DEF Caps
    <2> QED BY <2>1, <2>3 DEF Caps, Capped, Pending
  <1>6. ASSUME NEW k \in Keys, NEW old \in Keys, EvictResponse(k, old)
        PROVE  Caps'
    <2>1. /\ old \in Pending(responses) /\ old # k /\ UNCHANGED requests
          /\ responses' = [responses EXCEPT ![old] = 0, ![k] = Line]
      BY <1>6 DEF EvictResponse, IsOldest, Pending
    <2>2. Pending(responses') \subseteq (Pending(responses) \ {old}) \cup {k}
      BY <1>1, <2>1 DEF Pending
    <2>3. Capped(responses')
      BY <2>1, <2>2, CapReplace DEF Caps
    <2> QED BY <2>1, <2>3 DEF Caps, Capped, Pending
  <1>7. CASE Flush
    <2>1. \A j \in Keys : requests'[j] = 0 /\ responses'[j] = 0
      BY <1>7 DEF Flush
    <2>2. Pending(requests') = {} /\ Pending(responses') = {}
      BY <2>1 DEF Pending
    <2> QED BY <2>2, FS_EmptySet DEF Caps, Capped, Pending
  <1>8. CASE PassThrough \/ (\E k \in Keys : ForgetBare(k)) \/ UNCHANGED vars
    BY <1>8 DEF PassThrough, ForgetBare, vars, Caps, Capped, Pending
  <1> QED BY <1>2, <1>3, <1>4, <1>5, <1>6, <1>7, <1>8 DEF Next

LEMMA CoreStart == Init => Core
  <1>1. Init => TypeOK
    <2>1. 0 \in 0 .. MaxLines
      BY CorrelatorAssumption
    <2>2. "other" \in Directions /\ NoKey \in Keys \cup {NoKey}
      BY DEF Directions
    <2>3. Init => /\ dir \in [Lines -> Directions] /\ key \in [Lines -> Keys \cup {NoKey}]
                  /\ requests \in [Keys -> 0 .. MaxLines] /\ responses \in [Keys -> 0 .. MaxLines]
      BY <2>1, <2>2 DEF Init
    <2>4. Init => /\ emitted \in [Lines -> Nat] /\ partner \in [Lines -> 0 .. MaxLines]
                  /\ read \in 0 .. MaxLines
      BY <2>1 DEF Init
    <2>5. Init => /\ paired \in Nat /\ unpaired \in Nat /\ evicted \in Nat
      BY DEF Init
    <2>6. Init => done \in BOOLEAN
      BY Zenon DEF Init
    <2> QED BY <2>3, <2>4, <2>5, <2>6 DEF TypeOK
  <1>2. Init => Entries
    BY DEF Init, Entries
  <1>3. Init => NoLineLost /\ PairsSound
    <2>1. \A l \in Lines : l > 0 /\ ~(l <= 0)
      BY CorrelatorAssumption DEF Lines
    <2> QED BY <2>1 DEF Init, NoLineLost, PairsSound
  <1> QED BY <1>1, <1>2, <1>3 DEF Core

LEMMA InvAlways == Spec => [](Core /\ Caps)
  <1>2. Init => Caps
    <2>1. Init => Pending(requests) = {} /\ Pending(responses) = {}
      BY DEF Init, Pending
    <2> QED BY <2>1, FS_EmptySet, CorrelatorAssumption DEF Caps, Capped
  <1> QED BY <1>2, CoreStart, CoreStep, CapsStep, PTL DEF Spec

\* Every line read has come out exactly once or is held: NoLineLost.
THEOREM NoLineIsLost == Spec => []NoLineLost
  <1>1. Core => NoLineLost
    BY DEF Core
  <1> QED BY <1>1, InvAlways, PTL

\* A request enriches at most one response, of its own key: PairsSound.
THEOREM PairsAreSound == Spec => []PairsSound
  <1>1. Core => PairsSound
    BY DEF Core
  <1> QED BY <1>1, InvAlways, PTL

\* Both buffers stay within max_pending and share no key: BuffersSound.
THEOREM BuffersAreSound == Spec => []BuffersSound
  <1>1. Core /\ Caps => BuffersSound
    BY DEF Core, Caps, Capped, Entries, BuffersSound
  <1> QED BY <1>1, InvAlways, PTL

-----------------------------------------------------------------------------
(* Who is paired with whom.                                                *)

\* What a line does: at most one response gets a partner, a request replaces or
\* pairs what its key holds, and unless something was evicted the other keys
\* are left alone and a line that pairs nothing is held.
Move(n, c, d, k) ==
  /\ NewLine(n, d, k) /\ (d = "other" <=> k = NoKey)
  /\ Pairs(n, c, d, k) /\ Stores(requests, requests', n, k) /\ Stores(responses, responses', n, k)
  /\ d = "request" => requests'[k] \in {0, n} /\ responses'[k] = 0
  /\ evicted' = 0 =>
       /\ evicted = 0
       /\ \A j \in Keys \ {k} : requests'[j] = requests[j] /\ responses'[j] = responses[j]
       /\ d = "request" =>
            IF responses[k] > 0 THEN partner'[responses[k]] = n ELSE requests'[k] = n
       /\ d = "response" =>
            IF requests[k] > 0 THEN partner'[n] = requests[k] ELSE responses'[k] = n

Reads == \/ \E k \in Keys :
              \/ \E d \in {"request", "bare"} : ReleaseHeld(d, k)
              \/ RememberRequest(k) \/ ForgetBare(k) \/ PairResponse(k)
              \/ HoldResponse(k) \/ DisplaceDuplicate(k)
              \/ \E old \in Keys : EvictRequest(k, old) \/ EvictResponse(k, old)
         \/ PassThrough

LEMMA Moves ==
  ASSUME Core, Reads
  PROVE  \E n, c \in Lines : \E d \in Directions : \E k \in Keys \cup {NoKey} : Move(n, c, d, k)
  <1> USE CorrelatorAssumption DEF Directions
  <1>0. /\ requests \in [Keys -> 0 .. MaxLines] /\ responses \in [Keys -> 0 .. MaxLines]
        /\ partner \in [Lines -> 0 .. MaxLines] /\ evicted \in Nat
        /\ \A k \in Keys : requests[k] = 0 \/ responses[k] = 0
    BY DEF Core, TypeOK, Entries
  <1>1. CASE PassThrough
    <2>1. PICK n \in Lines : NewLine(n, "other", NoKey)
      BY <1>1, ReadFacts DEF PassThrough
    <2>2. UNCHANGED <<requests, responses, partner, evicted>>
      BY <1>1 DEF PassThrough
    <2>3. Move(n, n, "other", NoKey)
      BY <1>0, <2>1, <2>2 DEF Move, Pairs, Stores
    <2> QED BY <2>3
  <1>2. ASSUME NEW k \in Keys, NEW d \in {"request", "bare"}, ReleaseHeld(d, k)
        PROVE  \E n, c \in Lines : Move(n, c, d, k)
    <2>1. PICK n \in Lines : NewLine(n, d, k)
      BY <1>2, ReadFacts DEF ReleaseHeld
    <2>2. PICK c \in Lines : c = responses[k]
      BY <1>0, <1>2 DEF ReleaseHeld, Lines
    <2>3. /\ UNCHANGED <<requests, evicted>> /\ responses[k] > 0 /\ requests[k] = 0
          /\ responses' = [responses EXCEPT ![k] = 0]
          /\ partner' = [partner EXCEPT ![c] = n]
      BY <1>0, <1>2, <2>1, <2>2 DEF ReleaseHeld, NewLine
    <2>4. /\ responses'[k] = 0 /\ \A j \in Keys \ {k} : responses'[j] = responses[j]
          /\ partner'[c] = n /\ \A l \in Lines \ {c} : partner'[l] = partner[l]
      BY <1>0, <2>3
    <2>5. Move(n, c, d, k)
      BY <1>0, <2>1, <2>2, <2>3, <2>4 DEF Move, Pairs, Stores
    <2> QED BY <2>5
  <1>3. ASSUME NEW k \in Keys, RememberRequest(k)
        PROVE  \E n \in Lines : Move(n, n, "request", k)
    <2>1. PICK n \in Lines : NewLine(n, "request", k)
      BY <1>3, ReadFacts DEF RememberRequest
    <2>2. /\ UNCHANGED <<responses, partner, evicted>> /\ responses[k] = 0
          /\ requests' = [requests EXCEPT ![k] = n]
      BY <1>3, <2>1 DEF RememberRequest, NewLine
    <2>3. Move(n, n, "request", k)
      BY <1>0, <2>1, <2>2 DEF Move, Pairs, Stores
    <2> QED BY <2>3
  <1>4. ASSUME NEW k \in Keys, ForgetBare(k)
        PROVE  \E n \in Lines : Move(n, n, "bare", k)
    <2>1. PICK n \in Lines : NewLine(n, "bare", k)
      BY <1>4, ReadFacts DEF ForgetBare
    <2>2. UNCHANGED <<requests, responses, partner, evicted>>
      BY <1>4 DEF ForgetBare
    <2>3. Move(n, n, "bare", k)
      BY <1>0, <2>1, <2>2 DEF Move, Pairs, Stores
    <2> QED BY <2>3
  <1>5. ASSUME NEW k \in Keys, PairResponse(k)
        PROVE  \E n \in Lines : Move(n, n, "response", k)
    <2>1. PICK n \in Lines : NewLine(n, "response", k)
      BY <1>5, ReadFacts DEF PairResponse
    <2>2. /\ UNCHANGED <<responses, evicted>> /\ requests[k] > 0
          /\ requests' = [requests EXCEPT ![k] = 0]
          /\ partner' = [partner EXCEPT ![n] = requests[k]]
      BY <1>5, <2>1 DEF PairResponse, NewLine
    <2>3. Move(n, n, "response", k)
      BY <1>0, <2>1, <2>2 DEF Move, Pairs, Stores
    <2> QED BY <2>3
  <1>6. ASSUME NEW k \in Keys, HoldResponse(k) \/ DisplaceDuplicate(k)
        PROVE  \E n \in Lines : Move(n, n, "response", k)
    <2>1. PICK n \in Lines : NewLine(n, "response", k)
      BY <1>6, ReadFacts DEF HoldResponse, DisplaceDuplicate
    <2>2. /\ UNCHANGED <<requests, partner, evicted>> /\ requests[k] = 0
          /\ responses' = [responses EXCEPT ![k] = n]
      BY <1>6, <2>1 DEF HoldResponse, DisplaceDuplicate, NewLine
    <2>3. Move(n, n, "response", k)
      BY <1>0, <2>1, <2>2 DEF Move, Pairs, Stores
    <2> QED BY <2>3
  <1>7. ASSUME NEW k \in Keys, NEW old \in Keys, EvictRequest(k, old)
        PROVE  \E n \in Lines : Move(n, n, "request", k)
    <2>1. PICK n \in Lines : NewLine(n, "request", k)
      BY <1>7, ReadFacts DEF EvictRequest
    <2>2. /\ UNCHANGED <<responses, partner>> /\ responses[k] = 0
          /\ requests' = [requests EXCEPT ![old] = 0, ![k] = n]
          /\ evicted' = evicted + 1
      BY <1>7, <2>1 DEF EvictRequest, NewLine
    <2>3. evicted' # 0
      BY <1>0, <2>2
    <2>4. Move(n, n, "request", k)
      BY <1>0, <2>1, <2>2, <2>3 DEF Move, Pairs, Stores
    <2> QED BY <2>4
  <1>8. ASSUME NEW k \in Keys, NEW old \in Keys, EvictResponse(k, old)
        PROVE  \E n \in Lines : Move(n, n, "response", k)
    <2>1. PICK n \in Lines : NewLine(n, "response", k)
      BY <1>8, ReadFacts DEF EvictResponse
    <2>2. /\ UNCHANGED <<requests, partner>> /\ requests[k] = 0
          /\ responses' = [responses EXCEPT ![old] = 0, ![k] = n]
          /\ evicted' = evicted + 1
      BY <1>8, <2>1 DEF EvictResponse, NewLine
    <2>3. evicted' # 0
      BY <1>0, <2>2
    <2>4. Move(n, n, "response", k)
      BY <1>0, <2>1, <2>2, <2>3 DEF Move, Pairs, Stores
    <2> QED BY <2>4
  <1> QED BY <1>1, <1>2, <1>3, <1>4, <1>5, <1>6, <1>7, <1>8 DEF Reads

\* After what a buffer holds no request of its key was read.
Latest ==
  \A k \in Keys : \A m \in Lines :
    m <= read /\ dir[m] = "request" /\ key[m] = k =>
      /\ requests[k] > 0 => m <= requests[k]
      /\ responses[k] > 0 => m < responses[k]

LEMMA NearestStep ==
  ASSUME Core, Latest, NearestPartner, [Next]_vars
  PROVE  Latest' /\ NearestPartner'
  <1> USE CorrelatorAssumption
  <1>0. /\ requests \in [Keys -> 0 .. MaxLines] /\ responses \in [Keys -> 0 .. MaxLines]
        /\ partner \in [Lines -> 0 .. MaxLines] /\ read \in Nat
        /\ \A l \in Lines : l \in Nat /\ l > 0
    BY DEF Core, TypeOK, Lines
  <1>1. CASE Reads
    <2>1. PICK n, c \in Lines, d \in Directions, k \in Keys \cup {NoKey} : Move(n, c, d, k)
      BY <1>1, Moves
    <2>2. /\ n = read + 1 /\ read' = n /\ dir'[n] = d /\ key'[n] = k
          /\ \A l \in Lines : l # n => dir'[l] = dir[l] /\ key'[l] = key[l]
          /\ \A j \in Keys : responses[j] # n /\ requests[j] # n
      BY <2>1 DEF Move, NewLine, Line
    <2>3. ASSUME NEW j \in Keys, NEW m \in Lines, m <= read', dir'[m] = "request", key'[m] = j
          PROVE  /\ requests'[j] > 0 => m <= requests'[j]
                 /\ responses'[j] > 0 => m < responses'[j]
      <3>1. CASE m = n
        BY <1>0, <2>1, <2>2, <2>3, <3>1 DEF Move
      <3>2. CASE m # n
        <4>1. /\ m <= read /\ m < n /\ dir[m] = "request" /\ key[m] = j
          BY <1>0, <2>2, <2>3, <3>2
        <4>2. /\ requests[j] > 0 => m <= requests[j]
              /\ responses[j] > 0 => m < responses[j]
          BY <4>1 DEF Latest
        <4>3. requests'[j] \in {0, requests[j], n} /\ responses'[j] \in {0, responses[j], n}
          BY <2>1 DEF Move, Stores
        <4> QED BY <1>0, <4>1, <4>2, <4>3
      <3> QED BY <3>1, <3>2
    <2>4. ASSUME NEW l \in Lines, partner'[l] > 0, NEW m \in Lines, m <= read',
                 dir'[m] = "request", key'[m] = key'[l]
          PROVE  IF partner'[l] < l THEN ~(partner'[l] < m /\ m < l)
                                    ELSE ~(l < m /\ m < partner'[l])
      <3>1. CASE partner'[l] = partner[l]
        <4>1. l <= read /\ partner[l] <= read /\ partner[l] \in Nat
          BY <1>0, <2>4, <3>1 DEF Core, PairsSound
        <4>2. CASE m = n
          BY <1>0, <2>2, <3>1, <4>1, <4>2
        <4>3. CASE m # n
          <5>1. m <= read /\ dir[m] = "request" /\ key[m] = key[l]
            BY <1>0, <2>2, <2>4, <4>1, <4>3
          <5>2. m \in ReadLines
            BY <1>0, <5>1 DEF ReadLines
          <5> QED BY <2>4, <3>1, <5>1, <5>2 DEF NearestPartner
        <4> QED BY <4>2, <4>3
      <3>2. CASE l = n /\ d = "response" /\ k \in Keys /\ requests[k] > 0 /\ partner'[l] = requests[k]
        <4>1. requests[k] < n
          BY <1>0, <2>2, <3>2 DEF Core, Entries
        <4>2. m # n => m <= requests[k]
          BY <1>0, <2>2, <2>4, <3>2 DEF Latest
        <4> QED BY <1>0, <2>2, <3>2, <4>1, <4>2
      <3>3. CASE k \in Keys /\ responses[k] > 0 /\ l = responses[k] /\ partner'[l] = n
        <4>1. l <= read /\ key[l] = k
          BY <3>3 DEF Core, Entries
        <4>2. m # n => m < l
          BY <1>0, <2>2, <2>4, <3>3, <4>1 DEF Latest
        <4> QED BY <1>0, <2>2, <3>3, <4>1, <4>2
      <3>4. k \in Keys \/ partner'[l] = partner[l]
        <4>1. CASE k = NoKey
          <5>1. d = "other"
            BY <2>1, <4>1 DEF Move
          <5> QED BY <2>1, <5>1 DEF Move, Pairs
        <4> QED BY <4>1
      <3> QED BY <2>1, <3>1, <3>2, <3>3, <3>4 DEF Move, Pairs
    <2>5. Latest'
      BY <2>3 DEF Latest
    <2>6. NearestPartner'
      <3>1. \A m \in ReadLines' : m \in Lines /\ m <= read'
        <4>1. read' \in 0 .. MaxLines
          BY <2>1 DEF Move, NewLine
        <4> QED BY <4>1 DEF ReadLines, Lines
      <3> QED BY <2>4, <3>1 DEF NearestPartner
    <2> QED BY <2>5, <2>6
  <1>2. CASE Flush
    <2>1. /\ UNCHANGED <<read, dir, key, partner>>
          /\ \A k \in Keys : requests'[k] = 0 /\ responses'[k] = 0
      BY <1>2 DEF Flush, inputVars
    <2> QED BY <2>1 DEF Latest, NearestPartner, ReadLines
  <1>3. CASE UNCHANGED vars
    BY <1>3 DEF vars, inputVars, Latest, NearestPartner, ReadLines
  <1> QED BY <1>1, <1>2, <1>3 DEF Next, Reads

\* A response has the fields of the nearest request of its id: NearestPartner,
\* however often ids wrap and whatever was evicted.
THEOREM PartnersAreNearest == Spec => []NearestPartner
  <1>1. Init => Latest /\ NearestPartner
    <2>1. \A l \in Lines : ~(l <= 0)
      BY CorrelatorAssumption DEF Lines
    <2> QED BY <2>1 DEF Init, Latest, NearestPartner
  <1>2. Core /\ Latest /\ NearestPartner /\ [Next]_vars => Latest' /\ NearestPartner'
    BY NearestStep
  <1> QED BY <1>1, <1>2, InvAlways, PTL DEF Spec

-----------------------------------------------------------------------------
(* Everything that can be paired is paired.                                *)

\* A line without a direction is one without a key.
Keyed == \A l \in Lines : dir[l] = "other" <=> key[l] = NoKey

\* l is the only line of its key so far.
Sole(l) == \A m \in Lines \ {l} : m <= read => key[m] # key[l]

\* While nothing was evicted a line that is alone waits in its buffer, and two
\* that have only each other are paired.
Alone ==
  evicted = 0 =>
    /\ ~done => \A l \in Lines : l <= read /\ Sole(l) =>
                  /\ dir[l] = "request" => requests[key[l]] = l
                  /\ dir[l] = "response" => responses[key[l]] = l
    /\ \A l, m \in Lines :
         /\ l <= read /\ m <= read /\ IsResponse(l) /\ dir[m] = "request" /\ key[m] = key[l]
         /\ Unique(l) /\ Unique(m)
         => partner[l] = m

\* Two lines that have only each other: the other one was alone before.
LEMMA SoleBefore ==
  ASSUME Core, Keyed', NEW n \in Lines, NEW d, NEW k, NewLine(n, d, k),
         NEW l \in Lines, NEW m \in Lines, l <= n, m <= n,
         dir'[l] = "response", dir'[m] = "request", key'[m] = key'[l],
         Unique(l)', Unique(m)'
  PROVE  /\ l = n => Sole(m)
         /\ m = n => Sole(l)
         /\ l # n /\ m # n => Unique(l) /\ Unique(m)
  <1> USE CorrelatorAssumption
  <1>0. /\ n = read + 1 /\ read' = n /\ read \in Nat
        /\ \A x \in Lines : x # n => dir'[x] = dir[x] /\ key'[x] = key[x]
        /\ \A x \in Lines : x \in Nat /\ x > 0
    BY DEF NewLine, Line, Lines
  <1>1. \A x \in Lines : x <= n => x \in ReadLines'
    BY <1>0 DEF ReadLines
  <1>2. ASSUME NEW x \in Lines, x <= n, x # l, key'[x] = key'[l]
        PROVE  dir'[x] # "response" \/ dir'[x] = "other"
    BY <1>1, <1>2 DEF Unique, IsResponse
  <1>3. ASSUME NEW x \in Lines, x <= n, x # m, key'[x] = key'[m]
        PROVE  dir'[x] = "response" \/ dir'[x] = "other"
    BY <1>1, <1>3 DEF Unique, IsResponse
  <1>4. ASSUME NEW x \in Lines, x <= read, x # l, x # m, key'[x] = key'[l]
        PROVE  FALSE
    <2>1. x # n /\ x <= n
      <3>1. x \in Nat /\ read \in Nat /\ n = read + 1
        BY <1>0
      <3> QED BY <1>4, <3>1
    <2>2. dir'[x] = "other"
      BY <1>2, <1>3, <1>4, <2>1
    <2> QED BY <1>4, <2>2 DEF Keyed
  <1>5. ASSUME l = n PROVE Sole(m)
    BY <1>0, <1>4, <1>5 DEF Sole
  <1>6. ASSUME m = n PROVE Sole(l)
    BY <1>0, <1>4, <1>6 DEF Sole
  <1>7. ASSUME l # n, m # n PROVE Unique(l) /\ Unique(m)
    <2>1. \A x \in ReadLines : x \in Lines /\ x # n /\ x <= n
      <3>1. read <= MaxLines /\ MaxLines \in Nat
        BY DEF Core, TypeOK
      <3> QED BY <1>0, <3>1 DEF ReadLines, Lines
    <2>2. /\ dir'[l] = dir[l] /\ key'[l] = key[l] /\ dir'[m] = dir[m] /\ key'[m] = key[m]
          /\ \A x \in ReadLines : dir'[x] = dir[x] /\ key'[x] = key[x]
      BY <1>0, <1>7, <2>1
    <2> QED BY <1>2, <1>3, <2>1, <2>2 DEF Unique, IsResponse
  <1> QED BY <1>5, <1>6, <1>7

LEMMA AloneStep ==
  ASSUME Core, Keyed, Alone, [Next]_vars
  PROVE  Keyed' /\ Alone'
  <1> USE CorrelatorAssumption
  <1>0. /\ requests \in [Keys -> 0 .. MaxLines] /\ responses \in [Keys -> 0 .. MaxLines]
        /\ partner \in [Lines -> 0 .. MaxLines] /\ read \in Nat
        /\ dir \in [Lines -> Directions] /\ key \in [Lines -> Keys \cup {NoKey}]
        /\ \A l \in Lines : l \in Nat /\ l > 0
    BY DEF Core, TypeOK, Lines
  <1>1. CASE Reads
    <2>1. PICK n, c \in Lines, d \in Directions, k \in Keys \cup {NoKey} : Move(n, c, d, k)
      BY <1>1, Moves
    <2>2. /\ n = read + 1 /\ read' = n /\ dir'[n] = d /\ key'[n] = k
          /\ \A l \in Lines : l # n => dir'[l] = dir[l] /\ key'[l] = key[l]
          /\ NewLine(n, d, k)
      BY <2>1 DEF Move, NewLine, Line
    <2>3. Keyed'
      BY <2>1, <2>2 DEF Move, Keyed
    <2>4. ~done
      <3>1. \E e, j : Read(e, j)
        BY <1>1, Zenon DEF Reads, ReleaseHeld, RememberRequest, ForgetBare, PairResponse,
                  HoldResponse, DisplaceDuplicate, EvictRequest, EvictResponse, PassThrough
      <3> QED BY <3>1 DEF Read
    <2> SUFFICES ASSUME evicted' = 0 PROVE Alone'
      BY <2>3 DEF Alone
    <2>4a. n <= read' /\ \A x \in Lines : (x <= n /\ x # n => x <= read) /\ (x <= read => x # n /\ x <= n)
      <3>1. n = read + 1 /\ read' = n
        BY <2>2
      <3> QED BY <1>0, <3>1
    <2>5. /\ evicted = 0
          /\ \A j \in Keys \ {k} : requests'[j] = requests[j] /\ responses'[j] = responses[j]
          /\ d = "request" =>
               IF responses[k] > 0 THEN partner'[responses[k]] = n ELSE requests'[k] = n
          /\ d = "response" =>
               IF requests[k] > 0 THEN partner'[n] = requests[k] ELSE responses'[k] = n
      BY <2>1 DEF Move
    <2>6. ASSUME NEW l \in Lines, l <= n, Sole(l)'
          PROVE  /\ dir'[l] = "request" => requests'[key'[l]] = l
                 /\ dir'[l] = "response" => responses'[key'[l]] = l
      <3>1. CASE l = n
        <4>1. ASSUME NEW x \in Lines, x <= read PROVE key[x] # k
          <5>1. x # n /\ x <= read' /\ key'[x] = key[x]
            BY <1>0, <2>2, <4>1
          <5> QED BY <2>2, <2>6, <3>1, <5>1 DEF Sole
        <4>2. d \in {"request", "response"} => k \in Keys
          BY <2>1 DEF Move
        <4>3. k \in Keys => requests[k] = 0 /\ responses[k] = 0
          BY <1>0, <4>1 DEF Core, Entries, Lines
        <4> QED BY <2>2, <2>5, <3>1, <4>2, <4>3
      <3>2. CASE l # n
        <4>1. l <= read /\ dir'[l] = dir[l] /\ key'[l] = key[l] /\ key[l] # k
          <5>1. l <= read /\ n <= read'
            BY <2>6, <2>4a, <3>2
          <5>2. key'[n] # key'[l]
            BY <2>6, <3>2, <5>1 DEF Sole
          <5> QED BY <2>2, <3>2, <5>1, <5>2
        <4>2. Sole(l)
          <5> SUFFICES ASSUME NEW x \in Lines \ {l}, x <= read PROVE key[x] # key[l]
            BY DEF Sole
          <5>1. x # n /\ x <= read' /\ key'[x] = key[x]
            BY <1>0, <2>2
          <5> QED BY <2>6, <4>1, <5>1 DEF Sole
        <4>3. dir[l] \in {"request", "response"} => key[l] \in Keys
          BY <1>0 DEF Keyed
        <4>4. /\ dir[l] = "request" => requests[key[l]] = l
              /\ dir[l] = "response" => responses[key[l]] = l
          BY <2>4, <2>5, <4>1, <4>2 DEF Alone
        <4> QED BY <2>5, <4>1, <4>3, <4>4
      <3> QED BY <3>1, <3>2
    <2>6a. \A x \in Lines : x <= read /\ Sole(x) =>
             /\ dir[x] = "request" => requests[key[x]] = x
             /\ dir[x] = "response" => responses[key[x]] = x
      <3>1. evicted = 0
        BY <2>5
      <3> QED BY <2>4, <3>1, Zenon DEF Alone
    <2>7. ASSUME NEW l \in Lines, NEW m \in Lines, l <= n, m <= n, dir'[l] = "response",
                 dir'[m] = "request", key'[m] = key'[l], Unique(l)', Unique(m)'
          PROVE  partner'[l] = m
      <3>0. /\ l = n => Sole(m)
            /\ m = n => Sole(l)
            /\ l # n /\ m # n => Unique(l) /\ Unique(m)
        BY <2>2, <2>3, <2>7, SoleBefore
      <3>1. CASE l = n
        <4>1. m <= read /\ m # n /\ dir[m] = "request" /\ key[m] = k /\ Sole(m) /\ d = "response"
          BY <1>0, <2>2, <2>7, <3>0, <3>1
        <4>2. requests[k] = m
          BY <2>6a, <4>1
        <4> QED BY <1>0, <2>5, <3>1, <4>1, <4>2
      <3>2. CASE m = n
        <4>1. l <= read /\ l # n /\ dir[l] = "response" /\ key[l] = k /\ Sole(l) /\ d = "request"
          <5>1. l # n /\ d = "request" /\ Sole(l)
            BY <2>2, <2>7, <3>0, <3>2
          <5>2. l <= read
            BY <2>4a, <2>7, <5>1
          <5>3. dir'[l] = dir[l] /\ key'[l] = key[l] /\ key'[m] = k
            BY <2>2, <3>2, <5>1
          <5> QED BY <2>7, <5>1, <5>2, <5>3
        <4>2. responses[k] = l
          BY <2>6a, <4>1
        <4> QED BY <1>0, <2>5, <3>2, <4>1, <4>2
      <3>3. CASE l # n /\ m # n
        <4>1. /\ l <= read /\ m <= read /\ IsResponse(l) /\ dir[m] = "request"
              /\ key[m] = key[l]
          BY <1>0, <2>2, <2>7, <3>3 DEF IsResponse
        <4>2. partner[l] = m
          BY <2>5, <3>0, <3>3, <4>1 DEF Alone
        <4>3. ASSUME partner'[l] # partner[l] PROVE FALSE
          <5>1. k \in Keys
            <6>1. CASE k = NoKey
              <7>1. d = "other"
                BY <2>1, <6>1 DEF Move
              <7> QED BY <2>1, <4>3, <7>1 DEF Move, Pairs
            <6> QED BY <6>1
          <5>2. responses[k] > 0 /\ l = responses[k]
            BY <2>1, <3>3, <4>3 DEF Move, Pairs
          <5>3. partner[l] = 0
            BY <5>1, <5>2 DEF Core, Entries
          <5> QED BY <1>0, <4>2, <5>3
        <4> QED BY <4>2, <4>3
      <3> QED BY <3>1, <3>2, <3>3
    <2> QED BY <2>2, <2>6, <2>7 DEF Alone, IsResponse
  <1>2. CASE Flush
    <2>1. /\ UNCHANGED <<read, dir, key, partner, evicted>> /\ done' = TRUE
      BY <1>2 DEF Flush, inputVars
    <2> QED BY <2>1 DEF Keyed, Alone, IsResponse, Unique, ReadLines
  <1>3. CASE UNCHANGED vars
    BY <1>3 DEF vars, inputVars, Keyed, Alone, Sole, IsResponse, Unique, ReadLines
  <1> QED BY <1>1, <1>2, <1>3 DEF Next, Reads

\* When ids do not wrap and the cap was never reached, each response of the
\* object has the fields of its request, in either order: Complete.
THEOREM AllArePaired == Spec => []Complete
  <1>1. Init => Keyed /\ Alone
    <2>1. \A l \in Lines : ~(l <= 0)
      BY CorrelatorAssumption DEF Lines
    <2> QED BY <2>1 DEF Init, Keyed, Alone
  <1>2. Core /\ Keyed /\ Alone => Complete
    <2> SUFFICES ASSUME Core, Alone, evicted = 0, NEW l \in ReadLines, NEW m \in ReadLines,
                        IsResponse(l), dir[m] = "request", key[m] = key[l], Unique(l), Unique(m)
                 PROVE  partner[l] = m
      BY DEF Complete
    <2>1. l \in Lines /\ m \in Lines /\ l <= read /\ m <= read
      BY CorrelatorAssumption DEF Core, TypeOK, ReadLines, Lines
    <2> QED BY <2>1 DEF Alone
  <1> QED BY <1>1, <1>2, AloneStep, InvAlways, PTL DEF Spec

-----------------------------------------------------------------------------
(* The counters.                                                           *)

PairedLines == {l \in Lines : partner[l] > 0}
ResponsesRead == {l \in ReadLines : IsResponse(l)}

LEMMA CountsFinite ==
  ASSUME TypeOK
  PROVE  /\ IsFiniteSet(PairedLines) /\ Cardinality(PairedLines) \in Nat
         /\ IsFiniteSet(ResponsesRead) /\ Cardinality(ResponsesRead) \in Nat
  <1>1. IsFiniteSet(Lines) /\ IsFiniteSet(ReadLines)
    <2>1. MaxLines \in Int /\ read \in Int
      BY CorrelatorAssumption DEF TypeOK
    <2>2. IsFiniteSet(1..MaxLines) /\ IsFiniteSet(1..read)
      BY <2>1, FS_Interval
    <2> QED BY <2>2 DEF Lines, ReadLines
  <1>2. PairedLines \subseteq Lines /\ ResponsesRead \subseteq ReadLines
    BY DEF PairedLines, ResponsesRead
  <1>3. IsFiniteSet(PairedLines) /\ IsFiniteSet(ResponsesRead)
    BY <1>1, <1>2, FS_Subset
  <1> QED BY <1>3, FS_CardinalityType

\* A new line is one response more if it is a response.
LEMMA ResponseRead ==
  ASSUME Core, NEW n \in Lines, NEW d, NEW k, NewLine(n, d, k)
  PROVE  Cardinality(ResponsesRead') =
           IF d = "response" THEN Cardinality(ResponsesRead) + 1 ELSE Cardinality(ResponsesRead)
  <1>1. /\ n = read + 1 /\ read' = n /\ read \in Nat /\ read <= MaxLines /\ MaxLines \in Nat
        /\ dir'[n] = d /\ \A l \in Lines : l # n => dir'[l] = dir[l]
    BY CorrelatorAssumption DEF NewLine, Line, Core, TypeOK
  <1>2. ReadLines' = ReadLines \cup {n} /\ n \notin ReadLines
    BY <1>1 DEF ReadLines
  <1>3. \A l \in ReadLines : dir'[l] = dir[l]
    BY <1>1 DEF ReadLines, Lines
  <1>4. ResponsesRead' = IF d = "response" THEN ResponsesRead \cup {n} ELSE ResponsesRead
    BY <1>1, <1>2, <1>3 DEF ResponsesRead, IsResponse
  <1>5. n \notin ResponsesRead
    BY <1>2 DEF ResponsesRead
  <1> QED BY <1>4, <1>5, CountsFinite, FS_AddElement DEF Core

\* A response that had no partner gets one.
LEMMA OneEnriched ==
  ASSUME Core, NEW c \in Lines, partner[c] = 0, partner'[c] > 0,
         \A l \in Lines \ {c} : partner'[l] = partner[l]
  PROVE  Cardinality(PairedLines') = Cardinality(PairedLines) + 1
  <1>1. PairedLines' = PairedLines \cup {c} /\ c \notin PairedLines
    BY DEF PairedLines
  <1> QED BY <1>1, CountsFinite, FS_AddElement DEF Core

Waits == Cardinality(Pending(responses))

LEMMA StatsStep ==
  ASSUME Core, StatsAddUp, [Next]_vars
  PROVE  StatsAddUp'
  <1> USE CorrelatorAssumption DEF Directions
  <1>0. /\ requests \in [Keys -> 0 .. MaxLines] /\ responses \in [Keys -> 0 .. MaxLines]
        /\ partner \in [Lines -> 0 .. MaxLines]
        /\ paired \in Nat /\ unpaired \in Nat /\ Waits \in Nat
        /\ Cardinality(PairedLines) \in Nat /\ Cardinality(ResponsesRead) \in Nat
    BY CountsFinite, PendingFinite DEF Core, TypeOK, Waits
  <1>1. /\ paired = Cardinality(PairedLines)
        /\ paired + unpaired + Waits = Cardinality(ResponsesRead)
    BY DEF StatsAddUp, PairedLines, ResponsesRead, Waits
  <1>2. SUFFICES /\ paired' = Cardinality(PairedLines')
                 /\ paired' + unpaired' + Waits' = Cardinality(ResponsesRead')
    BY DEF StatsAddUp, PairedLines, ResponsesRead, Waits
  <1>3. ASSUME UNCHANGED <<partner, paired, unpaired, responses>>, NEW n \in Lines,
               NEW d \in {"request", "bare", "other"}, NEW k, NewLine(n, d, k)
        PROVE  /\ paired' = Cardinality(PairedLines')
               /\ paired' + unpaired' + Waits' = Cardinality(ResponsesRead')
    <2>1. PairedLines' = PairedLines /\ Waits' = Waits
      BY <1>3 DEF PairedLines, Waits, Pending
    <2>2. Cardinality(ResponsesRead') = Cardinality(ResponsesRead)
      BY <1>3, ResponseRead
    <2> QED BY <1>1, <1>3, <2>1, <2>2
  <1>4. CASE PassThrough
    <2>1. PICK n \in Lines : NewLine(n, "other", NoKey)
      BY <1>4, ReadFacts DEF PassThrough
    <2> QED BY <1>3, <1>4, <2>1 DEF PassThrough
  <1>5. ASSUME NEW k \in Keys, RememberRequest(k) \/ \E old \in Keys : EvictRequest(k, old)
        PROVE  /\ paired' = Cardinality(PairedLines')
               /\ paired' + unpaired' + Waits' = Cardinality(ResponsesRead')
    <2>1. PICK n \in Lines : NewLine(n, "request", k)
      BY <1>5, ReadFacts DEF RememberRequest, EvictRequest
    <2> QED BY <1>3, <1>5, <2>1 DEF RememberRequest, EvictRequest
  <1>6. ASSUME NEW k \in Keys, ForgetBare(k)
        PROVE  /\ paired' = Cardinality(PairedLines')
               /\ paired' + unpaired' + Waits' = Cardinality(ResponsesRead')
    <2>1. PICK n \in Lines : NewLine(n, "bare", k)
      BY <1>6, ReadFacts DEF ForgetBare
    <2> QED BY <1>3, <1>6, <2>1 DEF ForgetBare
  <1>7. ASSUME NEW k \in Keys, NEW d \in {"request", "bare"}, ReleaseHeld(d, k)
        PROVE  /\ paired' = Cardinality(PairedLines')
               /\ paired' + unpaired' + Waits' = Cardinality(ResponsesRead')
    <2>1. PICK n \in Lines : NewLine(n, d, k)
      BY <1>7, ReadFacts DEF ReleaseHeld
    <2>2. PICK c \in Lines : c = responses[k]
      BY <1>0, <1>7 DEF ReleaseHeld, Lines
    <2>3. /\ paired' = paired + 1 /\ unpaired' = unpaired /\ responses[k] > 0
          /\ responses' = [responses EXCEPT ![k] = 0] /\ partner' = [partner EXCEPT ![c] = n]
      BY <1>7, <2>1, <2>2 DEF ReleaseHeld, NewLine
    <2>4. Cardinality(PairedLines') = Cardinality(PairedLines) + 1
      <3>1. partner[c] = 0
        BY <2>2, <2>3 DEF Core, Entries
      <3>2. partner'[c] > 0 /\ \A l \in Lines \ {c} : partner'[l] = partner[l]
        BY <1>0, <2>3 DEF Lines
      <3> QED BY <3>1, <3>2, OneEnriched
    <2>5. Waits' = Waits - 1
      <3>1. k \in Pending(responses) /\ Pending(responses') = Pending(responses) \ {k}
        BY <1>0, <2>3 DEF Pending
      <3>2. Cardinality(Pending(responses) \ {k}) = Cardinality(Pending(responses)) - 1
        BY <3>1, PendingFinite, FS_RemoveElement
      <3> QED BY <3>1, <3>2 DEF Waits, Pending
    <2>6. Cardinality(ResponsesRead') = Cardinality(ResponsesRead)
      BY <2>1, ResponseRead
    <2> QED BY <1>0, <1>1, <2>3, <2>4, <2>5, <2>6
  <1>8. ASSUME NEW k \in Keys, PairResponse(k)
        PROVE  /\ paired' = Cardinality(PairedLines')
               /\ paired' + unpaired' + Waits' = Cardinality(ResponsesRead')
    <2>1. PICK n \in Lines : NewLine(n, "response", k)
      BY <1>8, ReadFacts DEF PairResponse
    <2>2. /\ paired' = paired + 1 /\ UNCHANGED <<unpaired, responses>> /\ requests[k] > 0
          /\ partner' = [partner EXCEPT ![n] = requests[k]]
      BY <1>8, <2>1 DEF PairResponse, NewLine
    <2>3. Cardinality(PairedLines') = Cardinality(PairedLines) + 1
      <3>1. partner[n] = 0
        BY <2>1 DEF NewLine
      <3>2. partner'[n] > 0 /\ \A l \in Lines \ {n} : partner'[l] = partner[l]
        BY <1>0, <2>2
      <3> QED BY <3>1, <3>2, OneEnriched
    <2>4. Waits' = Waits
      BY <2>2 DEF Waits, Pending
    <2>5. Cardinality(ResponsesRead') = Cardinality(ResponsesRead) + 1
      BY <2>1, ResponseRead
    <2> QED BY <1>0, <1>1, <2>2, <2>3, <2>4, <2>5
  <1>9. ASSUME NEW k \in Keys, HoldResponse(k)
        PROVE  /\ paired' = Cardinality(PairedLines')
               /\ paired' + unpaired' + Waits' = Cardinality(ResponsesRead')
    <2>1. PICK n \in Lines : NewLine(n, "response", k)
      BY <1>9, ReadFacts DEF HoldResponse
    <2>2. /\ UNCHANGED <<partner, paired, unpaired>> /\ responses[k] = 0
          /\ responses' = [responses EXCEPT ![k] = n] /\ n > 0
      BY <1>9, <2>1 DEF HoldResponse, NewLine
    <2>3. Waits' = Waits + 1
      <3>1. k \notin Pending(responses) /\ Pending(responses') = Pending(responses) \cup {k}
        BY <1>0, <2>2 DEF Pending
      <3>2. Cardinality(Pending(responses) \cup {k}) = Cardinality(Pending(responses)) + 1
        BY <3>1, PendingFinite, FS_AddElement
      <3> QED BY <3>1, <3>2 DEF Waits, Pending
    <2>4. Cardinality(ResponsesRead') = Cardinality(ResponsesRead) + 1
      BY <2>1, ResponseRead
    <2>5. PairedLines' = PairedLines
      BY <2>2 DEF PairedLines
    <2> QED BY <1>0, <1>1, <2>2, <2>3, <2>4, <2>5
  <1>10. ASSUME NEW k \in Keys, DisplaceDuplicate(k)
         PROVE  /\ paired' = Cardinality(PairedLines')
                /\ paired' + unpaired' + Waits' = Cardinality(ResponsesRead')
    <2>1. PICK n \in Lines : NewLine(n, "response", k)
      BY <1>10, ReadFacts DEF DisplaceDuplicate
    <2>2. /\ UNCHANGED <<partner, paired>> /\ unpaired' = unpaired + 1 /\ responses[k] > 0
          /\ responses' = [responses EXCEPT ![k] = n] /\ n > 0
      BY <1>10, <2>1 DEF DisplaceDuplicate, NewLine
    <2>3. Waits' = Waits
      <3>1. Pending(responses') = Pending(responses)
        BY <1>0, <2>2 DEF Pending
      <3> QED BY <3>1 DEF Waits, Pending
    <2>4. Cardinality(ResponsesRead') = Cardinality(ResponsesRead) + 1
      BY <2>1, ResponseRead
    <2>5. PairedLines' = PairedLines
      BY <2>2 DEF PairedLines
    <2> QED BY <1>0, <1>1, <2>2, <2>3, <2>4, <2>5
  <1>11. ASSUME NEW k \in Keys, NEW old \in Keys, EvictResponse(k, old)
         PROVE  /\ paired' = Cardinality(PairedLines')
                /\ paired' + unpaired' + Waits' = Cardinality(ResponsesRead')
    <2>1. PICK n \in Lines : NewLine(n, "response", k)
      BY <1>11, ReadFacts DEF EvictResponse
    <2>2. /\ UNCHANGED <<partner, paired>> /\ unpaired' = unpaired + 1 /\ responses[k] = 0
          /\ responses' = [responses EXCEPT ![old] = 0, ![k] = n] /\ n > 0 /\ old \in Pending(responses)
      BY <1>11, <2>1 DEF EvictResponse, IsOldest, NewLine
    <2>3. Waits' = Waits
      <3> DEFINE R == Pending(responses) \ {old}
      <3>1. k \notin R /\ Pending(responses') = R \cup {k}
        BY <1>0, <2>2 DEF Pending
      <3>2. IsFiniteSet(R) /\ Cardinality(R) = Cardinality(Pending(responses)) - 1
        BY <2>2, PendingFinite, FS_RemoveElement
      <3> HIDE DEF R
      <3>3. Cardinality(R \cup {k}) = Cardinality(R) + 1
        BY <3>1, <3>2, FS_AddElement
      <3>4. Cardinality(R \cup {k}) = Waits
        BY <1>0, <3>2, <3>3 DEF Waits
      <3> QED BY <3>1, <3>4 DEF Waits, Pending
    <2>4. Cardinality(ResponsesRead') = Cardinality(ResponsesRead) + 1
      BY <2>1, ResponseRead
    <2>5. PairedLines' = PairedLines
      BY <2>2 DEF PairedLines
    <2> QED BY <1>0, <1>1, <2>2, <2>3, <2>4, <2>5
  <1>12. CASE Flush
    <2>1. /\ UNCHANGED <<read, dir, partner, paired>> /\ unpaired' = unpaired + Waits
          /\ \A k \in Keys : responses'[k] = 0
      BY <1>12 DEF Flush, inputVars, Waits
    <2>2. Waits' = 0
      <3>1. Pending(responses') = {}
        BY <2>1 DEF Pending
      <3> QED BY <3>1, FS_EmptySet DEF Waits, Pending
    <2>3. PairedLines' = PairedLines /\ ResponsesRead' = ResponsesRead
      BY <2>1 DEF PairedLines, ResponsesRead, ReadLines, IsResponse
    <2> QED BY <1>0, <1>1, <2>1, <2>2, <2>3
  <1>13. CASE UNCHANGED vars
    <2>1. PairedLines' = PairedLines /\ ResponsesRead' = ResponsesRead /\ Waits' = Waits
      BY <1>13 DEF vars, inputVars, PairedLines, ResponsesRead, ReadLines, IsResponse, Waits, Pending
    <2> QED BY <1>1, <1>13, <2>1 DEF vars
  <1> QED BY <1>4, <1>5, <1>6, <1>7, <1>8, <1>9, <1>10, <1>11, <1>12, <1>13 DEF Next

\* The counters the handler logs account for every response: StatsAddUp, for
\* objects of any length and any cap.
THEOREM CountersAddUp == Spec => []StatsAddUp
  <1>1. Init => StatsAddUp
    <2> SUFFICES ASSUME Init PROVE StatsAddUp
      OBVIOUS
    <2>1. PairedLines = {} /\ ResponsesRead = {} /\ Pending(responses) = {}
      BY DEF Init, PairedLines, ResponsesRead, ReadLines, Pending
    <2> QED BY <2>1, FS_EmptySet DEF Init, StatsAddUp, PairedLines, ResponsesRead
  <1> QED BY <1>1, StatsStep, InvAlways, PTL DEF Spec

-----------------------------------------------------------------------------
(* Ranked.                                                                 *)

\* R orders all of S.
StrictOrder(S, R) ==
  /\ \A x \in S : <<x, x>> \notin R
  /\ \A x, y, z \in S : <<x, y>> \in R /\ <<y, z>> \in R => <<x, z>> \in R
  /\ \A x, y \in S : x # y => <<x, y>> \in R \/ <<y, x>> \in R

Below(S, R, x) == {y \in S : <<y, x>> \in R}

\* What is later in the order has more before it.
LEMMA BelowGrows ==
  ASSUME NEW S, NEW R, IsFiniteSet(S), StrictOrder(S, R),
         NEW x \in S, NEW y \in S, <<x, y>> \in R
  PROVE  /\ Cardinality(Below(S, R, x)) \in Nat
         /\ Cardinality(Below(S, R, y)) \in Nat
         /\ Cardinality(Below(S, R, x)) < Cardinality(Below(S, R, y))
  <1>1. Below(S, R, x) \subseteq Below(S, R, y)
    BY DEF Below, StrictOrder
  <1>2. x \in Below(S, R, y) /\ x \notin Below(S, R, x)
    BY DEF Below, StrictOrder
  <1>3. IsFiniteSet(Below(S, R, x)) /\ IsFiniteSet(Below(S, R, y))
    <2>1. Below(S, R, x) \in SUBSET S /\ Below(S, R, y) \in SUBSET S
      BY DEF Below
    <2> QED  BY <2>1, FS_Subset
  <1>4. Cardinality(Below(S, R, x)) \in Nat /\ Cardinality(Below(S, R, y)) \in Nat
    BY <1>3, FS_CardinalityType
  <1>5. Cardinality(Below(S, R, x)) <= Cardinality(Below(S, R, y))
    BY <1>1, <1>3, FS_Subset
  <1>6. Cardinality(Below(S, R, x)) # Cardinality(Below(S, R, y))
    BY <1>1, <1>2, <1>3, FS_Subset
  <1> QED  BY <1>4, <1>5, <1>6

\* seq holds every member of S exactly once, in the order R.
Lists(seq, S, R) ==
  /\ Cardinality(S) \in Nat /\ DOMAIN seq = 1 .. Cardinality(S)
  /\ \A n \in DOMAIN seq : seq[n] \in S
  /\ \A x \in S : \E n \in DOMAIN seq : seq[n] = x
  /\ \A m, n \in DOMAIN seq : m < n => <<seq[m], seq[n]>> \in R

\* Ranked puts a finite set in order.
LEMMA RankedLists ==
  ASSUME NEW S, NEW R, IsFiniteSet(S), StrictOrder(S, R)
  PROVE  Lists(Ranked(S, R), S, R)
  <1> DEFINE N == Cardinality(S)
             rank == [x \in S |-> Cardinality(Below(S, R, x)) + 1]
             seq == Ranked(S, R)
  <1>1. N \in Nat
    BY FS_CardinalityType
  <1>2. ASSUME NEW x \in S PROVE Cardinality(Below(S, R, x)) \in 0 .. N - 1
    <2>1. Below(S, R, x) \in SUBSET S
      BY DEF Below
    <2>2. x \notin Below(S, R, x)
      BY DEF Below, StrictOrder
    <2>3. IsFiniteSet(Below(S, R, x)) /\ Cardinality(Below(S, R, x)) <= N
      BY <2>1, FS_Subset
    <2>4. Cardinality(Below(S, R, x)) \in Nat
      BY <2>3, FS_CardinalityType
    <2>5. Cardinality(Below(S, R, x)) # N
      BY <2>1, <2>2, FS_Subset
    <2> QED  BY <2>3, <2>4, <2>5, <1>1
  <1>3. rank \in [S -> 1 .. N]
    <2>1. ASSUME NEW x \in S PROVE Cardinality(Below(S, R, x)) + 1 \in 1 .. N
      BY <1>1, <1>2
    <2> QED  BY <2>1
  <1>4. ASSUME NEW x \in S, NEW y \in S, <<x, y>> \in R PROVE rank[x] < rank[y]
    <2>1. /\ Cardinality(Below(S, R, x)) \in Nat
          /\ Cardinality(Below(S, R, y)) \in Nat
          /\ Cardinality(Below(S, R, x)) < Cardinality(Below(S, R, y))
      BY <1>4, BelowGrows
    <2> QED  BY <2>1
  <1>5. ASSUME NEW x \in S, NEW y \in S, x # y PROVE rank[x] # rank[y]
    <2>1. rank[x] \in 1 .. N /\ rank[y] \in 1 .. N
      BY <1>3
    <2>2. rank[x] < rank[y] \/ rank[y] < rank[x]
      BY <1>4, <1>5 DEF StrictOrder
    <2> QED  BY <2>1, <2>2, <1>1
  <1>6. \A n \in 1 .. N : \E x \in S : rank[x] = n
    <2>1. rank \in Injection(S, 1 .. N)
      BY <1>3, <1>5 DEF Injection, IsInjective
    <2>2. IsFiniteSet(1 .. N) /\ Cardinality(1 .. N) = N
      <3>1. 1 \in Int /\ N \in Int /\ (IF 1 > N THEN 0 ELSE N - 1 + 1) = N
        BY <1>1
      <3> QED  BY <3>1, FS_Interval
    <2>3. rank \in Surjection(S, 1 .. N)
      <3> HIDE DEF rank
      <3> QED  BY <2>1, <2>2, FS_Injection
    <2> QED  BY <2>3 DEF Surjection
  <1>7. ASSUME NEW n \in 1 .. N PROVE seq[n] \in S /\ rank[seq[n]] = n
    <2>1. PICK x \in S : rank[x] = n
      BY <1>6
    <2>2. Cardinality(Below(S, R, x)) = n - 1
      BY <2>1, <1>2, <1>1
    <2>3. seq[n] = CHOOSE y \in S : Cardinality(Below(S, R, y)) = n - 1
      BY DEF Ranked, Below
    <2>4. seq[n] \in S /\ Cardinality(Below(S, R, seq[n])) = n - 1
      <3> HIDE DEF seq
      <3> QED  BY <2>2, <2>3
    <2> QED  BY <2>4, <1>1
  <1>8. ASSUME NEW x \in S PROVE \E n \in 1 .. N : seq[n] = x
    <2>1. rank[x] \in 1 .. N
      BY <1>3
    <2>2. seq[rank[x]] \in S /\ rank[seq[rank[x]]] = rank[x]
      BY <2>1, <1>7
    <2> HIDE DEF seq, rank
    <2>3. seq[rank[x]] = x
      BY <2>2, <1>5
    <2> QED  BY <2>1, <2>3
  <1>9. ASSUME NEW m \in 1 .. N, NEW n \in 1 .. N, m < n PROVE <<seq[m], seq[n]>> \in R
    <2>1. /\ seq[m] \in S /\ rank[seq[m]] = m
          /\ seq[n] \in S /\ rank[seq[n]] = n
      BY <1>7
    <2> HIDE DEF seq, rank
    <2>2. seq[m] # seq[n]
      BY <2>1, <1>9, <1>1
    <2>3. <<seq[m], seq[n]>> \in R \/ <<seq[n], seq[m]>> \in R
      BY <2>1, <2>2 DEF StrictOrder
    <2>4. CASE <<seq[n], seq[m]>> \in R
      <3>1. n < m
        BY <2>1, <2>4, <1>4
      <3> QED  BY <3>1, <1>9, <1>1
    <2> QED  BY <2>3, <2>4
  <1>10. DOMAIN seq = 1 .. N
    BY DEF Ranked
  <1> QED  BY <1>1, <1>7, <1>8, <1>9, <1>10 DEF Lists

\* The natural numbers have no other subset that holds 0 and every successor.
LEMMA NatSetInduction ==
  ASSUME NEW T, 0 \in T, \A n \in Nat : n \in T => n + 1 \in T
  PROVE  Nat \subseteq T
  <1> DEFINE U == {n \in Nat : n \notin T}
  <1>1. SUFFICES ASSUME U # {} PROVE FALSE
    OBVIOUS
  <1>2. PICK x \in U : \A y \in U : ~ (<<y, x>> \in OpToRel(<, Nat))
    <2>1. U \subseteq Nat
      OBVIOUS
    <2> HIDE DEF U
    <2> QED  BY <1>1, <2>1, NatLessThanWellFounded, WFMin, Zenon
  <1>3. x \in Nat /\ x # 0 /\ x - 1 \in Nat
    OBVIOUS
  <1>4. x - 1 \notin T
    <2>1. x - 1 + 1 = x
      BY <1>3
    <2> QED BY <1>3, <2>1
  <1>5. x - 1 \in U
    BY <1>3, <1>4
  <1>6. <<x - 1, x>> \in OpToRel(<, Nat)
    BY <1>3 DEF OpToRel
  <1> QED  BY <1>2, <1>5, <1>6

-----------------------------------------------------------------------------
(* TotalSize.                                                              *)

\* up adds up the sizes of the first entries of es, as TotalSize does.
SumsUp(up, es, len) ==
  up = [n \in 0 .. len |-> IF n = 0 THEN 0 ELSE up[n - 1] + es[n].size]

\* Such sums exist up to every length ...
LEMMA SumsExist == ASSUME NEW es, NEW len \in Nat PROVE \E up : SumsUp(up, es, len)
  <1> DEFINE T == {n \in Nat : \E up : SumsUp(up, es, n)}
  <1>1. 0 \in T
    <2>1. SumsUp([n \in 0 .. 0 |-> 0], es, 0)
      BY DEF SumsUp
    <2> QED BY <2>1
  <1>2. ASSUME NEW n \in Nat, n \in T PROVE n + 1 \in T
    <2>1. PICK up : SumsUp(up, es, n)
      BY <1>2
    <2> DEFINE more == [m \in 0 .. n + 1 |-> IF m = n + 1 THEN up[n] + es[n + 1].size ELSE up[m]]
    <2>2. ASSUME NEW m \in 0 .. n + 1
          PROVE  more[m] = IF m = 0 THEN 0 ELSE more[m - 1] + es[m].size
      <3>1. CASE m = n + 1
        <4>1. more[m] = up[n] + es[n + 1].size
          BY <3>1
        <4>2. n \in 0 .. n + 1 /\ n # n + 1 /\ m - 1 = n /\ m # 0
          BY <3>1
        <4>3. more[n] = up[n]
          BY <4>2
        <4> QED BY <3>1, <4>1, <4>2, <4>3
      <3>2. CASE m \in 0 .. n /\ m # 0
        <4>1. up[m] = up[m - 1] + es[m].size
          BY <2>1, <3>2 DEF SumsUp
        <4>2. m - 1 \in 0 .. n + 1 /\ m - 1 # n + 1 /\ m # n + 1
          BY <3>2
        <4>3. more[m] = up[m] /\ more[m - 1] = up[m - 1]
          BY <4>2
        <4> HIDE DEF more
        <4> QED BY <3>2, <4>1, <4>3
      <3>3. CASE m = 0
        <4>1. m # n + 1 /\ 0 \in 0 .. n
          BY <3>3
        <4>2. up[0] = 0
          BY <2>1, <4>1 DEF SumsUp
        <4> QED BY <3>3, <4>1, <4>2
      <3> QED BY <3>1, <3>2, <3>3
    <2>3. SumsUp(more, es, n + 1)
      <3>1. more = [m \in 0 .. n + 1 |-> more[m]]
        OBVIOUS
      <3> HIDE DEF more
      <3> QED BY <2>2, <3>1 DEF SumsUp
    <2> QED BY <2>3
  <1>3. Nat \subseteq T
    <2> HIDE DEF T
    <2> QED BY <1>1, <1>2, NatSetInduction
  <1> QED BY <1>3

\* ... so TotalSize is the last of them.
LEMMA TotalSizeSums ==
  ASSUME NEW es, Len(es) \in Nat
  PROVE  \E up : SumsUp(up, es, Len(es)) /\ TotalSize(es) = up[Len(es)]
  <1> DEFINE sum == CHOOSE up : SumsUp(up, es, Len(es))
  <1>1. SumsUp(sum, es, Len(es))
    BY SumsExist
  <1>2. TotalSize(es) = sum[Len(es)]
    BY DEF TotalSize, SumsUp
  <1> QED BY <1>1, <1>2

\* The sums depend on the entries they add up only.
LEMMA SumsAgree ==
  ASSUME NEW es, NEW fs, NEW m \in Nat, NEW n \in Nat, NEW a, NEW b,
         SumsUp(a, es, m), SumsUp(b, fs, n),
         NEW len \in Nat, len <= m, len <= n, \A i \in 1 .. len : es[i] = fs[i]
  PROVE  a[len] = b[len]
  <1> DEFINE T == {k \in Nat : k <= len => a[k] = b[k]}
  <1>1. 0 \in T
    <2>1. a[0] = 0 /\ b[0] = 0
      BY DEF SumsUp
    <2> QED BY <2>1
  <1>2. ASSUME NEW k \in Nat, k \in T PROVE k + 1 \in T
    <2>1. SUFFICES ASSUME k + 1 <= len PROVE a[k + 1] = b[k + 1]
      OBVIOUS
    <2>2. a[k] = b[k]
      BY <1>2, <2>1
    <2>3. k + 1 \in 0 .. m /\ k + 1 \in 0 .. n /\ k + 1 # 0 /\ (k + 1) - 1 = k
      BY <2>1
    <2>4. a[k + 1] = a[k] + es[k + 1].size /\ b[k + 1] = b[k] + fs[k + 1].size
      BY <2>3 DEF SumsUp
    <2>5. es[k + 1] = fs[k + 1]
      BY <2>1
    <2> QED BY <2>2, <2>4, <2>5
  <1>3. Nat \subseteq T
    <2> HIDE DEF T
    <2> QED BY <1>1, <1>2, NatSetInduction
  <1> QED BY <1>3

\* Sums of sizes are sizes.
LEMMA SumsAreNat ==
  ASSUME NEW es, NEW n \in Nat, NEW up, SumsUp(up, es, n),
         \A i \in 1 .. n : es[i].size \in Nat
  PROVE  up[n] \in Nat
  <1> DEFINE T == {k \in Nat : k <= n => up[k] \in Nat}
  <1>1. 0 \in T
    BY DEF SumsUp
  <1>2. ASSUME NEW k \in Nat, k \in T PROVE k + 1 \in T
    <2>1. SUFFICES ASSUME k + 1 <= n PROVE up[k + 1] \in Nat
      OBVIOUS
    <2>2. up[k] \in Nat
      BY <1>2, <2>1
    <2>3. k + 1 \in 0 .. n /\ k + 1 # 0 /\ (k + 1) - 1 = k
      BY <2>1
    <2>4. up[k + 1] = up[k] + es[k + 1].size
      BY <2>3 DEF SumsUp
    <2>5. es[k + 1].size \in Nat
      BY <2>1
    <2> QED BY <2>2, <2>4, <2>5
  <1>3. Nat \subseteq T
    <2> HIDE DEF T
    <2> QED BY <1>1, <1>2, NatSetInduction
  <1> QED BY <1>3

\* A sequence, whatever it holds.
IsSeq(s) == \E S : s \in Seq(S)

LEMMA AppendSeq ==
  ASSUME NEW s, IsSeq(s), NEW e
  PROVE  /\ IsSeq(Append(s, e)) /\ Len(s) \in Nat
         /\ Len(Append(s, e)) = Len(s) + 1
         /\ DOMAIN s = 1 .. Len(s) /\ DOMAIN Append(s, e) = 1 .. Len(s) + 1
         /\ \A i \in 1 .. Len(s) : Append(s, e)[i] = s[i]
         /\ Append(s, e)[Len(s) + 1] = e
  <1>1. PICK S : s \in Seq(S)
    BY DEF IsSeq
  <1>2. s \in Seq(S \cup {e})
    BY <1>1
  <1> QED BY <1>2 DEF IsSeq

Sized(es) == \A i \in 1 .. Len(es) : es[i].size \in Nat

\* What one more entry adds, and that equal runs weigh the same.
LEMMA TotalSizeAppend ==
  ASSUME NEW es, IsSeq(es), Sized(es), NEW e, e.size \in Nat
  PROVE  /\ TotalSize(es) \in Nat
         /\ TotalSize(Append(es, e)) = TotalSize(es) + e.size
         /\ Sized(Append(es, e))
  <1>1. /\ Len(es) \in Nat /\ Len(Append(es, e)) = Len(es) + 1
        /\ \A i \in 1 .. Len(es) : Append(es, e)[i] = es[i]
        /\ Append(es, e)[Len(es) + 1] = e
    BY AppendSeq
  <1> DEFINE len == Len(es)
             fs == Append(es, e)
  <1>2. PICK a : SumsUp(a, es, len) /\ TotalSize(es) = a[len]
    BY <1>1, TotalSizeSums
  <1>3. PICK b : SumsUp(b, fs, len + 1) /\ TotalSize(fs) = b[len + 1]
    <2>1. len + 1 \in Nat
      BY <1>1
    <2> QED BY <1>1, <2>1, TotalSizeSums
  <1> HIDE DEF len, fs
  <1>4. len \in Nat /\ (\A i \in 1 .. len : fs[i] = es[i]) /\ fs[len + 1] = e
    BY <1>1 DEF len, fs
  <1>5. a[len] = b[len]
    <2>1. len + 1 \in Nat /\ len <= len /\ len <= len + 1
      BY <1>4
    <2> QED BY <1>2, <1>3, <1>4, <2>1, SumsAgree
  <1>6. b[len + 1] = b[len] + e.size
    <2>1. len + 1 \in 0 .. len + 1 /\ len + 1 # 0 /\ (len + 1) - 1 = len
      BY <1>4
    <2> QED BY <1>3, <1>4, <2>1 DEF SumsUp
  <1>7. a[len] \in Nat
    <2>1. \A i \in 1 .. len : es[i].size \in Nat
      BY DEF Sized, len
    <2> QED BY <1>2, <1>4, <2>1, SumsAreNat
  <1>8. Sized(fs)
    <2>1. Len(fs) = len + 1
      BY <1>1 DEF len, fs
    <2>2. ASSUME NEW i \in 1 .. len + 1 PROVE fs[i].size \in Nat
      <3>1. i \in 1 .. len \/ i = len + 1
        BY <1>4
      <3> QED BY <1>4, <3>1 DEF Sized, len
    <2> QED BY <2>1, <2>2 DEF Sized
  <1>9. TotalSize(es) = a[len] /\ TotalSize(fs) = b[len + 1]
    BY <1>2, <1>3
  <1> QED BY <1>5, <1>6, <1>7, <1>8, <1>9 DEF fs

LEMMA TotalSizeEmpty == TotalSize(<<>>) = 0
  <1>1. Len(<<>>) = 0
    OBVIOUS
  <1>2. PICK up : SumsUp(up, <<>>, 0) /\ TotalSize(<<>>) = up[0]
    BY <1>1, TotalSizeSums
  <1> QED BY <1>2 DEF SumsUp

-----------------------------------------------------------------------------
(* GroupBy, Sorted and BuildPayload.                                       *)

\* The indices in S, ascending.
LEMMA AscendingLists ==
  ASSUME NEW N \in Nat, NEW S, S \subseteq 1 .. N
  PROVE  /\ Cardinality(S) \in Nat /\ DOMAIN Ascending(S) = 1 .. Cardinality(S)
         /\ \A n \in DOMAIN Ascending(S) : Ascending(S)[n] \in S
         /\ \A x \in S : \E n \in DOMAIN Ascending(S) : Ascending(S)[n] = x
         /\ \A m, n \in DOMAIN Ascending(S) : m < n => Ascending(S)[m] < Ascending(S)[n]
  <1> DEFINE R == {p \in S \X S : p[1] < p[2]}
  <1>1. IsFiniteSet(S)
    <2>1. IsFiniteSet(1 .. N)
      BY FS_Interval
    <2> QED BY <2>1, FS_Subset
  <1>2. StrictOrder(S, R)
    <2>1. \A x, y \in S : <<x, y>> \in R <=> x < y
      OBVIOUS
    <2>2. \A x \in S : x \in Int
      OBVIOUS
    <2> HIDE DEF R
    <2> QED BY <2>1, <2>2 DEF StrictOrder
  <1>3. Lists(Ranked(S, R), S, R)
    <2> HIDE DEF R
    <2> QED BY <1>1, <1>2, RankedLists
  <1>4. Ascending(S) = Ranked(S, R)
    BY DEF Ascending
  <1>5. Lists(Ascending(S), S, R)
    BY <1>3, <1>4
  <1>6. \A x, y : <<x, y>> \in R => x < y
    OBVIOUS
  <1> HIDE DEF R
  <1> QED BY <1>5, <1>6 DEF Lists

\* A non-empty set of indices has a least one, which Ascending puts first.
LEMMA AscendingLeast ==
  ASSUME NEW N \in Nat, NEW S, S \subseteq 1 .. N, NEW x \in S
  PROVE  \E least \in S : \A y \in S : least <= y
  <1> DEFINE a == Ascending(S)
  <1>1. /\ Cardinality(S) \in Nat /\ DOMAIN a = 1 .. Cardinality(S)
        /\ \A n \in DOMAIN a : a[n] \in S
        /\ \A y \in S : \E n \in DOMAIN a : a[n] = y
        /\ \A m, n \in DOMAIN a : m < n => a[m] < a[n]
    BY AscendingLists
  <1> HIDE DEF a
  <1>2. 1 \in DOMAIN a
    BY <1>1
  <1>3. ASSUME NEW y \in S PROVE a[1] <= y
    <2>1. PICK n \in DOMAIN a : a[n] = y
      BY <1>1
    <2>2. n = 1 \/ 1 < n
      BY <1>1, <2>1
    <2>3. a[1] \in Int /\ y \in Int
      <3>1. a[1] \in S /\ \A z \in S : z \in Int
        BY <1>1, <1>2
      <3> QED BY <3>1
    <2>4. CASE n = 1
      BY <2>1, <2>3, <2>4
    <2>5. CASE 1 < n
      BY <1>1, <1>2, <2>1, <2>3, <2>5
    <2> QED BY <2>2, <2>4, <2>5
  <1> QED BY <1>1, <1>2, <1>3

\* Ascending indices are distinct.
LEMMA AscendingDiffer ==
  ASSUME NEW at, NEW K \in Nat, DOMAIN at = 1 .. K, \A m \in DOMAIN at : at[m] \in Int,
         \A l, m \in DOMAIN at : l < m => at[l] < at[m],
         NEW l \in DOMAIN at, NEW m \in DOMAIN at
  PROVE  /\ at[l] = at[m] => l = m
         /\ at[l] <= at[m] => l <= m
  <1>1. l < m \/ m < l \/ l = m
    OBVIOUS
  <1>2. at[l] \in Int /\ at[m] \in Int
    OBVIOUS
  <1>3. CASE l < m
    <2>1. at[l] < at[m]
      BY <1>3
    <2> QED BY <1>2, <1>3, <2>1
  <1>4. CASE m < l
    <2>1. at[m] < at[l]
      BY <1>4
    <2> QED BY <1>2, <1>4, <2>1
  <1> QED BY <1>1, <1>3, <1>4

\* g groups s[1], ..., s[N] by their keys: at[n] are the indices of group n.
Groups(g, at, s, keys, N) ==
  /\ \E G \in Nat : DOMAIN g = 1 .. G /\ DOMAIN at = 1 .. G
  /\ \A n \in DOMAIN g :
       /\ \E K \in Nat \ {0} : DOMAIN at[n] = 1 .. K
       /\ g[n].members = [m \in DOMAIN at[n] |-> s[at[n][m]]]
       /\ \A m \in DOMAIN at[n] : at[n][m] \in 1 .. N /\ keys[at[n][m]] = g[n].key
       /\ \A l, m \in DOMAIN at[n] : l < m => at[n][l] < at[n][m]
  /\ \A l, n \in DOMAIN g : l # n => g[l].key # g[n].key
  /\ \A i \in 1 .. N : \E n \in DOMAIN g : \E m \in DOMAIN at[n] : at[n][m] = i

LEMMA GroupByGroups ==
  ASSUME NEW N \in Nat, NEW s, DOMAIN s = 1 .. N, NEW keys
  PROVE  \E at : Groups(GroupBy(s, keys), at, s, keys, N)
  <1> DEFINE H == {i \in DOMAIN s : \A j \in 1 .. i - 1 : keys[j] # keys[i]}
             heads == Ascending(H)
             g == GroupBy(s, keys)
             Of(k) == {i \in DOMAIN s : keys[i] = k}
             at == [n \in DOMAIN heads |-> Ascending(Of(keys[heads[n]]))]
  <1>1. H \subseteq 1 .. N /\ \A k : Of(k) \subseteq 1 .. N
    OBVIOUS
  <1>2. /\ Cardinality(H) \in Nat /\ DOMAIN heads = 1 .. Cardinality(H)
        /\ \A n \in DOMAIN heads : heads[n] \in H
        /\ \A x \in H : \E n \in DOMAIN heads : heads[n] = x
        /\ \A m, n \in DOMAIN heads : m < n => heads[m] < heads[n]
    <2> HIDE DEF H
    <2> QED BY <1>1, AscendingLists
  <1>3. DOMAIN g = DOMAIN heads /\ DOMAIN at = DOMAIN heads
    BY DEF GroupBy
  <1>4. ASSUME NEW n \in DOMAIN heads
        PROVE  /\ g[n].key = keys[heads[n]]
               /\ g[n].members = [m \in DOMAIN at[n] |-> s[at[n][m]]]
               /\ at[n] = Ascending(Of(g[n].key))
    BY DEF GroupBy
  <1>5. ASSUME NEW k
        PROVE  /\ Cardinality(Of(k)) \in Nat /\ DOMAIN Ascending(Of(k)) = 1 .. Cardinality(Of(k))
               /\ \A m \in DOMAIN Ascending(Of(k)) : Ascending(Of(k))[m] \in Of(k)
               /\ \A x \in Of(k) : \E m \in DOMAIN Ascending(Of(k)) : Ascending(Of(k))[m] = x
               /\ \A l, m \in DOMAIN Ascending(Of(k)) :
                    l < m => Ascending(Of(k))[l] < Ascending(Of(k))[m]
    <2>1. Of(k) \subseteq 1 .. N
      BY <1>1
    <2> HIDE DEF Of
    <2> QED BY <2>1, AscendingLists
  <1>6. \A k : \A i : i \in Of(k) <=> i \in 1 .. N /\ keys[i] = k
    OBVIOUS
  <1>7. \A i : i \in H <=> i \in 1 .. N /\ \A j \in 1 .. i - 1 : keys[j] # keys[i]
    OBVIOUS
  <1> HIDE DEF H, heads, g, Of, at
  <1>8. ASSUME NEW n \in DOMAIN g
        PROVE  /\ \E K \in Nat \ {0} : DOMAIN at[n] = 1 .. K
               /\ g[n].members = [m \in DOMAIN at[n] |-> s[at[n][m]]]
               /\ \A m \in DOMAIN at[n] : at[n][m] \in 1 .. N /\ keys[at[n][m]] = g[n].key
               /\ \A l, m \in DOMAIN at[n] : l < m => at[n][l] < at[n][m]
    <2> DEFINE k == g[n].key
    <2>1. at[n] = Ascending(Of(k))
      BY <1>3, <1>4
    <2>2. heads[n] \in Of(k)
      BY <1>2, <1>3, <1>4, <1>6, <1>7
    <2>3. Cardinality(Of(k)) # 0
      BY <1>5, <2>2
    <2>4. DOMAIN at[n] = 1 .. Cardinality(Of(k)) /\ Cardinality(Of(k)) \in Nat \ {0}
      BY <1>5, <2>1, <2>3
    <2>5. \A m \in DOMAIN at[n] : at[n][m] \in Of(k)
      BY <1>5, <2>1
    <2>6. \A l, m \in DOMAIN at[n] : l < m => at[n][l] < at[n][m]
      BY <1>5, <2>1
    <2> QED BY <1>3, <1>4, <1>6, <2>4, <2>5, <2>6
  <1>9. ASSUME NEW l \in DOMAIN g, NEW n \in DOMAIN g, l # n PROVE g[l].key # g[n].key
    <2>1. /\ g[l].key = keys[heads[l]] /\ g[n].key = keys[heads[n]]
          /\ heads[l] \in H /\ heads[n] \in H
      BY <1>2, <1>3, <1>4
    <2>2. heads[l] < heads[n] \/ heads[n] < heads[l]
      BY <1>2, <1>3, <1>9
    <2>3. heads[l] \in 1 .. N /\ heads[n] \in 1 .. N
      BY <1>7, <2>1
    <2>4. CASE heads[l] < heads[n]
      <3>1. heads[l] \in 1 .. heads[n] - 1
        BY <2>3, <2>4
      <3> QED BY <1>7, <2>1, <3>1
    <2>5. CASE heads[n] < heads[l]
      <3>1. heads[n] \in 1 .. heads[l] - 1
        BY <2>3, <2>5
      <3> QED BY <1>7, <2>1, <3>1
    <2> QED BY <2>2, <2>4, <2>5
  <1>10. ASSUME NEW i \in 1 .. N
         PROVE  \E n \in DOMAIN g : \E m \in DOMAIN at[n] : at[n][m] = i
    <2>1. i \in Of(keys[i])
      BY <1>6
    <2>2. PICK first \in Of(keys[i]) : \A y \in Of(keys[i]) : first <= y
      BY <1>1, <2>1, AscendingLeast DEF Of
    <2>3. first \in 1 .. N /\ keys[first] = keys[i]
      BY <1>6, <2>2
    <2>4. \A j \in 1 .. first - 1 : keys[j] # keys[first]
      <3>1. SUFFICES ASSUME NEW j \in 1 .. first - 1, keys[j] = keys[first] PROVE FALSE
        OBVIOUS
      <3>2. j \in 1 .. N /\ j < first
        BY <2>3
      <3>3. j \in Of(keys[i])
        BY <1>6, <2>3, <3>1, <3>2
      <3> QED BY <2>2, <2>3, <3>2, <3>3
    <2>5. PICK n \in DOMAIN heads : heads[n] = first
      BY <1>2, <1>7, <2>3, <2>4
    <2>6. g[n].key = keys[i]
      BY <1>4, <2>3, <2>5
    <2>7. at[n] = Ascending(Of(keys[i]))
      BY <1>4, <2>6
    <2> QED BY <1>3, <1>5, <2>1, <2>5, <2>7
  <1>11. Groups(g, at, s, keys, N)
    BY <1>2, <1>3, <1>8, <1>9, <1>10 DEF Groups
  <1> QED BY <1>11 DEF g

\* Finitely many runs of finitely many lines have finitely many places.
LEMMA PlacesFinite ==
  ASSUME NEW runs, IsFiniteSet(DOMAIN runs), \A r \in DOMAIN runs : IsFiniteSet(DOMAIN runs[r])
  PROVE  IsFiniteSet(Places(runs))
  <1> DEFINE f == [r \in DOMAIN runs |-> {r} \X DOMAIN runs[r]]
             T == {{r} \X DOMAIN runs[r] : r \in DOMAIN runs}
  <1>1. f \in Surjection(DOMAIN runs, T)
    <2>1. f \in [DOMAIN runs -> T]
      OBVIOUS
    <2>2. \A t \in T : \E r \in DOMAIN runs : f[r] = t
      OBVIOUS
    <2> HIDE DEF f, T
    <2> QED BY <2>1, <2>2 DEF Surjection
  <1>2. IsFiniteSet(T)
    <2> HIDE DEF f, T
    <2> QED BY <1>1, FS_Surjection
  <1>3. ASSUME NEW t \in T PROVE IsFiniteSet(t)
    <2>1. PICK r \in DOMAIN runs : t = {r} \X DOMAIN runs[r]
      OBVIOUS
    <2>2. IsFiniteSet({r})
      BY FS_Singleton
    <2> QED BY <2>1, <2>2, FS_Product
  <1>4. Places(runs) = UNION T
    BY DEF Places
  <1> HIDE DEF T
  <1> QED BY <1>2, <1>3, <1>4, FS_UNION

\* values are the lines at the places at[1], at[2], ...: all lines of the runs,
\* sorted by time, those of equal time one run after the other.
Merges(values, at, runs) ==
  /\ \E C \in Nat : DOMAIN at = 1 .. C
  /\ values = [n \in DOMAIN at |-> LineAt(runs, at[n])]
  /\ \A n \in DOMAIN at : at[n] \in Places(runs)
  /\ \A p \in Places(runs) : \E n \in DOMAIN at : at[n] = p
  /\ \A m, n \in DOMAIN at :
       m < n => /\ at[m] # at[n]
                /\ \/ values[m].ts < values[n].ts
                   \/ values[m].ts = values[n].ts /\ Ahead(at[m], at[n])

LEMMA SortedMerges ==
  ASSUME NEW runs, NEW R \in Nat, DOMAIN runs = 1 .. R,
         \A r \in 1 .. R : \E K \in Nat : DOMAIN runs[r] = 1 .. K,
         \A p \in Places(runs) : LineAt(runs, p).ts \in Int
  PROVE  \E at : Merges(Sorted(runs), at, runs)
  <1> DEFINE Ts(p) == LineAt(runs, p).ts
             S == Places(runs)
             Before(p, q) == Ts(p) < Ts(q) \/ (Ts(p) = Ts(q) /\ Ahead(p, q))
             order == {pq \in S \X S : \/ Ts(pq[1]) < Ts(pq[2])
                                       \/ Ts(pq[1]) = Ts(pq[2]) /\ Ahead(pq[1], pq[2])}
             at == Ranked(S, order)
             values == [n \in DOMAIN at |-> LineAt(runs, at[n])]
  <1>1. Sorted(runs) = values
    BY DEF Sorted
  <1>2. IsFiniteSet(S)
    <2>1. IsFiniteSet(DOMAIN runs)
      BY FS_Interval
    <2>2. ASSUME NEW r \in DOMAIN runs PROVE IsFiniteSet(DOMAIN runs[r])
      BY FS_Interval
    <2> QED BY <2>1, <2>2, PlacesFinite
  <1>3. ASSUME NEW p \in S PROVE /\ p = <<p[1], p[2]>> /\ p[1] \in Int /\ p[2] \in Int
                                 /\ Ts(p) \in Int
    <2>1. PICK r \in 1 .. R : p \in {r} \X DOMAIN runs[r]
      BY DEF Places
    <2>2. PICK K \in Nat : DOMAIN runs[r] = 1 .. K
      OBVIOUS
    <2> QED BY <2>1, <2>2
  <1>4. \A p, q \in S : <<p, q>> \in order <=> Before(p, q)
    <2> HIDE DEF S
    <2> QED OBVIOUS
  <1>5. StrictOrder(S, order)
    <2> HIDE DEF S, Ts, order
    <2>1. ASSUME NEW p \in S PROVE <<p, p>> \notin order
      BY <1>3, <1>4 DEF Ahead
    <2>2. ASSUME NEW p \in S, NEW q \in S, NEW u \in S, Before(p, q), Before(q, u)
          PROVE  Before(p, u)
      BY <1>3, <2>2 DEF Ahead
    <2>3. ASSUME NEW p \in S, NEW q \in S, p # q PROVE Before(p, q) \/ Before(q, p)
      <3>1. p[1] # q[1] \/ p[2] # q[2]
        BY <1>3, <2>3
      <3> QED BY <1>3, <3>1 DEF Ahead
    <2> HIDE DEF Before
    <2> QED BY <1>4, <2>1, <2>2, <2>3 DEF StrictOrder
  <1>6. Lists(at, S, order)
    <2> HIDE DEF S, order
    <2> QED BY <1>2, <1>5, RankedLists
  <1>7. ASSUME NEW m \in DOMAIN at, NEW n \in DOMAIN at, m < n
        PROVE  /\ at[m] # at[n]
               /\ \/ values[m].ts < values[n].ts
                  \/ values[m].ts = values[n].ts /\ Ahead(at[m], at[n])
    <2> HIDE DEF S, at, order
    <2>1. at[m] \in S /\ at[n] \in S /\ <<at[m], at[n]>> \in order
      BY <1>6, <1>7 DEF Lists
    <2>2. Before(at[m], at[n])
      BY <1>4, <2>1
    <2>3. at[m] # at[n]
      <3>1. <<at[m], at[m]>> \notin order
        BY <1>5, <2>1 DEF StrictOrder
      <3> QED BY <2>1, <3>1
    <2>4. values[m].ts = Ts(at[m]) /\ values[n].ts = Ts(at[n])
      OBVIOUS
    <2> HIDE DEF values, Ts
    <2> QED BY <2>2, <2>3, <2>4
  <1> HIDE DEF order, at
  <1>8. Merges(values, at, runs)
    <2>1. /\ \E C \in Nat : DOMAIN at = 1 .. C
          /\ \A n \in DOMAIN at : at[n] \in Places(runs)
          /\ \A p \in Places(runs) : \E n \in DOMAIN at : at[n] = p
      BY <1>6 DEF Lists
    <2> QED BY <1>7, <2>1 DEF Merges
  <1> QED BY <1>1, <1>8

\* P holds the entries es[1], ..., es[N] and nothing else: src says which entry
\* is at each slot.  Every entry is in the stream of its own labels, sorted.
Carries(P, src, es, N) ==
  /\ \E G \in Nat : DOMAIN P = 1 .. G
  /\ \A i \in DOMAIN P : \E K \in Nat \ {0} : DOMAIN P[i].values = 1 .. K
  /\ \A p \in Slots(P) : /\ src[p] \in 1 .. N /\ Pushed(P, p) = es[src[p]]
                         /\ P[p[1]].stream = Resolve(es[src[p]].labels)
  /\ \A k \in 1 .. N : \E p \in Slots(P) : src[p] = k
  /\ \A p, q \in Slots(P) : p # q => src[p] # src[q]
  /\ \A i, j \in DOMAIN P : i # j => P[i].stream # P[j].stream
  /\ \A p, q \in Slots(P) :
       p[1] = q[1] /\ p[2] < q[2] =>
         \/ es[src[p]].ts < es[src[q]].ts
         \/ /\ es[src[p]].ts = es[src[q]].ts
            /\ es[src[p]].labels = es[src[q]].labels => src[p] < src[q]

LEMMA PayloadCarries ==
  ASSUME NEW N \in Nat, NEW es, DOMAIN es = 1 .. N, \A k \in 1 .. N : es[k].ts \in Int
  PROVE  \E src : Carries(BuildPayload(GroupByLabels(es)), src, es, N)
  <1> DEFINE keys1 == [i \in DOMAIN es |-> es[i].labels]
             g1 == GroupBy(es, keys1)
             streams == GroupByLabels(es)
             keys2 == [n \in DOMAIN streams |-> Resolve(streams[n].labels)]
             g2 == GroupBy(streams, keys2)
             P == BuildPayload(streams)
             runs(n) == [r \in DOMAIN g2[n].members |-> g2[n].members[r].entries]
  <1>1. PICK at1 : Groups(g1, at1, es, keys1, N)
    <2> HIDE DEF keys1
    <2> QED BY GroupByGroups
  <1>2. /\ DOMAIN streams = DOMAIN g1
        /\ \A j \in DOMAIN g1 : /\ streams[j].labels = g1[j].key
                                /\ streams[j].entries = g1[j].members
    BY DEF GroupByLabels
  <1>3. PICK S \in Nat : DOMAIN g1 = 1 .. S /\ DOMAIN at1 = 1 .. S
    <2> HIDE DEF g1, keys1
    <2> QED BY <1>1 DEF Groups
  <1>4. PICK at2 : Groups(g2, at2, streams, keys2, S)
    <2>1. DOMAIN streams = 1 .. S
      BY <1>2, <1>3
    <2> HIDE DEF streams, keys2
    <2> QED BY <2>1, GroupByGroups
  <1>5. /\ DOMAIN P = DOMAIN g2
        /\ \A n \in DOMAIN g2 : /\ P[n].stream = g2[n].key
                                /\ P[n].values = Sorted(runs(n))
    BY DEF BuildPayload
  <1>6. /\ \A i \in 1 .. N : keys1[i] = es[i].labels
        /\ \A j \in 1 .. S : keys2[j] = Resolve(g1[j].key)
    BY <1>2, <1>3
  <1>7. \A n \in DOMAIN g2 : /\ DOMAIN runs(n) = DOMAIN g2[n].members
                            /\ \A r \in DOMAIN g2[n].members :
                                 runs(n)[r] = g2[n].members[r].entries
    OBVIOUS
  <1> DEFINE Index(n, pl) == at1[at2[n][pl[1]]][pl[2]]
  <1> HIDE DEF keys1, g1, streams, keys2, g2, P, runs, Index
  <1>8. /\ \A j \in DOMAIN g1 :
             /\ \E K \in Nat \ {0} : DOMAIN at1[j] = 1 .. K
             /\ g1[j].members = [m \in DOMAIN at1[j] |-> es[at1[j][m]]]
             /\ \A m \in DOMAIN at1[j] : at1[j][m] \in 1 .. N /\ es[at1[j][m]].labels = g1[j].key
             /\ \A l, m \in DOMAIN at1[j] : l < m => at1[j][l] < at1[j][m]
        /\ \A l, n \in DOMAIN g1 : l # n => g1[l].key # g1[n].key
        /\ \A i \in 1 .. N : \E n \in DOMAIN g1 : \E m \in DOMAIN at1[n] : at1[n][m] = i
    BY <1>1, <1>6 DEF Groups
  <1>9. /\ \E G \in Nat : DOMAIN g2 = 1 .. G
        /\ \A n \in DOMAIN g2 :
             /\ \E K \in Nat \ {0} : DOMAIN at2[n] = 1 .. K
             /\ g2[n].members = [r \in DOMAIN at2[n] |-> streams[at2[n][r]]]
             /\ \A r \in DOMAIN at2[n] : at2[n][r] \in 1 .. S /\ keys2[at2[n][r]] = g2[n].key
             /\ \A l, m \in DOMAIN at2[n] : l < m => at2[n][l] < at2[n][m]
        /\ \A l, n \in DOMAIN g2 : l # n => g2[l].key # g2[n].key
        /\ \A j \in 1 .. S : \E n \in DOMAIN g2 : \E r \in DOMAIN at2[n] : at2[n][r] = j
    BY <1>4 DEF Groups
  <1> DEFINE Rising(at) == \A l, m \in DOMAIN at : (at[l] = at[m] => l = m) /\ (at[l] <= at[m] => l <= m)
  <1>a. ASSUME NEW j \in DOMAIN g1 PROVE Rising(at1[j])
    <2>1. PICK K \in Nat \ {0} : DOMAIN at1[j] = 1 .. K
      BY <1>8
    <2>2. \A m \in DOMAIN at1[j] : at1[j][m] \in Int
      <3>1. \A m \in DOMAIN at1[j] : at1[j][m] \in 1 .. N
        BY <1>8
      <3> QED BY <3>1
    <2>3. \A l, m \in DOMAIN at1[j] : l < m => at1[j][l] < at1[j][m]
      BY <1>8
    <2> QED BY <2>1, <2>2, <2>3, AscendingDiffer
  <1>b. ASSUME NEW n \in DOMAIN g2 PROVE Rising(at2[n])
    <2>1. PICK K \in Nat \ {0} : DOMAIN at2[n] = 1 .. K
      BY <1>9
    <2>2. \A m \in DOMAIN at2[n] : at2[n][m] \in Int
      <3>1. \A m \in DOMAIN at2[n] : at2[n][m] \in 1 .. S
        BY <1>9
      <3> QED BY <3>1
    <2>3. \A l, m \in DOMAIN at2[n] : l < m => at2[n][l] < at2[n][m]
      BY <1>9
    <2> QED BY <2>1, <2>2, <2>3, AscendingDiffer
  <1>10. ASSUME NEW n \in DOMAIN g2
         PROVE  /\ DOMAIN runs(n) = DOMAIN at2[n]
                /\ \A r \in DOMAIN at2[n] :
                     /\ DOMAIN runs(n)[r] = DOMAIN at1[at2[n][r]]
                     /\ \A m \in DOMAIN at1[at2[n][r]] :
                          runs(n)[r][m] = es[at1[at2[n][r]][m]]
    <2>1. DOMAIN g2[n].members = DOMAIN at2[n]
      BY <1>9
    <2>2. ASSUME NEW r \in DOMAIN at2[n]
          PROVE  runs(n)[r] = g1[at2[n][r]].members
      <3>1. g2[n].members = [k \in DOMAIN at2[n] |-> streams[at2[n][k]]]
        BY <1>9
      <3>2. g2[n].members[r] = streams[at2[n][r]]
        BY <3>1
      <3>3. at2[n][r] \in DOMAIN g1
        BY <1>3, <1>9
      <3>4. streams[at2[n][r]].entries = g1[at2[n][r]].members
        BY <1>2, <3>3
      <3>5. runs(n)[r] = g2[n].members[r].entries
        BY <1>7, <2>1
      <3> QED BY <3>2, <3>4, <3>5
    <2>3. ASSUME NEW r \in DOMAIN at2[n]
          PROVE  /\ DOMAIN runs(n)[r] = DOMAIN at1[at2[n][r]]
                 /\ \A m \in DOMAIN at1[at2[n][r]] : runs(n)[r][m] = es[at1[at2[n][r]][m]]
      <3>1. at2[n][r] \in DOMAIN g1
        BY <1>3, <1>9
      <3>2. g1[at2[n][r]].members = [m \in DOMAIN at1[at2[n][r]] |-> es[at1[at2[n][r]][m]]]
        BY <1>8, <3>1
      <3> QED BY <2>2, <3>2
    <2> QED BY <1>7, <2>1, <2>3
  \* A place among the runs of a stream, and the entry that is there.
  <1>11. ASSUME NEW n \in DOMAIN g2, NEW pl
         PROVE  pl \in Places(runs(n)) <=> /\ pl = <<pl[1], pl[2]>> /\ pl[1] \in DOMAIN at2[n]
                                           /\ pl[2] \in DOMAIN at1[at2[n][pl[1]]]
    <2>1. pl \in Places(runs(n)) <=>
            \E r \in DOMAIN runs(n) : pl \in {r} \X DOMAIN runs(n)[r]
      BY DEF Places
    <2>2. \A r \in DOMAIN runs(n) :
            pl \in {r} \X DOMAIN runs(n)[r] <=>
              pl = <<pl[1], pl[2]>> /\ pl[1] = r /\ pl[2] \in DOMAIN runs(n)[r]
      OBVIOUS
    <2> QED BY <1>10, <2>1, <2>2
  <1>12. ASSUME NEW n \in DOMAIN g2, NEW pl \in Places(runs(n))
         PROVE  /\ at2[n][pl[1]] \in DOMAIN g1
                /\ Index(n, pl) \in 1 .. N /\ LineAt(runs(n), pl) = es[Index(n, pl)]
                /\ es[Index(n, pl)].labels = g1[at2[n][pl[1]]].key
                /\ Resolve(es[Index(n, pl)].labels) = g2[n].key
    <2>1. pl[1] \in DOMAIN at2[n] /\ pl[2] \in DOMAIN at1[at2[n][pl[1]]]
      BY <1>11
    <2>2. at2[n][pl[1]] \in 1 .. S /\ keys2[at2[n][pl[1]]] = g2[n].key
      BY <1>9, <2>1
    <2>3. at2[n][pl[1]] \in DOMAIN g1
      BY <1>3, <2>2
    <2>4. /\ Index(n, pl) \in 1 .. N
          /\ es[Index(n, pl)].labels = g1[at2[n][pl[1]]].key
      BY <1>8, <2>1, <2>3 DEF Index
    <2>5. Resolve(g1[at2[n][pl[1]]].key) = g2[n].key
      BY <1>6, <2>2
    <2>6. LineAt(runs(n), pl) = es[Index(n, pl)]
      BY <1>10, <2>1 DEF LineAt, Index
    <2> QED BY <2>3, <2>4, <2>5, <2>6
  <1>13. ASSUME NEW n \in DOMAIN g2 PROVE \E at : Merges(Sorted(runs(n)), at, runs(n))
    <2>1. PICK K \in Nat : DOMAIN runs(n) = 1 .. K
      <3>1. \E K \in Nat \ {0} : DOMAIN at2[n] = 1 .. K
        BY <1>9
      <3> QED BY <1>10, <3>1
    <2>2. ASSUME NEW r \in 1 .. K PROVE \E k \in Nat : DOMAIN runs(n)[r] = 1 .. k
      <3>1. r \in DOMAIN at2[n]
        BY <1>10, <2>1
      <3>2. at2[n][r] \in DOMAIN g1
        BY <1>3, <1>9, <3>1
      <3>3. \E k \in Nat \ {0} : DOMAIN at1[at2[n][r]] = 1 .. k
        BY <1>8, <3>2
      <3> QED BY <1>10, <3>1, <3>3
    <2>3. ASSUME NEW pl \in Places(runs(n)) PROVE LineAt(runs(n), pl).ts \in Int
      BY <1>12
    <2> QED BY <2>1, <2>2, <2>3, SortedMerges
  <1> DEFINE at3 == [n \in DOMAIN g2 |-> CHOOSE at : Merges(Sorted(runs(n)), at, runs(n))]
             src == [p \in Slots(P) |-> Index(p[1], at3[p[1]][p[2]])]
  <1>14. ASSUME NEW n \in DOMAIN g2 PROVE Merges(P[n].values, at3[n], runs(n))
    <2>1. at3[n] = CHOOSE at : Merges(Sorted(runs(n)), at, runs(n))
      OBVIOUS
    <2> HIDE DEF at3
    <2> QED BY <1>5, <1>13, <2>1
  <1>15. \A p \in Slots(P) : src[p] = Index(p[1], at3[p[1]][p[2]])
    OBVIOUS
  <1> HIDE DEF at3, src
  <1>16. ASSUME NEW p
         PROVE  p \in Slots(P) <=> /\ p = <<p[1], p[2]>> /\ p[1] \in DOMAIN g2
                                   /\ p[2] \in DOMAIN P[p[1]].values
    <2> DEFINE all == [i \in DOMAIN P |-> P[i].values]
    <2>1. p \in Slots(P) <=> \E i \in DOMAIN P : p \in {i} \X DOMAIN P[i].values
      BY DEF Slots, Places
    <2>2. \A i \in DOMAIN P :
            p \in {i} \X DOMAIN P[i].values <=>
              p = <<p[1], p[2]>> /\ p[1] = i /\ p[2] \in DOMAIN P[i].values
      OBVIOUS
    <2> QED BY <1>5, <2>1, <2>2
  <1>17. ASSUME NEW p \in Slots(P)
         PROVE  /\ p[1] \in DOMAIN g2 /\ p[2] \in DOMAIN at3[p[1]]
                /\ at3[p[1]][p[2]] \in Places(runs(p[1]))
                /\ Pushed(P, p) = LineAt(runs(p[1]), at3[p[1]][p[2]])
    <2>1. p[1] \in DOMAIN g2 /\ p[2] \in DOMAIN P[p[1]].values
      BY <1>16
    <2>2. Merges(P[p[1]].values, at3[p[1]], runs(p[1]))
      BY <1>14, <2>1
    <2> QED BY <2>1, <2>2 DEF Merges, Pushed
  <1>18. ASSUME NEW p \in Slots(P)
         PROVE  /\ src[p] \in 1 .. N /\ Pushed(P, p) = es[src[p]]
                /\ P[p[1]].stream = Resolve(es[src[p]].labels)
    BY <1>5, <1>12, <1>15, <1>17
  <1>19. ASSUME NEW p \in Slots(P), NEW q \in Slots(P), src[p] = src[q] PROVE p = q
    <2> DEFINE n == p[1]
               pl == at3[p[1]][p[2]]
               ql == at3[q[1]][q[2]]
    <2>1. Resolve(es[src[p]].labels) = g2[p[1]].key /\ Resolve(es[src[q]].labels) = g2[q[1]].key
      BY <1>12, <1>15, <1>17
    <2>2. p[1] = q[1]
      BY <1>9, <1>17, <1>19, <2>1
    <2>3. pl \in Places(runs(n)) /\ ql \in Places(runs(n)) /\ Index(n, pl) = Index(n, ql) /\ n \in DOMAIN g2
      BY <1>15, <1>17, <1>19, <2>2
    <2> HIDE DEF n, pl, ql
    <2>4. g1[at2[n][pl[1]]].key = g1[at2[n][ql[1]]].key
      <3>1. es[Index(n, pl)].labels = g1[at2[n][pl[1]]].key
        BY <1>12, <2>3
      <3>2. es[Index(n, ql)].labels = g1[at2[n][ql[1]]].key
        BY <1>12, <2>3
      <3> QED BY <2>3, <3>1, <3>2
    <2>5. at2[n][pl[1]] = at2[n][ql[1]] /\ at2[n][pl[1]] \in DOMAIN g1
      <3>1. at2[n][pl[1]] \in DOMAIN g1 /\ at2[n][ql[1]] \in DOMAIN g1
        BY <1>12, <2>3
      <3> QED BY <1>8, <2>4, <3>1
    <2>6. /\ pl = <<pl[1], pl[2]>> /\ pl[1] \in DOMAIN at2[n] /\ pl[2] \in DOMAIN at1[at2[n][pl[1]]]
          /\ ql = <<ql[1], ql[2]>> /\ ql[1] \in DOMAIN at2[n] /\ ql[2] \in DOMAIN at1[at2[n][ql[1]]]
      BY <1>11, <2>3
    <2>7. pl[1] = ql[1]
      BY <1>b, <2>3, <2>5, <2>6
    <2>8. pl[2] = ql[2]
      <3>1. at1[at2[n][pl[1]]][pl[2]] = at1[at2[n][pl[1]]][ql[2]]
        BY <2>3, <2>5 DEF Index
      <3> QED BY <1>a, <2>5, <2>6, <3>1
    <2>9. pl = ql
      BY <2>6, <2>7, <2>8
    <2>10. p[2] = q[2]
      <3>1. Merges(P[n].values, at3[n], runs(n)) /\ p[2] \in DOMAIN at3[n] /\ q[2] \in DOMAIN at3[n]
        BY <1>14, <1>17, <2>2 DEF n
      <3>2. at3[n][p[2]] = at3[n][q[2]]
        BY <2>2, <2>9 DEF n, pl, ql
      <3>3. PICK C \in Nat : DOMAIN at3[n] = 1 .. C
        BY <3>1 DEF Merges
      <3>4. p[2] < q[2] \/ q[2] < p[2] \/ p[2] = q[2]
        BY <3>1, <3>3
      <3> QED BY <3>1, <3>2, <3>4 DEF Merges
    <2> QED BY <1>16, <2>2, <2>10
  <1>20. ASSUME NEW k \in 1 .. N PROVE \E p \in Slots(P) : src[p] = k
    <2>1. PICK j \in DOMAIN g1 : \E m \in DOMAIN at1[j] : at1[j][m] = k
      BY <1>8
    <2>2. PICK m \in DOMAIN at1[j] : at1[j][m] = k
      BY <2>1
    <2>3. PICK n \in DOMAIN g2 : \E r \in DOMAIN at2[n] : at2[n][r] = j
      BY <1>3, <1>9
    <2>4. PICK r \in DOMAIN at2[n] : at2[n][r] = j
      BY <2>3
    <2>5. <<r, m>> \in Places(runs(n)) /\ Index(n, <<r, m>>) = k
      BY <1>11, <2>2, <2>4 DEF Index
    <2>6. Merges(P[n].values, at3[n], runs(n))
      BY <1>14
    <2>7. PICK a \in DOMAIN at3[n] : at3[n][a] = <<r, m>>
      BY <2>5, <2>6 DEF Merges
    <2>8. a \in DOMAIN P[n].values
      BY <2>6, <2>7 DEF Merges
    <2>9. <<n, a>> \in Slots(P)
      BY <1>16, <2>8
    <2> QED BY <1>15, <2>5, <2>7, <2>9
  <1>21. ASSUME NEW p \in Slots(P), NEW q \in Slots(P), p[1] = q[1], p[2] < q[2]
         PROVE  \/ es[src[p]].ts < es[src[q]].ts
                \/ /\ es[src[p]].ts = es[src[q]].ts
                   /\ es[src[p]].labels = es[src[q]].labels => src[p] < src[q]
    <2> DEFINE n == p[1]
               pl == at3[n][p[2]]
               ql == at3[n][q[2]]
    <2>1. /\ Merges(P[n].values, at3[n], runs(n)) /\ n \in DOMAIN g2
          /\ p[2] \in DOMAIN at3[n] /\ q[2] \in DOMAIN at3[n]
      BY <1>14, <1>17, <1>21
    <2>2. /\ P[n].values[p[2]] = es[src[p]] /\ P[n].values[q[2]] = es[src[q]]
      BY <1>18, <1>21 DEF Pushed
    <2>3. \/ es[src[p]].ts < es[src[q]].ts
          \/ es[src[p]].ts = es[src[q]].ts /\ Ahead(pl, ql)
      <3> HIDE DEF n
      <3> QED BY <1>21, <2>1, <2>2 DEF Merges
    <2>4. SUFFICES ASSUME Ahead(pl, ql), es[src[p]].labels = es[src[q]].labels
                   PROVE  src[p] < src[q]
      BY <2>3
    <2>5. /\ pl \in Places(runs(n)) /\ ql \in Places(runs(n))
          /\ src[p] = Index(n, pl) /\ src[q] = Index(n, ql)
      BY <1>15, <1>17, <1>21
    <2> HIDE DEF n, pl, ql
    <2>6. g1[at2[n][pl[1]]].key = g1[at2[n][ql[1]]].key
      BY <1>12, <2>1, <2>4, <2>5
    <2>7. at2[n][pl[1]] = at2[n][ql[1]] /\ at2[n][pl[1]] \in DOMAIN g1
      BY <1>8, <1>12, <2>1, <2>5, <2>6
    <2>8. /\ pl[1] \in DOMAIN at2[n] /\ pl[2] \in DOMAIN at1[at2[n][pl[1]]]
          /\ ql[1] \in DOMAIN at2[n] /\ ql[2] \in DOMAIN at1[at2[n][ql[1]]]
      BY <1>11, <2>1, <2>5
    <2>9. ~ (pl[1] < ql[1])
      <3>1. pl[1] = ql[1]
        BY <1>b, <2>1, <2>7, <2>8
      <3>2. PICK K \in Nat \ {0} : DOMAIN at2[n] = 1 .. K
        BY <1>9, <2>1
      <3>3. pl[1] \in Int
        BY <2>8, <3>2
      <3> QED BY <3>1, <3>3
    <2>10. pl[2] < ql[2]
      BY <2>4, <2>9 DEF Ahead
    <2> DEFINE j == at2[n][pl[1]]
    <2>11. \A l, m \in DOMAIN at1[j] : l < m => at1[j][l] < at1[j][m]
      BY <1>8, <2>7
    <2> QED BY <2>5, <2>7, <2>8, <2>10, <2>11 DEF Index
  <1>22. ASSUME NEW i \in DOMAIN P PROVE \E K \in Nat \ {0} : DOMAIN P[i].values = 1 .. K
    <2>1. i \in DOMAIN g2 /\ Merges(P[i].values, at3[i], runs(i))
      BY <1>5, <1>14
    <2>2. PICK C \in Nat : DOMAIN at3[i] = 1 .. C
      BY <2>1 DEF Merges
    <2>3. DOMAIN P[i].values = 1 .. C
      BY <2>1, <2>2 DEF Merges
    <2>4. PICK K \in Nat \ {0} : DOMAIN at2[i] = 1 .. K
      BY <1>9, <2>1
    <2>5. 1 \in DOMAIN at2[i]
      BY <2>4
    <2>6. at2[i][1] \in DOMAIN g1
      BY <1>3, <1>9, <2>1, <2>5
    <2>7. PICK L \in Nat \ {0} : DOMAIN at1[at2[i][1]] = 1 .. L
      BY <1>8, <2>6
    <2>8. <<1, 1>> \in Places(runs(i))
      BY <1>11, <2>1, <2>5, <2>7
    <2>9. C # 0
      BY <2>1, <2>2, <2>8 DEF Merges
    <2> QED BY <2>3, <2>9
  <1>23. \E G \in Nat : DOMAIN P = 1 .. G
    BY <1>5, <1>9
  <1>24. \A i, j \in DOMAIN P : i # j => P[i].stream # P[j].stream
    BY <1>5, <1>9
  <1>25. Carries(P, src, es, N)
    BY <1>18, <1>19, <1>20, <1>21, <1>22, <1>23, <1>24 DEF Carries
  <1> QED BY <1>25 DEF P, streams

-----------------------------------------------------------------------------
(* One batch.                                                              *)

\* The entries after lo, up to hi.
RunOf(y, lo, hi) == [i \in 1 .. hi - lo |-> y[lo + i]]

\* What PayloadSound says of one payload.
Sound(P) ==
  \A i \in DOMAIN P :
    LET values == P[i].values
    IN  /\ values # <<>>
        /\ \A j \in DOMAIN P \ {i} : P[j].stream # P[i].stream
        /\ \A a \in DOMAIN values :
             /\ Resolve(values[a].labels) = P[i].stream
             /\ \A b \in 1 .. a - 1 :
                  \/ values[b].ts < values[a].ts
                  \/ /\ values[b].ts = values[a].ts
                     /\ values[b].labels = values[a].labels => values[b].pos < values[a].pos

\* P is a batch made of the entries of y after lo, up to hi.
BatchOf(P, y, lo, hi) ==
  /\ lo \in Nat /\ hi \in Nat /\ lo < hi /\ hi - lo <= MaxBatchLines
  /\ TotalSize(RunOf(y, lo, hi - 1)) < MaxBatchBytes
  /\ \A p \in Slots(P) : /\ Pushed(P, p).pos \in lo + 1 .. hi
                         /\ Pushed(P, p) = y[Pushed(P, p).pos]
  /\ \A p, q \in Slots(P) : p # q => Pushed(P, p).pos # Pushed(P, q).pos
  /\ \A k \in lo + 1 .. hi : \E p \in Slots(P) : Pushed(P, p).pos = k
  /\ Sound(P)

\* Where the slots of a payload are.
LEMMA SlotsAre ==
  ASSUME NEW P, NEW p
  PROVE  p \in Slots(P) <=> /\ p = <<p[1], p[2]>> /\ p[1] \in DOMAIN P
                            /\ p[2] \in DOMAIN P[p[1]].values
  <1>1. p \in Slots(P) <=> \E i \in DOMAIN P : p \in {i} \X DOMAIN P[i].values
    BY DEF Slots, Places
  <1>2. \A i \in DOMAIN P :
          p \in {i} \X DOMAIN P[i].values <=>
            p = <<p[1], p[2]>> /\ p[1] = i /\ p[2] \in DOMAIN P[i].values
    OBVIOUS
  <1> QED BY <1>1, <1>2

\* A payload built from consecutive entries is a batch of them.
LEMMA BatchMade ==
  ASSUME NEW es, NEW y, NEW lo \in Nat, NEW hi \in Nat, lo < hi, hi - lo <= MaxBatchLines,
         DOMAIN es = 1 .. hi - lo,
         \A i \in 1 .. hi - lo : es[i] = y[lo + i] /\ es[i].pos = lo + i /\ es[i].ts \in Int,
         TotalSize(RunOf(y, lo, hi - 1)) < MaxBatchBytes
  PROVE  BatchOf(BuildPayload(GroupByLabels(es)), y, lo, hi)
  <1> DEFINE P == BuildPayload(GroupByLabels(es))
             N == hi - lo
  <1>1. N \in Nat
    OBVIOUS
  <1>2. PICK src : Carries(P, src, es, N)
    BY <1>1, PayloadCarries
  <1> HIDE DEF P
  <1>3. ASSUME NEW p \in Slots(P)
        PROVE  /\ src[p] \in 1 .. N /\ Pushed(P, p) = es[src[p]]
               /\ Pushed(P, p).pos = lo + src[p]
               /\ Pushed(P, p) = y[lo + src[p]]
    BY <1>2 DEF Carries
  <1>4. ASSUME NEW p \in Slots(P)
        PROVE  /\ Pushed(P, p).pos \in lo + 1 .. hi
               /\ Pushed(P, p) = y[Pushed(P, p).pos]
    BY <1>3
  <1>5. ASSUME NEW p \in Slots(P), NEW q \in Slots(P), p # q
        PROVE  Pushed(P, p).pos # Pushed(P, q).pos
    <2>1. src[p] # src[q]
      BY <1>2, <1>5 DEF Carries
    <2> QED BY <1>3, <2>1
  <1>6. ASSUME NEW k \in lo + 1 .. hi PROVE \E p \in Slots(P) : Pushed(P, p).pos = k
    <2>1. k - lo \in 1 .. N
      OBVIOUS
    <2>2. PICK p \in Slots(P) : src[p] = k - lo
      BY <1>2, <2>1 DEF Carries
    <2> QED BY <1>3, <2>2
  <1>7. Sound(P)
    <2>1. SUFFICES ASSUME NEW i \in DOMAIN P
                   PROVE  LET values == P[i].values
                          IN /\ values # <<>>
                             /\ \A j \in DOMAIN P \ {i} : P[j].stream # P[i].stream
                             /\ \A a \in DOMAIN values :
                                  /\ Resolve(values[a].labels) = P[i].stream
                                  /\ \A b \in 1 .. a - 1 :
                                       \/ values[b].ts < values[a].ts
                                       \/ /\ values[b].ts = values[a].ts
                                          /\ values[b].labels = values[a].labels =>
                                               values[b].pos < values[a].pos
      BY DEF Sound
    <2> DEFINE values == P[i].values
    <2>2. PICK K \in Nat \ {0} : DOMAIN values = 1 .. K
      BY <1>2 DEF Carries
    <2>3. values # <<>>
      <3>1. 1 \in DOMAIN values
        BY <2>2
      <3> QED BY <3>1
    <2>4. \A j \in DOMAIN P \ {i} : P[j].stream # P[i].stream
      BY <1>2 DEF Carries
    <2>5. ASSUME NEW a \in DOMAIN values
          PROVE  /\ <<i, a>> \in Slots(P) /\ values[a] = es[src[<<i, a>>]]
                 /\ values[a].pos = lo + src[<<i, a>>] /\ src[<<i, a>>] \in 1 .. N
                 /\ Resolve(values[a].labels) = P[i].stream
      <3>1. <<i, a>> \in Slots(P)
        BY SlotsAre
      <3>2. Pushed(P, <<i, a>>) = values[a]
        BY DEF Pushed
      <3>3. P[i].stream = Resolve(es[src[<<i, a>>]].labels)
        BY <1>2, <3>1 DEF Carries
      <3> QED BY <1>3, <3>1, <3>2, <3>3
    <2>6. ASSUME NEW a \in DOMAIN values, NEW b \in 1 .. a - 1
          PROVE  \/ values[b].ts < values[a].ts
                 \/ /\ values[b].ts = values[a].ts
                    /\ values[b].labels = values[a].labels => values[b].pos < values[a].pos
      <3>1. b \in DOMAIN values /\ b < a
        BY <2>2
      <3> DEFINE u == <<i, b>>
                 v == <<i, a>>
      <3>2. u \in Slots(P) /\ v \in Slots(P) /\ u[1] = v[1] /\ u[2] < v[2]
        BY <2>5, <3>1
      <3> HIDE DEF u, v, values
      <3>3. \/ es[src[u]].ts < es[src[v]].ts
            \/ /\ es[src[u]].ts = es[src[v]].ts
               /\ es[src[u]].labels = es[src[v]].labels => src[u] < src[v]
        BY <1>2, <3>2 DEF Carries
      <3>4. /\ values[a] = es[src[v]] /\ values[a].pos = lo + src[v]
            /\ values[b] = es[src[u]] /\ values[b].pos = lo + src[u]
            /\ src[u] \in Int /\ src[v] \in Int
        BY <2>5, <3>1 DEF u, v
      <3> QED BY <3>3, <3>4
    <2> QED BY <2>3, <2>4, <2>5, <2>6
  <1>8. BatchOf(P, y, lo, hi)
    BY <1>4, <1>5, <1>6, <1>7 DEF BatchOf
  <1> QED BY <1>8 DEF P

\* More entries do not change a batch.
LEMMA BatchKept ==
  ASSUME NEW P, NEW y, NEW z, NEW lo, NEW hi, BatchOf(P, y, lo, hi),
         \A i \in 1 .. hi : z[i] = y[i]
  PROVE  BatchOf(P, z, lo, hi)
  <1>1. lo \in Nat /\ hi \in Nat /\ lo < hi
    BY DEF BatchOf
  <1>2. RunOf(z, lo, hi - 1) = RunOf(y, lo, hi - 1)
    <2>1. \A i \in 1 .. (hi - 1) - lo : z[lo + i] = y[lo + i]
      BY <1>1
    <2> QED BY <2>1 DEF RunOf
  <1>3. ASSUME NEW p \in Slots(P)
        PROVE  /\ Pushed(P, p).pos \in lo + 1 .. hi
               /\ Pushed(P, p) = z[Pushed(P, p).pos]
    <2>1. Pushed(P, p).pos \in lo + 1 .. hi /\ Pushed(P, p) = y[Pushed(P, p).pos]
      BY DEF BatchOf
    <2>2. Pushed(P, p).pos \in 1 .. hi
      BY <1>1, <2>1
    <2> QED BY <2>1, <2>2
  <1> QED BY <1>2, <1>3 DEF BatchOf

-----------------------------------------------------------------------------
(* The inductive invariant: the batches cut what was yielded into          *)
(* consecutive runs, and the buffer is the rest.                           *)

\* The entries of y are numbered, and measured.
Numbered(y) ==
  \A k \in 1 .. Len(y) : y[k].pos = k /\ y[k].size \in Nat /\ y[k].ts \in Int

\* Batch n ends after entry cut[n].
CutBy(cut, sn, y) ==
  /\ cut \in [0 .. Len(sn) -> Nat] /\ cut[0] = 0 /\ cut[Len(sn)] <= Len(y)
  /\ \A i, j \in 0 .. Len(sn) : i <= j => cut[i] <= cut[j]
  /\ \A n \in 1 .. Len(sn) : BatchOf(sn[n], y, cut[n - 1], cut[n])

\* es is what y holds after the last batch.
Rest(es, y, lo) ==
  /\ lo + Len(es) = Len(y)
  /\ \A i \in 1 .. Len(es) : es[i] = y[lo + i]

\* What is buffered, of what was yielded after lo.
Buffered(es, total, y, lo) ==
  /\ Rest(es, y, lo)
  /\ Len(es) < MaxBatchLines /\ total < MaxBatchBytes /\ total = TotalSize(es)

BatchInvOf(y, es, total, sn, st) ==
  /\ IsSeq(y) /\ IsSeq(es) /\ IsSeq(sn)
  /\ Numbered(y)
  /\ \E cut : /\ CutBy(cut, sn, y)
              /\ st # "failed" => Buffered(es, total, y, cut[Len(sn)])
  /\ st = "failed" => es = <<>> /\ total = 0

BatchInv == BatchInvOf(yielded, entries, bytes, sent, state)

\* The run up to the last entry is what was buffered before it came.
LEMMA RunBefore ==
  ASSUME NEW es, IsSeq(es), NEW y, NEW lo \in Nat, NEW hi \in Nat,
         Len(es) = hi - lo, \A i \in 1 .. Len(es) : es[i] = y[lo + i]
  PROVE  RunOf(y, lo, hi) = es
  <1>1. Len(es) \in Nat /\ DOMAIN es = 1 .. Len(es) /\ es = [i \in 1 .. Len(es) |-> es[i]]
    <2>1. PICK S : es \in Seq(S)
      BY DEF IsSeq
    <2> QED BY <2>1
  <1> QED BY <1>1 DEF RunOf

\* A batch more, of all there is.
LEMMA CutMore ==
  ASSUME NEW sn, IsSeq(sn), NEW P, NEW y, Len(y) \in Nat, NEW cut, CutBy(cut, sn, y),
         BatchOf(P, y, cut[Len(sn)], Len(y))
  PROVE  \E c : /\ CutBy(c, Append(sn, P), y) /\ c[Len(Append(sn, P))] = Len(y)
  <1> DEFINE N == Len(sn)
             c == [i \in 0 .. N + 1 |-> IF i = N + 1 THEN Len(y) ELSE cut[i]]
             s2 == Append(sn, P)
  <1>1. /\ N \in Nat /\ Len(s2) = N + 1 /\ s2[N + 1] = P
        /\ \A i \in 1 .. N : s2[i] = sn[i]
    BY AppendSeq
  <1> HIDE DEF N, s2
  <1>2. /\ cut \in [0 .. N -> Nat] /\ cut[0] = 0 /\ cut[N] <= Len(y)
        /\ \A i, j \in 0 .. N : i <= j => cut[i] <= cut[j]
        /\ \A n \in 1 .. N : BatchOf(sn[n], y, cut[n - 1], cut[n])
        /\ BatchOf(P, y, cut[N], Len(y))
    BY DEF CutBy, N
  <1>3. c \in [0 .. N + 1 -> Nat] /\ c[0] = 0 /\ c[N + 1] = Len(y) /\ \A i \in 0 .. N : c[i] = cut[i]
    BY <1>1, <1>2
  <1> HIDE DEF c
  <1>4. ASSUME NEW i \in 0 .. N + 1, NEW j \in 0 .. N + 1, i <= j PROVE c[i] <= c[j]
    <2>1. CASE j \in 0 .. N
      <3>1. i \in 0 .. N
        BY <1>1, <1>4, <2>1
      <3> QED BY <1>2, <1>3, <1>4, <2>1, <3>1
    <2>2. CASE j = N + 1 /\ i \in 0 .. N
      <3>1. cut[i] <= cut[N] /\ cut[i] \in Nat /\ cut[N] \in Nat
        BY <1>1, <1>2, <2>2
      <3> QED BY <1>2, <1>3, <2>2, <3>1
    <2>3. CASE j = N + 1 /\ i = N + 1
      BY <1>3, <2>3
    <2> QED BY <1>1, <2>1, <2>2, <2>3
  <1>5. ASSUME NEW n \in 1 .. N + 1 PROVE BatchOf(s2[n], y, c[n - 1], c[n])
    <2>1. CASE n \in 1 .. N
      <3>1. n \in 0 .. N /\ n - 1 \in 0 .. N
        BY <1>1, <2>1
      <3> QED BY <1>1, <1>2, <1>3, <2>1, <3>1
    <2>2. CASE n = N + 1
      <3>1. n - 1 = N /\ N \in 0 .. N
        BY <1>1, <2>2
      <3> QED BY <1>1, <1>2, <1>3, <2>2, <3>1
    <2> QED BY <1>1, <2>1, <2>2
  <1>6. CutBy(c, s2, y) /\ c[Len(s2)] = Len(y)
    BY <1>1, <1>3, <1>4, <1>5 DEF CutBy
  <1> QED BY <1>6 DEF s2

\* An entry more leaves the batches as they are.
LEMMA CutKept ==
  ASSUME NEW sn, NEW y, NEW z, NEW cut, CutBy(cut, sn, y), Len(sn) \in Nat,
         Len(y) \in Nat, Len(z) \in Nat, Len(y) <= Len(z), \A i \in 1 .. Len(y) : z[i] = y[i]
  PROVE  CutBy(cut, sn, z)
  <1>1. \A i \in 0 .. Len(sn) : cut[i] \in Nat /\ cut[i] <= Len(y)
    <2>1. /\ cut \in [0 .. Len(sn) -> Nat] /\ cut[Len(sn)] <= Len(y)
          /\ \A i \in 0 .. Len(sn) : cut[i] <= cut[Len(sn)]
      BY DEF CutBy
    <2> QED BY <2>1
  <1>2. ASSUME NEW n \in 1 .. Len(sn) PROVE BatchOf(sn[n], z, cut[n - 1], cut[n])
    <2>1. BatchOf(sn[n], y, cut[n - 1], cut[n])
      BY DEF CutBy
    <2>2. \A i \in 1 .. cut[n] : z[i] = y[i]
      BY <1>1
    <2> QED BY <2>1, <2>2, BatchKept
  <1>3. cut[Len(sn)] <= Len(z)
    BY <1>1
  <1> QED BY <1>2, <1>3 DEF CutBy

LEMMA EmptyIsSeq == IsSeq(<<>>)
  <1>1. <<>> \in Seq({})
    OBVIOUS
  <1> QED BY <1>1 DEF IsSeq

LEMMA EmptyHasNone == Len(<<>>) = 0
  OBVIOUS

LEMMA SeqFacts ==
  ASSUME NEW s, IsSeq(s)
  PROVE  Len(s) \in Nat /\ DOMAIN s = 1 .. Len(s) /\ (s = <<>> <=> Len(s) = 0)
  <1>1. PICK S : s \in Seq(S)
    BY DEF IsSeq
  <1> QED BY <1>1

\* What is left after a flush: nothing.
LEMMA NothingBuffered ==
  ASSUME NEW y, Len(y) \in Nat PROVE Buffered(<<>>, 0, y, Len(y))
  <1>1. Rest(<<>>, y, Len(y))
    BY EmptyIsSeq, EmptyHasNone DEF Rest
  <1>2. 0 < MaxBatchLines /\ 0 < MaxBatchBytes
    BY BatcherAssumption
  <1> QED BY <1>1, <1>2, EmptyIsSeq, EmptyHasNone, TotalSizeEmpty DEF Buffered

\* A flush makes one batch of all that is buffered.
LEMMA FlushMakes ==
  ASSUME NEW es, IsSeq(es), NEW f, IsSeq(f), NEW y, IsSeq(y), Numbered(y), NEW lo \in Nat,
         Rest(es, y, lo), Len(es) = Len(f) + 1, Len(es) <= MaxBatchLines,
         \A i \in 1 .. Len(f) : f[i] = es[i], TotalSize(f) < MaxBatchBytes
  PROVE  BatchOf(BuildPayload(GroupByLabels(es)), y, lo, Len(y))
  <1>1. Len(f) \in Nat /\ Len(es) \in Nat /\ Len(y) \in Nat /\ DOMAIN es = 1 .. Len(es)
    BY SeqFacts
  <1> DEFINE hi == Len(y)
  <1>2. hi \in Nat /\ Len(es) = hi - lo /\ Len(f) = (hi - 1) - lo /\ lo < hi /\ hi - 1 \in Nat
    BY <1>1 DEF Rest
  <1>3. ASSUME NEW i \in 1 .. hi - lo
        PROVE  es[i] = y[lo + i] /\ es[i].pos = lo + i /\ es[i].ts \in Int
    <2>1. es[i] = y[lo + i]
      BY <1>2 DEF Rest
    <2>2. lo + i \in 1 .. hi
      BY <1>2
    <2>3. y[lo + i].pos = lo + i /\ y[lo + i].ts \in Int
      BY <2>2 DEF Numbered
    <2> QED BY <2>1, <2>3
  <1>4. \A i \in 1 .. Len(f) : f[i] = y[lo + i]
    BY <1>1, <1>2, <1>3
  <1> HIDE DEF hi
  <1>5. TotalSize(RunOf(y, lo, hi - 1)) < MaxBatchBytes
    <2> DEFINE end == hi - 1
    <2>1. end \in Nat /\ Len(f) = end - lo
      BY <1>2
    <2> HIDE DEF end
    <2>2. RunOf(y, lo, end) = f
      BY <1>4, <2>1, RunBefore
    <2> QED BY <2>2 DEF end
  <1>6. hi - lo <= MaxBatchLines /\ DOMAIN es = 1 .. hi - lo
    BY <1>1, <1>2
  <1>7. BatchOf(BuildPayload(GroupByLabels(es)), y, lo, hi)
    BY <1>2, <1>3, <1>5, <1>6, BatchMade
  <1> QED BY <1>7 DEF hi

LEMMA BatchStart == BatchInit => BatchInv
  <1> SUFFICES ASSUME BatchInit PROVE BatchInv
    OBVIOUS
  <1>1. yielded = <<>> /\ entries = <<>> /\ bytes = 0 /\ sent = <<>> /\ state = "draining"
    BY DEF BatchInit
  <1> DEFINE cut == [i \in 0 .. 0 |-> 0]
  <1>2. CutBy(cut, <<>>, <<>>) /\ cut[Len(<<>>)] = Len(<<>>)
    BY EmptyIsSeq, EmptyHasNone DEF CutBy
  <1>3. Buffered(<<>>, 0, <<>>, Len(<<>>))
    BY EmptyIsSeq, EmptyHasNone, NothingBuffered
  <1>4. Numbered(<<>>)
    BY EmptyIsSeq, EmptyHasNone DEF Numbered
  <1> HIDE DEF cut
  <1>5. \E c : CutBy(c, <<>>, <<>>) /\ Buffered(<<>>, 0, <<>>, c[Len(<<>>)])
    BY <1>2, <1>3
  <1>6. BatchInvOf(<<>>, <<>>, 0, <<>>, "draining")
    BY <1>4, <1>5, EmptyIsSeq, EmptyHasNone DEF BatchInvOf
  <1> QED BY <1>1, <1>6 DEF BatchInv

\* An entry that comes numbered and measured.
Follows(e, y) == e.pos = Len(y) + 1 /\ e.size \in Nat /\ e.ts \in Int

\* The entry is yielded: the batches stay, and it follows what is buffered.
LEMMA YieldedOne ==
  ASSUME NEW y, NEW es, NEW total, NEW sn, NEW st, BatchInvOf(y, es, total, sn, st),
         st # "failed", NEW e, Follows(e, y)
  PROVE  /\ IsSeq(Append(y, e)) /\ Numbered(Append(y, e)) /\ IsSeq(Append(es, e))
         /\ total = TotalSize(es) /\ Len(es) < MaxBatchLines /\ total < MaxBatchBytes
         /\ TotalSize(Append(es, e)) = total + e.size
         /\ \E cut : /\ CutBy(cut, sn, Append(y, e)) /\ cut[Len(sn)] \in Nat
                     /\ Rest(Append(es, e), Append(y, e), cut[Len(sn)])
  <1> DEFINE y2 == Append(y, e)
             es2 == Append(es, e)
  <1>1. /\ IsSeq(y) /\ IsSeq(es) /\ IsSeq(sn) /\ Numbered(y)
        /\ \E cut : CutBy(cut, sn, y) /\ Buffered(es, total, y, cut[Len(sn)])
    BY DEF BatchInvOf
  <1>2. PICK cut : CutBy(cut, sn, y) /\ Buffered(es, total, y, cut[Len(sn)])
    BY <1>1
  <1> DEFINE lo == cut[Len(sn)]
  <1>3. /\ IsSeq(y2) /\ Len(y) \in Nat /\ Len(y2) = Len(y) + 1 /\ y2[Len(y) + 1] = e
        /\ \A i \in 1 .. Len(y) : y2[i] = y[i]
    BY <1>1, AppendSeq
  <1>4. /\ IsSeq(es2) /\ Len(es) \in Nat /\ Len(es2) = Len(es) + 1 /\ es2[Len(es) + 1] = e
        /\ \A i \in 1 .. Len(es) : es2[i] = es[i]
    BY <1>1, AppendSeq
  <1>5. Len(sn) \in Nat
    BY <1>1, SeqFacts
  <1> HIDE DEF y2, es2
  <1>6. Numbered(y2)
    <2>1. ASSUME NEW k \in 1 .. Len(y) + 1
          PROVE  y2[k].pos = k /\ y2[k].size \in Nat /\ y2[k].ts \in Int
      <3>1. k \in 1 .. Len(y) \/ k = Len(y) + 1
        BY <1>3
      <3> QED BY <1>1, <1>3, <3>1 DEF Numbered, Follows
    <2> QED BY <1>3, <2>1 DEF Numbered
  <1>7. lo \in Nat /\ lo + Len(es) = Len(y) /\ \A i \in 1 .. Len(es) : es[i] = y[lo + i]
    BY <1>2, <1>5 DEF CutBy, Buffered, Rest
  <1> HIDE DEF lo
  <1>8. Rest(es2, y2, lo)
    <2>1. ASSUME NEW i \in 1 .. Len(es) + 1 PROVE es2[i] = y2[lo + i]
      <3>1. CASE i \in 1 .. Len(es)
        <4>1. lo + i \in 1 .. Len(y)
          BY <1>3, <1>4, <1>7, <3>1
        <4> QED BY <1>3, <1>4, <1>7, <3>1, <4>1
      <3>2. CASE i = Len(es) + 1
        <4>1. lo + i = Len(y) + 1
          BY <1>4, <1>7, <3>2
        <4> QED BY <1>3, <1>4, <3>2, <4>1
      <3> QED BY <1>4, <3>1, <3>2
    <2>2. lo + Len(es2) = Len(y2)
      BY <1>3, <1>4, <1>7
    <2>3. \A i \in 1 .. Len(es2) : es2[i] = y2[lo + i]
      BY <1>4, <2>1
    <2> QED BY <2>2, <2>3 DEF Rest
  <1>9. CutBy(cut, sn, y2)
    BY <1>2, <1>3, <1>5, CutKept
  <1>10. Sized(es)
    <2>1. ASSUME NEW i \in 1 .. Len(es) PROVE es[i].size \in Nat
      <3>1. lo + i \in 1 .. Len(y)
        BY <1>3, <1>4, <1>7
      <3> QED BY <1>1, <1>7, <3>1 DEF Numbered
    <2> QED BY <2>1 DEF Sized
  <1>11. TotalSize(es2) = TotalSize(es) + e.size
    BY <1>1, <1>10, TotalSizeAppend DEF Follows, es2
  <1>12. total = TotalSize(es) /\ Len(es) < MaxBatchLines /\ total < MaxBatchBytes
    BY <1>2 DEF Buffered
  <1> QED BY <1>3, <1>4, <1>6, <1>7, <1>8, <1>9, <1>11, <1>12 DEF y2, es2, lo

\* The buffer takes one more entry.
LEMMA BufferOne ==
  ASSUME NEW y, NEW es, NEW total, NEW sn, NEW st, BatchInvOf(y, es, total, sn, st),
         st # "failed", NEW e, Follows(e, y),
         ~ (Len(es) + 1 >= MaxBatchLines \/ total + e.size >= MaxBatchBytes)
  PROVE  BatchInvOf(Append(y, e), Append(es, e), total + e.size, sn, st)
  <1>1. /\ IsSeq(Append(y, e)) /\ Numbered(Append(y, e)) /\ IsSeq(Append(es, e))
        /\ total = TotalSize(es) /\ Len(es) < MaxBatchLines /\ total < MaxBatchBytes
        /\ TotalSize(Append(es, e)) = total + e.size
        /\ \E cut : /\ CutBy(cut, sn, Append(y, e)) /\ cut[Len(sn)] \in Nat
                    /\ Rest(Append(es, e), Append(y, e), cut[Len(sn)])
    BY YieldedOne
  <1>2. PICK cut : /\ CutBy(cut, sn, Append(y, e)) /\ cut[Len(sn)] \in Nat
                   /\ Rest(Append(es, e), Append(y, e), cut[Len(sn)])
    BY <1>1
  <1>3. /\ IsSeq(es) /\ IsSeq(sn)
    BY DEF BatchInvOf
  <1>4. /\ Len(Append(es, e)) = Len(es) + 1 /\ Len(es) \in Nat
    BY <1>3, AppendSeq
  <1>5. MaxBatchLines \in Nat /\ MaxBatchBytes \in Nat /\ e.size \in Nat
    BY BatcherAssumption DEF Follows
  <1>6. total \in Int
    <2>1. Sized(es)
      <3>1. \E c : CutBy(c, sn, y) /\ Buffered(es, total, y, c[Len(sn)])
        BY DEF BatchInvOf
      <3>2. PICK c : CutBy(c, sn, y) /\ Buffered(es, total, y, c[Len(sn)])
        BY <3>1
      <3>3. c[Len(sn)] \in Nat
        BY <1>3, <3>2, SeqFacts DEF CutBy
      <3>4. Numbered(y) /\ IsSeq(y)
        BY DEF BatchInvOf
      <3>5. Len(y) \in Nat
        BY <3>4, SeqFacts
      <3>6. ASSUME NEW i \in 1 .. Len(es) PROVE es[i].size \in Nat
        <4>1. es[i] = y[c[Len(sn)] + i] /\ c[Len(sn)] + Len(es) = Len(y)
          BY <3>2 DEF Buffered, Rest
        <4>2. c[Len(sn)] + i \in 1 .. Len(y)
          BY <1>4, <3>3, <3>5, <4>1
        <4> QED BY <3>4, <4>1, <4>2 DEF Numbered
      <3> QED BY <3>6 DEF Sized
    <2>2. TotalSize(es) \in Nat
      BY <1>3, <1>5, <2>1, TotalSizeAppend
    <2> QED BY <1>1, <2>2
  <1>7. Len(Append(es, e)) < MaxBatchLines /\ total + e.size < MaxBatchBytes
    BY <1>4, <1>5, <1>6
  <1>8. Buffered(Append(es, e), total + e.size, Append(y, e), cut[Len(sn)])
    BY <1>1, <1>2, <1>7 DEF Buffered
  <1> HIDE DEF Follows
  <1> QED BY <1>1, <1>2, <1>3, <1>8 DEF BatchInvOf

\* A bound is reached and the batch is pushed ...
LEMMA PushOne ==
  ASSUME NEW y, NEW es, NEW total, NEW sn, NEW st, BatchInvOf(y, es, total, sn, st),
         st # "failed", NEW e, Follows(e, y)
  PROVE  BatchInvOf(Append(y, e), <<>>, 0,
                    Append(sn, BuildPayload(GroupByLabels(Append(es, e)))), st)
  <1> DEFINE y2 == Append(y, e)
             es2 == Append(es, e)
             P == BuildPayload(GroupByLabels(es2))
  <1>1. /\ IsSeq(y2) /\ Numbered(y2) /\ IsSeq(es2)
        /\ total = TotalSize(es) /\ Len(es) < MaxBatchLines /\ total < MaxBatchBytes
        /\ \E cut : /\ CutBy(cut, sn, y2) /\ cut[Len(sn)] \in Nat
                    /\ Rest(es2, y2, cut[Len(sn)])
    BY YieldedOne
  <1>2. PICK cut : CutBy(cut, sn, y2) /\ cut[Len(sn)] \in Nat /\ Rest(es2, y2, cut[Len(sn)])
    BY <1>1
  <1>3. IsSeq(es) /\ IsSeq(sn)
    BY DEF BatchInvOf
  <1>4. /\ Len(es2) = Len(es) + 1 /\ Len(es) \in Nat /\ \A i \in 1 .. Len(es) : es2[i] = es[i]
    BY <1>3, AppendSeq
  <1>5. Len(es2) <= MaxBatchLines
    BY <1>1, <1>4, BatcherAssumption
  <1> HIDE DEF y2, es2
  <1>6. BatchOf(P, y2, cut[Len(sn)], Len(y2))
    BY <1>1, <1>2, <1>3, <1>4, <1>5, FlushMakes
  <1>7. Len(y2) \in Nat
    BY <1>1, SeqFacts
  <1> HIDE DEF P
  <1>8. PICK c : CutBy(c, Append(sn, P), y2) /\ c[Len(Append(sn, P))] = Len(y2)
    BY <1>2, <1>3, <1>6, <1>7, CutMore
  <1>9. IsSeq(Append(sn, P))
    BY <1>3, AppendSeq
  <1>10. Buffered(<<>>, 0, y2, Len(y2))
    BY <1>7, NothingBuffered
  <1>11. \E k : /\ CutBy(k, Append(sn, P), y2)
                /\ Buffered(<<>>, 0, y2, k[Len(Append(sn, P))])
    BY <1>8, <1>10
  <1>12. BatchInvOf(y2, <<>>, 0, Append(sn, P), st)
    BY <1>1, <1>9, <1>11, EmptyIsSeq DEF BatchInvOf
  <1> QED BY <1>12 DEF y2, es2, P

\* ... or the push raises, and what went out before stays.
LEMMA LoseOne ==
  ASSUME NEW y, NEW es, NEW total, NEW sn, NEW st, BatchInvOf(y, es, total, sn, st),
         st # "failed", NEW e, Follows(e, y)
  PROVE  BatchInvOf(Append(y, e), <<>>, 0, sn, "failed")
  <1>1. /\ IsSeq(Append(y, e)) /\ Numbered(Append(y, e))
        /\ \E cut : CutBy(cut, sn, Append(y, e))
    BY YieldedOne
  <1>2. IsSeq(sn)
    BY DEF BatchInvOf
  <1> QED BY <1>1, <1>2, EmptyIsSeq DEF BatchInvOf

LEMMA AddStep ==
  ASSUME BatchInv, NEW e, Follows(e, yielded), Add(e)
  PROVE  BatchInv'
  <1>1. state = "draining" /\ yielded' = Append(yielded, e)
    BY DEF Add
  <1>2. BatchInvOf(yielded, entries, bytes, sent, state) /\ state # "failed"
    BY <1>1 DEF BatchInv
  <1>3. CASE Len(entries) + 1 >= MaxBatchLines \/ bytes + e.size >= MaxBatchBytes
    <2>1. FlushAndPush(Append(entries, e))
      BY <1>3 DEF Add
    <2>2. entries' = <<>> /\ bytes' = 0
      BY <2>1 DEF FlushAndPush
    <2>3. CASE /\ sent' = Append(sent, BuildPayload(GroupByLabels(Append(entries, e))))
               /\ state' = state
      <3>1. BatchInvOf(yielded', entries', bytes', sent', state')
        BY <1>1, <1>2, <2>2, <2>3, PushOne
      <3> QED BY <3>1 DEF BatchInv
    <2>4. CASE sent' = sent /\ state' = "failed"
      <3>1. BatchInvOf(yielded', entries', bytes', sent', state')
        BY <1>1, <1>2, <2>2, <2>4, LoseOne
      <3> QED BY <3>1 DEF BatchInv
    <2> QED BY <2>1, <2>3, <2>4 DEF FlushAndPush
  <1>4. CASE ~ (Len(entries) + 1 >= MaxBatchLines \/ bytes + e.size >= MaxBatchBytes)
    <2>1. /\ entries' = Append(entries, e) /\ bytes' = bytes + e.size
          /\ sent' = sent /\ state' = state
      BY <1>4 DEF Add
    <2>2. BatchInvOf(Append(yielded, e), Append(entries, e), bytes + e.size, sent, state)
      BY <1>2, <1>4, BufferOne
    <2>3. BatchInvOf(yielded', entries', bytes', sent', state')
      BY <1>1, <2>1, <2>2
    <2> QED BY <2>3 DEF BatchInv
  <1> QED BY <1>3, <1>4

\* What is buffered but its last entry weighs less than the bound.
LEMMA FrontLight ==
  ASSUME NEW es, IsSeq(es), Sized(es), Len(es) # 0
  PROVE  \E f : /\ IsSeq(f) /\ Len(es) = Len(f) + 1
                /\ \A i \in 1 .. Len(f) : f[i] = es[i]
                /\ TotalSize(f) \in Nat /\ TotalSize(es) \in Nat
                /\ TotalSize(f) <= TotalSize(es)
  <1>1. PICK S : es \in Seq(S)
    BY DEF IsSeq
  <1> DEFINE N == Len(es)
             f == [i \in 1 .. N - 1 |-> es[i]]
             last == es[N]
  <1>2. N \in Nat /\ N # 0 /\ es \in [1 .. N -> S]
    BY <1>1
  <1>3. N - 1 \in Nat
    BY <1>2
  <1>4. f \in Seq(S) /\ Len(f) = N - 1
    <2>1. f \in [1 .. N - 1 -> S]
      BY <1>2
    <2> HIDE DEF f, N
    <2> QED BY <1>3, <2>1
  <1>5. \A i \in 1 .. N - 1 : f[i] = es[i]
    OBVIOUS
  <1>a. last \in S
    <2>1. N \in 1 .. N
      BY <1>2
    <2> QED BY <1>2, <2>1
  <1>b. last = es[N]
    OBVIOUS
  <1> HIDE DEF f, last, N
  <1>6. IsSeq(f)
    BY <1>4 DEF IsSeq
  <1>7. es = Append(f, last)
    <2>1. /\ IsSeq(Append(f, last)) /\ Len(Append(f, last)) = N
          /\ DOMAIN Append(f, last) = 1 .. N
          /\ \A i \in 1 .. N - 1 : Append(f, last)[i] = es[i]
          /\ Append(f, last)[N] = last
      <3>1. Len(f) + 1 = N
        BY <1>2, <1>4
      <3>2. /\ IsSeq(Append(f, last)) /\ Len(Append(f, last)) = Len(f) + 1
            /\ DOMAIN Append(f, last) = 1 .. Len(f) + 1
            /\ \A i \in 1 .. Len(f) : Append(f, last)[i] = f[i]
            /\ Append(f, last)[Len(f) + 1] = last
        BY <1>6, AppendSeq
      <3> QED BY <1>4, <1>5, <3>1, <3>2
    <2>2. \A i \in 1 .. N : Append(f, last)[i] = es[i]
      <3>1. \A i \in 1 .. N : i \in 1 .. N - 1 \/ i = N
        BY <1>2
      <3> QED BY <1>b, <2>1, <3>1
    <2>3. Append(f, last) \in Seq(S)
      BY <1>4, <1>a
    <2> DEFINE g == Append(f, last)
    <2> HIDE DEF g
    <2>4. g \in Seq(S) /\ Len(g) = N /\ \A i \in 1 .. N : g[i] = es[i]
      BY <2>1, <2>2, <2>3 DEF g
    <2>5. g \in [1 .. N -> S]
      BY <2>4
    <2>6. g = es
      BY <1>2, <2>4, <2>5
    <2> QED BY <2>6 DEF g
  <1>8. Sized(f) /\ last.size \in Nat
    <2>1. \A i \in 1 .. N : es[i].size \in Nat
      BY DEF Sized, N
    <2>2. N \in 1 .. N /\ \A i \in 1 .. N - 1 : i \in 1 .. N
      BY <1>2
    <2> QED BY <1>4, <1>5, <1>b, <2>1, <2>2 DEF Sized
  <1>9. TotalSize(f) \in Nat /\ TotalSize(Append(f, last)) = TotalSize(f) + last.size
    BY <1>6, <1>8, TotalSizeAppend
  <1>10. TotalSize(f) \in Nat /\ TotalSize(es) \in Nat /\ TotalSize(f) <= TotalSize(es)
    BY <1>7, <1>8, <1>9
  <1>11. Len(es) = Len(f) + 1 /\ \A i \in 1 .. Len(f) : f[i] = es[i]
    BY <1>2, <1>4, <1>5 DEF N
  <1> QED BY <1>6, <1>10, <1>11

\* What is buffered is measured.
LEMMA BufferedSized ==
  ASSUME NEW y, IsSeq(y), Numbered(y), NEW es, IsSeq(es), NEW lo \in Nat, Rest(es, y, lo)
  PROVE  Sized(es)
  <1>1. Len(y) \in Nat /\ Len(es) \in Nat
    BY SeqFacts
  <1>2. ASSUME NEW i \in 1 .. Len(es) PROVE es[i].size \in Nat
    <2>1. es[i] = y[lo + i] /\ lo + Len(es) = Len(y)
      BY DEF Rest
    <2>2. lo + i \in 1 .. Len(y)
      BY <1>1, <2>1
    <2> QED BY <2>1, <2>2 DEF Numbered
  <1> QED BY <1>2 DEF Sized

LEMMA PushLast ==
  ASSUME NEW y, NEW es, NEW total, NEW sn, NEW st, BatchInvOf(y, es, total, sn, st),
         st # "failed", es # <<>>
  PROVE  BatchInvOf(y, <<>>, 0, Append(sn, BuildPayload(GroupByLabels(es))), "done")
  <1> DEFINE P == BuildPayload(GroupByLabels(es))
  <1>1. IsSeq(y) /\ IsSeq(es) /\ IsSeq(sn) /\ Numbered(y)
    BY DEF BatchInvOf
  <1>2. \E cut : CutBy(cut, sn, y) /\ Buffered(es, total, y, cut[Len(sn)])
    BY DEF BatchInvOf
  <1>3. PICK cut : CutBy(cut, sn, y) /\ Buffered(es, total, y, cut[Len(sn)])
    BY <1>2
  <1>4. Len(y) \in Nat /\ Len(sn) \in Nat /\ Len(es) \in Nat /\ Len(es) # 0
    BY <1>1, SeqFacts
  <1>5. cut[Len(sn)] \in Nat /\ Rest(es, y, cut[Len(sn)])
    BY <1>3, <1>4 DEF CutBy, Buffered
  <1>6. Sized(es)
    BY <1>1, <1>5, BufferedSized
  <1>7. PICK f : /\ IsSeq(f) /\ Len(es) = Len(f) + 1
                 /\ \A i \in 1 .. Len(f) : f[i] = es[i]
                 /\ TotalSize(f) \in Nat /\ TotalSize(es) \in Nat
                 /\ TotalSize(f) <= TotalSize(es)
    BY <1>1, <1>4, <1>6, FrontLight
  <1>8. TotalSize(f) < MaxBatchBytes /\ Len(es) <= MaxBatchLines
    <2>1. TotalSize(es) < MaxBatchBytes /\ Len(es) < MaxBatchLines
      BY <1>3 DEF Buffered
    <2> QED BY <1>4, <1>7, <2>1, BatcherAssumption
  <1>9. BatchOf(P, y, cut[Len(sn)], Len(y))
    BY <1>1, <1>5, <1>7, <1>8, FlushMakes
  <1> HIDE DEF P
  <1>10. PICK c : CutBy(c, Append(sn, P), y) /\ c[Len(Append(sn, P))] = Len(y)
    BY <1>1, <1>3, <1>4, <1>9, CutMore
  <1>11. IsSeq(Append(sn, P))
    BY <1>1, AppendSeq
  <1>12. \E k : /\ CutBy(k, Append(sn, P), y)
                /\ Buffered(<<>>, 0, y, k[Len(Append(sn, P))])
    BY <1>4, <1>10, NothingBuffered
  <1>13. BatchInvOf(y, <<>>, 0, Append(sn, P), "done")
    BY <1>1, <1>11, <1>12, EmptyIsSeq DEF BatchInvOf
  <1> QED BY <1>13 DEF P

LEMMA FinishStep == ASSUME BatchInv, Finish PROVE BatchInv'
  <1>1. state = "draining" /\ yielded' = yielded
    BY DEF Finish
  <1>2. BatchInvOf(yielded, entries, bytes, sent, state) /\ state # "failed"
    BY <1>1 DEF BatchInv
  <1>3. CASE entries = <<>>
    <2>1. /\ entries' = entries /\ bytes' = bytes /\ sent' = sent /\ state' = "done"
      BY <1>3 DEF Finish
    <2>2. BatchInvOf(yielded, entries, bytes, sent, "done")
      BY <1>2 DEF BatchInvOf
    <2> QED BY <1>1, <2>1, <2>2 DEF BatchInv
  <1>4. CASE entries # <<>>
    <2>1. entries' = <<>> /\ bytes' = 0
      BY <1>4 DEF Finish
    <2>2. CASE /\ sent' = Append(sent, BuildPayload(GroupByLabels(entries)))
               /\ state' = "done"
      <3>1. BatchInvOf(yielded', entries', bytes', sent', state')
        BY <1>1, <1>2, <1>4, <2>1, <2>2, PushLast
      <3> QED BY <3>1 DEF BatchInv
    <2>3. CASE sent' = sent /\ state' = "failed"
      <3>1. BatchInvOf(yielded, <<>>, 0, sent, "failed")
        BY <1>2, EmptyIsSeq DEF BatchInvOf
      <3>2. BatchInvOf(yielded', entries', bytes', sent', state')
        BY <1>1, <2>1, <2>3, <3>1
      <3> QED BY <3>2 DEF BatchInv
    <2> QED BY <1>4, <2>2, <2>3 DEF Finish
  <1> QED BY <1>3, <1>4

-----------------------------------------------------------------------------
(* What the invariant says.                                                *)

\* The positions of a batch are those it was cut from.
LEMMA PositionsAre ==
  ASSUME NEW P, NEW y, NEW lo, NEW hi, BatchOf(P, y, lo, hi)
  PROVE  Positions(P) = lo + 1 .. hi
  <1>1. \A p \in Slots(P) : Pushed(P, p).pos \in lo + 1 .. hi
    BY DEF BatchOf
  <1>2. \A k \in lo + 1 .. hi : \E p \in Slots(P) : Pushed(P, p).pos = k
    BY DEF BatchOf
  <1> QED BY <1>1, <1>2 DEF Positions

\* All batches together hold a prefix.
LEMMA PositionsOfAll ==
  ASSUME NEW sn, IsSeq(sn), NEW y, Len(y) \in Nat, NEW cut, CutBy(cut, sn, y)
  PROVE  UNION {Positions(sn[n]) : n \in DOMAIN sn} = 1 .. cut[Len(sn)]
  <1> DEFINE N == Len(sn)
  <1>1. N \in Nat /\ DOMAIN sn = 1 .. N
    BY SeqFacts
  <1>2. /\ cut \in [0 .. N -> Nat] /\ cut[0] = 0
        /\ \A i, j \in 0 .. N : i <= j => cut[i] <= cut[j]
    BY DEF CutBy
  <1>3. \A n \in 1 .. N : Positions(sn[n]) = cut[n - 1] + 1 .. cut[n]
    <2>1. \A n \in 1 .. N : BatchOf(sn[n], y, cut[n - 1], cut[n])
      BY DEF CutBy
    <2> QED BY <2>1, PositionsAre
  <1> HIDE DEF N
  <1>4. ASSUME NEW n \in 1 .. N, NEW k \in cut[n - 1] + 1 .. cut[n] PROVE k \in 1 .. cut[N]
    <2>1. n \in 0 .. N /\ n - 1 \in 0 .. N /\ N \in 0 .. N /\ n <= N
      BY <1>1
    <2>2. cut[n] <= cut[N] /\ cut[n - 1] \in Nat /\ cut[n] \in Nat /\ cut[N] \in Nat
      BY <1>2, <2>1
    <2> QED BY <2>2
  <1>5. ASSUME NEW k \in 1 .. cut[N] PROVE \E n \in 1 .. N : k \in cut[n - 1] + 1 .. cut[n]
    <2> DEFINE T == {n \in 1 .. N : k <= cut[n]}
    <2>1. N \in T
      <3>1. N # 0
        BY <1>2
      <3>2. N \in 1 .. N /\ k <= cut[N]
        BY <1>1, <3>1
      <3> QED BY <3>2
    <2>2. PICK n \in T : \A m \in T : n <= m
      <3>1. T \subseteq 1 .. N
        OBVIOUS
      <3> HIDE DEF T
      <3> QED BY <1>1, <2>1, <3>1, AscendingLeast
    <2>3. n \in 1 .. N /\ k <= cut[n]
      OBVIOUS
    <2>4. cut[n - 1] < k
      <3>1. CASE n = 1
        <4>1. n - 1 = 0
          BY <3>1
        <4> QED BY <1>2, <4>1
      <3>2. CASE n # 1
        <4>1. n - 1 \in 1 .. N /\ n - 1 < n
          BY <1>1, <2>3, <3>2
        <4>2. n - 1 \notin T
          BY <2>2, <2>3, <4>1
        <4>3. ~ (k <= cut[n - 1])
          BY <4>1, <4>2
        <4>4. cut[n - 1] \in Nat
          <5>1. n - 1 \in 0 .. N
            BY <4>1
          <5> QED BY <1>2, <5>1
        <4> QED BY <4>3, <4>4
      <3> QED BY <3>1, <3>2
    <2>5. cut[n - 1] \in Nat /\ cut[n] \in Nat
      <3>1. n - 1 \in 0 .. N /\ n \in 0 .. N
        BY <1>1, <2>3
      <3> QED BY <1>2, <3>1
    <2> QED BY <2>3, <2>4, <2>5
  <1>6. UNION {Positions(sn[n]) : n \in 1 .. N} = 1 .. cut[N]
    BY <1>3, <1>4, <1>5
  <1> QED BY <1>1, <1>6 DEF N

LEMMA InvNothingLost == BatchInv => NothingLost
  <1> SUFFICES ASSUME BatchInv PROVE NothingLost
    OBVIOUS
  <1>1. /\ IsSeq(yielded) /\ IsSeq(entries) /\ IsSeq(sent)
        /\ \E cut : /\ CutBy(cut, sent, yielded)
                    /\ state # "failed" => Buffered(entries, bytes, yielded, cut[Len(sent)])
    BY DEF BatchInv, BatchInvOf
  <1>2. PICK cut : /\ CutBy(cut, sent, yielded)
                   /\ state # "failed" => Buffered(entries, bytes, yielded, cut[Len(sent)])
    BY <1>1
  <1> DEFINE N == Len(sent)
             out == UNION {Positions(sent[n]) : n \in DOMAIN sent}
             shipped == Cardinality(out)
  <1>3. N \in Nat /\ Len(yielded) \in Nat /\ DOMAIN sent = 1 .. N
    BY <1>1, SeqFacts
  <1>4. /\ cut[N] \in Nat /\ cut[N] <= Len(yielded)
        /\ cut \in [0 .. N -> Nat]
        /\ \A i, j \in 0 .. N : i <= j => cut[i] <= cut[j]
        /\ \A n \in 1 .. N : BatchOf(sent[n], yielded, cut[n - 1], cut[n])
    BY <1>2, <1>3 DEF CutBy
  <1>5. out = 1 .. cut[N]
    BY <1>1, <1>2, <1>3, PositionsOfAll
  <1>6. shipped = cut[N]
    <2>1. Cardinality(1 .. cut[N]) = cut[N]
      BY <1>4, FS_Interval
    <2> HIDE DEF out
    <2> QED BY <1>5, <2>1
  <1> HIDE DEF out, shipped, N
  <1>7. out = 1 .. shipped /\ shipped <= Len(yielded)
    BY <1>4, <1>5, <1>6
  <1>8. ASSUME NEW n \in 1 .. N
        PROVE  /\ \A p \in Slots(sent[n]) :
                    Pushed(sent[n], p) = yielded[Pushed(sent[n], p).pos]
               /\ \A p, q \in Slots(sent[n]) :
                    p # q => Pushed(sent[n], p).pos # Pushed(sent[n], q).pos
    <2>1. BatchOf(sent[n], yielded, cut[n - 1], cut[n])
      BY <1>4
    <2> QED BY <2>1 DEF BatchOf
  <1>9. ASSUME NEW n \in 1 .. N, NEW m \in 1 .. n - 1,
               NEW a \in Positions(sent[m]), NEW b \in Positions(sent[n])
        PROVE  a < b
    <2>1. m \in 1 .. N /\ m \in 0 .. N /\ n - 1 \in 0 .. N /\ n \in 0 .. N /\ m <= n - 1
          /\ m - 1 \in 0 .. N
      BY <1>3
    <2>2. BatchOf(sent[m], yielded, cut[m - 1], cut[m]) /\ BatchOf(sent[n], yielded, cut[n - 1], cut[n])
      BY <1>4, <2>1
    <2>3. Positions(sent[m]) = cut[m - 1] + 1 .. cut[m] /\ Positions(sent[n]) = cut[n - 1] + 1 .. cut[n]
      BY <2>2, PositionsAre
    <2>4. cut[m] <= cut[n - 1] /\ cut[m] \in Nat /\ cut[n - 1] \in Nat /\ cut[m - 1] \in Nat /\ cut[n] \in Nat
      BY <1>4, <2>1
    <2> QED BY <2>3, <2>4
  <1>10. ASSUME state # "failed" PROVE entries = SubSeq(yielded, shipped + 1, Len(yielded))
    <2>1. Rest(entries, yielded, shipped)
      BY <1>2, <1>6, <1>10 DEF Buffered, N
    <2>2. shipped \in Nat /\ shipped <= Len(yielded)
      BY <1>4, <1>6
    <2>3. PICK S : yielded \in Seq(S)
      BY <1>1 DEF IsSeq
    <2>4. PICK T : entries \in Seq(T)
      BY <1>1 DEF IsSeq
    <2>5. SubSeq(yielded, shipped + 1, Len(yielded)) =
            [i \in 1 .. Len(yielded) - shipped |-> yielded[shipped + i]]
      BY <1>3, <2>2, <2>3
    <2>6. Len(entries) = Len(yielded) - shipped /\ entries = [i \in 1 .. Len(entries) |-> entries[i]]
      BY <1>3, <2>1, <2>2, <2>4 DEF Rest
    <2> QED BY <2>1, <2>5, <2>6 DEF Rest
  <1> QED BY <1>3, <1>7, <1>8, <1>9, <1>10 DEF NothingLost, out, shipped

LEMMA InvBounded == BatchInv => Bounded
  <1> SUFFICES ASSUME BatchInv PROVE Bounded
    OBVIOUS
  <1>1. IsSeq(yielded) /\ IsSeq(entries) /\ IsSeq(sent)
    BY DEF BatchInv, BatchInvOf
  <1>2. \E cut : /\ CutBy(cut, sent, yielded)
                 /\ state # "failed" => Buffered(entries, bytes, yielded, cut[Len(sent)])
    BY DEF BatchInv, BatchInvOf
  <1>3. PICK cut : /\ CutBy(cut, sent, yielded)
                   /\ state # "failed" => Buffered(entries, bytes, yielded, cut[Len(sent)])
    BY <1>2
  <1>4. Len(entries) < MaxBatchLines /\ bytes < MaxBatchBytes /\ bytes = TotalSize(entries)
    <2>1. CASE state # "failed"
      BY <1>3, <2>1 DEF Buffered
    <2>2. CASE state = "failed"
      <3>1. entries = <<>> /\ bytes = 0
        BY <2>2 DEF BatchInv, BatchInvOf
      <3> QED BY <3>1, TotalSizeEmpty, EmptyHasNone, BatcherAssumption
    <2> QED BY <2>1, <2>2
  <1>5. Len(sent) \in Nat /\ DOMAIN sent = 1 .. Len(sent) /\ Len(yielded) \in Nat
        /\ DOMAIN yielded = 1 .. Len(yielded)
    BY <1>1, SeqFacts
  <1>6. ASSUME NEW n \in 1 .. Len(sent)
        PROVE  \E first, last \in DOMAIN yielded :
                 /\ Positions(sent[n]) = first .. last
                 /\ first <= last /\ last - first < MaxBatchLines
                 /\ TotalSize(SubSeq(yielded, first, last - 1)) < MaxBatchBytes
    <2> DEFINE lo == cut[n - 1]
               hi == cut[n]
    <2>1. BatchOf(sent[n], yielded, lo, hi)
      BY <1>3 DEF CutBy
    <2>2. hi <= Len(yielded)
      <3>1. n \in 0 .. Len(sent) /\ Len(sent) \in 0 .. Len(sent) /\ n <= Len(sent)
        BY <1>5
      <3>2. cut[n] <= cut[Len(sent)] /\ cut[Len(sent)] <= Len(yielded)
            /\ cut[n] \in Nat /\ cut[Len(sent)] \in Nat
        BY <1>3, <3>1 DEF CutBy
      <3> QED BY <1>5, <3>2
    <2> HIDE DEF lo, hi
    <2>3. lo \in Nat /\ hi \in Nat /\ lo < hi /\ hi - lo <= MaxBatchLines
          /\ TotalSize(RunOf(yielded, lo, hi - 1)) < MaxBatchBytes
      BY <2>1 DEF BatchOf
    <2>4. Positions(sent[n]) = lo + 1 .. hi
      BY <2>1, PositionsAre
    <2>5. SubSeq(yielded, lo + 1, hi - 1) = RunOf(yielded, lo, hi - 1)
      <3>1. PICK S : yielded \in Seq(S)
        BY <1>1 DEF IsSeq
      <3>2. SubSeq(yielded, lo + 1, hi - 1) = [i \in 1 .. (hi - 1) - lo |-> yielded[lo + i]]
        BY <1>5, <2>2, <2>3, <3>1
      <3> QED BY <3>2 DEF RunOf
    <2>6. lo + 1 \in DOMAIN yielded /\ hi \in DOMAIN yielded
      BY <1>5, <2>2, <2>3
    <2>7. lo + 1 <= hi /\ hi - (lo + 1) < MaxBatchLines
      BY <2>3, BatcherAssumption
    <2> QED BY <2>3, <2>4, <2>5, <2>6, <2>7
  <1> QED BY <1>4, <1>5, <1>6 DEF Bounded

LEMMA InvPayloadSound == BatchInv => PayloadSound
  <1> SUFFICES ASSUME BatchInv PROVE PayloadSound
    OBVIOUS
  <1>1. IsSeq(sent) /\ \E cut : CutBy(cut, sent, yielded)
    BY DEF BatchInv, BatchInvOf
  <1>2. PICK cut : CutBy(cut, sent, yielded)
    BY <1>1
  <1>3. DOMAIN sent = 1 .. Len(sent)
    BY <1>1, SeqFacts
  <1>4. ASSUME NEW n \in DOMAIN sent PROVE Sound(sent[n])
    <2>1. BatchOf(sent[n], yielded, cut[n - 1], cut[n])
      BY <1>2, <1>3 DEF CutBy
    <2> QED BY <2>1 DEF BatchOf
  <1> QED BY <1>4 DEF PayloadSound, Sound

-----------------------------------------------------------------------------
(* Lists in a strict order.                                                *)

\* A member's place in the list is the number of those before it.
LEMMA ListRank ==
  ASSUME NEW S, NEW R, StrictOrder(S, R), NEW a, Lists(a, S, R), NEW n \in DOMAIN a
  PROVE  n \in Nat /\ a[n] \in S /\ Cardinality(Below(S, R, a[n])) = n - 1
  <1>1. /\ Cardinality(S) \in Nat /\ DOMAIN a = 1 .. Cardinality(S)
        /\ \A m \in DOMAIN a : a[m] \in S
        /\ \A x \in S : \E m \in DOMAIN a : a[m] = x
        /\ \A m, k \in DOMAIN a : m < k => <<a[m], a[k]>> \in R
    BY DEF Lists
  <1>2. n \in Nat /\ n - 1 \in Nat /\ a[n] \in S /\ 1 .. n - 1 \subseteq DOMAIN a
    BY <1>1
  <1> DEFINE f == [m \in 1 .. n - 1 |-> a[m]]
             B == Below(S, R, a[n])
  <1>3. \A m \in 1 .. n - 1 : f[m] = a[m]
    OBVIOUS
  <1>4. ASSUME NEW m \in 1 .. n - 1 PROVE a[m] \in B
    <2>1. m \in DOMAIN a /\ m < n
      BY <1>2
    <2>2. <<a[m], a[n]>> \in R /\ a[m] \in S
      BY <1>1, <2>1
    <2> QED BY <2>2 DEF Below
  <1>5. ASSUME NEW l \in DOMAIN a, NEW m \in DOMAIN a, l # m PROVE a[l] # a[m]
    <2>1. l < m \/ m < l
      BY <1>1, <1>5
    <2>2. <<a[l], a[m]>> \in R \/ <<a[m], a[l]>> \in R
      BY <1>1, <2>1
    <2> QED BY <1>1, <2>2 DEF StrictOrder
  <1>6. ASSUME NEW x \in B PROVE \E m \in 1 .. n - 1 : a[m] = x
    <2>1. x \in S /\ <<x, a[n]>> \in R
      BY DEF Below
    <2>2. PICK m \in DOMAIN a : a[m] = x
      BY <1>1, <2>1
    <2>3. m < n
      <3>1. SUFFICES ASSUME ~ (m < n) PROVE FALSE
        OBVIOUS
      <3>2. n < m \/ n = m
        BY <1>1, <3>1
      <3>3. <<a[n], x>> \in R \/ x = a[n]
        BY <1>1, <2>2, <3>2
      <3>4. <<x, x>> \in R
        BY <1>2, <2>1, <3>3 DEF StrictOrder
      <3> QED BY <2>1, <3>4 DEF StrictOrder
    <2>4. m \in 1 .. n - 1
      BY <1>1, <1>2, <2>3
    <2> QED BY <2>2, <2>4
  <1>7. f \in Bijection(1 .. n - 1, B)
    <2>1. f \in [1 .. n - 1 -> B]
      BY <1>4
    <2> HIDE DEF f, B
    <2>2. \A l, m \in 1 .. n - 1 : f[l] = f[m] => l = m
      BY <1>2, <1>3, <1>5
    <2>3. \A x \in B : \E m \in 1 .. n - 1 : f[m] = x
      BY <1>3, <1>6
    <2> QED BY <2>1, <2>2, <2>3 DEF Bijection, Injection, Surjection, IsInjective
  <1>8. ExistsBijection(1 .. n - 1, B)
    BY <1>7 DEF ExistsBijection
  <1>9. IsFiniteSet(1 .. n - 1) /\ Cardinality(1 .. n - 1) = n - 1
    <2>1. 1 \in Int /\ n - 1 \in Int /\ (IF 1 > n - 1 THEN 0 ELSE (n - 1) - 1 + 1) = n - 1
      BY <1>2
    <2> QED BY <2>1, FS_Interval
  <1> HIDE DEF f, B
  <1>10. Cardinality(B) = n - 1
    BY <1>8, <1>9, FS_Bijection
  <1> QED BY <1>2, <1>10 DEF B

\* Two lists of one set in one order are one list.
LEMMA ListsSame ==
  ASSUME NEW S, NEW R, IsFiniteSet(S), StrictOrder(S, R),
         NEW a, Lists(a, S, R), NEW b, Lists(b, S, R)
  PROVE  DOMAIN a = DOMAIN b /\ \A n \in DOMAIN a : a[n] = b[n]
  <1>1. DOMAIN a = 1 .. Cardinality(S) /\ DOMAIN b = 1 .. Cardinality(S)
    BY DEF Lists
  <1>2. ASSUME NEW n \in DOMAIN a PROVE a[n] = b[n]
    <2>1. n \in Nat /\ a[n] \in S /\ Cardinality(Below(S, R, a[n])) = n - 1
      BY ListRank
    <2>2. b[n] \in S /\ Cardinality(Below(S, R, b[n])) = n - 1
      BY <1>1, ListRank
    <2>3. SUFFICES ASSUME a[n] # b[n] PROVE FALSE
      OBVIOUS
    <2>4. <<a[n], b[n]>> \in R \/ <<b[n], a[n]>> \in R
      BY <2>1, <2>2, <2>3 DEF StrictOrder
    <2>5. CASE <<a[n], b[n]>> \in R
      <3>1. Cardinality(Below(S, R, a[n])) < Cardinality(Below(S, R, b[n]))
        BY <2>1, <2>2, <2>5, BelowGrows
      <3> QED BY <2>1, <2>2, <3>1
    <2>6. CASE <<b[n], a[n]>> \in R
      <3>1. Cardinality(Below(S, R, b[n])) < Cardinality(Below(S, R, a[n]))
        BY <2>1, <2>2, <2>6, BelowGrows
      <3> QED BY <2>1, <2>2, <3>1
    <2> QED BY <2>4, <2>5, <2>6
  <1> QED BY <1>1, <1>2

\* As many as it takes to name each once.
LEMMA CountedBy ==
  ASSUME NEW S, NEW K \in Nat, NEW a, \A m \in 1 .. K : a[m] \in S,
         \A x \in S : \E m \in 1 .. K : a[m] = x,
         \A l, m \in 1 .. K : l # m => a[l] # a[m]
  PROVE  IsFiniteSet(S) /\ Cardinality(S) = K
  <1> DEFINE f == [m \in 1 .. K |-> a[m]]
  <1>1. f \in [1 .. K -> S] /\ \A m \in 1 .. K : f[m] = a[m]
    OBVIOUS
  <1> HIDE DEF f
  <1>2. f \in Bijection(1 .. K, S)
    BY <1>1 DEF Bijection, Injection, Surjection, IsInjective
  <1>3. IsFiniteSet(1 .. K) /\ Cardinality(1 .. K) = K
    <2>1. 1 \in Int /\ K \in Int /\ (IF 1 > K THEN 0 ELSE K - 1 + 1) = K
      OBVIOUS
    <2> QED BY <2>1, FS_Interval
  <1>4. ExistsBijection(1 .. K, S)
    BY <1>2 DEF ExistsBijection
  <1> QED BY <1>3, <1>4, FS_Bijection

\* a has all of S, rising.
Rises(a, K, S) ==
  /\ K \in Nat /\ DOMAIN a = 1 .. K
  /\ \A m \in 1 .. K : a[m] \in S
  /\ \A x \in S : \E m \in 1 .. K : a[m] = x
  /\ \A l, m \in 1 .. K : l < m => a[l] < a[m]

\* Rising indices that are all of S are what Ascending makes of it.
LEMMA RisingIsAscending ==
  ASSUME NEW N \in Nat, NEW S, S \subseteq 1 .. N, NEW K, NEW a, Rises(a, K, S)
  PROVE  DOMAIN Ascending(S) = 1 .. K /\ \A m \in 1 .. K : Ascending(S)[m] = a[m]
  <1>0. /\ K \in Nat /\ DOMAIN a = 1 .. K
        /\ \A m \in 1 .. K : a[m] \in S
        /\ \A x \in S : \E m \in 1 .. K : a[m] = x
        /\ \A l, m \in 1 .. K : l < m => a[l] < a[m]
    BY DEF Rises
  <1> DEFINE R == {p \in S \X S : p[1] < p[2]}
  <1>1. IsFiniteSet(S)
    <2>1. IsFiniteSet(1 .. N)
      BY FS_Interval
    <2> QED BY <2>1, FS_Subset
  <1>2. \A x, y \in S : <<x, y>> \in R <=> x < y
    OBVIOUS
  <1>a. Ascending(S) = Ranked(S, R)
    BY DEF Ascending
  <1> HIDE DEF R
  <1>3. StrictOrder(S, R)
    <2>1. \A x \in S : x \in Int
      OBVIOUS
    <2> QED BY <1>2, <2>1 DEF StrictOrder
  <1>4. Lists(Ascending(S), S, R)
    BY <1>1, <1>3, <1>a, RankedLists
  <1>5. \A m \in 1 .. K : a[m] \in Int
    <2>1. \A x \in S : x \in Int
      OBVIOUS
    <2> QED BY <1>0, <2>1
  <1>6. Cardinality(S) = K
    <2>1. \A l, m \in 1 .. K : l # m => a[l] # a[m]
      BY <1>0, <1>5, AscendingDiffer
    <2> QED BY <1>0, <2>1, CountedBy
  <1>7. Lists(a, S, R)
    BY <1>0, <1>2, <1>6 DEF Lists
  <1>8. DOMAIN a = DOMAIN Ascending(S) /\ \A m \in DOMAIN a : a[m] = Ascending(S)[m]
    BY <1>1, <1>3, <1>4, <1>7, ListsSame
  <1> QED BY <1>0, <1>8

-----------------------------------------------------------------------------
(* Runs, one after another.                                                *)

\* One sequence after another.
LEMMA JoinSeq ==
  ASSUME NEW s, IsSeq(s), NEW t, IsSeq(t)
  PROVE  /\ IsSeq(s \o t) /\ Len(s) \in Nat /\ Len(t) \in Nat /\ Len(s \o t) = Len(s) + Len(t)
         /\ \A i \in 1 .. Len(s) : (s \o t)[i] = s[i]
         /\ \A i \in 1 .. Len(t) : (s \o t)[Len(s) + i] = t[i]
  <1>1. PICK S : s \in Seq(S)
    BY DEF IsSeq
  <1>2. PICK T : t \in Seq(T)
    BY DEF IsSeq
  <1> DEFINE U == S \cup T
  <1>3. s \in Seq(U) /\ t \in Seq(U)
    BY <1>1, <1>2
  <1> HIDE DEF U
  <1>4. s \o t \in Seq(U) /\ Len(s) \in Nat /\ Len(t) \in Nat
    BY <1>3
  <1> QED BY <1>3, <1>4 DEF IsSeq

\* What a place is.
LEMMA PlaceIs ==
  ASSUME NEW runs, NEW p
  PROVE  p \in Places(runs) <=> /\ p = <<p[1], p[2]>> /\ p[1] \in DOMAIN runs
                                /\ p[2] \in DOMAIN runs[p[1]]
  <1>1. p \in Places(runs) <=> \E r \in DOMAIN runs : p \in {r} \X DOMAIN runs[r]
    BY DEF Places
  <1>2. \A r \in DOMAIN runs :
          p \in {r} \X DOMAIN runs[r] <=> p = <<p[1], p[2]>> /\ p[1] = r /\ p[2] \in DOMAIN runs[r]
    OBVIOUS
  <1> QED BY <1>1, <1>2

\* c is the runs, one after another: f[i] is the place its line i comes from.
Joins(c, f, runs) ==
  /\ IsSeq(c) /\ DOMAIN f = 1 .. Len(c)
  /\ \A i \in 1 .. Len(c) : f[i] \in Places(runs) /\ c[i] = LineAt(runs, f[i])
  /\ \A p \in Places(runs) : \E i \in 1 .. Len(c) : f[i] = p
  /\ \A i, j \in 1 .. Len(c) : i < j => Ahead(f[i], f[j])

\* One run more.
LEMMA JoinsMore ==
  ASSUME NEW c, NEW f, NEW runs, Joins(c, f, runs), NEW R \in Nat, DOMAIN runs = 1 .. R,
         NEW x, IsSeq(x), NEW more, DOMAIN more = 1 .. R + 1,
         \A r \in 1 .. R : more[r] = runs[r], more[R + 1] = x
  PROVE  \E g : Joins(c \o x, g, more)
  <1> DEFINE C == Len(c)
             X == Len(x)
             At(i) == IF i <= C THEN f[i] ELSE <<R + 1, i - C>>
             g == [i \in 1 .. C + X |-> At(i)]
             cx == c \o x
  <1>1. /\ IsSeq(cx) /\ C \in Nat /\ X \in Nat /\ Len(cx) = C + X
        /\ \A i \in 1 .. C : cx[i] = c[i]
        /\ \A i \in 1 .. X : cx[C + i] = x[i]
    BY JoinSeq DEF Joins
  <1>2. DOMAIN x = 1 .. X
    BY SeqFacts
  <1>3. /\ DOMAIN g = 1 .. C + X
        /\ \A i \in 1 .. C : g[i] = f[i]
        /\ \A i \in C + 1 .. C + X : g[i] = <<R + 1, i - C>>
    <2>1. \A i \in 1 .. C : i \in 1 .. C + X /\ i <= C
      BY <1>1
    <2>2. \A i \in C + 1 .. C + X : i \in 1 .. C + X /\ ~ (i <= C)
      BY <1>1
    <2> QED BY <2>1, <2>2
  <1>4. \A i \in 1 .. C + X : i \in 1 .. C \/ (i \in C + 1 .. C + X /\ i - C \in 1 .. X)
    BY <1>1
  <1>5. /\ \A i \in 1 .. C : f[i] \in Places(runs) /\ c[i] = LineAt(runs, f[i])
        /\ \A p \in Places(runs) : \E i \in 1 .. C : f[i] = p
        /\ \A i, j \in 1 .. C : i < j => Ahead(f[i], f[j])
    BY DEF Joins
  <1> HIDE DEF C, X, g, cx
  <1>6. ASSUME NEW i \in 1 .. C PROVE g[i] \in Places(more) /\ cx[i] = LineAt(more, g[i]) /\ g[i][1] \in 1 .. R
    <2>1. /\ f[i] = <<f[i][1], f[i][2]>> /\ f[i][1] \in 1 .. R
          /\ f[i][2] \in DOMAIN runs[f[i][1]]
      BY <1>5, PlaceIs
    <2>2. f[i][1] \in DOMAIN more /\ more[f[i][1]] = runs[f[i][1]]
      BY <2>1
    <2>3. f[i] \in Places(more)
      BY <2>1, <2>2, PlaceIs
    <2>4. cx[i] = LineAt(more, f[i])
      BY <1>1, <1>5, <2>2 DEF LineAt
    <2> QED BY <1>3, <2>1, <2>3, <2>4
  <1>7. ASSUME NEW i \in C + 1 .. C + X
        PROVE  g[i] \in Places(more) /\ cx[i] = LineAt(more, g[i]) /\ g[i] = <<R + 1, i - C>>
    <2>1. g[i] = <<R + 1, i - C>> /\ i - C \in 1 .. X
      BY <1>1, <1>3
    <2>2. g[i][1] = R + 1 /\ g[i][2] = i - C /\ R + 1 \in DOMAIN more
      BY <2>1
    <2>3. g[i] \in Places(more)
      BY <1>2, <2>1, <2>2, PlaceIs
    <2>4. cx[i] = x[i - C]
      <3>1. C + (i - C) = i
        BY <1>1
      <3> QED BY <1>1, <2>1, <3>1
    <2> QED BY <2>1, <2>2, <2>3, <2>4 DEF LineAt
  <1>8. ASSUME NEW p \in Places(more) PROVE \E i \in 1 .. C + X : g[i] = p
    <2>1. p = <<p[1], p[2]>> /\ p[1] \in 1 .. R + 1 /\ p[2] \in DOMAIN more[p[1]]
      BY PlaceIs
    <2>2. CASE p[1] \in 1 .. R
      <3>1. p \in Places(runs)
        BY <2>1, <2>2, PlaceIs
      <3>2. PICK i \in 1 .. C : f[i] = p
        BY <1>5, <3>1
      <3>3. i \in 1 .. C + X
        BY <1>1
      <3> QED BY <1>3, <3>2, <3>3
    <2>3. CASE p[1] = R + 1
      <3>1. p[2] \in 1 .. X
        BY <1>2, <2>1, <2>3
      <3>2. C + p[2] \in C + 1 .. C + X /\ (C + p[2]) - C = p[2] /\ C + p[2] \in 1 .. C + X
        BY <1>1, <3>1
      <3>3. g[C + p[2]] = <<R + 1, p[2]>>
        BY <1>3, <3>2
      <3> QED BY <2>1, <2>3, <3>2, <3>3
    <2> QED BY <2>1, <2>2, <2>3
  <1>9. ASSUME NEW i \in 1 .. C + X, NEW j \in 1 .. C + X, i < j PROVE Ahead(g[i], g[j])
    <2>1. CASE i \in 1 .. C /\ j \in 1 .. C
      BY <1>3, <1>5, <1>9, <2>1
    <2>2. CASE i \in 1 .. C /\ j \in C + 1 .. C + X
      <3>1. g[i][1] \in 1 .. R /\ g[j] = <<R + 1, j - C>>
        BY <1>6, <1>7, <2>2
      <3> QED BY <3>1 DEF Ahead
    <2>3. CASE i \in C + 1 .. C + X /\ j \in C + 1 .. C + X
      <3>1. g[i] = <<R + 1, i - C>> /\ g[j] = <<R + 1, j - C>>
        BY <1>7, <2>3
      <3> QED BY <1>1, <1>9, <3>1 DEF Ahead
    <2>4. ~ (i \in C + 1 .. C + X /\ j \in 1 .. C)
      BY <1>1, <1>9
    <2> QED BY <1>4, <2>1, <2>2, <2>3, <2>4
  <1>10. \A i \in 1 .. C + X : g[i] \in Places(more) /\ cx[i] = LineAt(more, g[i])
    BY <1>4, <1>6, <1>7
  <1>11. Joins(cx, g, more)
    BY <1>1, <1>3, <1>8, <1>9, <1>10 DEF Joins
  <1> QED BY <1>11 DEF cx

\* A single run.
LEMMA JoinsOne ==
  ASSUME NEW x, IsSeq(x), NEW runs, DOMAIN runs = 1 .. 1, runs[1] = x
  PROVE  \E f : Joins(x, f, runs)
  <1> DEFINE X == Len(x)
             f == [i \in 1 .. X |-> <<1, i>>]
  <1>1. X \in Nat /\ DOMAIN x = 1 .. X
    BY SeqFacts
  <1>2. DOMAIN f = 1 .. X /\ \A i \in 1 .. X : f[i] = <<1, i>>
    OBVIOUS
  <1> HIDE DEF X, f
  <1>3. ASSUME NEW i \in 1 .. X PROVE f[i] \in Places(runs) /\ x[i] = LineAt(runs, f[i])
    <2>1. f[i] = <<1, i>> /\ f[i][1] = 1 /\ f[i][2] = i /\ 1 \in DOMAIN runs
      BY <1>2
    <2>2. f[i] \in Places(runs)
      BY <1>1, <2>1, PlaceIs
    <2> QED BY <2>1, <2>2 DEF LineAt
  <1>4. ASSUME NEW p \in Places(runs) PROVE \E i \in 1 .. X : f[i] = p
    <2>1. p = <<p[1], p[2]>> /\ p[1] \in 1 .. 1 /\ p[2] \in DOMAIN runs[p[1]]
      BY PlaceIs
    <2>2. p[1] = 1
      BY <2>1
    <2>3. p[2] \in 1 .. X
      BY <1>1, <2>1, <2>2
    <2> QED BY <1>2, <2>1, <2>2, <2>3
  <1>5. \A i, j \in 1 .. X : i < j => Ahead(f[i], f[j])
    <2>1. ASSUME NEW i \in 1 .. X, NEW j \in 1 .. X, i < j PROVE Ahead(f[i], f[j])
      BY <1>2, <2>1 DEF Ahead
    <2> QED BY <2>1
  <1>6. Joins(x, f, runs)
    BY <1>2, <1>3, <1>4, <1>5 DEF Joins, X
  <1> QED BY <1>6

\* All indices, ascending.
LEMMA AscendingAll ==
  ASSUME NEW R \in Nat
  PROVE  DOMAIN Ascending(1 .. R) = 1 .. R /\ \A m \in 1 .. R : Ascending(1 .. R)[m] = m
  <1> DEFINE id == [i \in 1 .. R |-> i]
             S == 1 .. R
  <1>1. S \subseteq 1 .. R /\ \A m \in 1 .. R : id[m] = m
    OBVIOUS
  <1>2. Rises(id, R, S)
    BY DEF Rises
  <1> HIDE DEF id, S
  <1>3. DOMAIN Ascending(S) = 1 .. R /\ \A m \in 1 .. R : Ascending(S)[m] = id[m]
    BY <1>1, <1>2, RisingIsAscending
  <1> QED BY <1>1, <1>3 DEF S

\* Every run is one line.
Units(runs, line, R) ==
  /\ R \in Nat /\ DOMAIN runs = 1 .. R
  /\ \A r \in 1 .. R : DOMAIN runs[r] = 1 .. 1 /\ runs[r][1] = line[r]

\* Runs of one line each: the lines themselves.
LEMMA JoinsUnits ==
  ASSUME NEW c, NEW f, NEW runs, Joins(c, f, runs), NEW R, NEW line, Units(runs, line, R)
  PROVE  Len(c) = R /\ \A i \in 1 .. R : c[i] = line[i]
  <1>0. /\ R \in Nat /\ DOMAIN runs = 1 .. R
        /\ \A r \in 1 .. R : DOMAIN runs[r] = 1 .. 1 /\ runs[r][1] = line[r]
    BY DEF Units
  <1> DEFINE C == Len(c)
             a == [i \in 1 .. C |-> f[i][1]]
  <1>1. /\ \A i \in 1 .. C : f[i] \in Places(runs) /\ c[i] = LineAt(runs, f[i])
        /\ \A p \in Places(runs) : \E i \in 1 .. C : f[i] = p
        /\ \A i, j \in 1 .. C : i < j => Ahead(f[i], f[j])
    BY DEF Joins
  <1>r. R \in Nat
    BY <1>0
  <1>2. C \in Nat
    BY SeqFacts DEF Joins
  <1>3. ASSUME NEW i \in 1 .. C PROVE f[i][1] \in 1 .. R /\ f[i][2] = 1 /\ f[i] = <<f[i][1], 1>>
    <2>1. /\ f[i] = <<f[i][1], f[i][2]>> /\ f[i][1] \in DOMAIN runs
          /\ f[i][2] \in DOMAIN runs[f[i][1]]
      BY <1>1, PlaceIs
    <2>2. f[i][2] = 1
      BY <1>0, <2>1
    <2> QED BY <1>0, <2>1, <2>2
  <1>4. ASSUME NEW r \in 1 .. R PROVE \E i \in 1 .. C : f[i][1] = r
    <2> DEFINE p == <<r, 1>>
    <2>1. p[1] = r /\ p[2] = 1 /\ p = <<p[1], p[2]>>
      OBVIOUS
    <2>2. p[1] \in DOMAIN runs /\ p[2] \in DOMAIN runs[p[1]]
      BY <1>0, <2>1
    <2> HIDE DEF p
    <2>3. p \in Places(runs)
      BY <2>1, <2>2, PlaceIs
    <2> QED BY <1>1, <2>1, <2>3
  <1>5. ASSUME NEW i \in 1 .. C, NEW j \in 1 .. C, i < j PROVE f[i][1] < f[j][1]
    <2>1. Ahead(f[i], f[j]) /\ f[i][2] = 1 /\ f[j][2] = 1
      BY <1>1, <1>3, <1>5
    <2> QED BY <2>1 DEF Ahead
  <1> DEFINE S == 1 .. R
  <1>6. DOMAIN a = 1 .. C /\ \A i \in 1 .. C : a[i] = f[i][1]
    OBVIOUS
  <1> HIDE DEF C, a
  <1>8. DOMAIN Ascending(S) = 1 .. C /\ \A m \in 1 .. C : Ascending(S)[m] = a[m]
    <2>1. Rises(a, C, S)
      BY <1>2, <1>3, <1>4, <1>5, <1>6 DEF Rises
    <2>2. S \subseteq 1 .. R
      OBVIOUS
    <2> HIDE DEF S
    <2> QED BY <1>r, <2>1, <2>2, RisingIsAscending
  <1>9. DOMAIN Ascending(S) = 1 .. R /\ \A m \in 1 .. R : Ascending(S)[m] = m
    BY <1>r, AscendingAll
  <1>10. C = R
    <2>1. 1 .. C = 1 .. R
      BY <1>8, <1>9
    <2> QED BY <1>r, <1>2, <2>1
  <1>11. ASSUME NEW i \in 1 .. R PROVE c[i] = line[i]
    <2>1. f[i] = <<i, 1>>
      BY <1>3, <1>6, <1>8, <1>9, <1>10
    <2>2. c[i] = runs[i][1]
      BY <1>1, <1>10, <2>1 DEF LineAt
    <2> QED BY <1>0, <2>2
  <1> QED BY <1>10, <1>11 DEF C

-----------------------------------------------------------------------------
(* The Map of the Node library.                                            *)

\* up fills a Map step by step, as Gathered does.
GathersUp(up, keys, runs, len) ==
  up = [n \in 0 .. len |-> IF n = 0 THEN <<>> ELSE Into(up[n - 1], keys[n], runs[n])]

\* Such Maps exist up to every length ...
LEMMA GathersExist ==
  ASSUME NEW keys, NEW runs, NEW len \in Nat PROVE \E up : GathersUp(up, keys, runs, len)
  <1> DEFINE T == {n \in Nat : \E up : GathersUp(up, keys, runs, n)}
  <1>1. 0 \in T
    <2>1. GathersUp([n \in 0 .. 0 |-> <<>>], keys, runs, 0)
      BY DEF GathersUp
    <2> QED BY <2>1
  <1>2. ASSUME NEW n \in Nat, n \in T PROVE n + 1 \in T
    <2>1. PICK up : GathersUp(up, keys, runs, n)
      BY <1>2
    <2> DEFINE last == Into(up[n], keys[n + 1], runs[n + 1])
               more == [m \in 0 .. n + 1 |-> IF m = n + 1 THEN last ELSE up[m]]
    <2>2. \A m \in 0 .. n : more[m] = up[m]
      OBVIOUS
    <2>3. more[n + 1] = last /\ DOMAIN more = 0 .. n + 1
      OBVIOUS
    <2>4. more = [m \in 0 .. n + 1 |-> more[m]]
      OBVIOUS
    <2> HIDE DEF more
    <2>5. ASSUME NEW m \in 0 .. n + 1
          PROVE  more[m] = IF m = 0 THEN <<>> ELSE Into(more[m - 1], keys[m], runs[m])
      <3>1. CASE m = n + 1
        <4>1. m # 0 /\ m - 1 = n /\ more[m - 1] = up[n]
          BY <2>2, <3>1
        <4> QED BY <2>3, <3>1, <4>1
      <3>2. CASE m # n + 1
        <4>1. m \in 0 .. n /\ (m # 0 => m - 1 \in 0 .. n)
          BY <3>2
        <4>2. up[m] = IF m = 0 THEN <<>> ELSE Into(up[m - 1], keys[m], runs[m])
          BY <2>1, <4>1 DEF GathersUp
        <4> QED BY <2>2, <4>1, <4>2
      <3> QED BY <3>1, <3>2
    <2>6. GathersUp(more, keys, runs, n + 1)
      BY <2>4, <2>5 DEF GathersUp
    <2> QED BY <2>6
  <1>3. Nat \subseteq T
    <2> HIDE DEF T
    <2> QED BY <1>1, <1>2, NatSetInduction
  <1> QED BY <1>3

\* ... so Gathered is the last of them.
LEMMA GatheredUp ==
  ASSUME NEW keys, NEW runs, Len(keys) \in Nat
  PROVE  \E up : GathersUp(up, keys, runs, Len(keys)) /\ Gathered(keys, runs) = up[Len(keys)]
  <1> DEFINE all == CHOOSE up : GathersUp(up, keys, runs, Len(keys))
  <1>1. GathersUp(all, keys, runs, Len(keys))
    BY GathersExist
  <1>2. Gathered(keys, runs) = all[Len(keys)]
    BY DEF Gathered, GathersUp
  <1> QED BY <1>1, <1>2

\* A member replaced.
LEMMA ReplaceSeq ==
  ASSUME NEW s, IsSeq(s), NEW k \in 1 .. Len(s), NEW v, NEW t, t = [s EXCEPT ![k] = v]
  PROVE  /\ IsSeq(t) /\ Len(t) = Len(s) /\ t[k] = v
         /\ \A i \in 1 .. Len(s) : i # k => t[i] = s[i]
  <1>1. PICK S : s \in Seq(S)
    BY DEF IsSeq
  <1>2. s \in Seq(S \cup {v})
    BY <1>1
  <1>3. t \in Seq(S \cup {v})
    BY <1>2
  <1> QED BY <1>2, <1>3 DEF IsSeq

\* The indices with a key.
OfKey(keys, n, k) == {i \in 1 .. n : keys[i] = k}

\* One group: the runs with its key, one after another.
GroupOf(gr, at, keys, runs, n) ==
  /\ gr = [labels |-> gr.labels, entries |-> gr.entries]
  /\ \E K \in Nat \ {0} : Rises(at, K, OfKey(keys, n, gr.labels))
  /\ \E f : Joins(gr.entries, f, [r \in DOMAIN at |-> runs[at[r]]])

\* A run of another key leaves it alone.
LEMMA GroupStays ==
  ASSUME NEW gr, NEW at, NEW keys, NEW runs, NEW n \in Nat, GroupOf(gr, at, keys, runs, n),
         keys[n + 1] # gr.labels
  PROVE  GroupOf(gr, at, keys, runs, n + 1)
  <1>1. OfKey(keys, n + 1, gr.labels) = OfKey(keys, n, gr.labels)
    <2>1. \A i : i \in 1 .. n + 1 <=> i \in 1 .. n \/ i = n + 1
      OBVIOUS
    <2> QED BY <2>1 DEF OfKey
  <1> QED BY <1>1 DEF GroupOf

\* A group with a run more.
Longer(gr, x) == [labels |-> gr.labels, entries |-> gr.entries \o x]

\* A run of its key is added at the end.
LEMMA GroupGrows ==
  ASSUME NEW gr, NEW at, NEW keys, NEW runs, NEW n \in Nat, GroupOf(gr, at, keys, runs, n),
         keys[n + 1] = gr.labels, IsSeq(runs[n + 1]), NEW new, new = Longer(gr, runs[n + 1])
  PROVE  \E more : GroupOf(new, more, keys, runs, n + 1) /\ more[1] = at[1]
  <1> DEFINE name == gr.labels
             x == runs[n + 1]
             S == OfKey(keys, n, name)
             T == OfKey(keys, n + 1, name)
             was == [r \in DOMAIN at |-> runs[at[r]]]
  <1>1. PICK K \in Nat \ {0} : Rises(at, K, S)
    BY DEF GroupOf
  <1>2. PICK f : Joins(gr.entries, f, was)
    BY DEF GroupOf
  <1>3. /\ DOMAIN at = 1 .. K
        /\ \A m \in 1 .. K : at[m] \in S
        /\ \A i \in S : \E m \in 1 .. K : at[m] = i
        /\ \A l, m \in 1 .. K : l < m => at[l] < at[m]
    BY <1>1 DEF Rises
  <1>4. \A i : i \in S <=> i \in 1 .. n /\ keys[i] = name
    BY DEF OfKey
  <1>5. \A i : i \in T <=> i \in S \/ i = n + 1
    <2>1. \A i : i \in T <=> i \in 1 .. n + 1 /\ keys[i] = name
      BY DEF OfKey
    <2>2. \A i : i \in 1 .. n + 1 <=> i \in 1 .. n \/ i = n + 1
      OBVIOUS
    <2> QED BY <1>4, <2>1, <2>2
  <1> DEFINE more == [m \in 1 .. K + 1 |-> IF m = K + 1 THEN n + 1 ELSE at[m]]
             now == [r \in DOMAIN more |-> runs[more[r]]]
  <1>6. /\ DOMAIN more = 1 .. K + 1 /\ more[K + 1] = n + 1
        /\ \A m \in 1 .. K : more[m] = at[m]
    OBVIOUS
  <1>7. \A m \in 1 .. K + 1 : m \in 1 .. K \/ m = K + 1
    OBVIOUS
  <1> HIDE DEF S, T, name, x, more
  <1>8. Rises(more, K + 1, T)
    <2>1. ASSUME NEW m \in 1 .. K + 1 PROVE more[m] \in T
      BY <1>3, <1>5, <1>6, <1>7
    <2>2. ASSUME NEW i \in T PROVE \E m \in 1 .. K + 1 : more[m] = i
      <3>1. CASE i \in S
        <4>1. PICK m \in 1 .. K : at[m] = i
          BY <1>3, <3>1
        <4> QED BY <1>6, <4>1
      <3>2. CASE i = n + 1
        BY <1>6, <3>2
      <3> QED BY <1>5, <3>1, <3>2
    <2>3. ASSUME NEW l \in 1 .. K + 1, NEW m \in 1 .. K + 1, l < m PROVE more[l] < more[m]
      <3>1. l \in 1 .. K
        BY <1>7, <2>3
      <3>2. CASE m \in 1 .. K
        BY <1>3, <1>6, <2>3, <3>1, <3>2
      <3>3. CASE m = K + 1
        <4>1. at[l] \in 1 .. n
          BY <1>3, <1>4, <3>1
        <4> QED BY <1>6, <3>1, <3>3, <4>1
      <3> QED BY <1>7, <3>2, <3>3
    <2> QED BY <1>6, <2>1, <2>2, <2>3 DEF Rises
  <1>9. \E g : Joins(gr.entries \o x, g, now)
    <2>1. DOMAIN was = 1 .. K /\ \A r \in 1 .. K : was[r] = runs[at[r]]
      BY <1>3
    <2>2. /\ DOMAIN now = 1 .. K + 1 /\ now[K + 1] = x
          /\ \A r \in 1 .. K : now[r] = was[r]
      BY <1>6, <2>1 DEF x
    <2>3. IsSeq(x)
      BY DEF x
    <2> HIDE DEF was, now
    <2> QED BY <1>2, <2>1, <2>2, <2>3, JoinsMore
  <1>10. new.labels = name /\ new.entries = gr.entries \o x
    BY DEF name, x, Longer
  <1>11. new = [labels |-> new.labels, entries |-> new.entries]
    BY <1>10 DEF name, x, Longer
  <1>12. GroupOf(new, more, keys, runs, n + 1)
    <2>1. T = OfKey(keys, n + 1, new.labels)
      BY <1>10 DEF T
    <2>2. K + 1 \in Nat \ {0} /\ Rises(more, K + 1, OfKey(keys, n + 1, new.labels))
      BY <1>8, <2>1
    <2>3. \E L \in Nat \ {0} : Rises(more, L, OfKey(keys, n + 1, new.labels))
      BY <2>2
    <2>4. \E g : Joins(new.entries, g, now)
      BY <1>9, <1>10
    <2> QED BY <1>11, <2>3, <2>4 DEF GroupOf
  <1>13. more[1] = at[1]
    BY <1>6
  <1> QED BY <1>12, <1>13

\* The first run of a key.
LEMMA GroupStarts ==
  ASSUME NEW keys, NEW runs, NEW n \in Nat, IsSeq(runs[n + 1]),
         \A i \in 1 .. n : keys[i] # keys[n + 1],
         NEW new, new = [labels |-> keys[n + 1], entries |-> runs[n + 1]]
  PROVE  \E at : GroupOf(new, at, keys, runs, n + 1) /\ at[1] = n + 1
  <1> DEFINE at == [m \in 1 .. 1 |-> n + 1]
             T == OfKey(keys, n + 1, keys[n + 1])
             now == [r \in DOMAIN at |-> runs[at[r]]]
             x == runs[n + 1]
  <1>1. DOMAIN at = 1 .. 1 /\ at[1] = n + 1
    OBVIOUS
  <1>2. \A i : i \in T <=> i = n + 1
    <2>1. \A i : i \in 1 .. n + 1 <=> i \in 1 .. n \/ i = n + 1
      OBVIOUS
    <2> QED BY <2>1 DEF OfKey
  <1>3. \A m \in 1 .. 1 : m = 1
    OBVIOUS
  <1> HIDE DEF at, T, x
  <1>4. Rises(at, 1, T)
    <2>1. ASSUME NEW i \in T PROVE \E m \in 1 .. 1 : at[m] = i
      BY <1>1, <1>2
    <2>2. \A m \in 1 .. 1 : at[m] \in T
      BY <1>1, <1>2, <1>3
    <2>3. \A l, m \in 1 .. 1 : ~ (l < m)
      OBVIOUS
    <2> QED BY <1>1, <2>1, <2>2, <2>3 DEF Rises
  <1>5. \E f : Joins(x, f, now)
    <2>1. DOMAIN now = 1 .. 1 /\ now[1] = x /\ IsSeq(x)
      BY <1>1 DEF x
    <2> HIDE DEF now
    <2> QED BY <2>1, JoinsOne
  <1>6. new.labels = keys[n + 1] /\ new.entries = x
    BY DEF x
  <1>7. new = [labels |-> new.labels, entries |-> new.entries]
    BY <1>6 DEF x
  <1>8. GroupOf(new, at, keys, runs, n + 1)
    BY <1>4, <1>5, <1>6, <1>7 DEF GroupOf, T
  <1> QED BY <1>1, <1>8

\* g is the Map after the first n runs: at[k] are the runs of group k.
Gathers(g, at, keys, runs, n) ==
  /\ IsSeq(g)
  /\ \A k \in 1 .. Len(g) : GroupOf(g[k], at[k], keys, runs, n)
  /\ \A k, l \in 1 .. Len(g) : k < l => at[k][1] < at[l][1]
  /\ \A k, l \in 1 .. Len(g) : k # l => g[k].labels # g[l].labels
  /\ \A i \in 1 .. n : \E k \in 1 .. Len(g) : g[k].labels = keys[i]

\* A group begins with the first run of its key.
LEMMA GroupFirst ==
  ASSUME NEW gr, NEW at, NEW keys, NEW runs, NEW n \in Nat, GroupOf(gr, at, keys, runs, n)
  PROVE  /\ at[1] \in 1 .. n /\ keys[at[1]] = gr.labels
         /\ \A i \in 1 .. n : keys[i] = gr.labels => at[1] <= i
  <1>1. PICK K \in Nat \ {0} : Rises(at, K, OfKey(keys, n, gr.labels))
    BY DEF GroupOf
  <1>2. 1 \in 1 .. K
    OBVIOUS
  <1>3. at[1] \in 1 .. n /\ keys[at[1]] = gr.labels
    BY <1>1, <1>2 DEF Rises, OfKey
  <1>4. ASSUME NEW i \in 1 .. n, keys[i] = gr.labels PROVE at[1] <= i
    <2>1. PICK m \in 1 .. K : at[m] = i
      BY <1>1, <1>4 DEF Rises, OfKey
    <2>2. m = 1 \/ 1 < m
      OBVIOUS
    <2>3. 1 < m => at[1] < at[m]
      BY <1>1, <1>2 DEF Rises
    <2> QED BY <1>3, <2>1, <2>2, <2>3
  <1> QED BY <1>3, <1>4

LEMMA IntoAppends ==
  ASSUME NEW g, NEW keys, NEW runs, NEW at, NEW n \in Nat, Gathers(g, at, keys, runs, n),
         IsSeq(runs[n + 1]), \A k \in 1 .. Len(g) : g[k].labels # keys[n + 1]
  PROVE  \E more : Gathers(Into(g, keys[n + 1], runs[n + 1]), more, keys, runs, n + 1)
  <1> DEFINE G == Len(g)
             new == [labels |-> keys[n + 1], entries |-> runs[n + 1]]
             h == Append(g, new)
  <1>1. /\ IsSeq(h) /\ G \in Nat /\ Len(h) = G + 1 /\ DOMAIN g = 1 .. G
        /\ \A k \in 1 .. G : h[k] = g[k]
        /\ h[G + 1] = new
    BY AppendSeq DEF Gathers
  <1>2. Into(g, keys[n + 1], runs[n + 1]) = h
    <2>1. {i \in DOMAIN g : g[i].labels = keys[n + 1]} = {}
      BY <1>1
    <2> QED BY <2>1 DEF Into
  <1>3. \A i \in 1 .. n : keys[i] # keys[n + 1]
    BY DEF Gathers
  <1>4. new.labels = keys[n + 1]
    OBVIOUS
  <1>5. PICK last : GroupOf(new, last, keys, runs, n + 1) /\ last[1] = n + 1
    <2> HIDE DEF new
    <2>1. new = [labels |-> keys[n + 1], entries |-> runs[n + 1]]
      BY DEF new
    <2> QED BY <1>3, <2>1, GroupStarts
  <1> DEFINE more == [k \in 1 .. G + 1 |-> IF k = G + 1 THEN last ELSE at[k]]
  <1>6. more[G + 1] = last /\ \A k \in 1 .. G : more[k] = at[k]
    BY <1>1
  <1>7. \A k \in 1 .. G + 1 : k \in 1 .. G \/ k = G + 1
    BY <1>1
  <1> HIDE DEF new, h, more, G
  <1>8. ASSUME NEW k \in 1 .. G
        PROVE  GroupOf(h[k], more[k], keys, runs, n + 1) /\ more[k][1] \in 1 .. n
               /\ h[k].labels # keys[n + 1]
    <2>1. GroupOf(g[k], at[k], keys, runs, n)
      BY DEF Gathers, G
    <2>2. at[k][1] \in 1 .. n
      BY <2>1, GroupFirst
    <2>3. g[k].labels # keys[n + 1]
      BY DEF G
    <2>4. GroupOf(g[k], at[k], keys, runs, n + 1)
      BY <2>1, <2>3, GroupStays
    <2> QED BY <1>1, <1>6, <2>2, <2>3, <2>4
  <1>9. \A k \in 1 .. G + 1 : GroupOf(h[k], more[k], keys, runs, n + 1)
    BY <1>1, <1>5, <1>6, <1>7, <1>8
  <1>10. ASSUME NEW k \in 1 .. G + 1, NEW l \in 1 .. G + 1, k < l PROVE more[k][1] < more[l][1]
    <2>1. k \in 1 .. G
      BY <1>1, <1>10
    <2>2. CASE l \in 1 .. G
      BY <1>6, <1>10, <2>1, <2>2 DEF Gathers, G
    <2>3. CASE l = G + 1
      BY <1>5, <1>6, <1>8, <2>1, <2>3
    <2> QED BY <1>7, <2>2, <2>3
  <1>11. ASSUME NEW k \in 1 .. G + 1, NEW l \in 1 .. G + 1, k # l PROVE h[k].labels # h[l].labels
    <2>1. CASE k \in 1 .. G /\ l \in 1 .. G
      BY <1>1, <1>11, <2>1 DEF Gathers, G
    <2>2. CASE k = G + 1 /\ l \in 1 .. G
      BY <1>1, <1>4, <1>8, <2>2
    <2>3. CASE l = G + 1 /\ k \in 1 .. G
      BY <1>1, <1>4, <1>8, <2>3
    <2> QED BY <1>7, <1>11, <2>1, <2>2, <2>3
  <1>12. ASSUME NEW i \in 1 .. n + 1 PROVE \E k \in 1 .. G + 1 : h[k].labels = keys[i]
    <2>1. CASE i \in 1 .. n
      <3>1. PICK k \in 1 .. G : g[k].labels = keys[i]
        BY <2>1 DEF Gathers, G
      <3>2. k \in 1 .. G + 1
        BY <1>1
      <3> QED BY <1>1, <3>1, <3>2
    <2>2. CASE i = n + 1
      <3>1. G + 1 \in 1 .. G + 1
        BY <1>1
      <3> QED BY <1>1, <1>4, <2>2, <3>1
    <2> QED BY <2>1, <2>2
  <1>13. Gathers(h, more, keys, runs, n + 1)
    BY <1>1, <1>9, <1>10, <1>11, <1>12 DEF Gathers
  <1> QED BY <1>2, <1>13

LEMMA LongerGroup ==
  ASSUME NEW labels, NEW es, NEW fs
  PROVE  [[labels |-> labels, entries |-> es] EXCEPT !.entries = fs] = [labels |-> labels, entries |-> fs]
  OBVIOUS

LEMMA IntoExtends ==
  ASSUME NEW g, NEW keys, NEW runs, NEW at, NEW n \in Nat, Gathers(g, at, keys, runs, n),
         IsSeq(runs[n + 1]), \E k \in 1 .. Len(g) : g[k].labels = keys[n + 1]
  PROVE  \E more : Gathers(Into(g, keys[n + 1], runs[n + 1]), more, keys, runs, n + 1)
  <1> DEFINE G == Len(g)
             found == {i \in DOMAIN g : g[i].labels = keys[n + 1]}
             c == CHOOSE i \in found : TRUE
             new == [labels |-> g[c].labels, entries |-> g[c].entries \o runs[n + 1]]
             h == [g EXCEPT ![c] = new]
  <1>1. G \in Nat /\ DOMAIN g = 1 .. G /\ IsSeq(g)
    BY SeqFacts DEF Gathers
  <1>2. c \in 1 .. G /\ g[c].labels = keys[n + 1] /\ found # {}
    <2>1. found # {}
      BY <1>1
    <2>2. c \in found
      BY <2>1
    <2> QED BY <1>1, <2>1, <2>2
  <1>3. GroupOf(g[c], at[c], keys, runs, n)
    BY <1>2 DEF Gathers
  <1>4. Into(g, keys[n + 1], runs[n + 1]) = h
    <2> DEFINE r == g[c]
               e == r.entries \o runs[n + 1]
    <2>1. Into(g, keys[n + 1], runs[n + 1]) = [g EXCEPT ![c] = [g[c] EXCEPT !.entries = g[c].entries \o runs[n + 1]]]
      <3>1. Into(g, keys[n + 1], runs[n + 1]) = [g EXCEPT ![c].entries = @ \o runs[n + 1]]
        BY <1>2, Zenon DEF Into
      <3> QED BY <3>1
    <2>2. r = [labels |-> r.labels, entries |-> r.entries]
      BY <1>3 DEF GroupOf
    <2> HIDE DEF r
    <2>3. [r EXCEPT !.entries = e] = [labels |-> r.labels, entries |-> e]
      <3>1. [[labels |-> r.labels, entries |-> r.entries] EXCEPT !.entries = e]
              = [labels |-> r.labels, entries |-> e]
        BY LongerGroup
      <3> QED BY <2>2, <3>1
    <2> QED BY <2>1, <2>3 DEF r
  <1> HIDE DEF c, found
  <1>5. /\ IsSeq(h) /\ Len(h) = G /\ h[c] = new
        /\ \A k \in 1 .. G : k # c => h[k] = g[k]
    <2> HIDE DEF new, h
    <2>1. h = [g EXCEPT ![c] = new]
      BY DEF h
    <2> QED BY <1>1, <1>2, <2>1, ReplaceSeq
  <1>6. PICK last : GroupOf(new, last, keys, runs, n + 1) /\ last[1] = at[c][1]
    <2> DEFINE gr == g[c]
               mine == at[c]
    <2>1. new = Longer(gr, runs[n + 1])
      BY DEF Longer
    <2>2. GroupOf(gr, mine, keys, runs, n) /\ keys[n + 1] = gr.labels /\ IsSeq(runs[n + 1])
      BY <1>2, <1>3
    <2> HIDE DEF gr, mine, new
    <2>3. \E last : GroupOf(new, last, keys, runs, n + 1) /\ last[1] = mine[1]
      BY <2>1, <2>2, GroupGrows
    <2> QED BY <2>3 DEF mine
  <1> DEFINE more == [k \in 1 .. G |-> IF k = c THEN last ELSE at[k]]
  <1>7. more[c] = last /\ \A k \in 1 .. G : k # c => more[k] = at[k]
    BY <1>2
  <1>8. new.labels = g[c].labels
    OBVIOUS
  <1> HIDE DEF new, h, more, G
  <1>9. ASSUME NEW k \in 1 .. G
        PROVE  /\ GroupOf(h[k], more[k], keys, runs, n + 1)
               /\ more[k][1] = at[k][1] /\ h[k].labels = g[k].labels
    <2>1. CASE k = c
      BY <1>5, <1>6, <1>7, <1>8, <2>1
    <2>2. CASE k # c
      <3>1. GroupOf(g[k], at[k], keys, runs, n)
        BY DEF Gathers, G
      <3>2. g[k].labels # keys[n + 1]
        BY <1>2, <2>2 DEF Gathers, G
      <3>3. GroupOf(g[k], at[k], keys, runs, n + 1)
        BY <3>1, <3>2, GroupStays
      <3> QED BY <1>5, <1>7, <2>2, <3>3
    <2> QED BY <2>1, <2>2
  <1>10. \A k, l \in 1 .. G : k < l => more[k][1] < more[l][1]
    BY <1>9 DEF Gathers, G
  <1>11. \A k, l \in 1 .. G : k # l => h[k].labels # h[l].labels
    BY <1>9 DEF Gathers, G
  <1>12. ASSUME NEW i \in 1 .. n + 1 PROVE \E k \in 1 .. G : h[k].labels = keys[i]
    <2>1. CASE i \in 1 .. n
      BY <1>9, <2>1 DEF Gathers, G
    <2>2. CASE i = n + 1
      BY <1>2, <1>9, <2>2
    <2> QED BY <2>1, <2>2
  <1>13. \A k \in 1 .. G : GroupOf(h[k], more[k], keys, runs, n + 1)
    BY <1>9
  <1>14. Gathers(h, more, keys, runs, n + 1)
    BY <1>5, <1>10, <1>11, <1>12, <1>13 DEF Gathers
  <1> QED BY <1>4, <1>14

\* The Map holds what was put in.
LEMMA GatheredGathers ==
  ASSUME NEW keys, NEW runs, NEW N \in Nat, Len(keys) = N, \A i \in 1 .. N : IsSeq(runs[i])
  PROVE  \E at : Gathers(Gathered(keys, runs), at, keys, runs, N)
  <1>1. PICK up : GathersUp(up, keys, runs, N) /\ Gathered(keys, runs) = up[N]
    BY GatheredUp
  <1> DEFINE T == {n \in Nat : n <= N => \E at : Gathers(up[n], at, keys, runs, n)}
  <1>2. 0 \in T
    <2>1. up[0] = <<>>
      BY <1>1 DEF GathersUp
    <2>2. IsSeq(<<>>) /\ Len(<<>>) = 0
      BY EmptyIsSeq, EmptyHasNone
    <2>3. Gathers(up[0], <<>>, keys, runs, 0)
      BY <2>1, <2>2 DEF Gathers
    <2> QED BY <2>3
  <1>3. ASSUME NEW n \in Nat, n \in T PROVE n + 1 \in T
    <2>1. SUFFICES ASSUME n + 1 <= N PROVE \E at : Gathers(up[n + 1], at, keys, runs, n + 1)
      OBVIOUS
    <2>2. PICK at : Gathers(up[n], at, keys, runs, n)
      BY <1>3, <2>1
    <2>3. up[n + 1] = Into(up[n], keys[n + 1], runs[n + 1])
      <3>1. n + 1 \in 0 .. N /\ n + 1 # 0 /\ (n + 1) - 1 = n
        BY <2>1
      <3> QED BY <1>1, <3>1 DEF GathersUp
    <2>4. IsSeq(runs[n + 1])
      BY <2>1
    <2>5. CASE \E k \in 1 .. Len(up[n]) : up[n][k].labels = keys[n + 1]
      BY <2>2, <2>3, <2>4, <2>5, IntoExtends
    <2>6. CASE \A k \in 1 .. Len(up[n]) : up[n][k].labels # keys[n + 1]
      BY <2>2, <2>3, <2>4, <2>6, IntoAppends
    <2> QED BY <2>5, <2>6
  <1>4. Nat \subseteq T
    <2> HIDE DEF T
    <2> QED BY <1>2, <1>3, NatSetInduction
  <1> QED BY <1>1, <1>4

\* Python's groups are the same: the same keys, the same members, the same order.
LEMMA GathersGroupBy ==
  ASSUME NEW N \in Nat, NEW keys, NEW runs, NEW g, NEW at, Gathers(g, at, keys, runs, N),
         NEW s, DOMAIN s = 1 .. N, NEW b, b = GroupBy(s, keys)
  PROVE  /\ DOMAIN b = 1 .. Len(g)
         /\ \A k \in 1 .. Len(g) :
              /\ b[k].key = g[k].labels
              /\ b[k].members = [m \in DOMAIN at[k] |-> s[at[k][m]]]
  <1> DEFINE G == Len(g)
             H == {i \in DOMAIN s : \A j \in 1 .. i - 1 : keys[j] # keys[i]}
             Of(k) == {i \in DOMAIN s : keys[i] = k}
             heads == Ascending(H)
             first == [k \in 1 .. G |-> at[k][1]]
  <1>1. G \in Nat
    BY SeqFacts DEF Gathers
  <1>2. DOMAIN first = 1 .. G /\ \A k \in 1 .. G : first[k] = at[k][1]
    OBVIOUS
  <1>3. /\ DOMAIN b = DOMAIN heads
        /\ \A k \in DOMAIN heads :
             /\ b[k].key = keys[heads[k]]
             /\ b[k].members = [m \in DOMAIN Ascending(Of(keys[heads[k]])) |->
                                  s[Ascending(Of(keys[heads[k]]))[m]]]
    BY DEF GroupBy
  <1>4. \A i : i \in H <=> i \in 1 .. N /\ \A j \in 1 .. i - 1 : keys[j] # keys[i]
    OBVIOUS
  <1>5. \A k : Of(k) = OfKey(keys, N, k)
    BY DEF OfKey
  <1> HIDE DEF H, Of, heads, first, G
  <1>6. ASSUME NEW k \in 1 .. G
        PROVE  /\ GroupOf(g[k], at[k], keys, runs, N)
               /\ first[k] \in 1 .. N /\ keys[first[k]] = g[k].labels
               /\ \A i \in 1 .. N : keys[i] = g[k].labels => first[k] <= i
    <2>1. GroupOf(g[k], at[k], keys, runs, N)
      BY DEF Gathers, G
    <2> QED BY <1>2, <2>1, GroupFirst
  <1>7. Rises(first, G, H)
    <2>1. ASSUME NEW k \in 1 .. G PROVE first[k] \in H
      <3>1. ASSUME NEW j \in 1 .. first[k] - 1 PROVE keys[j] # keys[first[k]]
        <4>1. j \in 1 .. N /\ j < first[k]
          BY <1>6
        <4> QED BY <1>6, <4>1
      <3> QED BY <1>4, <1>6, <3>1
    <2>2. ASSUME NEW i \in H PROVE \E k \in 1 .. G : first[k] = i
      <3>1. i \in 1 .. N /\ \A j \in 1 .. i - 1 : keys[j] # keys[i]
        BY <1>4
      <3>2. PICK k \in 1 .. G : g[k].labels = keys[i]
        BY <3>1 DEF Gathers, G
      <3>3. first[k] \in 1 .. N /\ keys[first[k]] = keys[i] /\ first[k] <= i
        BY <1>6, <3>1, <3>2
      <3>4. ~ (first[k] \in 1 .. i - 1)
        BY <3>1, <3>3
      <3> QED BY <3>1, <3>3, <3>4
    <2>3. \A k, l \in 1 .. G : k < l => first[k] < first[l]
      BY <1>2 DEF Gathers, G
    <2> QED BY <1>1, <1>2, <2>1, <2>2, <2>3 DEF Rises
  <1>8. DOMAIN heads = 1 .. G /\ \A k \in 1 .. G : heads[k] = first[k]
    <2>1. H \subseteq 1 .. N
      BY <1>4
    <2> QED BY <1>7, <2>1, RisingIsAscending DEF heads
  <1>9. ASSUME NEW k \in 1 .. G
        PROVE  /\ b[k].key = g[k].labels
               /\ b[k].members = [m \in DOMAIN at[k] |-> s[at[k][m]]]
    <2>1. b[k].key = g[k].labels
      <3>1. k \in DOMAIN heads /\ heads[k] = first[k]
        BY <1>8
      <3>2. b[k].key = keys[heads[k]]
        BY <1>3, <3>1
      <3> QED BY <1>6, <3>1, <3>2
    <2> DEFINE S == OfKey(keys, N, g[k].labels)
    <2>2. b[k].members = [m \in DOMAIN Ascending(S) |-> s[Ascending(S)[m]]]
      <3>1. keys[heads[k]] = g[k].labels /\ k \in DOMAIN heads
        BY <1>6, <1>8
      <3>2. Of(keys[heads[k]]) = S
        BY <1>5, <3>1
      <3> QED BY <1>3, <3>1, <3>2
    <2>3. PICK K \in Nat \ {0} : Rises(at[k], K, S)
      BY <1>6 DEF GroupOf
    <2>4. S \subseteq 1 .. N
      BY DEF OfKey
    <2> HIDE DEF S
    <2>5. DOMAIN Ascending(S) = 1 .. K /\ \A m \in 1 .. K : Ascending(S)[m] = at[k][m]
      BY <2>3, <2>4, RisingIsAscending
    <2>6. DOMAIN at[k] = 1 .. K
      BY <2>3 DEF Rises
    <2> QED BY <2>1, <2>2, <2>5, <2>6
  <1> QED BY <1>3, <1>8, <1>9 DEF G

\* A sequence is the table of its members.
LEMMA SeqIsFunction == ASSUME NEW s, IsSeq(s) PROVE s = [i \in 1 .. Len(s) |-> s[i]]
  <1>1. PICK S : s \in Seq(S)
    BY DEF IsSeq
  <1> QED BY <1>1

\* A table of n values is a sequence of n.
LEMMA TableIsSeq ==
  ASSUME NEW n \in Nat, NEW t, t = [i \in 1 .. n |-> t[i]]
  PROVE  IsSeq(t) /\ Len(t) = n
  <1> DEFINE S == {t[i] : i \in 1 .. n}
  <1>1. \A i \in 1 .. n : t[i] \in S
    OBVIOUS
  <1> HIDE DEF S
  <1>2. t \in [1 .. n -> S]
    BY <1>1
  <1>3. t \in Seq(S)
    BY <1>2
  <1> QED BY <1>2, <1>3 DEF IsSeq

\* A sequence of one.
LEMMA OneSeq ==
  ASSUME NEW e, NEW s, s = <<e>> PROVE IsSeq(s) /\ DOMAIN s = 1 .. 1 /\ s[1] = e
  <1>1. s \in Seq({e}) /\ s[1] = e /\ Len(s) = 1
    OBVIOUS
  <1>2. DOMAIN s = 1 .. 1
    BY <1>1
  <1>3. IsSeq(s)
    BY <1>1 DEF IsSeq
  <1> QED BY <1>1, <1>2, <1>3

\* Both libraries group entries alike.
LEMMA NodeGroupIs ==
  ASSUME NEW es, IsSeq(es)
  PROVE  NodeGroup(es) = GroupByLabels(es)
  <1> DEFINE N == Len(es)
             keys == [i \in DOMAIN es |-> es[i].labels]
             runs == [i \in DOMAIN es |-> <<es[i]>>]
             g == Gathered(keys, runs)
             b == GroupBy(es, keys)
  <1>1. N \in Nat /\ DOMAIN es = 1 .. N
    BY SeqFacts
  <1>2. /\ keys = [i \in 1 .. N |-> keys[i]]
        /\ \A i \in 1 .. N : runs[i] = <<es[i]>>
    BY <1>1
  <1>3. NodeGroup(es) = g
    BY DEF NodeGroup
  <1>4. GroupByLabels(es) = [n \in DOMAIN b |-> [labels |-> b[n].key, entries |-> b[n].members]]
    BY DEF GroupByLabels
  <1> HIDE DEF N, keys, runs, g, b
  <1>5. Len(keys) = N
    BY <1>1, <1>2, TableIsSeq
  <1>6. \A i \in 1 .. N : IsSeq(runs[i]) /\ DOMAIN runs[i] = 1 .. 1 /\ runs[i][1] = es[i]
    <2>1. ASSUME NEW i \in 1 .. N
          PROVE  IsSeq(runs[i]) /\ DOMAIN runs[i] = 1 .. 1 /\ runs[i][1] = es[i]
      <3> DEFINE s == runs[i]
                 e == es[i]
      <3>1. s = <<e>>
        BY <1>2
      <3> HIDE DEF s, e
      <3>2. IsSeq(s) /\ DOMAIN s = 1 .. 1 /\ s[1] = e
        BY <3>1, OneSeq
      <3> QED BY <3>2 DEF s, e
    <2> QED BY <2>1
  <1>7. PICK at : Gathers(g, at, keys, runs, N)
    BY <1>1, <1>5, <1>6, GatheredGathers DEF g
  <1> DEFINE G == Len(g)
  <1>8. /\ DOMAIN b = 1 .. G
        /\ \A k \in 1 .. G : /\ b[k].key = g[k].labels
                             /\ b[k].members = [m \in DOMAIN at[k] |-> es[at[k][m]]]
    BY <1>1, <1>7, GathersGroupBy DEF b
  <1>9. ASSUME NEW k \in 1 .. G PROVE g[k] = [labels |-> b[k].key, entries |-> b[k].members]
    <2> DEFINE es1 == g[k].entries
               mine == at[k]
               part == [r \in DOMAIN mine |-> runs[mine[r]]]
               line == [r \in DOMAIN mine |-> es[mine[r]]]
    <2>1. GroupOf(g[k], mine, keys, runs, N)
      BY <1>7 DEF Gathers
    <2>2. PICK K \in Nat \ {0} : Rises(mine, K, OfKey(keys, N, g[k].labels))
      BY <2>1 DEF GroupOf
    <2>3. PICK f : Joins(es1, f, part)
      BY <2>1 DEF GroupOf
    <2>4. g[k] = [labels |-> g[k].labels, entries |-> es1]
      BY <2>1 DEF GroupOf
    <2>5. DOMAIN mine = 1 .. K /\ \A m \in 1 .. K : mine[m] \in 1 .. N
      BY <2>2 DEF Rises, OfKey
    <2>6. Units(part, line, K)
      <3>1. \A r \in 1 .. K : part[r] = runs[mine[r]] /\ line[r] = es[mine[r]]
        BY <2>5
      <3>2. DOMAIN part = 1 .. K
        BY <2>5
      <3> HIDE DEF part, line, mine
      <3>3. \A r \in 1 .. K : DOMAIN part[r] = 1 .. 1 /\ part[r][1] = line[r]
        BY <1>6, <2>5, <3>1
      <3> QED BY <3>2, <3>3 DEF Units
    <2>7. line = [r \in 1 .. K |-> line[r]]
      BY <2>5
    <2>8. b[k].members = line /\ b[k].key = g[k].labels
      BY <1>8
    <2> HIDE DEF es1, part, line, mine
    <2>9. Len(es1) = K /\ \A i \in 1 .. K : es1[i] = line[i]
      BY <2>3, <2>6, JoinsUnits
    <2>10. es1 = [i \in 1 .. K |-> es1[i]]
      <3>1. IsSeq(es1)
        BY <2>3 DEF Joins
      <3> QED BY <2>9, <3>1, SeqIsFunction
    <2>11. es1 = line
      BY <2>7, <2>9, <2>10
    <2> QED BY <2>4, <2>8, <2>11
  <1>10. g = [k \in 1 .. G |-> g[k]]
    <2>1. IsSeq(g)
      BY <1>7 DEF Gathers
    <2> QED BY <2>1, SeqIsFunction
  <1> HIDE DEF G
  <1>11. [k \in 1 .. G |-> g[k]] = [n \in DOMAIN b |-> [labels |-> b[n].key, entries |-> b[n].members]]
    BY <1>8, <1>9
  <1> QED BY <1>3, <1>4, <1>10, <1>11

-----------------------------------------------------------------------------
(* The sort of the Node library.                                           *)

\* A member put in.
LEMMA InsertedAt ==
  ASSUME NEW s, IsSeq(s), NEW i \in 1 .. Len(s) + 1, NEW e, NEW t, t = InsertAt(s, i, e)
  PROVE  /\ IsSeq(t) /\ Len(t) = Len(s) + 1 /\ t[i] = e
         /\ \A j \in 1 .. i - 1 : t[j] = s[j]
         /\ \A j \in i .. Len(s) : t[j + 1] = s[j]
  <1>1. PICK S : s \in Seq(S)
    BY DEF IsSeq
  <1> DEFINE U == S \cup {e}
             N == Len(s)
             a == SubSeq(s, 1, i - 1)
             m == <<e>>
             b == SubSeq(s, i, N)
  <1>2. s \in Seq(U) /\ e \in U /\ N \in Nat
    BY <1>1
  <1>3. m \in Seq(U) /\ Len(m) = 1 /\ m[1] = e
    BY <1>2
  <1> HIDE DEF U
  <1>4. i \in Nat /\ 1 <= i /\ i <= N + 1
    BY <1>2
  <1>5. a \in Seq(U) /\ Len(a) = i - 1 /\ \A j \in 1 .. i - 1 : a[j] = s[j]
    <2>1. a \in Seq(U) /\ Len(a) = (IF 1 <= i - 1 THEN i - 1 - 1 + 1 ELSE 0)
      BY <1>2, <1>4, SubSeqProperties
    <2>2. \A j \in 1 .. i - 1 : a[j] = s[1 + j - 1] /\ 1 + j - 1 = j
      BY <1>2, <1>4
    <2> QED BY <1>4, <2>1, <2>2
  <1>6. b \in Seq(U) /\ Len(b) = N - i + 1 /\ \A j \in 1 .. N - i + 1 : b[j] = s[i + j - 1]
    <2>1. b \in Seq(U) /\ Len(b) = (IF i <= N THEN N - i + 1 ELSE 0)
      BY <1>2, <1>4, SubSeqProperties
    <2>2. \A j \in 1 .. N - i + 1 : b[j] = s[i + j - 1]
      BY <1>2, <1>4
    <2> QED BY <1>4, <1>2, <2>1, <2>2
  <1> DEFINE am == a \o m
             amb == am \o b
  <1>7. t = amb
    BY DEF InsertAt
  <1> HIDE DEF a, m, b, N
  <1>8. /\ am \in Seq(U) /\ Len(am) = i
        /\ \A j \in 1 .. i - 1 : am[j] = s[j]
        /\ am[i] = e
    <2>1. /\ am \in Seq(U) /\ Len(am) = Len(a) + Len(m)
          /\ \A j \in 1 .. Len(a) + Len(m) : am[j] = IF j <= Len(a) THEN a[j] ELSE m[j - Len(a)]
      BY <1>3, <1>5, ConcatProperties
    <2> HIDE DEF am
    <2>2. Len(am) = i /\ \A j \in 1 .. i : am[j] = IF j <= i - 1 THEN a[j] ELSE m[j - (i - 1)]
      BY <1>3, <1>4, <1>5, <2>1
    <2>3. \A j \in 1 .. i - 1 : j \in 1 .. i /\ j <= i - 1
      BY <1>4
    <2>4. i \in 1 .. i /\ ~ (i <= i - 1) /\ i - (i - 1) = 1
      BY <1>4
    <2>5. am[i] = m[1]
      BY <2>2, <2>4
    <2> QED BY <1>3, <1>5, <2>1, <2>2, <2>3, <2>5
  <1> HIDE DEF am
  <1>9. /\ amb \in Seq(U) /\ Len(amb) = N + 1
        /\ \A j \in 1 .. i : amb[j] = am[j]
        /\ \A j \in 1 .. N - i + 1 : amb[i + j] = b[j]
    <2>1. /\ amb \in Seq(U) /\ Len(amb) = Len(am) + Len(b)
          /\ \A j \in 1 .. Len(am) + Len(b) :
               amb[j] = IF j <= Len(am) THEN am[j] ELSE b[j - Len(am)]
      BY <1>6, <1>8, ConcatProperties
    <2> HIDE DEF amb
    <2>2. /\ Len(amb) = N + 1
          /\ \A j \in 1 .. N + 1 : amb[j] = IF j <= i THEN am[j] ELSE b[j - i]
      BY <1>2, <1>4, <1>6, <1>8, <2>1
    <2>3. \A j \in 1 .. i : j \in 1 .. N + 1 /\ j <= i
      BY <1>2, <1>4
    <2>4. \A j \in 1 .. N - i + 1 : i + j \in 1 .. N + 1 /\ ~ (i + j <= i) /\ (i + j) - i = j
      BY <1>2, <1>4
    <2>5. \A j \in 1 .. i : amb[j] = am[j]
      BY <2>2, <2>3
    <2>6. ASSUME NEW j \in 1 .. N - i + 1 PROVE amb[i + j] = b[j]
      <3>1. amb[i + j] = b[(i + j) - i]
        BY <2>2, <2>4
      <3> QED BY <2>4, <3>1
    <2> QED BY <2>1, <2>2, <2>5, <2>6
  <1> HIDE DEF amb
  <1>10. \A j \in 1 .. i - 1 : t[j] = s[j]
    BY <1>4, <1>7, <1>8, <1>9
  <1>11. ASSUME NEW j \in i .. N PROVE t[j + 1] = s[j]
    <2> DEFINE d == j - i + 1
    <2>1. d \in 1 .. N - i + 1 /\ i + d = j + 1 /\ i + d - 1 = j
      BY <1>2, <1>4
    <2> HIDE DEF d
    <2>2. amb[i + d] = b[d] /\ b[d] = s[i + d - 1]
      BY <1>6, <1>9, <2>1
    <2> QED BY <1>7, <2>1, <2>2
  <1>12. t[i] = e /\ IsSeq(t) /\ Len(t) = N + 1
    BY <1>4, <1>7, <1>8, <1>9 DEF IsSeq
  <1> QED BY <1>10, <1>11, <1>12 DEF N

\* v ascends.
Climbs(v) ==
  /\ IsSeq(v) /\ \A i \in 1 .. Len(v) : v[i].ts \in Int
  /\ \A i, j \in 1 .. Len(v) : i < j => v[i].ts <= v[j].ts

\* The comparator that calls no two stamps equal puts a line behind all that
\* are not later.
LEMMA InsertPlace ==
  ASSUME NEW v, Climbs(v), NEW e, e.ts \in Int
  PROVE  \E i \in 1 .. Len(v) + 1 :
           /\ Insert(v, e) = InsertAt(v, i, e)
           /\ \A j \in 1 .. i - 1 : v[j].ts <= e.ts
           /\ \A j \in i .. Len(v) : e.ts < v[j].ts
  <1> DEFINE n == Len(v)
             Fits(i) == /\ \A j \in 1 .. i - 1 : NodeCompare(e, v[j]) > 0
                        /\ i <= n => NodeCompare(e, v[i]) < 0
             place == CHOOSE i \in 1 .. n + 1 : Fits(i)
             Later == {j \in 1 .. n : e.ts < v[j].ts}
  <1>1. n \in Nat
    BY SeqFacts DEF Climbs
  <1>2. \A j \in 1 .. n : /\ NodeCompare(e, v[j]) > 0 <=> ~ (e.ts < v[j].ts)
                          /\ NodeCompare(e, v[j]) < 0 <=> e.ts < v[j].ts
    BY DEF NodeCompare
  <1>3. \E i \in 1 .. n + 1 : Fits(i)
    <2>1. CASE Later = {}
      <3>1. \A j \in 1 .. n : ~ (e.ts < v[j].ts)
        BY <2>1
      <3>2. n + 1 \in 1 .. n + 1 /\ ~ (n + 1 <= n) /\ \A j \in 1 .. (n + 1) - 1 : j \in 1 .. n
        BY <1>1
      <3>3. Fits(n + 1)
        BY <1>2, <3>1, <3>2
      <3> QED BY <3>2, <3>3
    <2>2. CASE Later # {}
      <3>1. PICK x \in Later : TRUE
        BY <2>2
      <3>2. Later \subseteq 1 .. n
        OBVIOUS
      <3> DEFINE L == Later
      <3> HIDE DEF L
      <3>3. PICK i \in L : \A y \in L : i <= y
        BY <1>1, <3>1, <3>2, AscendingLeast DEF L
      <3>4. i \in 1 .. n /\ e.ts < v[i].ts /\ i \in 1 .. n + 1
        BY <1>1, <3>3 DEF L
      <3>5. ASSUME NEW j \in 1 .. i - 1 PROVE j \in 1 .. n /\ ~ (e.ts < v[j].ts)
        <4>1. j \in 1 .. n /\ ~ (i <= j)
          BY <1>1, <3>4
        <4>2. j \notin L
          BY <3>3, <4>1
        <4> QED BY <4>1, <4>2 DEF L
      <3>6. Fits(i)
        BY <1>2, <3>4, <3>5
      <3> QED BY <3>4, <3>6
    <2> QED BY <2>1, <2>2
  <1>4. Insert(v, e) = InsertAt(v, place, e)
    BY DEF Insert
  <1>5. place \in 1 .. n + 1 /\ Fits(place)
    <2> HIDE DEF Fits
    <2> QED BY <1>3
  <1> HIDE DEF place
  <1>6. ASSUME NEW j \in 1 .. place - 1 PROVE v[j].ts <= e.ts
    <2>1. j \in 1 .. n
      BY <1>1, <1>5
    <2>2. ~ (e.ts < v[j].ts) /\ v[j].ts \in Int
      BY <1>2, <1>5, <2>1 DEF Climbs
    <2> QED BY <2>2
  <1>7. ASSUME NEW j \in place .. n PROVE e.ts < v[j].ts
    <2>1. j \in 1 .. n /\ place \in 1 .. n /\ place <= n /\ (place < j \/ place = j)
      BY <1>1, <1>5
    <2>2. e.ts < v[place].ts
      BY <1>2, <1>5, <2>1
    <2>3. v[place].ts \in Int /\ v[j].ts \in Int /\ v[place].ts <= v[j].ts
      BY <2>1 DEF Climbs
    <2> QED BY <2>2, <2>3
  <1> QED BY <1>4, <1>5, <1>6, <1>7

\* up sorts the lines of c one by one, as NodeSort does.
SortsUp(up, c, len) == up = [n \in 0 .. len |-> IF n = 0 THEN <<>> ELSE Insert(up[n - 1], c[n])]

\* Such lists exist up to every length ...
LEMMA SortsExist == ASSUME NEW c, NEW len \in Nat PROVE \E up : SortsUp(up, c, len)
  <1> DEFINE T == {n \in Nat : \E up : SortsUp(up, c, n)}
  <1>1. 0 \in T
    <2>1. SortsUp([n \in 0 .. 0 |-> <<>>], c, 0)
      BY DEF SortsUp
    <2> QED BY <2>1
  <1>2. ASSUME NEW n \in Nat, n \in T PROVE n + 1 \in T
    <2>1. PICK up : SortsUp(up, c, n)
      BY <1>2
    <2> DEFINE last == Insert(up[n], c[n + 1])
               more == [m \in 0 .. n + 1 |-> IF m = n + 1 THEN last ELSE up[m]]
    <2>2. \A m \in 0 .. n : more[m] = up[m]
      OBVIOUS
    <2>3. more[n + 1] = last /\ DOMAIN more = 0 .. n + 1
      OBVIOUS
    <2>4. more = [m \in 0 .. n + 1 |-> more[m]]
      OBVIOUS
    <2> HIDE DEF more
    <2>5. ASSUME NEW m \in 0 .. n + 1
          PROVE  more[m] = IF m = 0 THEN <<>> ELSE Insert(more[m - 1], c[m])
      <3>1. CASE m = n + 1
        <4>1. m # 0 /\ m - 1 = n /\ more[m - 1] = up[n]
          BY <2>2, <3>1
        <4> QED BY <2>3, <3>1, <4>1
      <3>2. CASE m # n + 1
        <4>1. m \in 0 .. n /\ (m # 0 => m - 1 \in 0 .. n)
          BY <3>2
        <4>2. up[m] = IF m = 0 THEN <<>> ELSE Insert(up[m - 1], c[m])
          BY <2>1, <4>1 DEF SortsUp
        <4> QED BY <2>2, <4>1, <4>2
      <3> QED BY <3>1, <3>2
    <2>6. SortsUp(more, c, n + 1)
      BY <2>4, <2>5 DEF SortsUp
    <2> QED BY <2>6
  <1>3. Nat \subseteq T
    <2> HIDE DEF T
    <2> QED BY <1>1, <1>2, NatSetInduction
  <1> QED BY <1>3

\* ... so NodeSort is the last of them.
LEMMA NodeSortUp ==
  ASSUME NEW c, Len(c) \in Nat
  PROVE  \E up : SortsUp(up, c, Len(c)) /\ NodeSort(c) = up[Len(c)]
  <1> DEFINE all == CHOOSE up : SortsUp(up, c, Len(c))
  <1>1. SortsUp(all, c, Len(c))
    BY SortsExist
  <1>2. NodeSort(c) = all[Len(c)]
    BY DEF NodeSort, SortsUp
  <1> QED BY <1>1, <1>2

\* Runs of lines that have a time.
Timed(runs) ==
  /\ \E R \in Nat : DOMAIN runs = 1 .. R
  /\ \A r \in DOMAIN runs : \E K \in Nat : DOMAIN runs[r] = 1 .. K
  /\ \A p \in Places(runs) : LineAt(runs, p).ts \in Int

TimeAt(runs, p) == LineAt(runs, p).ts

Before(runs, p, q) ==
  TimeAt(runs, p) < TimeAt(runs, q) \/ (TimeAt(runs, p) = TimeAt(runs, q) /\ Ahead(p, q))

\* Places and times are numbers.
LEMMA PlaceFacts ==
  ASSUME NEW runs, Timed(runs), NEW p \in Places(runs)
  PROVE  p = <<p[1], p[2]>> /\ p[1] \in Int /\ p[2] \in Int /\ TimeAt(runs, p) \in Int
  <1>1. p = <<p[1], p[2]>> /\ p[1] \in DOMAIN runs /\ p[2] \in DOMAIN runs[p[1]]
    BY PlaceIs
  <1>2. PICK R \in Nat : DOMAIN runs = 1 .. R
    BY DEF Timed
  <1>3. PICK K \in Nat : DOMAIN runs[p[1]] = 1 .. K
    BY <1>1 DEF Timed
  <1>4. TimeAt(runs, p) \in Int
    BY DEF Timed, TimeAt
  <1> QED BY <1>1, <1>2, <1>3, <1>4

\* Lines are in a strict order: their time, then where they stand.
LEMMA BeforeStrict ==
  ASSUME NEW runs, Timed(runs)
  PROVE  /\ \A p \in Places(runs) : ~ Before(runs, p, p)
         /\ \A p, q, u \in Places(runs) :
              Before(runs, p, q) /\ Before(runs, q, u) => Before(runs, p, u)
         /\ \A p, q \in Places(runs) : p # q => Before(runs, p, q) \/ Before(runs, q, p)
  <1>1. ASSUME NEW p \in Places(runs) PROVE ~ Before(runs, p, p)
    BY PlaceFacts DEF Before, Ahead
  <1>2. ASSUME NEW p \in Places(runs), NEW q \in Places(runs), NEW u \in Places(runs),
               Before(runs, p, q), Before(runs, q, u)
        PROVE  Before(runs, p, u)
    <2>1. /\ TimeAt(runs, p) \in Int /\ TimeAt(runs, q) \in Int /\ TimeAt(runs, u) \in Int
          /\ p[1] \in Int /\ p[2] \in Int /\ q[1] \in Int /\ q[2] \in Int /\ u[1] \in Int /\ u[2] \in Int
      BY PlaceFacts
    <2> QED BY <1>2, <2>1 DEF Before, Ahead
  <1>3. ASSUME NEW p \in Places(runs), NEW q \in Places(runs), p # q
        PROVE  Before(runs, p, q) \/ Before(runs, q, p)
    <2>1. /\ TimeAt(runs, p) \in Int /\ TimeAt(runs, q) \in Int
          /\ p[1] \in Int /\ p[2] \in Int /\ q[1] \in Int /\ q[2] \in Int
          /\ p = <<p[1], p[2]>> /\ q = <<q[1], q[2]>>
      BY PlaceFacts
    <2>2. p[1] # q[1] \/ p[2] # q[2]
      BY <1>3, <2>1
    <2> QED BY <2>1, <2>2 DEF Before, Ahead
  <1> QED BY <1>1, <1>2, <1>3

\* v is the first n lines of c in the order of their times: q[i] is the place
\* of line i.
Sorting(v, q, c, f, runs, n) ==
  /\ IsSeq(v) /\ Len(v) = n
  /\ \A i \in 1 .. n : v[i] = LineAt(runs, q[i]) /\ \E j \in 1 .. n : q[i] = f[j]
  /\ \A j \in 1 .. n : \E i \in 1 .. n : q[i] = f[j]
  /\ \A i, j \in 1 .. n : i < j => Before(runs, q[i], q[j])

LEMMA SortingStep ==
  ASSUME NEW c, NEW f, NEW runs, Joins(c, f, runs), Timed(runs), NEW n \in Nat, n + 1 <= Len(c),
         NEW v, NEW q, Sorting(v, q, c, f, runs, n)
  PROVE  \E more : Sorting(Insert(v, c[n + 1]), more, c, f, runs, n + 1)
  <1> DEFINE e == c[n + 1]
             p == f[n + 1]
             C == Len(c)
  <1>1. /\ \A i \in 1 .. C : f[i] \in Places(runs) /\ c[i] = LineAt(runs, f[i])
        /\ \A i, j \in 1 .. C : i < j => Ahead(f[i], f[j])
    BY DEF Joins
  <1>2. C \in Nat
    BY SeqFacts DEF Joins
  <1>3. n + 1 \in 1 .. C /\ \A j \in 1 .. n : j \in 1 .. C /\ j < n + 1
    BY <1>2
  <1>4. p \in Places(runs) /\ e = LineAt(runs, p) /\ TimeAt(runs, p) = e.ts /\ e.ts \in Int
    <2>1. p \in Places(runs) /\ e = LineAt(runs, p)
      BY <1>1, <1>3
    <2> QED BY <2>1, PlaceFacts DEF TimeAt
  <1> HIDE DEF e, p, C
  <1>5. /\ IsSeq(v) /\ Len(v) = n
        /\ \A i \in 1 .. n : v[i] = LineAt(runs, q[i]) /\ \E j \in 1 .. n : q[i] = f[j]
        /\ \A j \in 1 .. n : \E i \in 1 .. n : q[i] = f[j]
        /\ \A i, j \in 1 .. n : i < j => Before(runs, q[i], q[j])
    BY DEF Sorting
  <1>6. ASSUME NEW i \in 1 .. n
        PROVE  /\ q[i] \in Places(runs) /\ Ahead(q[i], p)
               /\ v[i] = LineAt(runs, q[i]) /\ TimeAt(runs, q[i]) = v[i].ts /\ v[i].ts \in Int
    <2>1. PICK j \in 1 .. n : q[i] = f[j]
      BY <1>5
    <2>2. q[i] \in Places(runs) /\ Ahead(q[i], p)
      BY <1>1, <1>3, <2>1 DEF p
    <2>3. v[i] = LineAt(runs, q[i])
      BY <1>5
    <2> QED BY <2>2, <2>3, PlaceFacts DEF TimeAt
  <1>7. Climbs(v)
    <2>1. ASSUME NEW i \in 1 .. n, NEW j \in 1 .. n, i < j PROVE v[i].ts <= v[j].ts
      <3>1. Before(runs, q[i], q[j])
        BY <1>5, <2>1
      <3>2. /\ TimeAt(runs, q[i]) = v[i].ts /\ v[i].ts \in Int
            /\ TimeAt(runs, q[j]) = v[j].ts /\ v[j].ts \in Int
        BY <1>6
      <3> QED BY <3>1, <3>2 DEF Before
    <2>2. \A i \in 1 .. n : v[i].ts \in Int
      BY <1>6
    <2> QED BY <1>5, <2>1, <2>2 DEF Climbs
  <1>8. PICK k \in 1 .. n + 1 :
          /\ Insert(v, e) = InsertAt(v, k, e)
          /\ \A j \in 1 .. k - 1 : v[j].ts <= e.ts
          /\ \A j \in k .. n : e.ts < v[j].ts
    BY <1>4, <1>5, <1>7, InsertPlace
  <1> DEFINE w == Insert(v, e)
             more == [i \in 1 .. n + 1 |-> IF i < k THEN q[i] ELSE IF i = k THEN p ELSE q[i - 1]]
  <1>9. /\ IsSeq(w) /\ Len(w) = n + 1 /\ w[k] = e
        /\ \A j \in 1 .. k - 1 : w[j] = v[j]
        /\ \A j \in k .. n : w[j + 1] = v[j]
    <2> HIDE DEF w
    <2>1. w = InsertAt(v, k, e)
      BY <1>8 DEF w
    <2>2. IsSeq(v) /\ Len(v) = n /\ k \in 1 .. Len(v) + 1
      BY <1>5
    <2>3. /\ IsSeq(w) /\ Len(w) = Len(v) + 1 /\ w[k] = e
          /\ \A j \in 1 .. k - 1 : w[j] = v[j]
          /\ \A j \in k .. Len(v) : w[j + 1] = v[j]
      BY <2>1, <2>2, InsertedAt
    <2> QED BY <2>2, <2>3
  <1>10. /\ more[k] = p
         /\ \A j \in 1 .. k - 1 : more[j] = q[j]
         /\ \A j \in k .. n : more[j + 1] = q[j]
    <2>1. \A j \in 1 .. k - 1 : j \in 1 .. n + 1 /\ j < k
      OBVIOUS
    <2>2. \A j \in k .. n : j + 1 \in 1 .. n + 1 /\ ~ (j + 1 < k) /\ j + 1 # k /\ (j + 1) - 1 = j
      OBVIOUS
    <2> QED BY <2>1, <2>2
  <1>11. \A i \in 1 .. n + 1 :
           i \in 1 .. k - 1 \/ i = k \/ (i - 1 \in k .. n /\ i = (i - 1) + 1)
    OBVIOUS
  <1>12. \A j \in 1 .. n : (j \in 1 .. k - 1 \/ j \in k .. n) /\ j \in 1 .. n + 1 /\ j + 1 \in 1 .. n + 1
    OBVIOUS
  <1>13. \A j : (j \in 1 .. k - 1 \/ j \in k .. n) => j \in 1 .. n
    OBVIOUS
  <1> HIDE DEF w, more
  <1>14. ASSUME NEW i \in 1 .. n + 1
         PROVE  w[i] = LineAt(runs, more[i]) /\ \E j \in 1 .. n + 1 : more[i] = f[j]
    <2>1. CASE i \in 1 .. k - 1
      <3>1. w[i] = v[i] /\ more[i] = q[i] /\ i \in 1 .. n
        BY <1>9, <1>10, <1>13, <2>1
      <3>2. v[i] = LineAt(runs, q[i]) /\ \E j \in 1 .. n : q[i] = f[j]
        BY <1>5, <3>1
      <3> QED BY <1>12, <3>1, <3>2
    <2>2. CASE i = k
      BY <1>4, <1>9, <1>10, <2>2 DEF p
    <2>3. CASE i - 1 \in k .. n /\ i = (i - 1) + 1
      <3>1. w[i] = v[i - 1] /\ more[i] = q[i - 1] /\ i - 1 \in 1 .. n
        BY <1>9, <1>10, <1>13, <2>3
      <3> QED BY <1>5, <1>12, <3>1
    <2> QED BY <1>11, <2>1, <2>2, <2>3
  <1>15. ASSUME NEW j \in 1 .. n + 1 PROVE \E i \in 1 .. n + 1 : more[i] = f[j]
    <2>1. CASE j = n + 1
      BY <1>10, <2>1 DEF p
    <2>2. CASE j \in 1 .. n
      <3>1. PICK i \in 1 .. n : q[i] = f[j]
        BY <1>5, <2>2
      <3>2. more[i] = q[i] \/ more[i + 1] = q[i]
        BY <1>10, <1>12
      <3> QED BY <1>12, <3>1, <3>2
    <2> QED BY <2>1, <2>2
  <1>16. ASSUME NEW j \in 1 .. k - 1 PROVE Before(runs, q[j], p)
    <2>1. v[j].ts <= e.ts
      BY <1>8
    <2>2. TimeAt(runs, q[j]) = v[j].ts /\ v[j].ts \in Int /\ Ahead(q[j], p)
      BY <1>6, <1>13
    <2> QED BY <1>4, <2>1, <2>2 DEF Before
  <1>17. ASSUME NEW j \in k .. n PROVE Before(runs, p, q[j])
    <2>1. e.ts < v[j].ts
      BY <1>8
    <2>2. TimeAt(runs, q[j]) = v[j].ts
      BY <1>6, <1>13
    <2> QED BY <1>4, <2>1, <2>2 DEF Before
  <1>18. ASSUME NEW i \in 1 .. n + 1, NEW j \in 1 .. n + 1, i < j
         PROVE  Before(runs, more[i], more[j])
    <2>1. CASE i \in 1 .. k - 1 /\ j \in 1 .. k - 1
      BY <1>5, <1>10, <1>13, <1>18, <2>1
    <2>2. CASE i \in 1 .. k - 1 /\ j = k
      BY <1>10, <1>16, <2>2
    <2>3. CASE i \in 1 .. k - 1 /\ j - 1 \in k .. n /\ j = (j - 1) + 1
      <3>1. more[i] = q[i] /\ more[j] = q[j - 1] /\ i \in 1 .. n /\ j - 1 \in 1 .. n
        BY <1>10, <1>13, <2>3
      <3>2. i < j - 1
        BY <2>3
      <3> QED BY <1>5, <3>1, <3>2
    <2>4. CASE i = k /\ j - 1 \in k .. n /\ j = (j - 1) + 1
      BY <1>10, <1>17, <2>4
    <2>5. CASE i - 1 \in k .. n /\ i = (i - 1) + 1 /\ j - 1 \in k .. n /\ j = (j - 1) + 1
      <3>1. more[i] = q[i - 1] /\ more[j] = q[j - 1] /\ i - 1 \in 1 .. n /\ j - 1 \in 1 .. n
        BY <1>10, <1>13, <2>5
      <3>2. i - 1 < j - 1
        BY <1>18
      <3> QED BY <1>5, <3>1, <3>2
    <2>6. \/ i \in 1 .. k - 1 /\ j \in 1 .. k - 1
          \/ i \in 1 .. k - 1 /\ j = k
          \/ i \in 1 .. k - 1 /\ j - 1 \in k .. n /\ j = (j - 1) + 1
          \/ i = k /\ j - 1 \in k .. n /\ j = (j - 1) + 1
          \/ i - 1 \in k .. n /\ i = (i - 1) + 1 /\ j - 1 \in k .. n /\ j = (j - 1) + 1
      BY <1>18
    <2> QED BY <2>1, <2>2, <2>3, <2>4, <2>5, <2>6
  <1>19. Sorting(w, more, c, f, runs, n + 1)
    BY <1>9, <1>14, <1>15, <1>18 DEF Sorting
  <1> QED BY <1>19 DEF w, e

\* The Node sort puts the lines of all runs in order.
LEMMA NodeSortMerges ==
  ASSUME NEW c, NEW f, NEW runs, Joins(c, f, runs), Timed(runs)
  PROVE  \E at : Merges(NodeSort(c), at, runs)
  <1> DEFINE C == Len(c)
  <1>1. C \in Nat
    BY SeqFacts DEF Joins
  <1>2. PICK up : SortsUp(up, c, C) /\ NodeSort(c) = up[C]
    BY <1>1, NodeSortUp
  <1> HIDE DEF C
  <1> DEFINE T == {n \in Nat : n <= C => \E q : Sorting(up[n], q, c, f, runs, n)}
  <1>3. 0 \in T
    <2>1. up[0] = <<>>
      BY <1>1, <1>2 DEF SortsUp
    <2>2. Sorting(up[0], <<>>, c, f, runs, 0)
      BY <2>1, EmptyIsSeq, EmptyHasNone DEF Sorting
    <2> QED BY <2>2
  <1>4. ASSUME NEW n \in Nat, n \in T PROVE n + 1 \in T
    <2>1. SUFFICES ASSUME n + 1 <= C PROVE \E q : Sorting(up[n + 1], q, c, f, runs, n + 1)
      OBVIOUS
    <2>2. PICK q : Sorting(up[n], q, c, f, runs, n)
      BY <1>1, <1>4, <2>1
    <2>3. up[n + 1] = Insert(up[n], c[n + 1])
      <3>1. n + 1 \in 0 .. C /\ n + 1 # 0 /\ (n + 1) - 1 = n
        BY <1>1, <2>1
      <3> QED BY <1>2, <3>1 DEF SortsUp
    <2>4. n + 1 <= Len(c)
      BY <2>1 DEF C
    <2> QED BY <2>2, <2>3, <2>4, SortingStep
  <1>5. Nat \subseteq T
    <2> HIDE DEF T
    <2> QED BY <1>3, <1>4, NatSetInduction
  <1>6. PICK q : Sorting(up[C], q, c, f, runs, C)
    BY <1>1, <1>5
  <1> HIDE DEF T
  <1> DEFINE v == NodeSort(c)
             at == [i \in 1 .. C |-> q[i]]
  <1>7. /\ IsSeq(v) /\ Len(v) = C
        /\ \A i \in 1 .. C : v[i] = LineAt(runs, q[i]) /\ \E j \in 1 .. C : q[i] = f[j]
        /\ \A j \in 1 .. C : \E i \in 1 .. C : q[i] = f[j]
        /\ \A i, j \in 1 .. C : i < j => Before(runs, q[i], q[j])
    BY <1>2, <1>6 DEF Sorting
  <1>8. /\ \A i \in 1 .. C : f[i] \in Places(runs)
        /\ \A p \in Places(runs) : \E i \in 1 .. C : f[i] = p
    BY DEF Joins, C
  <1>9. DOMAIN at = 1 .. C /\ \A i \in 1 .. C : at[i] = q[i]
    OBVIOUS
  <1> HIDE DEF v, at
  <1>10. ASSUME NEW i \in 1 .. C PROVE v[i] = LineAt(runs, at[i]) /\ at[i] \in Places(runs)
    <2>1. PICK j \in 1 .. C : q[i] = f[j]
      BY <1>7
    <2>2. v[i] = LineAt(runs, q[i]) /\ at[i] = q[i]
      BY <1>7, <1>9
    <2> QED BY <1>8, <2>1, <2>2
  <1>11. v = [n \in DOMAIN at |-> LineAt(runs, at[n])]
    <2>1. v = [n \in 1 .. C |-> v[n]]
      BY <1>7, SeqIsFunction
    <2>2. [n \in 1 .. C |-> v[n]] = [n \in 1 .. C |-> LineAt(runs, at[n])]
      BY <1>10
    <2> QED BY <1>9, <2>1, <2>2
  <1>12. ASSUME NEW p \in Places(runs) PROVE \E n \in 1 .. C : at[n] = p
    <2>1. PICK j \in 1 .. C : f[j] = p
      BY <1>8
    <2>2. PICK i \in 1 .. C : q[i] = f[j]
      BY <1>7
    <2> QED BY <1>9, <2>1, <2>2
  <1>13. ASSUME NEW m \in 1 .. C, NEW n \in 1 .. C, m < n
         PROVE  /\ at[m] # at[n]
                /\ \/ v[m].ts < v[n].ts
                   \/ v[m].ts = v[n].ts /\ Ahead(at[m], at[n])
    <2>1. Before(runs, at[m], at[n])
      BY <1>7, <1>9, <1>13
    <2>2. at[m] # at[n]
      BY <1>10, <2>1, BeforeStrict
    <2> QED BY <1>10, <2>1, <2>2 DEF Before, TimeAt
  <1>14. Merges(v, at, runs)
    BY <1>1, <1>9, <1>10, <1>11, <1>12, <1>13 DEF Merges
  <1> QED BY <1>14 DEF v

\* There is one such order.
LEMMA MergesSame ==
  ASSUME NEW runs, Timed(runs), NEW u, NEW a, Merges(u, a, runs), NEW w, NEW b, Merges(w, b, runs)
  PROVE  u = w
  <1> DEFINE S == Places(runs)
             R == {pq \in S \X S : Before(runs, pq[1], pq[2])}
  <1>1. \A p, q \in S : <<p, q>> \in R <=> Before(runs, p, q)
    <2> HIDE DEF S
    <2> QED OBVIOUS
  <1> HIDE DEF R
  <1>2. StrictOrder(S, R)
    <2>1. /\ \A p \in S : ~ Before(runs, p, p)
          /\ \A p, q, x \in S : Before(runs, p, q) /\ Before(runs, q, x) => Before(runs, p, x)
          /\ \A p, q \in S : p # q => Before(runs, p, q) \/ Before(runs, q, p)
      BY BeforeStrict
    <2> HIDE DEF S
    <2> QED BY <1>1, <2>1 DEF StrictOrder
  <1> HIDE DEF S
  <1>3. ASSUME NEW v, NEW at, Merges(v, at, runs)
        PROVE  IsFiniteSet(S) /\ Lists(at, S, R) /\ v = [n \in DOMAIN at |-> LineAt(runs, at[n])]
    <2>1. PICK C \in Nat : DOMAIN at = 1 .. C
      BY <1>3 DEF Merges
    <2>2. /\ v = [n \in DOMAIN at |-> LineAt(runs, at[n])]
          /\ \A n \in 1 .. C : at[n] \in S
          /\ \A p \in S : \E n \in 1 .. C : at[n] = p
          /\ \A m, n \in 1 .. C :
               m < n => /\ at[m] # at[n]
                        /\ \/ v[m].ts < v[n].ts
                           \/ v[m].ts = v[n].ts /\ Ahead(at[m], at[n])
      BY <1>3, <2>1 DEF Merges, S
    <2>3. \A n \in 1 .. C : v[n] = LineAt(runs, at[n])
      BY <2>1, <2>2
    <2>4. \A m, n \in 1 .. C : m # n => at[m] # at[n]
      <3>1. \A m, n \in 1 .. C : m # n => m < n \/ n < m
        OBVIOUS
      <3> QED BY <2>2, <3>1
    <2>5. IsFiniteSet(S) /\ Cardinality(S) = C
      BY <2>2, <2>4, CountedBy
    <2>6. ASSUME NEW m \in 1 .. C, NEW n \in 1 .. C, m < n PROVE <<at[m], at[n]>> \in R
      <3>1. Before(runs, at[m], at[n])
        BY <2>2, <2>3, <2>6 DEF Before, TimeAt
      <3> QED BY <1>1, <2>2, <3>1
    <2> QED BY <2>1, <2>2, <2>5, <2>6 DEF Lists
  <1>4. IsFiniteSet(S) /\ Lists(a, S, R) /\ u = [n \in DOMAIN a |-> LineAt(runs, a[n])]
    BY <1>3
  <1>5. Lists(b, S, R) /\ w = [n \in DOMAIN b |-> LineAt(runs, b[n])]
    BY <1>3
  <1>6. DOMAIN a = DOMAIN b /\ \A n \in DOMAIN a : a[n] = b[n]
    BY <1>2, <1>4, <1>5, ListsSame
  <1> QED BY <1>4, <1>5, <1>6

\* Both libraries sort a merged stream alike.
LEMMA NodeSortIs ==
  ASSUME NEW c, NEW f, NEW runs, Joins(c, f, runs), Timed(runs)
  PROVE  NodeSort(c) = Sorted(runs)
  <1>1. \E at : Merges(NodeSort(c), at, runs)
    BY NodeSortMerges
  <1>2. \E at : Merges(Sorted(runs), at, runs)
    <2>1. PICK R \in Nat : DOMAIN runs = 1 .. R
      BY DEF Timed
    <2>2. /\ \A r \in 1 .. R : \E K \in Nat : DOMAIN runs[r] = 1 .. K
          /\ \A p \in Places(runs) : LineAt(runs, p).ts \in Int
      BY <2>1 DEF Timed
    <2> QED BY <2>1, <2>2, SortedMerges
  <1> QED BY <1>1, <1>2, MergesSame

\* Streams that have lines, and lines that have a time.
Streams(streams) ==
  /\ IsSeq(streams)
  /\ \A n \in 1 .. Len(streams) :
       /\ IsSeq(streams[n].entries)
       /\ \A i \in 1 .. Len(streams[n].entries) : streams[n].entries[i].ts \in Int

\* Both libraries make one payload of the same streams.
LEMMA NodePayloadIs ==
  ASSUME NEW streams, Streams(streams)
  PROVE  NodePayload(streams) = BuildPayload(streams)
  <1> DEFINE N == Len(streams)
             keys == [n \in DOMAIN streams |-> Resolve(streams[n].labels)]
             runs == [n \in DOMAIN streams |-> streams[n].entries]
             g == Gathered(keys, runs)
             b == GroupBy(streams, keys)
             part(k) == [r \in DOMAIN b[k].members |-> b[k].members[r].entries]
  <1>1. N \in Nat /\ DOMAIN streams = 1 .. N
    BY SeqFacts DEF Streams
  <1>2. /\ keys = [n \in 1 .. N |-> keys[n]]
        /\ \A n \in 1 .. N : runs[n] = streams[n].entries
    BY <1>1
  <1>3. NodePayload(streams)
          = [k \in DOMAIN g |-> [stream |-> g[k].labels, values |-> NodeSort(g[k].entries)]]
    BY DEF NodePayload
  <1>4. BuildPayload(streams)
          = [k \in DOMAIN b |-> [stream |-> b[k].key, values |-> Sorted(part(k))]]
    BY DEF BuildPayload
  <1>5. \A k : /\ DOMAIN part(k) = DOMAIN b[k].members
               /\ \A r \in DOMAIN b[k].members : part(k)[r] = b[k].members[r].entries
               /\ part(k) = [r \in DOMAIN b[k].members |-> part(k)[r]]
    OBVIOUS
  <1> HIDE DEF N, keys, runs, g, b, part
  <1>6. Len(keys) = N
    BY <1>1, <1>2, TableIsSeq
  <1>7. \A n \in 1 .. N : IsSeq(runs[n]) /\ \A i \in 1 .. Len(runs[n]) : runs[n][i].ts \in Int
    BY <1>2 DEF Streams, N
  <1>8. PICK at : Gathers(g, at, keys, runs, N)
    BY <1>1, <1>6, <1>7, GatheredGathers DEF g
  <1> DEFINE G == Len(g)
  <1>9. DOMAIN g = 1 .. G
    BY <1>8, SeqFacts DEF Gathers
  <1>10. /\ DOMAIN b = 1 .. G
         /\ \A k \in 1 .. G : /\ b[k].key = g[k].labels
                              /\ b[k].members = [m \in DOMAIN at[k] |-> streams[at[k][m]]]
    BY <1>1, <1>8, GathersGroupBy DEF b
  <1>11. ASSUME NEW k \in 1 .. G PROVE NodeSort(g[k].entries) = Sorted(part(k))
    <2> DEFINE mine == at[k]
               mineRuns == [r \in DOMAIN mine |-> runs[mine[r]]]
               members == b[k].members
    <2>1. GroupOf(g[k], mine, keys, runs, N)
      BY <1>8 DEF Gathers
    <2>2. PICK K \in Nat \ {0} : Rises(mine, K, OfKey(keys, N, g[k].labels))
      BY <2>1 DEF GroupOf
    <2>3. PICK f : Joins(g[k].entries, f, mineRuns)
      BY <2>1 DEF GroupOf
    <2>4. DOMAIN mine = 1 .. K /\ \A m \in 1 .. K : mine[m] \in 1 .. N
      BY <2>2 DEF Rises, OfKey
    <2>5. members = [m \in DOMAIN mine |-> streams[mine[m]]]
      BY <1>10
    <2>6. /\ part(k) = [r \in DOMAIN members |-> part(k)[r]]
          /\ \A r \in DOMAIN members : part(k)[r] = members[r].entries
      BY <1>5
    <2> HIDE DEF mine, members
    <2>7. DOMAIN members = 1 .. K /\ \A r \in 1 .. K : members[r] = streams[mine[r]]
      BY <2>4, <2>5
    <2>8. DOMAIN mineRuns = 1 .. K /\ \A r \in 1 .. K : mineRuns[r] = runs[mine[r]]
      BY <2>4
    <2>9. \A r \in 1 .. K : part(k)[r] = mineRuns[r]
      BY <1>2, <2>4, <2>6, <2>7, <2>8
    <2>10. mineRuns = [r \in 1 .. K |-> mineRuns[r]]
      BY <2>8
    <2> HIDE DEF mineRuns
    <2>11. part(k) = mineRuns
      <3>1. part(k) = [r \in 1 .. K |-> part(k)[r]]
        BY <2>6, <2>7
      <3>2. [r \in 1 .. K |-> part(k)[r]] = [r \in 1 .. K |-> mineRuns[r]]
        BY <2>9
      <3> QED BY <2>10, <3>1, <3>2
    <2>12. Timed(mineRuns)
      <3>1. ASSUME NEW r \in 1 .. K PROVE \E L \in Nat : DOMAIN mineRuns[r] = 1 .. L
        <4>1. IsSeq(mineRuns[r])
          BY <1>7, <2>4, <2>8
        <4> QED BY <4>1, SeqFacts
      <3>2. ASSUME NEW p \in Places(mineRuns) PROVE LineAt(mineRuns, p).ts \in Int
        <4>1. p[1] \in 1 .. K /\ p[2] \in DOMAIN mineRuns[p[1]]
          BY <2>8, PlaceIs
        <4>2. mineRuns[p[1]] = runs[mine[p[1]]] /\ mine[p[1]] \in 1 .. N
          BY <2>4, <2>8, <4>1
        <4>3. IsSeq(mineRuns[p[1]]) /\ \A i \in 1 .. Len(mineRuns[p[1]]) : mineRuns[p[1]][i].ts \in Int
          BY <1>7, <4>2
        <4>4. DOMAIN mineRuns[p[1]] = 1 .. Len(mineRuns[p[1]])
          BY <4>3, SeqFacts
        <4> QED BY <4>1, <4>3, <4>4 DEF LineAt
      <3>3. K \in Nat /\ DOMAIN mineRuns = 1 .. K
        BY <2>8
      <3> QED BY <3>1, <3>2, <3>3 DEF Timed
    <2> QED BY <2>3, <2>11, <2>12, NodeSortIs
  <1> HIDE DEF G
  <1>12. [k \in DOMAIN g |-> [stream |-> g[k].labels, values |-> NodeSort(g[k].entries)]]
           = [k \in DOMAIN b |-> [stream |-> b[k].key, values |-> Sorted(part(k))]]
    <2>1. DOMAIN g = DOMAIN b
      BY <1>9, <1>10
    <2>2. \A k \in DOMAIN b : /\ g[k].labels = b[k].key
                              /\ NodeSort(g[k].entries) = Sorted(part(k))
      BY <1>10, <1>11
    <2> QED BY <2>1, <2>2
  <1> QED BY <1>3, <1>4, <1>12

\* Grouped entries are streams.
LEMMA GroupsAreStreams ==
  ASSUME NEW es, IsSeq(es), \A i \in 1 .. Len(es) : es[i].ts \in Int
  PROVE  Streams(NodeGroup(es))
  <1> DEFINE N == Len(es)
             keys == [i \in DOMAIN es |-> es[i].labels]
             runs == [i \in DOMAIN es |-> <<es[i]>>]
             g == Gathered(keys, runs)
  <1>1. N \in Nat /\ DOMAIN es = 1 .. N
    BY SeqFacts
  <1>2. /\ keys = [i \in 1 .. N |-> keys[i]]
        /\ \A i \in 1 .. N : runs[i] = <<es[i]>>
    BY <1>1
  <1>3. NodeGroup(es) = g
    BY DEF NodeGroup
  <1> HIDE DEF keys, runs, g
  <1>4. Len(keys) = N
    BY <1>1, <1>2, TableIsSeq
  <1>5. ASSUME NEW i \in 1 .. N
        PROVE  IsSeq(runs[i]) /\ DOMAIN runs[i] = 1 .. 1 /\ runs[i][1].ts \in Int
    <2> DEFINE s == runs[i]
               e == es[i]
    <2>1. s = <<e>> /\ e.ts \in Int
      BY <1>2
    <2> HIDE DEF s, e
    <2>2. IsSeq(s) /\ DOMAIN s = 1 .. 1 /\ s[1] = e
      BY <2>1, OneSeq
    <2> QED BY <2>1, <2>2 DEF s
  <1> HIDE DEF N
  <1>6. PICK at : Gathers(g, at, keys, runs, N)
    BY <1>1, <1>4, <1>5, GatheredGathers DEF g
  <1>7. ASSUME NEW k \in 1 .. Len(g)
        PROVE  /\ IsSeq(g[k].entries)
               /\ \A i \in 1 .. Len(g[k].entries) : g[k].entries[i].ts \in Int
    <2> DEFINE mine == at[k]
               part == [r \in DOMAIN mine |-> runs[mine[r]]]
               c == g[k].entries
    <2>1. GroupOf(g[k], mine, keys, runs, N)
      BY <1>6 DEF Gathers
    <2>2. PICK K \in Nat \ {0} : Rises(mine, K, OfKey(keys, N, g[k].labels))
      BY <2>1 DEF GroupOf
    <2>3. PICK f : Joins(c, f, part)
      BY <2>1 DEF GroupOf
    <2>4. DOMAIN mine = 1 .. K /\ \A m \in 1 .. K : mine[m] \in 1 .. N
      BY <2>2 DEF Rises, OfKey
    <2>5. DOMAIN part = 1 .. K /\ \A m \in 1 .. K : part[m] = runs[mine[m]]
      BY <2>4
    <2> HIDE DEF mine, part, c
    <2>6. ASSUME NEW i \in 1 .. Len(c) PROVE c[i].ts \in Int
      <3>1. f[i] \in Places(part) /\ c[i] = LineAt(part, f[i])
        BY <2>3 DEF Joins
      <3> DEFINE r == f[i][1]
                 j == f[i][2]
      <3>2. r \in 1 .. K /\ j \in DOMAIN part[r] /\ c[i] = part[r][j]
        BY <2>5, <3>1, PlaceIs DEF LineAt
      <3> HIDE DEF r, j
      <3>3. part[r] = runs[mine[r]] /\ mine[r] \in 1 .. N
        BY <2>4, <2>5, <3>2
      <3>4. j = 1 /\ runs[mine[r]][1].ts \in Int
        <4>1. DOMAIN runs[mine[r]] = 1 .. 1
          BY <1>5, <3>3
        <4> QED BY <1>5, <3>2, <3>3, <4>1
      <3> QED BY <3>2, <3>3, <3>4
    <2>7. IsSeq(c)
      BY <2>3 DEF Joins
    <2> QED BY <2>6, <2>7 DEF c
  <1>8. IsSeq(g)
    BY <1>6 DEF Gathers
  <1> QED BY <1>3, <1>7, <1>8 DEF Streams

\* Both libraries make the same payload of the same batch.
LEMMA BatchesAlike ==
  ASSUME NEW es, IsSeq(es), \A i \in 1 .. Len(es) : es[i].ts \in Int
  PROVE  NodePayload(NodeGroup(es)) = BuildPayload(GroupByLabels(es))
  <1>1. NodePayload(NodeGroup(es)) = BuildPayload(NodeGroup(es))
    BY GroupsAreStreams, NodePayloadIs
  <1>2. NodeGroup(es) = GroupByLabels(es)
    BY NodeGroupIs
  <1> QED BY <1>1, <1>2

-----------------------------------------------------------------------------
(* The Node batcher.                                                       *)

\* Its state before an entry, after one that is buffered, after one that
\* makes a batch.
Batcher(es, total, sn) == [pending |-> es, bytes |-> total, payloads |-> sn]

LEMMA NodeBuffers ==
  ASSUME NEW es, IsSeq(es), NEW total, NEW sn, NEW e,
         ~ (Len(es) + 1 >= MaxBatchLines \/ total + e.size >= MaxBatchBytes)
  PROVE  NodeAdd(Batcher(es, total, sn), e) = Batcher(Append(es, e), total + e.size, sn)
  <1>1. Len(Append(es, e)) = Len(es) + 1
    BY AppendSeq
  <1> QED BY <1>1 DEF NodeAdd, Batcher

LEMMA NodeFlushes ==
  ASSUME NEW es, IsSeq(es), NEW total, NEW sn, NEW e,
         Len(es) + 1 >= MaxBatchLines \/ total + e.size >= MaxBatchBytes
  PROVE  NodeAdd(Batcher(es, total, sn), e)
           = Batcher(<<>>, 0, Append(sn, NodePayload(NodeGroup(Append(es, e)))))
  <1>1. Len(Append(es, e)) = Len(es) + 1
    BY AppendSeq
  <1> QED BY <1>1 DEF NodeAdd, Batcher

\* up is the batcher after each of the first entries of es, as in NodeState.
StatesUp(up, es, len) ==
  up = [n \in 0 .. len |-> IF n = 0 THEN Batcher(<<>>, 0, <<>>) ELSE NodeAdd(up[n - 1], es[n])]

\* Such states exist up to every length ...
LEMMA StatesExist == ASSUME NEW es, NEW len \in Nat PROVE \E up : StatesUp(up, es, len)
  <1> DEFINE T == {n \in Nat : \E up : StatesUp(up, es, n)}
  <1>1. 0 \in T
    <2>1. StatesUp([n \in 0 .. 0 |-> Batcher(<<>>, 0, <<>>)], es, 0)
      BY DEF StatesUp
    <2> QED BY <2>1
  <1>2. ASSUME NEW n \in Nat, n \in T PROVE n + 1 \in T
    <2>1. PICK up : StatesUp(up, es, n)
      BY <1>2
    <2> DEFINE last == NodeAdd(up[n], es[n + 1])
               more == [m \in 0 .. n + 1 |-> IF m = n + 1 THEN last ELSE up[m]]
    <2>2. \A m \in 0 .. n : more[m] = up[m]
      OBVIOUS
    <2>3. more[n + 1] = last /\ DOMAIN more = 0 .. n + 1
      OBVIOUS
    <2>4. more = [m \in 0 .. n + 1 |-> more[m]]
      OBVIOUS
    <2> HIDE DEF more
    <2>5. ASSUME NEW m \in 0 .. n + 1
          PROVE  more[m] = IF m = 0 THEN Batcher(<<>>, 0, <<>>) ELSE NodeAdd(more[m - 1], es[m])
      <3>1. CASE m = n + 1
        <4>1. m # 0 /\ m - 1 = n /\ more[m - 1] = up[n]
          BY <2>2, <3>1
        <4> QED BY <2>3, <3>1, <4>1
      <3>2. CASE m # n + 1
        <4>1. m \in 0 .. n /\ (m # 0 => m - 1 \in 0 .. n)
          BY <3>2
        <4>2. up[m] = IF m = 0 THEN Batcher(<<>>, 0, <<>>) ELSE NodeAdd(up[m - 1], es[m])
          BY <2>1, <4>1 DEF StatesUp
        <4> QED BY <2>2, <4>1, <4>2
      <3> QED BY <3>1, <3>2
    <2>6. StatesUp(more, es, n + 1)
      BY <2>4, <2>5 DEF StatesUp
    <2> QED BY <2>6
  <1>3. Nat \subseteq T
    <2> HIDE DEF T
    <2> QED BY <1>1, <1>2, NatSetInduction
  <1> QED BY <1>3

\* ... so NodeState is the last of them.
LEMMA NodeStateUp ==
  ASSUME NEW es, Len(es) \in Nat
  PROVE  \E up : StatesUp(up, es, Len(es)) /\ NodeState(es) = up[Len(es)]
  <1> DEFINE all == CHOOSE up : StatesUp(up, es, Len(es))
  <1>1. StatesUp(all, es, Len(es))
    BY StatesExist
  <1>2. NodeState(es) = all[Len(es)]
    BY DEF NodeState, StatesUp, Batcher
  <1> QED BY <1>1, <1>2

\* It depends on the entries it was given only.
LEMMA StatesAgree ==
  ASSUME NEW len \in Nat, NEW es, NEW fs, \A i \in 1 .. len : es[i] = fs[i],
         NEW a, StatesUp(a, es, len), NEW b, StatesUp(b, fs, len + 1)
  PROVE  a[len] = b[len]
  <1> DEFINE T == {k \in Nat : k <= len => a[k] = b[k]}
  <1>1. 0 \in T
    <2>1. a[0] = Batcher(<<>>, 0, <<>>) /\ b[0] = Batcher(<<>>, 0, <<>>)
      BY DEF StatesUp
    <2> QED BY <2>1
  <1>2. ASSUME NEW k \in Nat, k \in T PROVE k + 1 \in T
    <2>1. SUFFICES ASSUME k + 1 <= len PROVE a[k + 1] = b[k + 1]
      OBVIOUS
    <2>2. a[k] = b[k]
      BY <1>2, <2>1
    <2>3. k + 1 \in 0 .. len /\ k + 1 \in 0 .. len + 1 /\ k + 1 # 0 /\ (k + 1) - 1 = k
      BY <2>1
    <2>4. a[k + 1] = NodeAdd(a[k], es[k + 1]) /\ b[k + 1] = NodeAdd(b[k], fs[k + 1])
      BY <2>3 DEF StatesUp
    <2>5. es[k + 1] = fs[k + 1]
      BY <2>1
    <2> QED BY <2>2, <2>4, <2>5
  <1>3. Nat \subseteq T
    <2> HIDE DEF T
    <2> QED BY <1>1, <1>2, NatSetInduction
  <1> QED BY <1>3

LEMMA NodeStateEmpty == NodeState(<<>>) = Batcher(<<>>, 0, <<>>)
  <1>1. PICK up : StatesUp(up, <<>>, 0) /\ NodeState(<<>>) = up[0]
    BY EmptyHasNone, NodeStateUp
  <1> QED BY <1>1 DEF StatesUp

LEMMA NodeStateAppend ==
  ASSUME NEW es, IsSeq(es), NEW e
  PROVE  NodeState(Append(es, e)) = NodeAdd(NodeState(es), e)
  <1> DEFINE len == Len(es)
             fs == Append(es, e)
  <1>1. /\ len \in Nat /\ Len(fs) = len + 1
        /\ \A i \in 1 .. len : fs[i] = es[i]
        /\ fs[len + 1] = e
    BY AppendSeq
  <1>2. PICK a : StatesUp(a, es, len) /\ NodeState(es) = a[len]
    BY <1>1, NodeStateUp
  <1>3. PICK b : StatesUp(b, fs, len + 1) /\ NodeState(fs) = b[len + 1]
    <2>1. len + 1 \in Nat
      BY <1>1
    <2> QED BY <1>1, <2>1, NodeStateUp
  <1> HIDE DEF len, fs
  <1>4. a[len] = b[len]
    <2>1. \A i \in 1 .. len : es[i] = fs[i]
      BY <1>1
    <2> QED BY <1>1, <1>2, <1>3, <2>1, StatesAgree
  <1>5. b[len + 1] = NodeAdd(b[len], fs[len + 1])
    <2>1. len + 1 \in 0 .. len + 1 /\ len + 1 # 0 /\ (len + 1) - 1 = len
      BY <1>1
    <2> QED BY <1>3, <2>1 DEF StatesUp
  <1> QED BY <1>1, <1>2, <1>3, <1>4, <1>5 DEF fs

-----------------------------------------------------------------------------
(* The Node batcher keeps in step.                                         *)

AlikeOf(y, es, total, sn, st) ==
  /\ st = "draining" => NodeState(y) = Batcher(es, total, sn)
  /\ st = "done"     => sn = NodeDrain(y)
  /\ st = "failed"   => IsPrefix(sn, NodeDrain(y))

\* What is buffered has times.
LEMMA BufferedTimed ==
  ASSUME NEW y, NEW es, NEW total, NEW sn, NEW st, BatchInvOf(y, es, total, sn, st), st # "failed"
  PROVE  IsSeq(y) /\ IsSeq(es) /\ IsSeq(sn) /\ \A i \in 1 .. Len(es) : es[i].ts \in Int
  <1>1. IsSeq(y) /\ IsSeq(es) /\ IsSeq(sn) /\ Numbered(y)
    BY DEF BatchInvOf
  <1>2. PICK cut : CutBy(cut, sn, y) /\ Rest(es, y, cut[Len(sn)])
    BY DEF BatchInvOf, Buffered
  <1>3. cut[Len(sn)] \in Nat /\ Len(y) \in Nat /\ Len(es) \in Nat
    BY <1>1, <1>2, SeqFacts DEF CutBy
  <1>4. ASSUME NEW i \in 1 .. Len(es) PROVE es[i].ts \in Int
    <2>1. es[i] = y[cut[Len(sn)] + i] /\ cut[Len(sn)] + Len(es) = Len(y)
      BY <1>2 DEF Rest
    <2>2. cut[Len(sn)] + i \in 1 .. Len(y)
      BY <1>3, <2>1
    <2> QED BY <1>1, <2>1, <2>2 DEF Numbered
  <1> QED BY <1>1, <1>4

LEMMA PrefixSelf == ASSUME NEW s, IsSeq(s), NEW x PROVE IsPrefix(s, s) /\ IsPrefix(s, Append(s, x))
  <1>1. PICK S : s \in Seq(S)
    BY DEF IsSeq
  <1> DEFINE N == Len(s)
             t == Append(s, x)
  <1>2. N \in Nat /\ N <= N
    BY <1>1
  <1>3. IsSeq(t) /\ Len(t) = N + 1 /\ \A i \in 1 .. N : t[i] = s[i]
    BY AppendSeq
  <1>4. SubSeq(s, 1, N) = [i \in 1 .. N |-> s[i]]
    BY <1>1
  <1>5. SubSeq(t, 1, N) = [i \in 1 .. N |-> t[i]]
    BY <1>2, <1>3 DEF IsSeq
  <1> HIDE DEF N, t
  <1>6. [i \in 1 .. N |-> s[i]] = [i \in 1 .. N |-> t[i]]
    BY <1>3
  <1> QED BY <1>2, <1>3, <1>4, <1>5, <1>6 DEF IsPrefix, N, t

\* One entry goes in.
LEMMA AddAlike ==
  ASSUME NEW y, NEW es, NEW total, NEW sn,
         BatchInvOf(y, es, total, sn, "draining"), AlikeOf(y, es, total, sn, "draining"),
         NEW e, Follows(e, y), NEW P, P = BuildPayload(GroupByLabels(Append(es, e)))
  PROVE  IF Len(es) + 1 >= MaxBatchLines \/ total + e.size >= MaxBatchBytes
         THEN /\ AlikeOf(Append(y, e), <<>>, 0, Append(sn, P), "draining")
              /\ AlikeOf(Append(y, e), <<>>, 0, sn, "failed")
         ELSE AlikeOf(Append(y, e), Append(es, e), total + e.size, sn, "draining")
  <1> DEFINE z == Append(y, e)
             fs == Append(es, e)
  <1>1. IsSeq(y) /\ IsSeq(es) /\ IsSeq(sn) /\ \A i \in 1 .. Len(es) : es[i].ts \in Int
    BY BufferedTimed
  <1>2. NodeState(z) = NodeAdd(Batcher(es, total, sn), e)
    BY <1>1, NodeStateAppend DEF AlikeOf
  <1>3. IsSeq(fs) /\ \A i \in 1 .. Len(fs) : fs[i].ts \in Int
    <2>1. /\ IsSeq(fs) /\ Len(es) \in Nat /\ Len(fs) = Len(es) + 1
          /\ \A i \in 1 .. Len(es) : fs[i] = es[i]
          /\ fs[Len(es) + 1] = e
      BY <1>1, AppendSeq
    <2> HIDE DEF fs
    <2>2. \A i \in 1 .. Len(fs) : i \in 1 .. Len(es) \/ i = Len(es) + 1
      BY <2>1
    <2> QED BY <1>1, <2>1, <2>2 DEF Follows
  <1> HIDE DEF z, fs
  <1>4. CASE Len(es) + 1 >= MaxBatchLines \/ total + e.size >= MaxBatchBytes
    <2>1. NodePayload(NodeGroup(fs)) = P
      BY <1>3, BatchesAlike DEF fs
    <2>2. NodeState(z) = Batcher(<<>>, 0, Append(sn, P))
      BY <1>1, <1>2, <1>4, <2>1, NodeFlushes DEF fs
    <2>3. NodeDrain(z) = Append(sn, P)
      BY <2>2 DEF NodeDrain, Batcher
    <2>4. IsPrefix(sn, Append(sn, P))
      BY <1>1, PrefixSelf
    <2> QED BY <1>4, <2>2, <2>3, <2>4 DEF AlikeOf, z
  <1>5. CASE ~ (Len(es) + 1 >= MaxBatchLines \/ total + e.size >= MaxBatchBytes)
    <2>1. NodeState(z) = Batcher(fs, total + e.size, sn)
      BY <1>1, <1>2, <1>5, NodeBuffers DEF fs
    <2> QED BY <1>5, <2>1 DEF AlikeOf, z, fs
  <1> QED BY <1>4, <1>5

\* The object ends.
LEMMA EndAlike ==
  ASSUME NEW y, NEW es, NEW total, NEW sn,
         BatchInvOf(y, es, total, sn, "draining"), AlikeOf(y, es, total, sn, "draining"),
         NEW P, P = BuildPayload(GroupByLabels(es))
  PROVE  /\ es = <<>> => sn = NodeDrain(y)
         /\ es # <<>> => Append(sn, P) = NodeDrain(y) /\ IsPrefix(sn, NodeDrain(y))
  <1>1. IsSeq(es) /\ IsSeq(sn) /\ \A i \in 1 .. Len(es) : es[i].ts \in Int
    BY BufferedTimed
  <1>2. NodePayload(NodeGroup(es)) = P
    BY <1>1, BatchesAlike
  <1>3. NodeDrain(y) = IF es = <<>> THEN sn ELSE Append(sn, P)
    BY <1>2 DEF AlikeOf, NodeDrain, Batcher
  <1>4. IsPrefix(sn, Append(sn, P))
    BY <1>1, PrefixSelf
  <1> QED BY <1>3, <1>4

Alike == AlikeOf(yielded, entries, bytes, sent, state)

LEMMA AddAlikeStep ==
  ASSUME BatchInv, Alike, NEW e, Follows(e, yielded), Add(e)
  PROVE  Alike'
  <1> DEFINE P == BuildPayload(GroupByLabels(Append(entries, e)))
             full == Len(entries) + 1 >= MaxBatchLines \/ bytes + e.size >= MaxBatchBytes
  <1>1. state = "draining" /\ yielded' = Append(yielded, e)
    BY DEF Add
  <1>2. IF full
        THEN /\ AlikeOf(Append(yielded, e), <<>>, 0, Append(sent, P), "draining")
             /\ AlikeOf(Append(yielded, e), <<>>, 0, sent, "failed")
        ELSE AlikeOf(Append(yielded, e), Append(entries, e), bytes + e.size, sent, "draining")
    BY <1>1, AddAlike DEF BatchInv, Alike
  <1>3. CASE full
    <2>1. /\ entries' = <<>> /\ bytes' = 0
          /\ \/ sent' = Append(sent, P) /\ state' = state
             \/ sent' = sent /\ state' = "failed"
      BY <1>3 DEF Add, FlushAndPush
    <2> HIDE DEF P, full
    <2> QED BY <1>1, <1>2, <1>3, <2>1 DEF Alike
  <1>4. CASE ~ full
    <2>1. /\ entries' = Append(entries, e) /\ bytes' = bytes + e.size
          /\ sent' = sent /\ state' = state
      BY <1>4 DEF Add
    <2> HIDE DEF P, full
    <2> QED BY <1>1, <1>2, <1>4, <2>1 DEF Alike
  <1> QED BY <1>3, <1>4

LEMMA FinishAlikeStep == ASSUME BatchInv, Alike, Finish PROVE Alike'
  <1> DEFINE P == BuildPayload(GroupByLabels(entries))
  <1>1. state = "draining" /\ yielded' = yielded
    BY DEF Finish
  <1>2. /\ entries = <<>> => sent = NodeDrain(yielded)
        /\ entries # <<>> => Append(sent, P) = NodeDrain(yielded) /\ IsPrefix(sent, NodeDrain(yielded))
    BY <1>1, EndAlike DEF BatchInv, Alike
  <1>3. \/ entries = <<>> /\ sent' = sent /\ state' = "done"
        \/ entries # <<>> /\ sent' = Append(sent, P) /\ state' = "done"
        \/ entries # <<>> /\ sent' = sent /\ state' = "failed"
    BY DEF Finish
  <1> HIDE DEF P
  <1> QED BY <1>1, <1>2, <1>3 DEF Alike, AlikeOf
=============================================================================
