-------------------------- MODULE RequestCorrelator --------------------------
(***************************************************************************)
(* RequestCorrelator pairs the request and response lines of one AEM       *)
(* request log while the object streams past.  Source: examples/adobe-aem/ *)
(* src/adobe_aem/correlate.py and the loop that drives it, _entries in     *)
(* handler.py.                                                             *)
(*                                                                         *)
(* Lines are numbered as they are read.  Each OrderedDict is a function    *)
(* from keys to the line that was stored, 0 when the key is absent: every  *)
(* entry is inserted while its own line is processed, so the insertion     *)
(* order is the order of the line numbers.                                 *)
(***************************************************************************)
EXTENDS Naturals, FiniteSets

CONSTANTS
  Keys,        \* (node id, request id) pairs
  MaxPending,  \* max_pending
  MaxLines,    \* bound on the lines of the object
  NoKey        \* the key of a line that has none

ASSUME CorrelatorAssumption ==
  /\ IsFiniteSet(Keys) /\ NoKey \notin Keys
  /\ MaxPending \in Nat \ {0} /\ MaxLines \in Nat

Lines == 1 .. MaxLines

\* "bare" is a request line with none of the carried fields, "other" any line
\* without a request id or a direction.
Directions == {"request", "bare", "response", "other"}

VARIABLES
  read,       \* lines read so far
  dir, key,   \* what each of them was
  requests,   \* _pending_requests
  responses,  \* _pending_responses
  paired, unpaired, evicted,   \* stats
  emitted,    \* history: how often each line was returned
  partner,    \* history: the request whose fields an emitted response got, or 0
  done        \* the object has ended and flush() has run

inputVars == <<read, dir, key>>
vars == <<inputVars, requests, responses, paired, unpaired, evicted, emitted,
          partner, done>>

Init ==
  /\ read = 0
  /\ dir = [l \in Lines |-> "other"] /\ key = [l \in Lines |-> NoKey]
  /\ requests = [k \in Keys |-> 0] /\ responses = [k \in Keys |-> 0]
  /\ paired = 0 /\ unpaired = 0 /\ evicted = 0
  /\ emitted = [l \in Lines |-> 0] /\ partner = [l \in Lines |-> 0]
  /\ done = FALSE

-----------------------------------------------------------------------------
Pending(buffer) == {k \in Keys : buffer[k] > 0}
Full(buffer) == Cardinality(Pending(buffer)) >= MaxPending

\* The key popitem(last=False) takes.
IsOldest(k, buffer) ==
  k \in Pending(buffer) /\ \A j \in Pending(buffer) : buffer[k] <= buffer[j]

Line == read + 1

Read(d, k) ==
  /\ ~done /\ read < MaxLines
  /\ read' = Line
  /\ dir' = [dir EXCEPT ![Line] = d] /\ key' = [key EXCEPT ![Line] = k]
  /\ UNCHANGED done

Emit(lines) == emitted' = [l \in Lines |-> IF l \in lines THEN emitted[l] + 1 ELSE emitted[l]]

PassThrough ==
  /\ Read("other", NoKey)
  /\ Emit({Line})
  /\ UNCHANGED <<requests, responses, paired, unpaired, evicted, partner>>

\* A request releases the response held for it.
ReleaseHeld(d, k) ==
  /\ Read(d, k)
  /\ responses[k] > 0
  /\ responses' = [responses EXCEPT ![k] = 0]
  /\ partner' = [partner EXCEPT ![responses[k]] = Line]
  /\ paired' = paired + 1
  /\ Emit({Line, responses[k]})
  /\ UNCHANGED <<requests, unpaired, evicted>>

\* Mutant: the cap is not looked at.
RememberUncapped(k) ==
  /\ Read("request", k)
  /\ responses[k] = 0
  /\ requests' = [requests EXCEPT ![k] = Line]
  /\ Emit({Line})
  /\ UNCHANGED <<responses, paired, unpaired, evicted, partner>>

\* Mutant: the first of two requests under a wrapped id is kept.
RememberFirst(k) ==
  /\ Read("request", k)
  /\ responses[k] = 0
  /\ requests[k] > 0 \/ ~Full(requests)
  /\ requests' = [requests EXCEPT ![k] = IF @ > 0 THEN @ ELSE Line]
  /\ Emit({Line})
  /\ UNCHANGED <<responses, paired, unpaired, evicted, partner>>

\* _remember_request: replaces the entry of a wrapped id ...
RememberRequest(k) ==
  /\ Read("request", k)
  /\ responses[k] = 0
  /\ requests[k] > 0 \/ ~Full(requests)
  /\ requests' = [requests EXCEPT ![k] = Line]
  /\ Emit({Line})
  /\ UNCHANGED <<responses, paired, unpaired, evicted, partner>>

\* ... or evicts the oldest at the cap.
EvictRequest(k, old) ==
  /\ Read("request", k)
  /\ responses[k] = 0 /\ requests[k] = 0 /\ Full(requests)
  /\ IsOldest(old, requests)
  /\ requests' = [requests EXCEPT ![old] = 0, ![k] = Line]
  /\ evicted' = evicted + 1
  /\ Emit({Line})
  /\ UNCHANGED <<responses, paired, unpaired, partner>>

\* A request with nothing to carry over is not remembered.
ForgetBare(k) ==
  /\ Read("bare", k)
  /\ responses[k] = 0
  /\ Emit({Line})
  /\ UNCHANGED <<requests, responses, paired, unpaired, evicted, partner>>

\* Mutant: the request stays pending after it was paired.
PairAndKeep(k) ==
  /\ Read("response", k)
  /\ requests[k] > 0
  /\ partner' = [partner EXCEPT ![Line] = requests[k]]
  /\ paired' = paired + 1
  /\ Emit({Line})
  /\ UNCHANGED <<requests, responses, unpaired, evicted>>

\* A response whose request is pending.
PairResponse(k) ==
  /\ Read("response", k)
  /\ requests[k] > 0
  /\ requests' = [requests EXCEPT ![k] = 0]
  /\ partner' = [partner EXCEPT ![Line] = requests[k]]
  /\ paired' = paired + 1
  /\ Emit({Line})
  /\ UNCHANGED <<responses, unpaired, evicted>>

\* Mutant: a response ahead of its request is shipped without waiting.
ShipResponse(k) ==
  /\ Read("response", k)
  /\ requests[k] = 0 /\ responses[k] = 0 /\ ~Full(responses)
  /\ unpaired' = unpaired + 1
  /\ Emit({Line})
  /\ UNCHANGED <<requests, responses, paired, evicted, partner>>

\* _hold_response: buffered; nothing comes out.
HoldResponse(k) ==
  /\ Read("response", k)
  /\ requests[k] = 0 /\ responses[k] = 0 /\ ~Full(responses)
  /\ responses' = [responses EXCEPT ![k] = Line]
  /\ Emit({})
  /\ UNCHANGED <<requests, paired, unpaired, evicted, partner>>

\* Mutant: the displaced response is overwritten.
OverwriteDuplicate(k) ==
  /\ Read("response", k)
  /\ requests[k] = 0 /\ responses[k] > 0
  /\ responses' = [responses EXCEPT ![k] = Line]
  /\ unpaired' = unpaired + 1
  /\ Emit({})
  /\ UNCHANGED <<requests, paired, evicted, partner>>

\* A second response under the same key displaces the first ...
DisplaceDuplicate(k) ==
  /\ Read("response", k)
  /\ requests[k] = 0 /\ responses[k] > 0
  /\ responses' = [responses EXCEPT ![k] = Line]
  /\ unpaired' = unpaired + 1
  /\ Emit({responses[k]})
  /\ UNCHANGED <<requests, paired, evicted, partner>>

\* Mutant: an evicted response is not counted as unpaired.
EvictUncounted(k, old) ==
  /\ Read("response", k)
  /\ requests[k] = 0 /\ responses[k] = 0 /\ Full(responses)
  /\ IsOldest(old, responses)
  /\ responses' = [responses EXCEPT ![old] = 0, ![k] = Line]
  /\ evicted' = evicted + 1
  /\ Emit({responses[old]})
  /\ UNCHANGED <<requests, paired, unpaired, partner>>

\* ... and at the cap the oldest held response makes room.
EvictResponse(k, old) ==
  /\ Read("response", k)
  /\ requests[k] = 0 /\ responses[k] = 0 /\ Full(responses)
  /\ IsOldest(old, responses)
  /\ responses' = [responses EXCEPT ![old] = 0, ![k] = Line]
  /\ evicted' = evicted + 1 /\ unpaired' = unpaired + 1
  /\ Emit({responses[old]})
  /\ UNCHANGED <<requests, paired, partner>>

\* The object ends: flush() releases every held response.
Flush ==
  /\ ~done
  /\ done' = TRUE
  /\ unpaired' = unpaired + Cardinality(Pending(responses))
  /\ Emit({responses[k] : k \in Pending(responses)})
  /\ requests' = [k \in Keys |-> 0] /\ responses' = [k \in Keys |-> 0]
  /\ UNCHANGED <<inputVars, paired, evicted, partner>>

Next ==
  \/ \E k \in Keys :
       \/ \E d \in {"request", "bare"} : ReleaseHeld(d, k)
       \/ RememberRequest(k) \/ ForgetBare(k) \/ PairResponse(k)
       \/ HoldResponse(k) \/ DisplaceDuplicate(k)
       \/ \E old \in Keys : EvictRequest(k, old) \/ EvictResponse(k, old)
  \/ PassThrough
  \/ Flush

Spec == Init /\ [][Next]_vars

-----------------------------------------------------------------------------
(* Properties.                                                             *)

ReadLines == 1 .. read
IsResponse(l) == dir[l] = "response"
IsRequest(l)  == dir[l] \in {"request", "bare"}

\* Every variable has its type.
TypeOK ==
  /\ read \in 0 .. MaxLines
  /\ dir \in [Lines -> Directions] /\ key \in [Lines -> Keys \cup {NoKey}]
  /\ requests \in [Keys -> 0 .. MaxLines] /\ responses \in [Keys -> 0 .. MaxLines]
  /\ paired \in Nat /\ unpaired \in Nat /\ evicted \in Nat
  /\ emitted \in [Lines -> Nat] /\ partner \in [Lines -> 0 .. MaxLines]
  /\ done \in BOOLEAN

Held(l) == \E k \in Keys : responses[k] = l

\* No line is lost and none comes out twice: a line that was read has been
\* returned exactly once, or is a response held for its request; once the
\* object has ended nothing is held (process, flush, both displacements).
NoLineLost ==
  \A l \in Lines :
    emitted[l] = IF l <= read /\ ~Held(l) THEN 1 ELSE 0

\* Neither buffer outgrows max_pending, and no key waits on both sides: a
\* response never sits in the buffer while its request does.
BuffersSound ==
  /\ Cardinality(Pending(requests)) <= MaxPending
  /\ Cardinality(Pending(responses)) <= MaxPending
  /\ \A k \in Keys : requests[k] = 0 \/ responses[k] = 0

\* The fields of one request go to at most one response, and only to a response
\* with the same key.
PairsSound ==
  \A l \in Lines : partner[l] > 0 =>
    /\ l <= read /\ partner[l] <= read
    /\ IsResponse(l) /\ IsRequest(partner[l]) /\ key[partner[l]] = key[l]
    /\ \A m \in Lines \ {l} : partner[m] # partner[l]

\* The counters the handler logs account for every response of the object.
StatsAddUp ==
  /\ paired = Cardinality({l \in Lines : partner[l] > 0})
  /\ paired + unpaired + Cardinality(Pending(responses))
       = Cardinality({l \in ReadLines : IsResponse(l)})

\* Buffering pairs everything that can be paired: when ids do not wrap inside
\* the object and the cap was never reached, each response whose request line
\* carries fields and is in the object is paired with it, in either order.
Unique(l) == \A m \in ReadLines \ {l} :
               key[m] = key[l] => IsResponse(m) # IsResponse(l) \/ dir[m] = "other"
Complete ==
  done /\ evicted = 0 =>
    \A l, m \in ReadLines :
      IsResponse(l) /\ dir[m] = "request" /\ key[m] = key[l] /\ Unique(l) /\ Unique(m) =>
        partner[l] = m

\* A response is paired with the latest request of its key before it, or with
\* the first one after it: never with an older one across a wrapped id.
NearestPartner ==
  \A l \in Lines : partner[l] > 0 =>
    \A m \in ReadLines :
      dir[m] = "request" /\ key[m] = key[l] =>
        IF partner[l] < l THEN ~(partner[l] < m /\ m < l) ELSE ~(l < m /\ m < partner[l])
=============================================================================
