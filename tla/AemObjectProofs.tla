--------------------------- MODULE AemObjectProofs ---------------------------
(***************************************************************************)
(* What holds of every object the AEM example ships.  AemObject implements *)
(* RequestCorrelator and inherits its theorems; what the batcher promises  *)
(* and what joins the two follows from an invariant of the whole pipeline, *)
(* AemInv: what has been read, processed, returned and yielded, line by    *)
(* line, what the batches hold of it, and what the entries look like.      *)
(***************************************************************************)
EXTENDS AemObject, AemPartsProofs

\* Reading a line and the end of the object are steps of the correlator.
LEMMA ReadLineCorrelates == ASSUME NEW line, ReadLine(line) PROVE Next
  <1>1. CASE Correlating(Resolved(text'[1]).type)
    BY <1>1 DEF ReadLine, Process
  <1>2. CASE ~Correlating(Resolved(text'[1]).type)
    BY <1>2 DEF ReadLine, Next
  <1> QED BY <1>1, <1>2

\* Everything else leaves it alone.
LEMMA OthersStutter ==
  ASSUME Yield \/ Drained \/ Skip \/ Tick \/ UNCHANGED aemVars
  PROVE  UNCHANGED vars
  <1>1. CASE Yield BY <1>1 DEF Yield
  <1>2. CASE Drained BY <1>2 DEF Drained
  <1>3. CASE Skip BY <1>3 DEF Skip
  <1>4. CASE Tick BY <1>4 DEF Tick
  <1>5. CASE UNCHANGED aemVars BY <1>5 DEF aemVars
  <1> QED BY <1>1, <1>2, <1>3, <1>4, <1>5

LEMMA StepCorrelates == [AemNext]_aemVars => [Next]_vars
  <1> SUFFICES ASSUME [AemNext]_aemVars PROVE [Next]_vars
    OBVIOUS
  <1>1. ASSUME NEW line \in Content(file.writer), ReadLine(line) PROVE [Next]_vars
    BY <1>1, ReadLineCorrelates
  <1>2. CASE EndObject
    BY <1>2 DEF EndObject, Next
  <1>3. CASE Yield \/ Drained \/ Skip \/ Tick \/ UNCHANGED aemVars
    BY <1>3, OthersStutter
  <1> QED BY <1>1, <1>2, <1>3 DEF AemNext

\* Whatever the lines hold and however the batches are pushed, the correlator
\* inside the example takes the steps of RequestCorrelator only.
THEOREM AemCorrelates == AemSpec => Spec
  <1>1. AemInit => Init
    BY DEF AemInit
  <1> QED BY <1>1, StepCorrelates, PTL DEF AemSpec, Spec

\* No line of an object is lost or doubled between the reader and the batcher.
THEOREM AemLosesNoLine == AemSpec => []NoLineLost
  BY AemCorrelates, NoLineIsLost, PTL

\* A response gets the fields of one request of its own node and id, which no
\* other response gets.
THEOREM AemPairsAreSound == AemSpec => []PairsSound
  BY AemCorrelates, PairsAreSound, PTL

\* However long the object, what is held back for it stays within the cap.
THEOREM AemBuffersAreSound == AemSpec => []BuffersSound
  BY AemCorrelates, BuffersAreSound, PTL

\* A response gets the latest request of its key before it, or the first
\* one after it.
THEOREM AemPartnersAreNearest == AemSpec => []NearestPartner
  BY AemCorrelates, PartnersAreNearest, PTL

\* Of a key seen once in each direction, both lines end up as one pair.
THEOREM AemAllArePaired == AemSpec => []Complete
  BY AemCorrelates, AllArePaired, PTL

\* The counters logged for an object add up to its responses.
THEOREM AemCountersAddUp == AemSpec => []StatsAddUp
  BY AemCorrelates, CountersAddUp, PTL

-----------------------------------------------------------------------------
(* What a step of the correlator leaves as it was.                         *)

LEMMA ReadingReads == ASSUME Core, Next, read' = Line PROVE Reads /\ done' = done
  <1>1. read \in Nat
    BY CorrelatorAssumption DEF Core, TypeOK
  <1>2. ~Flush
    BY <1>1 DEF Flush, Line, inputVars
  <1>3. Reads
    BY <1>2 DEF Next, Reads
  <1> QED
    BY <1>3 DEF Reads, PassThrough, ReleaseHeld, RememberRequest, ForgetBare, PairResponse,
                HoldResponse, DisplaceDuplicate, EvictRequest, EvictResponse, Read

\* A line that was read keeps its direction and key, and one that came out keeps
\* its partner.
LEMMA ReadingKeeps ==
  ASSUME Core, Reads
  PROVE  /\ read' = read + 1 /\ read + 1 \in Lines /\ read \in Nat
         /\ \A l \in 1 .. read : dir'[l] = dir[l] /\ key'[l] = key[l]
         /\ \A l \in Lines : emitted[l] = 1 => partner'[l] = partner[l]
  <1>1. PICK n, c \in Lines, d \in Directions, k \in Keys \cup {NoKey} : Move(n, c, d, k)
    BY Moves
  <1>2. n = read + 1 /\ read' = n /\ read \in Nat
    BY <1>1 DEF Move, NewLine, Line
  <1>3. ASSUME NEW l \in 1 .. read PROVE dir'[l] = dir[l] /\ key'[l] = key[l]
    <2>1. l \in Lines /\ l # n
      BY <1>2, CorrelatorAssumption DEF Lines
    <2> QED BY <1>1, <2>1 DEF Move, NewLine
  <1>4. ASSUME NEW l \in Lines, emitted[l] = 1 PROVE partner'[l] = partner[l]
    <2>1. l <= read /\ ~Held(l)
      BY <1>4 DEF Core, NoLineLost
    <2>2. l # n
      BY <1>2, <2>1 DEF Lines
    <2>3. CASE l # c
      BY <1>1, <2>3 DEF Move, Pairs
    <2>4. CASE l = c
      <3>1. k \in Keys => responses[k] # l
        BY <2>1 DEF Held
      <3>2. CASE k \in Keys
        BY <1>1, <2>2, <2>4, <3>1, <3>2 DEF Move, Pairs
      <3>3. CASE k \notin Keys
        <4>1. d = "other"
          BY <1>1, <3>3 DEF Move
        <4> QED BY <1>1, <2>4, <4>1 DEF Move, Pairs
      <3> QED BY <3>2, <3>3
    <2> QED BY <2>3, <2>4
  <1> QED BY <1>2, <1>3, <1>4

\* What came out has come out.
LEMMA EmittedStays ==
  ASSUME Core, Core', Next
  PROVE  \A l \in Lines : emitted'[l] \in {0, 1} /\ (emitted[l] = 1 => emitted'[l] = 1)
  <1>1. \E S : Emit(S)
    BY DEF Next, PassThrough, ReleaseHeld, RememberRequest, ForgetBare, PairResponse,
           HoldResponse, DisplaceDuplicate, EvictRequest, EvictResponse, Flush
  <1>2. PICK S : Emit(S)
    BY <1>1
  <1>3. ASSUME NEW l \in Lines PROVE emitted'[l] \in {emitted[l], emitted[l] + 1}
    BY <1>2 DEF Emit
  <1>4. \A l \in Lines : emitted[l] \in {0, 1} /\ emitted'[l] \in {0, 1}
    BY DEF Core, NoLineLost
  <1> QED BY <1>3, <1>4

\* Returned puts the new lines in a sequence, each once.
LEMMA ReturnedLists ==
  ASSUME Core, Core'
  PROVE  LET out2 == Returned(emitted, emitted')
             new  == {l \in Lines : emitted'[l] > emitted[l]}
         IN  /\ out2 \in Seq(Lines)
             /\ \A i \in 1 .. Len(out2) : out2[i] \in new
             /\ \A l \in new : \E i \in 1 .. Len(out2) : out2[i] = l
             /\ \A i, j \in 1 .. Len(out2) : i # j => out2[i] # out2[j]
  <1> DEFINE out2 == Returned(emitted, emitted')
             new  == {l \in Lines : emitted'[l] > emitted[l]}
             R == {p \in new \X new : IF done' THEN p[1] < p[2] ELSE p[1] > p[2]}
  <1>1. IsFiniteSet(new)
    <2>1. MaxLines \in Int
      BY CorrelatorAssumption
    <2>2. IsFiniteSet(Lines)
      BY <2>1, FS_Interval DEF Lines
    <2> QED BY <2>2, FS_Subset
  <1>2. \A x \in new : x \in Int
    BY DEF Lines
  <1>3. \A x, y \in new : <<x, y>> \in R <=> IF done' THEN x < y ELSE x > y
    OBVIOUS
  <1>4. R \subseteq new \X new
    OBVIOUS
  <1>5. out2 = Ranked(new, R)
    BY DEF Returned
  <1>6. new \subseteq Lines
    OBVIOUS
  <1> HIDE DEF R, new, out2
  <1>7. StrictOrder(new, R)
    BY <1>2, <1>3 DEF StrictOrder
  <1>8. Lists(out2, new, R)
    BY <1>1, <1>5, <1>7, RankedLists
  <1>9. DOMAIN out2 = 1 .. Cardinality(new) /\ Cardinality(new) \in Nat
    BY <1>8 DEF Lists
  <1>10. out2 \in Seq(Lines) /\ Len(out2) = Cardinality(new)
    <2>1. out2 = [n \in 1 .. Cardinality(new) |-> out2[n]]
      BY <1>5, <1>9 DEF Ranked
    <2>2. \A n \in 1 .. Cardinality(new) : out2[n] \in Lines
      BY <1>6, <1>8, <1>9 DEF Lists
    <2> QED BY <1>9, <2>1, <2>2
  <1>11. \A i, j \in 1 .. Len(out2) : i # j => out2[i] # out2[j]
    <2>1. ASSUME NEW i \in 1 .. Len(out2), NEW j \in 1 .. Len(out2), i < j PROVE out2[i] # out2[j]
      <3>1. <<out2[i], out2[j]>> \in R /\ out2[i] \in new
        BY <1>8, <1>9, <1>10, <2>1 DEF Lists
      <3> QED BY <1>7, <3>1 DEF StrictOrder
    <2>2. \A i, j \in 1 .. Len(out2) : i < j \/ j < i \/ i = j
      BY <1>9, <1>10
    <2> QED BY <2>1, <2>2
  <1> QED BY <1>8, <1>9, <1>10, <1>11 DEF Lists, new, out2

-----------------------------------------------------------------------------
(* The object, and the lines between the correlator and the batcher.       *)

\* The lines read so far are lines of the object.
Source ==
  /\ \E job \in Jobs : file = job[1] /\ config = job[2]
  /\ text \in Seq(Content(file.writer)) /\ Len(text) = read
  /\ clock \in 0 .. MaxSpan

\* Every line the correlator returned waits or has been yielded, once.
Queue ==
  /\ out \in Seq(Lines) /\ IsSeq(yielded)
  /\ \A i \in 1 .. Len(out) : emitted[out[i]] = 1
  /\ \A i, j \in 1 .. Len(out) : i # j => out[i] # out[j]
  /\ \A i \in 1 .. Len(yielded) :
       /\ yielded[i].record \in Lines /\ emitted[yielded[i].record] = 1
       /\ \A j \in 1 .. Len(out) : yielded[i].record # out[j]
  /\ \A i, j \in 1 .. Len(yielded) : i # j => yielded[i].record # yielded[j].record
  /\ \A l \in Lines : emitted[l] = 1 =>
       (\E i \in 1 .. Len(out) : out[i] = l) \/ (\E i \in 1 .. Len(yielded) : yielded[i].record = l)

LEMMA SourceRead ==
  ASSUME Source, Core, NEW line \in Content(file.writer), ReadLine(line) PROVE Source'
  <1>1. Next /\ read' = Line
    BY ReadLineCorrelates DEF ReadLine, Process, PassThrough, Read
  <1>2. text' = Append(text, line) /\ UNCHANGED <<file, config, clock>>
    BY DEF ReadLine
  <1>3. read \in Nat
    BY CorrelatorAssumption DEF Core, TypeOK
  <1> QED BY <1>1, <1>2, <1>3 DEF Source, Line

LEMMA SourceKept ==
  ASSUME Source, EndObject \/ Yield \/ Drained \/ Skip \/ Tick \/ UNCHANGED aemVars PROVE Source'
  <1>1. UNCHANGED <<read, file, config, text>>
    BY DEF EndObject, Flush, Yield, Drained, Skip, Tick, aemVars, vars, inputVars
  <1>2. clock' \in 0 .. MaxSpan
    <2>1. UNCHANGED clock \/ Tick
      BY DEF EndObject, Yield, Drained, Skip, aemVars
    <2>2. MaxSpan \in Nat
      BY AemAssumption DEF AemAssumption
    <2> QED BY <2>1, <2>2 DEF Tick, Source
  <1> QED BY <1>1, <1>2 DEF Source

\* The correlator took a step and the queue was empty.
LEMMA QueueRefilled ==
  ASSUME Queue, Core, Core', Next, out = <<>>, out' = Returned(emitted, emitted'),
         UNCHANGED yielded
  PROVE  Queue'
  <1>1. \A l \in Lines : emitted[l] \in {0, 1} /\ emitted'[l] \in {0, 1}
                         /\ (emitted[l] = 1 => emitted'[l] = 1)
    BY EmittedStays DEF Core, NoLineLost
  <1>2. /\ out' \in Seq(Lines)
        /\ \A i \in 1 .. Len(out') : out'[i] \in Lines /\ emitted'[out'[i]] > emitted[out'[i]]
        /\ \A l \in Lines : emitted'[l] > emitted[l] => \E i \in 1 .. Len(out') : out'[i] = l
        /\ \A i, j \in 1 .. Len(out') : i # j => out'[i] # out'[j]
    BY ReturnedLists
  <1>3. \A l \in Lines : emitted'[l] > emitted[l] <=> emitted[l] = 0 /\ emitted'[l] = 1
    BY <1>1
  <1>4. \A i \in 1 .. Len(out') : out'[i] \in Lines /\ emitted[out'[i]] = 0 /\ emitted'[out'[i]] = 1
    BY <1>2, <1>3
  <1>5. Len(out) = 0
    BY EmptyHasNone
  <1>6. ASSUME NEW i \in 1 .. Len(yielded)
        PROVE  /\ yielded[i].record \in Lines /\ emitted'[yielded[i].record] = 1
               /\ \A j \in 1 .. Len(out') : yielded[i].record # out'[j]
    <2>1. yielded[i].record \in Lines /\ emitted[yielded[i].record] = 1
      BY DEF Queue
    <2> QED BY <1>1, <1>4, <2>1
  <1>7. ASSUME NEW l \in Lines, emitted'[l] = 1
        PROVE  \/ \E i \in 1 .. Len(out') : out'[i] = l
               \/ \E i \in 1 .. Len(yielded) : yielded[i].record = l
    <2>1. CASE emitted[l] = 1
      BY <1>5, <2>1 DEF Queue
    <2>2. CASE emitted[l] = 0
      BY <1>2, <1>3, <1>7, <2>2
    <2> QED BY <1>1, <2>1, <2>2
  <1> QED BY <1>2, <1>4, <1>6, <1>7 DEF Queue

LEMMA QueueKept == ASSUME Queue, UNCHANGED <<out, emitted, yielded>> PROVE Queue'
  BY DEF Queue

\* The head of the queue is yielded.
LEMMA QueuePopped ==
  ASSUME Queue, out # <<>>, out' = Tail(out), UNCHANGED emitted,
         NEW e, e.record = Head(out), yielded' = Append(yielded, e)
  PROVE  Queue'
  <1> DEFINE N == Len(yielded)
             M == Len(out)
  <1>1. /\ M \in Nat /\ M > 0 /\ Head(out) = out[1] /\ 1 \in 1 .. M
        /\ out' \in Seq(Lines) /\ Len(out') = M - 1 /\ \A i \in 1 .. M - 1 : out'[i] = out[i + 1]
    BY DEF Queue
  <1>2. /\ IsSeq(yielded') /\ N \in Nat /\ Len(yielded') = N + 1
        /\ \A i \in 1 .. N : yielded'[i] = yielded[i]
        /\ yielded'[N + 1] = e
    BY AppendSeq DEF Queue
  <1>3. \A i \in 1 .. M : out[i] \in Lines /\ emitted[out[i]] = 1
    BY DEF Queue
  <1>4. \A i, j \in 1 .. M : i # j => out[i] # out[j]
    BY DEF Queue
  <1>5. \A i \in 1 .. N : /\ yielded[i].record \in Lines /\ emitted[yielded[i].record] = 1
                          /\ \A j \in 1 .. M : yielded[i].record # out[j]
    BY DEF Queue
  <1>6. \A i, j \in 1 .. N : i # j => yielded[i].record # yielded[j].record
    BY DEF Queue
  <1>7. \A l \in Lines : emitted[l] = 1 =>
          (\E i \in 1 .. M : out[i] = l) \/ (\E i \in 1 .. N : yielded[i].record = l)
    BY DEF Queue
  <1> HIDE DEF N, M
  <1>8. \A i \in 1 .. M - 1 : i + 1 \in 1 .. M /\ i + 1 # 1 /\ out'[i] = out[i + 1]
    BY <1>1
  <1>9. \A i \in 1 .. M - 1 : out'[i] # out[1] /\ emitted[out'[i]] = 1
    BY <1>1, <1>3, <1>4, <1>8
  <1>10. \A i, j \in 1 .. M - 1 : i # j => out'[i] # out'[j]
    <2>1. \A i, j \in 1 .. M - 1 : i # j => i + 1 # j + 1
      BY <1>1
    <2> QED BY <1>4, <1>8, <2>1
  <1>11. ASSUME NEW i \in 1 .. N + 1
         PROVE  /\ yielded'[i].record \in Lines /\ emitted[yielded'[i].record] = 1
                /\ \A j \in 1 .. M - 1 : yielded'[i].record # out'[j]
    <2>1. CASE i = N + 1
      BY <1>1, <1>2, <1>3, <1>9, <2>1
    <2>2. CASE i # N + 1
      <3>1. i \in 1 .. N /\ yielded'[i] = yielded[i]
        BY <1>2, <2>2
      <3> QED BY <1>5, <1>8, <3>1
    <2> QED BY <2>1, <2>2
  <1>12. ASSUME NEW i \in 1 .. N + 1, NEW j \in 1 .. N + 1, i # j
         PROVE  yielded'[i].record # yielded'[j].record
    <2>1. CASE i # N + 1 /\ j # N + 1
      <3>1. i \in 1 .. N /\ j \in 1 .. N
        BY <1>2, <2>1
      <3> QED BY <1>2, <1>6, <1>12, <3>1
    <2>2. CASE i = N + 1
      <3>1. j \in 1 .. N
        BY <1>2, <1>12, <2>2
      <3> QED BY <1>1, <1>2, <1>5, <2>2, <3>1
    <2>3. CASE j = N + 1
      <3>1. i \in 1 .. N
        BY <1>2, <1>12, <2>3
      <3> QED BY <1>1, <1>2, <1>5, <2>3, <3>1
    <2> QED BY <2>1, <2>2, <2>3
  <1>13. ASSUME NEW l \in Lines, emitted[l] = 1
         PROVE  \/ \E i \in 1 .. M - 1 : out'[i] = l
                \/ \E i \in 1 .. N + 1 : yielded'[i].record = l
    <2>1. CASE l = out[1]
      <3>1. N + 1 \in 1 .. N + 1
        BY <1>2
      <3> QED BY <1>1, <1>2, <2>1, <3>1
    <2>2. ASSUME NEW i \in 1 .. M, out[i] = l, l # out[1] PROVE \E j \in 1 .. M - 1 : out'[j] = l
      <3>1. i - 1 \in 1 .. M - 1 /\ (i - 1) + 1 = i
        BY <1>1, <2>2
      <3> QED BY <1>8, <2>2, <3>1
    <2>3. ASSUME NEW i \in 1 .. N, yielded[i].record = l
          PROVE \E j \in 1 .. N + 1 : yielded'[j].record = l
      <3>1. i \in 1 .. N + 1
        BY <1>2
      <3> QED BY <1>2, <2>3, <3>1
    <2>4. CASE \E i \in 1 .. M : out[i] = l /\ l # out[1]
      BY <2>2, <2>4
    <2>5. CASE \E i \in 1 .. N : yielded[i].record = l
      BY <2>3, <2>5
    <2>6. (\E i \in 1 .. M : out[i] = l) \/ (\E i \in 1 .. N : yielded[i].record = l)
      BY <1>7, <1>13
    <2>7. CASE l # out[1] /\ \E i \in 1 .. M : out[i] = l
      <3>1. \E i \in 1 .. M : out[i] = l /\ l # out[1]
        BY <2>7
      <3> QED BY <2>4, <3>1
    <2> QED BY <2>1, <2>5, <2>6, <2>7
  <1>14. emitted' = emitted /\ out' \in Seq(Lines) /\ IsSeq(yielded')
    BY <1>1, <1>2
  <1>15. /\ \A i \in 1 .. Len(out') : emitted'[out'[i]] = 1
         /\ \A i, j \in 1 .. Len(out') : i # j => out'[i] # out'[j]
    BY <1>1, <1>9, <1>10, <1>14
  <1>16. \A i \in 1 .. Len(yielded') :
           /\ yielded'[i].record \in Lines /\ emitted'[yielded'[i].record] = 1
           /\ \A j \in 1 .. Len(out') : yielded'[i].record # out'[j]
    BY <1>1, <1>2, <1>11, <1>14
  <1>17. \A i, j \in 1 .. Len(yielded') : i # j => yielded'[i].record # yielded'[j].record
    BY <1>2, <1>12
  <1>18. \A l \in Lines : emitted'[l] = 1 =>
           \/ \E i \in 1 .. Len(out') : out'[i] = l
           \/ \E i \in 1 .. Len(yielded') : yielded'[i].record = l
    BY <1>1, <1>2, <1>13, <1>14
  <1> QED BY <1>14, <1>15, <1>16, <1>17, <1>18 DEF Queue

-----------------------------------------------------------------------------
(* What an entry is made of.                                               *)

\* Every parser finds times, or none.
LEMMA StampsAreTimes ==
  ASSUME NEW type, NEW line, NEW utc \in Int,
         \A s \in line.stamp : s.local \in Int /\ s.offset \in Int
  PROVE  ParserFor(type, line, utc).ts \subseteq Int
  <1>1. OwnOffset(line.stamp) \subseteq Int /\ ConfiguredOffset(line.stamp, utc) \subseteq Int
    BY DEF OwnOffset, ConfiguredOffset
  <1> DEFINE own == OwnOffset(line.stamp)
             set == ConfiguredOffset(line.stamp, utc)
  <1>2. \A t : ParseAccess(line, t).ts \in {{}, own}
    BY DEF ParseAccess, Record, Unmatched
  <1>3. ParseError(line, utc).ts \in {{}, set}
    BY DEF ParseError, Record, Unmatched
  <1>4. ParseRequest(line).ts \in {{}, own}
    BY DEF ParseRequest, Record, Unmatched
  <1>5. ParseDispatcher(line).ts \in {{}, own}
    BY DEF ParseDispatcher, Record, Unmatched
  <1>6. ParseHttpdError(line, utc).ts \in {{}, set}
    BY DEF ParseHttpdError, Record, Unmatched
  <1>7. ParseCdn(line).ts \in {{}, own}
    BY DEF ParseCdn, Record, Unmatched
  <1>8. Record("line", {}, {}, <<>>).ts = {}
    BY DEF Record
  <1> HIDE DEF own, set
  <1>9. ParserFor(type, line, utc).ts \in {{}, own, set}
    BY <1>2, <1>3, <1>4, <1>5, <1>6, <1>7, <1>8 DEF ParserFor
  <1> QED BY <1>1, <1>9 DEF own, set

\* No stamp is further back than the deployment allows.
Fresh(ts) == ts = 0 \/ \A age \in config.maxAge : -ts <= age

LEMMA BuildFollows ==
  ASSUME Source, NEW l \in 1 .. Len(text)
  PROVE  Follows(Build(l), yielded) /\ Fresh(Build(l).ts) /\ Build(l).record = l
  <1>1. /\ Build(l).pos = Len(yielded) + 1 /\ Build(l).record = l
        /\ Build(l).size = text[l].size /\ Build(l).ts = TimestampFor(Parsed(l))
    BY DEF Build, Entry
  <1>2. text[l] \in Content(file.writer)
    BY DEF Source
  <1>3. /\ config.utc \in Int /\ text[l].size \in Nat
        /\ \A s \in text[l].stamp : s.local \in Int /\ s.offset \in Int
    <2>1. \A job \in Jobs : /\ job[2].utc \in Int
                            /\ \A line \in Content(job[1].writer) :
                                 /\ line.size \in Nat
                                 /\ \A s \in line.stamp : s.local \in Int /\ s.offset \in Int
      BY AemAssumption DEF AemAssumption
    <2> QED BY <1>2, <2>1 DEF Source
  <1>4. Parsed(l).ts \subseteq Int
    BY <1>3, StampsAreTimes DEF Parsed
  <1>5. TimestampFor(Parsed(l)) \in Int /\ Fresh(TimestampFor(Parsed(l)))
    BY <1>4 DEF TimestampFor, Fresh
  <1> QED BY <1>1, <1>3, <1>5 DEF Follows

Aged == \A i \in 1 .. Len(yielded) : Fresh(yielded[i].ts)

AemBase == Core /\ Source /\ Queue /\ BatchInv /\ Aged

LEMMA AemBaseStart == ASSUME AemInit PROVE AemBase
  <1>1. Core
    BY CoreStart DEF AemInit
  <1>2. Source
    <2>1. \E job \in Jobs : file = job[1] /\ config = job[2]
      BY DEF AemInit
    <2>2. 0 \in 0 .. MaxSpan
      BY AemAssumption DEF AemAssumption
    <2> QED BY <2>1, <2>2 DEF AemInit, Init, Source
  <1>3. BatchInv
    BY BatchStart DEF AemInit
  <1>4. yielded = <<>> /\ out = <<>> /\ Len(yielded) = 0 /\ Len(out) = 0 /\ \A l \in Lines : emitted[l] = 0
    BY EmptyHasNone DEF AemInit, BatchInit, Init
  <1>5. Queue
    BY <1>4, EmptyIsSeq DEF Queue
  <1>6. Aged
    BY <1>4 DEF Aged
  <1> QED BY <1>1, <1>2, <1>3, <1>5, <1>6 DEF AemBase

\* One entry is yielded.
LEMMA YieldStep ==
  ASSUME AemBase, Yield
  PROVE  /\ Queue' /\ BatchInv' /\ Aged'
         /\ Head(out) \in 1 .. Len(text) /\ emitted[Head(out)] = 1
         /\ yielded' = Append(yielded, Build(Head(out)))
  <1> DEFINE l == Head(out)
             e == Build(l)
  <1>1. /\ out # <<>> /\ out' = Tail(out) /\ UNCHANGED <<emitted, file, config>> /\ Add(e)
    BY DEF Yield, vars
  <1>2. l \in Lines /\ emitted[l] = 1
    <2>1. 1 \in 1 .. Len(out) /\ l = out[1]
      BY <1>1 DEF AemBase, Queue
    <2> QED BY <2>1 DEF AemBase, Queue
  <1>3. l \in 1 .. Len(text)
    BY <1>2 DEF AemBase, Core, NoLineLost, Source, Lines
  <1>4. Follows(e, yielded) /\ Fresh(e.ts) /\ e.record = l
    BY <1>3, BuildFollows DEF AemBase
  <1> HIDE DEF e
  <1>5. yielded' = Append(yielded, e)
    BY <1>1 DEF Add
  <1>6. Queue'
    BY <1>1, <1>4, <1>5, QueuePopped DEF AemBase
  <1>7. BatchInv'
    BY <1>1, <1>4, AddStep DEF AemBase
  <1>8. Aged'
    <2>1. /\ Len(yielded) \in Nat /\ Len(yielded') = Len(yielded) + 1
          /\ \A i \in 1 .. Len(yielded) : yielded'[i] = yielded[i]
          /\ yielded'[Len(yielded) + 1] = e
      BY <1>5, AppendSeq DEF AemBase, Queue
    <2>2. ASSUME NEW i \in 1 .. Len(yielded) + 1 PROVE Fresh(yielded'[i].ts)
      <3>1. CASE i \in 1 .. Len(yielded)
        BY <2>1, <3>1 DEF AemBase, Aged
      <3>2. CASE i \notin 1 .. Len(yielded)
        <4>1. i = Len(yielded) + 1
          BY <2>1, <3>2
        <4> QED BY <1>4, <2>1, <4>1
      <3> QED BY <3>1, <3>2
    <2> QED BY <1>1, <2>1, <2>2 DEF Aged, Fresh
  <1> QED BY <1>2, <1>3, <1>5, <1>6, <1>7, <1>8 DEF e

\* The steps that touch neither what was yielded nor what was pushed.
LEMMA BatchesKept ==
  ASSUME BatchInv, UNCHANGED <<yielded, entries, bytes, sent, state>> PROVE BatchInv'
  BY DEF BatchInv, BatchInvOf

LEMMA BatchesClosed ==
  ASSUME BatchInv, UNCHANGED <<yielded, entries, bytes, sent>>, state = "draining", state' = "done"
  PROVE  BatchInv'
  <1>1. BatchInvOf(yielded, entries, bytes, sent, "done")
    BY DEF BatchInv, BatchInvOf
  <1> QED BY <1>1 DEF BatchInv

LEMMA AgedKept == ASSUME Aged, UNCHANGED <<yielded, config>> PROVE Aged'
  BY DEF Aged, Fresh

LEMMA AemBaseStep == ASSUME AemBase, [AemNext]_aemVars PROVE AemBase'
  <1>1. [Next]_vars /\ Core'
    BY StepCorrelates, CoreStep DEF AemBase
  <1>2. ASSUME NEW line \in Content(file.writer), ReadLine(line) PROVE AemBase'
    <2>1. Source'
      BY <1>2, SourceRead DEF AemBase
    <2>2. Next /\ out = <<>> /\ out' = Returned(emitted, emitted') /\ UNCHANGED <<batchVars, config>>
      BY <1>2, ReadLineCorrelates DEF ReadLine, Waiting
    <2>3. Queue'
      BY <1>1, <2>2, QueueRefilled DEF AemBase, batchVars
    <2>4. BatchInv'
      BY <2>2, BatchesKept DEF AemBase, batchVars
    <2>5. Aged'
      BY <2>2, AgedKept DEF AemBase, batchVars
    <2> QED BY <1>1, <2>1, <2>3, <2>4, <2>5 DEF AemBase
  <1>3. CASE EndObject
    <2>1. Source'
      BY <1>3, SourceKept DEF AemBase
    <2>2. Next /\ out = <<>> /\ out' = Returned(emitted, emitted') /\ UNCHANGED <<batchVars, config>>
      BY <1>3 DEF EndObject, Waiting, Next
    <2>3. Queue'
      BY <1>1, <2>2, QueueRefilled DEF AemBase, batchVars
    <2>4. BatchInv'
      BY <2>2, BatchesKept DEF AemBase, batchVars
    <2>5. Aged'
      BY <2>2, AgedKept DEF AemBase, batchVars
    <2> QED BY <1>1, <2>1, <2>3, <2>4, <2>5 DEF AemBase
  <1>4. CASE Yield
    BY <1>1, <1>4, SourceKept, YieldStep DEF AemBase
  <1>5. CASE Drained
    <2>1. Finish /\ UNCHANGED <<emitted, out, yielded, config>>
      BY <1>5 DEF Drained, Finish, vars
    <2> QED BY <1>1, <1>5, <2>1, SourceKept, QueueKept, FinishStep, AgedKept DEF AemBase
  <1>6. CASE Skip
    <2>1. /\ UNCHANGED <<emitted, out, yielded, entries, bytes, sent, config>>
          /\ state = "draining" /\ state' = "done"
      BY <1>6 DEF Skip, vars
    <2>2. BatchInv'
      BY <2>1, BatchesClosed DEF AemBase
    <2>3. Source' /\ Queue' /\ Aged'
      BY <1>6, <2>1, SourceKept, QueueKept, AgedKept DEF AemBase
    <2> QED BY <1>1, <2>2, <2>3 DEF AemBase
  <1>7. CASE Tick \/ UNCHANGED aemVars
    <2>1. UNCHANGED <<emitted, out, yielded, entries, bytes, sent, state, config>>
      BY <1>7 DEF Tick, aemVars, vars, batchVars
    <2>2. BatchInv'
      BY <2>1, BatchesKept DEF AemBase
    <2>3. Source' /\ Queue' /\ Aged'
      BY <1>7, <2>1, SourceKept, QueueKept, AgedKept DEF AemBase
    <2> QED BY <1>1, <2>2, <2>3 DEF AemBase
  <1> QED BY <1>2, <1>3, <1>4, <1>5, <1>6, <1>7 DEF AemNext

LEMMA AemBaseAlways == AemSpec => []AemBase
  BY AemBaseStart, AemBaseStep, PTL DEF AemSpec

\* However an object's lines are batched and whatever they hold, what was pushed
\* and what is buffered is what was yielded.
THEOREM AemLosesNothing == AemSpec => []NothingLost
  <1>1. AemBase => NothingLost
    BY InvNothingLost DEF AemBase
  <1> QED BY <1>1, AemBaseAlways, PTL

\* Both batch bounds hold for every bound and every line size.
THEOREM AemBatchesAreBounded == AemSpec => []Bounded
  <1>1. AemBase => Bounded
    BY InvBounded DEF AemBase
  <1> QED BY <1>1, AemBaseAlways, PTL

\* Every payload has one stream per resolved label set, in ascending time.
THEOREM AemPayloadsAreSound == AemSpec => []PayloadSound
  <1>1. AemBase => PayloadSound
    BY InvPayloadSound DEF AemBase
  <1> QED BY <1>1, AemBaseAlways, PTL

-----------------------------------------------------------------------------
(* The age of what is pushed.                                              *)

\* However late in the invocation it is looked at, the last batch is fresh.
Recent ==
  sent # <<>> /\ config.maxAge # {} =>
    \A p \in Slots(Last(sent)) :
      /\ Pushed(Last(sent), p).ts \in Int
      /\ MaxSpan - Pushed(Last(sent), p).ts <= OldestTaken

LEMMA RecentBatch == AemBase => Recent
  <1> SUFFICES ASSUME AemBase, sent # <<>>, config.maxAge # {}, NEW p \in Slots(Last(sent))
               PROVE  /\ Pushed(Last(sent), p).ts \in Int
                      /\ MaxSpan - Pushed(Last(sent), p).ts <= OldestTaken
    BY DEF Recent
  <1> DEFINE P == Last(sent)
             e == Pushed(P, p)
             N == Len(sent)
  <1>1. IsSeq(sent) /\ IsSeq(yielded) /\ Numbered(yielded) /\ \E cut : CutBy(cut, sent, yielded)
    BY DEF AemBase, BatchInv, BatchInvOf
  <1>2. PICK cut : CutBy(cut, sent, yielded)
    BY <1>1
  <1>3. N \in Nat /\ N \in 1 .. N /\ N - 1 \in 0 .. N /\ N \in 0 .. N
    BY <1>1, SeqFacts
  <1>4. P = sent[N]
    BY <1>1 DEF IsSeq, Last
  <1>5. BatchOf(P, yielded, cut[N - 1], cut[N]) /\ cut[N] <= Len(yielded)
    BY <1>2, <1>3, <1>4 DEF CutBy
  <1>6. e.pos \in 1 .. Len(yielded) /\ e = yielded[e.pos]
    <2>1. /\ e.pos \in cut[N - 1] + 1 .. cut[N] /\ e = yielded[e.pos]
          /\ cut[N - 1] \in Nat /\ cut[N] \in Nat
      BY <1>5 DEF BatchOf
    <2>2. Len(yielded) \in Nat
      BY <1>1, SeqFacts
    <2> HIDE DEF e, N
    <2> QED BY <1>5, <2>1, <2>2
  <1> HIDE DEF e
  <1>7. e.ts \in Int /\ Fresh(e.ts)
    BY <1>1, <1>6 DEF Numbered, AemBase, Aged
  <1>8. MaxSpan \in Nat /\ OldestTaken \in Nat /\ MaxSpan <= OldestTaken
    BY AemAssumption DEF AemAssumption
  <1>9. \A age \in config.maxAge : age \in Int /\ age + MaxSpan <= OldestTaken
    <2>1. \E job \in Jobs : config = job[2]
      BY DEF AemBase, Source
    <2> QED BY <2>1, AemAssumption DEF AemAssumption
  <1>10. MaxSpan - e.ts <= OldestTaken
    <2>1. CASE e.ts = 0
      BY <1>8, <2>1
    <2>2. CASE \A age \in config.maxAge : -e.ts <= age
      <3>1. PICK age \in config.maxAge : -e.ts <= age
        BY <2>2
      <3> QED BY <1>7, <1>8, <1>9, <3>1
    <2> QED BY <1>7, <2>1, <2>2 DEF Fresh
  <1> QED BY <1>7, <1>10 DEF e

LEMMA PushIsRecent ==
  ASSUME AemBase, AemBase', Recent', [AemNext]_aemVars
  PROVE  [sent' # sent /\ config.maxAge # {} =>
            \A p \in Slots(Last(sent')) :
              clock - Pushed(Last(sent'), p).ts <= OldestTaken]_aemVars
  <1> SUFFICES ASSUME AemNext, sent' # sent, config.maxAge # {}, NEW p \in Slots(Last(sent'))
               PROVE  clock - Pushed(Last(sent'), p).ts <= OldestTaken
    BY DEF aemVars, batchVars
  <1>1. Yield \/ Drained
    BY DEF AemNext, ReadLine, EndObject, Skip, Tick, batchVars
  <1>2. config' = config /\ sent' # <<>>
    <2>1. config' = config
      BY <1>1 DEF Yield, Drained
    <2>2. \E b : sent' = Append(sent, b)
      BY <1>1 DEF Yield, Drained, Add, FlushAndPush, Finish
    <2>3. PICK b : sent' = Append(sent, b)
      BY <2>2
    <2>4. IsSeq(sent)
      BY DEF AemBase, BatchInv, BatchInvOf
    <2>5. IsSeq(sent') /\ Len(sent') = Len(sent) + 1 /\ Len(sent) \in Nat
      BY <2>3, <2>4, AppendSeq
    <2> QED BY <2>1, <2>5, EmptyHasNone
  <1>3. /\ Pushed(Last(sent'), p).ts \in Int
        /\ MaxSpan - Pushed(Last(sent'), p).ts <= OldestTaken
    BY <1>2 DEF Recent
  <1>4. clock \in 0 .. MaxSpan /\ MaxSpan \in Nat /\ OldestTaken \in Nat
    BY AemAssumption DEF AemBase, Source, AemAssumption
  <1> QED BY <1>3, <1>4

\* A stamp chosen when the generator began stays within what Loki takes until
\* the last push of the invocation.
THEOREM AemPushesAreRecent == AemSpec => NeverTooOld
  BY AemBaseAlways, AemBaseStep, RecentBatch, PushIsRecent, PTL DEF AemSpec, NeverTooOld

-----------------------------------------------------------------------------
(* What was yielded is what would be built now.                            *)

\* The labels and the metadata of the entry of line l.
LabelsOf(l) == BuildLabels(Object.type, Object.tier, Object.coordinates, Parsed(l).level)

DetectedIn(l) ==
  LET inferred == IF "level" \in DOMAIN LabelsOf(l) THEN {}
                  ELSE IF Parsed(l).level # {} THEN Parsed(l).level
                  ELSE DetectedLevelFor(Parsed(l).meta)
  IN  [n \in {"detected_level" : i \in inferred} |-> CHOOSE i \in inferred : TRUE]

KeptOf(l) ==
  [n \in DOMAIN Parsed(l).meta \ {"client_ip" : d \in config.dropIp} |-> Parsed(l).meta[n]]

MetaOf(l) == Over(DetectedIn(l), Over(Enriched(l), KeptOf(l)))

Made == \A i \in 1 .. Len(yielded) :
  yielded[i].labels = LabelsOf(yielded[i].record) /\ yielded[i].meta = MetaOf(yielded[i].record)

LEMMA BuildMakes ==
  ASSUME NEW l PROVE Build(l).record = l /\ Build(l).labels = LabelsOf(l) /\ Build(l).meta = MetaOf(l)
  <1>1. Build(l).record = l /\ Build(l).labels = LabelsOf(l)
    BY DEF Build, Entry, LabelsOf
  <1>2. Build(l).meta = MetaOf(l)
    BY DEF Build, Entry, LabelsOf, DetectedIn, KeptOf, MetaOf
  <1> QED BY <1>1, <1>2

\* An entry depends on its line, the first line and the request of its pair.
LEMMA BuildSame ==
  ASSUME UNCHANGED <<file, config>>, NEW l,
         text'[l] = text[l], text'[1] = text[1], partner'[l] = partner[l], dir'[l] = dir[l],
         partner[l] > 0 => text'[partner[l]] = text[partner[l]]
  PROVE  LabelsOf(l)' = LabelsOf(l) /\ MetaOf(l)' = MetaOf(l)
  <1>1. Object' = Object
    BY DEF Object, Resolved
  <1>2. Parsed(l)' = Parsed(l) /\ (partner[l] > 0 => Parsed(partner[l])' = Parsed(partner[l]))
    BY <1>1 DEF Parsed
  <1>3. Enriched(l)' = Enriched(l)
    BY <1>2 DEF Enriched, IsResponse
  <1>4. LabelsOf(l)' = LabelsOf(l)
    BY <1>1, <1>2 DEF LabelsOf
  <1>5. DetectedIn(l)' = DetectedIn(l)
    BY <1>2, <1>4 DEF DetectedIn
  <1>6. KeptOf(l)' = KeptOf(l)
    BY <1>2 DEF KeptOf
  <1> QED BY <1>3, <1>4, <1>5, <1>6 DEF MetaOf

LEMMA LinesKept ==
  ASSUME AemBase, [AemNext]_aemVars, NEW l \in Lines, emitted[l] = 1
  PROVE  /\ UNCHANGED <<file, config>>
         /\ text'[l] = text[l] /\ text'[1] = text[1]
         /\ partner'[l] = partner[l] /\ dir'[l] = dir[l] /\ key'[l] = key[l]
         /\ partner[l] > 0 => text'[partner[l]] = text[partner[l]]
  <1>1. l \in 1 .. read /\ 1 \in 1 .. read /\ read \in Nat
    BY CorrelatorAssumption DEF AemBase, Core, TypeOK, NoLineLost, Lines
  <1>2. partner[l] > 0 => partner[l] \in 1 .. read
    BY <1>1 DEF AemBase, Core, PairsSound, TypeOK
  <1>3. text \in Seq(Content(file.writer)) /\ Len(text) = read
    BY DEF AemBase, Source
  <1>4. UNCHANGED <<file, config>>
    BY DEF AemNext, ReadLine, EndObject, Yield, Drained, Skip, Tick, aemVars
  <1>5. \A k \in 1 .. read : text'[k] = text[k]
    <2>1. (\E line \in Content(file.writer) : text' = Append(text, line)) \/ text' = text
      BY DEF AemNext, ReadLine, EndObject, Yield, Drained, Skip, Tick, aemVars
    <2> QED BY <1>1, <1>3, <2>1
  <1>6. partner'[l] = partner[l] /\ dir'[l] = dir[l] /\ key'[l] = key[l]
    <2>1. CASE Reads
      BY <1>1, <2>1, ReadingKeeps DEF AemBase
    <2>2. CASE Flush \/ UNCHANGED vars
      BY <2>2 DEF Flush, vars, inputVars
    <2>3. [Next]_vars
      BY StepCorrelates
    <2>4. Next => Reads \/ Flush
      BY DEF Next, Reads
    <2> QED BY <2>1, <2>2, <2>3, <2>4
  <1> QED BY <1>1, <1>2, <1>4, <1>5, <1>6

LEMMA MadeStep == ASSUME AemBase, AemBase', Made, [AemNext]_aemVars PROVE Made'
  <1> DEFINE Right(i) == /\ yielded'[i].labels = LabelsOf(yielded[i].record)'
                         /\ yielded'[i].meta = MetaOf(yielded[i].record)'
  <1>1. ASSUME NEW i \in 1 .. Len(yielded), yielded'[i] = yielded[i] PROVE Right(i)
    <2>1. yielded[i].record \in Lines /\ emitted[yielded[i].record] = 1
      BY DEF AemBase, Queue
    <2>2. PICK l \in Lines : l = yielded[i].record /\ l = yielded'[i].record /\ emitted[l] = 1
      BY <1>1, <2>1
    <2>3. LabelsOf(l)' = LabelsOf(l) /\ MetaOf(l)' = MetaOf(l)
      BY <2>2, LinesKept, BuildSame
    <2>4. yielded[i].labels = LabelsOf(l) /\ yielded[i].meta = MetaOf(l)
      BY <2>2 DEF Made
    <2> QED BY <1>1, <2>2, <2>3, <2>4
  <1>2. CASE yielded' = yielded
    BY <1>1, <1>2 DEF Made
  <1>3. CASE Yield
    <2>1. /\ yielded' = Append(yielded, Build(Head(out)))
          /\ Head(out) \in 1 .. Len(text) /\ emitted[Head(out)] = 1
      BY <1>3, YieldStep
    <2>2. PICK l \in Lines : l = Head(out)
      <3>1. read \in 0 .. MaxLines
        BY DEF AemBase, Core, TypeOK
      <3> QED BY <2>1, <3>1, CorrelatorAssumption DEF Lines, AemBase, Source
    <2>3. /\ Len(yielded) \in Nat /\ Len(yielded') = Len(yielded) + 1
          /\ \A i \in 1 .. Len(yielded) : yielded'[i] = yielded[i]
          /\ yielded'[Len(yielded) + 1] = Build(l)
      BY <2>1, <2>2, AppendSeq DEF AemBase, Queue
    <2>4. LabelsOf(l)' = LabelsOf(l) /\ MetaOf(l)' = MetaOf(l)
      BY <2>1, <2>2, LinesKept, BuildSame
    <2>5. ASSUME NEW i \in 1 .. Len(yielded) + 1 PROVE Right(i)
      <3>1. CASE i \in 1 .. Len(yielded)
        BY <1>1, <2>3, <3>1
      <3>2. CASE i \notin 1 .. Len(yielded)
        <4>1. i = Len(yielded) + 1
          BY <2>3, <3>2
        <4>2. /\ yielded'[i].record = l
              /\ yielded'[i].labels = LabelsOf(l) /\ yielded'[i].meta = MetaOf(l)
          BY <2>3, <4>1, BuildMakes
        <4> QED BY <2>4, <4>2
      <3> QED BY <3>1, <3>2
    <2> QED BY <2>3, <2>5 DEF Made
  <1> QED
    BY <1>2, <1>3 DEF AemNext, ReadLine, EndObject, Drained, Finish, Skip, Tick, aemVars, batchVars

-----------------------------------------------------------------------------
(* What the parsers find, and the labels.                                  *)

\* The fields a parser may find.
MetaNames ==
  {"parse_status", "expected_log_type", "method", "path", "protocol", "node_id", "client_ip",
   "remote_user", "status", "status_class", "bytes_sent", "referer", "user_agent", "thread",
   "logger", "exception", "request_id", "direction", "content_type", "duration_ms", "farm",
   "cache_status", "host", "module", "pid", "tid", "waf_rules", "ttlb_ms", "ddos"}

LEMMA DictFacts ==
  ASSUME NEW f, NEW g
  PROVE  /\ DOMAIN Over(f, g) = DOMAIN f \cup DOMAIN g
         /\ \A n \in DOMAIN f : Over(f, g)[n] = f[n]
         /\ \A n \in DOMAIN g \ DOMAIN f : Over(f, g)[n] = g[n]
         /\ DOMAIN Put(f) \subseteq DOMAIN f /\ \A n \in DOMAIN Put(f) : Put(f)[n] # "" /\ Put(f)[n] = f[n]
  BY DEF Over, Put

LEMMA NoFields == DOMAIN <<>> = {}
  OBVIOUS

\* h is g with f over it.
IsOver(h, f, g) ==
  /\ DOMAIN h = DOMAIN f \cup DOMAIN g
  /\ \A n \in DOMAIN f : h[n] = f[n]
  /\ \A n \in DOMAIN g \ DOMAIN f : h[n] = g[n]
  /\ h = [n \in DOMAIN h |-> h[n]]

LEMMA OverIs == ASSUME NEW f, NEW g PROVE IsOver(Over(f, g), f, g)
  BY DEF Over, IsOver

LEMMA PutIs ==
  ASSUME NEW f, NEW h, h = Put(f)
  PROVE  DOMAIN h \subseteq DOMAIN f /\ \A n \in DOMAIN h : h[n] # "" /\ h[n] = f[n]
  BY DEF Put

LEMMA OverNames ==
  ASSUME NEW f, NEW g, NEW N, DOMAIN f \subseteq N, DOMAIN g \subseteq N
  PROVE  DOMAIN Over(f, g) \subseteq N /\ DOMAIN Put(Over(f, g)) \subseteq N
  <1>1. DOMAIN Over(f, g) = DOMAIN f \cup DOMAIN g
    BY DictFacts
  <1>2. DOMAIN Put(Over(f, g)) \subseteq DOMAIN Over(f, g)
    BY DictFacts
  <1> QED BY <1>1, <1>2

LEMMA PutNames == ASSUME NEW f, NEW N, DOMAIN f \subseteq N PROVE DOMAIN Put(f) \subseteq N
  BY DictFacts

LEMMA RequestNames == ASSUME NEW words PROVE DOMAIN SplitRequest(words) \subseteq {"method", "path", "protocol"}
  <1>1. DOMAIN <<>> = {}
    OBVIOUS
  <1> QED BY <1>1 DEF SplitRequest

LEMMA UnmatchedNames ==
  ASSUME NEW type PROVE DOMAIN Unmatched(type).meta \subseteq MetaNames /\ Unmatched(type).level = {}
  BY DEF Unmatched, Record, MetaNames

LEMMA AccessNames ==
  ASSUME NEW line, NEW type
  PROVE  DOMAIN ParseAccess(line, type).meta \subseteq MetaNames /\ ParseAccess(line, type).level = {}
  <1> DEFINE g == line.groups
             rest == [node_id |-> g.node, client_ip |-> g.client_ip,
                      remote_user |-> NoDash(g.user), status |-> g.status,
                      status_class |-> StatusClass(g.status),
                      bytes_sent |-> NoDash(g.bytes), referer |-> NoDash(g.referer),
                      user_agent |-> NoDash(g.agent)]
             both == Over(SplitRequest(g.request), rest)
  <1>1. DOMAIN rest \subseteq MetaNames
    BY DEF MetaNames
  <1>2. DOMAIN SplitRequest(g.request) \subseteq MetaNames
    BY RequestNames DEF MetaNames
  <1>3. line.form # "access" => ParseAccess(line, type) = Unmatched(type)
    BY DEF ParseAccess
  <1>4. line.form = "access" => /\ ParseAccess(line, type).meta = Put(both)
                                /\ ParseAccess(line, type).level = {}
    BY DEF ParseAccess, Record
  <1> HIDE DEF rest
  <1>5. DOMAIN Put(both) \subseteq MetaNames
    BY <1>1, <1>2, OverNames
  <1> HIDE DEF both
  <1> QED BY <1>3, <1>4, <1>5, UnmatchedNames

LEMMA KnownSpellings == ASSUME NEW raw PROVE NormaliseLevel(raw) \subseteq KnownLevels
  <1>1. CASE raw \in KnownLevels
    <2>1. raw \notin DOMAIN LevelSpellings
      BY <1>1 DEF LevelSpellings, KnownLevels
    <2> QED BY <1>1, <2>1 DEF NormaliseLevel
  <1>2. CASE raw \notin KnownLevels /\ raw \in DOMAIN LevelSpellings
    <2>1. LevelSpellings[raw] \in KnownLevels
      BY <1>2 DEF LevelSpellings, KnownLevels
    <2> QED BY <1>2, <2>1 DEF NormaliseLevel
  <1>3. CASE raw \notin KnownLevels /\ raw \notin DOMAIN LevelSpellings
    BY <1>3 DEF NormaliseLevel
  <1> QED BY <1>1, <1>2, <1>3

LEMMA ErrorNames ==
  ASSUME NEW line, NEW utc
  PROVE  /\ DOMAIN ParseError(line, utc).meta \subseteq MetaNames
         /\ ParseError(line, utc).level \subseteq KnownLevels
  <1> DEFINE g == line.groups
             event == [node_id |-> g.node, thread |-> g.thread, logger |-> g.logger,
                       exception |-> g.exception]
             trace == [parse_status |-> "stacktrace", exception |-> g.exception]
  <1>1. DOMAIN event \subseteq MetaNames /\ DOMAIN trace \subseteq MetaNames
    BY DEF MetaNames
  <1>2. line.form = "error" => /\ ParseError(line, utc).meta = Put(event)
                               /\ ParseError(line, utc).level = NormaliseLevel(g.level)
    BY DEF ParseError, Record
  <1>3. line.form = "trace" => /\ ParseError(line, utc).meta = Put(trace)
                               /\ ParseError(line, utc).level = {}
    BY DEF ParseError, Record
  <1>4. line.form \notin {"error", "trace"} => ParseError(line, utc) = Unmatched("aemerror")
    BY DEF ParseError
  <1> HIDE DEF event, trace
  <1>5. DOMAIN Put(event) \subseteq MetaNames /\ DOMAIN Put(trace) \subseteq MetaNames
    BY <1>1, PutNames
  <1> QED BY <1>2, <1>3, <1>4, <1>5, KnownSpellings, UnmatchedNames

LEMMA DispatcherNames ==
  ASSUME NEW line
  PROVE  /\ DOMAIN ParseDispatcher(line).meta \subseteq MetaNames
         /\ ParseDispatcher(line).level \subseteq KnownLevels
  <1> DEFINE g == line.groups
             rest == [status |-> g.status, status_class |-> StatusClass(g.status),
                      duration_ms |-> g.duration, farm |-> g.farm, cache_status |-> g.cache,
                      host |-> g.host]
             tail == IF g.status = "" THEN [parse_status |-> "message-only"]
                     ELSE Over(SplitRequest(g.request), rest)
             node == [node_id |-> g.node]
             level == IF g.level \in DOMAIN DispatcherLevels THEN {DispatcherLevels[g.level]} ELSE {}
  <1>1. DOMAIN rest \subseteq MetaNames /\ DOMAIN node \subseteq MetaNames
        /\ DOMAIN [parse_status |-> "message-only"] \subseteq MetaNames
    BY DEF MetaNames
  <1>2. DOMAIN SplitRequest(g.request) \subseteq MetaNames
    BY RequestNames DEF MetaNames
  <1>3. line.form # "dispatcher" => ParseDispatcher(line) = Unmatched("aemdispatcher")
    BY DEF ParseDispatcher
  <1>4. line.form = "dispatcher" => /\ ParseDispatcher(line).meta = Put(Over(tail, node))
                                    /\ ParseDispatcher(line).level = level
    BY DEF ParseDispatcher, Record
  <1>5. level \subseteq KnownLevels
    BY DEF DispatcherLevels, KnownLevels
  <1> HIDE DEF rest, node, level
  <1>6. DOMAIN Over(SplitRequest(g.request), rest) \subseteq MetaNames
    BY <1>1, <1>2, OverNames
  <1>7. DOMAIN tail \subseteq MetaNames
    BY <1>1, <1>6
  <1> HIDE DEF tail
  <1>8. DOMAIN Put(Over(tail, node)) \subseteq MetaNames
    BY <1>1, <1>7, OverNames
  <1> QED BY <1>3, <1>4, <1>5, <1>8, UnmatchedNames

LEMMA HttpdErrorNames ==
  ASSUME NEW line, NEW utc
  PROVE  /\ DOMAIN ParseHttpdError(line, utc).meta \subseteq MetaNames
         /\ ParseHttpdError(line, utc).level \subseteq KnownLevels
  <1> DEFINE g == line.groups
             fields == [node_id |-> g.node, module |-> g.module, pid |-> g.pid, tid |-> g.tid]
  <1>1. DOMAIN fields \subseteq MetaNames
    BY DEF MetaNames
  <1>2. line.form # "httpderror" => ParseHttpdError(line, utc) = Unmatched("aemhttpderror")
    BY DEF ParseHttpdError
  <1>3. line.form = "httpderror" => /\ ParseHttpdError(line, utc).meta = Put(fields)
                                    /\ ParseHttpdError(line, utc).level = NormaliseLevel(g.level)
    BY DEF ParseHttpdError, Record
  <1> HIDE DEF fields
  <1>4. DOMAIN Put(fields) \subseteq MetaNames
    BY <1>1, PutNames
  <1> QED BY <1>2, <1>3, <1>4, KnownSpellings, UnmatchedNames

LEMMA CdnFieldNames ==
  ASSUME NEW line
  PROVE  DOMAIN ParseCdn(line).meta \subseteq MetaNames /\ ParseCdn(line).level = {}
  <1> DEFINE g == line.groups
             Promoted == {n \in DOMAIN g : n \in DOMAIN CdnNames}
             Renamed == [m \in {CdnNames[n] : n \in Promoted} |->
                           g[CHOOSE n \in Promoted : CdnNames[n] = m]]
             class == [status_class |-> IF "status" \in DOMAIN g
                                        THEN StatusClass(g.status) ELSE ""]
  <1>1. DOMAIN class \subseteq MetaNames
    BY DEF MetaNames
  <1>2. \A n \in DOMAIN CdnNames : CdnNames[n] \in MetaNames
    BY DEF CdnNames, MetaNames
  <1>3. DOMAIN Renamed \subseteq MetaNames
    BY <1>2
  <1>4. line.form \notin {"cdn", "json"} => ParseCdn(line) = Unmatched("aemcdn")
    BY DEF ParseCdn
  <1>5. line.form \in {"cdn", "json"} => /\ ParseCdn(line).meta = Put(Over(Renamed, class))
                                         /\ ParseCdn(line).level = {}
    BY DEF ParseCdn, Record
  <1> HIDE DEF Renamed, class
  <1>6. DOMAIN Put(Over(Renamed, class)) \subseteq MetaNames
    BY <1>1, <1>3, OverNames
  <1> QED BY <1>4, <1>5, <1>6, UnmatchedNames

\* A line of a request log is a request or a response or neither; a response
\* has none of the fields it may be given, and either did parse.
RequestLine(m) ==
  /\ DOMAIN m \subseteq MetaNames
  /\ "direction" \in DOMAIN m =>
       /\ m["direction"] \in {"request", "response"}
       /\ "parse_status" \in DOMAIN m => m["parse_status"] # "unmatched"
  /\ "direction" \in DOMAIN m /\ m["direction"] = "response" =>
       DOMAIN m \cap {"method", "path", "protocol"} = {}

LEMMA RequestFacts ==
  ASSUME NEW line
  PROVE  RequestLine(ParseRequest(line).meta) /\ ParseRequest(line).level = {}
  <1> DEFINE g == line.groups
             Common == [node_id |-> g.node, request_id |-> g.request_id]
             asked == Over(SplitRequest(g.rest), [direction |-> "request"])
             odd == [direction |-> "response", parse_status |-> "response-unmatched"]
             answer == [direction |-> "response", status |-> g.status,
                        status_class |-> StatusClass(g.status),
                        content_type |-> g.content_type, duration_ms |-> g.duration]
             WithCommon(fields) == Put(Over(Common, fields))
  <1>1. ASSUME NEW fields, DOMAIN fields \subseteq MetaNames,
               "direction" \in DOMAIN fields, fields["direction"] \in {"request", "response"},
               "parse_status" \in DOMAIN fields => fields["parse_status"] # "unmatched",
               fields["direction"] = "response" =>
                 DOMAIN fields \cap {"method", "path", "protocol"} = {}
        PROVE  RequestLine(WithCommon(fields))
    <2>1. DOMAIN Common = {"node_id", "request_id"} /\ DOMAIN Common \subseteq MetaNames
      BY DEF MetaNames
    <2> HIDE DEF Common
    <2> DEFINE both == Over(Common, fields)
    <2>2. DOMAIN both = DOMAIN Common \cup DOMAIN fields
          /\ \A n \in DOMAIN fields \ DOMAIN Common : both[n] = fields[n]
      BY DictFacts
    <2> HIDE DEF both
    <2>3. DOMAIN Put(both) \subseteq DOMAIN both /\ \A n \in DOMAIN Put(both) : Put(both)[n] = both[n]
      BY DictFacts
    <2>4. \A n \in DOMAIN Put(both) : n \in DOMAIN Common \/ (n \in DOMAIN fields /\ Put(both)[n] = fields[n])
      BY <2>2, <2>3
    <2>5. DOMAIN Put(both) \subseteq MetaNames
      BY <1>1, <2>1, <2>2, <2>3
    <2> HIDE DEF both
    <2>6. RequestLine(Put(both))
      BY <1>1, <2>1, <2>4, <2>5 DEF RequestLine
    <2> QED BY <2>6 DEF both
  <1>2. RequestLine(WithCommon(asked))
    <2>1. DOMAIN SplitRequest(g.rest) \subseteq {"method", "path", "protocol"}
      BY RequestNames
    <2>2. DOMAIN asked = DOMAIN SplitRequest(g.rest) \cup {"direction"} /\ asked["direction"] = "request"
      BY <2>1 DEF Over
    <2> HIDE DEF asked
    <2> QED BY <1>1, <2>1, <2>2 DEF MetaNames
  <1>3. RequestLine(WithCommon(odd))
    <2>1. DOMAIN odd = {"direction", "parse_status"} /\ odd["direction"] = "response"
          /\ odd["parse_status"] = "response-unmatched"
      OBVIOUS
    <2> HIDE DEF odd
    <2> QED BY <1>1, <2>1 DEF MetaNames
  <1>4. RequestLine(WithCommon(answer))
    <2>1. DOMAIN answer = {"direction", "status", "status_class", "content_type", "duration_ms"}
          /\ answer["direction"] = "response"
      OBVIOUS
    <2> HIDE DEF answer
    <2> QED BY <1>1, <2>1 DEF MetaNames
  <1>5. RequestLine(Unmatched("aemrequest").meta)
    BY DEF Unmatched, Record, RequestLine, MetaNames
  <1>6. ParseRequest(line).meta \in {WithCommon(asked), WithCommon(odd), WithCommon(answer), Unmatched("aemrequest").meta}
        /\ ParseRequest(line).level = {}
    <2>1. CASE line.form # "request"
      BY <2>1, UnmatchedNames DEF ParseRequest
    <2>2. CASE line.form = "request" /\ g.direction = "->" /\ g.status # ""
      BY <2>2 DEF ParseRequest, Record
    <2>3. CASE line.form = "request" /\ g.direction # "->" /\ g.status = ""
      BY <2>3 DEF ParseRequest, Record
    <2>4. CASE line.form = "request" /\ g.direction # "->" /\ g.status # ""
      BY <2>4 DEF ParseRequest, Record
    <2>5. CASE line.form = "request" /\ g.direction = "->" /\ g.status = ""
      BY <2>5 DEF ParseRequest, Record
    <2> QED BY <2>1, <2>2, <2>3, <2>4, <2>5
  <1> HIDE DEF WithCommon, asked, odd, answer
  <1> QED BY <1>2, <1>3, <1>4, <1>5, <1>6

\* Whatever the line and the type, the fields found and the level.
LEMMA FieldNames ==
  ASSUME NEW type, NEW line, NEW utc
  PROVE  /\ DOMAIN ParserFor(type, line, utc).meta \subseteq MetaNames
         /\ ParserFor(type, line, utc).level \subseteq KnownLevels
  <1>1. CASE type \in {"aemaccess", "aemhttpdaccess"}
    BY <1>1, AccessNames DEF ParserFor
  <1>2. CASE type = "aemerror"
    BY <1>2, ErrorNames DEF ParserFor
  <1>3. CASE type = "aemrequest"
    BY <1>3, RequestFacts DEF ParserFor, RequestLine
  <1>4. CASE type = "aemdispatcher"
    BY <1>4, DispatcherNames DEF ParserFor
  <1>5. CASE type = "aemhttpderror"
    BY <1>5, HttpdErrorNames DEF ParserFor
  <1>6. CASE type = "aemcdn"
    BY <1>6, CdnFieldNames DEF ParserFor
  <1>7. CASE type \notin {"aemaccess", "aemhttpdaccess", "aemerror", "aemrequest", "aemdispatcher",
                          "aemhttpderror", "aemcdn"}
    <2>1. ParserFor(type, line, utc) = Record("line", {}, {}, <<>>)
      BY <1>7 DEF ParserFor
    <2>2. DOMAIN <<>> = {}
      OBVIOUS
    <2> QED BY <2>1, <2>2 DEF Record
  <1> QED BY <1>1, <1>2, <1>3, <1>4, <1>5, <1>6, <1>7

\* The labels of one object: its coordinates, type and tier, and a level.
CoordinateNames == {"program_id", "env_id", "env_type"}
LabelNames == CoordinateNames \cup {"log_type", "aem_tier", "level"}

LEMMA CoordinatesSound ==
  ASSUME NEW c, NEW d
  PROVE  /\ DOMAIN Coordinates(c, d) \subseteq CoordinateNames
         /\ \A n \in DOMAIN Coordinates(c, d) : Coordinates(c, d)[n] # ""
  <1> DEFINE all == [n \in {"program_id", "env_id", "env_type"} |->
                       IF n \in DOMAIN c THEN c[n] ELSE d[n]]
  <1>1. Coordinates(c, d) = Put(all) /\ DOMAIN all = CoordinateNames
    BY DEF Coordinates, CoordinateNames
  <1> HIDE DEF all
  <1> QED BY <1>1, PutIs

\* What is left of the labels without the level.
Unlevelled(type, tier, coordinates) == Over(coordinates, [log_type |-> type, aem_tier |-> tier])

LEMMA LabelsSound ==
  ASSUME NEW type, type # "", NEW tier, tier # "", NEW c, DOMAIN c \subseteq CoordinateNames,
         \A n \in DOMAIN c : c[n] # "", NEW level, level \subseteq KnownLevels
  PROVE  LET labels == BuildLabels(type, tier, c, level)
         IN  /\ DOMAIN labels \subseteq LabelNames /\ "log_type" \in DOMAIN labels
             /\ \A n \in DOMAIN labels : labels[n] # ""
             /\ [n \in DOMAIN labels \ {"level"} |-> labels[n]] = Unlevelled(type, tier, c)
             /\ "level" \in DOMAIN labels => labels["level"] \in KnownLevels
  <1> DEFINE labels == BuildLabels(type, tier, c, level)
             base == [log_type |-> type, aem_tier |-> tier]
             lv == LevelLabel({l \in level : type \in LevelledTypes})
             tail == Over(base, lv)
             bare == Unlevelled(type, tier, c)
  <1>1. labels = Over(c, tail) /\ bare = Over(c, base) /\ tail = Over(base, lv)
    BY DEF BuildLabels, Unlevelled
  <1>2. DOMAIN base = {"log_type", "aem_tier"} /\ \A n \in DOMAIN base : base[n] # ""
    <2>1. DOMAIN base = {"log_type", "aem_tier"} /\ base["log_type"] = type /\ base["aem_tier"] = tier
      OBVIOUS
    <2> HIDE DEF base
    <2> QED BY <2>1
  <1>3. DOMAIN lv \subseteq {"level"} /\ \A n \in DOMAIN lv : lv[n] \in KnownLevels
    <2> DEFINE S == {l \in level : type \in LevelledTypes}
    <2>1. S \subseteq KnownLevels
      OBVIOUS
    <2> HIDE DEF S
    <2>2. CASE S = {}
      <3>1. LevelLabel(S) = <<>>
        BY <2>2 DEF LevelLabel
      <3> QED BY <3>1, NoFields DEF S
    <2>3. CASE S # {}
      <3> DEFINE word == CHOOSE l \in S : TRUE
      <3>1. LevelLabel(S) = [level |-> word]
        BY <2>3 DEF LevelLabel
      <3>2. word \in S
        BY <2>3
      <3> HIDE DEF word
      <3>3. DOMAIN [level |-> word] = {"level"} /\ [level |-> word]["level"] = word
        OBVIOUS
      <3>4. lv = [level |-> word]
        BY <3>1 DEF S
      <3> HIDE DEF lv
      <3> QED BY <2>1, <3>2, <3>3, <3>4
    <2> QED BY <2>2, <2>3
  <1>4. "" \notin KnownLevels
    BY DEF KnownLevels
  <1> HIDE DEF labels, base, lv, bare, tail
  <1>5. IsOver(tail, base, lv) /\ IsOver(labels, c, tail) /\ IsOver(bare, c, base)
    BY <1>1, OverIs
  <1>8. DOMAIN c \cap {"log_type", "aem_tier", "level"} = {}
    BY DEF CoordinateNames
  <1>9. /\ DOMAIN labels \subseteq LabelNames /\ "log_type" \in DOMAIN labels
        /\ \A n \in DOMAIN labels : labels[n] # ""
        /\ "level" \in DOMAIN labels => labels["level"] \in KnownLevels
    <2>1. \A n \in DOMAIN lv : n \notin DOMAIN base /\ n \notin DOMAIN c /\ n = "level"
      BY <1>2, <1>3, <1>8
    <2>2. \A n \in DOMAIN labels :
            \/ n \in DOMAIN c /\ labels[n] = c[n]
            \/ n \in DOMAIN base /\ labels[n] = base[n]
            \/ n \in DOMAIN lv /\ labels[n] = lv[n]
      BY <1>5, <2>1 DEF IsOver
    <2>3. \A n \in DOMAIN labels : labels[n] # ""
      BY <1>2, <1>3, <1>4, <2>2
    <2>4. DOMAIN labels \subseteq LabelNames /\ "log_type" \in DOMAIN labels
      BY <1>2, <1>5, <2>1, <2>2 DEF IsOver, LabelNames
    <2>5. "level" \in DOMAIN labels => "level" \in DOMAIN lv /\ labels["level"] = lv["level"]
      BY <1>2, <1>8, <2>2
    <2> QED BY <1>3, <2>3, <2>4, <2>5
  <1>10. [n \in DOMAIN labels \ {"level"} |-> labels[n]] = bare
    <2>1. DOMAIN labels \ {"level"} = DOMAIN bare
      BY <1>2, <1>3, <1>5, <1>8 DEF IsOver
    <2>2. \A n \in DOMAIN bare : labels[n] = bare[n]
      BY <1>2, <1>5, <1>8 DEF IsOver
    <2>3. bare = [n \in DOMAIN bare |-> bare[n]]
      BY <1>5 DEF IsOver
    <2> QED BY <2>1, <2>2, <2>3
  <1> QED BY <1>9, <1>10 DEF labels, bare

\* The type and tier of an object are known words.
LEMMA ObjectSound ==
  ASSUME AemBase, Len(text) # 0
  PROVE  /\ Object.type # "" /\ Object.tier # ""
         /\ DOMAIN Object.coordinates \subseteq CoordinateNames
         /\ \A n \in DOMAIN Object.coordinates : Object.coordinates[n] # ""
  <1>1. text[1].form \in DOMAIN SniffedAs
    <2>1. text[1] \in Content(file.writer)
      BY DEF AemBase, Source
    <2>2. PICK job \in Jobs : file = job[1]
      BY DEF AemBase, Source
    <2> QED BY <2>1, <2>2, AemAssumption DEF AemAssumption
  <1> DEFINE keyed == FromKey(file.captured)
             named  == IF "log_type" \in DOMAIN keyed
                       THEN LogTypeFromName(keyed.log_type) ELSE "unknown"
             type   == IF named = "unknown" /\ config.sniff THEN SniffLogType(text[1]) ELSE named
             inKey  == IF "tier" \in DOMAIN keyed THEN TierFromName(keyed.tier) ELSE "unknown"
             tier   == IF inKey = "unknown" /\ config.tier # ""
                       THEN TierFromName(config.tier) ELSE inKey
  <1>2. \A raw : LogTypeFromName(raw) # "" /\ TierFromName(raw) # ""
    <2>1. ASSUME NEW raw PROVE LogTypeFromName(raw) \in LogTypes
      <3>1. CASE raw \in DOMAIN TypeAliases
        <4>1. raw \notin LogTypes /\ TypeAliases[raw] \in LogTypes
          BY <3>1 DEF TypeAliases, LogTypes
        <4> QED BY <3>1, <4>1 DEF LogTypeFromName
      <3>2. CASE raw \notin DOMAIN TypeAliases
        BY <3>2 DEF LogTypeFromName, LogTypes
      <3> QED BY <3>1, <3>2
    <2>2. \A raw : TierFromName(raw) \in Tiers
      BY DEF TierFromName, Tiers
    <2> QED BY <2>1, <2>2 DEF LogTypes, Tiers
  <1>3. \A f \in DOMAIN SniffedAs : SniffedAs[f] # ""
    <2>1. DOMAIN SniffedAs = {"access", "error", "request", "dispatcher", "httpderror", "cdn",
                              "json", "trace", "text"}
      BY DEF SniffedAs
    <2>2. /\ SniffedAs["access"] # "" /\ SniffedAs["error"] # "" /\ SniffedAs["request"] # ""
          /\ SniffedAs["dispatcher"] # "" /\ SniffedAs["httpderror"] # "" /\ SniffedAs["cdn"] # ""
          /\ SniffedAs["json"] # "" /\ SniffedAs["trace"] # "" /\ SniffedAs["text"] # ""
      BY DEF SniffedAs
    <2> QED BY <2>1, <2>2
  <1>4. SniffLogType(text[1]) # ""
    BY <1>1, <1>3 DEF SniffLogType
  <1>5. named # "" /\ inKey # ""
    BY <1>2
  <1>6. type # "" /\ tier # ""
    BY <1>2, <1>4, <1>5
  <1>7. /\ Object.type = type
        /\ Object.tier \in {tier, "dispatcher"}
        /\ Object.coordinates = Coordinates(keyed, config.defaults)
    BY DEF Object, Resolved
  <1> HIDE DEF type, tier, keyed
  <1> QED BY <1>6, <1>7, CoordinatesSound

LEMMA SixLabels == IsFiniteSet(LabelNames) /\ Cardinality(LabelNames) <= 6
  <1> DEFINE Small(S, k) == IsFiniteSet(S) /\ Cardinality(S) \in Nat /\ Cardinality(S) <= k
  <1>1. ASSUME NEW S, NEW k \in Nat, Small(S, k), NEW x PROVE Small(S \cup {x}, k + 1)
    BY <1>1, FS_AddElement
  <1>2. Small({}, 0)
    BY FS_EmptySet
  <1> HIDE DEF Small
  <1> DEFINE s2 == {"program_id"} \cup {"env_id"}
             s3 == s2 \cup {"env_type"}
             s4 == s3 \cup {"log_type"}
             s5 == s4 \cup {"aem_tier"}
             s6 == s5 \cup {"level"}
  <1>3. Small({"program_id"}, 1)
    <2>1. Small({} \cup {"program_id"}, 0 + 1)
      BY <1>1, <1>2
    <2> QED BY <2>1
  <1>4. Small(s2, 2)
    <2>1. Small({"program_id"} \cup {"env_id"}, 1 + 1)
      BY <1>1, <1>3
    <2> QED BY <2>1
  <1> HIDE DEF s2
  <1>5. Small(s3, 3)
    <2>1. Small(s2 \cup {"env_type"}, 2 + 1)
      BY <1>1, <1>4
    <2> QED BY <2>1
  <1> HIDE DEF s3
  <1>6. Small(s4, 4)
    <2>1. Small(s3 \cup {"log_type"}, 3 + 1)
      BY <1>1, <1>5
    <2> QED BY <2>1
  <1> HIDE DEF s4
  <1>7. Small(s5, 5)
    <2>1. Small(s4 \cup {"aem_tier"}, 4 + 1)
      BY <1>1, <1>6
    <2> QED BY <2>1
  <1> HIDE DEF s5
  <1>8. Small(s6, 6)
    <2>1. Small(s5 \cup {"level"}, 5 + 1)
      BY <1>1, <1>7
    <2> QED BY <2>1
  <1>9. LabelNames = {"program_id"} \cup {"env_id"} \cup {"env_type"} \cup {"log_type"}
                       \cup {"aem_tier"} \cup {"level"}
    BY DEF LabelNames, CoordinateNames
  <1>10. LabelNames = s6
    BY <1>9 DEF s2, s3, s4, s5
  <1> QED BY <1>8, <1>10 DEF Small

\* With the static labels of the deployment they are labels Loki takes.
LEMMA ResolvedCount ==
  ASSUME NEW own \in SUBSET LabelNames, own # {}
  PROVE  Cardinality(own \cup DOMAIN StaticLabels) \in 1 .. MaxLabelsPerStream
  <1> DEFINE static == DOMAIN StaticLabels
             all == own \cup static
  <1>1. IsFiniteSet(own) /\ Cardinality(own) <= Cardinality(LabelNames)
    BY SixLabels, FS_Subset
  <1>2. Cardinality(own) \in Nat
    BY <1>1, FS_CardinalityType
  <1>3. Cardinality(LabelNames) \in Nat
    BY SixLabels, FS_CardinalityType
  <1>4. Cardinality(LabelNames) <= 6
    BY SixLabels
  <1>5. Cardinality(own) <= 6
    BY <1>1, <1>2, <1>3, <1>4
  <1>6. IsFiniteSet(static) /\ Cardinality(static) + 6 <= 15
    BY LabelsAssumption DEF LabelsAssumption, MaxLabelsPerStream
  <1> HIDE DEF static
  <1>7. Cardinality(static) \in Nat
    BY <1>6, FS_CardinalityType
  <1>8. /\ IsFiniteSet(own \cup static) /\ IsFiniteSet(own \cap static)
        /\ Cardinality(own \cup static) = Cardinality(own) + Cardinality(static)
                                           - Cardinality(own \cap static)
    BY <1>1, <1>6, FS_Union, FS_Intersection
  <1>9. Cardinality(own \cap static) \in Nat /\ Cardinality(own \cup static) \in Nat
    BY <1>8, FS_CardinalityType
  <1>10. Cardinality(own \cup static) # 0
    <2>1. own \cup static # {}
      OBVIOUS
    <2> DEFINE both == own \cup static
    <2>2. IsFiniteSet(both) /\ both # {}
      BY <1>8, <2>1
    <2> HIDE DEF both
    <2>3. Cardinality(both) # 0
      BY <2>2, FS_EmptySet
    <2> QED BY <2>3 DEF both
  <1>11. Cardinality(own \cup static) \in 1 .. 15
    <2>1. ASSUME NEW a \in Nat, NEW b \in Nat, NEW c \in Nat, NEW d \in Nat,
                 a <= 6, b + 6 <= 15, d = a + b - c, d # 0
          PROVE  d \in 1 .. 15
      BY <2>1
    <2> QED BY <1>2, <1>5, <1>6, <1>7, <1>8, <1>9, <1>10, <2>1
  <1> QED BY <1>11 DEF static, MaxLabelsPerStream

Filled(labels) == \A n \in DOMAIN labels : labels[n] # ""

LEMMA ResolvedValid ==
  ASSUME NEW labels, DOMAIN labels \subseteq LabelNames, "log_type" \in DOMAIN labels,
         Filled(labels)
  PROVE  ValidLabels(Resolve(labels))
  <1> DEFINE all == DOMAIN labels \cup DOMAIN StaticLabels
  <1>1. DOMAIN Resolve(labels) = all
    BY DEF Resolve
  <1>2. \A n \in all :
          Resolve(labels)[n] = IF n \in DOMAIN labels THEN labels[n] ELSE StaticLabels[n]
    BY DEF Resolve
  <1>3. \A n \in LabelNames : n \notin BannedLabelNames
    BY DEF LabelNames, CoordinateNames, BannedLabelNames
  <1>4. ASSUME NEW n \in all PROVE n \notin BannedLabelNames /\ Resolve(labels)[n] # ""
    <2>1. CASE n \in DOMAIN labels
      <3>1. n \notin BannedLabelNames
        BY <1>3, <2>1
      <3>2. labels[n] # ""
        BY <2>1 DEF Filled
      <3> QED BY <1>2, <2>1, <3>1, <3>2
    <2>2. CASE n \notin DOMAIN labels
      <3>1. n \in DOMAIN StaticLabels
        BY <2>2
      <3>2. n \notin BannedLabelNames /\ StaticLabels[n] # ""
        BY <3>1, LabelsAssumption DEF LabelsAssumption
      <3> QED BY <1>2, <2>2, <3>2
    <2> QED BY <2>1, <2>2
  <1>5. Cardinality(all) \in 1 .. MaxLabelsPerStream
    <2>1. DOMAIN labels \in SUBSET LabelNames /\ DOMAIN labels # {}
      OBVIOUS
    <2> QED BY <2>1, ResolvedCount
  <1> HIDE DEF all
  <1> QED BY <1>1, <1>4, <1>5 DEF ValidLabels

\* A line that was yielded is one of the text.
LEMMA YieldedLine ==
  ASSUME AemBase, NEW i \in 1 .. Len(yielded)
  PROVE  yielded[i].record \in 1 .. Len(text) /\ yielded[i].record \in Lines /\ Len(text) # 0
         /\ Len(text) = read /\ read \in Nat /\ emitted[yielded[i].record] = 1
  <1>1. yielded[i].record \in Lines /\ emitted[yielded[i].record] = 1
    BY DEF AemBase, Queue
  <1>2. yielded[i].record <= read
    BY <1>1 DEF AemBase, Core, NoLineLost
  <1>3. read \in Nat /\ Len(text) = read
    BY CorrelatorAssumption DEF AemBase, Core, TypeOK, Source
  <1> QED BY <1>1, <1>2, <1>3 DEF Lines

LEMMA MetaFacts ==
  ASSUME NEW l
  PROVE  /\ DOMAIN MetaOf(l) = DOMAIN DetectedIn(l) \cup DOMAIN Enriched(l) \cup DOMAIN KeptOf(l)
         /\ \A n \in DOMAIN Enriched(l) \ DOMAIN DetectedIn(l) : MetaOf(l)[n] = Enriched(l)[n]
         /\ \A n \in DOMAIN KeptOf(l) \ (DOMAIN DetectedIn(l) \cup DOMAIN Enriched(l)) :
              MetaOf(l)[n] = KeptOf(l)[n]
         /\ DOMAIN DetectedIn(l) \subseteq {"detected_level"}
         /\ "level" \in DOMAIN LabelsOf(l) => DOMAIN DetectedIn(l) = {}
         /\ DOMAIN Enriched(l) \subseteq {"correlated", "method", "path", "protocol"}
         /\ DOMAIN KeptOf(l) \subseteq MetaNames
  <1> DEFINE inner == Over(Enriched(l), KeptOf(l))
  <1>1. IsOver(inner, Enriched(l), KeptOf(l)) /\ IsOver(Over(DetectedIn(l), inner), DetectedIn(l), inner)
    BY OverIs
  <1>2. MetaOf(l) = Over(DetectedIn(l), inner)
    BY DEF MetaOf
  <1> HIDE DEF inner
  <1>3. IsOver(MetaOf(l), DetectedIn(l), inner) /\ IsOver(inner, Enriched(l), KeptOf(l))
    BY <1>1, <1>2
  <1>4. /\ DOMAIN MetaOf(l) = DOMAIN DetectedIn(l) \cup DOMAIN Enriched(l) \cup DOMAIN KeptOf(l)
        /\ \A n \in DOMAIN Enriched(l) \ DOMAIN DetectedIn(l) : MetaOf(l)[n] = Enriched(l)[n]
        /\ \A n \in DOMAIN KeptOf(l) \ (DOMAIN DetectedIn(l) \cup DOMAIN Enriched(l)) :
              MetaOf(l)[n] = KeptOf(l)[n]
    BY <1>3 DEF IsOver
  <1>5. /\ DOMAIN DetectedIn(l) \subseteq {"detected_level"}
        /\ "level" \in DOMAIN LabelsOf(l) => DOMAIN DetectedIn(l) = {}
    BY DEF DetectedIn
  <1>6. DOMAIN Enriched(l) \subseteq {"correlated", "method", "path", "protocol"}
    <2>1. CASE partner[l] > 0
      <3> DEFINE c == Carried(Parsed(partner[l]).meta)
                 one == [correlated |-> "true"]
      <3>1. DOMAIN c \subseteq {"method", "path", "protocol"}
        BY DEF Carried
      <3>2. DOMAIN one = {"correlated"}
        OBVIOUS
      <3>3. Enriched(l) = Over(one, c)
        BY <2>1 DEF Enriched
      <3> HIDE DEF c, one
      <3>4. IsOver(Over(one, c), one, c)
        BY OverIs
      <3> QED BY <3>1, <3>2, <3>3, <3>4 DEF IsOver
    <2>2. CASE ~(partner[l] > 0) /\ partner[l] = 0 /\ IsResponse(l)
      <3>1. Enriched(l) = [correlated |-> "false"]
        BY <2>2 DEF Enriched
      <3> QED BY <3>1
    <2>3. CASE ~(partner[l] > 0) /\ ~(partner[l] = 0 /\ IsResponse(l))
      <3>1. Enriched(l) = <<>>
        BY <2>3 DEF Enriched
      <3> QED BY <3>1, NoFields
    <2> QED BY <2>1, <2>2, <2>3
  <1>7. DOMAIN KeptOf(l) \subseteq MetaNames
    <2>1. DOMAIN Parsed(l).meta \subseteq MetaNames
      BY FieldNames DEF Parsed
    <2> QED BY <2>1 DEF KeptOf
  <1> QED BY <1>4, <1>5, <1>6, <1>7

LEMMA InvStreamsBounded == AemBase /\ Made => StreamsBounded
  <1> SUFFICES ASSUME AemBase, Made PROVE StreamsBounded
    OBVIOUS
  <1>1. IsSeq(yielded)
    BY DEF AemBase, Queue
  <1>2. DOMAIN yielded = 1 .. Len(yielded)
    BY <1>1, SeqFacts
  <1> DEFINE bare == Unlevelled(Object.type, Object.tier, Object.coordinates)
  <1>3. ASSUME NEW i \in 1 .. Len(yielded)
        PROVE  /\ [n \in DOMAIN yielded[i].labels \ {"level"} |-> yielded[i].labels[n]] = bare
               /\ ValidLabels(Resolve(yielded[i].labels))
               /\ "level" \in DOMAIN yielded[i].labels =>
                    /\ yielded[i].labels["level"] \in KnownLevels
                    /\ "detected_level" \notin DOMAIN yielded[i].meta
    <2>1. yielded[i].record \in 1 .. Len(text) /\ Len(text) # 0
      BY YieldedLine
    <2>2. PICK l \in 1 .. Len(text) : l = yielded[i].record
      BY <2>1
    <2> DEFINE labels == LabelsOf(l)
    <2>3. yielded[i].labels = labels /\ yielded[i].meta = MetaOf(l)
      BY <2>2 DEF Made
    <2>4. labels = BuildLabels(Object.type, Object.tier, Object.coordinates, Parsed(l).level)
      BY DEF LabelsOf
    <2>5. Parsed(l).level \subseteq KnownLevels
      BY FieldNames DEF Parsed
    <2>6. /\ Object.type # "" /\ Object.tier # ""
          /\ DOMAIN Object.coordinates \subseteq CoordinateNames
          /\ \A n \in DOMAIN Object.coordinates : Object.coordinates[n] # ""
      BY <2>1, ObjectSound
    <2> HIDE DEF labels
    <2>7. /\ DOMAIN labels \subseteq LabelNames /\ "log_type" \in DOMAIN labels
          /\ Filled(labels)
          /\ [n \in DOMAIN labels \ {"level"} |-> labels[n]] = bare
          /\ "level" \in DOMAIN labels => labels["level"] \in KnownLevels
      <3> DEFINE type == Object.type
                 tier == Object.tier
                 given == Object.coordinates
                 level == Parsed(l).level
      <3>1. /\ type # "" /\ tier # "" /\ DOMAIN given \subseteq CoordinateNames
            /\ \A n \in DOMAIN given : given[n] # ""
            /\ level \subseteq KnownLevels /\ labels = BuildLabels(type, tier, given, level)
            /\ bare = Unlevelled(type, tier, given)
        BY <2>4, <2>5, <2>6
      <3> DEFINE built == BuildLabels(type, tier, given, level)
      <3> HIDE DEF type, tier, given, level, bare
      <3>2. /\ DOMAIN built \subseteq LabelNames /\ "log_type" \in DOMAIN built
            /\ \A n \in DOMAIN built : built[n] # ""
            /\ [n \in DOMAIN built \ {"level"} |-> built[n]] = Unlevelled(type, tier, given)
            /\ "level" \in DOMAIN built => built["level"] \in KnownLevels
        BY <3>1, LabelsSound, Zenon
      <3>3. labels = built
        BY <3>1
      <3> HIDE DEF built
      <3> QED BY <3>1, <3>2, <3>3, Zenon DEF Filled
    <2>8. ValidLabels(Resolve(labels))
      BY <2>7, ResolvedValid
    <2>9. "level" \in DOMAIN labels => "detected_level" \notin DOMAIN MetaOf(l)
      <3>1. "detected_level" \notin MetaNames
        BY DEF MetaNames
      <3> QED BY <3>1, MetaFacts DEF labels
    <2> QED BY <2>3, <2>7, <2>8, <2>9
  <1> HIDE DEF bare
  <1> QED BY <1>2, <1>3 DEF StreamsBounded

LEMMA MadeAlways == AemSpec => []Made
  <1>1. AemInit => Made
    <2> SUFFICES ASSUME AemInit PROVE Made
      OBVIOUS
    <2>1. Len(yielded) = 0
      BY EmptyHasNone DEF AemInit, BatchInit
    <2> QED BY <2>1 DEF Made
  <1> QED BY <1>1, AemBaseAlways, MadeStep, PTL DEF AemSpec

\* The streams of one object differ in the level only, in known words, and Loki
\* takes their labels: for every key, line, default and deployment.
THEOREM AemStreamsAreBounded == AemSpec => []StreamsBounded
  BY AemBaseAlways, MadeAlways, InvStreamsBounded, PTL

-----------------------------------------------------------------------------
(* The end of the object.                                                  *)

\* The correlator saw what the parser found in each line.
Typed == \A l \in 1 .. read :
  IF Correlating(Object.type)
  THEN dir[l] = DirectionOf(Parsed(l).meta) /\ key[l] = KeyOf(Parsed(l).meta)
  ELSE dir[l] = "other"

Unparsed(es) == {i \in 1 .. Len(es) : Field(es[i], "parse_status") = "unmatched"}

\* A skipped object leaves nothing behind.
Unopened ==
  Skipped => /\ text = <<>> /\ out = <<>> /\ yielded = <<>> /\ sent = <<>> /\ ~done
             /\ paired = 0 /\ unpaired = 0

\* After the end of the object only responses come out, and nothing is held.
Released ==
  done => /\ \A k \in Keys : responses[k] = 0
          /\ \A i \in 1 .. Len(out) : dir[out[i]] = "response"

Counted == unmatched = Cardinality(Unparsed(yielded))

\* An object that was opened is done once everything has been pushed.
Ended == state = "done" /\ ~Skipped => done /\ out = <<>> /\ entries = <<>>

Closing == Unopened /\ Released /\ Counted /\ Ended

LEMMA TypedStep == ASSUME AemBase, Typed, [AemNext]_aemVars PROVE Typed'
  <1>1. read \in Nat /\ text \in Seq(Content(file.writer)) /\ Len(text) = read
    BY CorrelatorAssumption DEF AemBase, Core, TypeOK, Source
  <1>2. ASSUME NEW line \in Content(file.writer), ReadLine(line) PROVE Typed'
    <2>1. /\ text' = Append(text, line) /\ UNCHANGED <<file, config>>
          /\ LET type == Resolved(text'[1]).type
                 meta == ParserFor(type, line, config.utc).meta
             IN  IF Correlating(type)
                 THEN Process(DirectionOf(meta), KeyOf(meta))
                 ELSE PassThrough
      BY <1>2 DEF ReadLine
    <2>2. /\ text' = Append(text, line) /\ UNCHANGED <<file, config>>
          /\ Next /\ read' = Line
          /\ IF Correlating(Object'.type)
             THEN LET meta == ParserFor(Object'.type, line, config.utc).meta
                  IN  dir'[Line] = DirectionOf(meta) /\ key'[Line] = KeyOf(meta)
             ELSE PassThrough
      <3>1. Object' = Resolved(text'[1])
        BY <2>1 DEF Object, Resolved
      <3>2. Next /\ read' = Line
        BY <1>2, ReadLineCorrelates, <2>1 DEF Process, PassThrough, Read
      <3> QED BY <2>1, <3>1, <3>2 DEF Process
    <2>3. Reads
      BY <2>2, ReadingReads DEF AemBase
    <2>4. /\ read' = read + 1 /\ read + 1 \in Lines
          /\ \A l \in 1 .. read : dir'[l] = dir[l] /\ key'[l] = key[l]
      BY <2>3, ReadingKeeps DEF AemBase
    <2>5. \A l \in 1 .. read : text'[l] = text[l]
      BY <1>1, <2>2
    <2>6. text'[read + 1] = line
      BY <1>1, <2>2
    <2>7. ASSUME NEW l \in 1 .. read
          PROVE  IF Correlating(Object'.type)
                 THEN dir'[l] = DirectionOf(Parsed(l)'.meta) /\ key'[l] = KeyOf(Parsed(l)'.meta)
                 ELSE dir'[l] = "other"
      <3>1. text'[1] = text[1]
        BY <1>1, <2>5
      <3>2. Object' = Object
        BY <2>2, <3>1 DEF Object, Resolved
      <3>3. Parsed(l)' = Parsed(l)
        BY <2>2, <2>5, <3>2 DEF Parsed
      <3> QED BY <2>2, <2>4, <3>2, <3>3 DEF Typed, Correlating
    <2>8. ASSUME NEW l \in Lines, l = read + 1
          PROVE  IF Correlating(Object'.type)
                 THEN dir'[l] = DirectionOf(Parsed(l)'.meta) /\ key'[l] = KeyOf(Parsed(l)'.meta)
                 ELSE dir'[l] = "other"
      <3>1. CASE Correlating(Object'.type)
        <4>1. Parsed(l)' = ParserFor(Object'.type, line, config.utc)
          BY <2>2, <2>6, <2>8 DEF Parsed
        <4> QED BY <2>2, <2>8, <3>1, <4>1 DEF Line
      <3>2. CASE ~Correlating(Object'.type)
        <4>1. dir' = [dir EXCEPT ![Line] = "other"]
          BY <2>2, <3>2 DEF PassThrough, Read
        <4>2. dir'[l] = "other"
          BY <2>8, <4>1 DEF Line, AemBase, Core, TypeOK
        <4> QED BY <3>2, <4>2
      <3> QED BY <3>1, <3>2
    <2>9. \A l \in 1 .. read + 1 : l \in 1 .. read \/ l = read + 1
      BY <1>1
    <2> QED BY <2>2, <2>4, <2>7, <2>8, <2>9 DEF Typed, Correlating
  <1>3. CASE ~\E line \in Content(file.writer) : ReadLine(line)
    <2>1. UNCHANGED <<read, dir, key, file, config, text>>
      BY <1>3 DEF AemNext, EndObject, Flush, Yield, Drained, Skip, Tick, aemVars, vars, inputVars
    <2>2. Object' = Object
      BY <2>1 DEF Object, Resolved
    <2>3. ASSUME NEW l \in 1 .. read PROVE Parsed(l)' = Parsed(l)
      BY <2>1, <2>2 DEF Parsed
    <2> QED BY <2>1, <2>2, <2>3 DEF Typed, Correlating
  <1> QED BY <1>2, <1>3

LEMMA PlainField ==
  ASSUME NEW l, NEW n \in {"parse_status", "node_id", "request_id", "direction"}
  PROVE  /\ n \in DOMAIN MetaOf(l) <=> n \in DOMAIN Parsed(l).meta
         /\ n \in DOMAIN Parsed(l).meta => MetaOf(l)[n] = Parsed(l).meta[n]
  <1>1. /\ n \in DOMAIN KeptOf(l) <=> n \in DOMAIN Parsed(l).meta
        /\ n \in DOMAIN Parsed(l).meta => KeptOf(l)[n] = Parsed(l).meta[n]
    BY DEF KeptOf
  <1>2. n \notin {"detected_level"} /\ n \notin {"correlated", "method", "path", "protocol"}
    OBVIOUS
  <1> QED BY <1>1, <1>2, MetaFacts

\* A line with a direction is of a request log, and of the request format.
LEMMA DirectedLine ==
  ASSUME Typed, NEW l \in 1 .. read, dir[l] # "other"
  PROVE  /\ RequestLine(Parsed(l).meta) /\ KeyOf(Parsed(l).meta) # NoKey
         /\ dir[l] = DirectionOf(Parsed(l).meta) /\ key[l] = KeyOf(Parsed(l).meta)
         /\ "direction" \in DOMAIN Parsed(l).meta
         /\ dir[l] = "response" <=> Parsed(l).meta["direction"] = "response"
  <1>1. /\ Correlating(Object.type)
        /\ dir[l] = DirectionOf(Parsed(l).meta) /\ key[l] = KeyOf(Parsed(l).meta)
    BY DEF Typed
  <1>2. Parsed(l) = ParseRequest(text[l])
    BY <1>1 DEF Parsed, ParserFor, Correlating
  <1>3. RequestLine(Parsed(l).meta)
    BY <1>2, RequestFacts
  <1>4. KeyOf(Parsed(l).meta) # NoKey
    BY <1>1 DEF DirectionOf
  <1>5. "direction" \in DOMAIN Parsed(l).meta
    BY <1>4 DEF KeyOf
  <1>6. dir[l] = "response" <=> Parsed(l).meta["direction"] = "response"
    BY <1>1, <1>4 DEF DirectionOf
  <1> QED BY <1>1, <1>3, <1>4, <1>5, <1>6

LEMMA UnopenedStep == ASSUME Unopened, [AemNext]_aemVars PROVE Unopened'
  <1>1. Skipped' <=> Skipped
    BY DEF AemNext, ReadLine, EndObject, Yield, Drained, Skip, Tick, aemVars, Skipped
  <1>2. CASE Skipped
    <2>1. Skip \/ UNCHANGED aemVars
      BY <1>2 DEF Unopened, AemNext, ReadLine, EndObject, Yield, Drained, Tick
    <2> QED BY <1>2, <2>1 DEF Skip, Unopened, aemVars, batchVars, vars
  <1> QED BY <1>1, <1>2 DEF Unopened

LEMMA ReleasedStep == ASSUME AemBase, AemBase', Released, [AemNext]_aemVars PROVE Released'
  <1>1. ASSUME NEW line \in Content(file.writer), ReadLine(line) PROVE ~done'
    BY <1>1, ReadLineCorrelates, ReadingReads DEF ReadLine, Waiting, AemBase, Process, PassThrough, Read
  <1>2. CASE EndObject
    <2>1. /\ Flush /\ out' = Returned(emitted, emitted')
      BY <1>2 DEF EndObject
    <2>2. \A k \in Keys : responses'[k] = 0
      BY <2>1 DEF Flush
    <2>3. \A i \in 1 .. Len(out') : out'[i] \in Lines /\ emitted'[out'[i]] > emitted[out'[i]]
      BY <2>1, ReturnedLists DEF AemBase
    <2>4. \A l \in Lines : emitted[l] \in Nat
      BY DEF AemBase, Core, TypeOK
    <2>5. ASSUME NEW l \in Lines, emitted'[l] > emitted[l] PROVE dir'[l] = "response"
      <3>1. l \in {responses[k] : k \in Pending(responses)}
        BY <2>1, <2>4, <2>5 DEF Flush, Emit
      <3>2. PICK k \in Keys : responses[k] = l /\ responses[k] > 0
        BY <3>1 DEF Pending
      <3>3. dir[l] = "response"
        BY <3>2 DEF AemBase, Core, Entries
      <3> QED BY <2>1, <3>3 DEF Flush, inputVars
    <2> QED BY <2>2, <2>3, <2>5 DEF Released
  <1>3. CASE Yield
    <2>1. out # <<>> /\ out' = Tail(out) /\ UNCHANGED <<done, responses, dir>>
      BY <1>3 DEF Yield, vars, inputVars
    <2>2. /\ Len(out) \in Nat /\ Len(out') = Len(out) - 1
          /\ \A i \in 1 .. Len(out) - 1 : out'[i] = out[i + 1]
      BY <2>1 DEF AemBase, Queue
    <2>3. \A i \in 1 .. Len(out) - 1 : i + 1 \in 1 .. Len(out)
      BY <2>2
    <2> QED BY <2>1, <2>2, <2>3 DEF Released
  <1>4. CASE Drained \/ Skip \/ Tick \/ UNCHANGED aemVars
    <2>1. UNCHANGED <<done, responses, dir, out>>
      BY <1>4 DEF Drained, Skip, Tick, aemVars, vars, inputVars
    <2> QED BY <2>1 DEF Released
  <1> QED BY <1>1, <1>2, <1>3, <1>4 DEF AemNext, Released

LEMMA EndedStep == ASSUME Ended, [AemNext]_aemVars PROVE Ended'
  <1>1. Skipped' <=> Skipped
    BY DEF AemNext, ReadLine, EndObject, Yield, Drained, Skip, Tick, aemVars, Skipped
  <1>2. CASE Drained
    BY <1>1, <1>2 DEF Drained, Finish, vars, Ended
  <1>3. CASE Skip
    BY <1>1, <1>3 DEF Skip, Ended
  <1>4. CASE Yield
    <2>1. state = "draining" /\ state' \in {state, "failed"}
      BY <1>4 DEF Yield, Add, FlushAndPush
    <2> QED BY <2>1 DEF Ended
  <1>5. CASE ~Drained /\ ~Skip /\ ~Yield
    <2>1. UNCHANGED <<state, entries>> /\ (UNCHANGED <<done, out>> \/ state = "draining")
      BY <1>5 DEF AemNext, ReadLine, EndObject, Tick, aemVars, batchVars, vars, Waiting
    <2> QED BY <1>1, <2>1 DEF Ended
  <1> QED BY <1>2, <1>3, <1>4, <1>5

\* One more line that did not parse.
LEMMA UnparsedGrows ==
  ASSUME NEW es, IsSeq(es), NEW e
  PROVE  Cardinality(Unparsed(Append(es, e))) =
           Cardinality(Unparsed(es)) + (IF Field(e, "parse_status") = "unmatched" THEN 1 ELSE 0)
  <1> DEFINE N == Len(es)
             more == Append(es, e)
  <1>1. /\ N \in Nat /\ Len(more) = N + 1 /\ more[N + 1] = e
        /\ \A i \in 1 .. N : more[i] = es[i]
    BY AppendSeq
  <1>2. IsFiniteSet(Unparsed(es)) /\ Cardinality(Unparsed(es)) \in Nat
    <2>1. N \in Int
      BY <1>1
    <2>2. IsFiniteSet(1 .. N)
      BY <2>1, FS_Interval
    <2>3. Unparsed(es) \in SUBSET (1 .. N)
      BY DEF Unparsed
    <2>4. IsFiniteSet(Unparsed(es))
      BY <2>2, <2>3, FS_Subset
    <2> QED BY <2>4, FS_CardinalityType
  <1> HIDE DEF N, more
  <1>3. 1 .. N + 1 = (1 .. N) \cup {N + 1} /\ N + 1 \notin 1 .. N
    BY <1>1
  <1>4. \A i \in 1 .. N : Field(more[i], "parse_status") = Field(es[i], "parse_status")
    BY <1>1
  <1>5. Unparsed(es) = {i \in 1 .. N : Field(es[i], "parse_status") = "unmatched"}
    BY DEF Unparsed, N
  <1>6. Unparsed(more) = {i \in 1 .. N + 1 : Field(more[i], "parse_status") = "unmatched"}
    BY <1>1 DEF Unparsed
  <1>7. CASE Field(e, "parse_status") = "unmatched"
    <2>1. Unparsed(more) = Unparsed(es) \cup {N + 1}
      BY <1>1, <1>3, <1>4, <1>5, <1>6, <1>7
    <2>2. N + 1 \notin Unparsed(es)
      BY <1>3, <1>5
    <2>3. Cardinality(Unparsed(es) \cup {N + 1}) = Cardinality(Unparsed(es)) + 1
      BY <1>2, <2>2, FS_AddElement
    <2> QED BY <1>7, <2>1, <2>3 DEF more
  <1>8. CASE Field(e, "parse_status") # "unmatched"
    <2>1. Unparsed(more) = Unparsed(es)
      BY <1>1, <1>3, <1>4, <1>5, <1>6, <1>8
    <2> QED BY <1>2, <1>8, <2>1 DEF more
  <1> QED BY <1>7, <1>8

LEMMA CountedStep ==
  ASSUME AemBase, Typed, Released, Counted, [AemNext]_aemVars PROVE Counted'
  <1>1. CASE Yield
    <2>1. /\ yielded' = Append(yielded, Build(Head(out)))
          /\ Head(out) \in 1 .. Len(text) /\ emitted[Head(out)] = 1
      BY <1>1, YieldStep
    <2>2. PICK l \in 1 .. read : l = Head(out)
      BY <2>1 DEF AemBase, Source
    <2> DEFINE e == Build(l)
    <2>3. e.meta = MetaOf(l)
      BY BuildMakes
    <2>4. unmatched' = unmatched + IF ~done /\ "parse_status" \in DOMAIN e.meta
                                      /\ e.meta.parse_status = "unmatched" THEN 1 ELSE 0
      BY <1>1, <2>2 DEF Yield
    <2> HIDE DEF e
    <2>5. Field(e, "parse_status") = "unmatched" <=>
            "parse_status" \in DOMAIN e.meta /\ e.meta["parse_status"] = "unmatched"
      BY DEF Field
    <2>6. ASSUME done PROVE Field(e, "parse_status") # "unmatched"
      <3>1. 1 \in 1 .. Len(out) /\ l = out[1]
        BY <1>1, <2>2 DEF AemBase, Queue, Yield
      <3>2. dir[l] = "response"
        BY <2>6, <3>1 DEF Released
      <3>3. RequestLine(Parsed(l).meta) /\ "direction" \in DOMAIN Parsed(l).meta
        BY <3>2, DirectedLine
      <3>4. "parse_status" \in DOMAIN Parsed(l).meta => Parsed(l).meta["parse_status"] # "unmatched"
        BY <3>3 DEF RequestLine
      <3>5. /\ "parse_status" \in DOMAIN MetaOf(l) <=> "parse_status" \in DOMAIN Parsed(l).meta
            /\ "parse_status" \in DOMAIN Parsed(l).meta =>
                 MetaOf(l)["parse_status"] = Parsed(l).meta["parse_status"]
        BY PlainField
      <3> QED BY <2>3, <2>5, <3>4, <3>5
    <2>7. unmatched' = unmatched + IF Field(e, "parse_status") = "unmatched" THEN 1 ELSE 0
      BY <2>4, <2>5, <2>6
    <2>8. yielded' = Append(yielded, e)
      BY <2>1, <2>2 DEF e
    <2>9. IsSeq(yielded)
      BY DEF AemBase, Queue
    <2>10. Cardinality(Unparsed(yielded')) = Cardinality(Unparsed(yielded)) +
             (IF Field(e, "parse_status") = "unmatched" THEN 1 ELSE 0)
      BY <2>8, <2>9, UnparsedGrows
    <2>11. unmatched' = Cardinality(Unparsed(yielded'))
      BY <2>7, <2>10 DEF Counted
    <2> QED BY <2>11 DEF Counted
  <1>2. CASE ~Yield
    <2>1. UNCHANGED <<unmatched, yielded>>
      BY <1>2 DEF AemNext, ReadLine, EndObject, Drained, Finish, Skip, Tick, aemVars, batchVars
    <2> QED BY <2>1 DEF Counted
  <1> QED BY <1>1, <1>2

AemInv == AemBase /\ Made /\ Typed /\ Closing

LEMMA ClosingStart == ASSUME AemInit PROVE Typed /\ Closing
  <1>1. /\ read = 0 /\ text = <<>> /\ out = <<>> /\ yielded = <<>> /\ sent = <<>> /\ ~done
        /\ paired = 0 /\ unpaired = 0 /\ unmatched = 0 /\ state = "draining"
    BY DEF AemInit, Init, BatchInit
  <1>2. Len(yielded) = 0
    BY <1>1, EmptyHasNone
  <1>3. Unparsed(yielded) = {}
    BY <1>2 DEF Unparsed
  <1>4. Cardinality(Unparsed(yielded)) = 0
    BY <1>3, FS_EmptySet
  <1> QED BY <1>1, <1>4 DEF Typed, Closing, Unopened, Released, Counted, Ended

LEMMA AemInvAlways == AemSpec => []AemInv
  <1>1. ASSUME AemBase, AemBase', Typed, Closing, [AemNext]_aemVars PROVE Typed' /\ Closing'
    BY <1>1, TypedStep, UnopenedStep, ReleasedStep, EndedStep, CountedStep DEF Closing
  <1> QED BY <1>1, ClosingStart, AemBaseAlways, MadeAlways, PTL DEF AemSpec, AemInv

-----------------------------------------------------------------------------
(* What Loki has once the object is done.                                  *)

\* Every entry has been pushed, as it was yielded.
LEMMA AllShipped ==
  ASSUME AemInv, state = "done", entries = <<>>
  PROVE  /\ Shipped = {yielded[i] : i \in 1 .. Len(yielded)}
         /\ \A i \in 1 .. Len(yielded) : yielded[i].pos = i
  <1>1. /\ IsSeq(yielded) /\ IsSeq(entries) /\ IsSeq(sent) /\ Numbered(yielded)
        /\ \E cut : /\ CutBy(cut, sent, yielded)
                    /\ state # "failed" => Buffered(entries, bytes, yielded, cut[Len(sent)])
    BY DEF AemInv, AemBase, BatchInv, BatchInvOf
  <1>2. PICK cut : /\ CutBy(cut, sent, yielded)
                   /\ state # "failed" => Buffered(entries, bytes, yielded, cut[Len(sent)])
    BY <1>1
  <1> DEFINE N == Len(sent)
             Y == Len(yielded)
  <1>3. N \in Nat /\ Y \in Nat /\ DOMAIN sent = 1 .. N
    BY <1>1, SeqFacts
  <1>4. cut[N] = Y
    <2>1. Len(entries) = 0
      BY EmptyHasNone
    <2>2. cut[N] + Len(entries) = Y
      BY <1>2 DEF Buffered, Rest
    <2>3. cut[N] \in Nat
      <3>1. N \in 0 .. N
        BY <1>3
      <3> QED BY <1>2, <3>1 DEF CutBy
    <2> QED BY <2>1, <2>2, <2>3
  <1>5. UNION {Positions(sent[n]) : n \in DOMAIN sent} = 1 .. Y
    BY <1>1, <1>2, <1>3, <1>4, PositionsOfAll
  <1>6. \A n \in DOMAIN sent : \A p \in Slots(sent[n]) :
          Pushed(sent[n], p) = yielded[Pushed(sent[n], p).pos]
    <2>1. \A n \in 1 .. N : BatchOf(sent[n], yielded, cut[n - 1], cut[n])
      BY <1>2 DEF CutBy
    <2> QED BY <1>3, <2>1 DEF BatchOf
  <1> HIDE DEF N, Y
  <1>7. ASSUME NEW e \in Shipped PROVE \E i \in 1 .. Y : e = yielded[i]
    <2>1. \E n \in DOMAIN sent : \E p \in Slots(sent[n]) : e = Pushed(sent[n], p)
      BY DEF Shipped
    <2>2. PICK n \in DOMAIN sent : \E p \in Slots(sent[n]) : e = Pushed(sent[n], p)
      BY <2>1
    <2> PICK p \in Slots(sent[n]) : e = Pushed(sent[n], p)
      BY <2>2
    <2>3. e.pos \in Positions(sent[n])
      BY <2>2 DEF Positions
    <2>4. e.pos \in 1 .. Y
      BY <1>5, <2>3
    <2> QED BY <1>6, <2>2, <2>4
  <1>8. ASSUME NEW i \in 1 .. Y PROVE yielded[i] \in Shipped
    <2>1. PICK n \in DOMAIN sent : i \in Positions(sent[n])
      BY <1>5
    <2>2. PICK p \in Slots(sent[n]) : Pushed(sent[n], p).pos = i
      BY <2>1 DEF Positions
    <2>3. Pushed(sent[n], p) = yielded[i]
      BY <1>6, <2>2
    <2> QED BY <2>3 DEF Shipped
  <1>9. Shipped = {yielded[i] : i \in 1 .. Y}
    BY <1>7, <1>8
  <1>10. \A i \in 1 .. Y : yielded[i].pos = i
    BY <1>1 DEF Numbered, Y
  <1> QED BY <1>9, <1>10 DEF Y

\* The lines of the object and what Loki has correspond one to one.
LEMMA LineOfEach ==
  ASSUME AemInv, state = "done", ~Skipped
  PROVE  /\ Len(text) = read /\ read \in Nat /\ done
         /\ \A e \in Shipped : e.record \in 1 .. read /\ e.meta = MetaOf(e.record)
         /\ \A l \in 1 .. read : \E e \in Shipped : e.record = l
         /\ \A d, e \in Shipped : d.record = e.record => d = e
  <1>1. done /\ out = <<>> /\ entries = <<>>
    BY DEF AemInv, Closing, Ended
  <1>2. Shipped = {yielded[i] : i \in 1 .. Len(yielded)}
    BY <1>1, AllShipped
  <1>3. Len(text) = read /\ read \in Nat /\ read <= MaxLines
    BY CorrelatorAssumption DEF AemInv, AemBase, Core, TypeOK, Source
  <1>4. ASSUME NEW e \in Shipped PROVE e.record \in 1 .. read /\ e.meta = MetaOf(e.record)
    <2>1. PICK i \in 1 .. Len(yielded) : e = yielded[i]
      BY <1>2
    <2>2. e.record \in 1 .. Len(text)
      BY <2>1, YieldedLine DEF AemInv
    <2> QED BY <1>3, <2>1, <2>2 DEF AemInv, Made
  <1>5. ASSUME NEW l \in 1 .. read PROVE \E e \in Shipped : e.record = l
    <2>1. l \in Lines
      BY <1>3, CorrelatorAssumption DEF Lines
    <2>2. ~Held(l)
      <3>1. \A k \in Keys : responses[k] = 0
        BY <1>1 DEF AemInv, Closing, Released
      <3>2. l # 0
        BY <1>3
      <3> QED BY <3>1, <3>2 DEF Held
    <2>3. emitted[l] = 1
      BY <1>3, <2>1, <2>2 DEF AemInv, AemBase, Core, NoLineLost
    <2>4. Len(out) = 0
      BY <1>1, EmptyHasNone
    <2>5. \E i \in 1 .. Len(yielded) : yielded[i].record = l
      BY <2>1, <2>3, <2>4 DEF AemInv, AemBase, Queue
    <2> QED BY <1>2, <2>5
  <1>6. ASSUME NEW d \in Shipped, NEW e \in Shipped, d.record = e.record PROVE d = e
    <2>1. PICK i \in 1 .. Len(yielded) : d = yielded[i]
      BY <1>2
    <2>2. PICK j \in 1 .. Len(yielded) : e = yielded[j]
      BY <1>2
    <2>3. i = j
      BY <1>6, <2>1, <2>2 DEF AemInv, AemBase, Queue
    <2> QED BY <2>1, <2>2, <2>3
  <1> QED BY <1>1, <1>3, <1>4, <1>5, <1>6

\* So what Loki has of some of the lines is as many entries as there are lines.
LEMMA AsMany ==
  ASSUME AemInv, state = "done", ~Skipped,
         NEW some \in SUBSET (1 .. read), NEW those \in SUBSET Shipped,
         \A e \in Shipped : e \in those <=> e.record \in some
  PROVE  Cardinality(those) = Cardinality(some) /\ IsFiniteSet(some)
  <1>1. /\ read \in Nat
        /\ \A e \in Shipped : e.record \in 1 .. read
        /\ \A l \in 1 .. read : \E e \in Shipped : e.record = l
        /\ \A d, e \in Shipped : d.record = e.record => d = e
    BY LineOfEach
  <1>2. IsFiniteSet(some)
    <2>1. read \in Int
      BY <1>1
    <2>2. IsFiniteSet(1 .. read)
      BY <2>1, FS_Interval
    <2> QED BY <2>2, FS_Subset
  <1> DEFINE entry == [l \in some |-> CHOOSE e \in Shipped : e.record = l]
  <1>3. \A l \in some : \E e \in Shipped : e.record = l
    BY <1>1
  <1>4. \A l \in some : entry[l] \in those /\ entry[l].record = l
    BY <1>3
  <1>5. \A e \in those : e.record \in some /\ entry[e.record] = e
    <2> SUFFICES ASSUME NEW e \in those PROVE e.record \in some /\ entry[e.record] = e
      OBVIOUS
    <2>1. e \in Shipped /\ e.record \in some
      OBVIOUS
    <2>2. entry[e.record] \in Shipped /\ entry[e.record].record = e.record
      BY <1>4, <2>1
    <2> QED BY <1>1, <2>1, <2>2
  <1>6. DOMAIN entry = some /\ entry \in [some -> those]
    BY <1>4
  <1> HIDE DEF entry
  <1>7. entry \in Bijection(some, those)
    BY <1>4, <1>5, <1>6 DEF Bijection, Injection, Surjection, IsInjective
  <1>8. ExistsBijection(some, those)
    BY <1>7 DEF ExistsBijection
  <1> QED BY <1>2, <1>8, FS_Bijection

\* What the correlator adds to an entry.
LEMMA MarksOf ==
  ASSUME AemInv, NEW l \in 1 .. read, NEW e, e.meta = MetaOf(l)
  PROVE  /\ Field(e, "correlated") = "true" <=> partner[l] > 0
         /\ Field(e, "correlated") = "false" <=> ~(partner[l] > 0) /\ partner[l] = 0 /\ IsResponse(l)
  <1>1. /\ DOMAIN MetaOf(l) = DOMAIN DetectedIn(l) \cup DOMAIN Enriched(l) \cup DOMAIN KeptOf(l)
        /\ \A n \in DOMAIN Enriched(l) \ DOMAIN DetectedIn(l) : MetaOf(l)[n] = Enriched(l)[n]
        /\ DOMAIN DetectedIn(l) \subseteq {"detected_level"} /\ DOMAIN KeptOf(l) \subseteq MetaNames
    BY MetaFacts
  <1>2. "correlated" \notin MetaNames
    BY DEF MetaNames
  <1>3. /\ "correlated" \in DOMAIN MetaOf(l) <=> "correlated" \in DOMAIN Enriched(l)
        /\ "correlated" \in DOMAIN Enriched(l) => MetaOf(l)["correlated"] = Enriched(l)["correlated"]
    BY <1>1, <1>2
  <1>4. CASE partner[l] > 0
    <2> DEFINE one == [correlated |-> "true"]
               c == Carried(Parsed(partner[l]).meta)
    <2>1. Enriched(l) = Over(one, c)
      BY <1>4 DEF Enriched
    <2>2. DOMAIN one = {"correlated"} /\ one["correlated"] = "true"
      OBVIOUS
    <2> HIDE DEF one, c
    <2>3. IsOver(Over(one, c), one, c)
      BY OverIs
    <2>4. "correlated" \in DOMAIN Enriched(l) /\ Enriched(l)["correlated"] = "true"
      BY <2>1, <2>2, <2>3 DEF IsOver
    <2>5. Field(e, "correlated") = "true"
      BY <1>3, <2>4 DEF Field
    <2> QED BY <1>4, <2>5
  <1>5. CASE ~(partner[l] > 0) /\ partner[l] = 0 /\ IsResponse(l)
    <2>1. Enriched(l) = [correlated |-> "false"]
      BY <1>5 DEF Enriched
    <2>2. "correlated" \in DOMAIN Enriched(l) /\ Enriched(l)["correlated"] = "false"
      BY <2>1
    <2>3. Field(e, "correlated") = "false"
      BY <1>3, <2>2 DEF Field
    <2> QED BY <1>5, <2>3
  <1>6. CASE ~(partner[l] > 0) /\ ~(partner[l] = 0 /\ IsResponse(l))
    <2>1. Enriched(l) = <<>>
      BY <1>6 DEF Enriched
    <2>2. "correlated" \notin DOMAIN Enriched(l)
      BY <2>1, NoFields
    <2>3. Field(e, "correlated") = ""
      BY <1>3, <2>2 DEF Field
    <2> QED BY <1>6, <2>3
  <1> QED BY <1>4, <1>5, <1>6

\* A correlated response has the fields of the request it was paired with, and
\* no field of its own stands in for one that request lacks.
LEMMA CarriedFields ==
  ASSUME AemInv, NEW l \in 1 .. read, partner[l] > 0, NEW n \in {"method", "path", "protocol"}
  PROVE  /\ n \in DOMAIN MetaOf(l) <=> n \in DOMAIN Parsed(partner[l]).meta
         /\ n \in DOMAIN MetaOf(l) => MetaOf(l)[n] = Parsed(partner[l]).meta[n]
  <1> DEFINE meta == Parsed(partner[l]).meta
             one == [correlated |-> "true"]
             c == Carried(meta)
  <1>1. Enriched(l) = Over(one, c)
    BY DEF Enriched
  <1>2. (n \in DOMAIN c <=> n \in DOMAIN meta) /\ (n \in DOMAIN c => c[n] = meta[n])
    BY DEF Carried
  <1>3. n \notin DOMAIN one
    OBVIOUS
  <1> HIDE DEF one, c
  <1>4. IsOver(Over(one, c), one, c)
    BY OverIs
  <1>5. /\ n \in DOMAIN Enriched(l) <=> n \in DOMAIN meta
        /\ n \in DOMAIN Enriched(l) => Enriched(l)[n] = meta[n]
    BY <1>1, <1>2, <1>3, <1>4 DEF IsOver
  <1>6. n \notin DOMAIN KeptOf(l)
    <2>1. dir[l] = "response"
      <3>1. l \in Lines
        BY CorrelatorAssumption DEF AemInv, AemBase, Core, TypeOK, Lines
      <3> QED BY <3>1 DEF AemInv, AemBase, Core, PairsSound, IsResponse
    <2>2. /\ RequestLine(Parsed(l).meta) /\ "direction" \in DOMAIN Parsed(l).meta
          /\ Parsed(l).meta["direction"] = "response"
      BY <2>1, DirectedLine DEF AemInv
    <2>3. n \notin DOMAIN Parsed(l).meta
      BY <2>2 DEF RequestLine
    <2> QED BY <2>3 DEF KeptOf
  <1>7. /\ DOMAIN MetaOf(l) = DOMAIN DetectedIn(l) \cup DOMAIN Enriched(l) \cup DOMAIN KeptOf(l)
        /\ \A m \in DOMAIN Enriched(l) \ DOMAIN DetectedIn(l) : MetaOf(l)[m] = Enriched(l)[m]
        /\ DOMAIN DetectedIn(l) \subseteq {"detected_level"}
    BY MetaFacts
  <1>8. n # "detected_level"
    OBVIOUS
  <1> HIDE DEF meta
  <1>9. /\ n \in DOMAIN MetaOf(l) <=> n \in DOMAIN meta
        /\ n \in DOMAIN MetaOf(l) => MetaOf(l)[n] = meta[n]
    BY <1>5, <1>6, <1>7, <1>8
  <1> QED BY <1>9 DEF meta

\* The counters of the summary line are what can be counted in Loki.
LEMMA InvCounters == AemInv /\ StatsAddUp => CountersMatchLoki
  <1> SUFFICES ASSUME AemInv, StatsAddUp, state = "done" PROVE CountersMatchLoki
    BY DEF CountersMatchLoki
  <1>1. CASE Skipped
    <2>1. sent = <<>> /\ yielded = <<>> /\ paired = 0 /\ unpaired = 0
      BY <1>1 DEF AemInv, Closing, Unopened
    <2>2. Shipped = {}
      <3>1. DOMAIN sent = {}
        BY <2>1, NoFields
      <3> QED BY <3>1 DEF Shipped
    <2>3. Unparsed(yielded) = {}
      <3>1. Len(yielded) = 0
        BY <2>1, EmptyHasNone
      <3> QED BY <3>1 DEF Unparsed
    <2>4. \A n, v : With(n, v) = {}
      BY <2>2 DEF With
    <2>5. unmatched = 0
      BY <2>3, FS_EmptySet DEF AemInv, Closing, Counted
    <2> QED BY <2>1, <2>4, <2>5, FS_EmptySet DEF CountersMatchLoki
  <1>2. CASE ~Skipped
    <2>1. /\ read \in Nat /\ done
          /\ \A e \in Shipped : e.record \in 1 .. read /\ e.meta = MetaOf(e.record)
      BY <1>2, LineOfEach
    <2> DEFINE got == {l \in 1 .. read : partner[l] > 0}
               gave == {l \in 1 .. read : ~(partner[l] > 0) /\ partner[l] = 0 /\ IsResponse(l)}
    <2>2. \A l \in Lines : partner[l] \in Nat /\ (partner[l] > 0 => l <= read /\ IsResponse(l))
      BY DEF AemInv, AemBase, Core, TypeOK, PairsSound
    <2>3. 1 .. read \subseteq Lines
      BY CorrelatorAssumption DEF AemInv, AemBase, Core, TypeOK, Lines
    <2>4. Cardinality(With("correlated", "true")) = Cardinality(got) /\ IsFiniteSet(got)
      <3>1. \A e \in Shipped : e \in With("correlated", "true") <=> e.record \in got
        BY <2>1, MarksOf DEF With
      <3>2. got \in SUBSET (1 .. read) /\ With("correlated", "true") \in SUBSET Shipped
        BY DEF With
      <3> HIDE DEF got
      <3> QED BY <1>2, <3>1, <3>2, AsMany
    <2>5. Cardinality(With("correlated", "false")) = Cardinality(gave) /\ IsFiniteSet(gave)
      <3>1. \A e \in Shipped : e \in With("correlated", "false") <=> e.record \in gave
        BY <2>1, MarksOf DEF With
      <3>2. gave \in SUBSET (1 .. read) /\ With("correlated", "false") \in SUBSET Shipped
        BY DEF With
      <3> HIDE DEF gave
      <3> QED BY <1>2, <3>1, <3>2, AsMany
    <2>6. paired = Cardinality(got)
      <3>1. {l \in Lines : partner[l] > 0} = got
        BY <2>1, <2>2, <2>3 DEF Lines
      <3> QED BY <3>1 DEF StatsAddUp
    <2>7. unpaired = Cardinality(gave)
      <3>1. Pending(responses) = {}
        BY <2>1 DEF AemInv, Closing, Released, Pending
      <3>2. Cardinality(Pending(responses)) = 0
        BY <3>1, FS_EmptySet
      <3>3. {l \in ReadLines : IsResponse(l)} = got \cup gave
        BY <2>2, <2>3 DEF ReadLines
      <3>4. got \cap gave = {}
        OBVIOUS
      <3>5. paired + unpaired + 0 = Cardinality(got \cup gave)
        BY <3>2, <3>3 DEF StatsAddUp
      <3>6. paired \in Nat /\ unpaired \in Nat
        BY DEF AemInv, AemBase, Core, TypeOK
      <3> HIDE DEF got, gave
      <3>7. Cardinality(got \cup gave) = Cardinality(got) + Cardinality(gave) - Cardinality(got \cap gave)
        BY <2>4, <2>5, FS_Union
      <3>8. Cardinality(got \cap gave) = 0
        BY <3>4, FS_EmptySet
      <3>9. Cardinality(got) \in Nat /\ Cardinality(gave) \in Nat
        BY <2>4, <2>5, FS_CardinalityType
      <3>10. ASSUME NEW a \in Nat, NEW b \in Nat, NEW c \in Nat, NEW d, a + b + 0 = d, d = a + c - 0
             PROVE  b = c
        BY <3>10
      <3> QED BY <2>6, <3>5, <3>6, <3>7, <3>8, <3>9, <3>10
    <2>8. unmatched = Cardinality(With("parse_status", "unmatched"))
      <3> DEFINE these == Unparsed(yielded)
                 those == With("parse_status", "unmatched")
                 at == [i \in these |-> yielded[i]]
      <3>1. entries = <<>>
        BY <1>2 DEF AemInv, Closing, Ended
      <3>2. /\ Shipped = {yielded[i] : i \in 1 .. Len(yielded)}
            /\ \A i \in 1 .. Len(yielded) : yielded[i].pos = i
        BY <3>1, AllShipped
      <3>3. \A i \in 1 .. Len(yielded) : i \in these <=> yielded[i] \in those
        BY <3>2 DEF Unparsed, With
      <3>4. these \subseteq 1 .. Len(yielded) /\ those \subseteq Shipped
        BY DEF Unparsed, With
      <3>5. IsFiniteSet(these)
        <4>1. IsSeq(yielded)
          BY DEF AemInv, AemBase, Queue
        <4>2. Len(yielded) \in Int
          BY <4>1, SeqFacts
        <4>3. IsFiniteSet(1 .. Len(yielded))
          BY <4>2, FS_Interval
        <4> HIDE DEF these
        <4>4. these \in SUBSET (1 .. Len(yielded))
          BY <3>4
        <4> QED BY <4>3, <4>4, FS_Subset
      <3> HIDE DEF these, those
      <3>6. DOMAIN at = these /\ at \in [these -> those] /\ \A i \in these : at[i] = yielded[i]
        BY <3>3, <3>4
      <3> HIDE DEF at
      <3>7. \A i, j \in these : at[i] = at[j] => i = j
        BY <3>2, <3>4, <3>6
      <3>8. \A e \in those : \E i \in these : at[i] = e
        BY <3>2, <3>3, <3>4, <3>6
      <3>9. at \in Bijection(these, those)
        BY <3>6, <3>7, <3>8 DEF Bijection, Injection, Surjection, IsInjective
      <3>10. ExistsBijection(these, those)
        BY <3>9 DEF ExistsBijection
      <3>11. Cardinality(those) = Cardinality(these)
        BY <3>5, <3>10, FS_Bijection
      <3> QED BY <3>11 DEF AemInv, Closing, Counted, these, those
    <2> HIDE DEF got, gave
    <2> QED BY <2>4, <2>5, <2>6, <2>7, <2>8 DEF CountersMatchLoki
  <1> QED BY <1>1, <1>2

\* What the handler logs about an object that was shipped agrees with what a
\* panel counts in Loki, for every object, cap and batch bound.
THEOREM AemCountersMatch == AemSpec => []CountersMatchLoki
  BY AemInvAlways, AemCountersAddUp, InvCounters, PTL

LEMMA FieldIs ==
  ASSUME NEW d, NEW e, NEW n, n \in DOMAIN d.meta <=> n \in DOMAIN e.meta,
         n \in DOMAIN e.meta => d.meta[n] = e.meta[n]
  PROVE  Field(d, n) = Field(e, n)
  BY DEF Field

\* A response that says it was correlated, and the line it was paired with.
LEMMA PairShipped ==
  ASSUME AemInv, state = "done", ~Skipped, NEW e \in With("correlated", "true")
  PROVE  \E l \in DOMAIN text :
           LET meta == Parsed(l).meta
           IN  /\ KeyOf(meta) = KeyOf(e.meta) /\ meta.direction = "request"
               /\ \A n \in {"method", "path", "protocol"} :
                    Field(e, n) = Field([meta |-> meta], n)
  <1>1. /\ e \in Shipped /\ Field(e, "correlated") = "true"
        /\ Len(text) = read /\ read \in Nat /\ e.record \in 1 .. read /\ e.meta = MetaOf(e.record)
    BY LineOfEach DEF With
  <1>2. PICK r \in 1 .. read : r = e.record /\ e.meta = MetaOf(r)
    BY <1>1
  <1>3. partner[r] > 0
    BY <1>1, <1>2, MarksOf
  <1>4. r \in Lines
    BY <1>1, CorrelatorAssumption DEF AemInv, AemBase, Core, TypeOK, Lines
  <1>5. /\ partner[r] \in 1 .. read
        /\ dir[r] = "response" /\ dir[partner[r]] \in {"request", "bare"}
        /\ key[partner[r]] = key[r]
    <2>1. partner[r] \in 0 .. MaxLines
      BY <1>4 DEF AemInv, AemBase, Core, TypeOK
    <2>2. /\ partner[r] <= read /\ IsResponse(r) /\ IsRequest(partner[r])
          /\ key[partner[r]] = key[r]
      BY <1>3, <1>4 DEF AemInv, AemBase, Core, PairsSound
    <2> QED BY <1>1, <1>3, <2>1, <2>2 DEF IsResponse, IsRequest
  <1>6. PICK l \in 1 .. read : l = partner[r]
    BY <1>5
  <1> DEFINE meta == Parsed(l).meta
             mine == Parsed(r).meta
  <1>7. /\ RequestLine(meta) /\ "direction" \in DOMAIN meta /\ key[l] = KeyOf(meta)
        /\ meta["direction"] # "response"
    <2>1. dir[l] # "other" /\ dir[l] # "response"
      BY <1>5, <1>6
    <2> QED BY <2>1, DirectedLine DEF AemInv
  <1>8. meta["direction"] = "request"
    BY <1>7 DEF RequestLine
  <1>9. key[r] = KeyOf(mine)
    <2>1. dir[r] # "other"
      BY <1>5
    <2> QED BY <2>1, DirectedLine DEF AemInv
  <1>10. KeyOf(e.meta) = KeyOf(mine)
    <2>1. \A n \in {"node_id", "request_id", "direction"} :
            /\ n \in DOMAIN e.meta <=> n \in DOMAIN mine
            /\ n \in DOMAIN mine => e.meta[n] = mine[n]
      BY <1>2, PlainField
    <2> HIDE DEF mine
    <2> QED BY <2>1 DEF KeyOf
  <1>11. KeyOf(meta) = KeyOf(e.meta)
    BY <1>5, <1>6, <1>7, <1>9, <1>10
  <1>12. ASSUME NEW n \in {"method", "path", "protocol"}
         PROVE  Field(e, n) = Field([meta |-> meta], n)
    <2>1. /\ n \in DOMAIN e.meta <=> n \in DOMAIN meta
          /\ n \in DOMAIN e.meta => e.meta[n] = meta[n]
      BY <1>2, <1>3, <1>6, CarriedFields
    <2> HIDE DEF meta
    <2>2. [meta |-> meta].meta = meta
      OBVIOUS
    <2> QED BY <2>1, <2>2, FieldIs
  <1>13. l \in DOMAIN text
    <2>1. DOMAIN text = 1 .. Len(text)
      BY DEF AemInv, AemBase, Source
    <2> QED BY <1>1, <2>1
  <1> HIDE DEF mine
  <1> QED BY <1>8, <1>11, <1>12, <1>13

LEMMA InvShippedWhole == AemInv => ShippedWhole
  <1> SUFFICES ASSUME AemInv, state = "done", ~Skipped PROVE ShippedWhole
    BY DEF ShippedWhole
  <1>1. /\ Len(text) = read /\ read \in Nat
        /\ \A e \in Shipped : e.record \in 1 .. read /\ e.meta = MetaOf(e.record)
        /\ \A l \in 1 .. read : \E e \in Shipped : e.record = l
    BY LineOfEach
  <1>2. DOMAIN text = 1 .. read
    BY <1>1 DEF AemInv, AemBase, Source
  <1>3. Cardinality(Shipped) = Len(text)
    <2> DEFINE all == 1 .. read
    <2>1. \A e \in Shipped : e \in Shipped <=> e.record \in all
      BY <1>1
    <2>2. all \in SUBSET (1 .. read) /\ Shipped \in SUBSET Shipped
      OBVIOUS
    <2>3. Cardinality(all) = read
      BY <1>1, FS_Interval
    <2> HIDE DEF all
    <2>4. Cardinality(Shipped) = Cardinality(all)
      BY <2>1, <2>2, AsMany
    <2> QED BY <1>1, <2>3, <2>4
  <1>4. {e.record : e \in Shipped} = DOMAIN text
    BY <1>1, <1>2
  <1>5. ASSUME NEW e \in Shipped
        PROVE  Field(e, "node_id") = Field([meta |-> Parsed(e.record).meta], "node_id")
    <2> DEFINE meta == Parsed(e.record).meta
    <2>1. /\ "node_id" \in DOMAIN e.meta <=> "node_id" \in DOMAIN meta
          /\ "node_id" \in DOMAIN meta => e.meta["node_id"] = meta["node_id"]
      BY <1>1, PlainField
    <2> HIDE DEF meta
    <2>2. [meta |-> meta].meta = meta
      OBVIOUS
    <2>3. Field(e, "node_id") = Field([meta |-> meta], "node_id")
      BY <2>1, <2>2, FieldIs
    <2> QED BY <2>3 DEF meta
  <1>6. \A e \in With("correlated", "true") :
          \E l \in DOMAIN text :
            LET meta == Parsed(l).meta
            IN  /\ KeyOf(meta) = KeyOf(e.meta) /\ meta.direction = "request"
                /\ \A n \in {"method", "path", "protocol"} :
                     Field(e, n) = Field([meta |-> meta], n)
    BY PairShipped
  <1> QED BY <1>3, <1>4, <1>5, <1>6, Zenon DEF ShippedWhole

\* Once an object is done Loki has each of its lines once, under its own number
\* and node, and a correlated response carries the fields of a request of its
\* own node and id: for every object, deployment, cap and batch bound.
THEOREM AemShipsWhole == AemSpec => []ShippedWhole
  BY AemInvAlways, InvShippedWhole, PTL

-----------------------------------------------------------------------------
(* The Node library's batcher, given the same entries.                     *)

\* The steps that touch neither batcher.
LEMMA AlikeKept ==
  ASSUME Alike, UNCHANGED <<yielded, entries, bytes, sent, state>> PROVE Alike'
  BY DEF Alike

LEMMA AlikeStep == ASSUME AemInv, Alike, [AemNext]_aemVars PROVE Alike'
  <1>1. ASSUME UNCHANGED batchVars PROVE Alike'
    BY <1>1, AlikeKept DEF batchVars
  <1>2. ASSUME NEW line \in Content(file.writer), ReadLine(line) PROVE Alike'
    BY <1>1, <1>2 DEF ReadLine
  <1>3. CASE EndObject
    BY <1>1, <1>3 DEF EndObject
  <1>4. CASE Yield
    <2> DEFINE e == Build(Head(out))
    <2>1. Add(e) /\ Head(out) \in 1 .. Len(text)
      BY <1>4, YieldStep DEF Yield, AemInv
    <2>2. Follows(e, yielded)
      BY <2>1, BuildFollows DEF AemInv, AemBase
    <2> HIDE DEF e
    <2> QED BY <2>1, <2>2, AddAlikeStep DEF AemInv, AemBase
  <1>5. CASE Drained
    BY <1>5, FinishAlikeStep DEF Drained, AemInv, AemBase
  <1>6. CASE Skip
    <2>1. Skipped /\ yielded' = yielded /\ sent' = sent /\ state' = "done"
      BY <1>6 DEF Skip
    <2>2. yielded = <<>> /\ sent = <<>>
      BY <2>1 DEF AemInv, Closing, Unopened
    <2>3. NodeDrain(<<>>) = <<>>
      BY NodeStateEmpty DEF NodeDrain, Batcher
    <2> QED BY <2>1, <2>2, <2>3 DEF Alike, AlikeOf
  <1>7. CASE Tick \/ UNCHANGED aemVars
    BY <1>1, <1>7 DEF Tick, aemVars
  <1> QED BY <1>2, <1>3, <1>4, <1>5, <1>6, <1>7 DEF AemNext

\* Whatever an object holds, the Node library given the same entries ships the
\* same payloads, and a prefix of them when a push raised.
THEOREM AemLibrariesShipAlike == AemSpec => []LibrariesShipAlike
  <1>1. AemInit => Alike
    <2>1. NodeState(<<>>) = Batcher(<<>>, 0, <<>>)
      BY NodeStateEmpty
    <2> QED BY <2>1 DEF AemInit, BatchInit, Alike, AlikeOf
  <1>2. AemInv /\ Alike /\ [AemNext]_aemVars => Alike'
    BY AlikeStep
  <1>3. Alike => LibrariesShipAlike
    BY DEF Alike, AlikeOf, LibrariesShipAlike
  <1> QED BY <1>1, <1>2, <1>3, AemInvAlways, PTL DEF AemSpec
=============================================================================
