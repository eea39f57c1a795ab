---------------------------- MODULE NodeEventsProofs ---------------------------
(***************************************************************************)
(* What parse_event makes of every event the senders can build, whatever   *)
(* its length: the lists it is built from first, then the bodies, the      *)
(* messages of a whole event, and the two properties.                      *)
(***************************************************************************)
EXTENDS NodeEvents, FiniteSetTheorems, TLAPS

-----------------------------------------------------------------------------
(* Listed.                                                                 *)

Upto(at, i) == {j \in at : j <= i}

\* A later position has more positions up to it.
LEMMA UptoGrows ==
  ASSUME NEW at, at \subseteq Nat, IsFiniteSet(at),
         NEW i \in at, NEW k \in at, i < k
  PROVE  /\ Cardinality(Upto(at, i)) \in Nat
         /\ Cardinality(Upto(at, k)) \in Nat
         /\ Cardinality(Upto(at, i)) < Cardinality(Upto(at, k))
  <1>1. Upto(at, i) \subseteq Upto(at, k)
    <2>1. ASSUME NEW j \in at, j <= i PROVE j <= k
      BY <2>1
    <2> QED  BY <2>1 DEF Upto
  <1>2. k \in Upto(at, k) /\ k \notin Upto(at, i)
    BY DEF Upto
  <1>3. IsFiniteSet(Upto(at, i)) /\ IsFiniteSet(Upto(at, k))
    <2>1. Upto(at, i) \in SUBSET at /\ Upto(at, k) \in SUBSET at
      BY DEF Upto
    <2> QED  BY <2>1, FS_Subset
  <1>4. Cardinality(Upto(at, i)) \in Nat /\ Cardinality(Upto(at, k)) \in Nat
    BY <1>3, FS_CardinalityType
  <1>5. Cardinality(Upto(at, i)) <= Cardinality(Upto(at, k))
    BY <1>1, <1>3, FS_Subset
  <1>6. Cardinality(Upto(at, i)) # Cardinality(Upto(at, k))
    BY <1>1, <1>2, <1>3, FS_Subset
  <1> QED  BY <1>4, <1>5, <1>6

\* The positions up to a position number it among them.
LEMMA RankFacts ==
  ASSUME NEW at, at \subseteq Nat, IsFiniteSet(at)
  PROVE  /\ Cardinality(at) \in Nat
         /\ \A i \in at : Cardinality(Upto(at, i)) \in 1 .. Cardinality(at)
         /\ \A i, k \in at : i # k => Cardinality(Upto(at, i)) # Cardinality(Upto(at, k))
         /\ \A n \in 1 .. Cardinality(at) : \E i \in at : Cardinality(Upto(at, i)) = n
  <1> DEFINE N == Cardinality(at)
             rank == [i \in at |-> Cardinality(Upto(at, i))]
  <1>1. N \in Nat
    BY FS_CardinalityType
  <1>2. ASSUME NEW i \in at PROVE Cardinality(Upto(at, i)) \in 1 .. N
    <2>1. Upto(at, i) \in SUBSET at /\ i \in Upto(at, i)
      BY DEF Upto
    <2>2. IsFiniteSet(Upto(at, i)) /\ Cardinality(Upto(at, i)) <= N
      BY <2>1, FS_Subset
    <2>3. Cardinality(Upto(at, i)) \in Nat
      BY <2>2, FS_CardinalityType
    <2>4. Cardinality(Upto(at, i)) # 0
      BY <2>1, <2>2, FS_EmptySet
    <2> QED  BY <2>2, <2>3, <2>4, <1>1
  <1>3. rank \in [at -> 1 .. N]
    BY <1>2
  <1>4. ASSUME NEW i \in at, NEW k \in at, i # k
        PROVE  Cardinality(Upto(at, i)) # Cardinality(Upto(at, k))
    <2>1. i < k \/ k < i
      BY <1>4
    <2>2. CASE i < k
      <3>1. Cardinality(Upto(at, i)) < Cardinality(Upto(at, k))
        BY <2>2, UptoGrows
      <3> QED  BY <3>1, <1>2, <1>1
    <2>3. CASE k < i
      <3>1. Cardinality(Upto(at, k)) < Cardinality(Upto(at, i))
        BY <2>3, UptoGrows
      <3> QED  BY <3>1, <1>2, <1>1
    <2> QED  BY <2>1, <2>2, <2>3
  <1>5. \A n \in 1 .. N : \E i \in at : rank[i] = n
    <2>1. rank \in Injection(at, 1 .. N)
      BY <1>3, <1>4 DEF Injection, IsInjective
    <2>2. IsFiniteSet(1 .. N) /\ Cardinality(1 .. N) = N
      <3>1. 1 \in Int /\ N \in Int /\ (IF 1 > N THEN 0 ELSE N - 1 + 1) = N
        BY <1>1
      <3> QED  BY <3>1, FS_Interval
    <2>3. rank \in Surjection(at, 1 .. N)
      <3> HIDE DEF rank
      <3> QED  BY <2>1, <2>2, FS_Injection
    <2> QED  BY <2>3 DEF Surjection
  <1> QED  BY <1>1, <1>2, <1>4, <1>5

\* Listed puts each position at its number.
LEMMA ListedAt ==
  ASSUME NEW f, NEW at, at \subseteq Nat, IsFiniteSet(at),
         NEW i \in at
  PROVE  /\ Cardinality(Upto(at, i)) \in DOMAIN Listed(f, at)
         /\ Listed(f, at)[Cardinality(Upto(at, i))] = f[i]
  <1> DEFINE n == Cardinality(Upto(at, i))
             place(m) == CHOOSE k \in at : Cardinality(Upto(at, k)) = m
  <1>1. n \in 1 .. Cardinality(at)
    BY RankFacts
  <1>2. Listed(f, at) = [m \in 1 .. Cardinality(at) |-> f[place(m)]]
    BY DEF Listed, Upto
  <1>3. place(n) \in at /\ Cardinality(Upto(at, place(n))) = n
    OBVIOUS
  <1>4. place(n) = i
    BY <1>3, RankFacts
  <1> HIDE DEF place, n
  <1>5. n \in DOMAIN Listed(f, at) /\ Listed(f, at)[n] = f[i]
    BY <1>1, <1>2, <1>4
  <1> QED  BY <1>5 DEF n

\* list holds f at every position of `at`, and nothing else.
Holds(list, f, at) ==
  /\ Cardinality(at) \in Nat /\ DOMAIN list = 1 .. Cardinality(at)
  /\ list = [n \in 1 .. Cardinality(at) |-> list[n]]
  /\ \A n \in DOMAIN list : \E i \in at : list[n] = f[i]
  /\ \A i \in at : \E n \in DOMAIN list : list[n] = f[i]

\* Listed loses no position and repeats none.
LEMMA ListedHolds ==
  ASSUME NEW f, NEW at, at \subseteq Nat, IsFiniteSet(at)
  PROVE  Holds(Listed(f, at), f, at)
  <1> DEFINE N == Cardinality(at)
             list == Listed(f, at)
  <1>1. N \in Nat
    BY FS_CardinalityType
  <1>2. DOMAIN list = 1 .. N /\ list = [n \in 1 .. N |-> list[n]]
    BY DEF Listed
  <1>3. ASSUME NEW i \in at PROVE \E n \in DOMAIN list : list[n] = f[i]
    <2> HIDE DEF list
    <2>1. /\ Cardinality(Upto(at, i)) \in DOMAIN list
          /\ list[Cardinality(Upto(at, i))] = f[i]
      BY ListedAt DEF list
    <2> QED  BY <2>1
  <1>4. ASSUME NEW n \in 1 .. N PROVE \E i \in at : list[n] = f[i]
    <2>1. PICK i \in at : Cardinality(Upto(at, i)) = n
      BY RankFacts
    <2>2. list[n] = f[i]
      BY <2>1, ListedAt
    <2> QED  BY <2>2
  <1> HIDE DEF list
  <1>5. Holds(list, f, at)
    BY <1>1, <1>2, <1>3, <1>4 DEF Holds
  <1> QED  BY <1>5 DEF list

\* What is listed is a sequence.
LEMMA ListedIsSeq ==
  ASSUME NEW f, NEW at, at \subseteq Nat, IsFiniteSet(at)
  PROVE  /\ Listed(f, at) \in Seq(Range(Listed(f, at)))
         /\ Len(Listed(f, at)) = Cardinality(at)
         /\ Listed(f, at) = <<>> <=> at = {}
  <1> DEFINE N == Cardinality(at)
             list == Listed(f, at)
  <1>1. Holds(list, f, at)
    BY ListedHolds
  <1> HIDE DEF list
  <1>2. N \in Nat /\ DOMAIN list = 1 .. N /\ list = [n \in 1 .. N |-> list[n]]
    BY <1>1 DEF Holds
  <1>3. \A n \in 1 .. N : list[n] \in Range(list)
    BY <1>2 DEF Range
  <1>4. list \in [1 .. N -> Range(list)]
    BY <1>2, <1>3
  <1>5. list \in Seq(Range(list)) /\ Len(list) = N
    BY <1>2, <1>4
  <1>6. N = 0 <=> at = {}
    BY FS_EmptySet
  <1>7. list = <<>> <=> N = 0
    BY <1>2, <1>5
  <1> QED  BY <1>5, <1>6, <1>7 DEF list

-----------------------------------------------------------------------------
(* The objects of records.                                                 *)

\* A record names an object to read, and which.
NamesObject(r) == r.name # "ObjectRemoved" /\ r.form = "given" /\ r.key # <<>>
ObjectOf(r) == [bucket |-> "bucket", key |-> UnquotePlus(r.key)]

\* The constants, one by one.
LEMMA Bounds ==
  MaxKey \in Nat /\ MaxNamed \in Nat /\ Tokens \subseteq AllTokens
  BY S3EventsAssumption, Zenon

\* A given key is a sequence of known tokens.
LEMMA KeyFacts ==
  ASSUME NEW r \in S3Record, r.form \in KeyedForms
  PROVE  \E n \in Nat : r.key \in [1 .. n -> AllTokens]
  <1>1. ASSUME r \in [src : {"s3"}, name : EventNames, form : KeyedForms, key : SeqOf(Tokens, MaxKey)]
        PROVE  \E n \in Nat : r.key \in [1 .. n -> AllTokens]
    <2>1. r.key \in SeqOf(Tokens, MaxKey)
      BY <1>1
    <2>2. PICK n \in 0 .. MaxKey : r.key \in [1 .. n -> Tokens]
      BY <2>1 DEF SeqOf
    <2>3. n \in Nat /\ Tokens \subseteq AllTokens
      BY Bounds
    <2> QED  BY <2>2, <2>3
  <1>2. ASSUME r \in [src : {"s3"}, name : EventNames, form : {"nullKey", "nullBlock", "incomplete"}]
        PROVE  FALSE
    BY <1>2 DEF KeyedForms
  <1> QED  BY <1>1, <1>2 DEF S3Record

\* Reading a token and writing a character undo each other.
LEMMA TokenFacts ==
  /\ \A t \in AllTokens : Unquoted(t) \in AllCharacters /\ t \in {Unquoted(t), Quoted(Unquoted(t))}
  /\ \A c \in AllCharacters : Quoted(c) \in AllTokens /\ Unquoted(Quoted(c)) = c
  BY DEF AllTokens, AllCharacters, Unquoted, Quoted

\* Only a record that names its object gives one to read.
LEMMA ObjectFacts ==
  ASSUME NEW r \in S3Record
  PROVE  /\ ObjectFromS3Record(r) # NoObject <=> NamesObject(r)
         /\ NamesObject(r) => ObjectFromS3Record(r) = ObjectOf(r)
         /\ NamesObject(r) => Gives(r, ObjectOf(r))
  <1>1. ASSUME NamesObject(r) PROVE ObjectOf(r) # NoObject /\ Gives(r, ObjectOf(r))
    <2>1. r.form = "given" /\ r.form \in KeyedForms
      BY <1>1 DEF NamesObject, KeyedForms
    <2>2. PICK n \in Nat : r.key \in [1 .. n -> AllTokens]
      BY <2>1, KeyFacts
    <2> DEFINE key == UnquotePlus(r.key)
    <2>3. key \in [1 .. n -> AllCharacters] /\ \A i \in 1 .. n : key[i] = Unquoted(r.key[i])
      BY <2>2, TokenFacts DEF UnquotePlus
    <2>4. ObjectOf(r).bucket = "bucket" /\ ObjectOf(r).key = key
      BY DEF ObjectOf
    <2> HIDE DEF key
    <2>5. ObjectOf(r) # NoObject
      <3>1. key \in Seq(AllCharacters)
        BY <2>3
      <3>2. ObjectOf(r) \in [bucket : {"bucket", ""}, key : Seq(AllCharacters)]
        BY <2>4, <3>1 DEF ObjectOf
      <3> QED  BY <3>2, S3EventsAssumption
    <2>6. Gives(r, ObjectOf(r))
      <3>1. DOMAIN key = 1 .. n /\ DOMAIN r.key = 1 .. n
        BY <2>2, <2>3
      <3>2. \A i \in 1 .. n : r.key[i] \in {key[i], Quoted(key[i])}
        BY <2>2, <2>3, TokenFacts
      <3> QED  BY <2>1, <2>4, <3>1, <3>2 DEF Gives
    <2> QED  BY <2>5, <2>6
  <1>2. NamesObject(r) => ObjectFromS3Record(r) = ObjectOf(r)
    BY DEF NamesObject, ObjectOf, ObjectFromS3Record
  <1>3. ~ NamesObject(r) => ObjectFromS3Record(r) = NoObject
    BY DEF NamesObject, ObjectFromS3Record
  <1> QED  BY <1>1, <1>2, <1>3

\* What S3 writes of a creation is read as that object.
LEMMA CreationRead ==
  ASSUME NEW o \in S3Objects
  PROVE  NamesObject(CreationOf(o)) /\ ObjectOf(CreationOf(o)) = o
  <1> DEFINE key == o.key
             r == CreationOf(o)
  <1>1. o = [bucket |-> "bucket", key |-> key] /\ key \in SeqOf(Characters, MaxKey) /\ key # <<>>
    BY DEF S3Objects
  <1>2. PICK n \in 0 .. MaxKey : key \in [1 .. n -> Characters]
    BY <1>1 DEF SeqOf
  <1>3. n \in Nat /\ Characters \subseteq AllCharacters
    BY Bounds, TokenFacts DEF Characters
  <1>4. /\ r.name = "ObjectCreated" /\ r.form = "given" /\ r.key = Quote(key)
    BY DEF CreationOf
  <1> HIDE DEF key, r
  <1>5. Quote(key) \in [1 .. n -> AllTokens] /\ UnquotePlus(Quote(key)) = key
    <2>1. \A i \in 1 .. n : Quoted(key[i]) \in AllTokens /\ Unquoted(Quoted(key[i])) = key[i]
      BY <1>2, <1>3, TokenFacts
    <2>2. DOMAIN key = 1 .. n /\ key = [i \in 1 .. n |-> key[i]]
      BY <1>2
    <2>3. Quote(key) = [i \in 1 .. n |-> Quoted(key[i])]
      BY <2>2 DEF Quote
    <2>4. UnquotePlus(Quote(key)) = [i \in 1 .. n |-> Unquoted(Quoted(key[i]))]
      BY <2>3 DEF UnquotePlus
    <2> QED  BY <2>1, <2>2, <2>3, <2>4
  <1>6. Quote(key) # <<>>
    <2>1. n # 0
      BY <1>1, <1>2
    <2>2. 1 \in DOMAIN Quote(key)
      BY <1>3, <1>5, <2>1
    <2> QED  BY <2>2
  <1>7. NamesObject(r) /\ ObjectOf(r) = o
    BY <1>1, <1>4, <1>5, <1>6 DEF NamesObject, ObjectOf
  <1> QED  BY <1>7 DEF r

\* objects are those the records at the positions `among` name.
Reports(objects, records, among) ==
  /\ objects \in Seq(Range(objects))
  /\ Range(objects) = {ObjectOf(records[i]) : i \in {k \in among : NamesObject(records[k])}}
  /\ objects = <<>> <=> \A i \in among : ~ NamesObject(records[i])

\* ObjectsAt drops the records that name no object, and nothing else.
LEMMA ObjectsAtFacts ==
  ASSUME NEW records, NEW n \in Nat, DOMAIN records = 1 .. n,
         NEW among, among \subseteq 1 .. n,
         \A i \in among : records[i] \in S3Record
  PROVE  Reports(ObjectsAt(records, among), records, among)
  <1> DEFINE object == [i \in DOMAIN records |->
                          IF i \in among THEN ObjectFromS3Record(records[i]) ELSE NoObject]
             at == {i \in DOMAIN records : object[i] # NoObject}
             objects == Listed(object, at)
  <1>1. at = {k \in among : NamesObject(records[k])}
    BY ObjectFacts
  <1>2. \A i \in at : object[i] = ObjectOf(records[i])
    BY <1>1, ObjectFacts
  <1>3. at \subseteq Nat /\ IsFiniteSet(at)
    <2>1. 1 \in Int /\ n \in Int
      OBVIOUS
    <2>2. IsFiniteSet(1 .. n)
      BY <2>1, FS_Interval
    <2>3. at \in SUBSET (1 .. n) /\ 1 .. n \subseteq Nat
      BY <1>1
    <2> HIDE DEF at
    <2>4. IsFiniteSet(at)
      BY <2>2, <2>3, FS_Subset
    <2> QED  BY <2>3, <2>4
  <1>4. objects = ObjectsAt(records, among)
    BY DEF ObjectsAt
  <1> HIDE DEF object, at
  <1>5. Holds(objects, object, at)
    BY <1>3, ListedHolds
  <1>6. objects \in Seq(Range(objects)) /\ (objects = <<>> <=> at = {})
    BY <1>3, ListedIsSeq
  <1> HIDE DEF objects
  <1>7. Range(objects) = {ObjectOf(records[i]) : i \in at}
    <2>1. \A m \in DOMAIN objects : \E i \in at : objects[m] = ObjectOf(records[i])
      <3>1. \A m \in DOMAIN objects : \E i \in at : objects[m] = object[i]
        BY <1>5 DEF Holds
      <3> QED  BY <3>1, <1>2
    <2>2. \A i \in at : \E m \in DOMAIN objects : objects[m] = ObjectOf(records[i])
      BY <1>5, <1>2 DEF Holds
    <2> QED  BY <2>1, <2>2 DEF Range
  <1>8. Reports(objects, records, among)
    BY <1>1, <1>6, <1>7 DEF Reports
  <1> QED  BY <1>4, <1>8

-----------------------------------------------------------------------------
(* The bodies of SQS records.                                              *)

\* The objects that records name.
ObjectsIn(records) == {ObjectOf(r) : r \in {q \in records : NamesObject(q)}}

\* What a body of each shape is.
LEMMA BodyShape ==
  ASSUME NEW body \in Bodies
  PROVE  /\ body.shape \in BodyShapes
         /\ body.shape = "notification" =>
              \E n \in Nat : body.records \in [1 .. n -> S3Record]
  <1>1. ASSUME body \in [shape : BodyShapes \ {"notification", "eventBridge"}]
        PROVE  body.shape \in BodyShapes /\ body.shape # "notification"
    BY <1>1
  <1>2. ASSUME body \in [shape : BodyShapes \cap {"notification"}, records : Inner]
        PROVE  body.shape \in BodyShapes /\ \E n \in Nat : body.records \in [1 .. n -> S3Record]
    <2>1. body.shape \in BodyShapes /\ body.records \in Inner
      BY <1>2
    <2>2. PICK n \in 0 .. MaxNamed : body.records \in [1 .. n -> S3Record]
      BY <2>1 DEF Inner, SeqOf
    <2>3. n \in Nat
      BY Bounds
    <2> QED  BY <2>1, <2>2, <2>3
  <1>3. ASSUME body \in [shape : BodyShapes \cap {"eventBridge"}, object : S3Objects]
        PROVE  body.shape \in BodyShapes /\ body.shape # "notification"
    BY <1>3
  <1> QED  BY <1>1, <1>2, <1>3 DEF Bodies

\* A notification gives the objects its records name, all of them, and no other
\* body gives any.
LEMMA BodyFacts ==
  ASSUME NEW body \in Bodies
  PROVE  /\ ObjectsOfBody(body) \in Seq(Range(ObjectsOfBody(body)))
         /\ ObjectsOfBody(body) = <<>> <=> Range(ObjectsOfBody(body)) = {}
         /\ body.shape = "notification" => Range(ObjectsOfBody(body)) = ObjectsIn(Range(body.records))
         /\ body.shape # "notification" => ObjectsOfBody(body) = <<>>
         /\ Malformed(body) => ObjectsOfBody(body) = <<>>
  <1>1. CASE body.shape = "notification"
    <2> DEFINE records == body.records
               objects == ObjectsOfBody(body)
    <2>1. PICK n \in Nat : records \in [1 .. n -> S3Record]
      BY <1>1, BodyShape
    <2>2. Reports(ObjectsAt(records, 1 .. n), records, 1 .. n)
      <3>1. DOMAIN records = 1 .. n /\ \A i \in 1 .. n : records[i] \in S3Record
        BY <2>1
      <3> HIDE DEF records
      <3> QED  BY <3>1, ObjectsAtFacts
    <2>3. objects = ObjectsAt(records, 1 .. n)
      BY <1>1, <2>1 DEF ObjectsOfBody
    <2>5. ~ Malformed(body)
      BY <1>1 DEF Malformed
    <2> HIDE DEF records, objects
    <2>6. Range(objects) = ObjectsIn(Range(records))
      <3>1. Range(objects) = {ObjectOf(records[i]) : i \in {k \in 1 .. n : NamesObject(records[k])}}
        BY <2>2, <2>3 DEF Reports
      <3>2. Range(records) = {records[i] : i \in 1 .. n}
        BY <2>1 DEF Range
      <3> QED  BY <3>1, <3>2 DEF ObjectsIn
    <2>7. objects \in Seq(Range(objects)) /\ (objects = <<>> <=> Range(objects) = {})
      <3>1. objects \in Seq(Range(objects))
        BY <2>2, <2>3 DEF Reports
      <3>2. (objects = <<>> <=> \A i \in 1 .. n : ~ NamesObject(records[i]))
        BY <2>2, <2>3 DEF Reports
      <3>3. Range(objects) = {ObjectOf(records[i]) : i \in {k \in 1 .. n : NamesObject(records[k])}}
        BY <2>2, <2>3 DEF Reports
      <3> QED  BY <3>1, <3>2, <3>3
    <2> QED  BY <1>1, <2>5, <2>6, <2>7 DEF objects, records
  <1>2. CASE body.shape # "notification"
    <2>1. ObjectsOfBody(body) = <<>>
      BY <1>2 DEF ObjectsOfBody
    <2>2. Range(<<>>) = {} /\ <<>> \in Seq({})
      BY DEF Range
    <2> QED  BY <1>2, <2>1, <2>2
  <1> QED  BY <1>1, <1>2

-----------------------------------------------------------------------------
(* The event.                                                              *)

\* What the sender put at position i.
Carried(r, i) ==
  \/ r.src = "sqs" /\ r.id = i /\ r.body \in Bodies
  \/ r \in S3Record
  \/ r.src = "other"

\* Every position of the event holds one record, under an id of its own.
EventInv ==
  event \in Seq(Range(event)) /\ \A i \in DOMAIN event : Carried(event[i], i)

\* Append leaves every position alone and adds one.
LEMMA AppendKeeps ==
  ASSUME NEW s, s \in Seq(Range(s)), NEW e
  PROVE  /\ Append(s, e) \in Seq(Range(Append(s, e)))
         /\ Len(Append(s, e)) = Len(s) + 1
         /\ DOMAIN Append(s, e) = 1 .. Len(s) + 1
         /\ Append(s, e)[Len(s) + 1] = e
         /\ \A i \in 1 .. Len(s) : Append(s, e)[i] = s[i]
  <1> DEFINE t == Append(s, e)
             S == Range(s) \cup {e}
             n == Len(s)
  <1>1. s \in Seq(S) /\ e \in S
    <2>1. Range(s) \subseteq S
      OBVIOUS
    <2> QED  BY <2>1
  <1> HIDE DEF S
  <1>2. /\ n \in Nat /\ t \in Seq(S) /\ Len(t) = n + 1 /\ DOMAIN t = 1 .. n + 1
        /\ t[n + 1] = e /\ \A i \in 1 .. n : t[i] = s[i]
    BY <1>1
  <1> HIDE DEF t, n
  <1>3. t \in [1 .. n + 1 -> Range(t)]
    <2>1. t = [i \in 1 .. n + 1 |-> t[i]]
      BY <1>2
    <2>2. \A i \in 1 .. n + 1 : t[i] \in Range(t)
      BY <1>2 DEF Range
    <2> QED  BY <2>1, <2>2
  <1>4. t \in Seq(Range(t))
    BY <1>2, <1>3
  <1> QED  BY <1>2, <1>4 DEF t, n

\* One more record leaves the positions before it alone.
LEMMA PutKeepsEvent ==
  ASSUME EventInv, NEW r, Put(r), Carried(r, Len(event) + 1)
  PROVE  EventInv'
  <1> DEFINE n == Len(event)
  <1>1. n \in Nat /\ DOMAIN event = 1 .. n
    BY DEF EventInv
  <1>2. event' = Append(event, r)
    BY DEF Put
  <1>3. /\ event' \in Seq(Range(event')) /\ Len(event') = n + 1
        /\ DOMAIN event' = 1 .. n + 1 /\ event'[n + 1] = r
        /\ \A i \in 1 .. n : event'[i] = event[i]
    <2>1. event \in Seq(Range(event))
      BY DEF EventInv
    <2> QED  BY <2>1, <1>1, <1>2, AppendKeeps
  <1> HIDE DEF n
  <1>7. ASSUME NEW i \in 1 .. n + 1 PROVE Carried(event'[i], i)
    <2>1. CASE i = n + 1
      BY <2>1, <1>3 DEF n
    <2>2. CASE i \in 1 .. n
      <3>1. Carried(event[i], i)
        BY <2>2, <1>1 DEF EventInv
      <3> QED  BY <3>1, <2>2, <1>3
    <2> QED  BY <2>1, <2>2, <1>1
  <1> QED  BY <1>3, <1>7 DEF EventInv

\* The sender keeps the event in that form.
LEMMA EventInvAlways == Spec => []EventInv
  <1>1. Init => EventInv
    <2>1. Range(<<>>) = {} /\ <<>> \in Seq({}) /\ DOMAIN <<>> = {}
      BY DEF Range
    <2> QED  BY <2>1 DEF Init, EventInv
  <1>2. EventInv /\ [Next]_event => EventInv'
    <2> SUFFICES ASSUME EventInv, [Next]_event PROVE EventInv'
      OBVIOUS
    <2>1. ASSUME NEW body \in Bodies, PutSqs(body) PROVE EventInv'
      <3> DEFINE r == [src |-> "sqs", id |-> Len(event) + 1, body |-> body]
      <3>1. Carried(r, Len(event) + 1)
        BY DEF Carried
      <3>2. Put(r)
        BY <2>1 DEF PutSqs
      <3> HIDE DEF r
      <3> QED  BY <3>1, <3>2, PutKeepsEvent
    <2>2. ASSUME NEW r \in S3Record, Put(r) PROVE EventInv'
      <3>1. Carried(r, Len(event) + 1)
        BY DEF Carried
      <3> QED  BY <2>2, <3>1, PutKeepsEvent
    <2>3. CASE PutOther
      <3> DEFINE r == [src |-> "other"]
      <3>1. Carried(r, Len(event) + 1)
        BY DEF Carried
      <3>2. Put(r)
        BY <2>3 DEF PutOther
      <3> HIDE DEF r
      <3> QED  BY <3>1, <3>2, PutKeepsEvent
    <2>4. CASE UNCHANGED event
      BY <2>4 DEF EventInv, Range
    <2> QED  BY <2>1, <2>2, <2>3, <2>4 DEF Next
  <1> QED  BY <1>1, <1>2, PTL DEF Spec

-----------------------------------------------------------------------------
(* The messages of an event.                                               *)

DirectObjects == ObjectsAt(event, {i \in DOMAIN event : event[i].src = "s3"})

DirectMessage == [objects |-> DirectObjects, id |-> NoId]

MessageAt(i) == MessageOfSqs(event[i])

\* The messages of an event are those of its SQS records, and the direct one if
\* it has objects.
ParsedHolds ==
  /\ \A i \in DOMAIN event : MakesMessage(event[i]) =>
       \E j \in DOMAIN Parsed : Parsed[j] = MessageAt(i)
  /\ DirectObjects # <<>> => \E j \in DOMAIN Parsed : Parsed[j] = DirectMessage
  /\ \A j \in DOMAIN Parsed :
       \/ \E i \in DOMAIN event : MakesMessage(event[i]) /\ Parsed[j] = MessageAt(i)
       \/ DirectObjects # <<>> /\ Parsed[j] = DirectMessage

\* t is s and one more element.
Adds(t, s, e) == t = s \o <<e>>

\* It then holds what s holds, that element, and nothing else.
LEMMA AddsHolds ==
  ASSUME NEW s, s \in Seq(Range(s)), NEW e, NEW t, Adds(t, s, e)
  PROVE  /\ \A i \in DOMAIN s : \E j \in DOMAIN t : t[j] = s[i]
         /\ \E j \in DOMAIN t : t[j] = e
         /\ \A j \in DOMAIN t : (\E i \in DOMAIN s : t[j] = s[i]) \/ t[j] = e
  <1> DEFINE n == Len(s)
  <1>1. n \in Nat /\ DOMAIN s = 1 .. n
    OBVIOUS
  <1>2. /\ DOMAIN t = 1 .. n + 1 /\ t[n + 1] = e
        /\ \A i \in 1 .. n : t[i] = s[i]
    <2> DEFINE S == Range(s) \cup {e}
    <2>1. s \in Seq(S) /\ <<e>> \in Seq(S)
      <3>1. Range(s) \subseteq S /\ e \in S
        OBVIOUS
      <3> QED  BY <3>1
    <2>2. t = s \o <<e>>
      BY DEF Adds
    <2> HIDE DEF S
    <2> QED  BY <2>1, <2>2
  <1> HIDE DEF n
  <1>3. n + 1 \in DOMAIN t /\ \A i \in DOMAIN s : i \in DOMAIN t /\ t[i] = s[i]
    BY <1>1, <1>2
  <1>4. ASSUME NEW j \in DOMAIN t PROVE (\E i \in DOMAIN s : t[j] = s[i]) \/ t[j] = e
    <2>1. j = n + 1 \/ j \in 1 .. n
      BY <1>1, <1>2
    <2> QED  BY <2>1, <1>1, <1>2
  <1> QED  BY <1>2, <1>3, <1>4

\* Whatever the event, its messages are as ParsedHolds says.
LEMMA ParsedFacts ==
  ASSUME EventInv
  PROVE  ParsedHolds
  <1> DEFINE makes == {k \in DOMAIN event : MakesMessage(event[k])}
             message == [i \in makes |-> MessageAt(i)]
             listed == Listed(message, makes)
             all == listed \o (IF DirectObjects = <<>> THEN <<>> ELSE <<DirectMessage>>)
  <1>1. Parsed = all
    <2>1. DOMAIN message = makes
      OBVIOUS
    <2>2. Parsed = Listed(message, DOMAIN message)
                     \o (IF DirectObjects = <<>> THEN <<>> ELSE <<DirectMessage>>)
      BY DEF Parsed, ParseRecords, MessageAt, DirectObjects, DirectMessage
    <2> HIDE DEF message, makes
    <2> QED  BY <2>1, <2>2
  <1>2. makes \subseteq Nat /\ IsFiniteSet(makes)
    <2>1. Len(event) \in Nat /\ DOMAIN event = 1 .. Len(event)
      BY DEF EventInv
    <2>2. IsFiniteSet(1 .. Len(event))
      <3>1. 1 \in Int /\ Len(event) \in Int
        BY <2>1
      <3> QED  BY <3>1, FS_Interval
    <2>3. makes \in SUBSET (1 .. Len(event))
      BY <2>1
    <2> HIDE DEF makes
    <2>4. IsFiniteSet(makes)
      BY <2>2, <2>3, FS_Subset
    <2>5. makes \subseteq Nat
      BY <2>1, <2>3
    <2> QED  BY <2>4, <2>5
  <1>3. /\ \A i \in makes : i \in DOMAIN event /\ MakesMessage(event[i]) /\ message[i] = MessageAt(i)
        /\ \A i \in DOMAIN event : MakesMessage(event[i]) => i \in makes
    OBVIOUS
  <1> HIDE DEF makes, message
  <1>4. Holds(listed, message, makes) /\ listed \in Seq(Range(listed))
    BY <1>2, ListedHolds, ListedIsSeq
  <1> HIDE DEF listed
  <1>5. /\ \A n \in DOMAIN listed : \E j \in DOMAIN all : all[j] = listed[n]
        /\ DirectObjects # <<>> => \E j \in DOMAIN all : all[j] = DirectMessage
        /\ \A j \in DOMAIN all :
             (\E n \in DOMAIN listed : all[j] = listed[n])
               \/ (DirectObjects # <<>> /\ all[j] = DirectMessage)
    <2>1. listed \in Seq(Range(listed))
      BY <1>4
    <2>2. CASE DirectObjects = <<>>
      <3>1. all = listed
        BY <2>1, <2>2
      <3> HIDE DEF all
      <3> QED  BY <2>2, <3>1
    <2>3. CASE DirectObjects # <<>>
      <3>1. Adds(all, listed, DirectMessage)
        BY <2>3 DEF Adds
      <3> HIDE DEF all
      <3>2. /\ \A n \in DOMAIN listed : \E j \in DOMAIN all : all[j] = listed[n]
            /\ \E j \in DOMAIN all : all[j] = DirectMessage
            /\ \A j \in DOMAIN all :
                 (\E n \in DOMAIN listed : all[j] = listed[n]) \/ all[j] = DirectMessage
        BY <2>1, <3>1, AddsHolds
      <3> QED  BY <2>3, <3>2
    <2> QED  BY <2>2, <2>3
  <1> HIDE DEF all
  <1>6. ASSUME NEW i \in DOMAIN event, MakesMessage(event[i])
        PROVE  \E j \in DOMAIN all : all[j] = MessageAt(i)
    <2>1. i \in makes /\ message[i] = MessageAt(i)
      BY <1>3, <1>6
    <2>2. PICK n \in DOMAIN listed : listed[n] = message[i]
      BY <1>4, <2>1 DEF Holds
    <2> QED  BY <2>1, <2>2, <1>5
  <1>7. ASSUME NEW j \in DOMAIN all
        PROVE  \/ \E i \in DOMAIN event : MakesMessage(event[i]) /\ all[j] = MessageAt(i)
               \/ DirectObjects # <<>> /\ all[j] = DirectMessage
    <2>1. CASE \E n \in DOMAIN listed : all[j] = listed[n]
      <3>1. PICK n \in DOMAIN listed : all[j] = listed[n]
        BY <2>1
      <3>2. PICK i \in makes : listed[n] = message[i]
        BY <1>4 DEF Holds
      <3> QED  BY <3>1, <3>2, <1>3
    <2>2. CASE DirectObjects # <<>> /\ all[j] = DirectMessage
      BY <2>2
    <2> QED  BY <2>1, <2>2, <1>5
  <1>8. /\ \A i \in DOMAIN event : MakesMessage(event[i]) =>
              \E j \in DOMAIN all : all[j] = MessageAt(i)
        /\ DirectObjects # <<>> => \E j \in DOMAIN all : all[j] = DirectMessage
        /\ \A j \in DOMAIN all :
              \/ \E i \in DOMAIN event : MakesMessage(event[i]) /\ all[j] = MessageAt(i)
              \/ DirectObjects # <<>> /\ all[j] = DirectMessage
    BY <1>5, <1>6, <1>7
  <1> QED  BY <1>1, <1>8, Zenon DEF ParsedHolds

\* The direct objects are those its S3 records name.
LEMMA DirectFacts ==
  ASSUME EventInv
  PROVE  Reports(DirectObjects, event, {i \in DOMAIN event : event[i].src = "s3"})
  <1> DEFINE among == {i \in DOMAIN event : event[i].src = "s3"}
  <1>1. Len(event) \in Nat /\ DOMAIN event = 1 .. Len(event)
    BY DEF EventInv
  <1>2. \A i \in among : event[i] \in S3Record
    <2>1. ASSUME NEW i \in among PROVE event[i] \in S3Record
      <3>1. Carried(event[i], i)
        BY DEF EventInv
      <3> QED  BY <3>1 DEF Carried
    <2> QED  BY <2>1
  <1>3. among \subseteq 1 .. Len(event)
    BY <1>1
  <1> HIDE DEF among
  <1>4. Reports(ObjectsAt(event, among), event, among)
    BY <1>1, <1>2, <1>3, ObjectsAtFacts
  <1> QED  BY <1>4 DEF DirectObjects, among

\* The record at a position, by its kind.
LEMMA RecordCases ==
  ASSUME EventInv, NEW i \in DOMAIN event
  PROVE  \/ event[i].src = "sqs" /\ event[i].body \in Bodies
         \/ event[i].src = "s3" /\ event[i] \in S3Record
         \/ event[i].src = "other"
  <1>1. Carried(event[i], i)
    BY DEF EventInv
  <1>2. event[i] \in S3Record => event[i].src = "s3"
    BY DEF S3Record
  <1> QED  BY <1>1, <1>2 DEF Carried

\* When no body is an EventBridge event, parse_event drops no object reported
\* created and no malformed record, whatever the event, unless it raises.
THEOREM DropsNothing ==
  ASSUME "eventBridge" \notin BodyShapes
  PROVE  Spec => []NothingDropped
  <1>1. ASSUME EventInv PROVE NothingDropped
    <2>1. ParsedHolds
      BY <1>1, ParsedFacts
    <2>2. ASSUME NEW i \in DOMAIN event, NEW o \in S3Objects, ReportsCreated(event[i], o)
          PROVE  \E j \in DOMAIN Parsed :
                   o \in Range(Parsed[j].objects) /\ Parsed[j].id = IdOf(event[i])
      <3> DEFINE c == CreationOf(o)
      <3>0. NamesObject(c) /\ ObjectOf(c) = o
        BY CreationRead
      <3> HIDE DEF c
      <3>1. CASE event[i].src = "sqs" /\ event[i].body \in Bodies
        <4>1. event[i].body.shape # "eventBridge"
          BY <3>1, BodyShape
        <4>2. c \in S3RecordsOf(event[i])
          BY <2>2, <4>1 DEF ReportsCreated, c
        <4>3. event[i].body.shape = "notification" /\ c \in Range(event[i].body.records)
          BY <3>1, <4>2 DEF S3RecordsOf
        <4>4. o \in Range(ObjectsOfBody(event[i].body)) /\ ObjectsOfBody(event[i].body) # <<>>
          <5>1. o \in ObjectsIn(Range(event[i].body.records))
            BY <3>0, <4>3 DEF ObjectsIn
          <5> QED  BY <3>1, <4>3, <5>1, BodyFacts
        <4>5. MakesMessage(event[i])
          BY <3>1, <4>4 DEF MakesMessage
        <4>6. PICK j \in DOMAIN Parsed : Parsed[j] = MessageAt(i)
          BY <2>1, <4>5 DEF ParsedHolds
        <4>7. Parsed[j].objects = ObjectsOfBody(event[i].body) /\ Parsed[j].id = event[i].id
          BY <4>6 DEF MessageAt, MessageOfSqs
        <4> QED  BY <3>1, <4>4, <4>7 DEF IdOf
      <3>2. CASE event[i].src = "s3" /\ event[i] \in S3Record
        <4>1. event[i] = c
          BY <2>2, <3>2 DEF ReportsCreated, S3RecordsOf, c
        <4>2. Reports(DirectObjects, event, {k \in DOMAIN event : event[k].src = "s3"})
          BY <1>1, DirectFacts
        <4>3. i \in {k \in DOMAIN event : event[k].src = "s3"}
          BY <3>2
        <4>4. o \in Range(DirectObjects) /\ DirectObjects # <<>>
          BY <3>0, <4>1, <4>2, <4>3 DEF Reports
        <4>5. PICK j \in DOMAIN Parsed : Parsed[j] = DirectMessage
          BY <2>1, <4>4 DEF ParsedHolds
        <4>6. Parsed[j].objects = DirectObjects /\ Parsed[j].id = NoId
          BY <4>5 DEF DirectMessage
        <4> QED  BY <3>2, <4>4, <4>6 DEF IdOf
      <3>3. CASE event[i].src = "other"
        BY <3>3, <2>2 DEF ReportsCreated, S3RecordsOf
      <3> QED  BY <1>1, <3>1, <3>2, <3>3, RecordCases
    <2>3. ASSUME NEW i \in DOMAIN event, event[i].src = "sqs", Malformed(event[i].body)
          PROVE  \E j \in DOMAIN Parsed : Parsed[j] = [objects |-> <<>>, id |-> event[i].id]
      <3>1. event[i].body \in Bodies
        BY <1>1, <2>3, RecordCases
      <3>2. ObjectsOfBody(event[i].body) = <<>>
        BY <2>3, <3>1, BodyFacts
      <3>3. MakesMessage(event[i])
        BY <2>3 DEF MakesMessage
      <3>4. PICK j \in DOMAIN Parsed : Parsed[j] = MessageAt(i)
        BY <2>1, <3>3 DEF ParsedHolds
      <3> QED  BY <3>2, <3>4 DEF MessageAt, MessageOfSqs
    <2> QED  BY <2>2, <2>3 DEF NothingDropped
  <1> QED  BY <1>1, EventInvAlways, PTL

\* Whatever the event, the objects of each message are given, bucket and key, by
\* records under its id that do not report them removed, or it is a malformed SQS
\* record (parse_event).
THEOREM InventsNothing == Spec => []NothingInvented
  <1>1. ASSUME EventInv PROVE NothingInvented
    <2> SUFFICES ASSUME NEW j \in DOMAIN Parsed
                 PROVE  IF Parsed[j].objects = <<>>
                        THEN \E i \in DOMAIN event :
                               event[i].src = "sqs" /\ event[i].id = Parsed[j].id
                               /\ Malformed(event[i].body)
                        ELSE \A o \in Range(Parsed[j].objects) :
                               \E i \in DOMAIN event :
                                 /\ Parsed[j].id = IdOf(event[i])
                                 /\ \E r \in S3RecordsOf(event[i]) :
                                      r.name # "ObjectRemoved" /\ Gives(r, o)
      BY DEF NothingInvented
    <2>1. CASE \E i \in DOMAIN event : MakesMessage(event[i]) /\ Parsed[j] = MessageAt(i)
      <3>1. PICK i \in DOMAIN event : MakesMessage(event[i]) /\ Parsed[j] = MessageAt(i)
        BY <2>1
      <3>2. event[i].src = "sqs" /\ (Malformed(event[i].body) \/ ObjectsOfBody(event[i].body) # <<>>)
        BY <3>1 DEF MakesMessage
      <3> DEFINE body == event[i].body
      <3>3. body \in Bodies
        BY <1>1, <3>2, RecordCases
      <3>4. Parsed[j].objects = ObjectsOfBody(body) /\ Parsed[j].id = event[i].id
        BY <3>1 DEF MessageAt, MessageOfSqs
      <3>5. CASE ObjectsOfBody(body) = <<>>
        BY <3>2, <3>4, <3>5
      <3>6. CASE ObjectsOfBody(body) # <<>>
        <4>1. body.shape = "notification" /\ Range(ObjectsOfBody(body)) = ObjectsIn(Range(body.records))
          BY <3>3, <3>6, BodyFacts
        <4>2. PICK n \in Nat : body.records \in [1 .. n -> S3Record]
          BY <3>3, <4>1, BodyShape
        <4>3. S3RecordsOf(event[i]) = Range(body.records)
          BY <3>2, <4>1 DEF S3RecordsOf
        <4>4. ASSUME NEW o \in ObjectsIn(Range(body.records))
              PROVE  \E r \in Range(body.records) : r.name # "ObjectRemoved" /\ Gives(r, o)
          <5>1. PICK r \in Range(body.records) : NamesObject(r) /\ o = ObjectOf(r)
            BY DEF ObjectsIn
          <5>2. r \in S3Record
            BY <4>2, <5>1 DEF Range
          <5>3. Gives(r, o) /\ r.name # "ObjectRemoved"
            BY <5>1, <5>2, ObjectFacts DEF NamesObject
          <5> QED  BY <5>1, <5>3
        <4>5. Parsed[j].id = IdOf(event[i])
          BY <3>2, <3>4 DEF IdOf
        <4> HIDE DEF body
        <4> QED  BY <3>4, <3>6, <4>1, <4>3, <4>4, <4>5
      <3> QED  BY <3>5, <3>6
    <2>2. CASE DirectObjects # <<>> /\ Parsed[j] = DirectMessage
      <3>1. Parsed[j].objects = DirectObjects /\ Parsed[j].id = NoId
        BY <2>2 DEF DirectMessage
      <3>2. Reports(DirectObjects, event, {k \in DOMAIN event : event[k].src = "s3"})
        BY <1>1, DirectFacts
      <3>3. ASSUME NEW o \in Range(DirectObjects)
            PROVE  \E i \in DOMAIN event :
                     /\ Parsed[j].id = IdOf(event[i])
                     /\ \E r \in S3RecordsOf(event[i]) : r.name # "ObjectRemoved" /\ Gives(r, o)
        <4>1. PICK i \in DOMAIN event :
                event[i].src = "s3" /\ NamesObject(event[i]) /\ o = ObjectOf(event[i])
          BY <3>2 DEF Reports
        <4>2. event[i] \in S3Record /\ S3RecordsOf(event[i]) = {event[i]}
          BY <1>1, <4>1, RecordCases DEF S3RecordsOf
        <4>3. Gives(event[i], o) /\ event[i].name # "ObjectRemoved"
          BY <4>1, <4>2, ObjectFacts DEF NamesObject
        <4> QED  BY <3>1, <4>1, <4>2, <4>3 DEF IdOf
      <3> QED  BY <2>2, <3>1, <3>3
    <2>3. ParsedHolds
      BY <1>1, ParsedFacts
    <2> QED  BY <2>1, <2>2, <2>3 DEF ParsedHolds
  <1> QED  BY <1>1, EventInvAlways, PTL

-----------------------------------------------------------------------------
(* One pass over the records.                                              *)

\* One more position, behind the others, adds one element.
LEMMA ListedAppends ==
  ASSUME NEW f, NEW n \in Nat, NEW at, at \subseteq 1 .. n, IsFiniteSet(at)
  PROVE  Listed(f, at \cup {n + 1}) = Append(Listed(f, at), f[n + 1])
  <1> DEFINE more == at \cup {n + 1}
             N == Cardinality(at)
             list == Listed(f, at)
             longer == Listed(f, more)
  <1>1. at \subseteq Nat /\ more \subseteq Nat /\ n + 1 \notin at
    OBVIOUS
  <1>2. IsFiniteSet(more) /\ Cardinality(more) = N + 1 /\ N \in Nat
    <2>1. N \in Nat
      BY FS_CardinalityType
    <2>2. IsFiniteSet(more) /\ Cardinality(more) = IF n + 1 \in at THEN N ELSE N + 1
      BY FS_AddElement
    <2> QED  BY <1>1, <2>1, <2>2
  <1>3. ASSUME NEW i \in at PROVE Upto(more, i) = Upto(at, i)
    <2>1. ~ (n + 1 <= i)
      OBVIOUS
    <2> QED  BY <2>1 DEF Upto
  <1>4. Upto(more, n + 1) = more
    <2>1. \A j \in more : j <= n + 1
      OBVIOUS
    <2> HIDE DEF more
    <2> QED  BY <2>1 DEF Upto
  <1>5. \A i \in more : /\ Cardinality(Upto(more, i)) \in DOMAIN longer
                        /\ longer[Cardinality(Upto(more, i))] = f[i]
    <2> HIDE DEF more
    <2> QED  BY <1>1, <1>2, ListedAt
  <1>6. longer[N + 1] = f[n + 1]
    <2> HIDE DEF longer
    <2>1. n + 1 \in more
      OBVIOUS
    <2> HIDE DEF more
    <2> QED  BY <2>1, <1>2, <1>4, <1>5
  <1>7. ASSUME NEW k \in 1 .. N PROVE longer[k] = list[k]
    <2>1. PICK i \in at : Cardinality(Upto(at, i)) = k
      BY <1>1, RankFacts
    <2>2. list[k] = f[i]
      BY <1>1, <2>1, ListedAt
    <2>3. i \in more /\ Cardinality(Upto(more, i)) = k
      BY <2>1, <1>3
    <2> HIDE DEF longer, list, more
    <2> QED  BY <2>2, <2>3, <1>5
  <1>8. longer = [k \in 1 .. N + 1 |-> longer[k]]
    BY <1>2 DEF Listed
  <1>9. list \in Seq(Range(list)) /\ Len(list) = N
    BY <1>1, ListedIsSeq
  <1> HIDE DEF longer, list, N, more
  <1>10. Append(list, f[n + 1]) = [k \in 1 .. N + 1 |-> IF k = N + 1 THEN f[n + 1] ELSE list[k]]
    BY <1>9, <1>2
  <1>11. longer = Append(list, f[n + 1])
    <2>1. \A k \in 1 .. N + 1 : longer[k] = IF k = N + 1 THEN f[n + 1] ELSE list[k]
      <3>1. \A k \in 1 .. N + 1 : k = N + 1 \/ k \in 1 .. N
        BY <1>2
      <3> QED  BY <3>1, <1>6, <1>7
    <2> QED  BY <1>8, <1>10, <2>1
  <1> QED  BY <1>11 DEF longer, list, more

\* A key without a stray percent sign is unescaped alike.
LEMMA UnquotesAlike ==
  ASSUME NEW n, NEW key \in [1 .. n -> AllTokens]
  PROVE  NodeUnquote(key) = UnquotePlus(key)
  <1> DEFINE spaced == [i \in DOMAIN key |-> IF key[i] = "+" THEN " " ELSE key[i]]
             escape == [t \in {"%2B", "%25"} |-> IF t = "%2B" THEN "+" ELSE "%"]
             node(i) == IF spaced[i] \in DOMAIN escape THEN escape[spaced[i]] ELSE spaced[i]
  <1>1. ASSUME NEW i \in DOMAIN key PROVE node(i) = Unquoted(key[i])
    <2>1. key[i] \in {"x", "+", "%2B", "%25", "%"}
      BY DEF AllTokens
    <2>2. spaced[i] = IF key[i] = "+" THEN " " ELSE key[i]
      OBVIOUS
    <2>3. DOMAIN escape = {"%2B", "%25"} /\ escape["%2B"] = "+" /\ escape["%25"] = "%"
      OBVIOUS
    <2> HIDE DEF spaced, escape
    <2> QED  BY <2>1, <2>2, <2>3 DEF Unquoted
  <1>2. NodeUnquote(key) = [i \in DOMAIN key |-> node(i)]
    BY DEF NodeUnquote
  <1> HIDE DEF node
  <1> QED  BY <1>1, <1>2 DEF UnquotePlus

\* The Node library reads a record that is not odd as Python does.
LEMMA NodeReadsAlike ==
  /\ \A r \in S3Record : ~ Odd(r) => NodeObject(r) = ObjectFromS3Record(r)
  /\ \A body \in Bodies :
       (body.shape = "notification" => \A r \in Range(body.records) : ~ Odd(r)) =>
         NodeObjects(body) = ObjectsOfBody(body)
  <1>1. ASSUME NEW r \in S3Record, ~ Odd(r) PROVE NodeObject(r) = ObjectFromS3Record(r)
    <2>1. r.src = "s3"
      BY DEF S3Record
    <2>2. CASE r.name = "ObjectRemoved"
      BY <2>2 DEF NodeObject, ObjectFromS3Record
    <2>3. CASE r.name # "ObjectRemoved" /\ r.form = "given"
      <3>1. r.key # <<>> /\ r.form \in KeyedForms
        BY <1>1, <2>3 DEF Odd, OddBlock, KeyedForms
      <3>2. NodeUnquote(r.key) = UnquotePlus(r.key)
        <4>1. PICK n \in Nat : r.key \in [1 .. n -> AllTokens]
          BY <3>1, KeyFacts
        <4> QED  BY <4>1, UnquotesAlike
      <3> QED  BY <2>1, <2>3, <3>1, <3>2 DEF NodeObject, ObjectFromS3Record, NodeBucket
    <2>4. CASE r.name # "ObjectRemoved" /\ r.form # "given"
      <3>1. r.form \notin KeyedForms
        BY <1>1, <2>4 DEF Odd, OddBlock, KeyedForms
      <3> QED  BY <2>4, <3>1 DEF NodeObject, ObjectFromS3Record
    <2> QED  BY <2>2, <2>3, <2>4
  <1>2. ASSUME NEW body \in Bodies,
               body.shape = "notification" => \A r \in Range(body.records) : ~ Odd(r)
        PROVE  NodeObjects(body) = ObjectsOfBody(body)
    <2>1. CASE body.shape = "notification"
      <3> DEFINE records == body.records
                 object == [i \in DOMAIN records |-> NodeObject(records[i])]
                 other == [i \in DOMAIN records |->
                             IF i \in DOMAIN records THEN ObjectFromS3Record(records[i]) ELSE NoObject]
      <3>1. PICK n \in Nat : records \in [1 .. n -> S3Record]
        BY <2>1, BodyShape
      <3>2. \A i \in DOMAIN records : NodeObject(records[i]) = ObjectFromS3Record(records[i])
        <4>1. \A i \in DOMAIN records : records[i] \in S3Record /\ ~ Odd(records[i])
          BY <1>2, <2>1, <3>1 DEF Range
        <4> QED  BY <1>1, <4>1
      <3>3. object = other /\ DOMAIN object = DOMAIN records
        BY <3>2
      <3>4. NodeObjects(body) = Listed(object, {i \in DOMAIN object : object[i] # NoObject})
        BY <2>1 DEF NodeObjects
      <3>5. ObjectsOfBody(body) = Listed(other, {i \in DOMAIN records : other[i] # NoObject})
        BY <2>1 DEF ObjectsOfBody, ObjectsAt
      <3> HIDE DEF object, other, records
      <3> QED  BY <3>3, <3>4, <3>5
    <2>2. CASE body.shape # "notification"
      BY <2>2 DEF NodeObjects, ObjectsOfBody
    <2> QED  BY <2>1, <2>2
  <1> QED  BY <1>1, <1>2

MessagesMade == [i \in {k \in DOMAIN event : MakesMessage(event[k])} |-> MessageAt(i)]

ObjectsNamed ==
  [i \in DOMAIN event |->
     IF i \in {k \in DOMAIN event : event[k].src = "s3"} THEN ObjectFromS3Record(event[i]) ELSE NoObject]

\* The positions up to n that make a message, and those that name an object.
Making(n) == {k \in 1 .. n : MakesMessage(event[k])}
Naming(n) == {k \in 1 .. n : ObjectsNamed[k] # NoObject}

\* What Python makes of the first n records.
Prefix(n) ==
  [messages |-> Listed(MessagesMade, Making(n)), direct |-> Listed(ObjectsNamed, Naming(n))]

LEMMA PrefixSets ==
  ASSUME NEW n \in Nat
  PROVE  /\ Making(n) \subseteq 1 .. n /\ IsFiniteSet(Making(n))
         /\ Naming(n) \subseteq 1 .. n /\ IsFiniteSet(Naming(n))
  <1>1. Making(n) \in SUBSET (1 .. n) /\ Naming(n) \in SUBSET (1 .. n)
    BY DEF Making, Naming
  <1>2. IsFiniteSet(1 .. n)
    <2>1. 1 \in Int /\ n \in Int
      OBVIOUS
    <2> QED  BY <2>1, FS_Interval
  <1>3. IsFiniteSet(Making(n)) /\ IsFiniteSet(Naming(n))
    BY <1>1, <1>2, FS_Subset
  <1> QED  BY <1>1, <1>3

\* One turn of the Node loop adds what the next record makes.
LEMMA NodeTurn ==
  ASSUME EventInv, Plainly(event), NEW n \in Nat, n + 1 \in DOMAIN event
  PROVE  NodeRecord(Prefix(n), event[n + 1]) = Prefix(n + 1)
  <1> DEFINE r == event[n + 1]
             a == Listed(MessagesMade, Making(n))
             b == Listed(ObjectsNamed, Naming(n))
  <1>0. n + 1 \in Nat /\ 1 .. n + 1 = 1 .. n \cup {n + 1}
    OBVIOUS
  <1>1. /\ Making(n + 1) = IF MakesMessage(r) THEN Making(n) \cup {n + 1} ELSE Making(n)
        /\ Naming(n + 1) = IF ObjectsNamed[n + 1] # NoObject THEN Naming(n) \cup {n + 1} ELSE Naming(n)
    BY <1>0 DEF Making, Naming
  <1>2. MakesMessage(r) => Listed(MessagesMade, Making(n) \cup {n + 1}) = Append(a, MessageAt(n + 1))
    <2>1. MakesMessage(r) => MessagesMade[n + 1] = MessageAt(n + 1)
      BY DEF MessagesMade
    <2>2. Listed(MessagesMade, Making(n) \cup {n + 1}) = Append(a, MessagesMade[n + 1])
      BY PrefixSets, ListedAppends
    <2> QED  BY <2>1, <2>2
  <1>3. Listed(ObjectsNamed, Naming(n) \cup {n + 1}) = Append(b, ObjectsNamed[n + 1])
    BY PrefixSets, ListedAppends
  <1>4. ObjectsNamed[n + 1] = IF r.src = "s3" THEN ObjectFromS3Record(r) ELSE NoObject
    BY DEF ObjectsNamed
  <1>5. \/ r.src = "sqs" /\ r.body \in Bodies
        \/ r.src = "s3" /\ r \in S3Record
        \/ r.src = "other"
    BY RecordCases
  <1>6. /\ Prefix(n) = [messages |-> a, direct |-> b]
        /\ Prefix(n + 1) = [messages |-> Listed(MessagesMade, Making(n + 1)),
                            direct |-> Listed(ObjectsNamed, Naming(n + 1))]
    BY DEF Prefix
  <1> DEFINE made == Listed(MessagesMade, Making(n + 1))
             named == Listed(ObjectsNamed, Naming(n + 1))
  <1>7. CASE r.src = "sqs" /\ r.body \in Bodies
    <2>1. named = b
      BY <1>1, <1>4, <1>7
    <2>2. NodeSqs(a, r) = made
      <3>1. NodeObjects(r.body) = ObjectsOfBody(r.body)
        <4>1. r.body.shape = "notification" => \A q \in Range(r.body.records) : ~ Odd(q)
          <5>1. r.body.shape = "notification" => S3RecordsOf(r) = Range(r.body.records)
            BY <1>7 DEF S3RecordsOf
          <5>2. \A q \in S3RecordsOf(r) : ~ Odd(q)
            BY DEF Plainly
          <5> QED  BY <5>1, <5>2
        <4> HIDE DEF r
        <4> QED  BY <1>7, <4>1, NodeReadsAlike
      <3>2. MessageAt(n + 1) = [objects |-> ObjectsOfBody(r.body), id |-> r.id]
        BY DEF MessageAt, MessageOfSqs
      <3>3. MakesMessage(r) <=> \/ r.body.shape \in {"notString", "notJson", "notObject"}
                                \/ NodeObjects(r.body) # <<>>
        BY <1>7, <3>1 DEF MakesMessage, Malformed
      <3>4. made = IF MakesMessage(r) THEN Append(a, MessageAt(n + 1)) ELSE a
        BY <1>1, <1>2
      <3> HIDE DEF made, a, r
      <3> QED  BY <3>1, <3>2, <3>3, <3>4 DEF NodeSqs
    <2>3. NodeRecord(Prefix(n), r) = [messages |-> NodeSqs(a, r), direct |-> b]
      <3> HIDE DEF a, b, r
      <3> QED  BY <1>6, <1>7 DEF NodeRecord
    <2> HIDE DEF made, named, a, b, r
    <2>4. Prefix(n + 1) = [messages |-> made, direct |-> named]
      BY <1>6 DEF made, named
    <2>5. NodeRecord(Prefix(n), r) = Prefix(n + 1)
      BY <2>1, <2>2, <2>3, <2>4
    <2> QED  BY <2>5 DEF r
  <1>8. CASE r.src = "s3" /\ r \in S3Record
    <2>1. made = a
      BY <1>1, <1>8 DEF MakesMessage
    <2>2. NodeObject(r) = ObjectsNamed[n + 1]
      <3>1. S3RecordsOf(r) = {r}
        BY <1>8 DEF S3RecordsOf
      <3>2. ~ Odd(r)
        BY <3>1 DEF Plainly
      <3> QED  BY <1>4, <1>8, <3>2, NodeReadsAlike
    <2>3. named = IF NodeObject(r) = NoObject THEN b ELSE Append(b, NodeObject(r))
      BY <1>1, <1>3, <2>2
    <2>4. NodeRecord(Prefix(n), r) =
            [messages |-> a, direct |-> IF NodeObject(r) = NoObject THEN b ELSE Append(b, NodeObject(r))]
      <3>1. Prefix(n).messages = a /\ Prefix(n).direct = b
        BY <1>6
      <3>2. r.src # "sqs"
        BY <1>8
      <3> HIDE DEF a, b, r
      <3>3. CASE NodeObject(r) = NoObject
        BY <1>6, <3>2, <3>3 DEF NodeRecord
      <3>4. CASE NodeObject(r) # NoObject
        <4> DEFINE p == Prefix(n)
                   o == NodeObject(r)
        <4>1. NodeRecord(p, r) = [p EXCEPT !.direct = Append(p.direct, o)]
          BY <3>2, <3>4 DEF NodeRecord
        <4>2. p = [messages |-> a, direct |-> b]
          BY <1>6
        <4> HIDE DEF p, o
        <4>3. [p EXCEPT !.direct = Append(p.direct, o)] = [messages |-> a, direct |-> Append(b, o)]
          BY <4>2
        <4> QED  BY <3>4, <4>1, <4>3 DEF p, o
      <3> QED  BY <3>3, <3>4
    <2> HIDE DEF made, named, a, b, r
    <2>5. Prefix(n + 1) = [messages |-> made, direct |-> named]
      BY <1>6 DEF made, named
    <2>6. NodeRecord(Prefix(n), r) = Prefix(n + 1)
      BY <2>1, <2>3, <2>4, <2>5
    <2> QED  BY <2>6 DEF r
  <1>9. CASE r.src = "other"
    <2>1. made = a /\ named = b
      BY <1>1, <1>4, <1>9 DEF MakesMessage
    <2>2. NodeRecord(Prefix(n), r) = Prefix(n)
      <3> HIDE DEF r
      <3> QED  BY <1>9 DEF NodeRecord, NodeObject
    <2> HIDE DEF made, named, a, b, r
    <2>3. Prefix(n + 1) = [messages |-> made, direct |-> named]
      BY <1>6 DEF made, named
    <2>4. NodeRecord(Prefix(n), r) = Prefix(n + 1)
      BY <1>6, <2>1, <2>2, <2>3
    <2> QED  BY <2>4 DEF r
  <1> QED  BY <1>5, <1>7, <1>8, <1>9

\* The natural numbers have no other subset that holds 0 and every successor.
LEMMA NatSetInduction ==
  ASSUME NEW T, 0 \in T, \A n \in Nat : n \in T => n + 1 \in T
  PROVE  Nat \subseteq T
  <1> DEFINE U == {n \in Nat : n \notin T}
  <1>1. SUFFICES ASSUME U # {} PROVE FALSE
    OBVIOUS
  <1>2. PICK x \in U : \A y \in U : ~ (<<y, x>> \in OpToRel(<, Nat))
    <2>1. U \subseteq Nat
      OBVIOUS
    <2> HIDE DEF U
    <2> QED  BY <1>1, <2>1, NatLessThanWellFounded, WFMin, Zenon
  <1>3. x \in Nat /\ x # 0 /\ x - 1 \in Nat /\ x - 1 + 1 = x
    OBVIOUS
  <1>4. x - 1 \in U
    BY <1>3
  <1>5. <<x - 1, x>> \in OpToRel(<, Nat)
    BY <1>3 DEF OpToRel
  <1> QED  BY <1>2, <1>4, <1>5

\* after holds what the Node loop has after each record.
Passes(after) ==
  after = [n \in 0 .. Len(event) |->
             IF n = 0 THEN [messages |-> <<>>, direct |-> <<>>] ELSE NodeRecord(after[n - 1], event[n])]

LEMMA PrefixZero == Prefix(0) = [messages |-> <<>>, direct |-> <<>>]
  <1>1. Making(0) = {} /\ Naming(0) = {}
    BY DEF Making, Naming
  <1>2. {} \subseteq Nat /\ IsFiniteSet({})
    BY FS_EmptySet
  <1>3. Listed(MessagesMade, {}) = <<>> /\ Listed(ObjectsNamed, {}) = <<>>
    BY <1>2, ListedIsSeq
  <1> QED  BY <1>1, <1>3 DEF Prefix

\* There is such a pass, and after n records it has what Python makes of them.
LEMMA PassesIsPrefix ==
  ASSUME EventInv, Plainly(event)
  PROVE  /\ \E after : Passes(after)
         /\ \A after : Passes(after) => after[Len(event)] = Prefix(Len(event))
  <1> DEFINE L == Len(event)
  <1>0. L \in Nat /\ DOMAIN event = 1 .. L
    BY DEF EventInv
  <1>1. ASSUME NEW n \in 1 .. L PROVE NodeRecord(Prefix(n - 1), event[n]) = Prefix(n)
    <2> DEFINE k == n - 1
    <2>1. k \in Nat /\ k + 1 \in DOMAIN event /\ k + 1 = n
      BY <1>0
    <2> HIDE DEF k
    <2>2. NodeRecord(Prefix(k), event[k + 1]) = Prefix(k + 1)
      BY <2>1, NodeTurn
    <2>3. NodeRecord(Prefix(k), event[n]) = Prefix(n)
      BY <2>1, <2>2
    <2> QED  BY <2>3 DEF k
  <1>2. \E after : Passes(after)
    <2> DEFINE after == [n \in 0 .. L |-> Prefix(n)]
    <2>1. ASSUME NEW n \in 0 .. L
          PROVE  Prefix(n) = IF n = 0 THEN [messages |-> <<>>, direct |-> <<>>]
                             ELSE NodeRecord(after[n - 1], event[n])
      <3>1. CASE n = 0
        BY <3>1, PrefixZero
      <3>2. CASE n # 0
        <4>1. n \in 1 .. L /\ n - 1 \in 0 .. L
          BY <1>0, <3>2
        <4>2. after[n - 1] = Prefix(n - 1)
          BY <4>1
        <4> HIDE DEF after
        <4> QED  BY <1>1, <3>2, <4>1, <4>2
      <3> QED  BY <3>1, <3>2
    <2>2. after = [n \in 0 .. L |-> IF n = 0 THEN [messages |-> <<>>, direct |-> <<>>]
                                    ELSE NodeRecord(after[n - 1], event[n])]
      BY <2>1
    <2> HIDE DEF after
    <2>3. Passes(after)
      BY <2>2 DEF Passes
    <2> QED  BY <2>3
  <1>3. ASSUME NEW after, Passes(after) PROVE after[L] = Prefix(L)
    <2> DEFINE T == {n \in Nat : n <= L => after[n] = Prefix(n)}
    <2>0. \A n \in 0 .. L : after[n] = IF n = 0 THEN [messages |-> <<>>, direct |-> <<>>]
                                       ELSE NodeRecord(after[n - 1], event[n])
      BY <1>3, Zenon DEF Passes
    <2>1. 0 \in T
      <3>1. 0 \in 0 .. L
        BY <1>0
      <3>2. after[0] = [messages |-> <<>>, direct |-> <<>>]
        BY <2>0, <3>1
      <3> QED  BY <3>2, PrefixZero
    <2>2. ASSUME NEW n \in Nat, n \in T PROVE n + 1 \in T
      <3>1. SUFFICES ASSUME n + 1 <= L PROVE after[n + 1] = Prefix(n + 1)
        OBVIOUS
      <3>2. after[n] = Prefix(n) /\ n + 1 \in 1 .. L /\ n + 1 \in 0 .. L /\ n + 1 # 0 /\ n + 1 - 1 = n
        BY <1>0, <2>2, <3>1
      <3>3. after[n + 1] = NodeRecord(after[n], event[n + 1])
        BY <2>0, <3>2
      <3> QED  BY <1>1, <3>2, <3>3
    <2>3. L \in T
      <3> HIDE DEF T, L
      <3> QED  BY <1>0, <2>1, <2>2, NatSetInduction
    <2> QED  BY <1>0, <2>3
  <1> QED  BY <1>2, <1>3

\* Both parsers make the same messages of every plain event, in the same order.
LEMMA ParsesAgree ==
  ASSUME EventInv, Plainly(event)
  PROVE  NodeParse(event) = Parsed
  <1> DEFINE L == Len(event)
             after == CHOOSE f : Passes(f)
             messages == Listed(MessagesMade, Making(L))
             message == [objects |-> DirectObjects, id |-> NoId]
  <1>0. L \in Nat /\ DOMAIN event = 1 .. L
    BY DEF EventInv
  <1>1. after[L] = Prefix(L)
    <2>1. Passes(after)
      BY PassesIsPrefix
    <2> HIDE DEF after
    <2> QED  BY <2>1, PassesIsPrefix
  <1>2. NodeParse(event) =
          IF after[L].direct = <<>> THEN after[L].messages
          ELSE Append(after[L].messages, [objects |-> after[L].direct, id |-> NoId])
    BY DEF NodeParse, Passes
  <1>3. Listed(ObjectsNamed, Naming(L)) = DirectObjects
    <2>1. Naming(L) = {i \in DOMAIN event : ObjectsNamed[i] # NoObject}
      BY <1>0 DEF Naming
    <2> QED  BY <2>1 DEF DirectObjects, ObjectsAt, ObjectsNamed
  <1>4. after[L].messages = messages /\ after[L].direct = DirectObjects
    BY <1>1, <1>3 DEF Prefix
  <1>5. Parsed = messages \o (IF DirectObjects = <<>> THEN <<>> ELSE <<message>>)
    <2>1. DOMAIN MessagesMade = Making(L)
      BY <1>0 DEF MessagesMade, Making
    <2>2. Parsed = Listed(MessagesMade, DOMAIN MessagesMade)
                     \o (IF DirectObjects = <<>> THEN <<>> ELSE <<message>>)
      BY DEF Parsed, ParseRecords, MessageAt, MessagesMade, DirectObjects
    <2> QED  BY <2>1, <2>2
  <1>6. messages \in Seq(Range(messages))
    <2>1. Making(L) \subseteq Nat /\ IsFiniteSet(Making(L))
      BY <1>0, PrefixSets
    <2> QED  BY <2>1, ListedIsSeq
  <1> HIDE DEF after, messages, L, message
  <1>7. CASE DirectObjects = <<>>
    <2>1. Parsed = messages
      BY <1>5, <1>6, <1>7
    <2> QED  BY <1>2, <1>4, <1>7, <2>1
  <1>8. CASE DirectObjects # <<>>
    <2>1. Parsed = messages \o <<message>>
      BY <1>5, <1>8
    <2>2. messages \o <<message>> = Append(messages, message)
      BY <1>6
    <2>3. NodeParse(event) = Append(messages, [objects |-> DirectObjects, id |-> NoId])
      BY <1>2, <1>4, <1>8
    <2> QED  BY <2>1, <2>2, <2>3 DEF message
  <1> QED  BY <1>7, <1>8

-----------------------------------------------------------------------------
(* The two loops over the messages.                                        *)

\* A record of what a loop has done.
IsTally(p) ==
  /\ p = [failed |-> p.failed, processed |-> p.processed, late |-> p.late, checked |-> p.checked]
  /\ p.late \in BOOLEAN /\ p.checked \in Nat

\* p and q have reported and processed the same.
SameWork(p, q) == p.failed = q.failed /\ p.processed = q.processed

\* Report and Work leave the clock alone, and do the same to equal tallies.
LEMMA ReportFacts ==
  ASSUME NEW p, NEW q, IsTally(p), IsTally(q), SameWork(p, q), NEW m
  PROVE  /\ IsTally(Report(p, m)) /\ SameWork(Report(p, m), Report(q, m))
         /\ Report(p, m).late = p.late /\ Report(p, m).checked = p.checked
  <1> DEFINE f == Append(p.failed, m.id)
             r == [failed |-> f, processed |-> p.processed, late |-> p.late, checked |-> p.checked]
             s == [failed |-> f, processed |-> q.processed, late |-> q.late, checked |-> q.checked]
  <1>1. CASE m.id = NoId
    BY <1>1 DEF Report
  <1>2. CASE m.id # NoId
    <2>1. Report(p, m) = r
      BY <1>2 DEF Report, IsTally
    <2>2. Report(q, m) = s
      BY <1>2 DEF Report, IsTally, SameWork
    <2> HIDE DEF f
    <2>3. IsTally(r) /\ SameWork(r, s) /\ r.late = p.late /\ r.checked = p.checked
      BY DEF IsTally, SameWork
    <2> QED  BY <2>1, <2>2, <2>3
  <1> QED  BY <1>1, <1>2

LEMMA WorkFacts ==
  ASSUME NEW p, NEW q, IsTally(p), IsTally(q), SameWork(p, q), NEW m, NEW failing
  PROVE  /\ IsTally(Work(p, m, failing))
         /\ SameWork(Work(p, m, failing), Work(q, m, failing))
         /\ Work(p, m, failing).late = p.late /\ Work(p, m, failing).checked = p.checked
  <1> DEFINE bad == {i \in DOMAIN m.objects : m.objects[i] \in failing}
             f == p.processed + Len(m.objects) - Cardinality(bad)
             r == [failed |-> p.failed, processed |-> f, late |-> p.late, checked |-> p.checked]
             s == [failed |-> q.failed, processed |-> f, late |-> q.late, checked |-> q.checked]
             dp == [p EXCEPT !.processed = @ + Len(m.objects) - Cardinality(bad)]
             dq == [q EXCEPT !.processed = @ + Len(m.objects) - Cardinality(bad)]
  <1>1. /\ Work(p, m, failing) = IF bad = {} THEN dp ELSE Report(dp, m)
        /\ Work(q, m, failing) = IF bad = {} THEN dq ELSE Report(dq, m)
    BY DEF Work
  <1>2. dp = r
    <2> HIDE DEF bad
    <2> QED  BY DEF IsTally
  <1>3. dq = s
    <2> HIDE DEF bad
    <2> QED  BY DEF IsTally, SameWork
  <1> HIDE DEF bad, f, dp, dq
  <1>4. IsTally(r) /\ IsTally(s) /\ SameWork(r, s) /\ r.late = p.late /\ r.checked = p.checked
    BY DEF IsTally, SameWork
  <1> HIDE DEF r, s
  <1>5. /\ IsTally(Report(r, m)) /\ SameWork(Report(r, m), Report(s, m))
        /\ Report(r, m).late = r.late /\ Report(r, m).checked = r.checked
    BY <1>4, ReportFacts
  <1> QED  BY <1>1, <1>2, <1>3, <1>4, <1>5

\* Counting a message or running out of time changes nothing else.
LEMMA ClockFacts ==
  ASSUME NEW p, IsTally(p)
  PROVE  /\ IsTally([p EXCEPT !.checked = @ + 1])
         /\ SameWork([p EXCEPT !.checked = @ + 1], p)
         /\ [p EXCEPT !.checked = @ + 1].checked = p.checked + 1
         /\ [p EXCEPT !.checked = @ + 1].late = p.late
         /\ IsTally([p EXCEPT !.late = TRUE])
         /\ SameWork([p EXCEPT !.late = TRUE], p)
         /\ [p EXCEPT !.late = TRUE].checked = p.checked
         /\ [p EXCEPT !.late = TRUE].late = TRUE
  <1> DEFINE c == [failed |-> p.failed, processed |-> p.processed, late |-> p.late,
                   checked |-> p.checked + 1]
             l == [failed |-> p.failed, processed |-> p.processed, late |-> TRUE,
                   checked |-> p.checked]
  <1>1. [p EXCEPT !.checked = @ + 1] = c
    BY DEF IsTally
  <1>2. [p EXCEPT !.late = TRUE] = l
    <2>1. ASSUME NEW t
          PROVE  [p EXCEPT !.late = t] = [failed |-> p.failed, processed |-> p.processed,
                                          late |-> t, checked |-> p.checked]
      BY DEF IsTally
    <2> QED  BY <2>1, Zenon
  <1>3. IsTally(c) /\ SameWork(c, p) /\ c.checked = p.checked + 1 /\ c.late = p.late
    BY DEF IsTally, SameWork
  <1>4. IsTally(l) /\ SameWork(l, p) /\ l.checked = p.checked /\ l.late = TRUE
    BY DEF IsTally, SameWork
  <1> QED  BY <1>1, <1>2, <1>3, <1>4, Zenon

\* The Python loop (p) and the Node loop (q) have done the same, and both are
\* out of time or neither: a Node loop that has only met malformed messages since
\* its time ran out has yet to look at the clock.
Alike(p, q, late) ==
  /\ SameWork(p, q)
  /\ IF p.late THEN q.late \/ q.checked >= late ELSE ~ q.late /\ p.checked = q.checked

\* What one turn of each loop may do with a message.
LEMMA TurnsAlike ==
  ASSUME NEW p, NEW q, IsTally(p), IsTally(q), NEW late \in Nat, Alike(p, q, late),
         NEW m, NEW failing
  PROVE  /\ IsTally(PythonMessage(p, m, late, failing)) /\ IsTally(NodeMessage(q, m, late, failing))
         /\ Alike(PythonMessage(p, m, late, failing), NodeMessage(q, m, late, failing), late)
  <1> DEFINE P == PythonMessage(p, m, late, failing)
             Q == NodeMessage(q, m, late, failing)
             rp == Report(p, m)
             rq == Report(q, m)
             wp == Work(p, m, failing)
             wq == Work(q, m, failing)
  <1>1. SameWork(p, q) /\ SameWork(q, p)
    BY DEF Alike, SameWork
  <1>2. /\ IsTally(rp) /\ rp.late = p.late /\ rp.checked = p.checked
        /\ IsTally(rq) /\ rq.late = q.late /\ rq.checked = q.checked /\ SameWork(rp, rq)
    BY <1>1, ReportFacts
  <1>3. /\ IsTally(wp) /\ wp.late = p.late /\ wp.checked = p.checked
        /\ IsTally(wq) /\ wq.late = q.late /\ wq.checked = q.checked /\ SameWork(wp, wq)
    BY <1>1, WorkFacts
  <1> HIDE DEF rp, rq, wp, wq
  <1>4. ASSUME NEW a, NEW b, IsTally(a), IsTally(b), SameWork(a, b)
        PROVE  /\ SameWork([a EXCEPT !.late = TRUE], b)
               /\ SameWork([a EXCEPT !.late = TRUE], [b EXCEPT !.late = TRUE])
               /\ SameWork([a EXCEPT !.late = TRUE], [b EXCEPT !.checked = @ + 1])
               /\ SameWork([a EXCEPT !.checked = @ + 1], [b EXCEPT !.checked = @ + 1])
    <2>1. SameWork([a EXCEPT !.late = TRUE], a) /\ SameWork([a EXCEPT !.checked = @ + 1], a)
      BY <1>4, ClockFacts
    <2>2. SameWork([b EXCEPT !.late = TRUE], b) /\ SameWork([b EXCEPT !.checked = @ + 1], b)
      BY <1>4, ClockFacts
    <2> QED  BY <1>4, <2>1, <2>2, Zenon DEF SameWork
  <1> DEFINE lp == [rp EXCEPT !.late = TRUE]
             lq == [rq EXCEPT !.late = TRUE]
             cp == [rp EXCEPT !.checked = @ + 1]
             cq == [rq EXCEPT !.checked = @ + 1]
             dp == [wp EXCEPT !.checked = @ + 1]
             dq == [wq EXCEPT !.checked = @ + 1]
  <1>5. /\ SameWork(lp, rq) /\ SameWork(lp, lq) /\ SameWork(lp, cq)
        /\ SameWork(cp, cq) /\ SameWork(dp, dq)
    BY <1>2, <1>3, <1>4
  <1>6. /\ IsTally(lp) /\ lp.late = TRUE
        /\ IsTally(lq) /\ lq.late = TRUE
    BY <1>2, ClockFacts
  <1>7. /\ IsTally(cp) /\ cp.late = p.late /\ cp.checked = p.checked + 1
        /\ IsTally(cq) /\ cq.late = q.late /\ cq.checked = q.checked + 1
    BY <1>2, ClockFacts
  <1>8. /\ IsTally(dp) /\ dp.late = p.late /\ dp.checked = p.checked + 1
        /\ IsTally(dq) /\ dq.late = q.late /\ dq.checked = q.checked + 1
    BY <1>3, ClockFacts
  <1>9. /\ P = IF p.late \/ p.checked >= late THEN lp ELSE IF IsMalformed(m) THEN cp ELSE dp
        /\ Q = IF q.late THEN rq ELSE IF IsMalformed(m) THEN cq
               ELSE IF q.checked >= late THEN lq ELSE dq
    BY DEF PythonMessage, NodeMessage, rp, rq, wp, wq
  <1>10. /\ p.late \in BOOLEAN /\ p.checked \in Nat
         /\ q.late \in BOOLEAN /\ q.checked \in Nat
    BY DEF IsTally
  <1> HIDE DEF lp, lq, cp, cq, dp, dq, P, Q
  <1>11. CASE q.late
    <2>1. p.late
      BY <1>11 DEF Alike
    <2>2. P = lp /\ Q = rq
      BY <1>9, <1>11, <2>1
    <2> QED  BY <1>2, <1>5, <1>6, <1>11, <2>2 DEF Alike, P, Q
  <1>12. CASE ~ q.late /\ (p.late \/ p.checked >= late)
    <2>1. q.checked >= late
      BY <1>12 DEF Alike
    <2>2. P = lp
      BY <1>9, <1>12
    <2>3. CASE IsMalformed(m)
      <3>1. Q = cq
        BY <1>9, <1>12, <2>3
      <3>2. cq.checked >= late
        BY <1>7, <1>10, <2>1
      <3> QED  BY <1>5, <1>6, <1>7, <2>2, <3>1, <3>2 DEF Alike, P, Q
    <2>4. CASE ~ IsMalformed(m)
      <3>1. Q = lq
        BY <1>9, <1>12, <2>1, <2>4
      <3> QED  BY <1>5, <1>6, <2>2, <3>1 DEF Alike, P, Q
    <2> QED  BY <2>3, <2>4
  <1>13. CASE ~ q.late /\ ~ p.late /\ ~ (p.checked >= late)
    <2>1. p.checked = q.checked
      BY <1>13 DEF Alike
    <2>2. CASE IsMalformed(m)
      <3>1. P = cp /\ Q = cq
        BY <1>9, <1>13, <2>2
      <3>2. cp.late = FALSE /\ cq.late = FALSE /\ cp.checked = cq.checked
        BY <1>7, <1>10, <1>13, <2>1
      <3> QED  BY <1>5, <1>7, <3>1, <3>2 DEF Alike, P, Q
    <2>3. CASE ~ IsMalformed(m)
      <3>1. P = dp /\ Q = dq
        BY <1>9, <1>13, <2>1, <2>3
      <3>2. dp.late = FALSE /\ dq.late = FALSE /\ dp.checked = dq.checked
        BY <1>8, <1>10, <1>13, <2>1
      <3> QED  BY <1>5, <1>8, <3>1, <3>2 DEF Alike, P, Q
    <2> QED  BY <2>2, <2>3
  <1> QED  BY <1>11, <1>12, <1>13

\* after holds what a loop has after each of the first len messages.
Loops(after, library, messages, len, late, failing) ==
  after = [n \in 0 .. len |->
             IF n = 0 THEN Start ELSE Message(library, after[n - 1], messages[n], late, failing)]

\* Each value of it, one by one.
LEMMA LoopSteps ==
  ASSUME NEW after, NEW library, NEW messages, NEW len \in Nat, NEW late, NEW failing
  PROVE  Loops(after, library, messages, len, late, failing) =>
           /\ after[0] = Start
           /\ \A n \in 1 .. len :
                after[n] = Message(library, after[n - 1], messages[n], late, failing)
  <1> SUFFICES ASSUME Loops(after, library, messages, len, late, failing)
               PROVE  /\ after[0] = Start
                      /\ \A n \in 1 .. len :
                           after[n] = Message(library, after[n - 1], messages[n], late, failing)
    OBVIOUS
  <1>1. \A n \in 0 .. len :
          after[n] = IF n = 0 THEN Start ELSE Message(library, after[n - 1], messages[n], late, failing)
    BY Zenon DEF Loops
  <1>2. 0 \in 0 .. len /\ \A n \in 1 .. len : n \in 0 .. len /\ n # 0
    OBVIOUS
  <1> QED  BY <1>1, <1>2

\* A loop gets through every list of messages.
LEMMA LoopsExist ==
  ASSUME NEW library, NEW messages, NEW len \in Nat, NEW late, NEW failing
  PROVE  \E after : Loops(after, library, messages, len, late, failing)
  <1> DEFINE T == {n \in Nat : \E after : Loops(after, library, messages, n, late, failing)}
  <1>1. 0 \in T
    <2>1. Loops([n \in 0 .. 0 |-> Start], library, messages, 0, late, failing)
      <3>1. [n \in 0 .. 0 |-> Start] =
              [n \in 0 .. 0 |-> IF n = 0 THEN Start
                                ELSE Message(library, [k \in 0 .. 0 |-> Start][n - 1], messages[n],
                                             late, failing)]
        OBVIOUS
      <3> QED  BY <3>1 DEF Loops
    <2> QED  BY <2>1
  <1>2. ASSUME NEW n \in Nat, n \in T PROVE n + 1 \in T
    <2>1. PICK after : Loops(after, library, messages, n, late, failing)
      BY <1>2
    <2> DEFINE next == Message(library, after[n], messages[n + 1], late, failing)
               more == [k \in 0 .. n + 1 |-> IF k = n + 1 THEN next ELSE after[k]]
    <2>2. /\ after[0] = Start
          /\ \A k \in 1 .. n : after[k] = Message(library, after[k - 1], messages[k], late, failing)
      BY <2>1, LoopSteps
    <2>3. /\ more[n + 1] = next
          /\ \A k \in 0 .. n : more[k] = after[k]
          /\ more = [k \in 0 .. n + 1 |-> more[k]]
      <3> HIDE DEF next
      <3> QED  OBVIOUS
    <2> HIDE DEF more
    <2>4. ASSUME NEW k \in 0 .. n + 1
          PROVE  more[k] = IF k = 0 THEN Start
                           ELSE Message(library, more[k - 1], messages[k], late, failing)
      <3>1. CASE k = 0
        <4>1. 0 \in 0 .. n
          OBVIOUS
        <4> QED  BY <2>2, <2>3, <3>1, <4>1
      <3>2. CASE k \in 1 .. n
        <4>1. k \in 0 .. n /\ k - 1 \in 0 .. n /\ k # 0
          BY <3>2
        <4> QED  BY <2>2, <2>3, <3>2, <4>1
      <3>3. CASE k = n + 1
        <4>1. n \in 0 .. n /\ k - 1 = n /\ k # 0
          BY <3>3
        <4> QED  BY <2>3, <3>3, <4>1
      <3> QED  BY <3>1, <3>2, <3>3
    <2>5. Loops(more, library, messages, n + 1, late, failing)
      BY <2>3, <2>4 DEF Loops
    <2> QED  BY <2>5
  <1>3. Nat \subseteq T
    <2> HIDE DEF T
    <2> QED  BY <1>1, <1>2, NatSetInduction
  <1> QED  BY <1>3

\* Whatever the messages, whichever objects fail and whenever time runs out, both
\* libraries report the same ids in the same order and get the same objects through.
LEMMA OutcomesAgree ==
  ASSUME NEW messages, Len(messages) \in Nat, NEW late \in Nat, NEW failing
  PROVE  Outcome("node", messages, late, failing) = Outcome("python", messages, late, failing)
  <1> DEFINE L == Len(messages)
             p == CHOOSE f : Loops(f, "python", messages, L, late, failing)
             q == CHOOSE f : Loops(f, "node", messages, L, late, failing)
  <1>1. /\ Outcome("python", messages, late, failing) = <<p[L].failed, p[L].processed>>
        /\ Outcome("node", messages, late, failing) = <<q[L].failed, q[L].processed>>
    BY DEF Outcome, Loops
  <1>2. Loops(p, "python", messages, L, late, failing) /\ Loops(q, "node", messages, L, late, failing)
    BY LoopsExist
  <1> HIDE DEF p, q, L
  <1>0. L \in Nat
    BY DEF L
  <1>3. /\ p[0] = Start /\ q[0] = Start
        /\ \A n \in 1 .. L : /\ p[n] = PythonMessage(p[n - 1], messages[n], late, failing)
                             /\ q[n] = NodeMessage(q[n - 1], messages[n], late, failing)
    <2>1. /\ p[0] = Start
          /\ \A n \in 1 .. L : p[n] = Message("python", p[n - 1], messages[n], late, failing)
      BY <1>0, <1>2, LoopSteps
    <2>2. /\ q[0] = Start
          /\ \A n \in 1 .. L : q[n] = Message("node", q[n - 1], messages[n], late, failing)
      BY <1>0, <1>2, LoopSteps
    <2> QED  BY <2>1, <2>2 DEF Message
  <1> DEFINE Good(n) == IsTally(p[n]) /\ IsTally(q[n]) /\ Alike(p[n], q[n], late)
             T == {n \in Nat : n <= L => Good(n)}
  <1>4. 0 \in T
    <2>1. IsTally(Start) /\ Alike(Start, Start, late)
      BY DEF Start, IsTally, Alike, SameWork
    <2> QED  BY <1>3, <2>1
  <1>5. ASSUME NEW n \in Nat, n \in T PROVE n + 1 \in T
    <2>1. SUFFICES ASSUME n + 1 <= L PROVE Good(n + 1)
      OBVIOUS
    <2>2. Good(n) /\ n + 1 \in 1 .. L /\ n + 1 - 1 = n
      BY <1>0, <1>5, <2>1
    <2>3. /\ p[n + 1] = PythonMessage(p[n], messages[n + 1], late, failing)
          /\ q[n + 1] = NodeMessage(q[n], messages[n + 1], late, failing)
      BY <1>3, <2>2
    <2> QED  BY <2>2, <2>3, TurnsAlike
  <1>6. Good(L)
    <2>1. L \in T
      <3> HIDE DEF T
      <3> QED  BY <1>0, <1>4, <1>5, NatSetInduction
    <2> QED  BY <1>0, <2>1
  <1> QED  BY <1>1, <1>6 DEF Alike, SameWork

\* The messages of an event are a sequence.
LEMMA ParsedIsSeq == ASSUME EventInv PROVE Len(Parsed) \in Nat
  <1> DEFINE list == Listed(MessagesMade, Making(Len(event)))
  <1>1. Len(event) \in Nat /\ DOMAIN event = 1 .. Len(event)
    BY DEF EventInv
  <1>2. DOMAIN MessagesMade = Making(Len(event))
    BY <1>1 DEF MessagesMade, Making
  <1>3. Parsed = Listed(MessagesMade, DOMAIN MessagesMade)
                   \o (IF DirectObjects = <<>> THEN <<>> ELSE <<DirectMessage>>)
    BY DEF Parsed, ParseRecords, MessageAt, MessagesMade, DirectObjects, DirectMessage
  <1>4. list \in Seq(Range(list))
    <2>1. Making(Len(event)) \subseteq Nat /\ IsFiniteSet(Making(Len(event)))
      BY <1>1, PrefixSets
    <2> QED  BY <2>1, ListedIsSeq
  <1> HIDE DEF list
  <1>5. CASE DirectObjects = <<>>
    <2>1. Parsed = list
      BY <1>2, <1>3, <1>4, <1>5 DEF list
    <2> QED  BY <1>4, <2>1
  <1>6. CASE DirectObjects # <<>>
    <2>1. Parsed = list \o <<DirectMessage>>
      BY <1>2, <1>3, <1>6 DEF list
    <2>2. list \o <<DirectMessage>> = Append(list, DirectMessage)
      BY <1>4
    <2>3. Adds(Append(list, DirectMessage), list, DirectMessage)
      BY <2>2 DEF Adds
    <2>4. Len(Append(list, DirectMessage)) = Len(list) + 1 /\ Len(list) \in Nat
      BY <1>4, AppendKeeps
    <2> QED  BY <2>1, <2>2, <2>4
  <1> QED  BY <1>5, <1>6

\* A record is read apart by the libraries just when it is odd.
LEMMA OddIsApart == OddReadApart
  <1> SUFFICES ASSUME NEW r \in S3Record PROVE Odd(r) <=> ReadApart(r)
    BY DEF OddReadApart
  <1>1. r.src = "s3" /\ r.form \in {"given", "emptyBucket", "nullKey", "nullBlock", "incomplete"}
    BY DEF S3Record, KeyedForms
  <1>2. ASSUME ~ Odd(r) PROVE ~ ReadApart(r)
    <2>1. NodeObject(r) = ObjectFromS3Record(r)
      BY <1>2, NodeReadsAlike
    <2>2. ~ Raises(r) /\ ~ NodeRaises(r)
      BY <1>2 DEF Odd, OddBlock, Raises, NodeRaises, KeyedForms
    <2>3. Raises(r) = NodeRaises(r)
      BY <2>2 DEF Raises, NodeRaises
    <2> QED  BY <2>1, <2>3 DEF ReadApart
  <1>3. ASSUME Odd(r) PROVE ReadApart(r)
    <2>1. r.name # "ObjectRemoved"
      BY <1>3 DEF Odd
    <2>2. CASE r.form = "nullKey" \/ r.form = "nullBlock"
      <3>1. Raises(r) <=> r.form = "nullBlock"
        BY <2>1, <2>2 DEF Raises
      <3>2. NodeRaises(r) <=> r.form = "nullKey"
        BY <2>1, <2>2 DEF NodeRaises, KeyedForms
      <3> QED  BY <2>2, <3>1, <3>2 DEF ReadApart
    <2>3. CASE r.form \in KeyedForms
      <3>1. ~ Raises(r)
        BY <2>3 DEF Raises, KeyedForms
      <3>2. CASE \E i \in DOMAIN r.key : r.key[i] = "%"
        <4>1. NodeRaises(r)
          BY <2>1, <2>3, <3>2 DEF NodeRaises
        <4> QED  BY <3>1, <4>1 DEF ReadApart
      <3>3. CASE ~ \E i \in DOMAIN r.key : r.key[i] = "%"
        <4>1. r.form = "emptyBucket" \/ r.key = <<>>
          BY <1>3, <2>3, <3>3 DEF Odd, OddBlock, KeyedForms
        <4>2. ObjectFromS3Record(r) = NoObject
          BY <4>1 DEF ObjectFromS3Record
        <4>3. NodeObject(r) # NoObject
          <5> DEFINE key == NodeUnquote(r.key)
                     bucket == NodeBucket(r.form)
          <5>1. PICK n \in Nat : r.key \in [1 .. n -> AllTokens]
            BY <2>3, KeyFacts
          <5>2. key = UnquotePlus(r.key)
            BY <5>1, UnquotesAlike
          <5>3. UnquotePlus(r.key) \in [1 .. n -> AllCharacters]
            BY <5>1, TokenFacts DEF UnquotePlus
          <5>4. key \in Seq(AllCharacters)
            BY <5>2, <5>3
          <5>5. bucket \in {"bucket", ""}
            BY DEF NodeBucket
          <5>6. NodeObject(r) = [bucket |-> bucket, key |-> key]
            BY <1>1, <2>1, <2>3 DEF NodeObject
          <5> HIDE DEF key, bucket
          <5>7. [bucket |-> bucket, key |-> key] \in [bucket : {"bucket", ""}, key : Seq(AllCharacters)]
            BY <5>4, <5>5
          <5> QED  BY <5>6, <5>7, S3EventsAssumption
        <4> QED  BY <3>1, <4>2, <4>3 DEF ReadApart
      <3> QED  BY <3>2, <3>3
    <2>4. r.form # "incomplete"
      BY <1>3 DEF Odd, OddBlock
    <2> QED  BY <1>1, <2>2, <2>3, <2>4 DEF KeyedForms
  <1> QED  BY <1>2, <1>3

\* The same of an event EventBridge sends to the function itself.
LEMMA OddIsApartBridged == OddBridged
  <1> SUFFICES ASSUME NEW r \in S3Record
               PROVE  OddBlock(r) <=>
                        \/ r.form = "nullBlock"
                        \/ ParseEventBridge("Object Created", r) # NodeEventBridge("Object Created", r)
    BY DEF OddBridged
  <1> DEFINE p == ParseEventBridge("Object Created", r)
             q == NodeEventBridge("Object Created", r)
             m(bucket, key) == <<[objects |-> <<[bucket |-> bucket, key |-> key]>>, id |-> NoId]>>
  <1>1. r.form \in {"given", "emptyBucket", "nullKey", "nullBlock", "incomplete"}
    BY DEF S3Record, KeyedForms
  <1>2. ASSUME NEW bucket, NEW key PROVE m(bucket, key) # <<>>
    OBVIOUS
  <1>3. /\ r.form = "given" /\ r.key # <<>> => p = m("bucket", r.key)
        /\ ~ (r.form = "given" /\ r.key # <<>>) => p = <<>>
    BY DEF ParseEventBridge
  <1>4. /\ r.form = "given" => q = m("bucket", r.key)
        /\ r.form = "emptyBucket" => q = m("", r.key)
        /\ r.form = "nullKey" => q = m("bucket", <<"null">>)
        /\ r.form \in {"nullBlock", "incomplete"} => q = <<>>
    BY DEF NodeEventBridge, NodeBucket, KeyedForms
  <1> HIDE DEF p, q, m
  <1>5. OddBlock(r) <=> r.form = "nullBlock" \/ p # q
    BY <1>1, <1>2, <1>3, <1>4 DEF OddBlock
  <1> QED  BY <1>5 DEF p, q

\* The Python and the Node library make the same messages of every event without
\* records that only one of them can read, and report the same failures for it,
\* whichever objects fail and whenever time runs out (parse_event and
\* process_messages); and OddReadApart lists those records exactly.  ConfigsAgree
\* has neither constants nor variables: TLC evaluates all of it.
THEOREM LibrariesAgree ==
  ASSUME ConfigsAgree
  PROVE  Spec => []RuntimesAgree
  <1>1. ASSUME EventInv PROVE RuntimesAgree
    <2>1. ASSUME Plainly(event)
          PROVE  /\ ~ ParseRaises(event) /\ ~ NodeParseRaises(event)
                 /\ NodeParse(event) = Parsed
      <3>1. \A r : ~ Odd(r) => ~ Raises(r) /\ ~ NodeRaises(r)
        BY DEF Odd, OddBlock, Raises, NodeRaises, KeyedForms
      <3>2. ~ ParseRaises(event) /\ ~ NodeParseRaises(event)
        BY <2>1, <3>1 DEF ParseRaises, NodeParseRaises, Plainly
      <3> QED  BY <1>1, <2>1, <3>2, ParsesAgree
    <2>3. Len(Parsed) \in Nat
      BY <1>1, ParsedIsSeq
    <2>4. ASSUME NEW late \in 0 .. Len(Parsed), NEW failing
          PROVE  Outcome("node", Parsed, late, failing) = Outcome("python", Parsed, late, failing)
      <3>1. late \in Nat
        BY <2>3
      <3> QED  BY <2>3, <3>1, OutcomesAgree
    <2> QED  BY <2>1, <2>4, OddIsApart, OddIsApartBridged DEF RuntimesAgree
  <1> QED  BY <1>1, EventInvAlways, PTL
=============================================================================
