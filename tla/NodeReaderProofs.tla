--------------------------- MODULE NodeReaderProofs ----------------------------
(***************************************************************************)
(* What both readers make of an object, whatever its length and its        *)
(* format: the operators that take a row apart first, then what the writer *)
(* put in the object, the invariant of a read, and the two properties.     *)
(***************************************************************************)
EXTENDS NodeReader, FiniteSetTheorems, SequenceTheorems, TLAPS

-----------------------------------------------------------------------------
(* Sequences.                                                              *)

\* The natural numbers have no other subset that holds 0 and every successor.
LEMMA NatSetInduction ==
  ASSUME NEW T, 0 \in T, \A n \in Nat : n \in T => n + 1 \in T
  PROVE  Nat \subseteq T
  <1> DEFINE U == {n \in Nat : n \notin T}
  <1>1. SUFFICES ASSUME U # {} PROVE FALSE
    OBVIOUS
  <1>2. PICK x \in U : \A y \in U : ~ (<<y, x>> \in OpToRel(<, Nat))
    <2>1. U \subseteq Nat
      OBVIOUS
    <2> HIDE DEF U
    <2> QED  BY <1>1, <2>1, NatLessThanWellFounded, WFMin, Zenon
  <1>3. x \in Nat /\ x # 0 /\ x - 1 \in Nat /\ x - 1 + 1 = x
    OBVIOUS
  <1>4. x - 1 \in U
    BY <1>3
  <1>5. <<x - 1, x>> \in OpToRel(<, Nat)
    BY <1>3 DEF OpToRel
  <1> QED  BY <1>2, <1>4, <1>5

\* The function FlattenSeq is defined by.
Flattens(f, s, n) == f = [i \in 1 .. n |-> IF i = 1 THEN s[i] ELSE f[i - 1] \o s[i]]

LEMMA FlattensAt ==
  ASSUME NEW f, NEW s, NEW n \in Nat, Flattens(f, s, n), NEW i \in 1 .. n
  PROVE  f[i] = IF i = 1 THEN s[i] ELSE f[i - 1] \o s[i]
  BY DEF Flattens

LEMMA FlattenIs ==
  ASSUME NEW s, Len(s) # 0, \E f : Flattens(f, s, Len(s))
  PROVE  \E f : Flattens(f, s, Len(s)) /\ FlattenSeq(s) = f[Len(s)]
  <1> DEFINE f == CHOOSE g : Flattens(g, s, Len(s))
  <1>1. Flattens(f, s, Len(s))
    OBVIOUS
  <1>2. FlattenSeq(s) = f[Len(s)]
    BY DEF FlattenSeq, Flattens
  <1> QED  BY <1>1, <1>2

\* One part is the whole, ...
LEMMA FlattenOne == ASSUME NEW s, Len(s) = 1 PROVE FlattenSeq(s) = s[1]
  <1>1. Flattens([i \in 1 .. 1 |-> s[1]], s, 1)
    <2>1. [i \in 1 .. 1 |-> s[1]] = [i \in 1 .. 1 |-> IF i = 1 THEN s[i] ELSE [j \in 1 .. 1 |-> s[1]][i - 1] \o s[i]]
      OBVIOUS
    <2> QED  BY <2>1 DEF Flattens
  <1>2. PICK f : Flattens(f, s, 1) /\ FlattenSeq(s) = f[1]
    <2>1. Len(s) # 0 /\ \E f : Flattens(f, s, Len(s))
      BY <1>1
    <2> QED  BY <2>1, FlattenIs
  <1>3. f[1] = s[1]
    BY <1>2, FlattensAt
  <1> QED  BY <1>2, <1>3

\* ... two are joined, ...
LEMMA FlattenTwo == ASSUME NEW s, Len(s) = 2 PROVE FlattenSeq(s) = s[1] \o s[2]
  <1> DEFINE w == [i \in 1 .. 2 |-> IF i = 1 THEN s[1] ELSE s[1] \o s[2]]
  <1>1. Flattens(w, s, 2)
    <2>1. w[1] = s[1] /\ w[2] = s[1] \o s[2]
      OBVIOUS
    <2>2. w = [i \in 1 .. 2 |-> w[i]]
      OBVIOUS
    <2> HIDE DEF w
    <2>3. \A i \in 1 .. 2 : w[i] = IF i = 1 THEN s[i] ELSE w[i - 1] \o s[i]
      <3>1. 2 - 1 = 1
        OBVIOUS
      <3>2. \A i \in 1 .. 2 : i = 1 \/ i = 2
        OBVIOUS
      <3> QED  BY <2>1, <3>1, <3>2
    <2> QED  BY <2>2, <2>3 DEF Flattens
  <1> HIDE DEF w
  <1>2. PICK f : Flattens(f, s, 2) /\ FlattenSeq(s) = f[2]
    <2>1. Len(s) # 0 /\ \E f : Flattens(f, s, Len(s))
      BY <1>1
    <2> QED  BY <2>1, FlattenIs
  <1>3. f[1] = s[1]
    BY <1>2, FlattensAt
  <1>4. f[2] = f[1] \o s[2]
    <2>1. 2 \in 1 .. 2 /\ 2 # 1 /\ 2 - 1 = 1 /\ 2 \in Nat
      OBVIOUS
    <2>2. \A i \in 1 .. 2 : f[i] = IF i = 1 THEN s[i] ELSE f[i - 1] \o s[i]
      BY <1>2, <2>1, FlattensAt
    <2> QED  BY <2>1, <2>2
  <1> QED  BY <1>2, <1>3, <1>4

\* ... and parts of one element are the elements in a row.
LEMMA FlattenUnits ==
  ASSUME NEW S, NEW g \in Seq(S), NEW s, s = [i \in 1 .. Len(g) |-> <<g[i]>>]
  PROVE  FlattenSeq(s) = g
  <1> DEFINE n == Len(g)
  <1>1. n \in Nat
    OBVIOUS
  <1>2. Len(s) = n
    BY <1>1
  <1>3. CASE n = 0
    <2>1. s = <<>> /\ g = <<>>
      BY <1>3
    <2> QED  BY <1>2, <1>3, <2>1 DEF FlattenSeq
  <1>4. CASE n # 0
    <2> DEFINE w == [i \in 1 .. n |-> SubSeq(g, 1, i)]
    <2>1. \A i \in 1 .. n : SubSeq(g, 1, i) = SubSeq(g, 1, i - 1) \o <<g[i]>>
      <3> TAKE i \in 1 .. n
      <3>1. 1 \in 1 .. Len(g) /\ i \in 1 .. Len(g)
        BY <1>1
      <3> QED  BY <3>1, SubSeqRecursiveSecond
    <2>2. SubSeq(g, 1, 1) = <<g[1]>>
      <3>1. 1 \in 1 .. n /\ g[1] \in S
        BY <1>1, <1>4
      <3>2. SubSeq(g, 1, 1) = SubSeq(g, 1, 0) \o <<g[1]>>
        BY <2>1, <3>1
      <3>3. SubSeq(g, 1, 0) = <<>>
        BY SubSeqEmpty
      <3>4. <<g[1]>> \in Seq(S)
        BY <3>1
      <3> QED  BY <3>2, <3>3, <3>4, ConcatEmptySeq
    <2>3. Flattens(w, s, n)
      <3>1. \A i \in 1 .. n : w[i] = SubSeq(g, 1, i) /\ s[i] = <<g[i]>>
        OBVIOUS
      <3>2. w = [i \in 1 .. n |-> w[i]]
        OBVIOUS
      <3> HIDE DEF w
      <3>3. \A i \in 1 .. n : w[i] = IF i = 1 THEN s[i] ELSE w[i - 1] \o s[i]
        <4> TAKE i \in 1 .. n
        <4>1. i # 1 => i - 1 \in 1 .. n
          BY <1>1
        <4> QED  BY <2>1, <2>2, <3>1, <4>1
      <3> QED  BY <3>2, <3>3 DEF Flattens
    <2>4. PICK f : Flattens(f, s, n) /\ FlattenSeq(s) = f[n]
      BY <1>1, <1>2, <1>4, <2>3, FlattenIs
    <2>5. \A i \in 1 .. n : f[i] = IF i = 1 THEN s[i] ELSE f[i - 1] \o s[i]
      BY <1>1, <2>4, FlattensAt
    <2>6. \A i \in 1 .. n : s[i] = <<g[i]>>
      OBVIOUS
    <2> HIDE DEF n
    <2> DEFINE T == {k \in Nat : k + 1 <= n => f[k + 1] = SubSeq(g, 1, k + 1)}
    <2>7. 0 \in T
      <3>1. 1 \in 1 .. n
        BY <1>1, <1>4
      <3>2. f[1] = SubSeq(g, 1, 1)
        BY <2>2, <2>5, <2>6, <3>1
      <3> QED  BY <3>2
    <2>8. ASSUME NEW k \in Nat, k \in T PROVE k + 1 \in T
      <3>1. SUFFICES ASSUME k + 2 <= n PROVE f[k + 2] = SubSeq(g, 1, k + 2)
        BY <2>8
      <3>2. f[k + 1] = SubSeq(g, 1, k + 1)
        <4>1. k + 1 <= n
          BY <1>1, <3>1
        <4> QED  BY <2>8, <4>1
      <3>3. k + 2 \in 1 .. n /\ k + 2 # 1 /\ (k + 2) - 1 = k + 1
        BY <1>1, <3>1
      <3>4. f[k + 2] = f[k + 1] \o <<g[k + 2]>>
        BY <2>5, <2>6, <3>3
      <3>5. SubSeq(g, 1, k + 2) = SubSeq(g, 1, k + 1) \o <<g[k + 2]>>
        BY <2>1, <3>3
      <3> QED  BY <3>2, <3>4, <3>5
    <2>9. f[n] = SubSeq(g, 1, n)
      <3>1. n - 1 \in Nat /\ (n - 1) + 1 = n
        BY <1>1, <1>4
      <3>2. Nat \subseteq T
        <4> HIDE DEF T
        <4> QED  BY <2>7, <2>8, NatSetInduction
      <3> QED  BY <3>1, <3>2
    <2>10. SubSeq(g, 1, n) = g
      BY SubSeqFull DEF n
    <2> QED  BY <2>4, <2>9, <2>10
  <1> QED  BY <1>3, <1>4

-----------------------------------------------------------------------------
(* Rows.                                                                   *)

\* Cells without a line break.
Marks == {"v", "space", "dated", "old", "n1", "n2", "delim", "quote"}
PlainMarks == Marks \ {"delim", "quote"}
ShortCells == {<<>>} \cup {<<x>> : x \in Marks} \cup {<<"space", "v">>, <<"v", "space">>}

\* How such a cell is written: as it is, or in quotes.
Plainly(c, e) == e = c /\ Len(c) <= 2 /\ \A j \in 1 .. Len(c) : c[j] \in PlainMarks

Quoted(c, e) ==
  \/ c = <<"quote">> /\ Len(e) = 4 /\ \A i \in 1 .. 4 : e[i] = "quote"
  \/ c = <<"delim">> /\ e[2] = "delim" /\ Len(e) = 3 /\ e[1] = "quote" /\ e[3] = "quote"

\* A cell of plain tokens is written as it is.
LEMMA EncodedPlain ==
  ASSUME NEW c \in Seq(Marks), Len(c) <= 2, \A j \in 1 .. Len(c) : c[j] \in PlainMarks
  PROVE  Encoded(c) \in Seq(Marks) /\ Plainly(c, Encoded(c))
  <1>1. \A j \in DOMAIN c : c[j] \notin {"delim", "quote", "break"}
    BY DEF PlainMarks, Marks
  <1>2. Encoded(c) = c
    BY <1>1 DEF Encoded
  <1> QED  BY <1>2 DEF Plainly

LEMMA CellTokens == ASSUME NEW c \in ShortCells PROVE c \in Seq(Marks) /\ (c # <<>> => Len(c) >= 1)
  <1>1. CASE c = <<>>
    BY <1>1
  <1>2. ASSUME NEW x \in Marks, c = <<x>> PROVE c \in Seq(Marks) /\ Len(c) >= 1
    BY <1>2
  <1>3. CASE c \in {<<"space", "v">>, <<"v", "space">>}
    BY <1>3 DEF Marks
  <1> QED  BY <1>1, <1>2, <1>3 DEF ShortCells

LEMMA EncodedForms ==
  ASSUME NEW c \in ShortCells
  PROVE  /\ Encoded(c) \in Seq(Marks)
         /\ Plainly(c, Encoded(c)) \/ Quoted(c, Encoded(c))
  <1>1. CASE c = <<>>
    <2>1. c \in Seq(Marks) /\ Len(c) <= 2 /\ \A j \in 1 .. Len(c) : c[j] \in PlainMarks
      BY <1>1, EmptySeq
    <2> QED  BY <2>1, EncodedPlain, Zenon
  <1>3. CASE c \in {<<"space", "v">>, <<"v", "space">>}
    <2>1. /\ c \in Seq(Marks) /\ Len(c) = 2
          /\ (c[1] = "space" \/ c[1] = "v") /\ (c[2] = "space" \/ c[2] = "v")
      <3>1. "space" \in Marks /\ "v" \in Marks
        BY DEF Marks
      <3>2. CASE c = <<"space", "v">>
        BY <3>1, <3>2
      <3>3. CASE c = <<"v", "space">>
        BY <3>1, <3>3
      <3> QED  BY <1>3, <3>2, <3>3
    <2>2. \A j \in 1 .. Len(c) : c[j] \in PlainMarks
      <3>1. \A j \in 1 .. 2 : j = 1 \/ j = 2
        OBVIOUS
      <3>2. "space" \in PlainMarks /\ "v" \in PlainMarks
        BY DEF PlainMarks, Marks
      <3> QED  BY <2>1, <3>1, <3>2
    <2>3. c \in Seq(Marks) /\ Len(c) <= 2
      BY <2>1
    <2> QED  BY <2>2, <2>3, EncodedPlain, Zenon
  <1>2. ASSUME NEW x \in Marks, c = <<x>>
        PROVE  /\ Encoded(c) \in Seq(Marks)
               /\ Plainly(c, Encoded(c)) \/ Quoted(c, Encoded(c))
    <2> DEFINE parts == [i \in DOMAIN c |-> IF c[i] = "quote" THEN <<"quote", "quote">> ELSE <<c[i]>>]
               p == FlattenSeq(parts)
    <2>1. c[1] = x /\ DOMAIN c = {1} /\ c \in Seq(Marks) /\ Len(c) = 1
      BY <1>2
    <2>3. p = IF x = "quote" THEN <<"quote", "quote">> ELSE <<x>>
      <3>1. DOMAIN parts = 1 .. 1 /\ parts[1] = IF x = "quote" THEN <<"quote", "quote">> ELSE <<x>>
        BY <2>1
      <3>2. Len(parts) = 1
        BY <3>1
      <3> HIDE DEF parts
      <3> QED  BY <3>1, <3>2, FlattenOne
    <2>4. x \in {"delim", "quote"} => Encoded(c) = <<"quote">> \o p \o <<"quote">>
      <3> SUFFICES ASSUME x \in {"delim", "quote"} PROVE Encoded(c) = <<"quote">> \o p \o <<"quote">>
        OBVIOUS
      <3>1. \E i \in DOMAIN c : c[i] \in {"delim", "quote", "break"}
        BY <2>1
      <3> QED  BY <3>1, Zenon DEF Encoded
    <2>5. p \in Seq(Marks) /\ Len(p) = (IF x = "quote" THEN 2 ELSE 1) /\ p[1] = x
          /\ (x = "quote" => p[2] = x)
      <3>1. CASE x = "quote"
        <4>1. p = <<"quote", "quote">> /\ "quote" \in Marks
          BY <2>3, <3>1 DEF Marks
        <4>2. p \in Seq(Marks) /\ Len(p) = 2 /\ p[1] = "quote" /\ p[2] = "quote"
          <5> HIDE DEF p
          <5> QED  BY <4>1
        <4> HIDE DEF p
        <4> QED  BY <3>1, <4>2
      <3>2. CASE x # "quote"
        BY <2>3, <3>2
      <3> QED  BY <3>1, <3>2
    <2> HIDE DEF parts, p
    <2> DEFINE e == <<"quote">> \o p \o <<"quote">>
               q == <<"quote">> \o p
    <2>6. <<"quote">> \in Seq(Marks) /\ Len(<<"quote">>) = 1 /\ <<"quote">>[1] = "quote"
      BY DEF Marks
    <2>7. /\ q \in Seq(Marks) /\ Len(q) = 1 + Len(p)
          /\ \A i \in 1 .. 1 + Len(p) : q[i] = IF i <= 1 THEN "quote" ELSE p[i - 1]
      BY <2>5, <2>6, ConcatProperties
    <2>8. /\ e \in Seq(Marks) /\ Len(e) = Len(q) + 1
          /\ \A i \in 1 .. Len(q) + 1 : e[i] = IF i <= Len(q) THEN q[i] ELSE <<"quote">>[i - Len(q)]
      <3>1. e = q \o <<"quote">>
        OBVIOUS
      <3> HIDE DEF e, q
      <3> QED  BY <2>6, <2>7, <3>1, ConcatProperties
    <2> HIDE DEF e, q
    <2>9. CASE x \in PlainMarks
      <3>1. Len(c) <= 2 /\ \A j \in 1 .. Len(c) : c[j] \in PlainMarks
        BY <2>1, <2>9
      <3> QED  BY <2>1, <3>1, EncodedPlain
    <2>10. CASE x = "quote"
      <3>1. Len(q) = 3 /\ q[1] = "quote" /\ q[2] = "quote" /\ q[3] = "quote"
        BY <2>5, <2>7, <2>10
      <3>2. Len(e) = 4 /\ e[1] = "quote" /\ e[2] = "quote" /\ e[3] = "quote" /\ e[4] = "quote"
        BY <2>6, <2>8, <3>1
      <3>3. \A i \in 1 .. 4 : i = 1 \/ i = 2 \/ i = 3 \/ i = 4
        OBVIOUS
      <3>4. \A i \in 1 .. 4 : e[i] = "quote"
        BY <3>2, <3>3
      <3>5. Encoded(c) = e
        BY <2>4, <2>10 DEF e
      <3> QED  BY <1>2, <2>8, <2>10, <3>2, <3>4, <3>5 DEF Quoted
    <2>11. CASE x = "delim"
      <3>1. Len(q) = 2 /\ q[1] = "quote" /\ q[2] = x
        BY <2>5, <2>7, <2>11
      <3>2. Len(e) = 3 /\ e[1] = "quote" /\ e[2] = x /\ e[3] = "quote"
        BY <2>6, <2>8, <3>1
      <3>3. Encoded(c) = e
        BY <2>4, <2>11 DEF e
      <3> QED  BY <1>2, <2>8, <2>11, <3>2, <3>3 DEF Quoted
    <2> QED  BY <2>9, <2>10, <2>11 DEF PlainMarks
  <1> QED  BY <1>1, <1>2, <1>3 DEF ShortCells

LEMMA TokensOfTwo ==
  ASSUME NEW c, NEW d, NEW cells, cells = <<c, d>>
  PROVE  Tokens(cells) = Encoded(c) \o (<<"delim">> \o Encoded(d))
  <1> DEFINE parts == [i \in DOMAIN cells |->
                         IF i = 1 THEN Encoded(cells[i]) ELSE <<"delim">> \o Encoded(cells[i])]
  <1>1. cells # <<<<>>>> /\ DOMAIN cells = 1 .. 2
    OBVIOUS
  <1>2. DOMAIN parts = 1 .. 2 /\ parts[1] = Encoded(c) /\ parts[2] = <<"delim">> \o Encoded(d)
    BY <1>1
  <1>3. Len(parts) = 2
    BY <1>2
  <1>4. Tokens(cells) = FlattenSeq(parts)
    BY <1>1, Zenon DEF Tokens
  <1> HIDE DEF parts
  <1> QED  BY <1>2, <1>3, <1>4, FlattenTwo

\* The function Broken is defined by.
Breaks(up, t) ==
  up = [n \in 0 .. Len(t) |->
          IF n = 0 THEN <<<<>>>>
          ELSE IF t[n] = "break" THEN Append(up[n - 1], <<>>)
          ELSE ToLast(up[n - 1], t[n])]

\* Without a line break there is one line.
LEMMA UnbrokenIsOne ==
  ASSUME NEW S, NEW t \in Seq(S), \A i \in 1 .. Len(t) : t[i] # "break"
  PROVE  Broken(t) = <<t>>
  <1> DEFINE w == [n \in 0 .. Len(t) |-> <<SubSeq(t, 1, n)>>]
             up == CHOOSE u : Breaks(u, t)
  <1>0. Len(t) \in Nat
    OBVIOUS
  <1>1. \A n \in 1 .. Len(t) : <<SubSeq(t, 1, n)>> = ToLast(<<SubSeq(t, 1, n - 1)>>, t[n])
    <2> TAKE n \in 1 .. Len(t)
    <2>1. 1 \in 1 .. Len(t) /\ n \in 1 .. Len(t)
      BY <1>0
    <2>2. SubSeq(t, 1, n) = SubSeq(t, 1, n - 1) \o <<t[n]>>
      BY <2>1, SubSeqRecursiveSecond
    <2>3. SubSeq(t, 1, n - 1) \in Seq(S) /\ t[n] \in S
      BY <1>0
    <2>4. SubSeq(t, 1, n) = Append(SubSeq(t, 1, n - 1), t[n])
      BY <2>2, <2>3
    <2> DEFINE a == SubSeq(t, 1, n - 1)
    <2>5. ToLast(<<a>>, t[n]) = <<Append(a, t[n])>>
      <3> HIDE DEF a
      <3> QED  BY DEF ToLast
    <2> QED  BY <2>4, <2>5
  <1>2. SubSeq(t, 1, 0) = <<>>
    BY SubSeqEmpty
  <1>3. Breaks(w, t)
    <2>1. \A n \in 0 .. Len(t) : w[n] = <<SubSeq(t, 1, n)>>
      OBVIOUS
    <2>2. w = [n \in 0 .. Len(t) |-> w[n]]
      OBVIOUS
    <2> HIDE DEF w
    <2>3. \A n \in 0 .. Len(t) :
            w[n] = IF n = 0 THEN <<<<>>>>
                   ELSE IF t[n] = "break" THEN Append(w[n - 1], <<>>) ELSE ToLast(w[n - 1], t[n])
      <3> TAKE n \in 0 .. Len(t)
      <3>1. CASE n = 0
        BY <1>2, <2>1, <3>1
      <3>2. CASE n # 0
        <4>1. n \in 1 .. Len(t) /\ n - 1 \in 0 .. Len(t)
          BY <1>0, <3>2
        <4>2. w[n - 1] = <<SubSeq(t, 1, n - 1)>>
          BY <2>1, <4>1
        <4> QED  BY <1>1, <2>1, <3>2, <4>1, <4>2
      <3> QED  BY <3>1, <3>2
    <2> QED  BY <2>2, <2>3, Zenon DEF Breaks
  <1>4. Breaks(up, t)
    BY <1>3
  <1>5. Broken(t) = up[Len(t)]
    BY DEF Broken, Breaks
  <1> HIDE DEF up
  <1>6. \A n \in 0 .. Len(t) :
          up[n] = IF n = 0 THEN <<<<>>>>
                  ELSE IF t[n] = "break" THEN Append(up[n - 1], <<>>) ELSE ToLast(up[n - 1], t[n])
    BY <1>4, Zenon DEF Breaks
  <1> DEFINE T == {n \in Nat : n <= Len(t) => up[n] = <<SubSeq(t, 1, n)>>}
  <1>7. 0 \in T
    <2>1. 0 \in 0 .. Len(t) /\ up[0] = <<<<>>>>
      BY <1>0, <1>6
    <2>2. up[0] = <<SubSeq(t, 1, 0)>>
      BY <1>2, <2>1
    <2> QED  BY <2>2
  <1>8. ASSUME NEW n \in Nat, n \in T PROVE n + 1 \in T
    <2>1. SUFFICES ASSUME n + 1 <= Len(t) PROVE up[n + 1] = <<SubSeq(t, 1, n + 1)>>
      BY <1>8
    <2>2. n + 1 \in 0 .. Len(t) /\ n + 1 \in 1 .. Len(t) /\ n + 1 # 0 /\ (n + 1) - 1 = n /\ n <= Len(t)
      BY <1>0, <2>1
    <2>3. up[n] = <<SubSeq(t, 1, n)>>
      BY <1>8, <2>2
    <2>4. up[n + 1] = ToLast(up[n], t[n + 1])
      BY <1>6, <2>2
    <2> QED  BY <1>1, <2>2, <2>3, <2>4
  <1>9. Nat \subseteq T
    <2> HIDE DEF T
    <2> QED  BY <1>7, <1>8, NatSetInduction
  <1>10. up[Len(t)] = <<SubSeq(t, 1, Len(t))>>
    BY <1>0, <1>9
  <1> QED  BY <1>5, <1>10, SubSeqFull

\* raw.trim() leaves a row alone that neither starts nor ends in a space or a tab.
LEMMA TrimmedWhole ==
  ASSUME NEW S, NEW t \in Seq(S), t # <<>>, t[1] # "space", t[Len(t)] # "space",
         Tab => t[1] # "delim" /\ t[Len(t)] # "delim"
  PROVE  Trimmed(t) = t
  <1> DEFINE kept == {i \in DOMAIN t : t[i] # "space" /\ ~(Tab /\ t[i] = "delim")}
             first == CHOOSE i \in kept : \A j \in kept : i <= j
             last == CHOOSE i \in kept : \A j \in kept : j <= i
  <1>1. Len(t) \in Nat /\ Len(t) > 0 /\ DOMAIN t = 1 .. Len(t)
    BY EmptySeq
  <1>2. 1 \in kept /\ Len(t) \in kept /\ kept \subseteq 1 .. Len(t)
    BY <1>1
  <1>3. Trimmed(t) = IF kept = {} THEN <<>> ELSE SubSeq(t, first, last)
    BY Zenon DEF Trimmed
  <1>4. first = 1 /\ last = Len(t)
    <2> HIDE DEF kept
    <2>1. first \in kept /\ \A j \in kept : first <= j
      <3>1. \A j \in kept : 1 <= j
        BY <1>1, <1>2
      <3> QED  BY <1>2, <3>1
    <2>2. last \in kept /\ \A j \in kept : j <= last
      <3>1. \A j \in kept : j <= Len(t)
        BY <1>1, <1>2
      <3> QED  BY <1>2, <3>1
    <2> HIDE DEF first, last
    <2>3. first \in 1 .. Len(t) /\ first <= 1 /\ last \in 1 .. Len(t) /\ Len(t) <= last
      BY <1>2, <2>1, <2>2
    <2>4. \A a, b, n \in Nat : a \in 1 .. n /\ a <= 1 /\ b \in 1 .. n /\ n <= b => a = 1 /\ b = n
      OBVIOUS
    <2>5. first \in Nat /\ last \in Nat /\ Len(t) \in Nat
      BY <1>1, <2>3
    <2> QED  BY <2>3, <2>4, <2>5
  <1> HIDE DEF kept, first, last
  <1> QED  BY <1>2, <1>3, <1>4, SubSeqFull

-----------------------------------------------------------------------------
(* splitDelimited.                                                         *)

\* up holds what the loop has after each of the first len tokens.
ScansTo(up, t, len) ==
  up = [n \in 0 .. len |->
          IF n = 0 THEN [cells |-> <<<<>>>>, mode |-> "plain"] ELSE Scan(up[n - 1], t, n)]

\* There is such a function for every length ...
LEMMA ScansExist == ASSUME NEW t, NEW len \in Nat PROVE \E up : ScansTo(up, t, len)
  <1> DEFINE start == [cells |-> <<<<>>>>, mode |-> "plain"]
             T == {n \in Nat : \E up : ScansTo(up, t, n)}
  <1>1. 0 \in T
    <2>1. ScansTo([n \in 0 .. 0 |-> start], t, 0)
      BY DEF ScansTo
    <2> QED  BY <2>1
  <1>2. ASSUME NEW n \in Nat, n \in T PROVE n + 1 \in T
    <2>1. PICK up : ScansTo(up, t, n)
      BY <1>2
    <2> DEFINE more == [m \in 0 .. n + 1 |-> IF m = n + 1 THEN Scan(up[n], t, n + 1) ELSE up[m]]
    <2> HIDE DEF start
    <2>2. ASSUME NEW m \in 0 .. n + 1
          PROVE  more[m] = IF m = 0 THEN start ELSE Scan(more[m - 1], t, m)
      <3>1. CASE m = n + 1
        <4>1. more[m] = Scan(up[n], t, n + 1)
          BY <3>1
        <4>2. n \in 0 .. n + 1 /\ n # n + 1 /\ m - 1 = n /\ m # 0
          BY <3>1
        <4>3. more[n] = up[n]
          BY <4>2
        <4> QED  BY <3>1, <4>1, <4>2, <4>3
      <3>2. CASE m \in 0 .. n /\ m # 0
        <4>1. up[m] = Scan(up[m - 1], t, m)
          BY <2>1, <3>2 DEF ScansTo
        <4>2. m - 1 \in 0 .. n + 1 /\ m - 1 # n + 1 /\ m # n + 1
          BY <3>2
        <4>3. more[m] = up[m] /\ more[m - 1] = up[m - 1]
          BY <4>2
        <4> HIDE DEF more
        <4> QED  BY <3>2, <4>1, <4>3
      <3>3. CASE m = 0
        <4>1. m # n + 1 /\ 0 \in 0 .. n
          BY <3>3
        <4>2. up[0] = start
          BY <2>1, <4>1 DEF ScansTo, start
        <4> QED  BY <3>3, <4>1, <4>2
      <3> QED  BY <3>1, <3>2, <3>3
    <2>3. more = [m \in 0 .. n + 1 |-> more[m]]
      OBVIOUS
    <2> HIDE DEF more
    <2>4. ScansTo(more, t, n + 1)
      BY <2>2, <2>3, Zenon DEF ScansTo, start
    <2> QED  BY <2>4
  <1>3. Nat \subseteq T
    <2> HIDE DEF T
    <2> QED  BY <1>1, <1>2, NatSetInduction
  <1> QED  BY <1>3

\* ... and SplitDelimited gives the cells it ends with.
LEMMA SplitScans ==
  ASSUME NEW t, Len(t) \in Nat
  PROVE  \E up : /\ SplitDelimited(t) = up[Len(t)].cells
                 /\ up[0] = [cells |-> <<<<>>>>, mode |-> "plain"]
                 /\ \A n \in 1 .. Len(t) : up[n] = Scan(up[n - 1], t, n)
  <1> DEFINE up == CHOOSE u : ScansTo(u, t, Len(t))
  <1>1. ScansTo(up, t, Len(t))
    BY ScansExist
  <1>2. SplitDelimited(t) = up[Len(t)].cells
    BY DEF SplitDelimited, ScansTo
  <1> HIDE DEF up
  <1>3. \A n \in 0 .. Len(t) :
          up[n] = IF n = 0 THEN [cells |-> <<<<>>>>, mode |-> "plain"] ELSE Scan(up[n - 1], t, n)
    BY <1>1, Zenon DEF ScansTo
  <1>4. 0 \in 0 .. Len(t) /\ \A n \in 1 .. Len(t) : n \in 0 .. Len(t) /\ n # 0
    OBVIOUS
  <1> QED  BY <1>2, <1>3, <1>4

\* One token on, in each mode.
Holds(cs, m) == [cells |-> cs, mode |-> m]

SplitBy(t, up) ==
  /\ SplitDelimited(t) = up[Len(t)].cells
  /\ up[0] = Holds(<<<<>>>>, "plain")
  /\ \A n \in 1 .. Len(t) : up[n] = Scan(up[n - 1], t, n)

LEMMA SplitHolds == ASSUME NEW t, Len(t) \in Nat PROVE \E up : SplitBy(t, up)
  BY SplitScans DEF SplitBy, Holds

LEMMA ScanStep ==
  ASSUME NEW t, NEW i, NEW cs
  PROVE  /\ Scan(Holds(cs, "second"), t, i) = Holds(cs, "quoted")
         /\ t[i] = "quote" /\ i < Len(t) /\ t[i + 1] = "quote" =>
              Scan(Holds(cs, "quoted"), t, i) = Holds(ToLast(cs, t[i]), "second")
         /\ t[i] = "quote" /\ ~ (i < Len(t) /\ t[i + 1] = "quote") =>
              Scan(Holds(cs, "quoted"), t, i) = Holds(cs, "plain")
         /\ t[i] # "quote" =>
              Scan(Holds(cs, "quoted"), t, i) = Holds(ToLast(cs, t[i]), "quoted")
         /\ t[i] = "quote" => Scan(Holds(cs, "plain"), t, i) = Holds(cs, "quoted")
         /\ t[i] = "delim" => Scan(Holds(cs, "plain"), t, i) = Holds(Append(cs, <<>>), "plain")
         /\ t[i] \notin {"quote", "delim"} =>
              Scan(Holds(cs, "plain"), t, i) = Holds(ToLast(cs, t[i]), "plain")
  <1>1. \A m : Holds(cs, m).cells = cs /\ Holds(cs, m).mode = m
    BY DEF Holds
  <1> QED  BY <1>1 DEF Scan, Holds

\* The next token of a cell.
LEMMA NextMark ==
  ASSUME NEW pre \in Seq(Seq(Marks)), NEW x \in Marks, NEW c \in Seq(Marks), NEW d, d = Append(c, x)
  PROVE  ToLast(Append(pre, c), x) = Append(pre, d)
  <1> DEFINE u == Append(pre, c)
             v == Append(pre, d)
             S == Seq(Marks)
  <1>0. d \in S /\ c \in S
    OBVIOUS
  <1>00. pre \in Seq(S)
    OBVIOUS
  <1> HIDE DEF S
  <1>1. /\ u \in Seq(S) /\ Len(u) = Len(pre) + 1 /\ u[Len(u)] = c /\ Len(pre) \in Nat
        /\ \A i \in 1 .. Len(pre) : u[i] = pre[i]
    BY <1>0, <1>00
  <1>2. /\ v \in Seq(S) /\ Len(v) = Len(pre) + 1 /\ v[Len(pre) + 1] = d
        /\ \A i \in 1 .. Len(pre) : v[i] = pre[i]
    BY <1>0, <1>00
  <1>3. ToLast(u, x) = [u EXCEPT ![Len(u)] = Append(u[Len(u)], x)]
    BY DEF ToLast
  <1> HIDE DEF u, v
  <1> DEFINE w == [u EXCEPT ![Len(u)] = d]
  <1>4. w \in Seq(S) /\ Len(w) = Len(u) /\ \A i \in 1 .. Len(u) : w[i] = IF i = Len(u) THEN d ELSE u[i]
    <2>1. Len(u) \in 1 .. Len(u)
      BY <1>1
    <2> QED  BY <1>0, <1>1, <2>1, ExceptSeq
  <1>5. ToLast(u, x) = w
    BY <1>1, <1>3
  <1> HIDE DEF w
  <1>6. \A i \in 1 .. Len(w) : w[i] = v[i]
    <2> TAKE i \in 1 .. Len(w)
    <2>1. CASE i = Len(u)
      BY <1>1, <1>2, <1>4, <2>1
    <2>2. CASE i # Len(u)
      <3>1. i \in 1 .. Len(pre) /\ i \in 1 .. Len(u)
        BY <1>1, <1>4, <2>2
      <3> QED  BY <1>1, <1>2, <1>4, <2>2, <3>1
    <2> QED  BY <2>1, <2>2
  <1>7. w = v
    BY <1>1, <1>2, <1>4, <1>6, SeqEqual
  <1> QED  BY <1>5, <1>7 DEF u, v

LEMMA FirstMark ==
  ASSUME NEW pre \in Seq(Seq(Marks)), NEW x \in Marks
  PROVE  ToLast(Append(pre, <<>>), x) = Append(pre, <<x>>)
  <1> DEFINE c == <<>>
             d == <<x>>
  <1>1. c \in Seq(Marks) /\ d = Append(c, x)
    OBVIOUS
  <1> HIDE DEF c, d
  <1>2. ToLast(Append(pre, c), x) = Append(pre, d)
    BY <1>1, NextMark
  <1> QED  BY <1>2 DEF c, d

LEMMA ScanDoubled ==
  ASSUME NEW t, NEW i, NEW cs, t[i] = "quote", i < Len(t), t[i + 1] = "quote"
  PROVE  Scan(Holds(cs, "quoted"), t, i) = Holds(ToLast(cs, t[i]), "second")
  <1>1. Holds(cs, "quoted").cells = cs /\ Holds(cs, "quoted").mode = "quoted"
    BY DEF Holds
  <1> QED  BY <1>1 DEF Scan, Holds

\* A written cell is read back whole, whatever stands before it.
CellAt(up, t, c, e, k, pre) ==
  /\ t \in Seq(Marks) /\ c \in ShortCells /\ e \in Seq(Marks) /\ k \in Nat
  /\ pre \in Seq(Seq(Marks))
  /\ \A n \in 1 .. Len(t) : up[n] = Scan(up[n - 1], t, n)
  /\ Plainly(c, e) \/ Quoted(c, e)
  /\ k + Len(e) <= Len(t) /\ \A j \in 1 .. Len(e) : t[k + j] = e[j]
  /\ k + Len(e) = Len(t) \/ t[k + Len(e) + 1] = "delim"
  /\ up[k] = Holds(Append(pre, <<>>), "plain")

LEMMA FirstOfTwo == \A n \in {1, 2} : 1 \in 1 .. n
  OBVIOUS

LEMMA ScanCell ==
  ASSUME NEW up, NEW t, NEW c, NEW e, NEW k, NEW pre, CellAt(up, t, c, e, k, pre)
  PROVE  up[k + Len(e)] = Holds(Append(pre, c), "plain")
  <1> SUFFICES ASSUME t \in Seq(Marks), c \in ShortCells, e \in Seq(Marks), k \in Nat,
                      pre \in Seq(Seq(Marks)),
                      \A n \in 1 .. Len(t) : up[n] = Scan(up[n - 1], t, n),
                      Plainly(c, e) \/ Quoted(c, e),
                      k + Len(e) <= Len(t), \A j \in 1 .. Len(e) : t[k + j] = e[j],
                      k + Len(e) = Len(t) \/ t[k + Len(e) + 1] = "delim",
                      up[k] = Holds(Append(pre, <<>>), "plain")
               PROVE  up[k + Len(e)] = Holds(Append(pre, c), "plain")
    BY Zenon DEF CellAt
  <1>0. Len(t) \in Nat /\ Len(e) \in Nat
    OBVIOUS
  <1>1. \A n \in 0 .. Len(t) - 1 : up[n + 1] = Scan(up[n], t, n + 1)
    <2> TAKE n \in 0 .. Len(t) - 1
    <2>1. n + 1 \in 1 .. Len(t) /\ (n + 1) - 1 = n
      BY <1>0
    <2> QED  BY <2>1
  <1>2. \A x \in Marks : ToLast(Append(pre, <<>>), x) = Append(pre, <<x>>)
    BY FirstMark
  <1>3. "quote" \in Marks /\ "delim" \in Marks /\ \A x \in PlainMarks : x \in Marks \ {"quote", "delim"}
    BY DEF Marks, PlainMarks
  <1>4. \A cs : \A n \in 0 .. Len(t) - 1 :
          t[n + 1] \in PlainMarks /\ up[n] = Holds(cs, "plain") =>
            up[n + 1] = Holds(ToLast(cs, t[n + 1]), "plain")
    BY <1>1, <1>3, ScanStep
  <1>5. CASE Plainly(c, e)
    <2>0. e = c /\ Len(c) <= 2 /\ \A j \in 1 .. Len(c) : c[j] \in PlainMarks
      BY <1>5, Zenon DEF Plainly
    <2>1. e = c /\ Len(c) \in {0, 1, 2} /\ \A j \in 1 .. Len(c) : t[k + j] = c[j] /\ c[j] \in PlainMarks
      <3>1. Len(c) = Len(e) /\ Len(c) \in {0, 1, 2}
        <4>1. Len(c) = Len(e) /\ Len(c) \in Nat /\ Len(c) <= 2
          BY <1>0, <2>0, Zenon
        <4> QED  BY <4>1
      <3> QED  BY <2>0, <3>1, Zenon
    <2>2. CASE Len(c) = 0
      <3>1. c = <<>> /\ k + Len(e) = k
        BY <2>1, <2>2
      <3> QED  BY <3>1
    <2>3. CASE Len(c) \in {1, 2}
      <3> DEFINE d == <<c[1]>>
      <3>1. k \in 0 .. Len(t) - 1 /\ t[k + 1] = c[1] /\ c[1] \in PlainMarks /\ c[1] \in Marks
        <4>1. k + Len(c) <= Len(t) /\ 1 \in 1 .. Len(c)
          <5>1. k + Len(c) <= Len(t)
            BY <2>1, Zenon
          <5>2. 1 \in 1 .. Len(c)
            BY <2>3, FirstOfTwo, Zenon
          <5> QED  BY <5>1, <5>2
        <4>2. k \in 0 .. Len(t) - 1
          BY <1>0, <2>3, <4>1
        <4> QED  BY <1>3, <2>1, <4>1, <4>2
      <3>2. up[k + 1] = Holds(ToLast(Append(pre, <<>>), t[k + 1]), "plain")
        BY <1>4, <3>1
      <3>3. up[k + 1] = Holds(Append(pre, d), "plain")
        BY <1>2, <3>1, <3>2
      <3>4. CASE Len(c) = 1
        <4>1. c = d
          BY <2>1, <3>4
        <4> QED  BY <2>1, <3>3, <3>4, <4>1
      <3>5. CASE Len(c) = 2
        <4>1. /\ k + 1 \in 0 .. Len(t) - 1 /\ (k + 1) + 1 = k + 2 /\ t[k + 2] = c[2]
              /\ c[2] \in PlainMarks /\ c[2] \in Marks
          BY <1>0, <1>3, <2>1, <3>5
        <4>2. d \in Seq(Marks) /\ c = Append(d, c[2])
          BY <2>1, <3>1, <3>5
        <4> HIDE DEF d
        <4>3. up[k + 2] = Holds(ToLast(Append(pre, d), c[2]), "plain")
          BY <1>4, <3>3, <4>1
        <4>4. ToLast(Append(pre, d), c[2]) = Append(pre, c)
          BY <4>1, <4>2, NextMark
        <4> QED  BY <2>1, <3>5, <4>3, <4>4
      <3> QED  BY <2>3, <3>4, <3>5
    <2> QED  BY <2>1, <2>2, <2>3
  <1>6. CASE c = <<"quote">> /\ Len(e) = 4 /\ \A i \in 1 .. 4 : e[i] = "quote"
    <2>1. t[k + 1] = "quote" /\ t[k + 2] = "quote" /\ t[k + 3] = "quote" /\ t[k + 4] = "quote"
      <3>1. 1 \in 1 .. 4 /\ 2 \in 1 .. 4 /\ 3 \in 1 .. 4 /\ 4 \in 1 .. 4
        OBVIOUS
      <3> QED  BY <1>6, <3>1
    <2>2. /\ up[k + 1] = Scan(up[k], t, k + 1) /\ up[k + 2] = Scan(up[k + 1], t, k + 2)
          /\ up[k + 3] = Scan(up[k + 2], t, k + 3) /\ up[k + 4] = Scan(up[k + 3], t, k + 4)
      <3>1. k + 4 <= Len(t)
        BY <1>6
      <3>2. k \in 0 .. Len(t) - 1 /\ k + 1 \in 0 .. Len(t) - 1 /\ k + 2 \in 0 .. Len(t) - 1
            /\ k + 3 \in 0 .. Len(t) - 1
        BY <1>0, <3>1
      <3>3. (k + 1) + 1 = k + 2 /\ (k + 2) + 1 = k + 3 /\ (k + 3) + 1 = k + 4
        OBVIOUS
      <3>4. up[(k + 1) + 1] = Scan(up[k + 1], t, (k + 1) + 1)
        BY <1>1, <3>2
      <3>5. up[(k + 2) + 1] = Scan(up[k + 2], t, (k + 2) + 1)
        BY <1>1, <3>2
      <3>6. up[(k + 3) + 1] = Scan(up[k + 3], t, (k + 3) + 1)
        BY <1>1, <3>2
      <3>7. up[k + 1] = Scan(up[k], t, k + 1)
        BY <1>1, <3>2
      <3> QED  BY <3>3, <3>4, <3>5, <3>6, <3>7
    <2>3. up[k + 1] = Holds(Append(pre, <<>>), "quoted")
      BY <2>1, <2>2, ScanStep
    <2>4. up[k + 2] = Holds(Append(pre, c), "second")
      <3>1. k + 2 < Len(t) /\ (k + 2) + 1 = k + 3
        BY <1>0, <1>6
      <3>2. t[(k + 2) + 1] = "quote"
        BY <2>1, <3>1
      <3>3. up[k + 2] = Holds(ToLast(Append(pre, <<>>), t[k + 2]), "second")
        <4>1. Scan(Holds(Append(pre, <<>>), "quoted"), t, k + 2)
                = Holds(ToLast(Append(pre, <<>>), t[k + 2]), "second")
          <5>1. PICK i \in Nat : i = k + 2
            OBVIOUS
          <5>2. t[i] = "quote" /\ i < Len(t) /\ t[i + 1] = "quote"
            BY <2>1, <3>1, <3>2, <5>1
          <5>3. Scan(Holds(Append(pre, <<>>), "quoted"), t, i)
                  = Holds(ToLast(Append(pre, <<>>), t[i]), "second")
            BY <5>2, ScanDoubled, Zenon
          <5> QED  BY <5>1, <5>3
        <4> QED  BY <2>2, <2>3, <4>1
      <3> QED  BY <1>2, <1>3, <1>6, <2>1, <3>3
    <2>5. up[k + 3] = Holds(Append(pre, c), "quoted")
      BY <2>2, <2>4, ScanStep
    <2>6. up[k + 4] = Holds(Append(pre, c), "plain")
      <3>1. ~ (k + 4 < Len(t) /\ t[(k + 4) + 1] = "quote")
        <4>1. k + 4 = Len(t) \/ t[k + 4 + 1] = "delim"
          BY <1>6
        <4> QED  BY <1>0, <4>1
      <3> QED  BY <2>1, <2>2, <2>5, <3>1, ScanStep
    <2> QED  BY <1>6, <2>6
  <1>7. ASSUME NEW x \in {"delim"}, c = <<x>>, e[2] = x,
               Len(e) = 3, e[1] = "quote", e[3] = "quote"
        PROVE  up[k + Len(e)] = Holds(Append(pre, c), "plain")
    <2>1. t[k + 1] = "quote" /\ t[k + 2] = x /\ t[k + 3] = "quote" /\ x # "quote" /\ x \in Marks
      <3>1. 1 \in 1 .. 3 /\ 2 \in 1 .. 3 /\ 3 \in 1 .. 3
        OBVIOUS
      <3> QED  BY <1>3, <1>7, <3>1
    <2>2. /\ up[k + 1] = Scan(up[k], t, k + 1) /\ up[k + 2] = Scan(up[k + 1], t, k + 2)
          /\ up[k + 3] = Scan(up[k + 2], t, k + 3)
      <3>1. k + 3 <= Len(t)
        BY <1>7
      <3>2. k \in 0 .. Len(t) - 1 /\ k + 1 \in 0 .. Len(t) - 1 /\ k + 2 \in 0 .. Len(t) - 1
        BY <1>0, <3>1
      <3>3. (k + 1) + 1 = k + 2 /\ (k + 2) + 1 = k + 3
        OBVIOUS
      <3>4. up[(k + 1) + 1] = Scan(up[k + 1], t, (k + 1) + 1)
        BY <1>1, <3>2
      <3>5. up[(k + 2) + 1] = Scan(up[k + 2], t, (k + 2) + 1)
        BY <1>1, <3>2
      <3>6. up[k + 1] = Scan(up[k], t, k + 1)
        BY <1>1, <3>2
      <3> QED  BY <3>3, <3>4, <3>5, <3>6
    <2>3. up[k + 1] = Holds(Append(pre, <<>>), "quoted")
      BY <2>1, <2>2, ScanStep
    <2>4. up[k + 2] = Holds(Append(pre, c), "quoted")
      <3>1. up[k + 2] = Holds(ToLast(Append(pre, <<>>), t[k + 2]), "quoted")
        <4>1. t[k + 2] # "quote"
          BY <2>1
        <4>2. Scan(Holds(Append(pre, <<>>), "quoted"), t, k + 2)
                = Holds(ToLast(Append(pre, <<>>), t[k + 2]), "quoted")
          BY <4>1, ScanStep
        <4> QED  BY <2>2, <2>3, <4>2
      <3> QED  BY <1>2, <1>7, <2>1, <3>1
    <2>5. up[k + 3] = Holds(Append(pre, c), "plain")
      <3>1. ~ (k + 3 < Len(t) /\ t[(k + 3) + 1] = "quote")
        <4>1. k + 3 = Len(t) \/ t[k + 3 + 1] = "delim"
          BY <1>7
        <4> QED  BY <1>0, <4>1
      <3> QED  BY <2>1, <2>2, <2>4, <3>1, ScanStep
    <2> QED  BY <1>7, <2>5
  <1> QED  BY <1>5, <1>6, <1>7 DEF Quoted

\* The tokens of a row of two cells, one by one.
LEMMA RowTokens ==
  ASSUME NEW c \in ShortCells, NEW d \in ShortCells
  PROVE  \E t, e, f \in Seq(Marks) :
           /\ t = Tokens(<<c, d>>) /\ e = Encoded(c) /\ f = Encoded(d)
           /\ Len(t) = Len(e) + 1 + Len(f)
           /\ \A j \in 1 .. Len(e) : t[j] = e[j]
           /\ t[Len(e) + 1] = "delim"
           /\ \A j \in 1 .. Len(f) : t[Len(e) + 1 + j] = f[j]
  <1> DEFINE e == Encoded(c)
             f == Encoded(d)
             g == <<"delim">> \o f
             t == e \o g
             b == <<"delim">>
  <1>1. t = Tokens(<<c, d>>)
    BY TokensOfTwo
  <1>2. e \in Seq(Marks) /\ f \in Seq(Marks)
    BY EncodedForms
  <1>3. b \in Seq(Marks) /\ Len(b) = 1 /\ b[1] = "delim"
    <2>1. "delim" \in Marks
      BY DEF Marks
    <2> QED  BY <2>1
  <1>4. g = b \o f
    OBVIOUS
  <1>5. t = e \o g
    OBVIOUS
  <1> HIDE DEF t, g, b
  <1>6. /\ g \in Seq(Marks) /\ Len(g) = 1 + Len(f)
        /\ \A i \in 1 .. 1 + Len(f) : g[i] = IF i <= 1 THEN b[i] ELSE f[i - 1]
    BY <1>2, <1>3, <1>4, ConcatProperties
  <1>7. /\ t \in Seq(Marks) /\ Len(t) = Len(e) + Len(g)
        /\ \A i \in 1 .. Len(e) + Len(g) : t[i] = IF i <= Len(e) THEN e[i] ELSE g[i - Len(e)]
    BY <1>2, <1>5, <1>6, ConcatProperties
  <1>8. e = Encoded(c) /\ f = Encoded(d)
    OBVIOUS
  <1> HIDE DEF e, f
  <1>9. Len(e) \in Nat /\ Len(f) \in Nat
    BY <1>2
  <1>10. \A j \in 1 .. Len(e) : t[j] = e[j]
    BY <1>6, <1>7, <1>9
  <1>11. \A i \in 1 .. Len(g) : t[Len(e) + i] = g[i]
    <2> TAKE i \in 1 .. Len(g)
    <2>1. Len(e) + i \in 1 .. Len(e) + Len(g) /\ ~ (Len(e) + i <= Len(e)) /\ (Len(e) + i) - Len(e) = i
      BY <1>6, <1>9
    <2> QED  BY <1>7, <2>1
  <1>12. t[Len(e) + 1] = "delim"
    <2>1. 1 \in 1 .. Len(g) /\ g[1] = "delim"
      BY <1>3, <1>6, <1>9
    <2> QED  BY <1>11, <2>1
  <1>13. \A j \in 1 .. Len(f) : t[Len(e) + 1 + j] = f[j]
    <2> TAKE j \in 1 .. Len(f)
    <2>1. 1 + j \in 1 .. Len(g) /\ ~ (1 + j <= 1) /\ (1 + j) - 1 = j /\ Len(e) + (1 + j) = Len(e) + 1 + j
      BY <1>6, <1>9
    <2>2. t[Len(e) + (1 + j)] = g[1 + j] /\ g[1 + j] = f[j]
      BY <1>6, <1>11, <2>1
    <2> QED  BY <2>1, <2>2
  <1>14. Len(t) = Len(e) + 1 + Len(f)
    BY <1>6, <1>7, <1>9
  <1> QED  BY <1>1, <1>2, <1>7, <1>8, <1>10, <1>12, <1>13, <1>14

LEMMA PairIs ==
  ASSUME NEW c, NEW d
  PROVE  Append(<<>>, c) = <<c>> /\ Append(<<c>>, d) = <<c, d>>
  <1> DEFINE S == {c, d}
             u == Append(<<c>>, d)
             v == <<c, d>>
  <1>1. c \in S /\ d \in S /\ <<c>> \in Seq(S)
    OBVIOUS
  <1>2. u \in Seq(S) /\ Len(u) = 2 /\ u[1] = c /\ u[2] = d
    BY <1>1
  <1>3. v \in Seq(S) /\ Len(v) = 2 /\ v[1] = c /\ v[2] = d
    BY <1>1
  <1> HIDE DEF u, v, S
  <1>4. \A i \in 1 .. Len(u) : u[i] = v[i]
    BY <1>2, <1>3
  <1>5. u = v
    BY <1>2, <1>3, <1>4, SeqEqual
  <1> QED  BY <1>5 DEF u, v

\* A written cell starts and ends as the cell does, or in a quote.
LEMMA FirstPlain ==
  ASSUME NEW c \in ShortCells, NEW e, Plainly(c, e) \/ Quoted(c, e), c # <<>>, c[1] # "space"
  PROVE  Len(e) >= 1 /\ e[1] \notin {"delim", "space"}
  <1>1. c \in Seq(Marks) /\ Len(c) >= 1 /\ 1 \in 1 .. Len(c)
    BY CellTokens
  <1>2. CASE Plainly(c, e)
    <2>1. e = c /\ c[1] \in PlainMarks
      BY <1>1, <1>2 DEF Plainly
    <2> QED  BY <1>1, <2>1 DEF PlainMarks
  <1>3. CASE Quoted(c, e)
    <2>1. 1 \in 1 .. 4
      OBVIOUS
    <2> QED  BY <1>3, <2>1 DEF Quoted
  <1> QED  BY <1>2, <1>3

LEMMA LastPlain ==
  ASSUME NEW c \in ShortCells, NEW e, Plainly(c, e) \/ Quoted(c, e), c # <<>>, c[Len(c)] # "space"
  PROVE  Len(e) >= 1 /\ e[Len(e)] \notin {"delim", "space"}
  <1>1. c \in Seq(Marks) /\ Len(c) >= 1 /\ Len(c) \in 1 .. Len(c)
    BY CellTokens
  <1>2. CASE Plainly(c, e)
    <2>1. e = c /\ c[Len(c)] \in PlainMarks
      BY <1>1, <1>2 DEF Plainly
    <2> QED  BY <1>1, <2>1 DEF PlainMarks
  <1>3. CASE Quoted(c, e)
    <2>1. 4 \in 1 .. 4
      OBVIOUS
    <2> QED  BY <1>3, <2>1 DEF Quoted
  <1> QED  BY <1>2, <1>3

\* A row of two such cells is one line, keeps its ends and is read as it was meant.
LEMMA RowRead ==
  ASSUME NEW c \in ShortCells, NEW d \in ShortCells, NEW t, t = Tokens(<<c, d>>),
         Tab => c # <<>> /\ d # <<>>,
         c # <<>> => c[1] # "space", d # <<>> => d[Len(d)] # "space"
  PROVE  /\ Broken(t) = <<t>> /\ t # <<>>
         /\ Trimmed(t) = t
         /\ SplitDelimited(t) = <<c, d>>
  <1>1. PICK e \in Seq(Marks), f \in Seq(Marks) :
          /\ t \in Seq(Marks) /\ e = Encoded(c) /\ f = Encoded(d)
          /\ Len(t) = Len(e) + 1 + Len(f)
          /\ \A j \in 1 .. Len(e) : t[j] = e[j]
          /\ t[Len(e) + 1] = "delim"
          /\ \A j \in 1 .. Len(f) : t[Len(e) + 1 + j] = f[j]
    BY RowTokens
  <1>2. (Plainly(c, e) \/ Quoted(c, e)) /\ (Plainly(d, f) \/ Quoted(d, f))
    BY <1>1, EncodedForms
  <1>3. Len(e) \in Nat /\ Len(f) \in Nat /\ Len(t) \in Nat /\ t # <<>>
    BY <1>1
  <1>4. Broken(t) = <<t>>
    <2>1. \A i \in 1 .. Len(t) : t[i] # "break"
      <3>1. \A i \in 1 .. Len(t) : t[i] \in Marks
        BY <1>1
      <3> QED  BY <3>1 DEF Marks
    <2> QED  BY <1>1, <2>1, UnbrokenIsOne
  <1>5. c # <<>> => Len(e) >= 1 /\ e[1] \notin {"delim", "space"}
    BY <1>2, FirstPlain
  <1>6. d # <<>> => Len(f) >= 1 /\ f[Len(f)] \notin {"delim", "space"}
    BY <1>2, LastPlain
  <1>7. Trimmed(t) = t
    <2>1. t[1] # "space" /\ (c # <<>> => t[1] # "delim")
      <3>1. CASE c # <<>>
        <4>1. 1 \in 1 .. Len(e)
          BY <1>3, <1>5, <3>1
        <4> QED  BY <1>1, <1>5, <3>1, <4>1
      <3>2. CASE c = <<>>
        <4>1. Len(e) = 0
          BY <1>2, <3>2 DEF Plainly, Quoted
        <4> QED  BY <1>1, <3>2, <4>1
      <3> QED  BY <3>1, <3>2
    <2>2. t[Len(t)] # "space" /\ (d # <<>> => t[Len(t)] # "delim")
      <3>1. CASE d # <<>>
        <4>1. Len(f) \in 1 .. Len(f)
          BY <1>3, <1>6, <3>1
        <4>2. t[Len(e) + 1 + Len(f)] = f[Len(f)]
          BY <1>1, <4>1
        <4> QED  BY <1>1, <1>6, <3>1, <4>2
      <3>2. CASE d = <<>>
        <4>1. Len(f) = 0
          BY <1>2, <3>2 DEF Plainly, Quoted
        <4>2. Len(t) = Len(e) + 1
          BY <1>1, <1>3, <4>1
        <4> QED  BY <1>1, <3>2, <4>2
      <3> QED  BY <3>1, <3>2
    <2> QED  BY <1>1, <1>3, <2>1, <2>2, TrimmedWhole
  <1>8. SplitDelimited(t) = <<c, d>>
    <2>0. PICK up : SplitBy(t, up)
      BY <1>3, SplitHolds, Zenon
    <2>1. /\ SplitDelimited(t) = up[Len(t)].cells
          /\ up[0] = Holds(<<<<>>>>, "plain")
          /\ \A n \in 1 .. Len(t) : up[n] = Scan(up[n - 1], t, n)
      BY <2>0, Zenon DEF SplitBy
    <2>2. <<>> \in Seq(Marks) /\ c \in Seq(Marks) /\ d \in Seq(Marks)
      BY CellTokens, EmptySeq
    <2>3. /\ <<>> \in Seq(Seq(Marks)) /\ <<c>> \in Seq(Seq(Marks)) /\ Append(<<>>, <<>>) = <<<<>>>>
          /\ Append(<<>>, c) = <<c>> /\ Append(<<c>>, d) = <<c, d>>
      <3> DEFINE S == Seq(Marks)
                 o == <<>>
      <3>1. c \in S /\ d \in S /\ o \in S
        BY <2>2
      <3> HIDE DEF S, o
      <3>2. <<>> \in Seq(S) /\ <<c>> \in Seq(S) /\ Append(<<>>, o) = <<o>>
        BY <3>1
      <3>3. Append(<<>>, c) = <<c>> /\ Append(<<c>>, d) = <<c, d>>
        BY PairIs
      <3> QED  BY <3>2, <3>3 DEF S, o
    <2>4. up[Len(e)] = Holds(<<c>>, "plain")
      <3>1. up[0] = Holds(Append(<<>>, <<>>), "plain")
        BY <2>1, <2>3
      <3>2. 0 + Len(e) <= Len(t) /\ t[0 + Len(e) + 1] = "delim" /\ \A j \in 1 .. Len(e) : t[0 + j] = e[j]
        <4>1. 0 + Len(e) = Len(e) /\ \A j \in 1 .. Len(e) : 0 + j = j
          BY <1>3
        <4>2. Len(e) <= Len(t)
          BY <1>1, <1>3
        <4> QED  BY <1>1, <4>1, <4>2
      <3> DEFINE k == 0
                 pre == <<>>
      <3>3. k \in Nat /\ pre \in Seq(Seq(Marks)) /\ up[k] = Holds(Append(pre, <<>>), "plain")
        BY <2>3, <3>1
      <3>4. k + Len(e) <= Len(t) /\ t[k + Len(e) + 1] = "delim" /\ \A j \in 1 .. Len(e) : t[k + j] = e[j]
        BY <3>2
      <3> HIDE DEF k, pre
      <3>5. CellAt(up, t, c, e, k, pre)
        BY <1>1, <1>2, <2>1, <3>3, <3>4, Zenon DEF CellAt
      <3>7. up[k + Len(e)] = Holds(Append(pre, c), "plain")
        BY <3>5, ScanCell
      <3>6. k + Len(e) = Len(e) /\ Append(pre, c) = <<c>>
        BY <1>3, <2>3 DEF k, pre
      <3> QED  BY <3>6, <3>7
    <2>5. up[Len(e) + 1] = Holds(Append(<<c>>, <<>>), "plain")
      <3>1. Len(e) + 1 \in 1 .. Len(t) /\ (Len(e) + 1) - 1 = Len(e)
        BY <1>1, <1>3
      <3>2. up[Len(e) + 1] = Scan(up[Len(e)], t, Len(e) + 1)
        BY <2>1, <3>1
      <3> QED  BY <1>1, <2>4, <3>2, ScanStep
    <2>6. up[Len(e) + 1 + Len(f)] = Holds(Append(<<c>>, d), "plain")
      <3> DEFINE k == Len(e) + 1
      <3>1. k \in Nat /\ k + Len(f) = Len(t) /\ k + Len(f) <= Len(t)
        BY <1>1, <1>3
      <3>2. \A j \in 1 .. Len(f) : t[k + j] = f[j]
        BY <1>1
      <3>3. up[k] = Holds(Append(<<c>>, <<>>), "plain")
        BY <2>5
      <3> DEFINE pre == <<c>>
      <3>4. pre \in Seq(Seq(Marks)) /\ up[k] = Holds(Append(pre, <<>>), "plain")
        BY <2>3, <3>3
      <3> HIDE DEF k, pre
      <3>6. CellAt(up, t, d, f, k, pre)
        BY <1>1, <1>2, <2>1, <3>1, <3>2, <3>4, Zenon DEF CellAt
      <3>5. up[k + Len(f)] = Holds(Append(pre, d), "plain")
        BY <3>6, ScanCell
      <3> QED  BY <3>5 DEF k, pre
    <2>7. up[Len(t)].cells = <<c, d>>
      <3>1. up[Len(t)] = Holds(<<c, d>>, "plain")
        BY <1>1, <2>3, <2>6
      <3> QED  BY <3>1 DEF Holds
    <2> QED  BY <2>1, <2>7
  <1> QED  BY <1>3, <1>4, <1>7, <1>8

-----------------------------------------------------------------------------
(* What the writer put in the object.                                      *)

\* An item becomes a record if it is a document, or a row that is not the header.
Yields(its, j) ==
  its[j].is = "doc" \/ (its[j].is = "row" /\ \E k \in 1 .. j - 1 : its[k].is = "row")

\* How many records the first i items are.
Due(its, i) == Cardinality({j \in 1 .. i : Yields(its, j)})

RecordOf(item) == IF item.is = "doc" THEN DocRecord(item.doc) ELSE RowRecord(item.cells)

Things ==
  {[is |-> k] : k \in {"blank", "spaces", "list"}} \cup {[is |-> "doc", doc |-> d] : d \in Docs}
    \cup {[is |-> "row", cells |-> c] : c \in Rows \cup {Header}}
Records(format) ==
  IF format = "csv" THEN {RowRecord(c) : c \in Rows \cup {Header}} ELSE {DocRecord(d) : d \in Docs}

\* What of an item can stand at place i of an object with this content.
Fits(its, i, format) ==
  /\ its[i].is \in {"blank", "spaces"} => format # "json_array"
  /\ its[i].is = "list" => format = "json_array" /\ i = 1
  /\ its[i].is = "doc" => format # "csv"
  /\ its[i].is = "doc" /\ its[i].doc = "bom" => i = 1 /\ format = "jsonl"
  /\ its[i].is = "row" => format = "csv"
  /\ its[i].is = "row" /\ ~ Yields(its, i) => its[i].cells = Header

Written ==
  /\ key \in Keys /\ override \in Formats \cup {"auto"} /\ runtime \in {"python", "node"}
  /\ content = Resolved(key, override)
  /\ items \in Seq(Things) /\ meant \in Seq(Records(content))
  /\ \A i \in 1 .. Len(items) : Fits(items, i, content)

\* The history variable has the records of the items, one by one.
Ledger ==
  /\ Len(meant) = Due(items, Len(items))
  /\ \A i \in 1 .. Len(items) : Yields(items, i) => meant[Due(items, i)] = RecordOf(items[i])

-----------------------------------------------------------------------------
(* What a reader has of it.                                                *)

Accepts == IF runtime = "python" THEN PythonAccepts ELSE NodeAccepts

\* The records of the items consumed, each as it was meant.
Faithful ==
  /\ pos \in 0 .. Len(items)
  /\ out \in Seq({Meant(n) : n \in 1 .. Len(meant)}) /\ Len(out) = Due(items, pos)
  /\ \A n \in 1 .. Len(out) : out[n] = Meant(n)

\* The header is read with the first row, and is what the writer put there.
HeaderRead ==
  content = "csv" =>
    /\ headed \in BOOLEAN
    /\ headed <=> \E j \in 1 .. pos : items[j].is = "row"
    /\ headed => header = Header

\* No document was taken that the library would not parse, and a list is open
\* before its elements are yielded.
OnlyGood ==
  /\ content = "jsonl" => \A j \in 1 .. pos : items[j].is = "doc" => items[j].doc \in Accepts
  /\ content = "json_array" /\ (phase = "emit" \/ outcome = "done") =>
       /\ Size <= MaxJson /\ (IsList \/ Len(items) = 1)
       /\ \A j \in 1 .. Len(items) : items[j].is = "doc" => items[j].doc \in Accepts
  /\ phase = "emit" => content = "json_array" /\ (IsList => pos >= 1)
  /\ phase = "read" /\ content = "json_array" => pos = 0

\* What a result says of the failure that was met.
Told(result, what) ==
  /\ result = "permanent" =>
       \/ what \in Lasting
       \/ runtime = "node" /\ what \in {"noAnswer", "truncated"}
       \/ what = "none" /\ Hopeless
  /\ runtime = "node" /\ what \in {"noAnswer", "truncated"} => result = "permanent"
  /\ result = "retryable" => what \in {"transient", "reset", "truncated"}
  /\ result = "unclassified" => runtime = "python" /\ what \in {"noAnswer", "reset", "corrupt"}

\* How a read ends, and what it met before.
Ending ==
  /\ phase # "end" => outcome = "none"
  /\ phase \in {"write", "read", "emit"} => fault = "none"
  /\ phase = "stalled" => fault = "reset"
  /\ outcome = "done" => pos = Len(items) /\ fault = "none" /\ (content = "csv" => headed)
  /\ Told(outcome, fault)

Tracks == Faithful /\ HeaderRead /\ OnlyGood /\ Ending

Fresh == pos = 0 /\ out = <<>> /\ header = <<>> /\ headed = FALSE /\ outcome = "none" /\ fault = "none"

ReaderInv ==
  /\ Written /\ Ledger
  /\ phase \in {"write", "read", "emit", "stalled", "end"}
  /\ phase = "write" => Fresh
  /\ Regular => Tracks

\* Every item is of one of four kinds.
LEMMA ThingKinds ==
  ASSUME NEW x \in Things
  PROVE  \/ x.is \in {"blank", "spaces", "list"}
         \/ x.is = "doc" /\ x.doc \in Docs
         \/ x.is = "row" /\ x.cells \in Rows \cup {Header}
  BY DEF Things

\* Counting records: from none, ...
LEMMA DueZero == ASSUME NEW its PROVE Due(its, 0) = 0
  <1>1. {j \in 1 .. 0 : Yields(its, j)} = {}
    OBVIOUS
  <1> QED  BY <1>1, FS_EmptySet, Zenon DEF Due

LEMMA DueNat ==
  ASSUME NEW its, NEW i \in Nat
  PROVE  IsFiniteSet({j \in 1 .. i : Yields(its, j)}) /\ Due(its, i) \in Nat
  <1>1. IsFiniteSet(1 .. i)
    BY FS_Interval
  <1>2. IsFiniteSet({j \in 1 .. i : Yields(its, j)})
    BY <1>1, FS_Subset
  <1> QED  BY <1>2, FS_CardinalityType DEF Due

\* ... item by item, ...
LEMMA DueNext ==
  ASSUME NEW its, NEW i \in Nat
  PROVE  /\ Yields(its, i + 1) => Due(its, i + 1) = Due(its, i) + 1
         /\ ~ Yields(its, i + 1) => Due(its, i + 1) = Due(its, i)
  <1> DEFINE A == {j \in 1 .. i : Yields(its, j)}
             B == {j \in 1 .. i + 1 : Yields(its, j)}
  <1>1. Due(its, i) = Cardinality(A) /\ Due(its, i + 1) = Cardinality(B)
    BY DEF Due
  <1>2. Yields(its, i + 1) => B = A \cup {i + 1}
    OBVIOUS
  <1>3. ~ Yields(its, i + 1) => B = A
    <2>1. \A j \in 1 .. i + 1 : j \in 1 .. i \/ j = i + 1
      OBVIOUS
    <2>2. \A j \in 1 .. i : j \in 1 .. i + 1
      OBVIOUS
    <2> QED  BY <2>1, <2>2
  <1>4. i + 1 \notin A
    OBVIOUS
  <1>5. IsFiniteSet(A)
    BY DueNat
  <1> HIDE DEF A, B
  <1>6. Cardinality(A \cup {i + 1}) = Cardinality(A) + 1
    BY <1>4, <1>5, FS_AddElement
  <1> QED  BY <1>1, <1>2, <1>3, <1>6

\* ... and never down.
LEMMA DueMono ==
  ASSUME NEW its, NEW i \in Nat, NEW k \in Nat, i <= k
  PROVE  Due(its, i) <= Due(its, k)
  <1> DEFINE A == {j \in 1 .. i : Yields(its, j)}
             B == {j \in 1 .. k : Yields(its, j)}
  <1>1. A \subseteq B
    OBVIOUS
  <1>2. IsFiniteSet(B)
    BY DueNat
  <1>3. Due(its, i) = Cardinality(A) /\ Due(its, k) = Cardinality(B)
    BY DEF Due
  <1> HIDE DEF A, B
  <1>4. Cardinality(A) <= Cardinality(B)
    BY <1>1, <1>2, FS_Subset
  <1> QED  BY <1>3, <1>4

\* What the first items are does not change with one more.
LEMMA DueAppend ==
  ASSUME NEW S, NEW its \in Seq(S), NEW x \in S, NEW i \in 0 .. Len(its)
  PROVE  /\ Due(Append(its, x), i) = Due(its, i)
         /\ i # 0 => (Yields(Append(its, x), i) <=> Yields(its, i))
  <1> DEFINE more == Append(its, x)
  <1>1. Len(its) \in Nat /\ \A j \in 1 .. Len(its) : more[j] = its[j]
    OBVIOUS
  <1> HIDE DEF more
  <1>2. ASSUME NEW j \in 1 .. Len(its) PROVE Yields(more, j) <=> Yields(its, j)
    <2>1. \A k \in 1 .. j - 1 : k \in 1 .. Len(its)
      BY <1>1
    <2>2. more[j] = its[j] /\ \A k \in 1 .. j - 1 : more[k] = its[k]
      BY <1>1, <2>1
    <2> QED  BY <2>2 DEF Yields
  <1>3. \A j \in 1 .. i : j \in 1 .. Len(its)
    BY <1>1
  <1>4. {j \in 1 .. i : Yields(more, j)} = {j \in 1 .. i : Yields(its, j)}
    BY <1>2, <1>3
  <1>5. Due(more, i) = Due(its, i)
    BY <1>4 DEF Due
  <1>6. i # 0 => i \in 1 .. Len(its)
    BY <1>1
  <1>7. i # 0 => (Yields(more, i) <=> Yields(its, i))
    BY <1>2, <1>6
  <1> QED  BY <1>5, <1>7 DEF more

\* The writer puts one more item in, and notes its record if it has one.
Noted(its, rec, format) ==
  /\ its \in Seq(Things) /\ rec \in Seq(Records(format))
  /\ \A i \in 1 .. Len(its) : Fits(its, i, format)
  /\ Len(rec) = Due(its, Len(its))
  /\ \A i \in 1 .. Len(its) : Yields(its, i) => rec[Due(its, i)] = RecordOf(its[i])

LEMMA NotedPut ==
  ASSUME NEW format, NEW its, NEW rec, Noted(its, rec, format),
         NEW x \in Things, NEW more, more = Append(its, x), NEW new,
         NEW records, new = rec \o records,
         Yields(more, Len(its) + 1) => records = <<RecordOf(x)>> /\ RecordOf(x) \in Records(format),
         ~ Yields(more, Len(its) + 1) => records = <<>>,
         Fits(more, Len(its) + 1, format)
  PROVE  Noted(more, new, format)
  <1> DEFINE n == Len(its)
             R == Records(format)
  <1>0. its \in Seq(Things) /\ rec \in Seq(R) /\ n \in Nat
    BY DEF Noted
  <1>1. /\ more \in Seq(Things) /\ Len(more) = n + 1 /\ more[n + 1] = x
        /\ \A i \in 1 .. n : more[i] = its[i]
    BY <1>0
  <1>2. /\ \A i \in 1 .. n : Fits(its, i, format)
        /\ Len(rec) = Due(its, n)
        /\ \A i \in 1 .. n : Yields(its, i) => rec[Due(its, i)] = RecordOf(its[i])
    BY DEF Noted
  <1>3. \A i \in 0 .. n : Due(more, i) = Due(its, i) /\ (i # 0 => (Yields(more, i) <=> Yields(its, i)))
    BY <1>0, DueAppend
  <1>4. \A i \in 1 .. n : i \in 0 .. n /\ i # 0
    BY <1>0
  <1>5. \A i \in 1 .. n : Fits(more, i, format)
    <2> TAKE i \in 1 .. n
    <2>1. more[i] = its[i] /\ (Yields(more, i) <=> Yields(its, i))
      BY <1>1, <1>3, <1>4
    <2>2. Fits(its, i, format)
      BY <1>2
    <2> QED  BY <2>1, <2>2 DEF Fits
  <1>6. \A i \in 1 .. n + 1 : i \in 1 .. n \/ i = n + 1
    BY <1>0
  <1> HIDE DEF n, R
  <1>7. \A i \in 1 .. n + 1 : Fits(more, i, format)
    BY <1>5, <1>6 DEF n
  <1>8. Due(more, n) = Due(its, n)
    <2>1. n \in 0 .. n
      BY <1>0
    <2> QED  BY <1>3, <2>1
  <1>9. \A i \in 1 .. n : Due(its, i) \in Nat /\ Due(its, i) <= Len(rec)
    <2> TAKE i \in 1 .. n
    <2>1. i \in Nat /\ i <= n
      BY <1>0
    <2> QED  BY <1>0, <1>2, <2>1, DueMono, DueNat
  <1>10. \A i \in 1 .. n : Yields(its, i) => Due(its, i) \in 1 .. Len(rec)
    <2> TAKE i \in 1 .. n
    <2>1. i - 1 \in Nat /\ (i - 1) + 1 = i
      BY <1>0
    <2>2. Yields(its, i) => Due(its, i) = Due(its, i - 1) + 1
      BY <2>1, DueNext
    <2>3. Due(its, i - 1) \in Nat
      BY <2>1, DueNat
    <2> QED  BY <1>9, <2>2, <2>3
  <1>11. CASE Yields(more, n + 1)
    <2> DEFINE y == RecordOf(x)
    <2>1. records = <<y>> /\ y \in R
      BY <1>11 DEF n, R
    <2> HIDE DEF y
    <2>2. /\ new \in Seq(R) /\ Len(new) = Len(rec) + 1 /\ new[Len(rec) + 1] = y
          /\ \A i \in 1 .. Len(rec) : new[i] = rec[i]
      BY <1>0, <2>1
    <2>3. Due(more, n + 1) = Len(rec) + 1
      BY <1>0, <1>2, <1>8, <1>11, DueNext
    <2>4. \A i \in 1 .. n : Yields(more, i) => new[Due(more, i)] = RecordOf(more[i])
      BY <1>1, <1>2, <1>3, <1>4, <1>10, <2>2
    <2>5. new[Due(more, n + 1)] = RecordOf(more[n + 1])
      BY <1>1, <2>2, <2>3 DEF y
    <2> QED  BY <1>1, <1>6, <1>7, <2>2, <2>3, <2>4, <2>5 DEF Noted, R
  <1>12. CASE ~ Yields(more, n + 1)
    <2>1. records = <<>>
      BY <1>12 DEF n
    <2>2. new = rec
      BY <1>0, <2>1, ConcatEmptySeq
    <2>3. Due(more, n + 1) = Len(rec)
      BY <1>0, <1>2, <1>8, <1>12, DueNext
    <2>4. \A i \in 1 .. n : Yields(more, i) => new[Due(more, i)] = RecordOf(more[i])
      BY <1>1, <1>2, <1>3, <1>4, <2>2
    <2> QED  BY <1>0, <1>1, <1>6, <1>7, <1>12, <2>2, <2>3, <2>4 DEF Noted, R
  <1> QED  BY <1>11, <1>12
-----------------------------------------------------------------------------
(* What a step of a read keeps.                                            *)

\* The object does not change under the reader.
LEMMA ObjectFixed ==
  ASSUME Written, Ledger, UNCHANGED objectVars
  PROVE  Written' /\ Ledger' /\ (Regular' <=> Regular)
  <1>1. /\ key' = key /\ override' = override /\ runtime' = runtime /\ content' = content
        /\ items' = items /\ meant' = meant
    BY DEF objectVars
  <1>2. Written'
    BY <1>1 DEF Written, Resolved, DetectFormat
  <1>3. Ledger'
    BY <1>1 DEF Ledger
  <1>6. Tab' <=> Tab
    BY <1>1 DEF Tab
  <1>4. \A i : Awkward(i)' <=> Awkward(i)
    <2>1. \A cells : LosesEnds(cells)' <=> LosesEnds(cells)
      BY <1>6 DEF LosesEnds
    <2> QED  BY <1>1, <2>1 DEF Awkward
  <1>5. Regular' <=> Regular
    BY <1>1, <1>4 DEF Regular
  <1> QED  BY <1>2, <1>3, <1>5

LEMMA MeasuresFixed ==
  ASSUME UNCHANGED objectVars
  PROVE  /\ Size' = Size /\ (IsList' <=> IsList) /\ (Hopeless' <=> Hopeless) /\ Accepts' = Accepts
         /\ \A result, what : Told(result, what)' <=> Told(result, what)
  <1>1. runtime' = runtime /\ content' = content /\ items' = items
    BY DEF objectVars
  <1>2. Size' = Size /\ (IsList' <=> IsList)
    BY <1>1 DEF Size, IsList, Wide
  <1>3. Hopeless' <=> Hopeless
    BY <1>1, <1>2 DEF Hopeless
  <1>4. Accepts' = Accepts
    BY <1>1 DEF Accepts
  <1>5. \A result, what : Told(result, what)' <=> Told(result, what)
    BY <1>1, <1>3 DEF Told
  <1> QED  BY <1>2, <1>3, <1>4, <1>5

LEMMA ItemsAre ==
  ASSUME Written, NEW i \in 1 .. Len(items)
  PROVE  /\ items[i] \in Things /\ Fits(items, i, content)
         /\ \/ items[i].is \in {"blank", "spaces", "list"}
            \/ items[i].is = "doc" /\ items[i].doc \in Docs
            \/ items[i].is = "row" /\ items[i].cells \in Rows \cup {Header}
  <1>1. items[i] \in Things /\ Fits(items, i, content)
    BY DEF Written
  <1> QED  BY <1>1, ThingKinds

\* The next record is the one the next item is.
LEMMA NextMeant ==
  ASSUME Written, Ledger, NEW p \in Nat, p < Len(items), Yields(items, p + 1)
  PROVE  /\ Due(items, p) + 1 \in 1 .. Len(meant)
         /\ meant[Due(items, p) + 1] = RecordOf(items[p + 1])
  <1>1. Len(items) \in Nat /\ p + 1 \in 1 .. Len(items) /\ p + 1 <= Len(items) /\ p + 1 \in Nat
    BY DEF Written
  <1>2. Due(items, p + 1) = Due(items, p) + 1
    BY DueNext
  <1>3. Due(items, p + 1) <= Due(items, Len(items)) /\ Due(items, p) \in Nat
    BY <1>1, DueMono, DueNat
  <1>4. Len(meant) = Due(items, Len(items)) /\ meant[Due(items, p + 1)] = RecordOf(items[p + 1])
    BY <1>1 DEF Ledger
  <1>5. Len(meant) \in Nat
    BY DEF Written
  <1> QED  BY <1>2, <1>3, <1>4, <1>5

\* The next item is passed by, or its record is yielded with the right time.
PassedBy == ~ Yields(items, pos + 1) /\ out' = out

Taken ==
  /\ Yields(items, pos + 1)
  /\ \E stamp \in BOOLEAN :
       /\ runtime = "python" => (stamp <=> OwnStamp(RecordOf(items[pos + 1]).time))
       /\ Yield(RecordOf(items[pos + 1]).line, stamp)

LEMMA FaithfulNext ==
  ASSUME Written, Ledger, Faithful, UNCHANGED objectVars, pos < Len(items), pos' = pos + 1,
         PassedBy \/ Taken
  PROVE  Faithful'
  <1> DEFINE M == {Meant(n) : n \in 1 .. Len(meant)}
  <1>1. items' = items /\ meant' = meant /\ content' = content /\ runtime' = runtime
    BY DEF objectVars
  <1>2. \A n : Meant(n)' = Meant(n)
    BY <1>1 DEF Meant
  <1>3. /\ pos \in Nat /\ Len(items) \in Nat /\ pos + 1 \in 0 .. Len(items)
        /\ out \in Seq(M) /\ Len(out) = Due(items, pos) /\ \A n \in 1 .. Len(out) : out[n] = Meant(n)
    BY DEF Faithful, Written
  <1>4. Faithful' <=> /\ pos' \in 0 .. Len(items)
                      /\ out' \in Seq(M) /\ Len(out') = Due(items, pos')
                      /\ \A n \in 1 .. Len(out') : out'[n] = Meant(n)
    BY <1>1, <1>2, Zenon DEF Faithful
  <1>5. CASE PassedBy
    <2>1. out' = out /\ Due(items, pos + 1) = Due(items, pos)
      BY <1>3, <1>5, DueNext DEF PassedBy
    <2> HIDE DEF M
    <2> QED  BY <1>3, <1>4, <2>1
  <1>6. CASE Taken
    <2>1. PICK stamp \in BOOLEAN :
            /\ runtime = "python" => (stamp <=> OwnStamp(RecordOf(items[pos + 1]).time))
            /\ Yield(RecordOf(items[pos + 1]).line, stamp)
      BY <1>6 DEF Taken
    <2> DEFINE n == Len(out) + 1
               e == Entry(RecordOf(items[pos + 1]).line, stamp)
    <2>2. n \in 1 .. Len(meant) /\ meant[n] = RecordOf(items[pos + 1]) /\ Due(items, pos + 1) = n
      <3>1. Yields(items, pos + 1)
        BY <1>6 DEF Taken
      <3> QED  BY <1>3, <3>1, NextMeant, DueNext
    <2>3. e = Meant(n)
      <3>1. runtime = "python" => (stamp <=> OwnStamp(meant[n].time))
        BY <2>1, <2>2
      <3>2. e = [record |-> n, line |-> meant[n].line,
                 ts |-> IF runtime = "node" THEN "none" ELSE IF stamp THEN "own" ELSE "now"]
        BY <2>2 DEF Entry
      <3>3. runtime \in {"python", "node"}
        BY DEF Written
      <3> QED  BY <3>1, <3>2, <3>3 DEF Meant, OwnStamp
    <2>4. e \in M
      BY <2>2, <2>3
    <2>5. out' = Append(out, e)
      BY <2>1 DEF Yield
    <2> HIDE DEF e, M
    <2>6. out' \in Seq(M) /\ Len(out') = n /\ out'[n] = e /\ \A m \in 1 .. Len(out) : out'[m] = out[m]
      BY <1>3, <2>4, <2>5
    <2>7. \A m \in 1 .. n : m \in 1 .. Len(out) \/ m = n
      BY <1>3
    <2>8. \A m \in 1 .. Len(out') : out'[m] = Meant(m)
      BY <1>3, <2>3, <2>6, <2>7
    <2> QED  BY <1>3, <1>4, <2>2, <2>6, <2>8
  <1> QED  BY <1>5, <1>6

\* A step to the next item.
LEMMA AdvanceTracks ==
  ASSUME Written, Ledger, Tracks, UNCHANGED <<objectVars, phase, outcome, fault>>,
         phase \in {"read", "emit"}, pos < Len(items), pos' = pos + 1,
         PassedBy \/ Taken,
         \/ /\ UNCHANGED <<header, headed>>
            /\ items[pos + 1].is = "row" => headed
         \/ items[pos + 1].is = "row" /\ headed' = TRUE /\ header' = Header,
         content = "jsonl" /\ items[pos + 1].is = "doc" => items[pos + 1].doc \in Accepts,
         phase = "read" => content # "json_array"
  PROVE  Tracks'
  <1>1. /\ items' = items /\ content' = content /\ runtime' = runtime /\ key' = key /\ override' = override
        /\ phase' = phase /\ outcome' = outcome /\ fault' = fault /\ meant' = meant
    BY DEF objectVars
  <1>2. Faithful'
    BY FaithfulNext DEF Tracks
  <1>3. pos \in Nat /\ \A j : j \in 1 .. pos + 1 <=> j \in 1 .. pos \/ j = pos + 1
    BY DEF Tracks, Faithful
  <1>4. HeaderRead'
    <2>1. CASE UNCHANGED <<header, headed>> /\ (items[pos + 1].is = "row" => headed)
      BY <1>1, <1>3, <2>1 DEF Tracks, HeaderRead
    <2>2. CASE items[pos + 1].is = "row" /\ headed' = TRUE /\ header' = Header
      BY <1>1, <1>3, <2>2 DEF Tracks, HeaderRead
    <2> QED  BY <2>1, <2>2
  <1>5. OnlyGood'
    <2>1. /\ Size' = Size /\ (IsList' <=> IsList) /\ Accepts' = Accepts
      BY MeasuresFixed
    <2>2. pos' >= 1
      BY <1>3
    <2> QED  BY <1>1, <1>3, <2>1, <2>2 DEF Tracks, OnlyGood
  <1>6. Ending'
    <2>1. Told(outcome, fault)' <=> Told(outcome, fault)
      BY <1>1, MeasuresFixed DEF Told
    <2> QED  BY <1>1, <2>1 DEF Tracks, Ending
  <1> QED  BY <1>2, <1>4, <1>5, <1>6 DEF Tracks

\* A step that leaves what was read alone.
LEMMA UnmovedTracks ==
  ASSUME Written, Tracks, UNCHANGED <<objectVars, readVars>>,
         outcome' = "done" \/ phase' = "emit" => OnlyGood',
         phase' = "read" => phase = "read" \/ pos = 0,
         Ending'
  PROVE  Tracks'
  <1>1. /\ items' = items /\ content' = content /\ runtime' = runtime /\ meant' = meant
        /\ pos' = pos /\ out' = out /\ header' = header /\ headed' = headed
    BY DEF objectVars, readVars
  <1>2. Faithful'
    <2>1. \A n : Meant(n)' = Meant(n)
      BY <1>1 DEF Meant
    <2> QED  BY <1>1, <2>1 DEF Tracks, Faithful
  <1>3. HeaderRead'
    BY <1>1 DEF Tracks, HeaderRead
  <1>4. OnlyGood'
    <2>1. Accepts' = Accepts
      BY <1>1 DEF Accepts
    <2> QED  BY <1>1, <2>1 DEF Tracks, OnlyGood
  <1> QED  BY <1>2, <1>3, <1>4 DEF Tracks

-----------------------------------------------------------------------------
(* The writer's steps.                                                     *)

Unread == Written /\ Fresh /\ phase = "write"

LEMMA FreshTracks == Unread => Tracks
  <1> SUFFICES ASSUME Written, Fresh, phase = "write" PROVE Tracks
    BY DEF Unread
  <1>1. Faithful
    <2> DEFINE M == {Meant(n) : n \in 1 .. Len(meant)}
    <2>1. out = <<>> /\ out \in Seq(M) /\ Len(out) = 0
      BY EmptySeq DEF Fresh
    <2>2. Due(items, 0) = 0 /\ pos = 0 /\ Len(items) \in Nat
      BY DueZero DEF Fresh, Written
    <2> HIDE DEF M
    <2>3. pos \in 0 .. Len(items) /\ Len(out) = Due(items, pos) /\ \A n \in 1 .. Len(out) : out[n] = Meant(n)
      BY <2>1, <2>2
    <2> QED  BY <2>1, <2>3 DEF Faithful, M
  <1>2. HeaderRead /\ OnlyGood /\ Ending
    <2>1. pos = 0 /\ headed = FALSE /\ outcome = "none" /\ fault = "none"
      BY DEF Fresh
    <2>2. \A j : j \notin 1 .. pos
      BY <2>1
    <2> QED  BY <2>1, <2>2 DEF HeaderRead, OnlyGood, Ending, Told
  <1> QED  BY <1>1, <1>2 DEF Tracks

LEMMA PutKeeps ==
  ASSUME ReaderInv, NEW x \in Things, NEW records, Put(x, records),
         Fits(items', Len(items) + 1, content),
         Yields(items', Len(items) + 1) =>
           records = <<RecordOf(x)>> /\ RecordOf(x) \in Records(content),
         ~ Yields(items', Len(items) + 1) => records = <<>>
  PROVE  ReaderInv'
  <1>1. /\ items' = Append(items, x) /\ meant' = meant \o records /\ phase = "write"
        /\ UNCHANGED <<key, override, runtime, content, phase, outcome, fault>>
        /\ UNCHANGED <<pos, header, headed, out>>
    BY DEF Put, readVars
  <1>2. Noted(items, meant, content)
    BY DEF ReaderInv, Written, Ledger, Noted
  <1>3. Noted(items', meant', content)
    <2>1. \A more, new :
            more = Append(items, x) /\ new = meant \o records
            /\ (Yields(more, Len(items) + 1) =>
                  records = <<RecordOf(x)>> /\ RecordOf(x) \in Records(content))
            /\ (~ Yields(more, Len(items) + 1) => records = <<>>)
            /\ Fits(more, Len(items) + 1, content)
            => Noted(more, new, content)
      BY <1>2, NotedPut
    <2> QED  BY <1>1, <2>1
  <1>4. Written' /\ Ledger'
    BY <1>1, <1>3 DEF ReaderInv, Written, Ledger, Noted, Resolved, DetectFormat
  <1>5. Fresh' /\ phase' = "write"
    BY <1>1 DEF ReaderInv, Fresh
  <1>6. Tracks'
    <2>1. Unread'
      BY <1>4, <1>5 DEF Unread
    <2> QED  BY <2>1, FreshTracks, PTL
  <1> QED  BY <1>4, <1>5, <1>6 DEF ReaderInv

LEMMA WriteKeeps == ASSUME ReaderInv, Write PROVE ReaderInv'
  <1> DEFINE n == Len(items) + 1
  <1>0. Written /\ items \in Seq(Things) /\ Len(items) \in Nat
    BY DEF ReaderInv, Written
  <1>1. \A x \in Things : LET more == Append(items, x) IN
          more[n] = x /\ \A i \in 1 .. n - 1 : more[i] = items[i] /\ i \in 1 .. Len(items)
    BY <1>0
  <1>2. ASSUME NEW k \in {"blank", "spaces"}, PutBlank(k) PROVE ReaderInv'
    <2> DEFINE x == [is |-> k]
    <2>1. content # "json_array" /\ Put(x, <<>>) /\ items' = Append(items, x)
      BY <1>2 DEF PutBlank, Put
    <2>2. x \in Things /\ x.is \in {"blank", "spaces"}
      BY DEF Things
    <2> HIDE DEF x
    <2>3. items'[n] = x
      BY <1>1, <2>1, <2>2
    <2>4. ~ Yields(items', n) /\ Fits(items', n, content)
      BY <2>1, <2>2, <2>3 DEF Yields, Fits
    <2> QED  BY <2>1, <2>2, <2>4, PutKeeps
  <1>7. CASE PutList
    <2> DEFINE x == [is |-> "list"]
    <2>1. content = "json_array" /\ items = <<>> /\ Put(x, <<>>) /\ items' = Append(items, x)
      BY <1>7 DEF PutList, Put
    <2>2. x \in Things /\ x.is = "list"
      BY DEF Things
    <2> HIDE DEF x
    <2>3. items'[n] = x /\ n = 1
      BY <1>1, <2>1, <2>2
    <2>4. ~ Yields(items', n) /\ Fits(items', n, content)
      BY <2>1, <2>2, <2>3 DEF Yields, Fits
    <2> QED  BY <2>1, <2>2, <2>4, PutKeeps
  <1>3. ASSUME NEW d \in Docs, PutDoc(d) PROVE ReaderInv'
    <2> DEFINE x == [is |-> "doc", doc |-> d]
    <2>1. /\ content # "csv" /\ Put(x, <<DocRecord(d)>>) /\ items' = Append(items, x)
          /\ d = "bom" => items = <<>> /\ content = "jsonl"
      BY <1>3 DEF PutDoc, Put
    <2>2. x \in Things /\ x.is = "doc" /\ x.doc = d
      BY DEF Things
    <2> HIDE DEF x
    <2>3. items'[n] = x
      BY <1>1, <2>1, <2>2
    <2>4. items = <<>> => n = 1
      OBVIOUS
    <2>5. Yields(items', n) /\ Fits(items', n, content)
      BY <2>1, <2>2, <2>3, <2>4 DEF Yields, Fits
    <2>6. RecordOf(x) = DocRecord(d) /\ DocRecord(d) \in Records(content)
      BY <2>1, <2>2 DEF RecordOf, Records
    <2>7. <<DocRecord(d)>> = <<RecordOf(x)>>
      BY <2>6
    <2> QED  BY <2>1, <2>2, <2>5, <2>6, <2>7, PutKeeps
  <1>4. ASSUME NEW cells \in Rows \cup {Header}, PutRow(cells),
               (\A i \in DOMAIN items : items[i].is # "row") => cells = Header
        PROVE  ReaderInv'
    <2> DEFINE x == [is |-> "row", cells |-> cells]
               earlier == \E i \in DOMAIN items : items[i].is = "row"
    <2>1. /\ content = "csv" /\ Put(x, IF earlier THEN <<RowRecord(cells)>> ELSE <<>>)
          /\ items' = Append(items, x)
      BY <1>4 DEF PutRow, Put
    <2>2. x \in Things /\ x.is = "row" /\ x.cells = cells
      BY DEF Things
    <2> HIDE DEF x
    <2>3. items'[n] = x /\ \A i \in 1 .. n - 1 : items'[i] = items[i]
      BY <1>1, <2>1, <2>2
    <2>4. DOMAIN items = 1 .. n - 1
      BY <1>0
    <2>5. Yields(items', n) <=> earlier
      BY <2>2, <2>3, <2>4 DEF Yields
    <2>6. Fits(items', n, content)
      BY <1>4, <2>1, <2>2, <2>3, <2>5 DEF Fits
    <2>7. RecordOf(x) = RowRecord(cells) /\ RowRecord(cells) \in Records(content)
      BY <2>1, <2>2 DEF RecordOf, Records
    <2> DEFINE records == IF earlier THEN <<RowRecord(cells)>> ELSE <<>>
    <2>8. /\ Yields(items', n) => records = <<RecordOf(x)>>
          /\ ~ Yields(items', n) => records = <<>>
          /\ Put(x, records)
      <3> HIDE DEF earlier
      <3> QED  BY <2>1, <2>5, <2>7, Zenon
    <2> HIDE DEF records
    <2> QED  BY <2>2, <2>6, <2>7, <2>8, PutKeeps
  <1>5. CASE PutFirst
    BY <1>4, <1>5 DEF PutFirst
  <1>6. CASE PutLater
    BY <1>4, <1>6 DEF PutLater
  <1> QED  BY <1>2, <1>3, <1>5, <1>6, <1>7 DEF Write

LEMMA OpenKeeps == ASSUME ReaderInv, Open PROVE ReaderInv'
  <1>1. /\ phase = "write" /\ phase' = "read" /\ UNCHANGED objectVars
        /\ UNCHANGED <<pos, header, headed, out, outcome, fault>>
    BY DEF Open, readVars
  <1>2. Written' /\ Ledger' /\ (Regular' <=> Regular)
    BY <1>1, ObjectFixed DEF ReaderInv
  <1>3. Ending' /\ UNCHANGED <<objectVars, readVars>> /\ outcome' = "none" /\ pos = 0
    BY <1>1 DEF ReaderInv, Fresh, Ending, readVars, Told
  <1>4. Regular => Tracks'
    BY <1>1, <1>3, UnmovedTracks DEF ReaderInv
  <1> QED  BY <1>1, <1>2, <1>4 DEF ReaderInv

-----------------------------------------------------------------------------
(* The Python reader's steps.                                              *)

LEMMA FormatIs == ASSUME Written, NEW format, Reading(format) PROVE content = format /\ phase = "read"
  BY DEF Written, Reading

LEMMA AdvanceKeeps ==
  ASSUME ReaderInv, UNCHANGED <<objectVars, phase, outcome, fault>>,
         phase \in {"read", "emit"}, pos < Len(items), pos' = pos + 1,
         Regular =>
           /\ PassedBy \/ Taken
           /\ \/ UNCHANGED <<header, headed>> /\ (items[pos + 1].is = "row" => headed)
              \/ items[pos + 1].is = "row" /\ headed' = TRUE /\ header' = Header
           /\ content = "jsonl" /\ items[pos + 1].is = "doc" => items[pos + 1].doc \in Accepts,
         phase = "read" => content # "json_array"
  PROVE  ReaderInv'
  <1>1. Written' /\ Ledger' /\ (Regular' <=> Regular)
    BY ObjectFixed DEF ReaderInv
  <1>2. Regular => Tracks'
    BY AdvanceTracks DEF ReaderInv
  <1> QED  BY <1>1, <1>2 DEF ReaderInv

LEMMA EndKeeps ==
  ASSUME ReaderInv, NEW result, End(result), UNCHANGED <<objectVars, readVars>>,
         result = "done" /\ Regular =>
           /\ pos = Len(items) /\ fault' = "none" /\ (content = "csv" => headed)
           /\ content = "json_array" => phase = "emit",
         Regular => Told(result, fault')
  PROVE  ReaderInv'
  <1>1. Written' /\ Ledger' /\ (Regular' <=> Regular) /\ Written
    BY ObjectFixed DEF ReaderInv
  <1>2. phase' = "end" /\ outcome' = result
    BY DEF End
  <1>3. /\ items' = items /\ content' = content /\ runtime' = runtime /\ meant' = meant
        /\ pos' = pos /\ out' = out /\ header' = header /\ headed' = headed
    BY DEF objectVars, readVars
  <1>4. ASSUME Regular PROVE Tracks'
    <2>1. Tracks
      BY <1>4 DEF ReaderInv
    <2>2. /\ Size' = Size /\ (IsList' <=> IsList) /\ (Hopeless' <=> Hopeless) /\ Accepts' = Accepts
      BY MeasuresFixed
    <2>4. Told(outcome, fault)'
      BY <1>2, <1>3, <1>4, <2>2 DEF Told
    <2>3. Ending'
      BY <1>2, <1>3, <1>4, <2>4 DEF Ending
    <2>5. result = "done" => OnlyGood'
      BY <1>2, <1>3, <1>4, <2>1, <2>2 DEF Tracks, OnlyGood
    <2> QED  BY <1>1, <1>2, <2>1, <2>3, <2>5, UnmovedTracks
  <1> QED  BY <1>1, <1>2, <1>4 DEF ReaderInv

\* S3's answer to the request decides, as far as there is one.
LEMMA GetFailsKeeps == ASSUME ReaderInv, NEW err \in Errors, GetFails(err) PROVE ReaderInv'
  <1>1. PICK result :
          /\ result = IF runtime = "python" /\ err = NoAnswer THEN "unclassified" ELSE ClassifyS3Error(err)
          /\ End(result) /\ UNCHANGED <<objectVars, readVars>>
          /\ fault' = CASE err = NoAnswer    -> "noAnswer"
                        [] err \in Passing  -> "transient"
                        [] err \in Refusals -> "refused"
    BY DEF GetFails
  <1>2. CASE err = NoAnswer
    <2>1. fault' = "noAnswer"
      BY <1>1, <1>2 DEF NoAnswer, Passing, Refusals
    <2>2. result = IF runtime = "python" THEN "unclassified" ELSE "permanent"
      BY <1>1, <1>2 DEF NoAnswer, ClassifyS3Error
    <2>3. runtime \in {"python", "node"}
      BY DEF ReaderInv, Written
    <2>4. result # "done" /\ Told(result, fault')
      BY <2>1, <2>2, <2>3 DEF Told
    <2> QED  BY <1>1, <2>4, EndKeeps
  <1>3. CASE err \in Passing
    <2>1. err # NoAnswer /\ fault' = "transient" /\ result = "retryable"
      BY <1>1, <1>3 DEF NoAnswer, Passing, Refusals, ClassifyS3Error
    <2>2. Told(result, fault')
      BY <2>1 DEF Told
    <2> QED  BY <1>1, <2>1, <2>2, EndKeeps
  <1>4. CASE err \in Refusals
    <2>1. err # NoAnswer /\ fault' = "refused" /\ result = "permanent"
      BY <1>1, <1>4 DEF NoAnswer, Passing, Refusals, ClassifyS3Error
    <2>2. Told(result, fault')
      BY <2>1 DEF Told, Lasting
    <2> QED  BY <1>1, <2>1, <2>2, EndKeeps
  <1> QED  BY <1>2, <1>3, <1>4 DEF Errors

\* The CSV module gets the header first, and no line of spaces.
LEMMA PythonRows ==
  ASSUME Written, Regular, runtime = "python", content = "csv", NEW i \in 1 .. Len(items)
  PROVE  /\ items[i].is \in {"row", "blank"} /\ (i = 1 => items[i].is = "row")
         /\ items[i].is = "row" => items[i].cells \in Rows \cup {Header}
  <1>1. ~ Awkward(i)
    BY DEF Regular, Written
  <1>2. items[i].is # "spaces" /\ ~ (items[i].is = "blank" /\ i = 1)
    BY <1>1 DEF Awkward
  <1>3. items[i].is \notin {"doc", "list"}
    BY ItemsAre DEF Fits
  <1> QED  BY <1>2, <1>3, ItemsAre

LEMMA SkipBlankKeeps == ASSUME ReaderInv, NEW format, SkipBlank(format) PROVE ReaderInv'
  <1>1. /\ phase = "read" /\ pos < Len(items) /\ Advance /\ UNCHANGED <<header, headed, out>>
        /\ Item.is \in {"blank", "spaces"} /\ content # "json_array"
    BY FormatIs DEF SkipBlank, Python, Reading, ReaderInv
  <1>2. PassedBy /\ items[pos + 1].is \notin {"row", "doc"}
    BY <1>1 DEF PassedBy, Yields, Item
  <1> QED  BY <1>1, <1>2, AdvanceKeeps DEF Advance

\* A document is stamped with its own time, or not.
LEMMA DocTaken ==
  ASSUME items[pos + 1].is = "doc", Yield(items[pos + 1].doc, OwnStamp(items[pos + 1].doc))
  PROVE  Taken
  <1> DEFINE d == items[pos + 1].doc
             stamp == OwnStamp(d)
  <1>1. Yields(items, pos + 1) /\ RecordOf(items[pos + 1]).line = d /\ RecordOf(items[pos + 1]).time = DocTime(d)
    BY DEF Yields, RecordOf, DocRecord
  <1>2. OwnStamp(DocTime(d)) <=> stamp
    BY DEF OwnStamp, DocTime, Times
  <1>3. \E s \in BOOLEAN : (s <=> stamp) /\ Yield(d, s)
    <2>1. ASSUME NEW s \in BOOLEAN, s <=> stamp PROVE Yield(d, s)
      <3>1. Entry(d, s) = Entry(d, stamp)
        <4> HIDE DEF stamp, d
        <4> QED  BY <2>1, Zenon DEF Entry
      <3> QED  BY <3>1 DEF Yield
    <2>2. \E s \in BOOLEAN : s <=> stamp
      <3> HIDE DEF stamp
      <3> QED  OBVIOUS
    <2> QED  BY <2>1, <2>2
  <1> HIDE DEF stamp
  <1> QED  BY <1>1, <1>2, <1>3 DEF Taken

LEMMA ReadLineKeeps == ASSUME ReaderInv, ReadLine PROVE ReaderInv'
  <1>1. /\ phase = "read" /\ content = "lines" /\ pos < Len(items) /\ Advance
        /\ UNCHANGED <<header, headed>>
        /\ Item.is = "doc" /\ Yield(Item.doc, OwnStamp(Item.doc))
    BY FormatIs DEF ReadLine, Python, ReaderInv
  <1>2. Taken
    BY <1>1, DocTaken DEF Item
  <1> QED  BY <1>1, <1>2, AdvanceKeeps DEF Advance, Item

LEMMA ReadJsonKeeps == ASSUME ReaderInv, ReadJson PROVE ReaderInv'
  <1>1. /\ phase = "read" /\ content = "jsonl" /\ pos < Len(items) /\ Advance
        /\ UNCHANGED <<header, headed>> /\ runtime = "python"
        /\ Item.is = "doc" /\ Item.doc \in PythonAccepts /\ Yield(Item.doc, OwnStamp(Item.doc))
    BY FormatIs DEF ReadJson, Python, ReaderInv
  <1>2. Taken
    BY <1>1, DocTaken DEF Item
  <1> QED  BY <1>1, <1>2, AdvanceKeeps DEF Advance, Item, Accepts

LEMMA RejectJsonKeeps == ASSUME ReaderInv, RejectJson PROVE ReaderInv'
  <1>1. /\ phase = "read" /\ content = "jsonl" /\ pos < Len(items) /\ runtime = "python"
        /\ Item.is = "doc" /\ Item.doc \notin PythonAccepts
        /\ End("permanent") /\ UNCHANGED <<objectVars, readVars, fault>>
    BY FormatIs DEF RejectJson, Python, ReaderInv
  <1>2. Regular => Hopeless /\ fault = "none"
    <2>1. SUFFICES ASSUME Regular PROVE Hopeless /\ fault = "none"
      OBVIOUS
    <2>2. Faithful /\ Ending /\ Written
      BY <2>1 DEF ReaderInv, Tracks
    <2>3. pos + 1 \in 1 .. Len(items) /\ pos + 1 \in DOMAIN items
      BY <1>1, <2>2 DEF Faithful, Written
    <2>4. items[pos + 1].doc \in {"bad", "bom"}
      <3>1. items[pos + 1].doc \in Docs
        BY <1>1, <2>2, <2>3, ItemsAre DEF Item
      <3> QED  BY <1>1, <3>1 DEF Item, PythonAccepts
    <2> QED  BY <1>1, <2>2, <2>3, <2>4 DEF Item, Hopeless, Ending
  <1>3. Regular => Told("permanent", fault')
    BY <1>1, <1>2 DEF Told
  <1> QED  BY <1>1, <1>3, EndKeeps

LEMMA ReadHeaderKeeps == ASSUME ReaderInv, ReadHeader PROVE ReaderInv'
  <1>1. /\ phase = "read" /\ content = "csv" /\ runtime = "python" /\ pos < Len(items) /\ ~ headed
        /\ header' = CellsOf(Item) /\ headed' = TRUE /\ Advance /\ out' = out
    BY FormatIs DEF ReadHeader, Python, ReaderInv
  <1>2. Regular => items[pos + 1].is = "row" /\ header' = Header /\ PassedBy
    <2>1. SUFFICES ASSUME Regular PROVE items[pos + 1].is = "row" /\ header' = Header /\ PassedBy
      OBVIOUS
    <2>2. Faithful /\ HeaderRead /\ Written
      BY <2>1 DEF ReaderInv, Tracks
    <2>3. pos \in Nat /\ Len(items) \in Nat
      BY <2>2 DEF Faithful, Written
    <2>4. items[1].is = "row"
      BY <1>1, <2>1, <2>2, <2>3, PythonRows
    <2>5. pos = 0
      <3>1. SUFFICES ASSUME pos # 0 PROVE FALSE
        OBVIOUS
      <3>2. 1 \in 1 .. pos
        BY <2>3, <3>1
      <3> QED  BY <1>1, <2>2, <2>4, <3>2 DEF HeaderRead
    <2>6. ~ Yields(items, 1)
      BY <2>4 DEF Yields
    <2>7. items[1].cells = Header
      <3>1. Fits(items, 1, content)
        BY <1>1, <2>2, <2>3, <2>5, ItemsAre
      <3> QED  BY <2>4, <2>6, <3>1 DEF Fits
    <2> QED  BY <1>1, <2>4, <2>5, <2>6, <2>7 DEF CellsOf, Item, PassedBy
  <1> QED  BY <1>1, <1>2, AdvanceKeeps DEF Advance

LEMMA ReadRowKeeps == ASSUME ReaderInv, ReadRow PROVE ReaderInv'
  <1>1. /\ phase = "read" /\ content = "csv" /\ runtime = "python" /\ pos < Len(items) /\ headed
        /\ Item.is # "blank"
        /\ Yield(DictRow(CellsOf(Item)), OwnStamp(TimeIn(DictRow(CellsOf(Item)).named)))
        /\ Advance /\ UNCHANGED <<header, headed>>
    BY FormatIs DEF ReadRow, Python, ReaderInv
  <1>2. Regular => items[pos + 1].is = "row" /\ Taken
    <2>1. SUFFICES ASSUME Regular PROVE items[pos + 1].is = "row" /\ Taken
      OBVIOUS
    <2>2. Faithful /\ HeaderRead /\ Written
      BY <2>1 DEF ReaderInv, Tracks
    <2>3. pos \in Nat /\ pos + 1 \in 1 .. Len(items) /\ (pos + 1) - 1 = pos
      BY <1>1, <2>2 DEF Faithful, Written
    <2>4. items[pos + 1].is = "row"
      BY <1>1, <2>1, <2>2, <2>3, PythonRows DEF Item
    <2>5. header = Header /\ \E j \in 1 .. pos : items[j].is = "row"
      BY <1>1, <2>2 DEF HeaderRead
    <2>6. Yields(items, pos + 1)
      BY <2>3, <2>4, <2>5 DEF Yields
    <2> DEFINE row == DictRow(CellsOf(Item))
               stamp == OwnStamp(TimeIn(row.named))
    <2>7. row = Record(items[pos + 1].cells)
      <3>1. CellsOf(Item) = items[pos + 1].cells
        BY <2>4 DEF CellsOf, Item
      <3> QED  BY <2>5, <3>1 DEF DictRow, Record
    <2>8. RecordOf(items[pos + 1]).line = row /\ RecordOf(items[pos + 1]).time = TimeIn(row.named)
      <3>1. RecordOf(items[pos + 1]) = [line |-> row, time |-> TimeIn(row.named)]
        BY <2>4, <2>7, Zenon DEF RecordOf, RowRecord
      <3> HIDE DEF row
      <3> QED  BY <3>1
    <2>9. Yield(row, stamp) /\ stamp \in BOOLEAN
      BY <1>1, ObjectReaderAssumption DEF OwnStamp
    <2>10. stamp <=> OwnStamp(RecordOf(items[pos + 1]).time)
      BY <2>8
    <2> HIDE DEF row, stamp
    <2>11. Taken
      BY <2>6, <2>8, <2>9, <2>10 DEF Taken
    <2> QED  BY <2>4, <2>11
  <1> QED  BY <1>1, <1>2, AdvanceKeeps DEF Advance

\* Either library ends at the end of the stream, and finds out there that
\* a table has no header.
LEMMA StreamEnds ==
  ASSUME ReaderInv, phase = "read", content \in Formats \ {"json_array"}, pos = Len(items),
         End(IF content = "csv" /\ ~ headed THEN "permanent" ELSE "done"),
         UNCHANGED <<objectVars, readVars, fault>>
  PROVE  ReaderInv'
  <1>1. CASE content = "csv" /\ ~ headed
    <2>1. Regular => Hopeless /\ fault = "none"
      BY <1>1 DEF ReaderInv, Tracks, HeaderRead, Ending, Hopeless, Written
    <2>2. Regular => Told("permanent", fault')
      BY <2>1 DEF Told
    <2> QED  BY <1>1, <2>2, EndKeeps
  <1>2. CASE ~ (content = "csv" /\ ~ headed)
    <2>1. Regular => fault = "none" /\ (content = "csv" => headed)
      BY <1>2 DEF ReaderInv, Tracks, Ending, HeaderRead
    <2>2. content # "json_array" /\ (Regular => Told("done", fault'))
      BY <2>1 DEF Told
    <2> QED  BY <1>2, <2>1, <2>2, EndKeeps
  <1> QED  BY <1>1, <1>2

LEMMA ReadEndKeeps == ASSUME ReaderInv, ReadEnd PROVE ReaderInv'
  <1>1. PICK f \in Formats \ {"json_array"} : Reading(f)
    BY DEF ReadEnd
  <1>2. content = f /\ phase = "read" /\ (Reading("csv") <=> content = "csv")
    BY <1>1, FormatIs DEF ReaderInv, Reading
  <1>3. /\ pos = Len(items) /\ UNCHANGED <<objectVars, readVars, fault>>
        /\ End(IF content = "csv" /\ ~ headed THEN "permanent" ELSE "done")
    BY <1>2 DEF ReadEnd
  <1> QED  BY <1>1, <1>2, <1>3, StreamEnds

\* The reader sees the whole document exactly if it fits.
LEMMA SizeIsNat == ASSUME Written PROVE Size \in Nat
  <1> DEFINE A == {i \in DOMAIN items : Wide(i)}
  <1>1. Len(items) \in Nat /\ DOMAIN items = 1 .. Len(items)
    BY DEF Written
  <1>2. IsFiniteSet(A)
    <2>1. IsFiniteSet(1 .. Len(items)) /\ A \subseteq 1 .. Len(items)
      BY <1>1, FS_Interval
    <2> HIDE DEF A
    <2> QED  BY <2>1, FS_Subset
  <1>3. Cardinality(A) \in Nat
    <2> HIDE DEF A
    <2> QED  BY <1>2, FS_CardinalityType
  <1> QED  BY <1>1, <1>3 DEF Size

LEMMA ReadsWhole ==
  ASSUME Written
  PROVE  Payload <= MaxJson /\ Decodes(Accepts) <=>
           /\ Size <= MaxJson /\ (IsList \/ Len(items) = 1)
           /\ \A i \in 1 .. Len(items) : items[i].is = "doc" => items[i].doc \in Accepts
  <1>1. DOMAIN items = 1 .. Len(items) /\ Size \in Nat /\ MaxJson \in Nat
    BY SizeIsNat, ObjectReaderAssumption DEF Written
  <1>2. Payload <= MaxJson <=> Size <= MaxJson
    BY <1>1 DEF Payload
  <1>3. Size <= MaxJson => Payload = Size
    BY <1>1 DEF Payload
  <1> QED  BY <1>1, <1>2, <1>3 DEF Decodes

\* In a document without a list there is one thing, and it is an element.
LEMMA ElementsAre ==
  ASSUME Written, content = "json_array", NEW i \in 1 .. Len(items)
  PROVE  \/ items[i].is = "doc" /\ items[i].doc \in Docs \ {"bom"}
         \/ items[i].is = "list" /\ i = 1 /\ IsList
  <1>1. Fits(items, i, content) /\ items # <<>>
    BY ItemsAre DEF Written
  <1> QED  BY <1>1, ItemsAre DEF Fits, IsList

\* A document is taken as a whole, or refused for good reason.
LEMMA ParseKeeps == ASSUME ReaderInv, ParseDocument(Accepts) PROVE ReaderInv'
  <1> DEFINE good == Payload <= MaxJson /\ Decodes(Accepts)
  <1>1. /\ phase = "read" /\ content = "json_array" /\ UNCHANGED <<objectVars, header, headed, out, fault>>
        /\ good => phase' = "emit" /\ UNCHANGED outcome /\ pos' = (IF IsList THEN 1 ELSE 0)
        /\ ~ good => End("permanent") /\ UNCHANGED pos
    BY FormatIs DEF ParseDocument, ReaderInv
  <1>2. Written /\ Written' /\ Ledger' /\ (Regular' <=> Regular) /\ DOMAIN items = 1 .. Len(items)
    BY <1>1, ObjectFixed DEF ReaderInv, Written
  <1>3. CASE good
    <2>1. ASSUME Regular PROVE Tracks'
      <3>1. Faithful /\ OnlyGood /\ Ending
        BY <2>1 DEF ReaderInv, Tracks
      <3>2. /\ items' = items /\ meant' = meant /\ content' = content /\ runtime' = runtime
            /\ outcome' = outcome /\ phase' = "emit" /\ fault' = fault /\ out' = out
        BY <1>1, <1>3 DEF objectVars
      <3>3. /\ Size' = Size /\ (IsList' <=> IsList) /\ Accepts' = Accepts
            /\ (Told(outcome, fault)' <=> Told(outcome', fault'))
        BY <1>1, MeasuresFixed DEF Told
      <3>4. Size <= MaxJson /\ (IsList \/ Len(items) = 1)
            /\ \A i \in 1 .. Len(items) : items[i].is = "doc" => items[i].doc \in Accepts
        BY <1>2, <1>3, ReadsWhole
      <3>5. pos = 0 /\ Len(out) = 0 /\ outcome = "none" /\ fault = "none"
        BY <1>1, <3>1, DueZero DEF OnlyGood, Faithful, Ending
      <3>6. OnlyGood'
        BY <1>1, <1>3, <3>2, <3>3, <3>4 DEF OnlyGood
      <3>7. Ending'
        BY <3>2, <3>3, <3>5 DEF Ending, Told
      <3>8. HeaderRead'
        BY <1>1, <3>2 DEF HeaderRead
      <3>9. pos' \in 0 .. Len(items) /\ Due(items, pos') = 0
        <4>1. CASE IsList
          <5>1. pos' = 1 /\ items[1].is = "list" /\ 1 \in 1 .. Len(items)
            BY <1>1, <1>2, <1>3, <4>1 DEF IsList, Written
          <5>2. ~ Yields(items, 1)
            BY <5>1 DEF Yields
          <5>3. Due(items, 1) = 0
            <6>1. 0 + 1 = 1 /\ 0 \in Nat
              OBVIOUS
            <6>2. Due(items, 0 + 1) = Due(items, 0)
              BY <5>2, <6>1, DueNext
            <6> QED  BY <6>1, <6>2, DueZero
          <5> QED  BY <5>1, <5>3
        <4>2. CASE ~ IsList
          BY <1>1, <1>2, <1>3, <4>2, DueZero DEF Written
        <4> QED  BY <4>1, <4>2
      <3>10. Faithful'
        <4>1. \A n : Meant(n)' = Meant(n)
          BY <3>2 DEF Meant
        <4> QED  BY <3>1, <3>2, <3>5, <3>9, <4>1 DEF Faithful
      <3> QED  BY <3>6, <3>7, <3>8, <3>10 DEF Tracks
    <2> QED  BY <1>1, <1>2, <1>3, <2>1 DEF ReaderInv
  <1>4. CASE ~ good
    <2>1. Regular => Hopeless /\ fault = "none"
      <3>1. SUFFICES ASSUME Regular PROVE Hopeless /\ fault = "none"
        OBVIOUS
      <3>2. fault = "none"
        BY <1>1, <3>1 DEF ReaderInv, Tracks, Ending
      <3>3. CASE ~ (Size <= MaxJson)
        <4>1. Size > MaxJson
          BY <1>2, <3>3, SizeIsNat, ObjectReaderAssumption
        <4> QED  BY <1>1, <3>2, <4>1 DEF Hopeless
      <3>4. CASE ~ (IsList \/ Len(items) = 1)
        BY <1>1, <3>2, <3>4 DEF Hopeless
      <3>5. ASSUME NEW i \in 1 .. Len(items), items[i].is = "doc", items[i].doc \notin Accepts
            PROVE  Hopeless
        <4>1. items[i].doc \in Docs \ {"bom"}
          BY <1>1, <1>2, <3>5, ElementsAre
        <4>2. runtime = "node" => items[i].doc # "nan"
          BY <1>1, <1>2, <3>1, <3>5 DEF Regular, Awkward
        <4>3. items[i].doc = "bad"
          <5>1. runtime \in {"python", "node"}
            BY <1>2 DEF Written
          <5> QED  BY <3>5, <4>1, <4>2, <5>1 DEF Accepts, PythonAccepts, NodeAccepts
        <4> QED  BY <1>1, <1>2, <3>5, <4>3 DEF Hopeless
      <3> QED  BY <1>2, <1>4, <3>2, <3>3, <3>4, <3>5, ReadsWhole
    <2>2. Regular => Told("permanent", fault')
      BY <1>1, <2>1 DEF Told
    <2>3. End("permanent") /\ UNCHANGED <<objectVars, readVars>>
      BY <1>1, <1>4 DEF readVars
    <2> QED  BY <2>2, <2>3, EndKeeps
  <1> QED  BY <1>3, <1>4

\* An element is a record, as the writer meant it.
LEMMA EmitKeeps ==
  ASSUME ReaderInv, EmitElement(items[pos + 1].doc)
  PROVE  ReaderInv'
  <1>1. /\ phase = "emit" /\ pos < Len(items) /\ pos' = pos + 1
        /\ Yield(items[pos + 1].doc, OwnStamp(items[pos + 1].doc))
        /\ UNCHANGED <<objectVars, phase, header, headed, outcome, fault>>
    BY DEF EmitElement
  <1>2. Regular => Taken /\ items[pos + 1].is = "doc" /\ content = "json_array"
    <2>1. SUFFICES ASSUME Regular PROVE Taken /\ items[pos + 1].is = "doc" /\ content = "json_array"
      OBVIOUS
    <2>2. Faithful /\ OnlyGood /\ Written
      BY <2>1 DEF ReaderInv, Tracks
    <2>3. content = "json_array" /\ pos + 1 \in 1 .. Len(items)
      BY <1>1, <2>2 DEF OnlyGood, Faithful, Written
    <2>4. items[pos + 1].is = "doc"
      <3>1. items[pos + 1].is = "doc" \/ (pos + 1 = 1 /\ IsList)
        BY <2>2, <2>3, ElementsAre
      <3>2. pos \in Nat /\ (IsList => pos >= 1)
        BY <1>1, <2>2 DEF OnlyGood, Faithful
      <3> QED  BY <3>1, <3>2
    <2> QED  BY <1>1, <2>2, <2>3, <2>4, DocTaken
  <1>3. UNCHANGED <<objectVars, phase, outcome, fault>> /\ UNCHANGED <<header, headed>>
    BY <1>1
  <1>4. Regular =>
           /\ PassedBy \/ Taken
           /\ \/ UNCHANGED <<header, headed>> /\ (items[pos + 1].is = "row" => headed)
              \/ items[pos + 1].is = "row" /\ headed' = TRUE /\ header' = Header
           /\ content = "jsonl" /\ items[pos + 1].is = "doc" => items[pos + 1].doc \in Accepts
    BY <1>2, <1>3
  <1> QED  BY <1>1, <1>3, <1>4, AdvanceKeeps

LEMMA EmitEndKeeps == ASSUME ReaderInv, EmitEnd PROVE ReaderInv'
  <1>1. /\ phase = "emit" /\ pos = Len(items) /\ End("done") /\ UNCHANGED <<objectVars, readVars, fault>>
    BY DEF EmitEnd
  <1>2. Regular => fault = "none" /\ content = "json_array" /\ Told("done", fault')
    BY <1>1 DEF ReaderInv, Tracks, Ending, OnlyGood, Told
  <1> QED  BY <1>1, <1>2, EndKeeps

\* What either reader says of a failure of the stream.
LEMMA StreamFailsKeeps ==
  ASSUME ReaderInv, NEW f \in StreamFaults, StreamFails(f) \/ NodeStreamFails(f)
  PROVE  ReaderInv'
  <1>1. f \in {"reset", "notGzip", "truncated", "corrupt"}
    BY DEF StreamFaults
  <1>2. CASE StreamFails(f)
    <2>1. PICK result \in ClassifyStream(f) : End(result)
      BY <1>2 DEF StreamFails
    <2>2. runtime = "python" /\ fault' = f /\ UNCHANGED <<objectVars, readVars>>
      BY <1>2 DEF StreamFails
    <2>3. result # "done" /\ Told(result, f)
      BY <1>1, <2>1, <2>2 DEF ClassifyStream, Told, Lasting
    <2> QED  BY <2>1, <2>2, <2>3, EndKeeps
  <1>3. CASE NodeStreamFails(f)
    <2> DEFINE result == IF f = "reset" THEN "retryable" ELSE "permanent"
    <2>1. runtime = "node" /\ fault' = f /\ UNCHANGED <<objectVars, readVars>> /\ End(result)
      BY <1>3 DEF NodeStreamFails
    <2>2. result # "done" /\ Told(result, f)
      BY <1>1, <2>1 DEF Told, Lasting
    <2> HIDE DEF result
    <2> QED  BY <2>1, <2>2, EndKeeps
  <1> QED  BY <1>2, <1>3

LEMMA ReadKeeps == ASSUME ReaderInv, Read PROVE ReaderInv'
  <1>1. runtime = "python" => Accepts = PythonAccepts
    BY DEF Accepts
  <1>2. CASE runtime = "python" /\ ParseDocument(PythonAccepts)
    BY <1>1, <1>2, ParseKeeps
  <1>3. CASE runtime = "python" /\ \E i \in {pos + 1} \cap DOMAIN items : EmitElement(Item.doc)
    BY <1>3, EmitKeeps DEF Item
  <1>4. CASE EmitEnd
    BY <1>4, EmitEndKeeps
  <1>5. CASE \E format \in Formats : SkipBlank(format)
    BY <1>5, SkipBlankKeeps
  <1> QED  BY <1>2, <1>3, <1>4, <1>5, ReadLineKeeps, ReadJsonKeeps, RejectJsonKeeps, ReadHeaderKeeps,
              ReadRowKeeps, ReadEndKeeps DEF Read
-----------------------------------------------------------------------------
(* The Node reader's steps.                                                *)

\* The line an item is: the same, or the tokens of a row.
LineOf(item) ==
  IF item.is = "row" THEN [is |-> "row", tokens |-> Tokens(item.cells)] ELSE item

\* The rows of two cells.
LEMMA PairsOfRows ==
  ASSUME NEW cells \in Rows, Len(cells) = 2
  PROVE  (\E c, d \in Cells : cells = <<c, d>>) \/ (\E x \in Times : cells = <<<<"v">>, <<x>>>>)
  <1> DEFINE A == {<<c>> : c \in {<<>>, <<"v">>}}
             B == {<<c, d>> : c, d \in Cells}
             C == {<<<<"v">>, <<t>>>> : t \in Times}
             D == {<<<<"v">>, <<"dated">>, c>> : c \in {<<"v">>, <<"delim">>}}
  <1>1. ASSUME NEW a, cells = <<a>> PROVE FALSE
    <2>1. Len(cells) = 1
      BY <1>1
    <2> QED  BY <2>1
  <1>2. ASSUME NEW a, NEW b, NEW c, cells = <<a, b, c>> PROVE FALSE
    <2>1. Len(cells) = 3
      BY <1>2
    <2> QED  BY <2>1
  <1>3. cells \notin A
    BY <1>1, Zenon
  <1>4. cells \in B => \E c, d \in Cells : cells = <<c, d>>
    OBVIOUS
  <1>5. cells \in C => \E x \in Times : cells = <<<<"v">>, <<x>>>>
    BY Zenon
  <1>6. cells \notin D
    BY <1>2, Zenon
  <1>7. Rows = A \cup B \cup C \cup D
    BY DEF Rows
  <1> HIDE DEF A, B, C, D
  <1>8. cells \in B \/ cells \in C
    BY <1>3, <1>6, <1>7
  <1> QED  BY <1>4, <1>5, <1>8

\* Outside the awkward content, each item is one line, blank or not as the item
\* is, and a row gives back its cells.
LEMMA ItemIsLine ==
  ASSUME Written, Regular, runtime = "node", content # "json_array", NEW i \in 1 .. Len(items)
  PROVE  /\ LinesOf(items[i]) = <<LineOf(items[i])>>
         /\ IsBlank(LineOf(items[i])) <=> items[i].is \in {"blank", "spaces"}
         /\ items[i].is = "row" =>
              /\ Len(items[i].cells) = 2
              /\ SplitDelimited(Trimmed(LineOf(items[i]).tokens)) = items[i].cells
         /\ items[i].is = "doc" /\ content # "lines" => items[i].doc \notin {"sep", "nan", "big"}
  <1> DEFINE item == items[i]
  <1>1. ~ Awkward(i)
    BY DEF Regular, Written
  <1>2. item \in Things
    BY ItemsAre
  <1>3. CASE item.is \in {"blank", "spaces"}
    BY <1>3 DEF LinesOf, LineOf, IsBlank
  <1>4. CASE item.is = "doc"
    <2>1. item.doc # "sep" /\ (content # "lines" => item.doc \notin {"nan", "big"})
      BY <1>1, <1>4 DEF Awkward
    <2> QED  BY <1>4, <2>1 DEF LinesOf, LineOf, IsBlank
  <1>5. CASE item.is = "row"
    <2> DEFINE cells == item.cells
               t == Tokens(cells)
    <2>1. cells \in Rows \cup {Header}
      BY <1>2, <1>5, ThingKinds
    <2>2. /\ Len(cells) = Len(Header) /\ \A j \in DOMAIN cells : ~ Contains(cells[j], "break")
          /\ ~ LosesEnds(cells)
      BY <1>1, <1>5 DEF Awkward
    <2>3. Len(Header) = 2
      BY DEF Header
    <2>4. \E c, d \in ShortCells : cells = <<c, d>>
      <3>1. CASE cells = Header
        <4>1. <<"n1">> \in ShortCells /\ <<"n2">> \in ShortCells
          BY DEF ShortCells, Marks
        <4> QED  BY <3>1, <4>1 DEF Header
      <3>2. CASE cells \in Rows
        <4>1. Len(cells) = 2
          BY <2>2, <2>3
        <4>2. \/ \E c, d \in Cells : cells = <<c, d>>
              \/ \E x \in Times : cells = <<<<"v">>, <<x>>>>
          <5> HIDE DEF cells
          <5> QED  BY <3>2, <4>1, PairsOfRows, Zenon
        <4>3. ASSUME NEW x \in Times, cells = <<<<"v">>, <<x>>>>
              PROVE  \E c, d \in ShortCells : cells = <<c, d>>
          <5>1. <<"v">> \in ShortCells /\ <<x>> \in ShortCells
            BY DEF Times, ShortCells, Marks
          <5> QED  BY <4>3, <5>1
        <4>4. ASSUME NEW c \in Cells, NEW d \in Cells, cells = <<c, d>>
              PROVE  \E a, b \in ShortCells : cells = <<a, b>>
          <5>1. ~ Contains(c, "break") /\ ~ Contains(d, "break")
            <6>1. 1 \in DOMAIN cells /\ 2 \in DOMAIN cells /\ cells[1] = c /\ cells[2] = d
              BY <4>4
            <6> QED  BY <2>2, <6>1
          <5>2. Contains(<<"v", "break">>, "break")
            BY DEF Contains
          <5>3. c # <<"v", "break">> /\ d # <<"v", "break">>
            BY <5>1, <5>2
          <5>4. \A x \in Cells : x # <<"v", "break">> => x \in ShortCells
            BY DEF Cells, ShortCells, Marks
          <5> QED  BY <4>4, <5>3, <5>4
        <4> QED  BY <4>2, <4>3, <4>4
      <3> QED  BY <2>1, <3>1, <3>2
    <2>5. PICK c \in ShortCells, d \in ShortCells : cells = <<c, d>>
      BY <2>4
    <2>6. /\ Tab => c # <<>> /\ d # <<>>
          /\ c # <<>> => c[1] # "space"
          /\ d # <<>> => d[Len(d)] # "space"
      <3>1. cells[1] = c /\ cells[2] = d /\ Len(cells) = 2
        BY <2>5
      <3> HIDE DEF cells
      <3> QED  BY <2>2, <3>1 DEF LosesEnds
    <2>7. Broken(t) = <<t>> /\ t # <<>> /\ Trimmed(t) = t /\ SplitDelimited(t) = cells
      <3>1. t = Tokens(<<c, d>>)
        BY <2>5
      <3> HIDE DEF t
      <3> QED  BY <2>5, <2>6, <3>1, RowRead
    <2> HIDE DEF t
    <2> DEFINE lines == [n \in DOMAIN Broken(t) |-> [is |-> "row", tokens |-> Broken(t)[n]]]
    <2>8. LinesOf(item) = lines
      BY <1>5, Zenon DEF LinesOf, t
    <2>9. lines = <<[is |-> "row", tokens |-> t]>>
      <3> DEFINE row == [is |-> "row", tokens |-> t]
      <3>1. DOMAIN Broken(t) = 1 .. 1 /\ Broken(t)[1] = t
        BY <2>7
      <3>2. lines = [n \in 1 .. 1 |-> row]
        BY <3>1
      <3> HIDE DEF row, lines
      <3>3. [n \in 1 .. 1 |-> row] = <<row>>
        OBVIOUS
      <3> QED  BY <3>2, <3>3 DEF row
    <2>10. LineOf(item) = [is |-> "row", tokens |-> t]
      BY <1>5 DEF LineOf, t
    <2>11. ~ IsBlank(LineOf(item)) /\ LineOf(item).tokens = t
      BY <2>7, <2>10 DEF IsBlank
    <2>12. Len(cells) = 2
      BY <2>2, <2>3
    <2> HIDE DEF lines, cells
    <2> QED  BY <1>5, <2>7, <2>8, <2>9, <2>10, <2>11, <2>12 DEF cells
  <1>6. item.is # "list"
    BY ItemsAre DEF Fits
  <1> QED  BY <1>2, <1>3, <1>4, <1>5, <1>6, ThingKinds

LEMMA LinesAre ==
  ASSUME Written, Regular, runtime = "node", content # "json_array"
  PROVE  Len(Lines) = Len(items) /\ \A i \in 1 .. Len(items) : Lines[i] = LineOf(items[i])
  <1> DEFINE S == {LineOf(x) : x \in Things}
             g == [i \in 1 .. Len(items) |-> LineOf(items[i])]
             s == [i \in DOMAIN items |-> LinesOf(items[i])]
  <1>1. /\ items \in Seq(Things) /\ Len(items) \in Nat /\ DOMAIN items = 1 .. Len(items)
        /\ \A i \in 1 .. Len(items) : items[i] \in Things
    BY DEF Written
  <1>2. g \in Seq(S) /\ Len(g) = Len(items)
    <2>1. \A i \in 1 .. Len(items) : LineOf(items[i]) \in S
      BY <1>1
    <2> HIDE DEF S
    <2> QED  BY <1>1, <2>1
  <1>3. \A i \in 1 .. Len(items) : g[i] = LineOf(items[i])
    OBVIOUS
  <1> HIDE DEF g, S
  <1>4. s = [i \in 1 .. Len(g) |-> <<g[i]>>]
    BY <1>1, <1>2, <1>3, ItemIsLine
  <1>5. Lines = FlattenSeq(s)
    BY DEF Lines
  <1> HIDE DEF s
  <1>6. Lines = g
    BY <1>2, <1>4, <1>5, FlattenUnits
  <1> QED  BY <1>2, <1>3, <1>6

\* The line the reader is at.
LEMMA LineHere ==
  ASSUME ReaderInv, Regular, runtime = "node", content # "json_array", pos < Len(Lines)
  PROVE  /\ Written /\ Faithful /\ HeaderRead
         /\ pos \in Nat /\ pos < Len(items) /\ pos + 1 \in 1 .. Len(items) /\ (pos + 1) - 1 = pos
         /\ NodeLine = LineOf(items[pos + 1])
         /\ IsBlank(NodeLine) <=> items[pos + 1].is \in {"blank", "spaces"}
         /\ items[pos + 1].is # "row" => NodeLine = items[pos + 1]
         /\ items[pos + 1].is \in {"blank", "spaces", "doc", "row"}
         /\ Fits(items, pos + 1, content)
  <1>1. Written /\ Faithful /\ HeaderRead
    BY DEF ReaderInv, Tracks
  <1>2. Len(Lines) = Len(items) /\ \A i \in 1 .. Len(items) : Lines[i] = LineOf(items[i])
    BY <1>1, LinesAre
  <1>3. pos \in Nat /\ pos < Len(items) /\ pos + 1 \in 1 .. Len(items) /\ (pos + 1) - 1 = pos
    BY <1>1, <1>2 DEF Faithful, Written
  <1>4. NodeLine = LineOf(items[pos + 1])
    BY <1>2, <1>3 DEF NodeLine
  <1>5. IsBlank(NodeLine) <=> items[pos + 1].is \in {"blank", "spaces"}
    BY <1>1, <1>3, <1>4, ItemIsLine
  <1>6. items[pos + 1].is # "row" => NodeLine = items[pos + 1]
    BY <1>4 DEF LineOf
  <1>7. items[pos + 1].is \in {"blank", "spaces", "doc", "row"} /\ Fits(items, pos + 1, content)
    <2>1. Fits(items, pos + 1, content)
      BY <1>1, <1>3, ItemsAre
    <2>2. items[pos + 1].is # "list"
      BY <2>1 DEF Fits
    <2> QED  BY <1>1, <1>3, <2>1, <2>2, ItemsAre
  <1> QED  BY <1>1, <1>3, <1>4, <1>5, <1>6, <1>7

\* Off the awkward content nothing is promised of the position.
LEMMA IrregularKeeps ==
  ASSUME ReaderInv, ~ Regular, UNCHANGED objectVars, phase # "write",
         phase' \in {"read", "emit", "stalled", "end"}
  PROVE  ReaderInv'
  <1>1. Written' /\ Ledger' /\ ~ Regular'
    BY ObjectFixed DEF ReaderInv
  <1> QED  BY <1>1 DEF ReaderInv

LEMMA NodeAdvanceKeeps ==
  ASSUME ReaderInv, Advance, phase = "read", runtime = "node", content # "json_array", pos < Len(Lines),
         Regular =>
           /\ PassedBy \/ Taken
           /\ \/ UNCHANGED <<header, headed>> /\ (items[pos + 1].is = "row" => headed)
              \/ items[pos + 1].is = "row" /\ headed' = TRUE /\ header' = Header
           /\ content = "jsonl" /\ items[pos + 1].is = "doc" => items[pos + 1].doc \in Accepts
  PROVE  ReaderInv'
  <1>1. UNCHANGED <<objectVars, phase, outcome, fault>> /\ pos' = pos + 1
    BY DEF Advance
  <1>2. CASE Regular
    BY <1>1, <1>2, LineHere, AdvanceKeeps
  <1>3. CASE ~ Regular
    BY <1>1, <1>3, IrregularKeeps
  <1> QED  BY <1>2, <1>3

LEMMA NodeSkipKeeps == ASSUME ReaderInv, NodeSkip PROVE ReaderInv'
  <1>1. /\ runtime = "node" /\ phase = "read" /\ pos < Len(Lines) /\ IsBlank(NodeLine)
        /\ Advance /\ UNCHANGED <<header, headed, out>> /\ content # "json_array"
    BY DEF NodeSkip, Reading, ReaderInv, Written
  <1>2. Regular => PassedBy /\ items[pos + 1].is \notin {"row", "doc"}
    <2>1. SUFFICES ASSUME Regular PROVE PassedBy /\ items[pos + 1].is \notin {"row", "doc"}
      OBVIOUS
    <2>2. items[pos + 1].is \in {"blank", "spaces"}
      BY <1>1, <2>1, LineHere
    <2> QED  BY <1>1, <2>2 DEF PassedBy, Yields
  <1> QED  BY <1>1, <1>2, NodeAdvanceKeeps

LEMMA NodeReadLineKeeps == ASSUME ReaderInv, NodeReadLine PROVE ReaderInv'
  <1>1. /\ runtime = "node" /\ phase = "read" /\ content = "lines" /\ pos < Len(Lines)
        /\ ~ IsBlank(NodeLine) /\ Yield(NodeLine.doc, FALSE) /\ Advance /\ UNCHANGED <<header, headed>>
    BY FormatIs DEF NodeReadLine, Node, ReaderInv
  <1>2. Regular => Taken /\ items[pos + 1].is = "doc"
    <2>1. SUFFICES ASSUME Regular PROVE Taken /\ items[pos + 1].is = "doc"
      OBVIOUS
    <2>2. items[pos + 1].is = "doc" /\ NodeLine = items[pos + 1]
      BY <1>1, <2>1, LineHere DEF Fits
    <2>3. Yields(items, pos + 1) /\ RecordOf(items[pos + 1]).line = items[pos + 1].doc
      BY <2>2 DEF Yields, RecordOf, DocRecord
    <2> QED  BY <1>1, <2>2, <2>3 DEF Taken
  <1> QED  BY <1>1, <1>2, NodeAdvanceKeeps

\* A JSON line is the document the writer meant.
LEMMA NodeJsonLine ==
  ASSUME ReaderInv, Regular, runtime = "node", content = "jsonl", pos < Len(Lines), ~ IsBlank(NodeLine)
  PROVE  /\ items[pos + 1].is = "doc" /\ NodeLine = items[pos + 1]
         /\ items[pos + 1].doc \in Docs \ {"sep", "nan", "big"}
         /\ pos + 1 \in DOMAIN items /\ Accepts = NodeAccepts
  <1>1. items[pos + 1].is = "doc" /\ NodeLine = items[pos + 1] /\ pos + 1 \in 1 .. Len(items) /\ Written
    BY LineHere DEF Fits
  <1>2. items[pos + 1].doc \in Docs
    BY <1>1, ItemsAre
  <1>3. items[pos + 1].doc \notin {"sep", "nan", "big"}
    BY <1>1, ItemIsLine
  <1>4. pos + 1 \in DOMAIN items
    BY <1>1 DEF Written
  <1> QED  BY <1>1, <1>2, <1>3, <1>4 DEF Accepts

LEMMA NodeReadJsonKeeps == ASSUME ReaderInv, NodeReadJson PROVE ReaderInv'
  <1>1. /\ runtime = "node" /\ phase = "read" /\ content = "jsonl" /\ pos < Len(Lines)
        /\ ~ IsBlank(NodeLine) /\ NodeLine.doc \in NodeAccepts
        /\ Yield(Parsed(NodeLine.doc), OwnStamp(NodeLine.doc))
        /\ Advance /\ UNCHANGED <<header, headed>>
    BY FormatIs DEF NodeReadJson, Node, ReaderInv
  <1>2. Regular => Taken /\ items[pos + 1].is = "doc" /\ items[pos + 1].doc \in Accepts
    <2>1. SUFFICES ASSUME Regular PROVE Taken /\ items[pos + 1].is = "doc" /\ items[pos + 1].doc \in Accepts
      OBVIOUS
    <2>2. /\ items[pos + 1].is = "doc" /\ NodeLine = items[pos + 1] /\ Accepts = NodeAccepts
          /\ Parsed(items[pos + 1].doc) = items[pos + 1].doc
      BY <1>1, <2>1, NodeJsonLine DEF Parsed
    <2>3. Taken
      BY <1>1, <2>2, DocTaken
    <2> QED  BY <1>1, <2>2, <2>3
  <1> QED  BY <1>1, <1>2, NodeAdvanceKeeps

LEMMA NodeRejectJsonKeeps == ASSUME ReaderInv, NodeRejectJson PROVE ReaderInv'
  <1>1. /\ runtime = "node" /\ phase = "read" /\ content = "jsonl" /\ pos < Len(Lines)
        /\ ~ IsBlank(NodeLine) /\ NodeLine.doc \notin NodeAccepts
        /\ End("permanent") /\ UNCHANGED <<objectVars, readVars, fault>>
    BY FormatIs DEF NodeRejectJson, Node, ReaderInv
  <1>2. Regular => Hopeless /\ fault = "none"
    <2>1. SUFFICES ASSUME Regular PROVE Hopeless /\ fault = "none"
      OBVIOUS
    <2>2. /\ items[pos + 1].is = "doc" /\ items[pos + 1].doc \in {"bad", "bom"}
          /\ pos + 1 \in DOMAIN items
      BY <1>1, <2>1, NodeJsonLine DEF NodeAccepts
    <2>3. fault = "none"
      BY <1>1, <2>1 DEF ReaderInv, Tracks, Ending
    <2> QED  BY <1>1, <2>2, <2>3 DEF Hopeless
  <1>3. Regular => Told("permanent", fault')
    BY <1>1, <1>2 DEF Told
  <1> QED  BY <1>1, <1>3, EndKeeps

\* A CSV line is a row of two cells.
LEMMA NodeCsvLine ==
  ASSUME ReaderInv, Regular, runtime = "node", content = "csv", pos < Len(Lines), ~ IsBlank(NodeLine)
  PROVE  /\ items[pos + 1].is = "row" /\ Len(items[pos + 1].cells) = 2
         /\ SplitDelimited(Trimmed(NodeLine.tokens)) = items[pos + 1].cells
  <1>1. /\ items[pos + 1].is = "row" /\ NodeLine = LineOf(items[pos + 1])
        /\ pos + 1 \in 1 .. Len(items) /\ Written
    BY LineHere DEF Fits
  <1> QED  BY <1>1, ItemIsLine

LEMMA NodeReadHeaderKeeps == ASSUME ReaderInv, NodeReadHeader PROVE ReaderInv'
  <1>1. /\ runtime = "node" /\ phase = "read" /\ content = "csv" /\ pos < Len(Lines) /\ ~ headed
        /\ ~ IsBlank(NodeLine) /\ Advance /\ out' = out
        /\ header' = SplitDelimited(Trimmed(NodeLine.tokens)) /\ headed' = TRUE
    BY FormatIs DEF NodeReadHeader, Node, ReaderInv
  <1>2. Regular => items[pos + 1].is = "row" /\ header' = Header /\ PassedBy
    <2>1. SUFFICES ASSUME Regular PROVE items[pos + 1].is = "row" /\ header' = Header /\ PassedBy
      OBVIOUS
    <2>2. items[pos + 1].is = "row" /\ header' = items[pos + 1].cells
      BY <1>1, <2>1, NodeCsvLine
    <2>3. ~ \E j \in 1 .. pos : items[j].is = "row"
      BY <1>1, <2>1, LineHere DEF HeaderRead
    <2>4. ~ Yields(items, pos + 1) /\ Fits(items, pos + 1, content)
      <3>1. (pos + 1) - 1 = pos /\ Fits(items, pos + 1, content)
        BY <1>1, <2>1, LineHere
      <3> QED  BY <2>2, <2>3, <3>1 DEF Yields
    <2> QED  BY <1>1, <2>2, <2>4 DEF Fits, PassedBy
  <1> QED  BY <1>1, <1>2, NodeAdvanceKeeps

LEMMA NodeRowIsRecord ==
  ASSUME NEW cells, cells \in Rows \cup {Header}, Len(cells) = 2, header = Header
  PROVE  NodeRow(cells) = Record(cells)
  <1>1. Len(Header) = 2 /\ DOMAIN Header = 1 .. 2
    BY DEF Header
  <1>2. DOMAIN cells = 1 .. 2
    BY DEF Rows, Header
  <1> DEFINE a == [i \in DOMAIN Header |-> IF i <= Len(cells) THEN cells[i] ELSE Null]
             b == [i \in DOMAIN header \cap DOMAIN cells |-> cells[i]]
  <1>3. a = b
    BY <1>1, <1>2
  <1>4. SubSeq(cells, Len(Header) + 1, Len(cells)) = <<>>
    <2>1. Len(Header) + 1 = 3 /\ Len(cells) = 2
      BY <1>1
    <2>2. SubSeq(cells, 3, 2) = <<>>
      BY SubSeqEmpty
    <2> QED  BY <2>1, <2>2
  <1>5. (IF Len(cells) > Len(header) THEN <<cells[Len(cells)]>> ELSE <<>>) = <<>>
    BY <1>1
  <1>6. Record(cells) = [named |-> a, extra |-> SubSeq(cells, Len(Header) + 1, Len(cells))]
    BY DEF Record
  <1>7. NodeRow(cells) = [named |-> b, extra |-> IF Len(cells) > Len(header) THEN <<cells[Len(cells)]>> ELSE <<>>]
    BY DEF NodeRow
  <1> HIDE DEF a, b
  <1> QED  BY <1>3, <1>4, <1>5, <1>6, <1>7

LEMMA NodeReadRowKeeps == ASSUME ReaderInv, NodeReadRow PROVE ReaderInv'
  <1>1. /\ runtime = "node" /\ phase = "read" /\ content = "csv" /\ pos < Len(Lines) /\ headed
        /\ ~ IsBlank(NodeLine) /\ Advance /\ UNCHANGED <<header, headed>>
        /\ Yield(NodeRow(SplitDelimited(Trimmed(NodeLine.tokens))), FALSE)
    BY FormatIs DEF NodeReadRow, Node, ReaderInv
  <1>2. Regular => Taken /\ items[pos + 1].is = "row"
    <2>1. SUFFICES ASSUME Regular PROVE Taken /\ items[pos + 1].is = "row"
      OBVIOUS
    <2> DEFINE cells == items[pos + 1].cells
    <2>2. /\ items[pos + 1].is = "row" /\ Len(cells) = 2
          /\ SplitDelimited(Trimmed(NodeLine.tokens)) = cells
      BY <1>1, <2>1, NodeCsvLine
    <2>3. /\ header = Header /\ \E j \in 1 .. pos : items[j].is = "row"
          /\ (pos + 1) - 1 = pos /\ pos + 1 \in 1 .. Len(items) /\ Written
      BY <1>1, <2>1, LineHere DEF HeaderRead
    <2>4. Yields(items, pos + 1) /\ RecordOf(items[pos + 1]).line = Record(cells)
      BY <2>2, <2>3 DEF Yields, RecordOf, RowRecord
    <2>5. cells \in Rows \cup {Header}
      BY <2>2, <2>3, ItemsAre
    <2> HIDE DEF cells
    <2>6. NodeRow(cells) = Record(cells)
      BY <2>2, <2>3, <2>5, NodeRowIsRecord
    <2> QED  BY <1>1, <2>2, <2>4, <2>6 DEF Taken
  <1> QED  BY <1>1, <1>2, NodeAdvanceKeeps

LEMMA NodeReadEndKeeps == ASSUME ReaderInv, NodeReadEnd PROVE ReaderInv'
  <1>1. /\ runtime = "node" /\ phase = "read" /\ ~ Reading("json_array") /\ pos = Len(Lines)
        /\ UNCHANGED <<objectVars, readVars, fault>> /\ Written
        /\ End(IF Reading("csv") /\ ~ headed THEN "permanent" ELSE "done")
    BY DEF NodeReadEnd, ReaderInv
  <1>2. /\ content \in Formats \ {"json_array"} /\ (Reading("csv") <=> content = "csv")
    <2>1. content = Resolved(key, override) /\ content \in Formats
      BY <1>1 DEF Written, Resolved, DetectFormat, Formats
    <2> QED  BY <1>1, <2>1 DEF Reading
  <1>3. CASE Regular
    <2>1. pos = Len(items)
      <3>1. content # "json_array"
        BY <1>2
      <3> QED  BY <1>1, <1>3, <3>1, LinesAre
    <2> QED  BY <1>1, <1>2, <2>1, StreamEnds
  <1>4. CASE ~ Regular
    BY <1>1, <1>4, IrregularKeeps DEF End
  <1> QED  BY <1>3, <1>4

LEMMA StallKeeps == ASSUME ReaderInv, NodeStall PROVE ReaderInv'
  <1>1. /\ phase = "read" /\ fault' = "reset" /\ phase' = "stalled"
        /\ UNCHANGED <<objectVars, readVars, outcome>>
    BY DEF NodeStall
  <1>2. Written' /\ Ledger' /\ (Regular' <=> Regular)
    BY <1>1, ObjectFixed DEF ReaderInv
  <1>3. ASSUME Regular PROVE Tracks'
    <2>1. Tracks /\ outcome = "none" /\ Written
      BY <1>1, <1>3 DEF ReaderInv, Tracks, Ending
    <2>2. Ending'
      BY <1>1, <2>1 DEF Ending, Told
    <2> QED  BY <1>1, <2>1, <2>2, UnmovedTracks
  <1> QED  BY <1>1, <1>2, <1>3 DEF ReaderInv

\* An answer without a body is refused for good.
LEMMA NoBodyKeeps == ASSUME ReaderInv, NodeNoBody PROVE ReaderInv'
  <1>1. fault' = "noBody" /\ End("permanent") /\ UNCHANGED <<objectVars, readVars>>
    BY DEF NodeNoBody
  <1>2. Told("permanent", fault')
    BY <1>1 DEF Told, Lasting
  <1> QED  BY <1>1, <1>2, EndKeeps

LEMMA KilledKeeps == ASSUME ReaderInv, Killed PROVE ReaderInv'
  <1>1. phase = "stalled" /\ End("killed") /\ UNCHANGED <<objectVars, readVars, fault>>
    BY DEF Killed
  <1>2. Regular => Told("killed", fault')
    BY <1>1 DEF ReaderInv, Tracks, Ending, Told
  <1> QED  BY <1>1, <1>2, EndKeeps

LEMMA NodeReadKeeps == ASSUME ReaderInv, NodeRead PROVE ReaderInv'
  <1>1. runtime = "node" => Accepts = NodeAccepts
    BY DEF Accepts
  <1>2. CASE runtime = "node" /\ ParseDocument(NodeAccepts)
    BY <1>1, <1>2, ParseKeeps
  <1>3. ASSUME runtime = "node", NEW i \in {pos + 1} \cap DOMAIN items, EmitElement(Parsed(items[i].doc))
        PROVE  ReaderInv'
    <2> DEFINE d == items[pos + 1].doc
    <2>1. EmitElement(Parsed(d)) /\ phase = "emit" /\ UNCHANGED objectVars /\ phase' = phase
      BY <1>3 DEF EmitElement
    <2>2. CASE Regular
      <3>1. Written /\ content = "json_array" /\ OnlyGood /\ Faithful
        BY <2>1, <2>2 DEF ReaderInv, Tracks, OnlyGood
      <3>2. pos + 1 \in 1 .. Len(items) /\ i = pos + 1
        BY <1>3, <3>1 DEF Written
      <3>3. items[pos + 1].is = "doc"
        <4>1. pos \in Nat /\ (IsList => pos >= 1)
          BY <2>1, <3>1 DEF OnlyGood, Faithful
        <4>2. items[pos + 1].is = "doc" \/ (pos + 1 = 1 /\ IsList)
          BY <3>1, <3>2, ElementsAre
        <4> QED  BY <4>1, <4>2
      <3>5. d # "big"
        BY <1>3, <2>2, <3>1, <3>2, <3>3 DEF Regular, Awkward, Written
      <3>4. Parsed(d) = d
        BY <3>5 DEF Parsed
      <3> QED  BY <2>1, <3>4, EmitKeeps
    <2>3. CASE ~ Regular
      BY <2>1, <2>3, IrregularKeeps
    <2> QED  BY <2>2, <2>3
  <1> QED  BY <1>2, <1>3, EmitEndKeeps, NoBodyKeeps, NodeSkipKeeps, NodeReadLineKeeps, NodeReadJsonKeeps,
              NodeRejectJsonKeeps, NodeReadHeaderKeeps, NodeReadRowKeeps, NodeReadEndKeeps DEF NodeRead

-----------------------------------------------------------------------------
(* The theorems.                                                           *)

LEMMA ReaderInit == Init => ReaderInv
  <1> SUFFICES ASSUME Init PROVE ReaderInv
    OBVIOUS
  <1>1. content = Resolved(key, override)
    BY DEF Init, Resolved, DetectFormat, Conventional, Keys
  <1>2. items = <<>> /\ meant = <<>> /\ Len(items) = 0 /\ Len(meant) = 0
    BY DEF Init
  <1>3. items \in Seq(Things) /\ meant \in Seq(Records(content))
    BY <1>2, EmptySeq
  <1>4. Written
    BY <1>1, <1>2, <1>3 DEF Init, Written
  <1>5. Ledger
    BY <1>2, DueZero DEF Ledger
  <1>6. Fresh /\ phase = "write"
    BY DEF Init, Fresh
  <1>7. Tracks
    BY <1>4, <1>6, FreshTracks DEF Unread
  <1> QED  BY <1>4, <1>5, <1>6, <1>7 DEF ReaderInv

LEMMA ReaderStep == ReaderInv /\ [Next]_vars => ReaderInv'
  <1> SUFFICES ASSUME ReaderInv, [Next]_vars PROVE ReaderInv'
    OBVIOUS
  <1>1. CASE UNCHANGED vars
    <2>1. UNCHANGED <<objectVars, readVars>> /\ UNCHANGED <<phase, outcome, fault>>
      BY <1>1 DEF vars
    <2>2. UNCHANGED <<pos, header, headed, out>>
      BY <2>1 DEF readVars
    <2>3. Written' /\ Ledger' /\ (Regular' <=> Regular)
      BY <2>1, ObjectFixed DEF ReaderInv
    <2>4. phase = "write" => Fresh'
      BY <2>1, <2>2 DEF ReaderInv, Fresh
    <2>5. ASSUME Regular PROVE Tracks'
      <3>1. Tracks
        BY <2>5 DEF ReaderInv
      <3>2. /\ items' = items /\ content' = content /\ runtime' = runtime /\ meant' = meant
        BY <2>1 DEF objectVars
      <3>3. /\ Size' = Size /\ (IsList' <=> IsList) /\ (Hopeless' <=> Hopeless) /\ Accepts' = Accepts
        BY <2>1, MeasuresFixed
      <3>4. Ending' /\ OnlyGood'
        BY <2>1, <2>2, <3>1, <3>2, <3>3 DEF Tracks, Ending, OnlyGood, Told
      <3> QED  BY <2>1, <2>3, <3>1, <3>4, UnmovedTracks DEF ReaderInv
    <2> QED  BY <2>1, <2>3, <2>4, <2>5 DEF ReaderInv
  <1>2. CASE Next
    BY <1>2, WriteKeeps, OpenKeeps, GetFailsKeeps, ReadKeeps, NodeReadKeeps, StreamFailsKeeps,
       StallKeeps, KilledKeeps DEF Next
  <1> QED  BY <1>1, <1>2

THEOREM ReaderInvariant == Spec => []ReaderInv
  BY ReaderInit, ReaderStep, PTL DEF Spec

\* Whatever an object is long, and whatever its format and its reader: outside
\* the content either library is known to misread, what `lines` yields is what
\* the writer meant, record by record and from the first, and a read that
\* completes has yielded all of it.
THEOREM ReadsExactly == Spec => []RecordsExact
  <1>1. ReaderInv => RecordsExact
    <2> SUFFICES ASSUME ReaderInv, Regular
                 PROVE  /\ Len(out) <= Len(meant)
                        /\ \A n \in DOMAIN out : out[n] = Meant(n)
                        /\ outcome = "done" => Len(out) = Len(meant)
      BY DEF RecordsExact
    <2>1. Written /\ Ledger /\ Faithful /\ Ending
      BY DEF ReaderInv, Tracks
    <2>2. pos \in Nat /\ Len(items) \in Nat /\ pos <= Len(items)
      BY <2>1 DEF Faithful, Written
    <2>3. Due(items, pos) <= Due(items, Len(items))
      BY <2>2, DueMono
    <2>4. DOMAIN out = 1 .. Len(out)
      BY <2>1 DEF Faithful
    <2> QED  BY <2>1, <2>3, <2>4 DEF Faithful, Ledger, Ending
  <1> QED  BY <1>1, ReaderInvariant, PTL

\* Whatever the object: a read is called permanently failed only for a lasting
\* failure or content no reader can make records of, or by Node for the two
\* failures it is known to give up on (NodeGivesUp), and it ends well only where
\* nothing failed and the content was readable.
THEOREM EndsHonestly == Spec => []OutcomeHonest
  <1>1. ReaderInv => OutcomeHonest
    <2> SUFFICES ASSUME ReaderInv, Regular
                 PROVE  /\ Told(outcome, fault)
                        /\ outcome = "done" =>
                             fault = "none" /\ (Hopeless => runtime = "node" /\ meant[1].line = "bom")
      BY DEF OutcomeHonest, Told, NodeGivesUp
    <2>1. Written /\ Ledger /\ Faithful /\ HeaderRead /\ OnlyGood /\ Ending
      BY DEF ReaderInv, Tracks
    <2>2. DOMAIN items = 1 .. Len(items) /\ Len(items) \in Nat
      BY <2>1 DEF Written
    <2>3. ASSUME outcome = "done", Hopeless PROVE runtime = "node" /\ meant[1].line = "bom"
      <3>1. pos = Len(items) /\ (content = "csv" => headed)
        BY <2>1, <2>3 DEF Ending
      <3>2. ~ (content = "csv" /\ \A i \in DOMAIN items : items[i].is # "row")
        BY <2>1, <2>2, <3>1 DEF HeaderRead
      <3>3. ~ (content = "json_array" /\ (Size > MaxJson \/ (~ IsList /\ Len(items) # 1)))
        <4>1. content = "json_array" => Size <= MaxJson /\ (IsList \/ Len(items) = 1)
          BY <2>1, <2>3 DEF OnlyGood
        <4> QED  BY <2>1, <4>1, SizeIsNat, ObjectReaderAssumption
      <3>4. PICK i \in 1 .. Len(items) : items[i].is = "doc" /\ items[i].doc \in {"bad", "bom"}
                                         /\ content \in {"jsonl", "json_array"}
        BY <2>2, <2>3, <3>2, <3>3 DEF Hopeless
      <3>5. items[i].doc \in Accepts
        BY <2>1, <2>3, <3>1, <3>4 DEF OnlyGood
      <3>6. items[i].doc = "bom" /\ runtime = "node"
        BY <2>1, <3>4, <3>5 DEF Accepts, PythonAccepts, NodeAccepts, Written
      <3>7. i = 1
        BY <2>1, <3>4, <3>6, ItemsAre DEF Fits
      <3>8. Yields(items, 1) /\ RecordOf(items[1]).line = "bom"
        BY <3>4, <3>6, <3>7 DEF Yields, RecordOf, DocRecord
      <3>9. Due(items, 1) = 1
        <4>1. 0 + 1 = 1 /\ 0 \in Nat
          OBVIOUS
        <4>2. Due(items, 0 + 1) = Due(items, 0) + 1
          BY <3>8, <4>1, DueNext
        <4> QED  BY <4>1, <4>2, DueZero
      <3> QED  BY <2>1, <3>4, <3>6, <3>7, <3>8, <3>9 DEF Ledger
    <2> QED  BY <2>1, <2>3 DEF Ending
  <1> QED  BY <1>1, ReaderInvariant, PTL
=============================================================================
