----------------------------- MODULE NodeReader ------------------------------
(***************************************************************************)
(* S3ObjectReader.lines of the Node library, on the objects ObjectReader's *)
(* writer makes, and what both readers promise of them.  Source:           *)
(* common/nodejs/src/aws/s3.ts.                                            *)
(*                                                                         *)
(* The reader sees physical lines.  readline ends one at a line break and  *)
(* also at U+2028, so a document that holds one is two lines to it, and so *)
(* is a CSV row with a line break in a cell.                               *)
(***************************************************************************)
EXTENDS ObjectReader

\* A cell as RFC 4180 has it written: quoted if it has to be.
Encoded(cell) ==
  IF \E i \in DOMAIN cell : cell[i] \in {"delim", "quote", "break"}
  THEN <<"quote">>
         \o FlattenSeq([i \in DOMAIN cell |->
              IF cell[i] = "quote" THEN <<"quote", "quote">> ELSE <<cell[i]>>])
         \o <<"quote">>
  ELSE cell

\* A row as a sequence of tokens; one empty cell is quoted to be no blank line.
Tokens(cells) ==
  IF cells = <<<<>>>> THEN <<"quote", "quote">>
  ELSE FlattenSeq([i \in DOMAIN cells |->
         IF i = 1 THEN Encoded(cells[i]) ELSE <<"delim">> \o Encoded(cells[i])])

\* `current += char`, on the last of the lines or cells there are.
ToLast(parts, t) == [parts EXCEPT ![Len(parts)] = Append(@, t)]

\* createInterface: the lines of an item.
Broken(tokens) ==
  LET upTo[n \in 0 .. Len(tokens)] ==
        IF n = 0 THEN <<<<>>>>
        ELSE IF tokens[n] = "break" THEN Append(upTo[n - 1], <<>>)
        ELSE ToLast(upTo[n - 1], tokens[n])
  IN  upTo[Len(tokens)]

LinesOf(item) ==
  CASE item.is = "row" ->
         LET lines == Broken(Tokens(item.cells))
         IN  [n \in DOMAIN lines |-> [is |-> "row", tokens |-> lines[n]]]
    [] item.is = "doc" /\ item.doc = "sep" ->
         <<[is |-> "doc", doc |-> "bad"], [is |-> "doc", doc |-> "bad"]>>
    [] OTHER -> <<item>>

Lines == FlattenSeq([i \in DOMAIN items |-> LinesOf(items[i])])
NodeLine == Lines[pos + 1]

\* raw.trim() takes the spaces at both ends of a row, and the tabs of a TSV row.
Trimmed(tokens) ==
  LET kept == {i \in DOMAIN tokens : tokens[i] # "space" /\ ~(Tab /\ tokens[i] = "delim")}
  IN  IF kept = {} THEN <<>>
      ELSE SubSeq(tokens, CHOOSE i \in kept : \A j \in kept : i <= j,
                          CHOOSE i \in kept : \A j \in kept : j <= i)

\* splitDelimited, one token on: a doubled quote inside quotes stands for one,
\* and the "second" of the two is skipped.
Scan(acc, tokens, i) ==
  LET t == tokens[i]
      Kept(mode) == [cells |-> ToLast(acc.cells, t), mode |-> mode]
      Gone(mode) == [cells |-> acc.cells, mode |-> mode]
  IN  CASE acc.mode = "second" -> Gone("quoted")
        [] acc.mode = "quoted" /\ t = "quote" ->
             IF i < Len(tokens) /\ tokens[i + 1] = "quote" THEN Kept("second") ELSE Gone("plain")
        [] acc.mode = "plain" /\ t = "quote" -> Gone("quoted")
        [] acc.mode = "plain" /\ t = "delim" ->
             [cells |-> Append(acc.cells, <<>>), mode |-> "plain"]
        [] OTHER -> Kept(acc.mode)

SplitDelimited(tokens) ==
  LET upTo[n \in 0 .. Len(tokens)] ==
        IF n = 0 THEN [cells |-> <<<<>>>>, mode |-> "plain"] ELSE Scan(upTo[n - 1], tokens, n)
  IN  upTo[Len(tokens)].cells

\* The object built from a row: a cell without a column overwrites `_extra`.
NodeRow(cells) ==
  [named |-> [i \in DOMAIN header \cap DOMAIN cells |-> cells[i]],
   extra |-> IF Len(cells) > Len(header) THEN <<cells[Len(cells)]>> ELSE <<>>]

Node(format) == runtime = "node" /\ Reading(format)

IsBlank(line) == line.is \in {"blank", "spaces"} \/ (line.is = "row" /\ Trimmed(line.tokens) = <<>>)

NodeSkip ==
  /\ runtime = "node" /\ phase = "read" /\ ~Reading("json_array")
  /\ pos < Len(Lines) /\ IsBlank(NodeLine)
  /\ Advance /\ UNCHANGED <<header, headed, out>>

NodeReadLine ==
  /\ Node("lines") /\ pos < Len(Lines) /\ ~IsBlank(NodeLine)
  /\ Yield(NodeLine.doc, FALSE)
  /\ Advance /\ UNCHANGED <<header, headed>>

\* JSON.parse has no NaN and rounds large integers; trim() took a byte order
\* mark away.
NodeAccepts == Docs \ {"bad", "nan"}
Parsed(doc) == IF doc = "big" THEN "rounded" ELSE doc

NodeReadJson ==
  /\ Node("jsonl") /\ pos < Len(Lines) /\ ~IsBlank(NodeLine) /\ NodeLine.doc \in NodeAccepts
  /\ Yield(Parsed(NodeLine.doc), OwnStamp(NodeLine.doc))
  /\ Advance /\ UNCHANGED <<header, headed>>

NodeRejectJson ==
  /\ Node("jsonl") /\ pos < Len(Lines) /\ ~IsBlank(NodeLine) /\ NodeLine.doc \notin NodeAccepts
  /\ End("permanent")
  /\ UNCHANGED <<objectVars, readVars, fault>>

\* The first line with text is the header.
NodeReadHeader ==
  /\ Node("csv") /\ ~headed /\ pos < Len(Lines) /\ ~IsBlank(NodeLine)
  /\ header' = SplitDelimited(Trimmed(NodeLine.tokens)) /\ headed' = TRUE
  /\ Advance /\ UNCHANGED out

NodeReadRow ==
  /\ Node("csv") /\ headed /\ pos < Len(Lines) /\ ~IsBlank(NodeLine)
  /\ Yield(NodeRow(SplitDelimited(Trimmed(NodeLine.tokens))), FALSE)
  /\ Advance /\ UNCHANGED <<header, headed>>

NodeReadEnd ==
  /\ runtime = "node" /\ phase = "read" /\ ~Reading("json_array")
  /\ pos = Len(Lines)
  /\ End(IF Reading("csv") /\ ~headed THEN "permanent" ELSE "done")
  /\ UNCHANGED <<objectVars, readVars, fault>>

\* The type of the answer allows one without a body.
NodeNoBody ==
  /\ runtime = "node" /\ phase = "write"
  /\ fault' = "noBody"
  /\ End("permanent")
  /\ UNCHANGED <<objectVars, readVars>>

\* An error of zlib (Z_...) rejects the object, whatever it is about; one of
\* the connection is retryable when the reader sees it.
NodeStreamFails(f) ==
  /\ runtime = "node" /\ phase = "read"
  /\ f \in StreamFaults /\ (f = "notGzip" => pos = 0)
  /\ f = "reset" => ~key.gz
  /\ fault' = f
  /\ End(IF f = "reset" THEN "retryable" ELSE "permanent")
  /\ UNCHANGED <<objectVars, readVars>>

\* raw.pipe(createGunzip()): the connection breaks under the decompression,
\* which gets neither the error nor an end.  The read waits until the function
\* is stopped, or the error that nobody listens for stops it.
NodeStall ==
  /\ runtime = "node" /\ phase = "read" /\ key.gz
  /\ fault' = "reset"
  /\ phase' = "stalled"
  /\ UNCHANGED <<objectVars, readVars, outcome>>

Killed ==
  /\ phase = "stalled"
  /\ End("killed")
  /\ UNCHANGED <<objectVars, readVars, fault>>

NodeRead ==
  \/ NodeNoBody \/ NodeSkip \/ NodeReadLine \/ NodeReadJson \/ NodeRejectJson
  \/ NodeReadHeader \/ NodeReadRow \/ NodeReadEnd
  \/ runtime = "node" /\ ParseDocument(NodeAccepts)
  \/ runtime = "node" /\ \E i \in {pos + 1} \cap DOMAIN items : EmitElement(Parsed(items[i].doc))
  \/ runtime = "node" /\ EmitEnd

Next ==
  \/ Write
  \/ Open \/ \E err \in Errors : GetFails(err)
  \/ Read \/ NodeRead
  \/ \E f \in StreamFaults : StreamFails(f) \/ NodeStreamFails(f)
  \/ NodeStall \/ Killed

\* The function timeout stops a read that makes no progress.
Spec == Init /\ [][Next]_vars
FairSpec == Spec /\ WF_vars(Killed)

-----------------------------------------------------------------------------
(* Properties.                                                             *)

\* raw.trim() takes something off this row.
LosesEnds(cells) ==
  LET first == cells[1]
      last  == cells[Len(cells)]
  IN  \/ Tab /\ (first = <<>> \/ last = <<>>)
      \/ first # <<>> /\ first[1] = "space"
      \/ last # <<>> /\ last[Len(last)] = "space"

\* Content the reader of this runtime is known not to read as it was meant:
\* the CSV reader of Python takes a leading blank line for the header and a
\* line of spaces for a row; the Node reader splits at U+2028 and inside quoted
\* cells, trims the ends of a row, and represents rows of another length than
\* the header, NaN and large integers differently.
Awkward(i) ==
  LET item == items[i] IN
  IF runtime = "python"
  THEN content = "csv" /\ (item.is = "spaces" \/ (item.is = "blank" /\ i = 1))
  ELSE \/ item.is = "doc" /\ item.doc = "sep" /\ content # "json_array"
       \/ item.is = "doc" /\ item.doc \in {"nan", "big"} /\ content # "lines"
       \/ /\ item.is = "row"
          /\ \/ Len(item.cells) # Len(Header)
             \/ \E j \in DOMAIN item.cells : Contains(item.cells[j], "break")
             \/ LosesEnds(item.cells)

Regular == \A i \in DOMAIN items : ~Awkward(i)

\* The entry a record is meant to become: numbered in order, with the record's
\* own time if it has one the configuration accepts.
Meant(n) ==
  [record |-> n, line |-> meant[n].line,
   ts |-> CASE runtime = "node"                     -> "none"
            [] runtime = "python" /\ ExtractStamp
               /\ (meant[n].time = "dated" \/ (meant[n].time = "old" /\ ~LimitAge)) -> "own"
            [] OTHER -> "now"]

\* What a reader yields is what the writer meant, record by record and from the
\* first, at every moment and whatever fails later; a read that completes has
\* yielded all of it.  Outside the content listed above this holds of both
\* libraries, so they agree.
RecordsExact ==
  Regular =>
    /\ Len(out) <= Len(meant)
    /\ \A n \in DOMAIN out : out[n] = Meant(n)
    /\ outcome = "done" => Len(out) = Len(meant)

\* Content no reader can make records of.
Hopeless ==
  \/ content \in {"jsonl", "json_array"} /\ \E i \in DOMAIN items :
       items[i].is = "doc" /\ items[i].doc \in {"bad", "bom"}
  \/ content = "json_array" /\ (Size > MaxJson \/ (~IsList /\ Len(items) # 1))
  \/ content = "csv" /\ \A i \in DOMAIN items : items[i].is # "row"

\* Failures that are still there at the next try: S3 refused the object or sent
\* no body, or its bytes are not what its key says.
Lasting == {"refused", "noBody", "notGzip", "corrupt"}

\* The Node library calls two failures permanent that need not last, and that
\* the Python library leaves to a retry: no answer to the request, which has no
\* status for classifyS3Error (s3.ts:299, 318), and a compressed object that
\* ends early, which zlib reports (s3.ts:155), although the comment above it
\* counts "a stream that ended early" among the read failures worth a retry.
NodeGivesUp == runtime = "node" /\ fault \in {"noAnswer", "truncated"}

\* Those two apart, a failure is called permanent only if trying again cannot
\* help: it is a lasting one, or the content is hopeless; those two always are.
\* What is called retryable may pass, and only botocore's and zlib's own errors
\* stay unclassified, in Python.  A read that completes met no failure and the
\* content was readable; Node alone takes a byte order mark.
OutcomeHonest ==
  Regular =>
    /\ outcome = "permanent" =>
         fault \in Lasting \/ NodeGivesUp \/ (fault = "none" /\ Hopeless)
    /\ NodeGivesUp => outcome = "permanent"
    /\ outcome = "retryable" => fault \in {"transient", "reset", "truncated"}
    /\ outcome = "unclassified" => runtime = "python" /\ fault \in {"noAnswer", "reset", "corrupt"}
    /\ outcome = "done" =>
         fault = "none" /\ (Hopeless => runtime = "node" /\ meant[1].line = "bom")

\* "Everything else here is a read failure - a socket reset, a read timeout, a
\* stream that ended early" (s3.ts:148-150): the reader answers with a
\* RetryableError.
ResetIsRetryable ==
  (runtime = "node" /\ fault = "reset") ~> (outcome = "retryable")
=============================================================================
