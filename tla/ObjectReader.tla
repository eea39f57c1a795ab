---------------------------- MODULE ObjectReader -----------------------------
(***************************************************************************)
(* S3ObjectReader.lines: one S3 object becomes numbered log lines, and the *)
(* entries generic-s3 makes of them.  Source: common/python/src/           *)
(* grafana_cloud_common/aws/s3.py and examples/generic-s3/src/generic_s3/  *)
(* handler.py.                                                             *)
(*                                                                         *)
(* A writer first puts items in the object and notes the records they are  *)
(* meant to be; then the reader goes through them.  An item is             *)
(*   [is |-> "blank"] or [is |-> "spaces"]   a line without text           *)
(*   [is |-> "doc", doc]                     a line of text, or one JSON   *)
(*                                           document, see Docs            *)
(*   [is |-> "list"]                         the brackets of a JSON array  *)
(*                                           around the items that follow  *)
(*   [is |-> "row", cells]                   a CSV row; a cell is a        *)
(*                                           sequence of tokens            *)
(* Line terminators, character encodings and a byte order mark before a    *)
(* table or a text are left out.                                           *)
(***************************************************************************)
EXTENDS Integers, FiniteSets, Sequences, SequencesExt

CONSTANTS
  MaxItems,     \* bound on the items of one object
  MaxJson,      \* max_json_bytes, see Size
  ExtractStamp, \* TIMESTAMP_FIELD is set
  LimitAge      \* MAX_TIMESTAMP_AGE_SECONDS is set

ASSUME ObjectReaderAssumption ==
  /\ MaxItems \in Nat /\ MaxJson \in Nat
  /\ ExtractStamp \in BOOLEAN /\ LimitAge \in BOOLEAN

\* What a document is, as far as the readers tell them apart: "plain" has no
\* timestamp, "dated" a recent one, "old" one past the age limit, "undated" one
\* that does not parse; "nan" holds NaN, "big" an integer above 2^53, "sep" a
\* U+2028 inside a string; "bom" follows a byte order mark; "bad" is not JSON.
Docs == {"plain", "dated", "old", "undated", "nan", "big", "sep", "bom", "bad"}

\* The times a record can have: a recent one, and one past the age limit.
Times == {"dated", "old"}

\* Tokens of a cell: text, a space, a time, the delimiter, a quote, a line break.
Cells == {<<>>, <<"v">>, <<"space", "v">>, <<"v", "space">>, <<"delim">>, <<"quote">>,
          <<"v", "break">>}
Rows == {<<c>> : c \in {<<>>, <<"v">>}} \cup {<<c, d>> : c, d \in Cells}
          \cup {<<<<"v">>, <<t>>>> : t \in Times}
          \cup {<<<<"v">>, <<"dated">>, c>> : c \in {<<"v">>, <<"delim">>}}
Header == <<<<"n1">>, <<"n2">>>>
TimeColumn == 2  \* the column TIMESTAMP_FIELD names
Null == <<"null">>

Formats == {"lines", "jsonl", "json_array", "csv"}

\* detect_format: the key without its compression suffix decides.
DetectFormat(key) ==
  CASE key.ext \in {"jsonl", "ndjson"} -> "jsonl"
    [] key.ext = "json"                -> "json_array"
    [] key.ext \in {"csv", "tsv"}      -> "csv"
    [] OTHER                           -> "lines"

Keys == [ext : {"jsonl", "ndjson", "json", "csv", "tsv", "log"}, gz : BOOLEAN]

\* RECORD_FORMAT wins unless it is "auto".
Resolved(key, override) == IF override = "auto" THEN DetectFormat(key) ELSE override

\* What the name of an object says of its content to the one who writes it.
Conventional(ext) ==
  CASE ext \in {"jsonl", "ndjson"} -> "jsonl"
    [] ext = "json" -> "json_array"
    [] ext = "log"  -> "lines"
    [] OTHER        -> "csv"

VARIABLES
  key,       \* the object's key
  override,  \* RECORD_FORMAT of the function
  runtime,   \* "python" or "node": whose reader reads it
  content,   \* the format the writer follows
  items,     \* what the writer put in the object
  meant,     \* history: the records the items are meant to be, and their times
  phase,     \* "write", "read", "emit" (a decoded document) or "end"
  pos,       \* items or lines consumed
  header,    \* fieldnames of the CSV reader; <<>> for none or an empty one
  headed,    \* whether the header was read
  out,       \* what the generator yielded
  outcome,   \* how the read ended
  fault      \* history: what went wrong outside the code

objectVars == <<key, override, runtime, content, items, meant>>
readVars == <<pos, header, headed, out>>
vars == <<objectVars, phase, readVars, outcome, fault>>

Init ==
  /\ key \in Keys /\ override \in Formats \cup {"auto"}
  /\ runtime \in {"python", "node"}
  /\ content = IF override = "auto" THEN Conventional(key.ext) ELSE override
  /\ override = "auto" \/ key.ext = "log"
  /\ items = <<>> /\ meant = <<>>
  /\ phase = "write"
  /\ pos = 0 /\ header = <<>> /\ headed = FALSE /\ out = <<>>
  /\ outcome = "none" /\ fault = "none"

-----------------------------------------------------------------------------
(* The writer.                                                             *)

Tab == key.ext = "tsv"

\* A row as the writer means it: each column its cell, absent ones null, and
\* the cells that have no column.
Record(cells) ==
  [named |-> [i \in DOMAIN Header |-> IF i <= Len(cells) THEN cells[i] ELSE Null],
   extra |-> SubSeq(cells, Len(Header) + 1, Len(cells))]

\* The time of a record: of a document, or in its column.
DocTime(d) == IF d \in Times THEN d ELSE "none"
TimeIn(named) ==
  IF TimeColumn \in DOMAIN named /\ \E t \in Times : named[TimeColumn] = <<t>>
  THEN named[TimeColumn][1] ELSE "none"

DocRecord(d) == [line |-> d, time |-> DocTime(d)]
RowRecord(cells) == [line |-> Record(cells), time |-> TimeIn(Record(cells).named)]

Put(item, records) ==
  /\ phase = "write" /\ Len(items) < MaxItems
  /\ items' = Append(items, item)
  /\ meant' = meant \o records
  /\ UNCHANGED <<key, override, runtime, content, phase, readVars, outcome, fault>>

PutBlank(kind) == content # "json_array" /\ Put([is |-> kind], <<>>)

\* Documents in a row without brackets around them are not a JSON document.
PutList == content = "json_array" /\ items = <<>> /\ Put([is |-> "list"], <<>>)

PutDoc(d) ==
  /\ content # "csv"
  /\ d = "bom" => items = <<>> /\ content = "jsonl"
  /\ Put([is |-> "doc", doc |-> d], <<DocRecord(d)>>)

PutRow(cells) ==
  /\ content = "csv"
  /\ Put([is |-> "row", cells |-> cells],
         IF \E i \in DOMAIN items : items[i].is = "row" THEN <<RowRecord(cells)>> ELSE <<>>)

\* The first row is the header.
PutFirst == (\A i \in DOMAIN items : items[i].is # "row") /\ PutRow(Header)
PutLater == \E cells \in Rows : (\E i \in DOMAIN items : items[i].is = "row") /\ PutRow(cells)

Write == (\E k \in {"blank", "spaces"} : PutBlank(k)) \/ PutList
           \/ (\E d \in Docs : PutDoc(d)) \/ PutFirst \/ PutLater

-----------------------------------------------------------------------------
(* Both readers.                                                           *)

End(result) == phase' = "end" /\ outcome' = result

\* _timestamp_for: the record's own time when it is a usable one.
OwnStamp(time) == ExtractStamp /\ (time = "dated" \/ (time = "old" /\ ~LimitAge))

\* _entries: one log entry per record, numbered from 1.  The Node library leaves
\* the time to its caller.
Entry(line, stamp) ==
  [record |-> Len(out) + 1, line |-> line,
   ts |-> IF runtime = "node" THEN "none" ELSE IF stamp THEN "own" ELSE "now"]

Yield(line, stamp) == out' = Append(out, Entry(line, stamp))

\* The errors of GetObject, by code and HTTP status.  S3 means a refusal for
\* good; what is passing may be gone at the next try; and there may be no answer.
Refusals == {[code |-> "NoSuchKey", status |-> 404], [code |-> "Other", status |-> 404],
             [code |-> "AccessDenied", status |-> 403], [code |-> "Other", status |-> 403],
             [code |-> "Other", status |-> 400]}
Passing == {[code |-> "SlowDown", status |-> 503], [code |-> "RequestTimeout", status |-> 400],
            [code |-> "Other", status |-> 503]}
NoAnswer == [code |-> "TimeoutError", status |-> 0]

Errors == Refusals \cup Passing \cup {NoAnswer}

\* Mutant: the status is not looked at.
ClassifyByCode(err) ==
  IF err.code \in {"SlowDown", "RequestTimeout"} THEN "retryable" ELSE "permanent"

\* _classify_s3_error.
ClassifyS3Error(err) ==
  IF err.code \in {"NoSuchKey", "AccessDenied"} \/ err.status \in {403, 404} THEN "permanent"
  ELSE IF err.code \in {"SlowDown", "RequestTimeout"} \/ err.status >= 500 THEN "retryable"
  ELSE "permanent"

Open ==
  /\ phase = "write" /\ phase' = "read"
  /\ UNCHANGED <<objectVars, readVars, outcome, fault>>

\* botocore has no ClientError for no answer, so that leaves lines() as it is;
\* the Node client rejects with an error that has no status.
GetFails(err) ==
  /\ phase = "write"
  /\ fault' = CASE err = NoAnswer    -> "noAnswer"
                [] err \in Passing  -> "transient"
                [] err \in Refusals -> "refused"
  /\ End(IF runtime = "python" /\ err = NoAnswer THEN "unclassified" ELSE ClassifyS3Error(err))
  /\ UNCHANGED <<objectVars, readVars>>

Reading(format) == phase = "read" /\ Resolved(key, override) = format

\* The bytes of a document: one for an item and for the closing bracket, and one
\* more for a character that takes more than one or a number of many digits.
IsList == items # <<>> /\ items[1].is = "list"
Wide(i) == items[i].is = "doc" /\ items[i].doc \in {"sep", "big"}
Size == Len(items) + Cardinality({i \in DOMAIN items : Wide(i)}) + (IF IsList THEN 1 ELSE 0)

\* stream.read(max_json_bytes + 1): the byte too many tells a document that is
\* longer from one that just fits.
Payload == IF Size <= MaxJson + 1 THEN Size ELSE MaxJson + 1

\* What was read is one JSON document: all of it, a list or a single one.
Decodes(accepted) ==
  /\ Payload = Size
  /\ IsList \/ Len(items) = 1
  /\ \A i \in DOMAIN items : items[i].is = "doc" => items[i].doc \in accepted

\* A document is decoded as a whole or not at all; one that is no list is the
\* only element.
ParseDocument(accepted) ==
  /\ Reading("json_array")
  /\ IF Payload <= MaxJson /\ Decodes(accepted)
     THEN /\ phase' = "emit" /\ pos' = (IF IsList THEN 1 ELSE 0)
          /\ UNCHANGED outcome
     ELSE End("permanent") /\ UNCHANGED pos
  /\ UNCHANGED <<objectVars, header, headed, out, fault>>

EmitElement(line) ==
  /\ phase = "emit" /\ pos < Len(items)
  /\ Yield(line, OwnStamp(line)) /\ pos' = pos + 1
  /\ UNCHANGED <<objectVars, phase, header, headed, outcome, fault>>

EmitEnd ==
  /\ phase = "emit" /\ pos = Len(items)
  /\ End("done")
  /\ UNCHANGED <<objectVars, readVars, fault>>

-----------------------------------------------------------------------------
(* The Python reader.                                                      *)

Item == items[pos + 1]

Python(format) == runtime = "python" /\ Reading(format)

\* The generator goes on to the next item.
Advance == pos' = pos + 1 /\ UNCHANGED <<objectVars, phase, outcome, fault>>

\* A line without text: not a record, unless the CSV module sees it.
SkipBlank(format) ==
  /\ Python(format) /\ pos < Len(items)
  /\ \/ format \in {"lines", "jsonl"} /\ Item.is \in {"blank", "spaces"}
     \/ format = "csv" /\ headed /\ Item.is = "blank"
  /\ Advance /\ UNCHANGED <<header, headed, out>>

ReadLine ==
  /\ Python("lines") /\ pos < Len(items) /\ Item.is = "doc"
  /\ Yield(Item.doc, OwnStamp(Item.doc))
  /\ Advance /\ UNCHANGED <<header, headed>>

\* json.loads takes NaN and integers of any size, and no byte order mark.
PythonAccepts == Docs \ {"bad", "bom"}

ReadJson ==
  /\ Python("jsonl") /\ pos < Len(items) /\ Item.is = "doc" /\ Item.doc \in PythonAccepts
  /\ Yield(Item.doc, OwnStamp(Item.doc))
  /\ Advance /\ UNCHANGED <<header, headed>>

\* Mutant: a line that does not parse is left out.
SkipBadJson ==
  /\ Python("jsonl") /\ pos < Len(items) /\ Item.is = "doc" /\ Item.doc \notin PythonAccepts
  /\ Advance /\ UNCHANGED <<header, headed, out>>

RejectJson ==
  /\ Python("jsonl") /\ pos < Len(items) /\ Item.is = "doc" /\ Item.doc \notin PythonAccepts
  /\ End("permanent")
  /\ UNCHANGED <<objectVars, readVars, fault>>

\* The cells the CSV module finds in the next row.
CellsOf(item) ==
  CASE item.is = "row"    -> item.cells
    [] item.is = "blank"  -> <<>>
    [] item.is = "spaces" -> <<<<"spaces">>>>

\* DictReader.fieldnames: the first row, whatever it is.
ReadHeader ==
  /\ Python("csv") /\ ~headed /\ pos < Len(items)
  /\ header' = CellsOf(Item) /\ headed' = TRUE
  /\ Advance /\ UNCHANGED out

\* DictReader: absent cells are None, surplus ones are kept under None.
DictRow(cells) ==
  [named |-> [i \in DOMAIN header |-> IF i <= Len(cells) THEN cells[i] ELSE Null],
   extra |-> SubSeq(cells, Len(header) + 1, Len(cells))]

ReadRow ==
  /\ Python("csv") /\ headed /\ pos < Len(items) /\ Item.is # "blank"
  /\ LET row == DictRow(CellsOf(Item)) IN Yield(row, OwnStamp(TimeIn(row.named)))
  /\ Advance /\ UNCHANGED <<header, headed>>

\* The stream is at its end.
ReadEnd ==
  /\ runtime = "python" /\ \E f \in Formats \ {"json_array"} : Reading(f)
  /\ pos = Len(items)
  /\ End(IF Reading("csv") /\ ~headed THEN "permanent" ELSE "done")
  /\ UNCHANGED <<objectVars, readVars, fault>>

\* What can go wrong with the stream while it is read: the connection; or, for
\* a compressed object, what the bucket holds.
StreamFaults ==
  {"reset"} \cup (IF key.gz THEN {"notGzip", "truncated", "corrupt"} ELSE {})

\* The except clauses of lines(): BadGzipFile (also a wrong checksum), OSError
\* and EOFError; zlib's own error and botocore's are none of them.
ClassifyStream(f) ==
  CASE f = "reset"     -> {"retryable", "unclassified"}
    [] f = "notGzip"   -> {"permanent"}
    [] f = "truncated" -> {"retryable"}
    [] f = "corrupt"   -> {"unclassified", "permanent"}

StreamFails(f) ==
  /\ runtime = "python" /\ phase = "read"
  /\ f \in StreamFaults /\ (f = "notGzip" => pos = 0)
  /\ fault' = f
  /\ \E result \in ClassifyStream(f) : End(result)
  /\ UNCHANGED <<objectVars, readVars>>

Read ==
  \/ \E format \in Formats : SkipBlank(format)
  \/ ReadLine \/ ReadJson \/ RejectJson \/ ReadHeader \/ ReadRow \/ ReadEnd
  \/ runtime = "python" /\ ParseDocument(PythonAccepts)
  \/ runtime = "python" /\ \E i \in {pos + 1} \cap DOMAIN items : EmitElement(Item.doc)
  \/ runtime = "python" /\ EmitEnd
=============================================================================
