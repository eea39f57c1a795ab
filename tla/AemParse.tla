------------------------------ MODULE AemParse ------------------------------
(***************************************************************************)
(* What the AEM example makes of an object key and of one line: the log    *)
(* type and tier, the parsed record, the stream labels and the inferred    *)
(* level.  Source: examples/adobe-aem/src/adobe_aem/ classify.py,          *)
(* parsers.py, labels.py and logtypes.py.                                  *)
(*                                                                         *)
(* A line is [form, groups, stamp, size]: the grammar it is written in,    *)
(* the named groups that grammar's pattern captures, its time and its      *)
(* length.  A regular expression is reduced to the form it accepts; "" is  *)
(* a group that captured nothing and "-" is Apache's "no value".  A value  *)
(* that may be None is a set of at most one element.                       *)
(***************************************************************************)
EXTENDS Integers, Sequences, TLC

\* A dict with another's items over its own: {**under, **over}.
Over(over, under) ==
  [n \in DOMAIN over \cup DOMAIN under |-> IF n \in DOMAIN over THEN over[n] ELSE under[n]]

KeyGroups == {"program_id", "env_id", "env_type", "tier", "log_type"}

LogTypes == {"aemaccess", "aemerror", "aemrequest", "aemdispatcher",
             "aemhttpdaccess", "aemhttpderror", "aemcdn", "unknown"}
Tiers == {"author", "publish", "preview", "dispatcher", "unknown"}

\* The types that carry a severity AEM itself assigned.
LevelledTypes == {"aemerror", "aemdispatcher", "aemhttpderror"}

KnownLevels == {"trace", "debug", "info", "warn", "error", "fatal"}
LevelSpellings ==
  [warning |-> "warn", err |-> "error", severe |-> "error", notice |-> "info",
   config |-> "info", fine |-> "debug", finer |-> "debug", finest |-> "debug"]
DispatcherLevels == [E |-> "error", W |-> "warn", I |-> "info", D |-> "debug", T |-> "trace"]

-----------------------------------------------------------------------------
(* classify.py: the key, then the first line.                              *)

\* compile_key_pattern refuses a pattern with no recognised group.
UsablePattern(groups) == groups \cap KeyGroups # {}

\* from_key keeps the recognised groups that captured something.
FromKey(captured) ==
  [g \in {n \in DOMAIN captured \cap KeyGroups : captured[n] # ""} |-> captured[g]]

TypeAliases == [cdn |-> "aemcdn", httpdaccess |-> "aemhttpdaccess"]

LogTypeFromName(raw) ==
  CASE raw \in DOMAIN TypeAliases -> TypeAliases[raw]
    [] raw \in LogTypes           -> raw
    [] OTHER                      -> "unknown"

TierFromName(raw) == IF raw \in Tiers THEN raw ELSE "unknown"

\* The type each form is taken for.  "json" is a JSON object without two of the
\* CDN markers; "trace" a stack trace line; "text" anything else.
SniffedAs ==
  [access |-> "aemaccess", error |-> "aemerror", request |-> "aemrequest",
   dispatcher |-> "aemdispatcher", httpderror |-> "aemhttpderror", cdn |-> "aemcdn",
   json |-> "unknown", trace |-> "unknown", text |-> "unknown"]

SniffLogType(line) == SniffedAs[line.form]

-----------------------------------------------------------------------------
(* parsers.py                                                              *)

\* _put skips what is empty.
Put(fields) == [n \in {m \in DOMAIN fields : fields[m] # ""} |-> fields[n]]

NoDash(value) == IF value = "-" THEN "" ELSE value

\* A request is the sequence of its words; one that is not two or three words
\* long is kept whole as the path.
SplitRequest(words) ==
  CASE Len(words) = 3 -> [method |-> words[1], path |-> words[2], protocol |-> words[3]]
    [] Len(words) = 2 -> [method |-> words[1], path |-> words[2]]
    [] Len(words) = 0 -> <<>>
    [] OTHER          -> [path |-> "request"]

\* The class of each status the lines below may have.
Classes == ("200" :> "2xx") @@ ("304" :> "3xx") @@ ("404" :> "4xx") @@ ("503" :> "5xx")
StatusClass(status) == IF status \in DOMAIN Classes THEN Classes[status] ELSE ""

\* parse_clf_timestamp and parse_iso_timestamp: the stamp has its own offset.
OwnOffset(stamp) == {s.local - s.offset : s \in stamp}

\* parse_aem_timestamp and parse_httpd_error_timestamp: LOG_UTC_OFFSET_SECONDS.
ConfiguredOffset(stamp, utc) == {s.local - utc : s \in stamp}

\* Mutant: an unknown severity is passed through.
KeepSpelling(raw) ==
  IF raw \in DOMAIN LevelSpellings THEN {LevelSpellings[raw]} ELSE {raw}

\* Any of AEM's severity spellings to a known word, or None.
NormaliseLevel(raw) ==
  CASE raw \in KnownLevels           -> {raw}
    [] raw \in DOMAIN LevelSpellings -> {LevelSpellings[raw]}
    [] OTHER                         -> {}

Record(message, ts, level, meta) ==
  [message |-> message, ts |-> ts, level |-> level, meta |-> meta]

Unmatched(type) ==
  Record("line", {}, {}, [parse_status |-> "unmatched", expected_log_type |-> type])

\* parse_access and parse_httpd_access.
ParseAccess(line, type) ==
  LET g == line.groups
  IN  IF line.form # "access" THEN Unmatched(type)
      ELSE Record(IF g.request = <<>> THEN "line" ELSE "part",
                  OwnOffset(line.stamp), {},
                  Put(Over(SplitRequest(g.request),
                           [node_id |-> g.node, client_ip |-> g.client_ip,
                            remote_user |-> NoDash(g.user), status |-> g.status,
                            status_class |-> StatusClass(g.status),
                            bytes_sent |-> NoDash(g.bytes), referer |-> NoDash(g.referer),
                            user_agent |-> NoDash(g.agent)])))

\* parse_error: a stack trace line is part of the event before it.
ParseError(line, utc) ==
  LET g == line.groups
  IN  CASE line.form = "error" ->
             Record("part", ConfiguredOffset(line.stamp, utc), NormaliseLevel(g.level),
                    Put([node_id |-> g.node, thread |-> g.thread, logger |-> g.logger,
                         exception |-> g.exception]))
        [] line.form = "trace" ->
             Record("line", {}, {},
                    Put([parse_status |-> "stacktrace", exception |-> g.exception]))
        [] OTHER -> Unmatched("aemerror")

\* parse_request: "->" carries the request, "<-" its status and duration.
ParseRequest(line) ==
  LET g == line.groups
      Common == [node_id |-> g.node, request_id |-> g.request_id]
      Fields ==
        CASE g.direction = "->" -> Over(SplitRequest(g.rest), [direction |-> "request"])
          [] g.direction # "->" /\ g.status = "" ->
                                   [direction |-> "response",
                                    parse_status |-> "response-unmatched"]
          [] OTHER              -> [direction |-> "response", status |-> g.status,
                                    status_class |-> StatusClass(g.status),
                                    content_type |-> g.content_type,
                                    duration_ms |-> g.duration]
  IN  IF line.form # "request" THEN Unmatched("aemrequest")
      ELSE Record(IF g.direction = "->" /\ g.rest = <<>> THEN "line" ELSE "part",
                  OwnOffset(line.stamp), {}, Put(Over(Common, Fields)))

\* parse_dispatcher: the tail is optional.
ParseDispatcher(line) ==
  LET g == line.groups
      Tail_ ==
        IF g.status = "" THEN [parse_status |-> "message-only"]
        ELSE Over(SplitRequest(g.request),
                  [status |-> g.status, status_class |-> StatusClass(g.status),
                   duration_ms |-> g.duration, farm |-> g.farm, cache_status |-> g.cache,
                   host |-> g.host])
  IN  IF line.form # "dispatcher" THEN Unmatched("aemdispatcher")
      ELSE Record("part", OwnOffset(line.stamp),
                  IF g.level \in DOMAIN DispatcherLevels THEN {DispatcherLevels[g.level]} ELSE {},
                  Put(Over(Tail_, [node_id |-> g.node])))

\* parse_httpd_error
ParseHttpdError(line, utc) ==
  LET g == line.groups
  IN  IF line.form # "httpderror" THEN Unmatched("aemhttpderror")
      ELSE Record(IF g.message = "" THEN "line" ELSE "part",
                  ConfiguredOffset(line.stamp, utc), NormaliseLevel(g.level),
                  Put([node_id |-> g.node, module |-> g.module, pid |-> g.pid, tid |-> g.tid]))

\* parse_cdn: any JSON object, its fields under the names of the other parsers.
CdnNames ==
  [cli_ip |-> "client_ip", rid |-> "request_id", req_ua |-> "user_agent", url |-> "path",
   method |-> "method", cache |-> "cache_status", rules |-> "waf_rules",
   ttlb |-> "ttlb_ms", status |-> "status", ddos |-> "ddos"]

ParseCdn(line) ==
  LET g == line.groups
      Promoted == {n \in DOMAIN g : n \in DOMAIN CdnNames}
      Renamed == [m \in {CdnNames[n] : n \in Promoted} |->
                    g[CHOOSE n \in Promoted : CdnNames[n] = m]]
  IN  IF line.form \notin {"cdn", "json"} THEN Unmatched("aemcdn")
      ELSE Record("line", OwnOffset(line.stamp), {},
                  Put(Over(Renamed, [status_class |-> IF "status" \in DOMAIN g
                                                      THEN StatusClass(g.status) ELSE ""])))

\* parser_for; an unclassified object is passed through, line for line.
ParserFor(type, line, utc) ==
  CASE type \in {"aemaccess", "aemhttpdaccess"} -> ParseAccess(line, type)
    [] type = "aemerror"      -> ParseError(line, utc)
    [] type = "aemrequest"    -> ParseRequest(line)
    [] type = "aemdispatcher" -> ParseDispatcher(line)
    [] type = "aemhttpderror" -> ParseHttpdError(line, utc)
    [] type = "aemcdn"        -> ParseCdn(line)
    [] OTHER                  -> Record("line", {}, {}, <<>>)

-----------------------------------------------------------------------------
(* labels.py                                                               *)

StatusClassLevels ==
  ("5xx" :> "error") @@ ("4xx" :> "warn") @@ ("3xx" :> "info") @@ ("2xx" :> "info")

\* The level of a record that carries no severity.
DetectedLevelFor(meta) ==
  IF "status_class" \in DOMAIN meta THEN {StatusClassLevels[meta.status_class]} ELSE {}

\* A coordinate of the key wins over its default; an absent one has no label.
Coordinates(coordinates, defaults) ==
  Put([n \in {"program_id", "env_id", "env_type"} |->
         IF n \in DOMAIN coordinates THEN coordinates[n] ELSE defaults[n]])

LevelLabel(level) == IF level = {} THEN <<>> ELSE [level |-> CHOOSE l \in level : TRUE]

\* build_labels: only what AEM assigned a severity to has a level label.
BuildLabels(type, tier, coordinates, level) ==
  Over(coordinates,
       Over([log_type |-> type, aem_tier |-> tier],
            LevelLabel({l \in level : type \in LevelledTypes})))
=============================================================================
