---------------------------- MODULE ClientConfig -----------------------------
(***************************************************************************)
(* What each library makes of its environment variables and of the         *)
(* credentials secret, and what it logs.  Source: config.py, log.py and    *)
(* aws/credentials.py in common/python/src/grafana_cloud_common/,          *)
(* config.ts, logger.ts and aws/credentials.ts in common/nodejs/src/.      *)
(*                                                                         *)
(* A variable is the set of its values: {} when unset, {""} when blank.    *)
(* An outcome is the set of its results: {} stands for a ConfigError.      *)
(* The rules of int, float, Number, urlparse, URL and str are tables over  *)
(* the spellings the model uses.                                           *)
(***************************************************************************)
EXTENDS Integers, Sequences, SequencesExt, TLC

\* Stripped, and nothing when that leaves nothing: _env and env.
Env(raw) == raw \ {""}

\* Larger than 0 in a comparison, as far as `parsed <= 0` can tell.
Infinite == 1000
NotANumber == 1001

Plain == "5" :> 5 @@ "0" :> 0 @@ "-1" :> -1
PythonInts   == Plain @@ "1_0" :> 10
PythonFloats == Plain @@ "1_0" :> 10 @@ "5.0" :> 5 @@ "1e1" :> 10
                      @@ "Infinity" :> Infinite @@ "nan" :> NotANumber
FiniteNumbers == Plain @@ "5.0" :> 5 @@ "1e1" :> 10 @@ "0x10" :> 16

Spellings == DOMAIN PythonFloats \cup DOMAIN FiniteNumbers \cup {"five"}

PositiveOf(table, raw) == {table[v] : v \in {w \in Env(raw) \cap DOMAIN table : table[w] > 0}}

\* _int and _float.
PositiveInt(raw, default) == IF Env(raw) = {} THEN {default} ELSE PositiveOf(PythonInts, raw)
PositiveFloat(raw, default) == IF Env(raw) = {} THEN {default} ELSE PositiveOf(PythonFloats, raw)

\* positiveInt and positiveNumber: every finite spelling here is an integer.
NodeInt(raw, default) == IF Env(raw) = {} THEN {default} ELSE PositiveOf(FiniteNumbers, raw)
NodeNumber(raw, default) == IF Env(raw) = {} THEN {default} ELSE PositiveOf(FiniteNumbers, raw)

\* _bool and boolean_.
Lowered == "TRUE" :> "true" @@ "on" :> "on" @@ "No" :> "no" @@ "0" :> "0" @@ "maybe" :> "maybe"
Bool(raw, default) ==
  IF Env(raw) = {} THEN {default}
  ELSE {b \in BOOLEAN : \E v \in raw :
          Lowered[v] \in IF b THEN {"1", "true", "yes", "on"} ELSE {"0", "false", "no", "off"}}

-----------------------------------------------------------------------------
(* An endpoint is [scheme, host, path]: no scheme, no host and no path are *)
(* "", "" and <<>>; the path is its segments, without slashes at the end.  *)

Push == <<"loki", "api", "v1", "push">>

PushPath(path) ==
  CASE IsSuffix(Push, path)        -> {path}
    [] path = <<>>                 -> {Push}
    [] IsSuffix(<<"loki">>, path)  -> {path \o Tail(Push)}
    [] OTHER                       -> {}

\* normalise_push_url.
PushUrl(e) ==
  IF e.scheme \in {"", "https"} /\ e.host # ""
  THEN {[host |-> e.host, path |-> p] : p \in PushPath(e.path)} ELSE {}

\* How URL writes a host: lower case, no user, no default port.
Host == "logs" :> "logs" @@ "LOGS" :> "logs" @@ "u@logs" :> "logs" @@ "logs:443" :> "logs"
          @@ "loki" :> "loki" @@ "x" :> "x"

\* normalisePushUrl: without a host, URL takes the first segment for it.
NodePushUrl(e) ==
  LET from == IF e.host = "" /\ e.path # <<>>
              THEN [host |-> Head(e.path), path |-> Tail(e.path)]
              ELSE [host |-> e.host, path |-> e.path]
  IN  IF e.scheme \in {"", "https"} /\ from.host # ""
      THEN {[host |-> Host[from.host], path |-> p] : p \in PushPath(from.path)} ELSE {}

\* _parse_static_labels and parseStaticLabels: a JSON object of strings.
StaticLabelsOf(raw) ==
  IF raw = {} THEN {<<>>}
  ELSE {d.labels : d \in {c \in raw : c.json = "object"
                                      /\ \A n \in DOMAIN c.labels : c.labels[n].type = "string"}}

-----------------------------------------------------------------------------
\* LokiConfig.from_env, over the variables with rules of their own.
FromEnv(env) ==
  IF Env(env.secret) \cup Env(env.token) = {} THEN {}
  ELSE {[url |-> u, tenant |-> t, secret |-> Env(env.secret), token |-> Env(env.token),
         static |-> l, lines |-> n, timeout |-> s, compress |-> b] :
        u \in UNION {PushUrl(e) : e \in env.endpoint}, t \in Env(env.tenant),
        l \in StaticLabelsOf(env.static), n \in PositiveInt(env.lines, 5000),
        s \in PositiveFloat(env.timeout, 20), b \in Bool(env.compress, TRUE)}

\* configFromEnv.
NodeFromEnv(env) ==
  IF Env(env.secret) \cup Env(env.token) = {} THEN {}
  ELSE {[url |-> u, tenant |-> t, secret |-> Env(env.secret), token |-> Env(env.token),
         static |-> l, lines |-> n, timeout |-> s, compress |-> b] :
        u \in UNION {NodePushUrl(e) : e \in env.endpoint}, t \in Env(env.tenant),
        l \in StaticLabelsOf(env.static), n \in NodeInt(env.lines, 5000),
        s \in NodeNumber(env.timeout, 20), b \in Bool(env.compress, TRUE)}

-----------------------------------------------------------------------------
(* A secret is [form |-> "blank", "bare", "broken", "array" or "object",   *)
(* fields]; a value of a field is [type, text], "" being JavaScript's ''.  *)

TokenKeys  == <<"token", "loki_token", "password", "api_key", "grafana_cloud_token">>
TenantKeys == <<"tenant_id", "username", "user", "instance_id", "loki_user">>

\* The value of the first of these keys that is among `usable`.
FirstOf(keys, usable, fields) ==
  LET found == SelectSeq(keys, LAMBDA k : k \in usable)
  IN  IF found = <<>> THEN {} ELSE {fields[Head(found)]}

Falsy == {[type |-> "string", text |-> ""], [type |-> "number", text |-> "0"],
          [type |-> "boolean", text |-> "false"], [type |-> "null", text |-> ""]}

\* str: True and False have capitals.
Str(v) == IF v.type = "boolean" THEN IF v.text = "true" THEN "True" ELSE "False" ELSE v.text

\* parse_secret: any truthy value will do.
ParseSecret(s) ==
  LET truthy == {k \in DOMAIN s.fields : s.fields[k] \notin Falsy}
  IN  CASE s.form = "bare"   -> {[token |-> "bare", tenant |-> {}]}
        [] s.form = "object" ->
             {[token  |-> Str(v),
               tenant |-> {Str(w) : w \in FirstOf(TenantKeys, truthy, s.fields)}] :
              v \in FirstOf(TokenKeys, truthy, s.fields)}
        [] OTHER             -> {}

\* parseSecret: the token is a string with text, the tenant any value with text.
NodeParseSecret(s) ==
  LET given == {k \in DOMAIN s.fields : s.fields[k].text # ""}
      texts == {k \in given : s.fields[k].type = "string"}
  IN  CASE s.form = "bare"   -> {[token |-> "bare", tenant |-> {}]}
        [] s.form = "object" ->
             {[token  |-> v.text,
               tenant |-> {w.text : w \in FirstOf(TenantKeys, given, s.fields)}] :
              v \in FirstOf(TokenKeys, texts, s.fields)}
        [] OTHER             -> {}

-----------------------------------------------------------------------------
(* Log lines.  A call is [level, fields]; a line is the set of the one      *)
(* object written, or {}.  Field names are split into words, as far as      *)
(* that decides which of them are redacted.                                 *)

Severity == "DEBUG" :> 10 @@ "INFO" :> 20 @@ "WARNING" :> 30 @@ "ERROR" :> 40

\* Names that only Python's logging knows.
PythonSeverity == Severity @@ "NOTSET" :> 0 @@ "WARN" :> 30 @@ "CRITICAL" :> 50

Capitals == "debug" :> "DEBUG" @@ "INFO" :> "INFO" @@ "warning" :> "WARNING" @@ "ERROR" :> "ERROR"
              @@ "notset" :> "NOTSET" @@ "WARN" :> "WARN" @@ "CRITICAL" :> "CRITICAL"
              @@ "verbose" :> "VERBOSE"

Named(raw) == IF Env(raw) = {} THEN {"INFO"} ELSE {Capitals[v] : v \in Env(raw)}

\* A rate in halves; configure takes those from 0 to 1.
Rates == "0" :> 0 @@ "0.5" :> 1 @@ "1" :> 2 @@ "1.5" :> 3 @@ "-1" :> -2 @@ "nan" :> NotANumber
SampleRate(raw) ==
  IF Env(raw) = {} THEN {0}
  ELSE {Rates[v] : v \in {w \in Env(raw) \cap DOMAIN Rates : Rates[w] \in 0 .. 2}}

\* configure; a level that logging does not know is an error there too.
Configure(env) ==
  {[base |-> PythonSeverity[n], rate |-> r,
    botocore |-> IF PythonSeverity[n] > Severity["INFO"] THEN PythonSeverity[n] ELSE Severity["INFO"]] :
   n \in Named(env.level) \cap DOMAIN PythonSeverity, r \in SampleRate(env.rate)}

\* sample_debug: each invocation rolls a number from [0, 1), and starts again
\* from the configured level.
SampleDebug(logging, roll) ==
  IF logging.rate > 0 /\ roll < logging.rate THEN Severity["DEBUG"] ELSE logging.base

\* resolveLevel, once and for all.
ResolveLevel(env) ==
  {IF n \in DOMAIN Severity THEN Severity[n] ELSE Severity["INFO"] : n \in Named(env.level)}

SensitiveFragments == {"token", "secret", "password", "passwd", "authorization", "credential",
                       "api_key", "apikey"}
Words == "lines" :> {"lines"} @@ "message" :> {"message"} @@ "SecretId" :> {"secret", "id"}
           @@ "x_api_key" :> {"x", "api_key"}

Redact(fields) ==
  [k \in DOMAIN fields |-> IF Words[k] \cap SensitiveFragments = {} THEN fields[k] ELSE "redacted"]

\* The fields of a call and those bound before it go over the standard ones.
Payload(call, bound) ==
  Redact(call.fields @@ bound) @@ [level |-> call.level, logger |-> "name", message |-> "text"]

\* FieldLogger._emit and JsonFormatter.format: an error line carries a traceback.
PythonLine(threshold, call, bound) ==
  IF Severity[call.level] < threshold THEN {}
  ELSE {IF call.level = "ERROR" THEN "error" :> "traceback" @@ Payload(call, bound)
        ELSE Payload(call, bound)}

\* Logger.emit.
NodeLine(threshold, call, bound) ==
  IF Severity[call.level] < threshold THEN {} ELSE {Payload(call, bound)}

-----------------------------------------------------------------------------
(* What a deployment may set.  The libraries read some spellings apart:    *)
(* numbers that are not plain decimals, hosts that URL rewrites or finds   *)
(* in the path, and secrets whose values are numbers or booleans.          *)

Typical == [secret |-> {"arn"}, token |-> {}, tenant |-> {"1"}, static |-> {},
            endpoint |-> {[scheme |-> "", host |-> "logs", path |-> <<>>]},
            lines |-> {}, timeout |-> {}, compress |-> {}]

Singly(values) == {{}} \cup {{v} : v \in values}

Endpoints == [scheme : {"", "https", "http"}, host : DOMAIN Host \cup {""},
              path : {<<>>, <<"x">>, <<"loki">>, <<"x", "loki">>, Push, <<"x">> \o Push, Tail(Push)}]

Labels == {[json |-> j, labels |-> <<>>] : j \in {"broken", "array", "object"}}
            \cup {[json |-> "object", labels |-> [cluster |-> [type |-> y, text |-> "c"]]] :
                     y \in {"string", "number"}}

Values == [secret |-> Singly({"arn", ""}), token |-> Singly({"glc", ""}),
           tenant |-> Singly({"1", ""}), static |-> Singly(Labels),
           endpoint |-> Singly(Endpoints), lines |-> Singly(Spellings),
           timeout |-> Singly(Spellings), compress |-> Singly(DOMAIN Lowered)]

\* Up to two variables differ from the typical ones.
Environments ==
  UNION {{[Typical EXCEPT ![v[1]] = a, ![v[2]] = b] : a \in Values[v[1]], b \in Values[v[2]]} :
         v \in (DOMAIN Values) \X (DOMAIN Values)}

PlainlySet(env) ==
  /\ env.lines \subseteq DOMAIN Plain \cup {"five"}
  /\ env.timeout \subseteq DOMAIN Plain \cup {"five", "5.0", "1e1"}
  /\ \A e \in env.endpoint : IF e.host = "" THEN e.path = <<>> ELSE Host[e.host] = e.host

Fields == [type : {"string"}, text : {"t", ""}] \cup [type : {"number"}, text : {"0", "7"}]
            \cup [type : {"boolean"}, text : {"true", "false"}] \cup [type : {"null"}, text : {""}]

Secrets ==
  [form : {"blank", "bare", "broken", "array"}, fields : {<<>>}]
    \cup [form : {"object"},
          fields : UNION {[names -> Fields] :
                          names \in SUBSET {"token", "password", "tenant_id", "user"}}]

PlainSecret(s) == \A k \in DOMAIN s.fields : s.fields[k].type \in {"string", "null"}

LogSettings == [level : Singly(DOMAIN Capitals \cup {""}), rate : Singly(DOMAIN Rates)]

PlainLevel(env) == \A v \in Env(env.level) : Capitals[v] \in DOMAIN Severity

Calls == [level : DOMAIN Severity, fields : UNION {[k -> {"text"}] : k \in SUBSET DOMAIN Words}]

WithoutError(line) == [k \in DOMAIN line \ {"error"} |-> line[k]]

\* Without sampling, which Node does not have, both loggers write the same lines
\* for the same calls, the traceback apart.
LogsAgree ==
  \A env \in LogSettings : env.rate = {} /\ PlainLevel(env) =>
    \A logging \in Configure(env), threshold \in ResolveLevel(env),
       call \in Calls, bound \in {<<>>, "SecretId" :> "text"} :
      {WithoutError(l) : l \in PythonLine(SampleDebug(logging, 0), call, bound)}
        = NodeLine(threshold, call, bound)

\* Where a deployment and its secret are plainly spelled, both libraries accept
\* or refuse it alike, read the same configuration and credential from it, and
\* log alike.
ConfigsAgree ==
  /\ LogsAgree
  /\ \A env \in Environments : PlainlySet(env) => NodeFromEnv(env) = FromEnv(env)
  /\ \A s \in Secrets : PlainSecret(s) => NodeParseSecret(s) = ParseSecret(s)
=============================================================================
