----------------------------- MODULE MCAemObject -----------------------------
(***************************************************************************)
(* Objects of five writers: a request log over three pods that reuse one   *)
(* request id, an error, a dispatcher, an access and a CDN log, each with  *)
(* lines that do not parse; keys that name the type, the tier or nothing.  *)
(***************************************************************************)
EXTENDS AemObject

CONSTANT Nodes

\* The pods share a request id.
MCKeys == {<<n, "17722">> : n \in Nodes}

At(local, offset) == {[local |-> local, offset |-> offset]}
L(form, groups, stamp, size) ==
  [form |-> form, groups |-> groups, stamp |-> stamp, size |-> size]

Junk == L("text", <<>>, {}, 1)

RequestLog(n) ==
  {L("request", [node |-> n, request_id |-> "17722", direction |-> "->",
                 rest |-> <<"HEAD", "/systemready", "HTTP/1.1">>, status |-> ""], At(-1, 0), 1),
   L("request", [node |-> n, request_id |-> "17722", direction |-> "->",
                 rest |-> <<>>, status |-> ""], At(-1, 0), 1),
   L("request", [node |-> n, request_id |-> "17722", direction |-> "<-", rest |-> <<>>,
                 status |-> "503", content_type |-> "", duration |-> "2"], At(-2, 0), 1)}

ErrorLine(level, stamp, size) ==
  L("error", [node |-> "n", level |-> level, thread |-> "t", logger |-> "l",
              exception |-> ""], stamp, size)

DispatcherLine(level, status, stamp) ==
  L("dispatcher", [node |-> "n", level |-> level, status |-> status,
                   request |-> <<"GET", "/">>, duration |-> "", farm |-> "f",
                   cache |-> "HIT", host |-> "h"], stamp, 2)

AccessLine(status, user) ==
  L("access", [node |-> "n", client_ip |-> "ip", user |-> user, request |-> <<"GET", "/", "H">>,
               status |-> status, bytes |-> "-", referer |-> "-", agent |-> "a"], At(-2, 0), 1)

Requests == UNION {RequestLog(n) : n \in Nodes}

Errors ==
  {ErrorLine("warning", At(-3, 0), 1), ErrorLine("warning", At(-9, 0), 5),
   ErrorLine("info", At(0, 0), 2), ErrorLine("finest", {}, 2), ErrorLine("odd", At(-4, 0), 1),
   L("trace", [exception |-> "java.lang.Error"], {}, 1), Junk}

DispatcherLog ==
  {DispatcherLine("W", "200", At(-3, 0)), DispatcherLine("I", "", At(1, 2)),
   DispatcherLine("X", "503", At(-9, 0)), Junk}

AccessLog ==
  {AccessLine("200", "-"), AccessLine("404", "u"),
   L("request", [node |-> "n", request_id |-> "", direction |-> "<-", status |-> ""], {}, 2)}

CdnLog ==
  {L("cdn", [cli_ip |-> "ip", rid |-> "r", url |-> "/", rules |-> "", status |-> "404",
             ddos |-> "false"], At(-9, 0), 5),
   L("json", <<>>, {}, 1), Junk}

MCContent(writer) ==
  CASE writer \in {"request", "fewRequests"} -> Requests \cup {Junk}
    [] writer = "longRequests" ->
         {l \in Requests : l.groups.direction = "<-" \/ l.groups.rest # <<>>}
    [] writer \in {"error", "fewErrors"} -> Errors
    [] writer = "dispatcher" -> DispatcherLog
    [] writer = "access" -> AccessLog
    [] writer = "cdn" -> CdnLog

\* The longest objects have lines that carry fields only.
MCLongest(writer) ==
  CASE writer = "longRequests" -> 6 [] writer = "request" -> 5
    [] writer = "error" -> 4 [] OTHER -> 3

File(writer, captured) == [writer |-> writer, captured |-> captured, suffix |-> writer # "cdn"]

Named(tier, type) == [tier |-> tier, log_type |-> type]

Deployment(maxAge, sniff) ==
  [groups |-> {"tier", "log_type", "env_id"}, sniff |-> sniff, tier |-> "publish",
   defaults |-> [program_id |-> "p1", env_id |-> "e1", env_type |-> ""],
   correlate |-> TRUE, utc |-> 0, maxAge |-> maxAge, content |-> "raw",
   dropIp |-> {}, suffix |-> FALSE]

Default == Deployment({3}, TRUE)
Changed == [Deployment({3}, FALSE) EXCEPT !.content = "message", !.dropIp = {TRUE},
                                          !.suffix = TRUE, !.utc = 1, !.correlate = FALSE]
Unusable == [Deployment({}, TRUE) EXCEPT !.groups = {"when"}]

MCJobs ==
  {<<File("request", Named("author", "aemrequest")), Default>>,
   <<File("longRequests", Named("author", "aemrequest")), Default>>,
   <<File("fewRequests", <<>>), Default>>,
   <<File("fewRequests", Named("author", "aemrequest")), Changed>>,
   <<File("error", Named("author", "aemerror")), Default>>,
   <<File("error", Named("author", "aemerror")), Changed>>,
   <<File("fewErrors", <<>>), Default>>,
   <<File("dispatcher", [tier |-> "", env_id |-> "e2"]), Default>>,
   <<File("dispatcher", Named("other", "aemhttpdaccess")), Changed>>,
   <<File("cdn", Named("publish", "cdn")), Default>>,
   <<File("cdn", Named("publish", "other")), Deployment({}, TRUE)>>,
   <<File("cdn", Named("publish", "cdn")), Changed>>,
   <<File("access", Named("preview", "httpdaccess")), Default>>,
   <<File("access", <<>>), Unusable>>}

MCStatic == [level |-> "warn", cluster |-> "c"]

NodeSymmetry == Permutations(Nodes)
=============================================================================
