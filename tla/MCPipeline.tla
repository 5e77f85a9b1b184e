----------------------------- MODULE MCPipeline -----------------------------
(* Two APIs: /a is routed to "a", and the API key belongs to "b".  One     *)
(* chain of "a" authenticates and caches; the other asks for other         *)
(* credentials, behind filters, and rewrites the request.                  *)
EXTENDS Pipeline

P(type, ph, order, cfg) ==
  [type |-> type, phase |-> ph, order |-> order, enabled |-> TRUE,
   cond |-> [key |-> "", value |-> ""], cfg |-> cfg]
When(p, key, value) == [p EXCEPT !.cond = [key |-> key, value |-> value]]

Auth(methods) == [methods |-> methods, anonymous |-> FALSE, failOpen |-> FALSE,
                  scopes |-> TRUE, forward |-> {"sub"}]
Cache == [keyBy |-> "path", bypass |-> TRUE, vary |-> {"cookie"}]
Op(op, name, target) == [op |-> op, name |-> name, target |-> target]
Transform ==
  [requestHeaders |-> <<Op("set", "x-new", ""), Op("remove", "cookie", "")>>,
   responseHeaders |-> <<Op("rename", "content-type", "x-type"), Op("copy", "x-type", "x")>>,
   removeQuery |-> {"api_key"}, renameQuery |-> <<[old |-> "q", new |-> "search"]>>,
   addQuery |-> {"v"}, bodyOps |-> TRUE]

MCChains ==
  [a |-> << <<P("cache", "post_response", 1, Cache),
              P("cache", "pre_request", 2, Cache),
              P("auth", "pre_request", 1, Auth(<<"introspect", "api_key">>))>>,
            <<P("auth", "pre_request", 1, Auth(<<"jwt", "basic", "ldap", "hmac">>)),
              P("cors", "pre_request", 0, [anyOrigin |-> FALSE]),
              P("ip_whitelist", "pre_request", 0, [mode |-> "blacklist", ips |-> {"bad"}]),
              When(P("rate_limit", "pre_request", 2, << >>), "claim", "sub"),
              P("transform", "pre_request", 2, Transform)>> >>,
   b |-> << <<P("transform", "post_response", 1, Transform),
              P("logging", "post_response", 2, << >>),
              P("circuit_breaker", "post_response", 3, << >>)>> >>]

MCRoute == [a |-> "a"]

Req(path, meth, cred) ==
  [path |-> path, method |-> meth, cred |-> cred, origin |-> "none", ip |-> "good",
   headers |-> {}, query |-> {}, body |-> "none"]
Token == Req("a", "GET", "token")
MCInputs ==
  <<{Token,
     [Req("a", "POST", "queryKey") EXCEPT !.query = {"api_key", "q"},
       !.headers = {"content-type"}, !.body = "json"],
     [Req("a", "POST", "sig") EXCEPT !.headers = {"cookie", "content-type"},
       !.body = "json", !.origin = "local"],
     [Req("a", "GET", "badBasic") EXCEPT !.ip = "bad"],
     Req("x", "GET", "none")},
    {Token}>>
=============================================================================
