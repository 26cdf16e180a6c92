------------------------------ MODULE MCCelRules ------------------------------
(* Policies and requests for CelRules.  Literals that stand for what the   *)
(* request brings are named: its body as a string (Envoy) or as bytes      *)
(* (HTTP), its attributes and the token in its header.                     *)
EXTENDS CelRules

S(x) == Lit("string", x)
RequestBody == Lit("string", "body")
BodyBytes == Lit("bytes", "body")
Attributes == Lit("attributes", "object.attributes")
Bearer == Lit("string", "token")
Null == Lit("null", "")

Rule(test, expect, response) == [test |-> test, expect |-> expect, response |-> response]
Always(response) == Rule(<<>>, Null, response)
Envoy(variables, rules) == [mode |-> "Envoy", variables |-> variables, rules |-> rules]
Http(variables, rules) == [mode |-> "HTTP", variables |-> variables, rules |-> rules]

Allow == <<Call("allowed"), Call("response_ok")>>
Deny == <<Lit("int", 403), Call("denied"), Call("response_denied")>>
HttpAllow == <<Call("http_allowed"), Call("http_response_ok")>>
HttpDeny == <<S("no"), Call("http_denied"), Call("http_response_denied")>>

\* Two messages, one in a variable and one in the rule that uses it.
TwoMessages ==
  Envoy(<<<<Call("allowed"), S("a"), S("1"), Call("ok_with_header_string_string"),
            S("b"), Call("ok_without_header")>>,
          <<S("h"), S(""), Call("header_key_value"), Call("header_keep_empty_value")>>>>,
        <<Rule(<<Var(1)>>, Null, Deny),
          Always(<<Call("allowed"), Var(2), Call("ok_with_header_header"),
                   S("c"), Call("ok_without_queryparam_string"), Call("response_ok"),
                   S("text"), Call("response_with_message")>>)>>)

\* A base that is extended by a second variable, which the test uses.
SharedBase ==
  Envoy(<<<<Call("allowed")>>,
          <<Var(1), S("a"), S("1"), Call("ok_with_response_header_string_string")>>>>,
        <<Rule(<<Var(2)>>, Null, Deny),
          Always(<<Var(1), Call("response_ok")>>)>>)

\* The same header in two places of a response, changed between them.
SharedHeader ==
  Envoy(<<<<S("h"), S(""), Call("header_key_value")>>>>,
        <<Always(<<Call("allowed"), Var(1), Call("ok_with_header_header"),
                   Var(1), Lit("bool", FALSE), Call("header_keep_empty_value_bool"),
                   Call("ok_with_response_header_header"), Call("response_ok")>>)>>)

QueryParams ==
  Envoy(<<<<S("p"), S("1"), Call("queryparam_key_value")>>>>,
        <<Always(<<Call("allowed"), Var(1), Call("ok_with_queryparam_param"),
                   S("q"), S("2"), Call("ok_with_queryparam_string_string"), Call("response_ok"),
                   Lit("map", {"json"}), Call("response_with_metadata")>>)>>)

\* Denied replies: the tool of an MCP call decides.
Tools ==
  Envoy(<<<<RequestBody, Call("mcp_parse")>>,
          <<Lit("int", 401), Call("denied"), S("x"), S("1"), Call("denied_with_header_string_string")>>>>,
        <<Rule(<<Var(1), S("role"), S("guest"), Call("mcp_get_string")>>, S("admin"), Allow),
          Always(<<Var(2), S("no"), Call("denied_with_body"),
                   S("h"), S("1"), Call("header_key_value"), Call("denied_with_header_header"),
                   Call("response_denied")>>)>>)

\* A token, decoded with a key, which may be empty, or with a key set.
TokenWithKey(key) ==
  Envoy(<<<<Bearer, S(key), Call("decode_string_string")>>>>,
        <<Rule(<<Var(1), Call("token_valid")>>, Lit("bool", TRUE), Allow), Always(Deny)>>)
TokenWithSet ==
  Http(<<<<Bearer, S("url"), Call("fetch"), Call("decode_string_set")>>>>,
       <<Rule(<<Var(1), Call("token_valid")>>, Lit("bool", TRUE), HttpAllow), Always(HttpDeny)>>)

\* Header and query of an HTTP request.
HttpFields ==
  Http(<<>>,
       <<Rule(<<Attributes, S("x-user"), Call("http_get_header")>>, Lit("strings", <<"ann">>), HttpAllow),
         Rule(<<Attributes, S("user"), Call("http_get_queryparam")>>, Lit("strings", <<>>), HttpDeny)>>)

\* The body as JSON, whose value is compared with literals, and passed on where a
\* string, an integer or a map is declared.
HttpJson ==
  Http(<<<<RequestBody, Call("unmarshal")>>>>,
       <<Rule(<<Var(1)>>, S("admin"), HttpAllow), Rule(<<Var(1)>>, Lit("int", 7), HttpDeny),
         Rule(<<Var(1)>>, Null, HttpAllow)>>)
HttpJsonReason ==
  Http(<<>>, <<Always(<<RequestBody, Call("unmarshal"), Call("http_denied"), Call("http_response_denied")>>)>>)
JsonCode ==
  Envoy(<<<<RequestBody, Call("unmarshal")>>>>,
        <<Always(<<Var(1), Call("denied"), Call("response_denied")>>)>>)
JsonMetadata ==
  Envoy(<<>>, <<Always(Allow \o <<RequestBody, Call("unmarshal"), Call("response_with_metadata")>>)>>)
HttpMcpBytes ==
  Http(<<<<BodyBytes, Call("mcp_parse")>>>>,
       <<Rule(<<Var(1), S("role"), S("guest"), Call("mcp_get_string")>>, S("admin"), HttpAllow)>>)

\* What compiles and cannot be converted: a status code that is no int32, and
\* metadata with a type in it.
WideCode == Envoy(<<>>, <<Always(<<Lit("int", MaxInt32 + 1), Call("denied"), Call("response_denied")>>)>>)
TypeMetadata ==
  Envoy(<<>>, <<Always(Allow \o <<Lit("map", {"json", "type"}), Call("response_with_metadata")>>)>>)

\* The getters with the arguments that their overloads declare ...
Gets(fn, key, dflt) ==
  Envoy(<<<<RequestBody, Call("mcp_parse"), key, dflt, Call(fn)>>>>,
        <<Rule(<<Var(1)>>, Lit(Overload(fn).res, "0"), Allow)>>)
DeclaredGetters ==
  {Gets(fn, Lit(Overload(fn).args[2], "0"), Lit(Overload(fn).args[3], "0")) :
     fn \in Getters \ {"mcp_get_string"}}

\* ... and the two of the examples of website/docs/cel-extensions/mcp.md:
\* mcpRequest.GetStringArgument("role", "guest") and GetIntArgument("count", 0).
DocumentedGetters ==
  {Gets("mcp_get_string", S("role"), S("guest")), Gets("mcp_get_int", S("count"), Lit("int", 0))}

\* A policy for Envoy with a function for HTTP.
WrongMode == Envoy(<<>>, <<Always(HttpAllow)>>)

MCPolicies ==
  {TwoMessages, SharedBase, SharedHeader, QueryParams, Tools, TokenWithKey("secret"),
   TokenWithKey(""), TokenWithSet, HttpFields, HttpJson, HttpJsonReason, JsonCode, JsonMetadata,
   HttpMcpBytes, WideCode, TypeMetadata, WrongMode} \cup DeclaredGetters \cup DocumentedGetters

Arg(k, v) == [key |-> k, value |-> v]
Request(b, t, up, header, query) ==
  [body |-> b, token |-> t, keysUp |-> up, header |-> header, query |-> query]
Good == Token(TRUE, FALSE, {"time", "text"})
User == {[key |-> "X-User", values |-> <<"ann">>]}

MCRequests ==
  {Request(b, Good, TRUE, User, {}) :
     b \in {Body("tools/call", {Arg("role", JString("admin"))}),
            Body("resources/read", {Arg("role", JOther)}),
            Body("prompts/get", {Arg("role", JString("admin"))}),
            Body("prompts/get", {Arg("role", JOther)}),
            Body("tools/list", {Arg("role", JString("admin"))}),
            Json("string", "admin"), Json("double", 7), Json("bool", FALSE),
            Json("null", ""), Json("list", <<>>), Malformed}}
  \cup {Request(Malformed, t, up, {}, {[key |-> "user", values |-> <<"bob">>]}) : up \in BOOLEAN,
          t \in {Token(s, e, cl) : s \in BOOLEAN, e \in BOOLEAN, cl \in {{"time"}, {"text", "audience"}}}}
=============================================================================
