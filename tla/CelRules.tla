------------------------------ MODULE CelRules ------------------------------
(***************************************************************************)
(* The evaluation of a policy's rules with the functions that the CEL      *)
(* libraries of pkg/cel/libs give to them: the response builders for Envoy *)
(* and for HTTP, the JWT decoder and the MCP and JSON parsers.             *)
(*                                                                         *)
(* An expression is a postfix program of literals, variables of the policy *)
(* and calls.  A call is type checked against the overload that the        *)
(* library declares (lib.go) when the policy is compiled; when it runs,    *)
(* the implementation (impl.go) converts its arguments to native values    *)
(* and works on those.  The builders for Envoy append to the message they  *)
(* are called on and return the same message: what a policy's variable     *)
(* holds, evaluated once per request, is changed by every rule that builds *)
(* on it.  Values therefore live in a heap.  A second heap, in which every *)
(* call works on a copy, holds what the expressions mean as values.        *)
(*                                                                         *)
(* Parsers and decoders are called on what the request brings: its body,   *)
(* its token.                                                              *)
(***************************************************************************)
EXTENDS Integers, Sequences, FiniteSets, SequencesExt

CONSTANTS
  Policies,    \* the policies: records [mode, variables, rules]
  Requests,    \* the requests: records [body, token, keysUp, header, query]
  MaxRequests, \* bound: requests that are evaluated, one after the other
  MaxInt32     \* the largest int32

VARIABLES
  policy,    \* the policy
  phase,     \* "compile", "rejected", "idle" or "eval"
  request,   \* the request
  heap,      \* the messages and structs of this evaluation
  pure,      \* the heap in which calls work on copies
  cache,     \* the lazy map of variables: variable -> its value, Unset before
  frames,    \* stack of expressions under evaluation, the innermost first
  rule,      \* the rule under evaluation
  result,    \* the outcome of the latest request
  answers    \* history: the responses so far, by request

vars == <<policy, phase, request, heap, pure, cache, frames, rule, result, answers>>

(***************************************************************************)
(* Expressions.  A rule is a test, the literal it is compared with, and    *)
(* the response: "test == expect ? response : null".                       *)
(***************************************************************************)
Lit(t, x) == [op |-> "lit", type |-> t, arg |-> x]
Var(i) == [op |-> "var", type |-> "", arg |-> i]
Call(fn) == [op |-> "call", type |-> "", arg |-> fn]

(***************************************************************************)
(* What a request brings                                                   *)
(***************************************************************************)
\* The types of the values that encoding/json decodes: numbers are floats.
JsonTypes == {"string", "double", "bool", "null", "list", "map"}

\* A body is the JSON of an MCP request, with a method and arguments, another JSON
\* value (null decodes as a request that is empty), or malformed.  The value of a
\* map is the set of the kinds of its entries.
Body(method, args) ==
  [ok |-> TRUE, rpc |-> TRUE, json |-> [type |-> "map", arg |-> {"json"}],
   method |-> method, args |-> args]
Json(type, x) ==
  [ok |-> TRUE, rpc |-> type = "null", json |-> [type |-> type, arg |-> x],
   method |-> "", args |-> {}]
Malformed == [Json("null", "") EXCEPT !.ok = FALSE]

\* The arguments of an MCP request: strings, and values of other types.
JString(t) == [kind |-> "string", text |-> t]
JOther == [kind |-> "other", text |-> ""]

\* A token: whether its signature is that of the key, its expiry and the kinds of
\* its claims.
Token(signed, expired, claims) == [signed |-> signed, expired |-> expired, claims |-> claims]

\* The expressions of a policy.
Programs(p) ==
  ToSet(p.variables) \cup {r.test : r \in ToSet(p.rules)} \cup {r.response : r \in ToSet(p.rules)}

\* Policies are written with these forms, and have a rule.  The types dyn and error
\* are the checker's: no literal has them.
ASSUME PoliciesAssumption ==
  \A p \in Policies :
    /\ p.variables \in Seq(ToSet(p.variables))
    /\ p.rules \in Seq(ToSet(p.rules)) /\ p.rules # <<>>
    /\ \A r \in ToSet(p.rules) : r.expect.type # "error"
    /\ \A code \in Programs(p) :
         /\ code \in Seq(ToSet(code))
         /\ \A x \in ToSet(code) :
              \/ x = Lit(x.type, x.arg) /\ x.type \notin {"dyn", "error"}
              \/ x = Var(x.arg) /\ x.arg \in Nat /\ x.arg > 0
              \/ x = Call(x.arg)

\* Bodies are JSON: the keys of an object are distinct, and its entries are JSON.
ASSUME RequestsAssumption ==
  \A r \in Requests :
    /\ r.body.json.type \in JsonTypes
    /\ r.body.json.type = "map" => r.body.json.arg = {"json"}
    /\ \A a, b \in r.body.args : a.key = b.key => a = b
ASSUME MaxInt32Assumption == MaxInt32 \in Nat

Unset == [type |-> "unset", v |-> 0, w |-> 0]
RefTypes == {"Ok", "Denied", "Header", "Param", "Response", "McpRequest",
             "HttpOk", "HttpDenied", "HttpResponse", "KeySet", "Token"}

(***************************************************************************)
(* What the libraries declare.                                             *)
(***************************************************************************)
Sig(args, res) == [args |-> args, res |-> res]

EnvoyOverloads ==
  [allowed |-> Sig(<<>>, "Ok"),
   denied |-> Sig(<<"int">>, "Denied"),
   header_key_value |-> Sig(<<"string", "string">>, "Header"),
   queryparam_key_value |-> Sig(<<"string", "string">>, "Param"),
   denied_with_body |-> Sig(<<"Denied", "string">>, "Denied"),
   ok_with_header_header |-> Sig(<<"Ok", "Header">>, "Ok"),
   ok_with_header_string_string |-> Sig(<<"Ok", "string", "string">>, "Ok"),
   denied_with_header_header |-> Sig(<<"Denied", "Header">>, "Denied"),
   denied_with_header_string_string |-> Sig(<<"Denied", "string", "string">>, "Denied"),
   ok_without_header |-> Sig(<<"Ok", "string">>, "Ok"),
   ok_with_response_header_header |-> Sig(<<"Ok", "Header">>, "Ok"),
   ok_with_response_header_string_string |-> Sig(<<"Ok", "string", "string">>, "Ok"),
   ok_with_queryparam_param |-> Sig(<<"Ok", "Param">>, "Ok"),
   ok_with_queryparam_string_string |-> Sig(<<"Ok", "string", "string">>, "Ok"),
   ok_without_queryparam_string |-> Sig(<<"Ok", "string">>, "Ok"),
   header_keep_empty_value |-> Sig(<<"Header">>, "Header"),
   header_keep_empty_value_bool |-> Sig(<<"Header", "bool">>, "Header"),
   response_ok |-> Sig(<<"Ok">>, "Response"),
   response_denied |-> Sig(<<"Denied">>, "Response"),
   response_with_message |-> Sig(<<"Response", "string">>, "Response"),
   response_with_metadata |-> Sig(<<"Response", "map">>, "Response")]

HttpOverloads ==
  [http_allowed |-> Sig(<<>>, "HttpOk"),
   http_denied |-> Sig(<<"string">>, "HttpDenied"),
   http_get_header |-> Sig(<<"attributes", "string">>, "strings"),
   http_get_queryparam |-> Sig(<<"attributes", "string">>, "strings"),
   http_response_ok |-> Sig(<<"HttpOk">>, "HttpResponse"),
   http_response_denied |-> Sig(<<"HttpDenied">>, "HttpResponse")]

\* The key of all getters but the first is declared with the type of the value,
\* and the default of a list with the type of its elements.
McpOverloads ==
  [mcp_parse |-> Sig(<<"dyn">>, "McpRequest"),
   mcp_get_string |-> Sig(<<"McpRequest", "string", "string">>, "string"),
   mcp_get_int |-> Sig(<<"McpRequest", "int", "int">>, "int"),
   mcp_get_float |-> Sig(<<"McpRequest", "double", "double">>, "double"),
   mcp_get_bool |-> Sig(<<"McpRequest", "bool", "bool">>, "bool"),
   mcp_get_string_slice |-> Sig(<<"McpRequest", "string", "string">>, "strings"),
   mcp_get_int_slice |-> Sig(<<"McpRequest", "int", "int">>, "ints"),
   mcp_get_float_slice |-> Sig(<<"McpRequest", "double", "double">>, "doubles"),
   mcp_get_bool_slice |-> Sig(<<"McpRequest", "bool", "bool">>, "bools")]

Getters == DOMAIN McpOverloads \ {"mcp_parse"}

JwtOverloads ==
  [decode_string_string |-> Sig(<<"string", "string">>, "Token"),
   decode_string_set |-> Sig(<<"string", "KeySet">>, "Token"),
   fetch |-> Sig(<<"string">>, "KeySet"),
   token_valid |-> Sig(<<"Token">>, "bool")]

JsonOverloads == [unmarshal |-> Sig(<<"dyn">>, "dyn")]

\* NewEnv: the library of the policy's mode, and the libraries of both.
Declared(mode) ==
  DOMAIN McpOverloads \cup DOMAIN JwtOverloads \cup DOMAIN JsonOverloads
    \cup IF mode = "Envoy" THEN DOMAIN EnvoyOverloads ELSE DOMAIN HttpOverloads

Overload(fn) ==
  CASE fn \in DOMAIN McpOverloads -> McpOverloads[fn]
    [] fn \in DOMAIN JwtOverloads -> JwtOverloads[fn]
    [] fn \in DOMAIN JsonOverloads -> JsonOverloads[fn]
    [] fn \in DOMAIN EnvoyOverloads -> EnvoyOverloads[fn]
    [] fn \in DOMAIN HttpOverloads -> HttpOverloads[fn]

(***************************************************************************)
(* What the implementations convert their arguments to.                    *)
(***************************************************************************)
McpConverts(fn) ==
  CASE fn = "mcp_parse" -> <<"string">>
    [] fn = "mcp_get_string" -> <<"McpRequest", "string", "string">>
    [] fn = "mcp_get_int" -> <<"McpRequest", "string", "int">>
    [] fn = "mcp_get_float" -> <<"McpRequest", "string", "double">>
    [] fn = "mcp_get_bool" -> <<"McpRequest", "string", "bool">>
    [] fn = "mcp_get_string_slice" -> <<"McpRequest", "string", "strings">>
    [] fn = "mcp_get_int_slice" -> <<"McpRequest", "string", "ints">>
    [] fn = "mcp_get_float_slice" -> <<"McpRequest", "string", "doubles">>
    [] fn = "mcp_get_bool_slice" -> <<"McpRequest", "string", "bools">>

EnvoyConverts(fn) ==
  CASE fn = "allowed" -> <<>>
    [] fn = "denied" -> <<"int">>
    [] fn \in {"header_key_value", "queryparam_key_value"} -> <<"string", "string">>
    [] fn \in {"ok_with_header_header", "ok_with_response_header_header"} -> <<"Ok", "Header">>
    [] fn \in {"ok_with_header_string_string", "ok_with_response_header_string_string",
               "ok_with_queryparam_string_string"} -> <<"Ok", "string", "string">>
    [] fn \in {"ok_without_header", "ok_without_queryparam_string"} -> <<"Ok", "string">>
    [] fn = "ok_with_queryparam_param" -> <<"Ok", "Param">>
    [] fn = "denied_with_body" -> <<"Denied", "string">>
    [] fn = "denied_with_header_header" -> <<"Denied", "Header">>
    [] fn = "denied_with_header_string_string" -> <<"Denied", "string", "string">>
    [] fn = "header_keep_empty_value" -> <<"Header">>
    [] fn = "header_keep_empty_value_bool" -> <<"Header", "bool">>
    [] fn = "response_ok" -> <<"Ok">>
    [] fn = "response_denied" -> <<"Denied">>
    [] fn = "response_with_message" -> <<"Response", "string">>
    [] fn = "response_with_metadata" -> <<"Response", "map">>

HttpConverts(fn) ==
  CASE fn = "http_allowed" -> <<>>
    [] fn = "http_denied" -> <<"string">>
    [] fn \in {"http_get_header", "http_get_queryparam"} -> <<"attributes", "string">>
    [] fn = "http_response_ok" -> <<"HttpOk">>
    [] fn = "http_response_denied" -> <<"HttpDenied">>

JwtConverts(fn) ==
  CASE fn = "decode_string_string" -> <<"string", "string">>
    [] fn = "decode_string_set" -> <<"string", "KeySet">>
    [] fn = "fetch" -> <<"string">>
    [] fn = "token_valid" -> <<"Token">>

ConvertsTo(fn) ==
  CASE fn \in DOMAIN McpOverloads -> McpConverts(fn)
    [] fn \in DOMAIN EnvoyOverloads -> EnvoyConverts(fn)
    [] fn \in DOMAIN HttpOverloads -> HttpConverts(fn)
    [] fn \in DOMAIN JwtOverloads -> JwtConverts(fn)
    [] fn = "unmarshal" -> <<"string">>

\* cel-go gives a call to an overload only if its arguments are of the declared types.
Dispatches(fn, types) ==
  \A i \in 1 .. Len(types) : Overload(fn).args[i] \in {types[i], "dyn"}

\* A status code is an int32, where the integers of CEL have 64 bits.
StatusCodes == -(MaxInt32 + 1) .. MaxInt32

\* A map becomes a protobuf struct if JSON has a form for all its entries: for a
\* type, for instance, it has none.
EncodesStruct(m) == m = {"json"}

\* ConvertToNative of every argument, of these types and with these values: a value
\* only converts to its own type.
ConvertToNative(fn, types, a) ==
  /\ types = ConvertsTo(fn)
  /\ fn = "denied" => a[1] \in StatusCodes
  /\ fn = "response_with_metadata" => EncodesStruct(a[2])

(***************************************************************************)
(* The implementations.  Each works on one heap h, with native arguments,  *)
(* and yields the heap and the value it leaves.                            *)
(***************************************************************************)
New(h, type, parts) ==
  [heap |-> Append(h, [type |-> type, parts |-> parts]), val |-> Len(h) + 1]
Appended(h, ref, part) ==
  [heap |-> [h EXCEPT ![ref].parts = Append(@, part)], val |-> ref]
Assigned(h, ref, part) ==
  [heap |-> [h EXCEPT ![ref].parts =
     Append(SelectSeq(@, LAMBDA q : q[1] # part[1]), part)], val |-> ref]

\* A field of a message: its name, and a native value or a reference.
Field(name, x) == <<name, "native", x>>
Ref(name, type, ref) == <<name, type, ref>>
AppendedNew(h, ref, name, type, parts) ==
  Appended(Append(h, [type |-> type, parts |-> parts]), ref,
           Ref(name, type, Len(h) + 1))
KeyValue(k, v) == <<Field("key", k), Field("value", v)>>

\* Faulty variant: every call returns the same message.
allowed_shared(h) ==
  LET oks == {i \in 1 .. Len(h) : h[i].type = "Ok"}
  IN IF oks = {} THEN New(h, "Ok", <<>>)
     ELSE [heap |-> h, val |-> CHOOSE i \in oks : \A j \in oks : i <= j]

allowed(h) == New(h, "Ok", <<>>)

ok_with_header_header(h, ok, hdr) == Appended(h, ok, Ref("headers", "Header", hdr))
ok_with_header_string_string(h, ok, k, v) ==
  AppendedNew(h, ok, "headers", "Header", KeyValue(k, v))
ok_without_header(h, ok, k) == Appended(h, ok, Field("headersToRemove", k))
ok_with_response_header_header(h, ok, hdr) ==
  Appended(h, ok, Ref("responseHeadersToAdd", "Header", hdr))
ok_with_response_header_string_string(h, ok, k, v) ==
  AppendedNew(h, ok, "responseHeadersToAdd", "Header", KeyValue(k, v))
ok_with_queryparam_param(h, ok, p) ==
  Appended(h, ok, Ref("queryParametersToSet", "Param", p))
ok_with_queryparam_string_string(h, ok, k, v) ==
  AppendedNew(h, ok, "queryParametersToSet", "Param", KeyValue(k, v))
ok_without_queryparam_string(h, ok, k) ==
  Appended(h, ok, Field("queryParametersToRemove", k))
denied(h, code) == New(h, "Denied", <<Field("code", code)>>)
denied_with_body(h, d, b) == Assigned(h, d, Field("body", b))
denied_with_header_header(h, d, hdr) == Appended(h, d, Ref("headers", "Header", hdr))
denied_with_header_string_string(h, d, k, v) ==
  AppendedNew(h, d, "headers", "Header", KeyValue(k, v))
header_key_value(h, k, v) == New(h, "Header", KeyValue(k, v))
queryparam_key_value(h, k, v) == New(h, "Param", KeyValue(k, v))
header_keep_empty_value_bool(h, hdr, flag) == Assigned(h, hdr, Field("keepEmptyValue", flag))
header_keep_empty_value(h, hdr) == header_keep_empty_value_bool(h, hdr, TRUE)
response_ok(h, ok) ==
  New(h, "Response", <<Field("status", "OK"), Ref("http", "Ok", ok)>>)

response_denied(h, d) ==
  New(h, "Response", <<Field("status", "PermissionDenied"), Ref("http", "Denied", d)>>)
response_with_message(h, r, m) == Assigned(h, r, Field("message", m))
response_with_metadata(h, r, m) == Assigned(h, r, Field("dynamicMetadata", m))

\* The structs for HTTP are values: a response holds a copy.
http_allowed(h) == New(h, "HttpOk", <<>>)
http_denied(h, reason) == New(h, "HttpDenied", <<Field("reason", reason)>>)
http_response_ok(h, ok) == New(h, "HttpResponse", <<Field("ok", h[ok].parts)>>)
http_response_denied(h, d) == New(h, "HttpResponse", <<Field("denied", h[d].parts)>>)

\* What is found, if anything.
OrDefault(found, dflt) == IF found = {} THEN dflt ELSE CHOOSE x \in found : TRUE

\* The values of a header, whose name is made canonical, and of a parameter.
Canonical(k) == IF k = "x-user" THEN "X-User" ELSE k
ValuesOf(fields, k) == OrDefault({f.values : f \in {g \in fields : g.key = k}}, <<>>)
http_get_header(req, h, k) == [heap |-> h, val |-> ValuesOf(req.header, Canonical(k))]
http_get_queryparam(req, h, k) == [heap |-> h, val |-> ValuesOf(req.query, k)]

\* MCPImpl.Parse fills in the parameters of the methods it knows.
Parse(h, b) ==
  New(h, "McpRequest", <<Field("method", b.method), Field("params", b.args)>>)

\* Three methods have arguments.  A string among them is looked up by its key.
GetArguments(h, req) ==
  IF h[req].parts[1][3] \in {"tools/call", "resources/read", "prompts/get"}
  THEN h[req].parts[2][3] ELSE {}

GetStringArgument(args, k, dflt) ==
  OrDefault({a.value.text : a \in {b \in args : b.key = k /\ b.value.kind = "string"}}, dflt)

mcp_get_string(h, req, k, dflt) ==
  [heap |-> h, val |-> GetStringArgument(GetArguments(h, req), k, dflt)]

\* The claims are encoded as a protobuf struct: times as integers, and any list but
\* the typed one of the audience.
EncodesWithKey(claims) == "audience" \notin claims

\* Faulty variant: the audience is not converted to a list of values.
EncodesWithSetTyped(claims) == "audience" \notin claims

\* With a key set the audience is converted first.
EncodesWithSet(claims) == TRUE

\* jwt.Parse verifies the signature; jwt.Validate sees to the expiry.
Decode(req, h) ==
  New(h, "Token", <<Field("valid", ~req.token.expired), Field("claims", req.token.claims)>>)

\* The body is a JSON-RPC request, and the parameters of its method have their Go
\* types: the arguments of a prompt are strings.
IsMcpRequest(b) ==
  /\ b.ok /\ b.rpc
  /\ b.method = "prompts/get" => \A a \in b.args : a.value.kind = "string"

\* What a call returns an error for, once its arguments are converted to a.
\* jwk.Import takes any key that is not empty.
CallFails(req, fn, a) ==
  \/ fn = "unmarshal" /\ ~req.body.ok
  \/ fn = "mcp_parse" /\ ~IsMcpRequest(req.body)
  \/ fn \in {"decode_string_string", "decode_string_set"} /\ ~req.token.signed
  \/ fn = "decode_string_string" /\ (a[2] = "" \/ ~EncodesWithKey(req.token.claims))
  \/ fn = "decode_string_set" /\ ~EncodesWithSet(req.token.claims)
  \/ fn = "fetch" /\ ~req.keysUp

Invoke(req, fn, h, a) ==
  CASE fn = "allowed" -> allowed(h)
    [] fn = "denied" -> denied(h, a[1])
    [] fn = "header_key_value" -> header_key_value(h, a[1], a[2])
    [] fn = "queryparam_key_value" -> queryparam_key_value(h, a[1], a[2])
    [] fn = "denied_with_body" -> denied_with_body(h, a[1], a[2])
    [] fn = "ok_with_header_header" -> ok_with_header_header(h, a[1], a[2])
    [] fn = "ok_with_header_string_string" -> ok_with_header_string_string(h, a[1], a[2], a[3])
    [] fn = "denied_with_header_header" -> denied_with_header_header(h, a[1], a[2])
    [] fn = "denied_with_header_string_string" ->
         denied_with_header_string_string(h, a[1], a[2], a[3])
    [] fn = "ok_without_header" -> ok_without_header(h, a[1], a[2])
    [] fn = "ok_with_response_header_header" -> ok_with_response_header_header(h, a[1], a[2])
    [] fn = "ok_with_response_header_string_string" ->
         ok_with_response_header_string_string(h, a[1], a[2], a[3])
    [] fn = "ok_with_queryparam_param" -> ok_with_queryparam_param(h, a[1], a[2])
    [] fn = "ok_with_queryparam_string_string" ->
         ok_with_queryparam_string_string(h, a[1], a[2], a[3])
    [] fn = "ok_without_queryparam_string" -> ok_without_queryparam_string(h, a[1], a[2])
    [] fn = "header_keep_empty_value" -> header_keep_empty_value(h, a[1])
    [] fn = "header_keep_empty_value_bool" -> header_keep_empty_value_bool(h, a[1], a[2])
    [] fn = "response_ok" -> response_ok(h, a[1])
    [] fn = "response_denied" -> response_denied(h, a[1])
    [] fn = "response_with_message" -> response_with_message(h, a[1], a[2])
    [] fn = "response_with_metadata" -> response_with_metadata(h, a[1], a[2])
    [] fn = "http_allowed" -> http_allowed(h)
    [] fn = "http_denied" -> http_denied(h, a[1])
    [] fn = "http_response_ok" -> http_response_ok(h, a[1])
    [] fn = "http_response_denied" -> http_response_denied(h, a[1])
    [] fn = "http_get_header" -> http_get_header(req, h, a[2])
    [] fn = "http_get_queryparam" -> http_get_queryparam(req, h, a[2])
    [] fn = "mcp_parse" -> Parse(h, req.body)
    [] fn = "mcp_get_string" -> mcp_get_string(h, a[1], a[2], a[3])
    [] fn = "unmarshal" -> [heap |-> h, val |-> req.body.json.arg]
    [] fn = "fetch" -> New(h, "KeySet", <<>>)
    [] fn \in {"decode_string_string", "decode_string_set"} -> Decode(req, h)
    [] fn = "token_valid" -> [heap |-> h, val |-> h[a[1]].parts[1][3]]

\* The same call on a copy of the message it is called on.
Copied(req, fn, h, types, a) ==
  IF a = <<>> \/ types[1] \notin RefTypes THEN Invoke(req, fn, h, a)
  ELSE Invoke(req, fn, Append(h, h[a[1]]), [a EXCEPT ![1] = Len(h) + 1])

(***************************************************************************)
(* Compilation                                                             *)
(***************************************************************************)
TypeError == <<"error">>

\* The overload is applicable to the topmost types, and puts one in their place.
Accepts(sig, stack) ==
  LET k == Len(stack) - Len(sig.args)
  IN k >= 0 /\ \A i \in 1 .. Len(sig.args) :
                  sig.args[i] = stack[k + i] \/ "dyn" \in {sig.args[i], stack[k + i]}
Returns(sig, stack) == Append(SubSeq(stack, 1, Len(stack) - Len(sig.args)), sig.res)

\* The types on the stack after one more instruction; the type of variable i is
\* known once it is compiled: a variable refers to earlier ones only.
Typed(mode, stack, ins, varTypes) ==
  IF stack = TypeError THEN TypeError
  ELSE CASE ins.op = "lit" -> Append(stack, ins.type)
         [] ins.op = "var" -> IF ins.arg <= Len(varTypes) THEN Append(stack, varTypes[ins.arg])
                              ELSE TypeError
         [] ins.op = "call" /\ ins.arg \notin Declared(mode) -> TypeError
         [] OTHER ->
              IF Accepts(Overload(ins.arg), stack) THEN Returns(Overload(ins.arg), stack)
              ELSE TypeError

\* The types on the stack after the first n instructions.
StackTypes(mode, code, varTypes) ==
  LET types[n \in 0 .. Len(code)] ==
        IF n = 0 THEN <<>> ELSE Typed(mode, types[n - 1], code[n], varTypes)
  IN types

TypeOf(mode, code, varTypes) ==
  LET types == StackTypes(mode, code, varTypes)[Len(code)]
  IN IF Len(types) = 1 THEN types[1] ELSE "error"

\* The types of the first n variables.
Known(p) ==
  LET types[n \in 0 .. Len(p.variables)] ==
        IF n = 0 THEN <<>>
        ELSE Append(types[n - 1], TypeOf(p.mode, p.variables[n], types[n - 1]))
  IN types

VarTypes(p) == Known(p)[Len(p.variables)]

Compiles(p) ==
  LET vt == VarTypes(p)
  IN /\ \A i \in 1 .. Len(p.variables) : vt[i] # "error"
     /\ \A r \in ToSet(p.rules) :
          /\ \/ r.test = <<>>
             \/ TypeOf(p.mode, r.test, vt) \in {r.expect.type, "dyn"}
             \/ TypeOf(p.mode, r.test, vt) \in RefTypes /\ r.expect.type = "null"
          /\ TypeOf(p.mode, r.response, vt) =
               IF p.mode = "Envoy" THEN "Response" ELSE "HttpResponse"

Compile ==
  /\ phase = "compile"
  /\ phase' = IF Compiles(policy) THEN "idle" ELSE "rejected"
  /\ UNCHANGED <<policy, request, heap, pure, cache, frames, rule, result, answers>>

(***************************************************************************)
(* Evaluation                                                              *)
(***************************************************************************)
\* dest: what the value is for, i: which variable, if it is for one.
Frame(code, dest, i) == [code |-> code, pc |-> 1, stack |-> <<>>, dest |-> dest, i |-> i]
Top == Head(frames)
Ins == Top.code[Top.pc]
Running == phase = "eval" /\ Top.pc <= Len(Top.code)
After(f, stack) == [f EXCEPT !.pc = @ + 1, !.stack = stack]
Advance(stack) == <<After(Top, stack)>> \o Tail(frames)

\* The rule's test, or its response if it has none.
Enter(i) ==
  LET r == policy.rules[i]
  IN IF r.test = <<>> THEN Frame(r.response, "response", 0) ELSE Frame(r.test, "test", 0)

\* Faulty variant: the variables of the previous request are kept.
SetupKeeps ==
  IF answers = <<>> THEN [i \in 1 .. Len(policy.variables) |-> Unset] ELSE cache

\* setupVariables: a fresh lazy map for every request.
SetupVariables == [i \in 1 .. Len(policy.variables) |-> Unset]

\* What no variable refers to is garbage.
Receive ==
  /\ phase = "idle" /\ Len(answers) < MaxRequests
  /\ phase' = "eval"
  /\ cache' = SetupVariables
  /\ frames' = <<Enter(1)>>
  /\ rule' = 1
  /\ IF \A i \in DOMAIN cache' : cache'[i].type = "unset"
       THEN heap' = <<>> /\ pure' = <<>>
       ELSE UNCHANGED <<heap, pure>>
  /\ UNCHANGED <<policy, request, result, answers>>

Literal ==
  /\ Running /\ Ins.op = "lit"
  /\ frames' = Advance(Append(Top.stack, [type |-> Ins.type, v |-> Ins.arg, w |-> Ins.arg]))
  /\ UNCHANGED <<policy, phase, request, heap, pure, cache, rule, result, answers>>

\* The lazy map: the first use evaluates the variable, later ones share it.
Variable ==
  /\ Running /\ Ins.op = "var"
  /\ frames' = IF cache[Ins.arg].type = "unset"
                 THEN <<Frame(policy.variables[Ins.arg], "variable", Ins.arg)>> \o frames
                 ELSE Advance(Append(Top.stack, cache[Ins.arg]))
  /\ UNCHANGED <<policy, phase, request, heap, pure, cache, rule, result, answers>>

\* The outcomes of an evaluation; an error is that of a call, with arguments of
\* these types and values.
None == [kind |-> "none", fn |-> "", types |-> <<>>, args |-> <<>>, tree |-> <<>>, pure |-> <<>>]
Error(fn, types, a) == [None EXCEPT !.kind = "error", !.fn = fn, !.types = types, !.args = a]
Response(tree, puretree) == [None EXCEPT !.kind = "response", !.tree = tree, !.pure = puretree]

Finish(outcome) ==
  /\ result' = outcome
  /\ answers' = Append(answers, result')
  /\ phase' = "idle"
  /\ frames' = <<>>

\* The value that unmarshal yields has the type that the body has.
ResultType(req, fn) ==
  IF Overload(fn).res = "dyn" THEN req.body.json.type ELSE Overload(fn).res

Apply ==
  /\ Running /\ Ins.op = "call"
  /\ LET fn == Ins.arg
         n == Len(Overload(fn).args)
         k == Len(Top.stack) - n
         args == SubSeq(Top.stack, k + 1, Len(Top.stack))
         types == [i \in 1 .. n |-> args[i].type]
         a == [i \in 1 .. n |-> args[i].v]
         out == Invoke(request, fn, heap, a)
         copy == Copied(request, fn, pure, types, [i \in 1 .. n |-> args[i].w])
     IN IF \/ ~Dispatches(fn, types) \/ ~ConvertToNative(fn, types, a)
           \/ CallFails(request, fn, a)
        THEN Finish(Error(fn, types, a)) /\ UNCHANGED <<heap, pure>>
        ELSE /\ heap' = out.heap /\ pure' = copy.heap
             /\ frames' = Advance(Append(SubSeq(Top.stack, 1, k),
                  [type |-> ResultType(request, fn), v |-> out.val, w |-> copy.val]))
             /\ UNCHANGED <<phase, result, answers>>
  /\ UNCHANGED <<policy, request, cache, rule>>

\* A message with everything it refers to: responses refer to ok and denied
\* messages, those to headers and parameters.
Tree(h, part, Inner(_, _)) ==
  IF part[2] = "native" THEN part
  ELSE <<part[1], part[2], [i \in 1 .. Len(h[part[3]].parts) |-> Inner(h, h[part[3]].parts[i])]>>
Flat(h, part) == part
Tree1(h, part) == Tree(h, part, Flat)
Tree2(h, part) == Tree(h, part, Tree1)
ResponseTree(h, type, ref) == Tree(h, Ref("response", type, ref), Tree2)

Value == Top.stack[1]
Ended == phase = "eval" /\ Top.pc > Len(Top.code)

VariableEnds ==
  /\ Ended /\ Top.dest = "variable"
  /\ cache' = [cache EXCEPT ![Top.i] = Value]
  /\ LET up == frames[2]
     IN frames' = <<After(up, Append(up.stack, Value))>> \o SubSeq(frames, 3, Len(frames))
  /\ UNCHANGED <<policy, phase, request, heap, pure, rule, result, answers>>

\* Equality in CEL: of one type, or of numbers.
Equals(x, lit) ==
  (x.type = lit.type \/ {x.type, lit.type} = {"int", "double"}) /\ x.v = lit.arg

TestEnds ==
  /\ Ended /\ Top.dest = "test"
  /\ LET r == policy.rules[rule]
         holds == Equals(Value, r.expect)
     IN CASE holds ->
               /\ frames' = <<Frame(r.response, "response", 0)>>
               /\ UNCHANGED <<phase, rule, result, answers>>
          [] ~holds /\ rule < Len(policy.rules) ->   \* null: the next rule
               /\ rule' = rule + 1
               /\ frames' = <<Enter(rule + 1)>>
               /\ UNCHANGED <<phase, result, answers>>
          [] OTHER -> Finish(None) /\ UNCHANGED rule
  /\ UNCHANGED <<policy, request, heap, pure, cache>>

ResponseEnds ==
  /\ Ended /\ Top.dest = "response"
  /\ Finish(Response(ResponseTree(heap, Value.type, Value.v),
                     ResponseTree(pure, Value.type, Value.w)))
  /\ UNCHANGED <<policy, request, heap, pure, cache, rule>>

Init ==
  /\ policy \in Policies /\ request \in Requests
  /\ phase = "compile" /\ heap = <<>> /\ pure = <<>> /\ cache = <<>>
  /\ frames = <<>> /\ rule = 1
  /\ result = None
  /\ answers = <<>>

Next ==
  \/ Compile \/ Receive \/ Literal \/ Variable \/ Apply
  \/ VariableEnds \/ TestEnds \/ ResponseEnds

Spec == Init /\ [][Next]_vars

-----------------------------------------------------------------------------
(***************************************************************************)
(* Properties                                                              *)
(***************************************************************************)
Expressions ==
  policy.variables \o FlattenSeq([k \in 1 .. Len(policy.rules) |->
                                    <<policy.rules[k].test, policy.rules[k].response>>])

\* How often the expressions of the policy name a variable.
Uses(i) ==
  FoldLeft(LAMBDA n, code : n + Len(SelectSeq(code, LAMBDA x : x = Var(i))), 0, Expressions)

\* An argument of the call that failed has another type than the one that is
\* declared: the checker passes what unmarshal yields, whose type is dyn, as an
\* argument of any type.
PassesJson ==
  /\ \E code \in Programs(policy) : Call("unmarshal") \in ToSet(code)
  /\ \E i \in DOMAIN result.types :
       /\ result.types[i] \in JsonTypes
       /\ Overload(result.fn).args[i] \notin {result.types[i], "dyn"}

\* A response holds what its own expression put into it and nothing else: no
\* trace of another rule, of another request or of a test that was false.  This
\* is so for every policy that names each of its variables at most once; the
\* builders change the message a variable holds under the other uses of it.
ResponseIsWhatWasWritten ==
  (result.kind = "response" /\ \A i \in DOMAIN policy.variables : Uses(i) <= 1)
    => result.tree = result.pure

\* The same request gets the same response, however often it is made: what the
\* rules change in the variables does not outlive the evaluation.
EvaluationIsRepeatable ==
  \A i, j \in DOMAIN answers : answers[i] = answers[j]

\* An evaluation that fails does so for what the request brings with it: a body
\* that is not what it is parsed as, a token that is not signed with the key, a key
\* set that cannot be fetched.  What the policy is to blame for is found when it is
\* compiled.  The exceptions: the MCP getters other than the one for strings, whose
\* overloads are not what is implemented, so that every call fails; a parser whose
\* argument, which is declared as dyn, is not a string; a value from JSON where
\* another type is declared; a status code that is no int32; metadata that JSON
\* cannot hold; an empty key; and a token with an audience that is decoded with a
\* key, although the same token is decoded with a key set.
FailsOnlyForTheRequest ==
  result.kind = "error" =>
    \/ result.fn = "unmarshal" /\ ~request.body.ok
    \/ result.fn = "mcp_parse" /\ ~IsMcpRequest(request.body)
    \/ result.fn \in {"decode_string_string", "decode_string_set"} /\ ~request.token.signed
    \/ result.fn = "fetch" /\ ~request.keysUp
    \/ result.fn \in Getters \ {"mcp_get_string"}
    \/ result.fn \in {"mcp_parse", "unmarshal"} /\ result.types # <<"string">>
    \/ PassesJson
    \/ result.fn = "denied" /\ result.args[1] \notin StatusCodes
    \/ result.fn = "response_with_metadata" /\ ~EncodesStruct(result.args[2])
    \/ result.fn = "decode_string_string" /\ result.args[2] = ""
    \/ result.fn = "decode_string_string" /\ "audience" \in request.token.claims
=============================================================================
