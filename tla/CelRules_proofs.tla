---------------------------- MODULE CelRules_proofs ----------------------------
(***************************************************************************)
(* Theorems about CelRules, for any policies and requests.                 *)
(***************************************************************************)
EXTENDS CelRules, WellFoundedInduction, TLAPS

-----------------------------------------------------------------------------
(* The inductive invariant: the checker's types describe what the          *)
(* evaluator has on its stacks.                                            *)

\* A policy p calls unmarshal.
CallsUnmarshal(p) == \E code \in Programs(p) : Call("unmarshal") \in ToSet(code)

\* A value of type t where the checker has type s: no value is of type dyn, which
\* stands for any value from JSON.
Fits(p, t, s) ==
  t # "dyn" /\ (t = s \/ (t \in JsonTypes /\ s = "dyn" /\ CallsUnmarshal(p)))

\* Among the arguments of a call there is a value from JSON, where another type is
\* declared.
JsonPassed(p, fn, types) ==
  /\ CallsUnmarshal(p)
  /\ \E i \in DOMAIN types :
       types[i] \in JsonTypes /\ Overload(fn).args[i] \notin {types[i], "dyn"}

StackFits(p, stack, types) ==
  /\ stack \in Seq(ToSet(stack)) /\ Len(stack) = Len(types)
  /\ \A i \in 1 .. Len(stack) : Fits(p, stack[i].type, types[i])

\* The variables that a frame's expression may name, and its types.
FrameKnown(p, f) == IF f.dest = "variable" THEN Known(p)[f.i - 1] ELSE VarTypes(p)
FrameTypes(p, f) == StackTypes(p.mode, f.code, FrameKnown(p, f))

IsFrame(f) ==
  f \in [code : {f.code}, pc : {f.pc}, stack : {f.stack}, dest : {f.dest}, i : {f.i}]

\* A frame is somewhere in an expression that is well typed.
FrameInv(p, f) ==
  /\ IsFrame(f)
  /\ f.code \in Programs(p)
  /\ f.pc \in 1 .. Len(f.code) + 1
  /\ f.dest = "variable" => f.i \in 1 .. Len(p.variables) /\ f.code = p.variables[f.i]
  /\ TypeOf(p.mode, f.code, FrameKnown(p, f)) # "error"
  /\ StackFits(p, f.stack, FrameTypes(p, f)[f.pc - 1])

\* A variable is evaluated for the expression that names it.
CallerInv(f, up) ==
  /\ f.dest = "variable" /\ up.pc <= Len(up.code)
  /\ up.code[up.pc].op = "var" /\ up.code[up.pc].arg = f.i

FramesInv(p, fs) ==
  /\ fs \in Seq(ToSet(fs))
  /\ \A k \in 1 .. Len(fs) : FrameInv(p, fs[k])
  /\ \A k \in 1 .. Len(fs) - 1 : CallerInv(fs[k], fs[k + 1])
  /\ fs # <<>> => fs[Len(fs)].dest # "variable"

CacheInv(p, vals) ==
  /\ DOMAIN vals = 1 .. Len(p.variables)
  /\ \A i \in 1 .. Len(p.variables) :
       vals[i].type # "unset" => Fits(p, vals[i].type, VarTypes(p)[i])

IInv ==
  /\ policy \in Policies /\ request \in Requests
  /\ phase \in {"compile", "rejected", "idle", "eval"}
  /\ phase \in {"idle", "eval"} => Compiles(policy)
  /\ phase = "eval" => /\ rule \in 1 .. Len(policy.rules)
                       /\ CacheInv(policy, cache)
                       /\ FramesInv(policy, frames) /\ frames # <<>>
  /\ FailsOnlyForTheRequest

-----------------------------------------------------------------------------
(* What the libraries declare and what they implement                      *)

\* The overload of a function, with an implementation that is as declared but for
\* the parsers and the getters of the exceptions.
Sound(fn, sig, converts) ==
  /\ Len(sig.args) \in Nat /\ sig.args = [i \in 1 .. Len(sig.args) |-> sig.args[i]]
  /\ sig.res = "dyn" => fn = "unmarshal"
  /\ fn \in {"mcp_parse", "unmarshal"} => converts = <<"string">>
  /\ fn \notin {"mcp_parse", "unmarshal"} => \A i \in 1 .. Len(sig.args) : sig.args[i] # "dyn"
  /\ fn \notin {"mcp_parse", "unmarshal"} \cup (Getters \ {"mcp_get_string"}) => converts = sig.args

\* The functions of the library Envoy.
LEMMA EnvoyNames ==
  DOMAIN EnvoyOverloads =
    {"allowed", "denied", "header_key_value", "queryparam_key_value",
      "denied_with_body", "ok_with_header_header", "ok_with_header_string_string",
      "denied_with_header_header", "denied_with_header_string_string",
      "ok_without_header", "ok_with_response_header_header",
      "ok_with_response_header_string_string", "ok_with_queryparam_param",
      "ok_with_queryparam_string_string", "ok_without_queryparam_string",
      "header_keep_empty_value", "header_keep_empty_value_bool", "response_ok",
      "response_denied", "response_with_message", "response_with_metadata"}
BY DEF EnvoyOverloads

LEMMA EnvoySound ==
  ASSUME NEW fn \in DOMAIN EnvoyOverloads
  PROVE  Sound(fn, EnvoyOverloads[fn], EnvoyConverts(fn))
<1>1. CASE fn = "allowed"
  <2>1. EnvoyOverloads[fn].args = <<>> /\ EnvoyOverloads[fn].res = "Ok"
    BY <1>1 DEF EnvoyOverloads, Sig
  <2>2. EnvoyConverts(fn) = <<>>
    BY <1>1 DEF EnvoyConverts
  <2>. QED  BY <1>1, <2>1, <2>2 DEF Sound
<1>2. CASE fn = "denied"
  <2>1. EnvoyOverloads[fn].args = <<"int">> /\ EnvoyOverloads[fn].res = "Denied"
    BY <1>2 DEF EnvoyOverloads, Sig
  <2>2. EnvoyConverts(fn) = <<"int">>
    BY <1>2 DEF EnvoyConverts
  <2>. QED  BY <1>2, <2>1, <2>2 DEF Sound
<1>3. CASE fn = "header_key_value"
  <2>1. EnvoyOverloads[fn].args = <<"string", "string">> /\ EnvoyOverloads[fn].res = "Header"
    BY <1>3 DEF EnvoyOverloads, Sig
  <2>2. EnvoyConverts(fn) = <<"string", "string">>
    BY <1>3 DEF EnvoyConverts
  <2>. QED  BY <1>3, <2>1, <2>2 DEF Sound
<1>4. CASE fn = "queryparam_key_value"
  <2>1. EnvoyOverloads[fn].args = <<"string", "string">> /\ EnvoyOverloads[fn].res = "Param"
    BY <1>4 DEF EnvoyOverloads, Sig
  <2>2. EnvoyConverts(fn) = <<"string", "string">>
    BY <1>4 DEF EnvoyConverts
  <2>. QED  BY <1>4, <2>1, <2>2 DEF Sound
<1>5. CASE fn = "denied_with_body"
  <2>1. EnvoyOverloads[fn].args = <<"Denied", "string">> /\ EnvoyOverloads[fn].res = "Denied"
    BY <1>5 DEF EnvoyOverloads, Sig
  <2>2. EnvoyConverts(fn) = <<"Denied", "string">>
    BY <1>5 DEF EnvoyConverts
  <2>. QED  BY <1>5, <2>1, <2>2 DEF Sound
<1>6. CASE fn = "ok_with_header_header"
  <2>1. EnvoyOverloads[fn].args = <<"Ok", "Header">> /\ EnvoyOverloads[fn].res = "Ok"
    BY <1>6 DEF EnvoyOverloads, Sig
  <2>2. EnvoyConverts(fn) = <<"Ok", "Header">>
    BY <1>6 DEF EnvoyConverts
  <2>. QED  BY <1>6, <2>1, <2>2 DEF Sound
<1>7. CASE fn = "ok_with_header_string_string"
  <2>1. EnvoyOverloads[fn].args = <<"Ok", "string", "string">> /\ EnvoyOverloads[fn].res = "Ok"
    BY <1>7 DEF EnvoyOverloads, Sig
  <2>2. EnvoyConverts(fn) = <<"Ok", "string", "string">>
    BY <1>7 DEF EnvoyConverts
  <2>. QED  BY <1>7, <2>1, <2>2 DEF Sound
<1>8. CASE fn = "denied_with_header_header"
  <2>1. EnvoyOverloads[fn].args = <<"Denied", "Header">> /\ EnvoyOverloads[fn].res = "Denied"
    BY <1>8 DEF EnvoyOverloads, Sig
  <2>2. EnvoyConverts(fn) = <<"Denied", "Header">>
    BY <1>8 DEF EnvoyConverts
  <2>. QED  BY <1>8, <2>1, <2>2 DEF Sound
<1>9. CASE fn = "denied_with_header_string_string"
  <2>1. EnvoyOverloads[fn].args = <<"Denied", "string", "string">> /\ EnvoyOverloads[fn].res = "Denied"
    BY <1>9 DEF EnvoyOverloads, Sig
  <2>2. EnvoyConverts(fn) = <<"Denied", "string", "string">>
    BY <1>9 DEF EnvoyConverts
  <2>. QED  BY <1>9, <2>1, <2>2 DEF Sound
<1>10. CASE fn = "ok_without_header"
  <2>1. EnvoyOverloads[fn].args = <<"Ok", "string">> /\ EnvoyOverloads[fn].res = "Ok"
    BY <1>10 DEF EnvoyOverloads, Sig
  <2>2. EnvoyConverts(fn) = <<"Ok", "string">>
    BY <1>10 DEF EnvoyConverts
  <2>. QED  BY <1>10, <2>1, <2>2 DEF Sound
<1>11. CASE fn = "ok_with_response_header_header"
  <2>1. EnvoyOverloads[fn].args = <<"Ok", "Header">> /\ EnvoyOverloads[fn].res = "Ok"
    BY <1>11 DEF EnvoyOverloads, Sig
  <2>2. EnvoyConverts(fn) = <<"Ok", "Header">>
    BY <1>11 DEF EnvoyConverts
  <2>. QED  BY <1>11, <2>1, <2>2 DEF Sound
<1>12. CASE fn = "ok_with_response_header_string_string"
  <2>1. EnvoyOverloads[fn].args = <<"Ok", "string", "string">> /\ EnvoyOverloads[fn].res = "Ok"
    BY <1>12 DEF EnvoyOverloads, Sig
  <2>2. EnvoyConverts(fn) = <<"Ok", "string", "string">>
    BY <1>12 DEF EnvoyConverts
  <2>. QED  BY <1>12, <2>1, <2>2 DEF Sound
<1>13. CASE fn = "ok_with_queryparam_param"
  <2>1. EnvoyOverloads[fn].args = <<"Ok", "Param">> /\ EnvoyOverloads[fn].res = "Ok"
    BY <1>13 DEF EnvoyOverloads, Sig
  <2>2. EnvoyConverts(fn) = <<"Ok", "Param">>
    BY <1>13 DEF EnvoyConverts
  <2>. QED  BY <1>13, <2>1, <2>2 DEF Sound
<1>14. CASE fn = "ok_with_queryparam_string_string"
  <2>1. EnvoyOverloads[fn].args = <<"Ok", "string", "string">> /\ EnvoyOverloads[fn].res = "Ok"
    BY <1>14 DEF EnvoyOverloads, Sig
  <2>2. EnvoyConverts(fn) = <<"Ok", "string", "string">>
    BY <1>14 DEF EnvoyConverts
  <2>. QED  BY <1>14, <2>1, <2>2 DEF Sound
<1>15. CASE fn = "ok_without_queryparam_string"
  <2>1. EnvoyOverloads[fn].args = <<"Ok", "string">> /\ EnvoyOverloads[fn].res = "Ok"
    BY <1>15 DEF EnvoyOverloads, Sig
  <2>2. EnvoyConverts(fn) = <<"Ok", "string">>
    BY <1>15 DEF EnvoyConverts
  <2>. QED  BY <1>15, <2>1, <2>2 DEF Sound
<1>16. CASE fn = "header_keep_empty_value"
  <2>1. EnvoyOverloads[fn].args = <<"Header">> /\ EnvoyOverloads[fn].res = "Header"
    BY <1>16 DEF EnvoyOverloads, Sig
  <2>2. EnvoyConverts(fn) = <<"Header">>
    BY <1>16 DEF EnvoyConverts
  <2>. QED  BY <1>16, <2>1, <2>2 DEF Sound
<1>17. CASE fn = "header_keep_empty_value_bool"
  <2>1. EnvoyOverloads[fn].args = <<"Header", "bool">> /\ EnvoyOverloads[fn].res = "Header"
    BY <1>17 DEF EnvoyOverloads, Sig
  <2>2. EnvoyConverts(fn) = <<"Header", "bool">>
    BY <1>17 DEF EnvoyConverts
  <2>. QED  BY <1>17, <2>1, <2>2 DEF Sound
<1>18. CASE fn = "response_ok"
  <2>1. EnvoyOverloads[fn].args = <<"Ok">> /\ EnvoyOverloads[fn].res = "Response"
    BY <1>18 DEF EnvoyOverloads, Sig
  <2>2. EnvoyConverts(fn) = <<"Ok">>
    BY <1>18 DEF EnvoyConverts
  <2>. QED  BY <1>18, <2>1, <2>2 DEF Sound
<1>19. CASE fn = "response_denied"
  <2>1. EnvoyOverloads[fn].args = <<"Denied">> /\ EnvoyOverloads[fn].res = "Response"
    BY <1>19 DEF EnvoyOverloads, Sig
  <2>2. EnvoyConverts(fn) = <<"Denied">>
    BY <1>19 DEF EnvoyConverts
  <2>. QED  BY <1>19, <2>1, <2>2 DEF Sound
<1>20. CASE fn = "response_with_message"
  <2>1. EnvoyOverloads[fn].args = <<"Response", "string">> /\ EnvoyOverloads[fn].res = "Response"
    BY <1>20 DEF EnvoyOverloads, Sig
  <2>2. EnvoyConverts(fn) = <<"Response", "string">>
    BY <1>20 DEF EnvoyConverts
  <2>. QED  BY <1>20, <2>1, <2>2 DEF Sound
<1>21. CASE fn = "response_with_metadata"
  <2>1. EnvoyOverloads[fn].args = <<"Response", "map">> /\ EnvoyOverloads[fn].res = "Response"
    BY <1>21 DEF EnvoyOverloads, Sig
  <2>2. EnvoyConverts(fn) = <<"Response", "map">>
    BY <1>21 DEF EnvoyConverts
  <2>. QED  BY <1>21, <2>1, <2>2 DEF Sound
<1>. QED  BY <1>1, <1>2, <1>3, <1>4, <1>5, <1>6, <1>7, <1>8, <1>9, <1>10, <1>11, <1>12, <1>13, <1>14, <1>15, <1>16, <1>17, <1>18, <1>19, <1>20, <1>21, EnvoyNames

\* The functions of the library Http.
LEMMA HttpNames ==
  DOMAIN HttpOverloads =
    {"http_allowed", "http_denied", "http_get_header", "http_get_queryparam",
      "http_response_ok", "http_response_denied"}
BY DEF HttpOverloads

LEMMA HttpSound ==
  ASSUME NEW fn \in DOMAIN HttpOverloads
  PROVE  Sound(fn, HttpOverloads[fn], HttpConverts(fn))
<1>1. CASE fn = "http_allowed"
  <2>1. HttpOverloads[fn].args = <<>> /\ HttpOverloads[fn].res = "HttpOk"
    BY <1>1 DEF HttpOverloads, Sig
  <2>2. HttpConverts(fn) = <<>>
    BY <1>1 DEF HttpConverts
  <2>. QED  BY <1>1, <2>1, <2>2 DEF Sound
<1>2. CASE fn = "http_denied"
  <2>1. HttpOverloads[fn].args = <<"string">> /\ HttpOverloads[fn].res = "HttpDenied"
    BY <1>2 DEF HttpOverloads, Sig
  <2>2. HttpConverts(fn) = <<"string">>
    BY <1>2 DEF HttpConverts
  <2>. QED  BY <1>2, <2>1, <2>2 DEF Sound
<1>3. CASE fn = "http_get_header"
  <2>1. HttpOverloads[fn].args = <<"attributes", "string">> /\ HttpOverloads[fn].res = "strings"
    BY <1>3 DEF HttpOverloads, Sig
  <2>2. HttpConverts(fn) = <<"attributes", "string">>
    BY <1>3 DEF HttpConverts
  <2>. QED  BY <1>3, <2>1, <2>2 DEF Sound
<1>4. CASE fn = "http_get_queryparam"
  <2>1. HttpOverloads[fn].args = <<"attributes", "string">> /\ HttpOverloads[fn].res = "strings"
    BY <1>4 DEF HttpOverloads, Sig
  <2>2. HttpConverts(fn) = <<"attributes", "string">>
    BY <1>4 DEF HttpConverts
  <2>. QED  BY <1>4, <2>1, <2>2 DEF Sound
<1>5. CASE fn = "http_response_ok"
  <2>1. HttpOverloads[fn].args = <<"HttpOk">> /\ HttpOverloads[fn].res = "HttpResponse"
    BY <1>5 DEF HttpOverloads, Sig
  <2>2. HttpConverts(fn) = <<"HttpOk">>
    BY <1>5 DEF HttpConverts
  <2>. QED  BY <1>5, <2>1, <2>2 DEF Sound
<1>6. CASE fn = "http_response_denied"
  <2>1. HttpOverloads[fn].args = <<"HttpDenied">> /\ HttpOverloads[fn].res = "HttpResponse"
    BY <1>6 DEF HttpOverloads, Sig
  <2>2. HttpConverts(fn) = <<"HttpDenied">>
    BY <1>6 DEF HttpConverts
  <2>. QED  BY <1>6, <2>1, <2>2 DEF Sound
<1>. QED  BY <1>1, <1>2, <1>3, <1>4, <1>5, <1>6, HttpNames

\* The functions of the library Mcp.
LEMMA McpNames ==
  DOMAIN McpOverloads =
    {"mcp_parse", "mcp_get_string", "mcp_get_int", "mcp_get_float",
      "mcp_get_bool", "mcp_get_string_slice", "mcp_get_int_slice",
      "mcp_get_float_slice", "mcp_get_bool_slice"}
BY DEF McpOverloads

LEMMA McpSound ==
  ASSUME NEW fn \in DOMAIN McpOverloads
  PROVE  Sound(fn, McpOverloads[fn], McpConverts(fn))
<1>1. CASE fn = "mcp_parse"
  <2>1. McpOverloads[fn].args = <<"dyn">> /\ McpOverloads[fn].res = "McpRequest"
    BY <1>1 DEF McpOverloads, Sig
  <2>2. McpConverts(fn) = <<"string">>
    BY <1>1 DEF McpConverts
  <2>. QED  BY <1>1, <2>1, <2>2 DEF Sound, Getters, McpOverloads
<1>2. CASE fn = "mcp_get_string"
  <2>1. McpOverloads[fn].args = <<"McpRequest", "string", "string">> /\ McpOverloads[fn].res = "string"
    BY <1>2 DEF McpOverloads, Sig
  <2>2. McpConverts(fn) = <<"McpRequest", "string", "string">>
    BY <1>2 DEF McpConverts
  <2>. QED  BY <1>2, <2>1, <2>2 DEF Sound, Getters, McpOverloads
<1>3. CASE fn = "mcp_get_int"
  <2>1. McpOverloads[fn].args = <<"McpRequest", "int", "int">> /\ McpOverloads[fn].res = "int"
    BY <1>3 DEF McpOverloads, Sig
  <2>2. McpConverts(fn) = <<"McpRequest", "string", "int">>
    BY <1>3 DEF McpConverts
  <2>. QED  BY <1>3, <2>1, <2>2 DEF Sound, Getters, McpOverloads
<1>4. CASE fn = "mcp_get_float"
  <2>1. McpOverloads[fn].args = <<"McpRequest", "double", "double">> /\ McpOverloads[fn].res = "double"
    BY <1>4 DEF McpOverloads, Sig
  <2>2. McpConverts(fn) = <<"McpRequest", "string", "double">>
    BY <1>4 DEF McpConverts
  <2>. QED  BY <1>4, <2>1, <2>2 DEF Sound, Getters, McpOverloads
<1>5. CASE fn = "mcp_get_bool"
  <2>1. McpOverloads[fn].args = <<"McpRequest", "bool", "bool">> /\ McpOverloads[fn].res = "bool"
    BY <1>5 DEF McpOverloads, Sig
  <2>2. McpConverts(fn) = <<"McpRequest", "string", "bool">>
    BY <1>5 DEF McpConverts
  <2>. QED  BY <1>5, <2>1, <2>2 DEF Sound, Getters, McpOverloads
<1>6. CASE fn = "mcp_get_string_slice"
  <2>1. McpOverloads[fn].args = <<"McpRequest", "string", "string">> /\ McpOverloads[fn].res = "strings"
    BY <1>6 DEF McpOverloads, Sig
  <2>2. McpConverts(fn) = <<"McpRequest", "string", "strings">>
    BY <1>6 DEF McpConverts
  <2>. QED  BY <1>6, <2>1, <2>2 DEF Sound, Getters, McpOverloads
<1>7. CASE fn = "mcp_get_int_slice"
  <2>1. McpOverloads[fn].args = <<"McpRequest", "int", "int">> /\ McpOverloads[fn].res = "ints"
    BY <1>7 DEF McpOverloads, Sig
  <2>2. McpConverts(fn) = <<"McpRequest", "string", "ints">>
    BY <1>7 DEF McpConverts
  <2>. QED  BY <1>7, <2>1, <2>2 DEF Sound, Getters, McpOverloads
<1>8. CASE fn = "mcp_get_float_slice"
  <2>1. McpOverloads[fn].args = <<"McpRequest", "double", "double">> /\ McpOverloads[fn].res = "doubles"
    BY <1>8 DEF McpOverloads, Sig
  <2>2. McpConverts(fn) = <<"McpRequest", "string", "doubles">>
    BY <1>8 DEF McpConverts
  <2>. QED  BY <1>8, <2>1, <2>2 DEF Sound, Getters, McpOverloads
<1>9. CASE fn = "mcp_get_bool_slice"
  <2>1. McpOverloads[fn].args = <<"McpRequest", "bool", "bool">> /\ McpOverloads[fn].res = "bools"
    BY <1>9 DEF McpOverloads, Sig
  <2>2. McpConverts(fn) = <<"McpRequest", "string", "bools">>
    BY <1>9 DEF McpConverts
  <2>. QED  BY <1>9, <2>1, <2>2 DEF Sound, Getters, McpOverloads
<1>. QED  BY <1>1, <1>2, <1>3, <1>4, <1>5, <1>6, <1>7, <1>8, <1>9, McpNames

\* The functions of the library Jwt.
LEMMA JwtNames ==
  DOMAIN JwtOverloads =
    {"decode_string_string", "decode_string_set", "fetch", "token_valid"}
BY DEF JwtOverloads

LEMMA JwtSound ==
  ASSUME NEW fn \in DOMAIN JwtOverloads
  PROVE  Sound(fn, JwtOverloads[fn], JwtConverts(fn))
<1>1. CASE fn = "decode_string_string"
  <2>1. JwtOverloads[fn].args = <<"string", "string">> /\ JwtOverloads[fn].res = "Token"
    BY <1>1 DEF JwtOverloads, Sig
  <2>2. JwtConverts(fn) = <<"string", "string">>
    BY <1>1 DEF JwtConverts
  <2>. QED  BY <1>1, <2>1, <2>2 DEF Sound
<1>2. CASE fn = "decode_string_set"
  <2>1. JwtOverloads[fn].args = <<"string", "KeySet">> /\ JwtOverloads[fn].res = "Token"
    BY <1>2 DEF JwtOverloads, Sig
  <2>2. JwtConverts(fn) = <<"string", "KeySet">>
    BY <1>2 DEF JwtConverts
  <2>. QED  BY <1>2, <2>1, <2>2 DEF Sound
<1>3. CASE fn = "fetch"
  <2>1. JwtOverloads[fn].args = <<"string">> /\ JwtOverloads[fn].res = "KeySet"
    BY <1>3 DEF JwtOverloads, Sig
  <2>2. JwtConverts(fn) = <<"string">>
    BY <1>3 DEF JwtConverts
  <2>. QED  BY <1>3, <2>1, <2>2 DEF Sound
<1>4. CASE fn = "token_valid"
  <2>1. JwtOverloads[fn].args = <<"Token">> /\ JwtOverloads[fn].res = "bool"
    BY <1>4 DEF JwtOverloads, Sig
  <2>2. JwtConverts(fn) = <<"Token">>
    BY <1>4 DEF JwtConverts
  <2>. QED  BY <1>4, <2>1, <2>2 DEF Sound
<1>. QED  BY <1>1, <1>2, <1>3, <1>4, JwtNames
\* No function is in two libraries.
LEMMA OverloadSound ==
  ASSUME NEW mode, NEW fn \in Declared(mode)
  PROVE  Sound(fn, Overload(fn), ConvertsTo(fn))
<1>0. DOMAIN JsonOverloads = {"unmarshal"}
  BY DEF JsonOverloads
<1> USE <1>0, EnvoyNames, HttpNames, McpNames, JwtNames
<1>1. CASE fn \in DOMAIN McpOverloads
  <2>1. Overload(fn) = McpOverloads[fn] /\ ConvertsTo(fn) = McpConverts(fn)
    BY <1>1 DEF Overload, ConvertsTo
  <2>. QED  BY <1>1, <2>1, McpSound
<1>2. CASE fn \in DOMAIN JwtOverloads
  <2>1. Overload(fn) = JwtOverloads[fn] /\ ConvertsTo(fn) = JwtConverts(fn)
    BY <1>2 DEF Overload, ConvertsTo
  <2>. QED  BY <1>2, <2>1, JwtSound
<1>3. CASE fn \in DOMAIN JsonOverloads
  <2>1. fn = "unmarshal" /\ JsonOverloads[fn].args = <<"dyn">> /\ JsonOverloads[fn].res = "dyn"
    BY <1>3 DEF JsonOverloads, Sig
  <2>2. Overload(fn) = JsonOverloads[fn] /\ ConvertsTo(fn) = <<"string">>
    BY <1>3, <2>1 DEF Overload, ConvertsTo
  <2>. QED  BY <2>1, <2>2 DEF Sound
<1>4. CASE fn \in DOMAIN EnvoyOverloads
  <2>1. Overload(fn) = EnvoyOverloads[fn] /\ ConvertsTo(fn) = EnvoyConverts(fn)
    BY <1>4 DEF Overload, ConvertsTo
  <2>. QED  BY <1>4, <2>1, EnvoySound
<1>5. CASE fn \in DOMAIN HttpOverloads
  <2>1. Overload(fn) = HttpOverloads[fn] /\ ConvertsTo(fn) = HttpConverts(fn)
    BY <1>5 DEF Overload, ConvertsTo
  <2>. QED  BY <1>5, <2>1, HttpSound
<1>. QED  BY <1>1, <1>2, <1>3, <1>4, <1>5 DEF Declared
-----------------------------------------------------------------------------
(* Induction, and what is defined by recursion over numbers.               *)

\* A set of numbers that is not empty has a least element.
LEMMA LeastExists ==
  ASSUME NEW T, T \subseteq Nat, T # {}
  PROVE  \E x \in T : \A y \in T : x <= y
<1>1. PICK x \in T : \A y \in T : ~(<<y, x>> \in OpToRel(<, Nat))
  BY NatLessThanWellFounded, WFMin
<1>2. ASSUME NEW y \in T PROVE x <= y
  <2>1. y \in Nat /\ x \in Nat
    OBVIOUS
  <2>2. y < x => <<y, x>> \in OpToRel(<, Nat)
    BY <2>1 DEF OpToRel
  <2>3. ~(y < x)
    BY <1>1, <2>2, Zenon
  <2>. QED  BY <2>1, <2>3
<1>. QED  BY <1>2

\* Induction over numbers.
LEMMA NumbersInduct ==
  ASSUME NEW T, 0 \in T, \A n \in Nat : n \in T => n + 1 \in T
  PROVE  Nat \subseteq T
<1> SUFFICES ASSUME Nat \ T # {} PROVE FALSE
  OBVIOUS
<1>1. PICK x \in Nat \ T : \A y \in Nat \ T : x <= y
  BY LeastExists
<1>2. x # 0 /\ x - 1 \in Nat /\ x = (x - 1) + 1
  BY <1>1
<1>3. x - 1 \in T
  BY <1>1, <1>2
<1>. QED  BY <1>1, <1>2, <1>3

\* G[n] takes the value for n - 1 to the value for n; the values are in S.
StaysIn(G, N, S) == \A s \in S : \A n \in 1 .. N : G[n][s] \in S
Iterates(f, G, N, S, b) ==
  /\ f \in [0 .. N -> S] /\ f[0] = b
  /\ \A n \in 1 .. N : f[n] = G[n][f[n - 1]]

\* A function that is defined from its value for the number before exists.
LEMMA RecursionExists ==
  ASSUME NEW N \in Nat, NEW S, NEW b \in S, NEW G, StaysIn(G, N, S)
  PROVE  \E f : Iterates(f, G, N, S, b)
<1> USE DEF Iterates, StaysIn
<1> DEFINE Rec(f, m) == Iterates(f, G, m, S, b)
           T == {m \in Nat : m <= N => \E f : Rec(f, m)}
<1>1. 0 \in T
  <2> DEFINE f == [n \in 0 .. 0 |-> b]
  <2>1. Rec(f, 0)
    OBVIOUS
  <2>. QED  BY <2>1
<1>2. ASSUME NEW m \in Nat, m \in T, m + 1 <= N PROVE \E f : Rec(f, m + 1)
  <2>1. PICK f : Rec(f, m)
    BY <1>2
  <2> DEFINE y == G[m + 1][f[m]]
             g == [n \in 0 .. m + 1 |-> IF n <= m THEN f[n] ELSE y]
  <2>2. f[m] \in S /\ y \in S
    <3>1. f[m] \in S /\ m + 1 \in 1 .. N
      BY <1>2, <2>1
    <3>. QED  BY <3>1
  <2>3. g \in [0 .. m + 1 -> S] /\ g[0] = b
    <3> HIDE DEF y
    <3>. QED  BY <2>1, <2>2
  <2>4. ASSUME NEW n \in 1 .. m + 1 PROVE g[n] = G[n][g[n - 1]]
    <3>1. CASE n <= m
      <4>1. g[n] = f[n] /\ g[n - 1] = f[n - 1] /\ n \in 1 .. m
        BY <3>1
      <4>. QED  BY <2>1, <4>1
    <3>2. CASE n = m + 1
      <4>1. g[n] = y /\ g[n - 1] = f[m]
        BY <3>2
      <4>. QED  BY <3>2, <4>1
    <3>. QED  BY <3>1, <3>2
  <2> HIDE DEF g
  <2>. QED  BY <2>3, <2>4
<1>3. Nat \subseteq T
  <2>1. \A m \in Nat : m \in T => m + 1 \in T
    <3> HIDE DEF Rec
    <3>. QED  BY <1>2
  <2> HIDE DEF T
  <2>. QED  BY <1>1, <2>1, NumbersInduct
<1>4. \E f : Rec(f, N)
  BY <1>3
<1>. QED  BY <1>4

-----------------------------------------------------------------------------
(* The types that the checker computes                                     *)

\* The types on the stack after every instruction.
LEMMA StackTypesIs ==
  ASSUME NEW mode, NEW C, NEW code \in Seq(C), NEW vt, NEW X,
         \A s \in Seq(X) : \A n \in 1 .. Len(code) : Typed(mode, s, code[n], vt) \in Seq(X)
  PROVE  LET t == StackTypes(mode, code, vt)
         IN /\ t[0] = <<>>
            /\ \A n \in 1 .. Len(code) : t[n] = Typed(mode, t[n - 1], code[n], vt)
            /\ \A n \in 0 .. Len(code) : t[n] \in Seq(X)
<1> DEFINE N == Len(code)
           S == Seq(X)
           G == [n \in 1 .. N |-> [s \in S |-> Typed(mode, s, code[n], vt)]]
           Is(f) == f = [n \in 0 .. N |-> IF n = 0 THEN <<>> ELSE Typed(mode, f[n - 1], code[n], vt)]
           t == StackTypes(mode, code, vt)
<1>0. N \in Nat /\ <<>> \in S
  OBVIOUS
<1>1. /\ \A s \in S : \A n \in 1 .. N : G[n][s] = Typed(mode, s, code[n], vt)
      /\ \A s \in S : \A n \in 1 .. N : G[n][s] \in S
  OBVIOUS
<1>2. PICK f \in [0 .. N -> S] : f[0] = <<>> /\ \A n \in 1 .. N : f[n] = G[n][f[n - 1]]
  <2>1. StaysIn(G, N, S)
    BY <1>1 DEF StaysIn
  <2> HIDE DEF G, S, N
  <2>2. \E f : Iterates(f, G, N, S, <<>>)
    BY <1>0, <2>1, RecursionExists
  <2>. QED  BY <2>2 DEF Iterates
<1>3. ASSUME NEW n \in 1 .. N PROVE f[n] = Typed(mode, f[n - 1], code[n], vt)
  <2>0. n - 1 \in 0 .. N
    BY <1>0
  <2> HIDE DEF G, S, N
  <2>1. f[n - 1] \in S
    BY <1>2, <2>0
  <2>. QED  BY <1>1, <1>2, <2>1
<1>4. Is(f)
  <2> HIDE DEF S
  <2>1. \A n \in 0 .. N : f[n] = IF n = 0 THEN <<>> ELSE Typed(mode, f[n - 1], code[n], vt)
    BY <1>0, <1>2, <1>3
  <2> HIDE DEF N
  <2>. QED  BY <1>2, <2>1
<1>5. t = CHOOSE g : Is(g)
  BY DEF StackTypes
<1>6. Is(t)
  <2> HIDE DEF Is, t
  <2>. QED  BY <1>4, <1>5, Zenon
<1>7. t[0] = <<>> /\ \A n \in 1 .. N : t[n] = Typed(mode, t[n - 1], code[n], vt)
  <2> HIDE DEF t
  <2>. QED  BY <1>0, <1>6
<1>8. \A n \in 0 .. N : t[n] \in S
  <2> DEFINE T == {n \in Nat : n <= N => t[n] \in S}
  <2> HIDE DEF t
  <2>1. 0 \in T
    BY <1>0, <1>7
  <2>2. ASSUME NEW n \in Nat, n \in T PROVE n + 1 \in T
    <3>1. SUFFICES ASSUME n + 1 <= N PROVE t[n + 1] \in S
      OBVIOUS
    <3>2. n + 1 \in 1 .. N /\ (n + 1) - 1 = n /\ t[n] \in S
      BY <2>2, <3>1, <1>0
    <3>. QED  BY <1>7, <3>2
  <2>3. Nat \subseteq T
    <3> HIDE DEF T
    <3>. QED  BY <2>1, <2>2, NumbersInduct
  <2>. QED  BY <1>0, <2>3
<1>. QED  BY <1>7, <1>8
\* The types that expressions of a policy may have.
TypesIn(p) ==
  {"error"} \cup {Overload(fn).res : fn \in Declared(p.mode)}
    \cup {x.type : x \in UNION {ToSet(code) : code \in Programs(p)}}

\* The instructions of a policy's expressions.
LEMMA Forms ==
  ASSUME NEW p \in Policies, NEW code \in Programs(p)
  PROVE  /\ code \in Seq(ToSet(code))
         /\ \A n \in 1 .. Len(code) :
              /\ code[n] \in ToSet(code)
              /\ \/ code[n].op = "lit" /\ code[n].type \notin {"dyn", "error"}
                 \/ code[n].op = "var" /\ code[n].arg \in Nat /\ code[n].arg > 0
                 \/ code[n].op = "call" /\ code[n] = Call(code[n].arg)
<1>1. code \in Seq(ToSet(code))
  BY PoliciesAssumption
<1>2. ASSUME NEW n \in 1 .. Len(code)
      PROVE  /\ code[n] \in ToSet(code)
             /\ \/ code[n].op = "lit" /\ code[n].type \notin {"dyn", "error"}
                \/ code[n].op = "var" /\ code[n].arg \in Nat /\ code[n].arg > 0
                \/ code[n].op = "call" /\ code[n] = Call(code[n].arg)
  <2>1. code[n] \in ToSet(code)
    BY <1>1
  <2>2. \/ code[n] = Lit(code[n].type, code[n].arg) /\ code[n].type \notin {"dyn", "error"}
        \/ code[n] = Var(code[n].arg) /\ code[n].arg \in Nat /\ code[n].arg > 0
        \/ code[n] = Call(code[n].arg)
    BY <2>1, PoliciesAssumption
  <2>3. \A t, x : Lit(t, x).op = "lit" /\ Var(x).op = "var" /\ Call(x).op = "call"
    BY DEF Lit, Var, Call
  <2>. QED  BY <2>1, <2>2, <2>3
<1>. QED  BY <1>1, <1>2

\* One more instruction: what the checker does with each form.
LEMMA TypedForms ==
  ASSUME NEW mode, NEW s, NEW ins, NEW vt, s # TypeError
  PROVE  /\ ins.op = "lit" => Typed(mode, s, ins, vt) = Append(s, ins.type)
         /\ ins.op = "var" => Typed(mode, s, ins, vt) =
              IF ins.arg <= Len(vt) THEN Append(s, vt[ins.arg]) ELSE TypeError
         /\ ins.op = "call" /\ ins.arg \notin Declared(mode) => Typed(mode, s, ins, vt) = TypeError
         /\ ins.op = "call" /\ ins.arg \in Declared(mode) =>
              Typed(mode, s, ins, vt) =
                IF Accepts(Overload(ins.arg), s) THEN Returns(Overload(ins.arg), s) ELSE TypeError
<1>1. ins.op = "lit" => Typed(mode, s, ins, vt) = Append(s, ins.type)
  BY DEF Typed
<1>2. ins.op = "var" => Typed(mode, s, ins, vt) =
              IF ins.arg <= Len(vt) THEN Append(s, vt[ins.arg]) ELSE TypeError
  BY DEF Typed
<1>3. ins.op = "call" /\ ins.arg \notin Declared(mode) => Typed(mode, s, ins, vt) = TypeError
  BY DEF Typed
<1>4. ins.op = "call" /\ ins.arg \in Declared(mode) =>
              Typed(mode, s, ins, vt) =
                IF Accepts(Overload(ins.arg), s) THEN Returns(Overload(ins.arg), s) ELSE TypeError
  BY DEF Typed
<1>. QED  BY <1>1, <1>2, <1>3, <1>4

\* The types on the stack are types of the policy.
LEMMA TypedStays ==
  ASSUME NEW p \in Policies, NEW code \in Programs(p), NEW n \in 1 .. Len(code),
         NEW vt \in Seq(TypesIn(p)), NEW s \in Seq(TypesIn(p))
  PROVE  Typed(p.mode, s, code[n], vt) \in Seq(TypesIn(p))
<1> DEFINE X == TypesIn(p)
           ins == code[n]
<1>1. TypeError \in Seq(X)
  <2>1. "error" \in X
    BY DEF TypesIn
  <2> HIDE DEF X
  <2>. QED  BY <2>1 DEF TypeError
<1>2. CASE s = TypeError
  BY <1>1, <1>2 DEF Typed
<1>3. CASE s # TypeError
  <2>1. CASE ins.op = "lit"
    <3>1. ins.type \in X
      BY Forms DEF TypesIn
    <3> HIDE DEF X, ins
    <3>2. Typed(p.mode, s, ins, vt) = Append(s, ins.type)
      BY <1>3, <2>1, TypedForms, Zenon
    <3>3. s \in Seq(X)
      BY DEF X
    <3>4. Append(s, ins.type) \in Seq(X)
      BY <3>1, <3>3
    <3>. QED  BY <3>2, <3>4 DEF X, ins
  <2>2. CASE ins.op = "var"
    <3>1. ins.arg \in Nat /\ ins.arg > 0
      BY <2>2, Forms
    <3>2. Typed(p.mode, s, ins, vt) = IF ins.arg <= Len(vt) THEN Append(s, vt[ins.arg]) ELSE TypeError
      BY <1>3, <2>2, TypedForms
    <3> HIDE DEF X, ins
    <3>3. s \in Seq(X) /\ vt \in Seq(X)
      BY DEF X
    <3>4. ins.arg <= Len(vt) => vt[ins.arg] \in X
      BY <3>1, <3>3
    <3>5. ins.arg <= Len(vt) => Append(s, vt[ins.arg]) \in Seq(X)
      BY <3>3, <3>4
    <3>. QED  BY <1>1, <3>2, <3>5 DEF X, ins
  <2>3. CASE ins.op = "call" /\ ins.arg \in Declared(p.mode)
    <3> DEFINE sig == Overload(ins.arg)
               k == Len(s) - Len(sig.args)
               t == Append(SubSeq(s, 1, k), sig.res)
    <3>1. sig.res \in X
      BY <2>3 DEF TypesIn
    <3>2. Typed(p.mode, s, ins, vt) = TypeError \/ (k >= 0 /\ Typed(p.mode, s, ins, vt) = t)
      <4>1. \/ Typed(p.mode, s, ins, vt) = TypeError
            \/ Accepts(sig, s) /\ Typed(p.mode, s, ins, vt) = Returns(sig, s)
        BY <1>3, <2>3, TypedForms
      <4>2. Accepts(sig, s) => k >= 0
        BY DEF Accepts
      <4>3. Returns(sig, s) = t
        BY DEF Returns
      <4>. QED  BY <4>1, <4>2, <4>3
    <3>3. Len(sig.args) \in Nat
      BY <2>3, OverloadSound DEF Sound
    <3>4. s \in Seq(X)
      OBVIOUS
    <3> HIDE DEF X, ins, sig
    <3>5. k >= 0 => k \in 0 .. Len(s)
      BY <3>3, <3>4
    <3>6. k >= 0 => SubSeq(s, 1, k) \in Seq(X)
      BY <3>4, <3>5
    <3>7. k >= 0 => t \in Seq(X)
      BY <3>1, <3>6
    <3> HIDE DEF t, k
    <3>. QED  BY <1>1, <3>2, <3>7 DEF X, ins
  <2>4. CASE ins.op = "call" /\ ins.arg \notin Declared(p.mode)
    BY <1>1, <1>3, <2>4, TypedForms
  <2>. QED  BY <2>1, <2>2, <2>3, <2>4, Forms
<1>. QED  BY <1>2, <1>3

\* The types of an expression whose variables are known.  An error is not left
\* again: an expression without an error at its end has none before.
LEMMA CodeTypes ==
  ASSUME NEW p \in Policies, NEW code \in Programs(p), NEW vt \in Seq(TypesIn(p))
  PROVE  LET t == StackTypes(p.mode, code, vt)
             N == Len(code)
         IN /\ N \in Nat /\ t[0] = <<>>
            /\ \A n \in 1 .. N : t[n] = Typed(p.mode, t[n - 1], code[n], vt)
            /\ \A n \in 0 .. N : t[n] \in Seq(TypesIn(p))
            /\ TypeOf(p.mode, code, vt) \in TypesIn(p)
            /\ TypeOf(p.mode, code, vt) # "error" =>
                 /\ \A n \in 0 .. N : t[n] # TypeError
                 /\ Len(t[N]) = 1 /\ t[N][1] = TypeOf(p.mode, code, vt)
<1> DEFINE t == StackTypes(p.mode, code, vt)
           N == Len(code)
           X == TypesIn(p)
           type == TypeOf(p.mode, code, vt)
<1>0. code \in Seq(ToSet(code)) /\ N \in Nat
  BY Forms
<1>1. \A s \in Seq(X) : \A n \in 1 .. Len(code) : Typed(p.mode, s, code[n], vt) \in Seq(X)
  BY TypedStays
<1>2. /\ t[0] = <<>>
      /\ \A n \in 1 .. N : t[n] = Typed(p.mode, t[n - 1], code[n], vt)
      /\ \A n \in 0 .. N : t[n] \in Seq(X)
  <2> HIDE DEF X
  <2>. QED  BY <1>0, <1>1, StackTypesIs
<1>3. type = IF Len(t[N]) = 1 THEN t[N][1] ELSE "error"
  BY DEF TypeOf
<1> HIDE DEF t, type
<1>4. type \in X
  <2>1. "error" \in X
    BY DEF TypesIn
  <2> HIDE DEF X
  <2>2. t[N] \in Seq(X)
    BY <1>0, <1>2
  <2> HIDE DEF N
  <2>. QED  BY <1>3, <2>1, <2>2
<1>5. type # "error" => Len(t[N]) = 1 /\ t[N][1] = type /\ t[N] # TypeError
  <2>1. TypeError[1] = "error"
    BY DEF TypeError
  <2>. QED  BY <1>3, <2>1
<1>6. ASSUME NEW n \in 0 .. N, t[n] = TypeError PROVE t[N] = TypeError
  <2> DEFINE T == {m \in Nat : n + m <= N => t[n + m] = TypeError}
  <2>1. 0 \in T
    BY <1>6
  <2>2. ASSUME NEW m \in Nat, m \in T PROVE m + 1 \in T
    <3>1. SUFFICES ASSUME n + (m + 1) <= N PROVE t[n + (m + 1)] = TypeError
      OBVIOUS
    <3>2. /\ n + (m + 1) \in 1 .. N /\ (n + (m + 1)) - 1 = n + m
          /\ t[n + m] = TypeError
      BY <1>0, <2>2, <3>1
    <3>3. t[n + (m + 1)] = Typed(p.mode, t[n + m], code[n + (m + 1)], vt)
      BY <1>2, <3>2
    <3>. QED  BY <3>2, <3>3 DEF Typed
  <2>3. Nat \subseteq T
    <3> HIDE DEF T
    <3>. QED  BY <2>1, <2>2, NumbersInduct
  <2>4. N - n \in Nat /\ n + (N - n) = N
    BY <1>0
  <2>5. N - n \in T
    BY <2>3, <2>4
  <2>. QED  BY <2>4, <2>5
<1>. QED  BY <1>0, <1>2, <1>4, <1>5, <1>6 DEF t, type

\* The types of the variables: each is that of its expression, with the earlier
\* variables known.
LEMMA KnownIs ==
  ASSUME NEW p \in Policies
  PROVE  LET K == Known(p)
             N == Len(p.variables)
         IN /\ N \in Nat
            /\ \A n \in 0 .. N : K[n] \in Seq(TypesIn(p)) /\ Len(K[n]) = n
            /\ \A n \in 0 .. N : \A i \in 1 .. n : K[n][i] = TypeOf(p.mode, p.variables[i], K[i - 1])
<1> DEFINE N == Len(p.variables)
           X == TypesIn(p)
           S == Seq(X)
           Ty(s, n) == TypeOf(p.mode, p.variables[n], s)
           More(s, n) == Append(s, Ty(s, n))
           G == [n \in 1 .. N |-> [s \in S |-> More(s, n)]]
           Is(f) == f = [n \in 0 .. N |-> IF n = 0 THEN <<>> ELSE More(f[n - 1], n)]
           K == Known(p)
<1>0. N \in Nat /\ <<>> \in S /\ p.variables \in Seq(ToSet(p.variables))
  BY PoliciesAssumption
<1>1. \A n \in 1 .. N : p.variables[n] \in Programs(p)
  <2>1. \A n \in 1 .. N : p.variables[n] \in ToSet(p.variables)
    BY <1>0
  <2>. QED  BY <2>1 DEF Programs
<1>2. ASSUME NEW s \in S, NEW n \in 1 .. N PROVE Ty(s, n) \in X /\ More(s, n) \in S
  <2>1. Ty(s, n) \in X
    BY <1>1, CodeTypes
  <2> HIDE DEF X, Ty
  <2>. QED  BY <2>1
<1>3. /\ \A s \in S : \A n \in 1 .. N : G[n][s] = More(s, n)
      /\ \A s \in S : \A n \in 1 .. N : G[n][s] \in S
  <2> HIDE DEF S, More, N
  <2>. QED  BY <1>2
<1>4. PICK f \in [0 .. N -> S] : f[0] = <<>> /\ \A n \in 1 .. N : f[n] = G[n][f[n - 1]]
  <2>1. StaysIn(G, N, S)
    BY <1>3 DEF StaysIn
  <2> HIDE DEF G, S, N
  <2>2. \E f : Iterates(f, G, N, S, <<>>)
    BY <1>0, <2>1, RecursionExists
  <2>. QED  BY <2>2 DEF Iterates
<1>5. Is(f)
  <2>1. ASSUME NEW n \in 1 .. N PROVE f[n] = More(f[n - 1], n)
    <3>0. n - 1 \in 0 .. N
      BY <1>0
    <3> HIDE DEF G, S, N, More
    <3>1. f[n - 1] \in S
      BY <1>4, <3>0
    <3>. QED  BY <1>3, <1>4, <3>1
  <2> HIDE DEF S, More
  <2>2. \A n \in 0 .. N : f[n] = IF n = 0 THEN <<>> ELSE More(f[n - 1], n)
    BY <1>0, <1>4, <2>1
  <2> HIDE DEF N
  <2>. QED  BY <1>4, <2>2
<1>6. K = CHOOSE g : Is(g)
  BY DEF Known
<1>7. Is(K)
  <2> HIDE DEF Is, K
  <2>. QED  BY <1>5, <1>6, Zenon
<1> HIDE DEF K
<1>8. K[0] = <<>> /\ \A n \in 1 .. N : K[n] = More(K[n - 1], n)
  <2>1. N \in Nat
    BY <1>0
  <2> HIDE DEF More, N
  <2>2. 0 \in 0 .. N /\ \A n \in 1 .. N : n \in 0 .. N /\ n # 0
    BY <2>1
  <2>. QED  BY <1>7, <2>2
<1> DEFINE Good(n) == /\ K[n] \in S /\ Len(K[n]) = n
                      /\ \A i \in 1 .. n : K[n][i] = Ty(K[i - 1], i)
           T == {n \in Nat : n <= N => Good(n)}
<1>9. 0 \in T
  <2>1. K[0] \in S /\ Len(K[0]) = 0
    BY <1>0, <1>8
  <2>2. \A i \in 1 .. 0 : FALSE
    OBVIOUS
  <2>3. Good(0)
    <3> HIDE DEF Ty, S
    <3>. QED  BY <2>1, <2>2
  <2> HIDE DEF Good
  <2>. QED  BY <2>3
<1>10. ASSUME NEW n \in Nat, n \in T, n + 1 <= N PROVE Good(n + 1)
  <2> DEFINE y == Ty(K[n], n + 1)
  <2>1. n + 1 \in 1 .. N /\ (n + 1) - 1 = n /\ Good(n)
    BY <1>0, <1>10
  <2>2. K[n + 1] = Append(K[n], y) /\ y \in X
    BY <1>2, <1>8, <2>1
  <2> HIDE DEF X
  <2>3. K[n + 1] \in S /\ Len(K[n + 1]) = n + 1
    BY <2>1, <2>2
  <2>4. K[n + 1][n + 1] = y
    BY <2>1, <2>2
  <2>5. \A i \in 1 .. n : K[n + 1][i] = K[n][i]
    BY <2>1, <2>2
  <2>6. ASSUME NEW i \in 1 .. n + 1 PROVE K[n + 1][i] = Ty(K[i - 1], i)
    <3>1. CASE i = n + 1
      BY <2>1, <2>4, <3>1
    <3>2. CASE i \in 1 .. n
      BY <2>1, <2>5, <3>2
    <3>. QED  BY <3>1, <3>2
  <2>. QED  BY <2>3, <2>6
<1>11. Nat \subseteq T
  <2>1. \A n \in Nat : n \in T => n + 1 \in T
    <3> HIDE DEF Good
    <3>. QED  BY <1>10
  <2> HIDE DEF T
  <2>. QED  BY <1>9, <2>1, NumbersInduct
<1>12. \A n \in 0 .. N : Good(n)
  <2> HIDE DEF Good
  <2>. QED  BY <1>0, <1>11
<1>. QED  BY <1>0, <1>12 DEF K

-----------------------------------------------------------------------------
(* Stacks and frames                                                       *)

\* A sequence is one of its own items.
LEMMA OwnItems == ASSUME NEW S, NEW s \in Seq(S) PROVE s \in Seq(ToSet(s))
BY DEF ToSet

\* A value is pushed.
LEMMA PushFits ==
  ASSUME NEW p, NEW stack, NEW X, NEW types \in Seq(X), StackFits(p, stack, types),
         NEW v, NEW t \in X, Fits(p, v.type, t)
  PROVE  StackFits(p, Append(stack, v), Append(types, t))
<1> DEFINE S == ToSet(stack) \cup {v}
           new == Append(stack, v)
<1>1. stack \in Seq(ToSet(stack)) /\ Len(stack) = Len(types)
  BY DEF StackFits
<1>2. stack \in Seq(S) /\ v \in S
  BY <1>1
<1> HIDE DEF S
<1>3. /\ new \in Seq(S) /\ Len(new) = Len(stack) + 1 /\ new[Len(stack) + 1] = v
      /\ Len(stack) \in Nat /\ \A i \in 1 .. Len(stack) : new[i] = stack[i]
  BY <1>2
<1>4. /\ Len(Append(types, t)) = Len(types) + 1 /\ Append(types, t)[Len(types) + 1] = t
      /\ \A i \in 1 .. Len(types) : Append(types, t)[i] = types[i]
  OBVIOUS
<1> HIDE DEF new
<1>5. new \in Seq(ToSet(new))
  BY <1>3, OwnItems
<1>6. ASSUME NEW i \in 1 .. Len(new) PROVE Fits(p, new[i].type, Append(types, t)[i])
  <2>1. CASE i = Len(stack) + 1
    BY <1>1, <1>3, <1>4, <2>1
  <2>2. CASE i \in 1 .. Len(stack)
    <3>1. Fits(p, stack[i].type, types[i])
      BY <2>2 DEF StackFits
    <3>. QED  BY <1>1, <1>3, <1>4, <2>2, <3>1
  <2>3. i = Len(stack) + 1 \/ i \in 1 .. Len(stack)
    BY <1>3
  <2>. QED  BY <2>1, <2>2, <2>3
<1>. QED  BY <1>1, <1>3, <1>4, <1>5, <1>6 DEF StackFits, new

\* The arguments of a call are popped.
LEMMA PopFits ==
  ASSUME NEW p, NEW stack, NEW X, NEW types \in Seq(X), StackFits(p, stack, types),
         NEW k \in 0 .. Len(types)
  PROVE  StackFits(p, SubSeq(stack, 1, k), SubSeq(types, 1, k)) /\ SubSeq(types, 1, k) \in Seq(X)
<1> DEFINE S == ToSet(stack)
           new == SubSeq(stack, 1, k)
<1>1. stack \in Seq(S) /\ Len(stack) = Len(types)
  BY DEF StackFits
<1> HIDE DEF S
<1>2. new \in Seq(S) /\ Len(new) = k /\ \A i \in 1 .. k : new[i] = stack[i]
  BY <1>1
<1>3. /\ SubSeq(types, 1, k) \in Seq(X) /\ Len(SubSeq(types, 1, k)) = k
      /\ \A i \in 1 .. k : SubSeq(types, 1, k)[i] = types[i]
  OBVIOUS
<1> HIDE DEF new
<1>4. new \in Seq(ToSet(new))
  BY <1>2, OwnItems
<1>5. \A i \in 1 .. k : i \in 1 .. Len(stack)
  BY <1>1
<1>6. \A i \in 1 .. k : Fits(p, new[i].type, SubSeq(types, 1, k)[i])
  BY <1>2, <1>3, <1>5 DEF StackFits
<1>. QED  BY <1>2, <1>3, <1>4, <1>6 DEF StackFits, new

\* The variables that are known in a frame.
LEMMA FrameKnownIs ==
  ASSUME NEW p \in Policies, NEW f, FrameInv(p, f)
  PROVE  /\ FrameKnown(p, f) \in Seq(TypesIn(p))
         /\ Len(FrameKnown(p, f)) <= Len(p.variables)
         /\ \A i \in 1 .. Len(FrameKnown(p, f)) : FrameKnown(p, f)[i] = VarTypes(p)[i]
<1> DEFINE K == Known(p)
           N == Len(p.variables)
           n == IF f.dest = "variable" THEN f.i - 1 ELSE N
<1>1. /\ N \in Nat
      /\ \A m \in 0 .. N : K[m] \in Seq(TypesIn(p)) /\ Len(K[m]) = m
      /\ \A m \in 0 .. N : \A i \in 1 .. m : K[m][i] = TypeOf(p.mode, p.variables[i], K[i - 1])
  BY KnownIs
<1>2. n \in 0 .. N
  BY <1>1 DEF FrameInv
<1>3. FrameKnown(p, f) = K[n] /\ VarTypes(p) = K[N]
  BY DEF FrameKnown, VarTypes
<1> HIDE DEF K, N, n
<1>4. \A i \in 1 .. n : i \in 1 .. N
  BY <1>1, <1>2
<1>5. N \in 0 .. N
  BY <1>1
<1>. QED  BY <1>1, <1>2, <1>3, <1>4, <1>5 DEF N

\* The type of a variable is that of its expression.
LEMMA VariableType ==
  ASSUME NEW p \in Policies, NEW i \in 1 .. Len(p.variables)
  PROVE  VarTypes(p)[i] = TypeOf(p.mode, p.variables[i], Known(p)[i - 1])
<1>1. Len(p.variables) \in 0 .. Len(p.variables)
  BY KnownIs
<1>. QED  BY <1>1, KnownIs DEF VarTypes

\* The checker has passed the instruction that a frame is at.
LEMMA FrameTyped ==
  ASSUME NEW p \in Policies, NEW f, FrameInv(p, f), f.pc <= Len(f.code)
  PROVE  LET t == FrameTypes(p, f)
         IN /\ t[f.pc - 1] \in Seq(TypesIn(p)) /\ t[f.pc] \in Seq(TypesIn(p))
            /\ t[f.pc - 1] # TypeError /\ t[f.pc] # TypeError
            /\ t[f.pc] = Typed(p.mode, t[f.pc - 1], f.code[f.pc], FrameKnown(p, f))
            /\ f.pc \in 1 .. Len(f.code) /\ (f.pc + 1) - 1 = f.pc /\ f.pc + 1 \in 1 .. Len(f.code) + 1
            /\ StackFits(p, f.stack, t[f.pc - 1])
<1> DEFINE vt == FrameKnown(p, f)
           t == FrameTypes(p, f)
           N == Len(f.code)
<1>1. f.code \in Programs(p) /\ vt \in Seq(TypesIn(p)) /\ f.pc \in 1 .. N + 1
  BY FrameKnownIs DEF FrameInv
<1>2. TypeOf(p.mode, f.code, vt) # "error" /\ StackFits(p, f.stack, t[f.pc - 1])
  BY DEF FrameInv
<1>3. t = StackTypes(p.mode, f.code, vt)
  BY DEF FrameTypes
<1> HIDE DEF vt, t
<1>4. /\ N \in Nat
      /\ \A n \in 1 .. N : t[n] = Typed(p.mode, t[n - 1], f.code[n], vt)
      /\ \A n \in 0 .. N : t[n] \in Seq(TypesIn(p))
      /\ \A n \in 0 .. N : t[n] # TypeError
  BY <1>1, <1>2, <1>3, CodeTypes
<1>5. f.pc \in 1 .. N /\ f.pc \in 0 .. N /\ f.pc - 1 \in 0 .. N /\ (f.pc + 1) - 1 = f.pc
      /\ f.pc + 1 \in 1 .. N + 1
  BY <1>1, <1>4
<1>. QED  BY <1>2, <1>4, <1>5 DEF t, vt

\* A frame whose next instruction is done.
LEMMA FrameAdvances ==
  ASSUME NEW p \in Policies, NEW f, FrameInv(p, f), f.pc <= Len(f.code),
         NEW s, StackFits(p, s, FrameTypes(p, f)[f.pc])
  PROVE  LET g == After(f, s) IN FrameInv(p, g) /\ g.dest = f.dest /\ g.i = f.i
<1> DEFINE g == After(f, s)
<1>1. /\ g.code = f.code /\ g.pc = f.pc + 1 /\ g.stack = s /\ g.dest = f.dest /\ g.i = f.i
      /\ IsFrame(g)
  BY DEF FrameInv, IsFrame, After
<1> HIDE DEF g
<1>2. FrameKnown(p, g) = FrameKnown(p, f) /\ FrameTypes(p, g) = FrameTypes(p, f)
  BY <1>1 DEF FrameKnown, FrameTypes
<1>3. (f.pc + 1) - 1 = f.pc /\ f.pc + 1 \in 1 .. Len(f.code) + 1
  BY FrameTyped
<1>4. FrameInv(p, g)
  BY <1>1, <1>2, <1>3 DEF FrameInv
<1>. QED  BY <1>1, <1>4 DEF g

\* The innermost frame is replaced by one for the same purpose.
LEMMA ReplaceTop ==
  ASSUME NEW p, NEW fs, FramesInv(p, fs), fs # <<>>,
         NEW g, FrameInv(p, g), g.dest = fs[1].dest, g.i = fs[1].i
  PROVE  FramesInv(p, <<g>> \o Tail(fs)) /\ <<g>> \o Tail(fs) # <<>>
<1> DEFINE S == ToSet(fs) \cup {g}
           new == <<g>> \o Tail(fs)
           n == Len(fs)
<1>1. fs \in Seq(ToSet(fs)) /\ fs # <<>>
  BY DEF FramesInv
<1>2. fs \in Seq(S) /\ g \in S /\ fs # <<>>
  BY <1>1
<1> HIDE DEF S
<1>3. /\ new \in Seq(S) /\ n \in Nat /\ n >= 1 /\ Len(new) = n /\ new[1] = g
      /\ \A k \in 2 .. n : new[k] = fs[k]
  BY <1>2
<1> HIDE DEF new
<1>4. new \in Seq(ToSet(new)) /\ new # <<>>
  BY <1>3, OwnItems
<1>5. ASSUME NEW k \in 1 .. n PROVE FrameInv(p, new[k])
  <2>1. k = 1 \/ k \in 2 .. n
    BY <1>3
  <2>. QED  BY <1>3, <2>1 DEF FramesInv
<1>6. ASSUME NEW k \in 1 .. n - 1 PROVE CallerInv(new[k], new[k + 1])
  <2>1. CallerInv(fs[k], fs[k + 1])
    BY DEF FramesInv
  <2>2. k + 1 \in 2 .. n /\ (k = 1 \/ k \in 2 .. n)
    BY <1>3
  <2>3. new[k + 1] = fs[k + 1] /\ new[k].dest = fs[k].dest /\ new[k].i = fs[k].i
    BY <1>3, <2>2
  <2>. QED  BY <2>1, <2>3 DEF CallerInv
<1>7. new[n].dest # "variable"
  <2>1. fs[n].dest # "variable"
    BY DEF FramesInv
  <2>2. n = 1 \/ n \in 2 .. n
    BY <1>3
  <2>. QED  BY <1>3, <2>1, <2>2
<1>. QED  BY <1>3, <1>4, <1>5, <1>6, <1>7 DEF FramesInv, new

\* A variable's expression is evaluated for the innermost frame.
LEMMA PushFrame ==
  ASSUME NEW p, NEW fs, FramesInv(p, fs), fs # <<>>, NEW g, FrameInv(p, g), CallerInv(g, fs[1])
  PROVE  FramesInv(p, <<g>> \o fs) /\ <<g>> \o fs # <<>>
<1> DEFINE S == ToSet(fs) \cup {g}
           new == <<g>> \o fs
           n == Len(fs)
<1>1. fs \in Seq(ToSet(fs)) /\ fs # <<>>
  BY DEF FramesInv
<1>2. fs \in Seq(S) /\ g \in S /\ fs # <<>>
  BY <1>1
<1> HIDE DEF S
<1>3. /\ new \in Seq(S) /\ n \in Nat /\ n >= 1 /\ Len(new) = n + 1 /\ new[1] = g
      /\ \A k \in 1 .. n : new[k + 1] = fs[k]
  BY <1>2
<1> HIDE DEF new
<1>4. new \in Seq(ToSet(new)) /\ new # <<>>
  BY <1>3, OwnItems
<1>5. ASSUME NEW k \in 1 .. n + 1 PROVE FrameInv(p, new[k])
  <2>1. k = 1 \/ (k - 1 \in 1 .. n /\ (k - 1) + 1 = k)
    BY <1>3
  <2>. QED  BY <1>3, <2>1 DEF FramesInv
<1>6. ASSUME NEW k \in 1 .. n PROVE CallerInv(new[k], new[k + 1])
  <2>1. CASE k = 1
    BY <1>3, <2>1
  <2>2. CASE k # 1
    <3>1. k - 1 \in 1 .. n - 1 /\ k - 1 \in 1 .. n /\ (k - 1) + 1 = k
      BY <1>3, <2>2
    <3>2. CallerInv(fs[k - 1], fs[k])
      BY <3>1 DEF FramesInv
    <3>. QED  BY <1>3, <3>1, <3>2
  <2>. QED  BY <2>1, <2>2
<1>7. new[n + 1].dest # "variable"
  <2>1. fs[n].dest # "variable"
    BY DEF FramesInv
  <2>. QED  BY <1>3, <2>1
<1>8. (n + 1) - 1 = n
  BY <1>3
<1>. QED  BY <1>3, <1>4, <1>5, <1>6, <1>7, <1>8 DEF FramesInv, new

\* The innermost frame has ended, and the one that waits for it is replaced.
LEMMA PopFrame ==
  ASSUME NEW p, NEW fs, FramesInv(p, fs), Len(fs) >= 2,
         NEW g, FrameInv(p, g), g.dest = fs[2].dest, g.i = fs[2].i
  PROVE  LET new == <<g>> \o SubSeq(fs, 3, Len(fs)) IN FramesInv(p, new) /\ new # <<>>
<1> DEFINE S == ToSet(fs) \cup {g}
           n == Len(fs)
           new == <<g>> \o SubSeq(fs, 3, n)
<1>1. fs \in Seq(ToSet(fs))
  BY DEF FramesInv
<1>2. fs \in Seq(S) /\ g \in S
  BY <1>1
<1> HIDE DEF S
<1>3. /\ new \in Seq(S) /\ n \in Nat /\ n >= 2 /\ Len(new) = n - 1 /\ new[1] = g
      /\ \A k \in 2 .. n - 1 : new[k] = fs[k + 1]
  <2>1. n \in Nat /\ n >= 2
    BY <1>2
  <2>2. /\ SubSeq(fs, 3, n) \in Seq(S) /\ Len(SubSeq(fs, 3, n)) = n - 2
        /\ \A k \in 1 .. n - 2 : SubSeq(fs, 3, n)[k] = fs[k + 2]
    <3>1. SubSeq(fs, 3, n) \in Seq(S)
      BY <1>2, <2>1
    <3>2. Len(SubSeq(fs, 3, n)) = n - 2
      <4>1. CASE n = 2
        BY <1>2, <4>1
      <4>2. CASE n > 2
        BY <1>2, <2>1, <4>2
      <4>3. n = 2 \/ n > 2
        <5> HIDE DEF n
        <5>. QED  BY <2>1
      <4>. QED  BY <4>1, <4>2, <4>3, Zenon
    <3>3. \A k \in 1 .. n - 2 : SubSeq(fs, 3, n)[k] = fs[k + 2]
      BY <1>2, <2>1
    <3>. QED  BY <3>1, <3>2, <3>3
  <2> DEFINE rest == SubSeq(fs, 3, n)
  <2> HIDE DEF rest, n
  <2>3. /\ <<g>> \o rest \in Seq(S) /\ Len(<<g>> \o rest) = 1 + Len(rest)
        /\ (<<g>> \o rest)[1] = g /\ \A k \in 1 .. Len(rest) : (<<g>> \o rest)[k + 1] = rest[k]
    BY <1>2, <2>2 DEF rest
  <2>4. ASSUME NEW k \in 2 .. n - 1 PROVE (<<g>> \o rest)[k] = fs[k + 1]
    <3>1. k - 1 \in 1 .. n - 2 /\ (k - 1) + 1 = k /\ (k - 1) + 2 = k + 1
      BY <2>1
    <3>. QED  BY <2>2, <2>3, <3>1 DEF rest
  <2>. QED  BY <2>1, <2>2, <2>3, <2>4 DEF rest
<1> HIDE DEF new
<1>4. new \in Seq(ToSet(new)) /\ new # <<>>
  BY <1>3, OwnItems
<1>5. ASSUME NEW k \in 1 .. n - 1 PROVE FrameInv(p, new[k])
  <2>1. k = 1 \/ (k \in 2 .. n - 1 /\ k + 1 \in 1 .. n)
    BY <1>3
  <2>. QED  BY <1>3, <2>1 DEF FramesInv
<1>6. ASSUME NEW k \in 1 .. (n - 1) - 1 PROVE CallerInv(new[k], new[k + 1])
  <2>1. /\ k + 1 \in 1 .. n - 1 /\ k + 1 \in 2 .. n - 1
        /\ (k = 1 \/ k \in 2 .. n - 1)
    BY <1>3
  <2>2. CallerInv(fs[k + 1], fs[(k + 1) + 1])
    BY <2>1 DEF FramesInv
  <2>3. new[k + 1] = fs[(k + 1) + 1] /\ new[k].dest = fs[k + 1].dest /\ new[k].i = fs[k + 1].i
    BY <1>3, <2>1
  <2>. QED  BY <2>2, <2>3 DEF CallerInv
<1>7. new[n - 1].dest # "variable"
  <2>1. fs[n].dest # "variable"
    BY <1>3 DEF FramesInv
  <2>2. n - 1 = 1 \/ (n - 1 \in 2 .. n - 1 /\ (n - 1) + 1 = n)
    BY <1>3
  <2>. QED  BY <1>3, <2>1, <2>2
<1>. QED  BY <1>3, <1>4, <1>5, <1>6, <1>7 DEF FramesInv, new

\* A rule's expression is evaluated.
LEMMA OneFrame ==
  ASSUME NEW p \in Policies, NEW code \in Programs(p), NEW dest, dest # "variable",
         TypeOf(p.mode, code, VarTypes(p)) # "error"
  PROVE  LET fs == <<Frame(code, dest, 0)>> IN FramesInv(p, fs) /\ fs # <<>>
<1> DEFINE f == Frame(code, dest, 0)
           N == Len(p.variables)
<1>1. /\ f.code = code /\ f.pc = 1 /\ f.stack = <<>> /\ f.dest = dest
      /\ IsFrame(f)
  BY DEF Frame, IsFrame
<1> HIDE DEF f
<1>2. FrameKnown(p, f) = VarTypes(p) /\ FrameTypes(p, f) = StackTypes(p.mode, code, VarTypes(p))
  BY <1>1 DEF FrameKnown, FrameTypes
<1>3. VarTypes(p) \in Seq(TypesIn(p))
  <2>1. N \in 0 .. N
    BY KnownIs
  <2>. QED  BY <2>1, KnownIs DEF VarTypes
<1>4. FrameTypes(p, f)[f.pc - 1] = <<>> /\ Len(code) \in Nat
  BY <1>1, <1>2, <1>3, CodeTypes
<1>5. StackFits(p, f.stack, <<>>)
  BY <1>1 DEF StackFits
<1>6. FrameInv(p, f)
  BY <1>1, <1>2, <1>4, <1>5 DEF FrameInv
<1>7. <<f>> \in Seq(ToSet(<<f>>)) /\ Len(<<f>>) = 1 /\ <<f>>[1] = f /\ <<f>> # <<>>
  BY DEF ToSet
<1>. QED  BY <1>1, <1>6, <1>7 DEF FramesInv, f

\* A call that the checker passes is of a declared function, with arguments of its
\* types or of type dyn.
LEMMA TypedCall ==
  ASSUME NEW mode, NEW s, NEW ins, NEW vt, s # TypeError, ins.op = "call",
         Typed(mode, s, ins, vt) # TypeError
  PROVE  /\ ins.arg \in Declared(mode) /\ Accepts(Overload(ins.arg), s)
         /\ Typed(mode, s, ins, vt) = Returns(Overload(ins.arg), s)
<1>1. ins.arg \in Declared(mode)
  BY TypedForms
<1>. QED  BY <1>1, TypedForms

\* A call of a function that the checker has passed.  Arguments that are not what
\* is declared, or not what the implementation converts, are those of the exceptions.
LEMMA CallTypes ==
  ASSUME NEW p \in Policies, NEW req \in Requests, NEW f, FrameInv(p, f),
         f.pc <= Len(f.code), f.code[f.pc].op = "call"
  PROVE  LET fn == f.code[f.pc].arg
             sig == Overload(fn)
             n == Len(sig.args)
             k == Len(f.stack) - n
             types == [i \in 1 .. n |-> f.stack[k + i].type]
         IN /\ n \in Nat /\ k \in 0 .. Len(f.stack) /\ fn \in Declared(p.mode)
            /\ StackFits(p, SubSeq(f.stack, 1, k), SubSeq(FrameTypes(p, f)[f.pc - 1], 1, k))
            /\ SubSeq(FrameTypes(p, f)[f.pc - 1], 1, k) \in Seq(TypesIn(p))
            /\ FrameTypes(p, f)[f.pc] = Append(SubSeq(FrameTypes(p, f)[f.pc - 1], 1, k), sig.res)
            /\ sig.res \in TypesIn(p) /\ Fits(p, ResultType(req, fn), sig.res)
            /\ (types # ConvertsTo(fn) \/ ~Dispatches(fn, types)) =>
                 \/ fn \in Getters \ {"mcp_get_string"}
                 \/ fn \in {"mcp_parse", "unmarshal"} /\ types # <<"string">>
                 \/ JsonPassed(p, fn, types)
<1> DEFINE ins == f.code[f.pc]
           fn == ins.arg
           sig == Overload(fn)
           n == Len(sig.args)
           s == FrameTypes(p, f)[f.pc - 1]
           m == Len(f.stack)
           k == m - n
           types == [i \in 1 .. n |-> f.stack[k + i].type]
           X == TypesIn(p)
           Agree(i) == sig.args[i] = s[k + i] \/ sig.args[i] = "dyn" \/ s[k + i] = "dyn"
<1>1. /\ s \in Seq(X) /\ s # TypeError /\ FrameTypes(p, f)[f.pc] # TypeError
      /\ FrameTypes(p, f)[f.pc] = Typed(p.mode, s, ins, FrameKnown(p, f))
      /\ StackFits(p, f.stack, s) /\ f.pc \in 1 .. Len(f.code)
  BY FrameTyped
<1>2. m = Len(s) /\ m \in Nat /\ \A i \in 1 .. m : Fits(p, f.stack[i].type, s[i])
  <2>1. Len(s) = m
    BY <1>1 DEF StackFits
  <2>2. Len(s) \in Nat
    BY <1>1
  <2>. QED  BY <1>1, <2>1, <2>2 DEF StackFits
<1>3. fn \in Declared(p.mode)
  <2>1. ins.op = "call"
    OBVIOUS
  <2> HIDE DEF s, ins
  <2>2. Typed(p.mode, s, ins, FrameKnown(p, f)) # TypeError /\ s # TypeError
    BY <1>1
  <2>. QED  BY <2>1, <2>2, TypedCall
<1>4. /\ k >= 0 /\ \A i \in 1 .. n : Agree(i)
      /\ FrameTypes(p, f)[f.pc] = Append(SubSeq(s, 1, k), sig.res)
  <2>1. ins.op = "call"
    OBVIOUS
  <2> HIDE DEF s, ins
  <2>2. Typed(p.mode, s, ins, FrameKnown(p, f)) # TypeError /\ s # TypeError
    BY <1>1
  <2>3. Accepts(sig, s) /\ FrameTypes(p, f)[f.pc] = Returns(sig, s)
    BY <1>1, <2>1, <2>2, TypedCall
  <2>4. k = Len(s) - n
    BY <1>2
  <2> HIDE DEF sig
  <2>5. Returns(sig, s) = Append(SubSeq(s, 1, k), sig.res)
    BY <2>4 DEF Returns
  <2>6. k >= 0 /\ \A i \in 1 .. n : Agree(i)
    BY <2>3, <2>4 DEF Accepts
  <2>. QED  BY <2>3, <2>5, <2>6
<1>5. Sound(fn, sig, ConvertsTo(fn))
  BY <1>3, OverloadSound
<1>6. n \in Nat
  BY <1>5 DEF Sound
<1>7. k \in 0 .. m /\ \A i \in 1 .. n : k + i \in 1 .. m
  <2>1. m - n >= 0 /\ m \in Nat
    BY <1>2, <1>4
  <2> HIDE DEF n, m
  <2>. QED  BY <1>6, <2>1
<1>8. StackFits(p, SubSeq(f.stack, 1, k), SubSeq(s, 1, k)) /\ SubSeq(s, 1, k) \in Seq(X)
  <2> HIDE DEF k, s, X
  <2>. QED  BY <1>1, <1>2, <1>7, PopFits DEF k
<1>9. sig.res \in X
  BY <1>3 DEF TypesIn
<1>10. Fits(p, ResultType(req, fn), sig.res)
  <2>1. CASE sig.res = "dyn"
    <3>1. fn = "unmarshal"
      BY <1>5, <2>1 DEF Sound
    <3>2. f.code \in Programs(p)
      BY DEF FrameInv
    <3>3. ins = Call("unmarshal") /\ ins \in ToSet(f.code)
      BY <1>1, <3>1, <3>2, Forms
    <3>4. CallsUnmarshal(p)
      BY <3>2, <3>3 DEF CallsUnmarshal
    <3>5. req.body.json.type \in JsonTypes
      BY RequestsAssumption
    <3>6. req.body.json.type # "dyn"
      BY <3>5 DEF JsonTypes
    <3>7. ResultType(req, fn) = req.body.json.type
      BY <2>1 DEF ResultType
    <3>. QED  BY <2>1, <3>4, <3>5, <3>6, <3>7 DEF Fits
  <2>2. CASE sig.res # "dyn"
    BY <2>2 DEF Fits, ResultType
  <2>. QED  BY <2>1, <2>2
<1>11. ASSUME NEW i \in 1 .. n, types[i] # sig.args[i], sig.args[i] # "dyn"
       PROVE  JsonPassed(p, fn, types)
  <2>1. types[i] = f.stack[k + i].type /\ DOMAIN types = 1 .. n
    OBVIOUS
  <2>2. Fits(p, types[i], s[k + i]) /\ Agree(i)
    BY <1>2, <1>4, <1>7, <2>1
  <2> HIDE DEF types, n, k, s
  <2>3. s[k + i] = "dyn" /\ types[i] \in JsonTypes /\ CallsUnmarshal(p)
    <3> HIDE DEF sig
    <3>. QED  BY <1>11, <2>2 DEF Fits
  <2>. QED  BY <1>11, <2>1, <2>3 DEF JsonPassed
<1>12. ASSUME ~Dispatches(fn, types) PROVE JsonPassed(p, fn, types)
  <2>1. Len(types) = n
    <3> HIDE DEF n
    <3>. QED  BY <1>6
  <2> HIDE DEF types, n
  <2>2. PICK i \in 1 .. n : sig.args[i] \notin {types[i], "dyn"}
    BY <1>12, <2>1 DEF Dispatches
  <2>. QED  BY <1>11, <2>2
<1>13. ASSUME types # ConvertsTo(fn), fn \notin Getters \ {"mcp_get_string"},
              ~(fn \in {"mcp_parse", "unmarshal"} /\ types # <<"string">>)
       PROVE  JsonPassed(p, fn, types)
  <2>1. fn \notin {"mcp_parse", "unmarshal"}
    BY <1>5, <1>13 DEF Sound
  <2>2. /\ ConvertsTo(fn) = sig.args /\ sig.args = [i \in 1 .. n |-> sig.args[i]]
        /\ \A i \in 1 .. n : sig.args[i] # "dyn"
    BY <1>5, <1>13, <2>1 DEF Sound
  <2>3. PICK i \in 1 .. n : types[i] # sig.args[i]
    <3>1. types = [i \in 1 .. n |-> types[i]]
      BY Zenon
    <3> HIDE DEF types, n
    <3>2. (\A i \in 1 .. n : types[i] = sig.args[i]) => types = sig.args
      BY <2>2, <3>1
    <3>. QED  BY <1>13, <2>2, <3>2
  <2> HIDE DEF types, n, sig
  <2>. QED  BY <1>11, <2>2, <2>3
<1>14. (types # ConvertsTo(fn) \/ ~Dispatches(fn, types)) =>
         \/ fn \in Getters \ {"mcp_get_string"}
         \/ fn \in {"mcp_parse", "unmarshal"} /\ types # <<"string">>
         \/ JsonPassed(p, fn, types)
  <2> HIDE DEF types, fn
  <2>. QED  BY <1>12, <1>13
<1>. QED  BY <1>3, <1>4, <1>6, <1>7, <1>8, <1>9, <1>10, <1>14

-----------------------------------------------------------------------------
(* Every step keeps the invariant                                          *)

\* The innermost frame.
LEMMA TopIs ==
  ASSUME FramesInv(policy, frames), frames # <<>>
  PROVE  Top = frames[1] /\ FrameInv(policy, Top)
<1>1. frames \in Seq(ToSet(frames))
  BY DEF FramesInv
<1>2. Top = frames[1] /\ 1 \in 1 .. Len(frames)
  BY <1>1 DEF Top
<1>. QED  BY <1>2 DEF FramesInv

\* The expressions of the rules of a policy that compiles.
LEMMA RuleFrames ==
  ASSUME policy \in Policies, Compiles(policy), NEW i \in 1 .. Len(policy.rules)
  PROVE  /\ FramesInv(policy, <<Frame(policy.rules[i].response, "response", 0)>>)
         /\ FramesInv(policy, <<Enter(i)>>)
<1> DEFINE r == policy.rules[i]
           vt == VarTypes(policy)
           res == TypeOf(policy.mode, r.response, vt)
           test == TypeOf(policy.mode, r.test, vt)
<1>1. r \in ToSet(policy.rules)
  <2>1. policy.rules \in Seq(ToSet(policy.rules))
    BY PoliciesAssumption
  <2>. QED  BY <2>1
<1>2. r.test \in Programs(policy) /\ r.response \in Programs(policy) /\ r.expect.type # "error"
  BY <1>1, PoliciesAssumption DEF Programs
<1>3. /\ res = IF policy.mode = "Envoy" THEN "Response" ELSE "HttpResponse"
      /\ \/ r.test = <<>>
         \/ test \in {r.expect.type, "dyn"}
         \/ test \in RefTypes
  BY <1>1 DEF Compiles
<1>4. res # "error"
  BY <1>3
<1>5. r.test = <<>> \/ test # "error"
  BY <1>2, <1>3 DEF RefTypes
<1>6. FramesInv(policy, <<Frame(r.response, "response", 0)>>)
  BY <1>2, <1>4, OneFrame
<1>7. r.test # <<>> => FramesInv(policy, <<Frame(r.test, "test", 0)>>)
  BY <1>2, <1>5, OneFrame
<1>. QED  BY <1>6, <1>7 DEF Enter

\* What a step does not touch.
LEMMA ResultStays ==
  ASSUME FailsOnlyForTheRequest, UNCHANGED <<policy, request>>,
         UNCHANGED result \/ result'.kind # "error"
  PROVE  FailsOnlyForTheRequest'
BY DEF FailsOnlyForTheRequest, PassesJson

LEMMA CompileKeeps == ASSUME IInv, Compile PROVE IInv'
<1>1. UNCHANGED <<policy, request, result>> /\ phase' \in {"idle", "rejected"}
      /\ (phase' = "idle" => Compiles(policy))
  BY DEF Compile
<1>2. FailsOnlyForTheRequest'
  BY <1>1, ResultStays DEF IInv
<1>. QED  BY <1>1, <1>2 DEF IInv

LEMMA ReceiveKeeps == ASSUME IInv, Receive PROVE IInv'
<1>0. policy \in Policies /\ Compiles(policy)
  BY DEF IInv, Receive
<1>1. /\ UNCHANGED <<policy, request, result>> /\ phase' = "eval" /\ rule' = 1
      /\ frames' = <<Enter(1)>> /\ cache' = SetupVariables
  BY DEF Receive
<1>2. FailsOnlyForTheRequest'
  BY <1>1, ResultStays DEF IInv
<1>3. 1 \in 1 .. Len(policy.rules)
  <2>1. policy.rules \in Seq(ToSet(policy.rules)) /\ policy.rules # <<>>
    BY <1>0, PoliciesAssumption
  <2>. QED  BY <2>1
<1>4. FramesInv(policy, frames') /\ frames' # <<>>
  BY <1>0, <1>1, <1>3, RuleFrames
<1>5. CacheInv(policy, cache')
  BY <1>1 DEF CacheInv, SetupVariables, Unset
<1>. QED  BY <1>0, <1>1, <1>2, <1>3, <1>4, <1>5 DEF IInv

\* A step of the innermost frame that leaves this stack.
LEMMA AdvanceKeeps ==
  ASSUME IInv, Running, NEW s, StackFits(policy, s, FrameTypes(policy, Top)[Top.pc])
  PROVE  FramesInv(policy, Advance(s)) /\ Advance(s) # <<>>
<1> DEFINE g == After(Top, s)
<1>1. policy \in Policies /\ FramesInv(policy, frames) /\ frames # <<>> /\ Top.pc <= Len(Top.code)
  BY DEF IInv, Running
<1>2. Top = frames[1] /\ FrameInv(policy, Top)
  BY <1>1, TopIs
<1>3. FrameInv(policy, g) /\ g.dest = Top.dest /\ g.i = Top.i
  BY <1>1, <1>2, FrameAdvances
<1> HIDE DEF g
<1>4. FramesInv(policy, <<g>> \o Tail(frames)) /\ <<g>> \o Tail(frames) # <<>>
  BY <1>1, <1>2, <1>3, ReplaceTop
<1>. QED  BY <1>4 DEF Advance, g

LEMMA LiteralKeeps == ASSUME IInv, Literal PROVE IInv'
<1> DEFINE t == FrameTypes(policy, Top)
           v == [type |-> Ins.type, v |-> Ins.arg, w |-> Ins.arg]
<1>1. /\ UNCHANGED <<policy, request, result, phase, rule, cache>>
      /\ frames' = Advance(Append(Top.stack, v)) /\ Running /\ Ins.op = "lit"
  BY DEF Literal
<1>2. policy \in Policies /\ FramesInv(policy, frames) /\ frames # <<>> /\ Top.pc <= Len(Top.code)
  BY <1>1 DEF IInv, Running
<1>3. FrameInv(policy, Top)
  BY <1>2, TopIs
<1>4. /\ t[Top.pc - 1] \in Seq(TypesIn(policy)) /\ t[Top.pc - 1] # TypeError
      /\ t[Top.pc] = Typed(policy.mode, t[Top.pc - 1], Ins, FrameKnown(policy, Top))
      /\ StackFits(policy, Top.stack, t[Top.pc - 1]) /\ Top.pc \in 1 .. Len(Top.code)
  BY <1>2, <1>3, FrameTyped DEF Ins
<1>5. t[Top.pc] = Append(t[Top.pc - 1], Ins.type)
  BY <1>1, <1>4, TypedForms
<1>6. Ins.type # "dyn" /\ Ins.type \in TypesIn(policy)
  <2>1. Top.code \in Programs(policy)
    BY <1>3 DEF FrameInv
  <2>2. Ins \in ToSet(Top.code) /\ Ins.type # "dyn"
    BY <1>1, <1>2, <1>4, <2>1, Forms DEF Ins
  <2>. QED  BY <2>1, <2>2 DEF TypesIn
<1>7. Fits(policy, v.type, Ins.type)
  BY <1>6 DEF Fits
<1> HIDE DEF v
<1>8. StackFits(policy, Append(Top.stack, v), t[Top.pc])
  BY <1>4, <1>5, <1>6, <1>7, PushFits
<1>9. FramesInv(policy, frames') /\ frames' # <<>>
  BY <1>1, <1>8, AdvanceKeeps
<1>10. FailsOnlyForTheRequest'
  BY <1>1, ResultStays DEF IInv
<1>. QED  BY <1>1, <1>9, <1>10 DEF IInv

\* A variable that the checker passes is known.
LEMMA TypedVar ==
  ASSUME NEW mode, NEW s, NEW ins, NEW vt, s # TypeError, ins.op = "var",
         Typed(mode, s, ins, vt) # TypeError
  PROVE  ins.arg <= Len(vt) /\ Typed(mode, s, ins, vt) = Append(s, vt[ins.arg])
BY DEF Typed

\* An instruction that names a variable.
LEMMA NamedVariable ==
  ASSUME NEW p \in Policies, NEW f, FrameInv(p, f), f.pc <= Len(f.code), f.code[f.pc].op = "var"
  PROVE  LET i == f.code[f.pc].arg
         IN /\ i \in 1 .. Len(p.variables)
            /\ VarTypes(p)[i] \in TypesIn(p)
            /\ FrameTypes(p, f)[f.pc] = Append(FrameTypes(p, f)[f.pc - 1], VarTypes(p)[i])
            /\ FrameTypes(p, f)[f.pc - 1] \in Seq(TypesIn(p))
            /\ StackFits(p, f.stack, FrameTypes(p, f)[f.pc - 1])
<1> DEFINE ins == f.code[f.pc]
           i == ins.arg
           s == FrameTypes(p, f)[f.pc - 1]
           vt == FrameKnown(p, f)
<1>1. /\ s \in Seq(TypesIn(p)) /\ s # TypeError /\ FrameTypes(p, f)[f.pc] # TypeError
      /\ FrameTypes(p, f)[f.pc] = Typed(p.mode, s, ins, vt)
      /\ StackFits(p, f.stack, s) /\ f.pc \in 1 .. Len(f.code)
  BY FrameTyped
<1>2. i \in Nat /\ i > 0
  <2>1. f.code \in Programs(p)
    BY DEF FrameInv
  <2>. QED  BY <1>1, <2>1, Forms
<1>3. ins.op = "var"
  OBVIOUS
<1>4. /\ vt \in Seq(TypesIn(p)) /\ Len(vt) <= Len(p.variables)
      /\ \A j \in 1 .. Len(vt) : vt[j] = VarTypes(p)[j]
  BY FrameKnownIs
<1>5. Len(p.variables) \in Nat
  BY KnownIs
<1> HIDE DEF s, vt, ins
<1>6. Typed(p.mode, s, ins, vt) # TypeError /\ s # TypeError
  BY <1>1
<1>7. i <= Len(vt) /\ FrameTypes(p, f)[f.pc] = Append(s, vt[i])
  BY <1>1, <1>3, <1>6, TypedVar
<1>8. Len(vt) \in Nat /\ i \in 1 .. Len(vt) /\ i \in 1 .. Len(p.variables)
  BY <1>2, <1>4, <1>5, <1>7
<1>9. vt[i] = VarTypes(p)[i] /\ vt[i] \in TypesIn(p)
  BY <1>4, <1>8
<1>. QED  BY <1>1, <1>7, <1>8, <1>9 DEF s, ins

\* The frame of a variable that is evaluated.
LEMMA VariableFrame ==
  ASSUME NEW p \in Policies, Compiles(p), NEW i \in 1 .. Len(p.variables)
  PROVE  LET g == Frame(p.variables[i], "variable", i)
         IN FrameInv(p, g) /\ g.dest = "variable" /\ g.i = i
<1> DEFINE g == Frame(p.variables[i], "variable", i)
           code == p.variables[i]
           vt == Known(p)[i - 1]
<1>1. /\ g.code = code /\ g.pc = 1 /\ g.stack = <<>> /\ g.dest = "variable" /\ g.i = i
      /\ IsFrame(g)
  BY DEF Frame, IsFrame
<1>2. code \in Programs(p)
  <2>1. p.variables \in Seq(ToSet(p.variables))
    BY PoliciesAssumption
  <2>2. code \in ToSet(p.variables)
    BY <2>1
  <2>. QED  BY <2>2 DEF Programs
<1>3. vt \in Seq(TypesIn(p))
  <2>1. i - 1 \in 0 .. Len(p.variables)
    BY KnownIs
  <2>. QED  BY <2>1, KnownIs
<1>4. TypeOf(p.mode, code, vt) # "error"
  <2>1. VarTypes(p)[i] # "error"
    BY DEF Compiles
  <2>. QED  BY <2>1, VariableType
<1> HIDE DEF g, code, vt
<1>5. FrameKnown(p, g) = vt /\ FrameTypes(p, g) = StackTypes(p.mode, code, vt)
  BY <1>1 DEF FrameKnown, FrameTypes, vt
<1>6. FrameTypes(p, g)[g.pc - 1] = <<>> /\ Len(code) \in Nat
  BY <1>1, <1>2, <1>3, <1>5, CodeTypes
<1>7. StackFits(p, g.stack, <<>>)
  BY <1>1 DEF StackFits
<1>8. g.pc \in 1 .. Len(g.code) + 1
  BY <1>1, <1>6
<1>9. FrameInv(p, g)
  BY <1>1, <1>2, <1>4, <1>5, <1>6, <1>7, <1>8 DEF FrameInv, code
<1>. QED  BY <1>1, <1>9 DEF g

LEMMA VariableKeeps == ASSUME IInv, Variable PROVE IInv'
<1> DEFINE i == Ins.arg
           g == Frame(policy.variables[i], "variable", i)
<1>1. /\ UNCHANGED <<policy, request, result, phase, rule, cache>>
      /\ frames' = IF cache[i].type = "unset" THEN <<g>> \o frames
                   ELSE Advance(Append(Top.stack, cache[i]))
      /\ Running /\ Ins.op = "var"
  BY DEF Variable
<1>2. /\ policy \in Policies /\ FramesInv(policy, frames) /\ frames # <<>> /\ Top.pc <= Len(Top.code)
      /\ Compiles(policy) /\ CacheInv(policy, cache)
  BY <1>1 DEF IInv, Running
<1>3. Top = frames[1] /\ FrameInv(policy, Top)
  BY <1>2, TopIs
<1>4. /\ i \in 1 .. Len(policy.variables)
      /\ VarTypes(policy)[i] \in TypesIn(policy)
      /\ FrameTypes(policy, Top)[Top.pc] =
           Append(FrameTypes(policy, Top)[Top.pc - 1], VarTypes(policy)[i])
      /\ FrameTypes(policy, Top)[Top.pc - 1] \in Seq(TypesIn(policy))
      /\ StackFits(policy, Top.stack, FrameTypes(policy, Top)[Top.pc - 1])
  BY <1>1, <1>2, <1>3, NamedVariable DEF Ins
<1>5. FramesInv(policy, frames') /\ frames' # <<>>
  <2>1. CASE cache[i].type = "unset"
    <3>1. FrameInv(policy, g) /\ g.dest = "variable" /\ g.i = i
      BY <1>2, <1>4, VariableFrame
    <3> HIDE DEF g
    <3>2. CallerInv(g, frames[1])
      BY <1>1, <1>2, <1>3, <3>1 DEF CallerInv, Ins
    <3>. QED  BY <1>1, <1>2, <2>1, <3>1, <3>2, PushFrame
  <2>2. CASE cache[i].type # "unset"
    <3>1. Fits(policy, cache[i].type, VarTypes(policy)[i])
      BY <1>2, <1>4, <2>2 DEF CacheInv
    <3>2. StackFits(policy, Append(Top.stack, cache[i]), FrameTypes(policy, Top)[Top.pc])
      BY <1>4, <3>1, PushFits
    <3>. QED  BY <1>1, <2>2, <3>2, AdvanceKeeps
  <2>. QED  BY <2>1, <2>2
<1>6. FailsOnlyForTheRequest'
  BY <1>1, ResultStays DEF IInv
<1>. QED  BY <1>1, <1>5, <1>6 DEF IInv

\* The value of an expression that has been evaluated.
LEMMA ValueFits ==
  ASSUME NEW p \in Policies, NEW f, FrameInv(p, f), f.pc > Len(f.code)
  PROVE  Fits(p, f.stack[1].type, TypeOf(p.mode, f.code, FrameKnown(p, f)))
<1> DEFINE vt == FrameKnown(p, f)
           t == FrameTypes(p, f)
           N == Len(f.code)
           type == TypeOf(p.mode, f.code, vt)
<1>1. f.code \in Programs(p) /\ vt \in Seq(TypesIn(p)) /\ f.pc \in 1 .. N + 1
  BY FrameKnownIs DEF FrameInv
<1>2. type # "error" /\ StackFits(p, f.stack, t[f.pc - 1])
  BY DEF FrameInv
<1>3. t = StackTypes(p.mode, f.code, vt)
  BY DEF FrameTypes
<1> HIDE DEF vt, t
<1>4. N \in Nat /\ Len(t[N]) = 1 /\ t[N][1] = type
  BY <1>1, <1>2, <1>3, CodeTypes
<1>5. f.pc - 1 = N
  BY <1>1, <1>4
<1>6. Len(f.stack) = 1 /\ Fits(p, f.stack[1].type, t[N][1])
  <2>1. StackFits(p, f.stack, t[N])
    BY <1>2, <1>5
  <2>2. Len(f.stack) = 1
    BY <1>4, <2>1 DEF StackFits
  <2>3. 1 \in 1 .. Len(f.stack)
    BY <2>2
  <2>. QED  BY <2>1, <2>2, <2>3 DEF StackFits
<1>. QED  BY <1>4, <1>6 DEF vt

LEMMA VariableEndsKeeps == ASSUME IInv, VariableEnds PROVE IInv'
<1> DEFINE i == Top.i
           up == frames[2]
           g == After(up, Append(up.stack, Value))
<1>1. /\ UNCHANGED <<policy, request, result, phase, rule>>
      /\ cache' = [cache EXCEPT ![i] = Value]
      /\ frames' = <<g>> \o SubSeq(frames, 3, Len(frames))
      /\ Top.dest = "variable" /\ Top.pc > Len(Top.code) /\ phase = "eval"
  BY DEF VariableEnds, Ended
<1>2. /\ policy \in Policies /\ FramesInv(policy, frames) /\ frames # <<>>
      /\ Compiles(policy) /\ CacheInv(policy, cache)
  BY <1>1 DEF IInv
<1>3. Top = frames[1] /\ FrameInv(policy, Top)
  BY <1>2, TopIs
<1>4. Len(frames) >= 2 /\ FrameInv(policy, up) /\ CallerInv(Top, up)
  <2>1. frames \in Seq(ToSet(frames)) /\ frames[Len(frames)].dest # "variable"
    BY <1>2 DEF FramesInv
  <2>2. Len(frames) \in Nat /\ Len(frames) # 0 /\ Len(frames) # 1
    BY <1>1, <1>2, <1>3, <2>1
  <2> DEFINE m == Len(frames)
  <2>m. m \in Nat /\ m # 0 /\ m # 1
    BY <2>2
  <2>3. m >= 2 /\ 2 \in 1 .. m /\ 1 \in 1 .. m - 1
    <3> HIDE DEF m
    <3>. QED  BY <2>m
  <2>4. CallerInv(frames[1], frames[1 + 1])
    BY <1>2, <2>3 DEF FramesInv
  <2>. QED  BY <1>2, <1>3, <2>3, <2>4 DEF FramesInv
<1>5. up.pc <= Len(up.code) /\ up.code[up.pc].op = "var" /\ up.code[up.pc].arg = i
  BY <1>4 DEF CallerInv
<1>6. /\ i \in 1 .. Len(policy.variables)
      /\ VarTypes(policy)[i] \in TypesIn(policy)
      /\ FrameTypes(policy, up)[up.pc] = Append(FrameTypes(policy, up)[up.pc - 1], VarTypes(policy)[i])
      /\ FrameTypes(policy, up)[up.pc - 1] \in Seq(TypesIn(policy))
      /\ StackFits(policy, up.stack, FrameTypes(policy, up)[up.pc - 1])
  BY <1>2, <1>4, <1>5, NamedVariable
<1>7. Fits(policy, Value.type, VarTypes(policy)[i])
  <2>1. Fits(policy, Value.type, TypeOf(policy.mode, Top.code, FrameKnown(policy, Top)))
    BY <1>1, <1>2, <1>3, ValueFits DEF Value
  <2>2. FrameKnown(policy, Top) = Known(policy)[i - 1] /\ Top.code = policy.variables[i]
    BY <1>1, <1>3 DEF FrameKnown, FrameInv
  <2>. QED  BY <1>2, <1>6, <2>1, <2>2, VariableType
<1>8. StackFits(policy, Append(up.stack, Value), FrameTypes(policy, up)[up.pc])
  BY <1>6, <1>7, PushFits
<1>9. FrameInv(policy, g) /\ g.dest = up.dest /\ g.i = up.i
  BY <1>2, <1>4, <1>5, <1>8, FrameAdvances
<1>10. FramesInv(policy, frames') /\ frames' # <<>>
  <2> HIDE DEF g
  <2>. QED  BY <1>1, <1>2, <1>4, <1>9, PopFrame
<1>11. CacheInv(policy, cache')
  <2>1. DOMAIN cache = 1 .. Len(policy.variables)
    BY <1>2 DEF CacheInv
  <2>2. /\ DOMAIN cache' = 1 .. Len(policy.variables) /\ cache'[i] = Value
        /\ \A j \in 1 .. Len(policy.variables) : j # i => cache'[j] = cache[j]
    BY <1>1, <1>6, <2>1
  <2>3. ASSUME NEW j \in 1 .. Len(policy.variables), cache'[j].type # "unset"
        PROVE  Fits(policy, cache'[j].type, VarTypes(policy)[j])
    <3>1. CASE j = i
      BY <1>7, <2>2, <3>1
    <3>2. CASE j # i
      BY <1>2, <2>2, <2>3, <3>2 DEF CacheInv
    <3>. QED  BY <3>1, <3>2
  <2>. QED  BY <2>2, <2>3 DEF CacheInv
<1>12. FailsOnlyForTheRequest'
  BY <1>1, ResultStays DEF IInv
<1>. QED  BY <1>1, <1>10, <1>11, <1>12 DEF IInv

\* The exceptions for arguments of the wrong types.
ArgsExplained(p, fn, types) ==
  \/ fn \in Getters \ {"mcp_get_string"}
  \/ fn \in {"mcp_parse", "unmarshal"} /\ types # <<"string">>
  \/ JsonPassed(p, fn, types)

\* What FailsOnlyForTheRequest allows of a call that fails, as an operator.
Explained(p, req, fn, types, a) ==
  \/ fn = "unmarshal" /\ ~req.body.ok
  \/ fn = "mcp_parse" /\ ~IsMcpRequest(req.body)
  \/ fn \in {"decode_string_string", "decode_string_set"} /\ ~req.token.signed
  \/ fn = "fetch" /\ ~req.keysUp
  \/ fn \in Getters \ {"mcp_get_string"}
  \/ fn \in {"mcp_parse", "unmarshal"} /\ types # <<"string">>
  \/ JsonPassed(p, fn, types)
  \/ fn = "denied" /\ a[1] \notin StatusCodes
  \/ fn = "response_with_metadata" /\ ~EncodesStruct(a[2])
  \/ fn = "decode_string_string" /\ a[2] = ""
  \/ fn = "decode_string_string" /\ "audience" \in req.token.claims

LEMMA ExplainedIs ==
  FailsOnlyForTheRequest <=>
    (result.kind = "error" =>
       Explained(policy, request, result.fn, result.types, result.args))
<1>1. PassesJson <=> JsonPassed(policy, result.fn, result.types)
  BY DEF PassesJson, JsonPassed, CallsUnmarshal
<1>. QED  BY <1>1 DEF FailsOnlyForTheRequest, Explained

LEMMA FailureExplained ==
  ASSUME UNCHANGED <<policy, request>>,
         Explained(policy, request, result'.fn, result'.types, result'.args)
  PROVE  FailsOnlyForTheRequest'
<1>1. Explained(policy', request', result'.fn, result'.types, result'.args)
  <2>1. policy' = policy /\ request' = request
    OBVIOUS
  <2>. QED  BY <2>1
<1>2. (FailsOnlyForTheRequest <=>
        (result.kind = "error" =>
           Explained(policy, request, result.fn, result.types, result.args)))'
  BY ExplainedIs, PTL
<1>. QED  BY <1>1, <1>2

LEMMA CallExplained ==
  ASSUME NEW fn, NEW types, NEW a, CallFails(request, fn, a)
  PROVE  Explained(policy, request, fn, types, a)
<1>1. CASE fn = "unmarshal" /\ ~request.body.ok
  BY <1>1 DEF Explained
<1>2. CASE fn = "mcp_parse" /\ ~IsMcpRequest(request.body)
  BY <1>2 DEF Explained
<1>3. CASE fn \in {"decode_string_string", "decode_string_set"} /\ ~request.token.signed
  BY <1>3 DEF Explained
<1>4. CASE fn = "decode_string_string" /\ a[2] = ""
  BY <1>4 DEF Explained
<1>5. CASE fn = "decode_string_string" /\ ~EncodesWithKey(request.token.claims)
  BY <1>5 DEF Explained, EncodesWithKey
<1>6. CASE fn = "fetch" /\ ~request.keysUp
  BY <1>6 DEF Explained
<1>. QED  BY <1>1, <1>2, <1>3, <1>4, <1>5, <1>6 DEF CallFails, EncodesWithSet

\* So is a call whose arguments are of the right types and cannot be converted.
LEMMA ConversionExplained ==
  ASSUME NEW fn, NEW types, NEW a, types = ConvertsTo(fn), ~ConvertToNative(fn, types, a)
  PROVE  Explained(policy, request, fn, types, a)
BY DEF ConvertToNative, Explained

\* A call that fails, if arguments of the wrong types are explained.
LEMMA FailureIsExplained ==
  ASSUME NEW fn, NEW types, NEW a,
         (types # ConvertsTo(fn) \/ ~Dispatches(fn, types)) => ArgsExplained(policy, fn, types),
         \/ ~Dispatches(fn, types) \/ ~ConvertToNative(fn, types, a)
         \/ CallFails(request, fn, a)
  PROVE  Explained(policy, request, fn, types, a)
<1>1. CASE ArgsExplained(policy, fn, types)
  BY <1>1 DEF ArgsExplained, Explained
<1>. QED  BY <1>1, ConversionExplained, CallExplained

LEMMA ApplyKeeps == ASSUME IInv, Apply PROVE IInv'
<1> DEFINE fn == Ins.arg
           sig == Overload(fn)
           n == Len(sig.args)
           m == Len(Top.stack)
           k == m - n
           args == SubSeq(Top.stack, k + 1, m)
           types == [j \in 1 .. n |-> args[j].type]
           a == [j \in 1 .. n |-> args[j].v]
           out == Invoke(request, fn, heap, a)
           copy == Copied(request, fn, pure, types, [j \in 1 .. n |-> args[j].w])
           value == [type |-> ResultType(request, fn), v |-> out.val, w |-> copy.val]
           below == SubSeq(Top.stack, 1, k)
           fails == \/ ~Dispatches(fn, types) \/ ~ConvertToNative(fn, types, a)
                    \/ CallFails(request, fn, a)
           found == [j \in 1 .. n |-> Top.stack[k + j].type]
           t == FrameTypes(policy, Top)
<1>1. /\ UNCHANGED <<policy, request, cache, rule>> /\ Running /\ Ins.op = "call"
      /\ IF fails THEN Finish(Error(fn, types, a))
         ELSE frames' = Advance(Append(below, value)) /\ UNCHANGED <<phase, result>>
  BY DEF Apply
<1> HIDE DEF out, copy
<1>2. /\ policy \in Policies /\ FramesInv(policy, frames) /\ frames # <<>> /\ request \in Requests
      /\ Top.pc <= Len(Top.code) /\ Compiles(policy) /\ CacheInv(policy, cache) /\ phase = "eval"
  BY <1>1 DEF IInv, Running
<1>3. FrameInv(policy, Top)
  BY <1>2, TopIs
<1>4. /\ n \in Nat /\ k \in 0 .. m
      /\ StackFits(policy, below, SubSeq(t[Top.pc - 1], 1, k))
      /\ SubSeq(t[Top.pc - 1], 1, k) \in Seq(TypesIn(policy))
      /\ t[Top.pc] = Append(SubSeq(t[Top.pc - 1], 1, k), sig.res)
      /\ sig.res \in TypesIn(policy) /\ Fits(policy, ResultType(request, fn), sig.res)
      /\ (found # ConvertsTo(fn) \/ ~Dispatches(fn, found)) =>
           \/ fn \in Getters \ {"mcp_get_string"}
           \/ fn \in {"mcp_parse", "unmarshal"} /\ found # <<"string">>
           \/ JsonPassed(policy, fn, found)
  BY <1>1, <1>2, <1>3, CallTypes DEF Ins
<1>5. types = found
  <2>1. Top.stack \in Seq(ToSet(Top.stack)) /\ m \in Nat
    <3>1. Top.stack \in Seq(ToSet(Top.stack))
      BY <1>3 DEF FrameInv, StackFits
    <3>. QED  BY <3>1
  <2>2. ASSUME NEW j \in 1 .. n PROVE args[j] = Top.stack[k + j]
    <3>1. k + j \in 1 .. m /\ m - k = n
      <4> HIDE DEF m, n
      <4>. QED  BY <1>4, <2>1
    <3> DEFINE st == Top.stack
               S == ToSet(st)
    <3>2. st \in Seq(S) /\ m = Len(st)
      BY <2>1
    <3>3. SubSeq(st, k + 1, m)[j] = st[k + j]
      <4> HIDE DEF st, S, m, n
      <4>. QED  BY <1>4, <2>1, <3>1, <3>2
    <3>. QED  BY <3>3
  <2> HIDE DEF args, n, k
  <2>. QED  BY <2>2
<1>6. CASE fails
  <2>1. /\ result'.kind = "error" /\ result'.fn = fn /\ result'.types = types
        /\ result'.args = a /\ phase' = "idle" /\ frames' = <<>>
    <3> HIDE DEF fails, types, fn, a
    <3>. QED  BY <1>1, <1>6 DEF Finish, Error, None
  <2>2. (types # ConvertsTo(fn) \/ ~Dispatches(fn, types)) => ArgsExplained(policy, fn, types)
    BY <1>4, <1>5, Zenon DEF ArgsExplained
  <2> HIDE DEF fn, types, a
  <2>5. Explained(policy, request, fn, types, a)
    BY <1>6, <2>2, FailureIsExplained
  <2>6. FailsOnlyForTheRequest'
    <3>1. Explained(policy, request, result'.fn, result'.types, result'.args)
      BY <2>1, <2>5
    <3>. QED  BY <1>1, <3>1, FailureExplained
  <2>. QED  BY <1>1, <1>2, <2>1, <2>6 DEF IInv
<1>7. CASE ~fails
  <2>1. frames' = Advance(Append(below, value)) /\ UNCHANGED <<phase, result>>
    <3> HIDE DEF fails, below, value
    <3>. QED  BY <1>1, <1>7
  <2>2. Fits(policy, value.type, sig.res)
    BY <1>4
  <2> HIDE DEF value, below
  <2> DEFINE low == SubSeq(t[Top.pc - 1], 1, k)
             res == sig.res
  <2>3. StackFits(policy, Append(below, value), t[Top.pc])
    <3>1. /\ StackFits(policy, below, low) /\ low \in Seq(TypesIn(policy))
          /\ t[Top.pc] = Append(low, res) /\ res \in TypesIn(policy)
          /\ Fits(policy, value.type, res)
      BY <1>4, <2>2
    <3> HIDE DEF low, res
    <3>2. StackFits(policy, Append(below, value), Append(low, res))
      BY <3>1, PushFits
    <3>. QED  BY <3>1, <3>2
  <2>4. FramesInv(policy, frames') /\ frames' # <<>>
    BY <1>1, <2>1, <2>3, AdvanceKeeps
  <2>5. FailsOnlyForTheRequest'
    BY <1>1, <2>1, ResultStays DEF IInv
  <2>. QED  BY <1>1, <2>1, <2>4, <2>5 DEF IInv
<1>. QED  BY <1>6, <1>7

LEMMA TestEndsKeeps == ASSUME IInv, TestEnds PROVE IInv'
<1> DEFINE r == policy.rules[rule]
           holds == Equals(Value, r.expect)
<1>1. UNCHANGED <<policy, request, cache>> /\ phase = "eval"
  BY DEF TestEnds, Ended
<1>2. /\ policy \in Policies /\ Compiles(policy) /\ CacheInv(policy, cache)
      /\ rule \in 1 .. Len(policy.rules) /\ FailsOnlyForTheRequest /\ request \in Requests
  BY <1>1 DEF IInv
<1>3. \/ frames' = <<Frame(r.response, "response", 0)>> /\ UNCHANGED <<phase, rule, result>>
      \/ /\ rule < Len(policy.rules) /\ rule' = rule + 1 /\ frames' = <<Enter(rule + 1)>>
         /\ UNCHANGED <<phase, result>>
      \/ phase' = "idle" /\ result'.kind = "none" /\ UNCHANGED rule
  <2>1. CASE holds
    BY <2>1 DEF TestEnds
  <2>2. CASE ~holds /\ rule < Len(policy.rules)
    BY <2>2 DEF TestEnds
  <2>3. CASE ~holds /\ ~(rule < Len(policy.rules))
    <3>1. Finish(None) /\ UNCHANGED rule
      BY <2>3 DEF TestEnds
    <3>. QED  BY <3>1 DEF Finish, None
  <2>. QED  BY <2>1, <2>2, <2>3
<1>4. FailsOnlyForTheRequest'
  BY <1>1, <1>2, <1>3, ResultStays
<1>5. CASE frames' = <<Frame(r.response, "response", 0)>> /\ UNCHANGED <<phase, rule, result>>
  <2>1. FramesInv(policy, frames') /\ frames' # <<>>
    BY <1>2, <1>5, RuleFrames
  <2>. QED  BY <1>1, <1>2, <1>4, <1>5, <2>1 DEF IInv
<1>6. CASE /\ rule < Len(policy.rules) /\ rule' = rule + 1 /\ frames' = <<Enter(rule + 1)>>
           /\ UNCHANGED <<phase, result>>
  <2>1. rule + 1 \in 1 .. Len(policy.rules)
    <3>1. policy.rules \in Seq(ToSet(policy.rules))
      BY <1>2, PoliciesAssumption
    <3>2. Len(policy.rules) \in Nat
      BY <3>1
    <3>. QED  BY <1>2, <1>6, <3>2
  <2>2. FramesInv(policy, frames') /\ frames' # <<>>
    BY <1>2, <1>6, <2>1, RuleFrames
  <2>. QED  BY <1>1, <1>2, <1>4, <1>6, <2>1, <2>2 DEF IInv
<1>7. CASE phase' = "idle" /\ result'.kind = "none" /\ UNCHANGED rule
  BY <1>1, <1>2, <1>4, <1>7 DEF IInv
<1>. QED  BY <1>3, <1>5, <1>6, <1>7

LEMMA ResponseEndsKeeps == ASSUME IInv, ResponseEnds PROVE IInv'
<1>1. /\ UNCHANGED <<policy, request>> /\ phase = "eval" /\ phase' = "idle"
      /\ result'.kind = "response"
  <2> DEFINE tree == ResponseTree(heap, Value.type, Value.v)
             copy == ResponseTree(pure, Value.type, Value.w)
  <2>1. /\ UNCHANGED <<policy, request>> /\ phase = "eval" /\ Finish(Response(tree, copy))
    BY DEF ResponseEnds, Ended
  <2> HIDE DEF tree, copy
  <2>. QED  BY <2>1 DEF Finish, Response, None
<1>2. FailsOnlyForTheRequest'
  BY <1>1, ResultStays DEF IInv
<1>. QED  BY <1>1, <1>2 DEF IInv

LEMMA InitIInv == Init => IInv
<1> SUFFICES ASSUME Init PROVE IInv
  OBVIOUS
<1>1. policy \in Policies /\ request \in Requests /\ phase = "compile"
  BY DEF Init
<1>2. result.kind = "none"
  BY DEF Init, None
<1>3. result.kind # "error"
  BY <1>2
<1>4. FailsOnlyForTheRequest
  BY <1>3, ExplainedIs
<1>. QED  BY <1>1, <1>4 DEF IInv

LEMMA NextIInv == IInv /\ [Next]_vars => IInv'
<1> SUFFICES ASSUME IInv, [Next]_vars PROVE IInv'
  OBVIOUS
<1>1. CASE UNCHANGED vars
  <2>1. UNCHANGED <<policy, request, result, phase, rule, cache, frames>>
    BY <1>1 DEF vars
  <2>2. FailsOnlyForTheRequest'
    BY <2>1, ResultStays DEF IInv
  <2>. QED  BY <2>1, <2>2 DEF IInv
<1>. QED
  BY <1>1, CompileKeeps, ReceiveKeeps, LiteralKeeps, VariableKeeps, ApplyKeeps,
     VariableEndsKeeps, TestEndsKeeps, ResponseEndsKeeps DEF Next

-----------------------------------------------------------------------------
(* An evaluation is determined by the policy and the request: its states    *)
(* are those of a function that is applied again and again.                 *)

\* A state of an evaluation, and its end.
Eval(h, w, vals, fs, i) ==
  [done |-> FALSE, heap |-> h, pure |-> w, cache |-> vals, frames |-> fs, rule |-> i, out |-> 0]
Done(res) ==
  [done |-> TRUE, heap |-> 0, pure |-> 0, cache |-> 0, frames |-> 0, rule |-> 0, out |-> res]

First(p, i) ==
  IF p.rules[i].test = <<>> THEN Frame(p.rules[i].response, "response", 0)
  ELSE Frame(p.rules[i].test, "test", 0)

Begin(p) ==
  Eval(<<>>, <<>>, [i \in 1 .. Len(p.variables) |-> Unset], <<First(p, 1)>>, 1)

\* The innermost frame goes on with this stack.
Onward(fs, stack) == <<After(Head(fs), stack)>> \o Tail(fs)

LiteralStep(s, f, ins) ==
  Eval(s.heap, s.pure, s.cache,
       Onward(s.frames, Append(f.stack, [type |-> ins.type, v |-> ins.arg, w |-> ins.arg])), s.rule)

VariableStep(p, s, f, ins) ==
  Eval(s.heap, s.pure, s.cache,
       IF s.cache[ins.arg].type = "unset"
         THEN <<Frame(p.variables[ins.arg], "variable", ins.arg)>> \o s.frames
         ELSE Onward(s.frames, Append(f.stack, s.cache[ins.arg])),
       s.rule)

\* The arguments of a call of n on a stack, and the call with them.
ArgsOf(stack, n) == SubSeq(stack, (Len(stack) - n) + 1, Len(stack))
CallStep(req, s, f, fn, n, args, types) ==
  LET a == [i \in 1 .. n |-> args[i].v]
      out == Invoke(req, fn, s.heap, a)
      copy == Copied(req, fn, s.pure, types, [i \in 1 .. n |-> args[i].w])
  IN IF \/ ~Dispatches(fn, types) \/ ~ConvertToNative(fn, types, a)
        \/ CallFails(req, fn, a)
     THEN Done(Error(fn, types, a))
     ELSE Eval(out.heap, copy.heap, s.cache,
               Onward(s.frames, Append(SubSeq(f.stack, 1, Len(f.stack) - n),
                 [type |-> ResultType(req, fn), v |-> out.val, w |-> copy.val])),
               s.rule)
ApplyStep(req, s, f, fn, n) ==
  CallStep(req, s, f, fn, n, ArgsOf(f.stack, n), [i \in 1 .. n |-> ArgsOf(f.stack, n)[i].type])

VariableEndStep(s, f, up) ==
  Eval(s.heap, s.pure, [s.cache EXCEPT ![f.i] = f.stack[1]],
       <<After(up, Append(up.stack, f.stack[1]))>> \o SubSeq(s.frames, 3, Len(s.frames)), s.rule)

TestEndStep(p, s, f, r) ==
  IF Equals(f.stack[1], r.expect)
  THEN Eval(s.heap, s.pure, s.cache, <<Frame(r.response, "response", 0)>>, s.rule)
  ELSE IF s.rule < Len(p.rules)
  THEN Eval(s.heap, s.pure, s.cache, <<First(p, s.rule + 1)>>, s.rule + 1)
  ELSE Done(None)

ResponseEndStep(s, x) ==
  Done(Response(ResponseTree(s.heap, x.type, x.v), ResponseTree(s.pure, x.type, x.w)))

Step(p, req, s) ==
  LET f == Head(s.frames)
      ins == f.code[f.pc]
  IN IF f.pc <= Len(f.code)
     THEN CASE ins.op = "lit" -> LiteralStep(s, f, ins)
            [] ins.op = "var" -> VariableStep(p, s, f, ins)
            [] ins.op = "call" -> ApplyStep(req, s, f, ins.arg, Len(Overload(ins.arg).args))
     ELSE CASE f.dest = "variable" -> VariableEndStep(s, f, s.frames[2])
            [] f.dest = "test" -> TestEndStep(p, s, f, p.rules[s.rule])
            [] f.dest = "response" -> ResponseEndStep(s, f.stack[1])

\* The states of an evaluation, one after the other, that has n steps behind it.
Trace(p, req, tr, n) ==
  /\ tr[0] = Begin(p)
  /\ \A i \in 0 .. n - 1 : ~tr[i].done /\ tr[i + 1] = Step(p, req, tr[i])

Reached(p, req, s) == \E n \in Nat : \E tr : Trace(p, req, tr, n) /\ tr[n] = s

\* What the evaluator is at is reached from the beginning, and so is every answer.
RepeatInv ==
  /\ answers \in Seq(ToSet(answers))
  /\ phase = "eval" => Reached(policy, request, Eval(heap, pure, cache, frames, rule))
  /\ \A i \in 1 .. Len(answers) : Reached(policy, request, Done(answers[i]))

LEMMA BeginReached == ASSUME NEW p, NEW req PROVE Reached(p, req, Begin(p))
<1> DEFINE tr == [i \in 0 .. 0 |-> Begin(p)]
<1>1. tr[0] = Begin(p)
  OBVIOUS
<1>2. Trace(p, req, tr, 0)
  <2> HIDE DEF tr
  <2>. QED  BY <1>1 DEF Trace
<1>. QED  BY <1>1, <1>2 DEF Reached

LEMMA StepReached ==
  ASSUME NEW p, NEW req, NEW s, ~s.done, Reached(p, req, s)
  PROVE  Reached(p, req, Step(p, req, s))
<1>1. PICK n \in Nat : \E tr : Trace(p, req, tr, n) /\ tr[n] = s
  BY DEF Reached
<1>2. PICK tr : Trace(p, req, tr, n) /\ tr[n] = s
  BY <1>1
<1> DEFINE x == Step(p, req, s)
           tx == [i \in 0 .. n + 1 |-> IF i <= n THEN tr[i] ELSE x]
<1>3. tx[0] = tr[0] /\ tx[n + 1] = x /\ \A i \in 0 .. n : tx[i] = tr[i]
  <2> HIDE DEF x
  <2>. QED  OBVIOUS
<1>4. ASSUME NEW i \in 0 .. (n + 1) - 1 PROVE ~tx[i].done /\ tx[i + 1] = Step(p, req, tx[i])
  <2> HIDE DEF tx, x
  <2>1. CASE i = n
    BY <1>2, <1>3, <2>1 DEF x
  <2>2. CASE i # n
    <3>1. i \in 0 .. n - 1 /\ i + 1 \in 0 .. n /\ i \in 0 .. n
      BY <2>2
    <3>2. ~tr[i].done /\ tr[i + 1] = Step(p, req, tr[i])
      BY <1>2, <3>1 DEF Trace
    <3>. QED  BY <1>3, <3>1, <3>2
  <2>. QED  BY <2>1, <2>2
<1>5. Trace(p, req, tx, n + 1)
  <2> HIDE DEF tx, x
  <2>. QED  BY <1>2, <1>3, <1>4 DEF Trace
<1>6. n + 1 \in Nat /\ tx[n + 1] = x
  BY <1>3
<1> HIDE DEF tx, x
<1>7. Reached(p, req, x)
  BY <1>5, <1>6 DEF Reached
<1>. QED  BY <1>7 DEF x

\* Two evaluations go through the same states.
LEMMA TracesAgree ==
  ASSUME NEW p, NEW req, NEW n \in Nat, NEW m \in Nat, n <= m, NEW tr, NEW tx,
         Trace(p, req, tr, n), Trace(p, req, tx, m)
  PROVE  tr[n] = tx[n]
<1> DEFINE T == {i \in Nat : i <= n => tr[i] = tx[i]}
<1>1. 0 \in T
  BY DEF Trace
<1>2. ASSUME NEW i \in Nat, i \in T PROVE i + 1 \in T
  <2>1. SUFFICES ASSUME i + 1 <= n PROVE tr[i + 1] = tx[i + 1]
    OBVIOUS
  <2>2. i \in 0 .. n - 1 /\ i \in 0 .. m - 1 /\ tr[i] = tx[i]
    BY <1>2, <2>1
  <2>. QED  BY <2>2 DEF Trace
<1>3. Nat \subseteq T
  <2> HIDE DEF T
  <2>. QED  BY <1>1, <1>2, NumbersInduct
<1>. QED  BY <1>3

LEMMA EndsAgree ==
  ASSUME NEW p, NEW req, NEW x, NEW y, Reached(p, req, Done(x)), Reached(p, req, Done(y))
  PROVE  x = y
<1>1. PICK n \in Nat : \E tr : Trace(p, req, tr, n) /\ tr[n] = Done(x)
  BY DEF Reached
<1>2. PICK tr : Trace(p, req, tr, n) /\ tr[n] = Done(x)
  BY <1>1
<1>3. PICK m \in Nat : \E tx : Trace(p, req, tx, m) /\ tx[m] = Done(y)
  BY DEF Reached
<1>4. PICK tx : Trace(p, req, tx, m) /\ tx[m] = Done(y)
  BY <1>3
<1>5. Done(x).done /\ Done(y).done /\ Done(x).out = x /\ Done(y).out = y
  BY DEF Done
<1>6. CASE n < m
  <2>1. tx[n] = Done(x)
    BY <1>2, <1>4, <1>6, TracesAgree
  <2>2. n \in 0 .. m - 1
    BY <1>6
  <2>. QED  BY <1>4, <1>5, <2>1, <2>2 DEF Trace
<1>7. CASE m < n
  <2>1. tr[m] = Done(y)
    BY <1>2, <1>4, <1>7, TracesAgree
  <2>2. m \in 0 .. n - 1
    BY <1>7
  <2>. QED  BY <1>2, <1>5, <2>1, <2>2 DEF Trace
<1>8. CASE n = m
  <2>1. tr[n] = tx[n]
    BY <1>2, <1>4, <1>8, TracesAgree
  <2>2. Done(x) = Done(y)
    BY <1>2, <1>4, <1>8, <2>1
  <2>. QED  BY <1>5, <2>2
<1>. QED  BY <1>6, <1>7, <1>8

\* An action that takes the evaluation to the next state, or to its end.
Goes ==
  /\ phase' = "eval" /\ UNCHANGED answers
  /\ Eval(heap', pure', cache', frames', rule') =
       Step(policy, request, Eval(heap, pure, cache, frames, rule))
Ends ==
  /\ phase' = "idle"
  /\ \E res : /\ answers' = Append(answers, res)
              /\ Done(res) = Step(policy, request, Eval(heap, pure, cache, frames, rule))

LEMMA MoveRepeats ==
  ASSUME RepeatInv, phase = "eval", UNCHANGED <<policy, request>>, Goes \/ Ends
  PROVE  RepeatInv'
<1> DEFINE s == Eval(heap, pure, cache, frames, rule)
           x == Step(policy, request, s)
<1>1. Reached(policy, request, s) /\ ~s.done
  BY DEF RepeatInv, Eval
<1>2. Reached(policy, request, x)
  <2> HIDE DEF s
  <2>. QED  BY <1>1, StepReached
<1> HIDE DEF x, s
<1>3. policy' = policy /\ request' = request
  OBVIOUS
<1>4. CASE Goes
  <2>1. Reached(policy', request', Eval(heap', pure', cache', frames', rule'))
    BY <1>2, <1>3, <1>4 DEF Goes, x, s
  <2>2. answers' = answers
    BY <1>4 DEF Goes
  <2>3. \A i \in 1 .. Len(answers') : Reached(policy', request', Done(answers'[i]))
    BY <1>3, <2>2 DEF RepeatInv
  <2>. QED  BY <2>1, <2>2, <2>3 DEF RepeatInv
<1>5. CASE Ends
  <2>1. PICK res : answers' = Append(answers, res) /\ Done(res) = x
    BY <1>5 DEF Ends, x, s
  <2> DEFINE S == ToSet(answers) \cup {res}
  <2>2. answers \in Seq(ToSet(answers))
    BY DEF RepeatInv
  <2>3. answers \in Seq(S) /\ res \in S
    BY <2>2
  <2> HIDE DEF S
  <2>4. /\ answers' \in Seq(S) /\ Len(answers') = Len(answers) + 1 /\ Len(answers) \in Nat
        /\ answers'[Len(answers) + 1] = res
        /\ \A i \in 1 .. Len(answers) : answers'[i] = answers[i]
    BY <2>1, <2>3
  <2>5. answers' \in Seq(ToSet(answers'))
    BY <2>4, OwnItems
  <2>6. ASSUME NEW i \in 1 .. Len(answers') PROVE Reached(policy', request', Done(answers'[i]))
    <3>1. CASE i = Len(answers) + 1
      BY <1>2, <1>3, <2>1, <2>4, <3>1
    <3>2. CASE i # Len(answers) + 1
      <4>1. i \in 1 .. Len(answers)
        BY <2>4, <3>2
      <4>2. Reached(policy, request, Done(answers[i]))
        BY <4>1 DEF RepeatInv
      <4>. QED  BY <1>3, <2>4, <4>1, <4>2
    <3>. QED  BY <3>1, <3>2
  <2>7. phase' # "eval"
    BY <1>5 DEF Ends
  <2>. QED  BY <2>5, <2>6, <2>7 DEF RepeatInv
<1>. QED  BY <1>4, <1>5

\* The fields of a state.
LEMMA EvalFields ==
  ASSUME NEW h, NEW w, NEW vals, NEW fs, NEW i
  PROVE  /\ Eval(h, w, vals, fs, i).heap = h /\ Eval(h, w, vals, fs, i).pure = w
         /\ Eval(h, w, vals, fs, i).cache = vals /\ Eval(h, w, vals, fs, i).frames = fs
         /\ Eval(h, w, vals, fs, i).rule = i
BY DEF Eval

\* The step that is taken, by what is next in the innermost frame.
LEMMA StepIs ==
  ASSUME NEW p, NEW req, NEW s, NEW f, f = Head(s.frames), NEW ins, ins = f.code[f.pc]
  PROVE  /\ f.pc <= Len(f.code) =>
              /\ ins.op = "lit" => Step(p, req, s) = LiteralStep(s, f, ins)
              /\ ins.op = "var" => Step(p, req, s) = VariableStep(p, s, f, ins)
              /\ ins.op = "call" =>
                   Step(p, req, s) = ApplyStep(req, s, f, ins.arg, Len(Overload(ins.arg).args))
         /\ ~(f.pc <= Len(f.code)) =>
              /\ f.dest = "variable" => Step(p, req, s) = VariableEndStep(s, f, s.frames[2])
              /\ f.dest = "test" => Step(p, req, s) = TestEndStep(p, s, f, p.rules[s.rule])
              /\ f.dest = "response" => Step(p, req, s) = ResponseEndStep(s, f.stack[1])
BY DEF Step

LEMMA EndedTop == ASSUME IInv, Ended PROVE ~(Top.pc <= Len(Top.code))
<1>1. policy \in Policies /\ FramesInv(policy, frames) /\ frames # <<>> /\ Top.pc > Len(Top.code)
  BY DEF IInv, Ended
<1>2. FrameInv(policy, Top)
  BY <1>1, TopIs
<1>3. Top.code \in Seq(ToSet(Top.code)) /\ Top.pc \in 1 .. Len(Top.code) + 1
  BY <1>1, <1>2, PoliciesAssumption DEF FrameInv
<1>4. Len(Top.code) \in Nat
  BY <1>3
<1>. QED  BY <1>1, <1>3, <1>4

LEMMA LiteralGoes == ASSUME Literal PROVE Goes
<1> DEFINE s == Eval(heap, pure, cache, frames, rule)
<1>1. /\ UNCHANGED <<heap, pure, cache, rule, answers, phase>> /\ phase = "eval"
      /\ Top.pc <= Len(Top.code) /\ Ins.op = "lit"
      /\ frames' = Advance(Append(Top.stack, [type |-> Ins.type, v |-> Ins.arg, w |-> Ins.arg]))
  BY DEF Literal, Running
<1>2. s.heap = heap /\ s.pure = pure /\ s.cache = cache /\ s.frames = frames /\ s.rule = rule
  BY EvalFields
<1> HIDE DEF s
<1>3. Step(policy, request, s) = LiteralStep(s, Top, Ins)
  BY <1>1, <1>2, StepIs DEF Top, Ins
<1>4. LiteralStep(s, Top, Ins) = Eval(heap, pure, cache, frames', rule)
  BY <1>1, <1>2 DEF LiteralStep, Onward, Advance, Top
<1>. QED  BY <1>1, <1>3, <1>4 DEF Goes, s

LEMMA VariableGoes == ASSUME Variable PROVE Goes
<1> DEFINE s == Eval(heap, pure, cache, frames, rule)
<1>1. /\ UNCHANGED <<heap, pure, cache, rule, answers, phase>> /\ phase = "eval"
      /\ Top.pc <= Len(Top.code) /\ Ins.op = "var"
      /\ frames' = IF cache[Ins.arg].type = "unset"
                   THEN <<Frame(policy.variables[Ins.arg], "variable", Ins.arg)>> \o frames
                   ELSE Advance(Append(Top.stack, cache[Ins.arg]))
  BY DEF Variable, Running
<1>2. s.heap = heap /\ s.pure = pure /\ s.cache = cache /\ s.frames = frames /\ s.rule = rule
  BY EvalFields
<1> HIDE DEF s
<1>3. Step(policy, request, s) = VariableStep(policy, s, Top, Ins)
  BY <1>1, <1>2, StepIs DEF Top, Ins
<1>4. VariableStep(policy, s, Top, Ins) = Eval(heap, pure, cache, frames', rule)
  BY <1>1, <1>2 DEF VariableStep, Onward, Advance, Top
<1>. QED  BY <1>1, <1>3, <1>4 DEF Goes, s

LEMMA ApplyMoves == ASSUME Apply PROVE Goes \/ Ends
<1> DEFINE s == Eval(heap, pure, cache, frames, rule)
           fn == Ins.arg
           n == Len(Overload(fn).args)
           k == Len(Top.stack) - n
           args == SubSeq(Top.stack, k + 1, Len(Top.stack))
           types == [i \in 1 .. n |-> args[i].type]
           a == [i \in 1 .. n |-> args[i].v]
           out == Invoke(request, fn, heap, a)
           copy == Copied(request, fn, pure, types, [i \in 1 .. n |-> args[i].w])
           fails == \/ ~Dispatches(fn, types) \/ ~ConvertToNative(fn, types, a)
                    \/ CallFails(request, fn, a)
           value == [type |-> ResultType(request, fn), v |-> out.val, w |-> copy.val]
           x == CallStep(request, s, Top, fn, n, args, types)
<1>1. /\ UNCHANGED <<cache, rule>> /\ phase = "eval" /\ Top.pc <= Len(Top.code) /\ Ins.op = "call"
      /\ IF fails THEN Finish(Error(fn, types, a))
         ELSE /\ heap' = out.heap /\ pure' = copy.heap
              /\ frames' = Advance(Append(SubSeq(Top.stack, 1, k), value))
              /\ UNCHANGED <<phase, result, answers>>
  BY DEF Apply, Running
<1>2. s.heap = heap /\ s.pure = pure /\ s.cache = cache /\ s.frames = frames /\ s.rule = rule
  BY EvalFields
<1>3. x = IF fails THEN Done(Error(fn, types, a))
          ELSE Eval(out.heap, copy.heap, cache, Advance(Append(SubSeq(Top.stack, 1, k), value)), rule)
  <2> HIDE DEF s
  <2>. QED  BY <1>2 DEF CallStep, Onward, Advance, Top
<1>4. Step(policy, request, s) = x
  <2>1. Step(policy, request, s) = ApplyStep(request, s, Top, fn, n)
    <3>1. Top.pc <= Len(Top.code) /\ Ins.op = "call"
      BY <1>1
    <3> HIDE DEF s
    <3>2. Top = Head(s.frames) /\ Ins = Top.code[Top.pc]
      BY <1>2 DEF Top, Ins
    <3>. QED  BY <3>1, <3>2, StepIs
  <2>2. ApplyStep(request, s, Top, fn, n) = x
    BY DEF ApplyStep, ArgsOf
  <2>. QED  BY <2>1, <2>2
<1> HIDE DEF fails, out, copy, value, types, x, fn, args, k, n, a
<1>5. CASE fails
  <2>1. /\ phase' = "idle"
        /\ answers' = Append(answers, Error(fn, types, a))
    BY <1>1, <1>5 DEF Finish
  <2>2. Done(Error(fn, types, a)) = Step(policy, request, s)
    BY <1>3, <1>4, <1>5
  <2>. QED  BY <2>1, <2>2 DEF Ends
<1>6. CASE ~fails
  <2>1. /\ heap' = out.heap /\ pure' = copy.heap
        /\ frames' = Advance(Append(SubSeq(Top.stack, 1, k), value))
        /\ UNCHANGED <<phase, answers, cache, rule>>
    BY <1>1, <1>6
  <2>2. Step(policy, request, s) = Eval(heap', pure', cache', frames', rule')
    BY <1>3, <1>4, <1>6, <2>1
  <2>. QED  BY <1>1, <2>1, <2>2 DEF Goes
<1>. QED  BY <1>5, <1>6

LEMMA VariableEndsGoes == ASSUME IInv, VariableEnds PROVE Goes
<1> DEFINE s == Eval(heap, pure, cache, frames, rule)
           up == frames[2]
<1>1. /\ UNCHANGED <<heap, pure, rule, answers, phase>> /\ phase = "eval" /\ Top.dest = "variable"
      /\ cache' = [cache EXCEPT ![Top.i] = Value]
      /\ frames' = <<After(up, Append(up.stack, Value))>> \o SubSeq(frames, 3, Len(frames))
  BY DEF VariableEnds, Ended
<1>2. s.heap = heap /\ s.pure = pure /\ s.cache = cache /\ s.frames = frames /\ s.rule = rule
  BY EvalFields
<1>3. ~(Top.pc <= Len(Top.code))
  BY EndedTop DEF VariableEnds
<1> HIDE DEF s
<1>4. Step(policy, request, s) = VariableEndStep(s, Top, frames[2])
  BY <1>1, <1>2, <1>3, StepIs DEF Top
<1>5. VariableEndStep(s, Top, frames[2]) = Eval(heap, pure, cache', frames', rule)
  BY <1>1, <1>2 DEF VariableEndStep, Value
<1>. QED  BY <1>1, <1>4, <1>5 DEF Goes, s

LEMMA TestEndsMoves == ASSUME IInv, TestEnds PROVE Goes \/ Ends
<1> DEFINE s == Eval(heap, pure, cache, frames, rule)
           r == policy.rules[rule]
           holds == Equals(Value, r.expect)
           x == TestEndStep(policy, s, Top, r)
<1>1. UNCHANGED <<heap, pure, cache>> /\ phase = "eval" /\ Top.dest = "test"
  BY DEF TestEnds, Ended
<1>2. s.heap = heap /\ s.pure = pure /\ s.cache = cache /\ s.frames = frames /\ s.rule = rule
  BY EvalFields
<1>3. ~(Top.pc <= Len(Top.code))
  BY EndedTop DEF TestEnds
<1>4. Step(policy, request, s) = x
  <2> HIDE DEF s
  <2>. QED  BY <1>1, <1>2, <1>3, StepIs DEF Top
<1>5. x = IF holds THEN Eval(heap, pure, cache, <<Frame(r.response, "response", 0)>>, rule)
          ELSE IF rule < Len(policy.rules)
          THEN Eval(heap, pure, cache, <<Enter(rule + 1)>>, rule + 1)
          ELSE Done(None)
  <2>1. Enter(rule + 1) = First(policy, rule + 1)
    BY DEF Enter, First
  <2> HIDE DEF s
  <2>. QED  BY <1>2, <2>1 DEF TestEndStep, Value
<1>6. CASE holds
  <2>1. frames' = <<Frame(r.response, "response", 0)>> /\ UNCHANGED <<phase, rule, answers>>
    BY <1>6 DEF TestEnds
  <2> HIDE DEF x, r, holds
  <2>2. x = Eval(heap', pure', cache', frames', rule')
    BY <1>1, <1>5, <1>6, <2>1
  <2>. QED  BY <1>1, <1>4, <2>1, <2>2 DEF Goes
<1>7. CASE ~holds /\ rule < Len(policy.rules)
  <2>1. frames' = <<Enter(rule + 1)>> /\ rule' = rule + 1 /\ UNCHANGED <<phase, answers>>
    BY <1>7 DEF TestEnds
  <2> HIDE DEF x, r, holds
  <2>2. x = Eval(heap', pure', cache', frames', rule')
    BY <1>1, <1>5, <1>7, <2>1
  <2>. QED  BY <1>1, <1>4, <2>1, <2>2 DEF Goes
<1>8. CASE ~holds /\ ~(rule < Len(policy.rules))
  <2>1. Finish(None)
    BY <1>8 DEF TestEnds
  <2>2. phase' = "idle" /\ answers' = Append(answers, None)
    BY <2>1 DEF Finish
  <2> HIDE DEF x, r, holds
  <2>3. Done(None) = Step(policy, request, s)
    BY <1>4, <1>5, <1>8
  <2>. QED  BY <2>2, <2>3 DEF Ends
<1>. QED  BY <1>6, <1>7, <1>8

LEMMA ResponseEndsEnds == ASSUME IInv, ResponseEnds PROVE Ends
<1> DEFINE s == Eval(heap, pure, cache, frames, rule)
           tree == ResponseTree(heap, Value.type, Value.v)
           copy == ResponseTree(pure, Value.type, Value.w)
           res == Response(tree, copy)
<1>1. phase = "eval" /\ Top.dest = "response" /\ Finish(res)
  BY DEF ResponseEnds, Ended
<1>2. s.heap = heap /\ s.pure = pure /\ s.cache = cache /\ s.frames = frames /\ s.rule = rule
  BY EvalFields
<1>3. ~(Top.pc <= Len(Top.code))
  BY EndedTop DEF ResponseEnds
<1>4. phase' = "idle" /\ answers' = Append(answers, res)
  <2> HIDE DEF res
  <2>. QED  BY <1>1 DEF Finish
<1>5. Step(policy, request, s) = ResponseEndStep(s, Top.stack[1])
  <2>1. Top.dest = "response"
    BY <1>1
  <2> HIDE DEF s
  <2>2. Top = Head(s.frames)
    BY <1>2 DEF Top
  <2>. QED  BY <1>3, <2>1, <2>2, StepIs
<1>6. ResponseEndStep(s, Top.stack[1]) = Done(res)
  <2> HIDE DEF s
  <2>. QED  BY <1>2 DEF ResponseEndStep, Value
<1> HIDE DEF res
<1>. QED  BY <1>4, <1>5, <1>6 DEF Ends

LEMMA ReceiveRepeats == ASSUME RepeatInv, Receive PROVE RepeatInv'
<1>1. /\ UNCHANGED <<policy, request, answers>> /\ rule' = 1 /\ frames' = <<Enter(1)>>
      /\ cache' = SetupVariables
      /\ (\A i \in DOMAIN cache' : cache'[i].type = "unset") => heap' = <<>> /\ pure' = <<>>
  BY DEF Receive
<1>2. cache' = [i \in 1 .. Len(policy.variables) |-> Unset]
  BY <1>1 DEF SetupVariables
<1>3. heap' = <<>> /\ pure' = <<>>
  <2>1. \A i \in DOMAIN cache' : cache'[i].type = "unset"
    BY <1>2 DEF Unset
  <2>. QED  BY <1>1, <2>1
<1>4. Enter(1) = First(policy, 1)
  BY DEF Enter, First
<1>5. Eval(heap', pure', cache', frames', rule') = Begin(policy)
  BY <1>1, <1>2, <1>3, <1>4 DEF Begin
<1>6. Reached(policy', request', Eval(heap', pure', cache', frames', rule'))
  <2>1. policy' = policy /\ request' = request
    BY <1>1
  <2>. QED  BY <1>5, <2>1, BeginReached
<1>7. answers' = answers /\ policy' = policy /\ request' = request
  BY <1>1
<1>8. \A i \in 1 .. Len(answers') : Reached(policy', request', Done(answers'[i]))
  BY <1>7 DEF RepeatInv
<1>. QED  BY <1>6, <1>7, <1>8 DEF RepeatInv

\* A step that leaves the evaluation and its answers alone.
LEMMA RestRepeats ==
  ASSUME RepeatInv, UNCHANGED <<policy, request, heap, pure, cache, frames, rule, answers>>,
         phase' = "eval" => phase = "eval"
  PROVE  RepeatInv'
<1>1. /\ policy' = policy /\ request' = request /\ answers' = answers /\ heap' = heap
      /\ pure' = pure /\ cache' = cache /\ frames' = frames /\ rule' = rule
  OBVIOUS
<1>2. \A i \in 1 .. Len(answers') : Reached(policy', request', Done(answers'[i]))
  BY <1>1 DEF RepeatInv
<1>3. phase' = "eval" => Reached(policy', request', Eval(heap', pure', cache', frames', rule'))
  BY <1>1 DEF RepeatInv
<1>. QED  BY <1>1, <1>2, <1>3 DEF RepeatInv

LEMMA NextRepeats == IInv /\ RepeatInv /\ [Next]_vars => RepeatInv'
<1> SUFFICES ASSUME IInv, RepeatInv, [Next]_vars PROVE RepeatInv'
  OBVIOUS
<1>1. CASE UNCHANGED vars
  BY <1>1, RestRepeats DEF vars
<1>2. CASE Compile
  <2>1. UNCHANGED <<policy, request, heap, pure, cache, frames, rule, answers>> /\ phase' # "eval"
    BY <1>2 DEF Compile
  <2>. QED  BY <2>1, RestRepeats
<1>3. CASE Receive
  BY <1>3, ReceiveRepeats
<1>4. CASE Literal
  BY <1>4, LiteralGoes, MoveRepeats DEF Literal, Running
<1>5. CASE Variable
  BY <1>5, VariableGoes, MoveRepeats DEF Variable, Running
<1>6. CASE Apply
  <2>1. phase = "eval" /\ UNCHANGED <<policy, request>>
    BY <1>6 DEF Apply, Running
  <2>. QED  BY <1>6, <2>1, ApplyMoves, MoveRepeats
<1>7. CASE VariableEnds
  BY <1>7, VariableEndsGoes, MoveRepeats DEF VariableEnds, Ended
<1>8. CASE TestEnds
  <2>1. phase = "eval" /\ UNCHANGED <<policy, request>>
    BY <1>8 DEF TestEnds, Ended
  <2>. QED  BY <1>8, <2>1, TestEndsMoves, MoveRepeats
<1>9. CASE ResponseEnds
  <2>1. phase = "eval" /\ UNCHANGED <<policy, request>>
    BY <1>9 DEF ResponseEnds, Ended
  <2>. QED  BY <1>9, <2>1, ResponseEndsEnds, MoveRepeats
<1>. QED
  BY <1>1, <1>2, <1>3, <1>4, <1>5, <1>6, <1>7, <1>8, <1>9 DEF Next

LEMMA InitRepeats == Init => RepeatInv
<1> SUFFICES ASSUME Init PROVE RepeatInv
  OBVIOUS
<1>1. answers = <<>> /\ phase = "compile"
  BY DEF Init
<1>2. answers \in Seq(ToSet(answers)) /\ Len(answers) = 0
  BY <1>1
<1>. QED  BY <1>1, <1>2 DEF RepeatInv

-----------------------------------------------------------------------------
(* The theorems                                                            *)

\* For any policies and requests, a policy that compiles fails only for what the
\* request brings with it, or by one of the exceptions that FailsOnlyForTheRequest
\* names: every call that the evaluator makes has the arguments that the checker
\* (NewEnv, the overloads of the libraries, the types of the variables) found for
\* it, and where the checker has only dyn, a value from JSON of any type.
THEOREM FailuresAreTheRequests == Spec => []FailsOnlyForTheRequest
<1>1. IInv => FailsOnlyForTheRequest
  BY DEF IInv
<1>. QED  BY <1>1, InitIInv, NextIInv, PTL DEF Spec

\* For any policies and requests, and however many requests there are: the same
\* request gets the same answer, since an evaluation starts with fresh variables and
\* an empty heap, and every step of it is determined by the one before.
THEOREM AnswersRepeat == Spec => []EvaluationIsRepeatable
<1>1. RepeatInv => EvaluationIsRepeatable
  <2> SUFFICES ASSUME RepeatInv, NEW i \in DOMAIN answers, NEW j \in DOMAIN answers
               PROVE  answers[i] = answers[j]
    BY DEF EvaluationIsRepeatable
  <2>1. answers \in Seq(ToSet(answers))
    BY DEF RepeatInv
  <2>2. i \in 1 .. Len(answers) /\ j \in 1 .. Len(answers)
    BY <2>1
  <2>3. Reached(policy, request, Done(answers[i])) /\ Reached(policy, request, Done(answers[j]))
    BY <2>2 DEF RepeatInv
  <2>. QED  BY <2>3, EndsAgree
<1>2. Init => IInv /\ RepeatInv
  BY InitIInv, InitRepeats
<1>3. IInv /\ RepeatInv /\ [Next]_vars => IInv' /\ RepeatInv'
  BY NextIInv, NextRepeats
<1>. QED  BY <1>1, <1>2, <1>3, PTL DEF Spec
=============================================================================
