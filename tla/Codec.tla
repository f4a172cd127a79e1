-------------------------------- MODULE Codec --------------------------------
(***************************************************************************)
(* The binary codings of walleve: CWalleveStream with CVarInt lengths,     *)
(* CWalleveODataStream and CWalleveIDataStream with lengths of 4 bytes,    *)
(* and the compact coding of tagged values.  Bytes are little-endian, as   *)
(* the code takes them from memory.  What is coded is a value with its     *)
(* type: a fundamental type of n bytes, a string, a vector, a pair or a    *)
(* map of such.  And the way of a script's arguments to the server: the    *)
(* checks of rpc.lua, and tables as JSON and back (luajson.cpp).           *)
(***************************************************************************)
EXTENDS Integers, Sequences, SequencesExt, FiniteSets

Fund(n) == [kind |-> "fundamental", size |-> n]
Str == [kind |-> "string"]
Vec(t) == [kind |-> "vector", of |-> t]
Pair(t, u) == [kind |-> "pair", first |-> t, second |-> u]
Map(t, u) == [kind |-> "map", first |-> t, second |-> u]

Zeros(n) == [i \in 1..n |-> 0]

\* The first n bytes of an integer.
LowBytes(x, n) == [i \in 1..n |-> IF i > 4 THEN 0 ELSE (x \div (256 ^ (i - 1))) % 256]
Value(b) == FoldRight(LAMBDA d, acc : 256 * acc + d, SubSeq(b, 1, IF Len(b) > 3 THEN 3 ELSE Len(b)), 0)

\* A loaded value and the bytes behind it.
Loaded(v, s) == [value |-> v, rest |-> s]
Take(s, n) == Loaded(SubSeq(s, 1, n), SubSeq(s, n + 1, Len(s)))
------------------------------------------------------------------------------
\* CVarInt, of the 8 bytes of nValue: which of the four forms it takes.
Fits(b, n) == \A i \in (n + 1)..8 : b[i] = 0
VarIntWidth(b) == IF Fits(b, 1) /\ b[1] < 253 THEN 1
                  ELSE IF Fits(b, 2) THEN 2 ELSE IF Fits(b, 4) THEN 4 ELSE 8

SaveVarInt(b) ==
    LET n == VarIntWidth(b)
    IN  IF n = 1 THEN <<b[1]>>
        ELSE <<CASE n = 2 -> 253 [] n = 4 -> 254 [] n = 8 -> 255>> \o SubSeq(b, 1, n)

\* The low bytes of nValue are overwritten, the others are zero already.
LoadVarInt(s) ==
    IF s[1] < 253 THEN Loaded(<<s[1]>> \o Zeros(7), Tail(s))
    ELSE LET n == 2 ^ (s[1] - 252)
         IN  Loaded(SubSeq(s, 2, n + 1) \o Zeros(8 - n), SubSeq(s, n + 2, Len(s)))

\* Mutant of SizeVarInt: every value of one byte counts as one byte.
SizeVarIntByByte(b) == IF Fits(b, 1) THEN 1 ELSE VarIntWidth(b) + 1

SizeVarInt(b) == LET n == VarIntWidth(b) IN IF n = 1 THEN 1 ELSE n + 1

\* Lengths: by CVarInt in a stream, in 4 bytes in a data stream.
SaveLength(coding, n) == IF coding = "stream" THEN SaveVarInt(LowBytes(n, 8)) ELSE LowBytes(n, 4)
LoadLength(coding, s) ==
    LET l == IF coding = "stream" THEN LoadVarInt(s) ELSE Take(s, 4)
    IN  Loaded(Value(l.value), l.rest)

\* operator<<.  A map is written in the order of its keys; data streams only.
RECURSIVE Save(_, _, _)
Save(coding, t, v) ==
    CASE t.kind = "fundamental" -> v
      [] t.kind = "string" -> SaveLength(coding, Len(v)) \o v
      [] t.kind = "pair" -> Save(coding, t.first, v[1]) \o Save(coding, t.second, v[2])
      [] t.kind = "vector" ->
            SaveLength(coding, Len(v)) \o FlattenSeq([i \in DOMAIN v |-> Save(coding, t.of, v[i])])
      [] t.kind = "map" ->
            SaveLength(coding, Len(v)) \o
            FlattenSeq([i \in DOMAIN v |-> Save(coding, t.first, v[i][1]) \o Save(coding, t.second, v[i][2])])

\* operator>>, and n values of one type one after the other.
RECURSIVE Load(_, _, _), LoadMany(_, _, _, _)
LoadMany(coding, t, n, s) ==
    IF n = 0 THEN Loaded(<<>>, s)
    ELSE LET one == Load(coding, t, s)
             others == LoadMany(coding, t, n - 1, one.rest)
         IN  Loaded(<<one.value>> \o others.value, others.rest)
Load(coding, t, s) ==
    CASE t.kind = "fundamental" -> Take(s, t.size)
      [] t.kind = "string" -> LET l == LoadLength(coding, s) IN Take(l.rest, l.value)
      [] t.kind = "pair" -> LET a == Load(coding, t.first, s)
                                b == Load(coding, t.second, a.rest)
                            IN  Loaded(<<a.value, b.value>>, b.rest)
      [] t.kind = "vector" -> LET l == LoadLength(coding, s) IN LoadMany(coding, t.of, l.value, l.rest)
      [] t.kind = "map" -> LET l == LoadLength(coding, s)
                           IN  LoadMany(coding, Pair(t.first, t.second), l.value, l.rest)

\* GetSerializeSize, which counts without writing; streams only.
RECURSIVE SerializeSize(_, _)
SerializeSize(t, v) ==
    CASE t.kind = "fundamental" -> t.size
      [] t.kind = "string" -> SizeVarInt(LowBytes(Len(v), 8)) + Len(v)
      [] t.kind = "pair" -> SerializeSize(t.first, v[1]) + SerializeSize(t.second, v[2])
      [] t.kind = "vector" -> SizeVarInt(LowBytes(Len(v), 8)) +
            FoldLeft(LAMBDA acc, x : acc + SerializeSize(t.of, x), 0, v)
------------------------------------------------------------------------------
\* CWalleveCompactTagValue: types in the high three bits of the tag byte, in this order.
CompactTypes == <<"false", "true", "int8", "int16", "int32", "int64", "int256", "binary">>
TypeBits(type) == 32 * ((CHOOSE i \in 1..8 : CompactTypes[i] = type) - 1)
Width(type) == CASE type = "int8" -> 1 [] type = "int16" -> 2 [] type = "int32" -> 4
                 [] type = "int64" -> 8 [] type = "int256" -> 32 [] OTHER -> 0

\* Push: a tag has 5 bits and is pushed once, a binary has at most 255 bytes.
MayPush(m, tag, type, b) == tag <= 31 /\ tag \notin DOMAIN m /\ (type = "binary" => Len(b) <= 255)

Sorted(S) == SetToSortSeq(S, LAMBDA a, b : a < b)

\* Encode, of a map from tags to [type, bytes]; an integer is kept in 64 bits and cut again.
Encode(m) ==
    FlattenSeq([i \in 1..Cardinality(DOMAIN m) |->
        LET tag == Sorted(DOMAIN m)[i]
            e == m[tag]
        IN  <<tag + TypeBits(e.type)>> \o
            (IF e.type = "binary" THEN <<Len(e.bytes)>> \o e.bytes
             ELSE SubSeq(e.bytes, 1, Width(e.type)))])

\* Decode.
RECURSIVE Decode(_)
Decode(s) ==
    IF s = <<>> THEN << >>
    ELSE LET tag == s[1] % 32
             type == CompactTypes[s[1] \div 32 + 1]
             b == IF type = "binary" THEN Take(SubSeq(s, 3, Len(s)), s[2]) ELSE Take(Tail(s), Width(type))
             value == IF type \in {"binary", "int256"} THEN b.value
                      ELSE b.value \o Zeros(8 - Len(b.value))
             others == Decode(b.rest)
         IN  [x \in {tag} \cup DOMAIN others |->
                 IF x = tag THEN [type |-> type, bytes |-> value] ELSE others[x]]

\* Get of the type that was pushed.
Got(m, tag) == IF m[tag].type \in {"binary", "int256"} THEN m[tag].bytes
               ELSE SubSeq(m[tag].bytes, 1, Width(m[tag].type))
------------------------------------------------------------------------------
\* Values of Lua and of JSON.  A string is a sequence of characters, an integer its 8 bytes, a
\* table the sequence of its pairs of key and value in the order of lua_next; keys are strings
\* and integers.
Lua(type, x) == [lua |-> type, is |-> x]
Nil == Lua("nil", <<>>)
Json(type, x) == [json |-> type, is |-> x]
Refused == Json("refused", <<>>)

\* A string that passes through a char pointer ends at its first NUL.
CString(s) == LET i == SelectInSeq(s, LAMBDA c : c = "NUL") IN IF i = 0 THEN s ELSE SubSeq(s, 1, i - 1)

\* An entry of an object, an element of an array: other types than these refuse the whole.
RECURSIVE L_JsonEncode(_), EncodeValue(_)
EncodeValue(v) ==
    CASE v.lua = "table" -> L_JsonEncode(v.is)
      [] v.lua = "string" -> Json("str", CString(v.is))
      [] v.lua = "integer" -> Json("int", v.is)
      [] v.lua = "float" -> Json("real", v.is)
      [] v.lua = "boolean" -> Json("bool", v.is)
      [] OTHER -> Refused

\* The first key decides between array and object, and every other key must agree with it.
L_JsonEncode(entries) ==
    LET IsArray == entries # <<>> /\ entries[1][1].lua = "integer"
        values == [i \in DOMAIN entries |-> EncodeValue(entries[i][2])]
    IN  IF \E i \in DOMAIN entries : (entries[i][1].lua = "integer") # IsArray \/ values[i].json = "refused"
        THEN Refused
        ELSE IF IsArray THEN Json("array", values)
        ELSE Json("obj", [i \in DOMAIN entries |-> <<CString(entries[i][1].is), values[i]>>])

\* lua_settable: nil removes the key.
SetTable(entries, k, v) ==
    LET others == SelectSeq(entries, LAMBDA e : e[1] # k)
    IN  IF v.lua = "nil" THEN others ELSE Append(others, <<k, v>>)

\* get_int keeps 4 bytes of an integer, with their sign.
Int32(b) == [i \in 1..8 |-> IF i <= 4 THEN b[i] ELSE IF b[4] >= 128 THEN 255 ELSE 0]

RECURSIVE L_JsonDecode(_)
L_JsonDecode(v) ==
    CASE v.json = "obj" ->
            Lua("table", FoldLeft(LAMBDA t, p : SetTable(t, Lua("string", CString(p[1])), L_JsonDecode(p[2])),
                                  <<>>, v.is))
      [] v.json = "array" ->
            Lua("table", FoldLeftDomain(LAMBDA t, i : SetTable(t, Lua("integer", LowBytes(i, 8)), L_JsonDecode(v.is[i])),
                                        <<>>, v.is))
      [] v.json = "str" -> Lua("string", CString(v.is))
      [] v.json = "bool" -> Lua("boolean", v.is)
      [] v.json = "int" -> Lua("integer", Int32(v.is))
      [] v.json = "real" -> Lua("float", v.is)
      [] v.json = "null" -> Nil
------------------------------------------------------------------------------
\* rpc.lua: the parameters of the methods.  A parameter must have its type, may be nil or false
\* instead, is left out unless it has its type, or is false by default.
Must(name, type) == [name |-> name, rule |-> "must", type |-> type]
May(name, type) == [name |-> name, rule |-> "may", type |-> type]
If(name, type) == [name |-> name, rule |-> "if", type |-> type]
Default(name) == [name |-> name, rule |-> "default", type |-> "boolean"]
MustAll(names) == [i \in DOMAIN names |-> Must(names[i], "string")]

SystemMethods ==
    [m \in {"stop", "version", "getpeercount", "listpeer"} |-> <<>>] @@
    [help |-> <<If("command", "string")>>, addnode |-> MustAll(<<"node">>), removenode |-> MustAll(<<"node">>)]

WorldlineMethods ==
    [m \in {"getforkcount", "listfork"} |-> <<>>] @@
    [m \in {"getgenealogy", "getforkheight", "getblockcount"} |-> <<If("fork", "string")>>] @@
    [m \in {"getblocklocation", "getblock"} |-> MustAll(<<"block">>)] @@
    [getblockhash |-> <<Must("height", "number"), If("fork", "string")>>,
     gettxpool |-> <<If("fork", "string"), Default("detail")>>,
     gettransaction |-> <<Must("txid", "string"), Default("serialized")>>,
     sendtransaction |-> MustAll(<<"txdata">>)]

KeyMethods ==
    [m \in {"listkey", "listaddress"} |-> <<>>] @@
    [getnewkey |-> MustAll(<<"passphrase">>), encryptkey |-> MustAll(<<"pubkey", "passphrase", "oldpassphrase">>),
     lockkey |-> MustAll(<<"pubkey">>), unlockkey |-> MustAll(<<"pubkey", "passphrase">>),
     importprivkey |-> MustAll(<<"privkey", "passphrase">>), validateaddress |-> MustAll(<<"address">>),
     resyncwallet |-> <<May("address", "string")>>,
     getbalance |-> <<May("address", "string"), May("fork", "string")>>]

TransactionMethods ==
    [m \in {"sendfrom", "createtransaction"} |->
        <<Must("from", "string"), Must("to", "string"), Must("amount", "number"), May("txfee", "number"),
          May("fork", "string"), May("data", "string")>>] @@
    [listtransaction |-> <<May("count", "number"), May("offset", "number")>>,
     signtransaction |-> MustAll(<<"txdata">>),
     makeorigin |-> MustAll(<<"prev", "owner">>) \o <<Must("amount", "number")>> \o MustAll(<<"name", "symbol">>) \o
                    <<Must("reward", "number"), May("isolated", "boolean"), May("private", "boolean"),
                      May("enclosed", "boolean")>>]

UtilMethods ==
    [makekeypair |-> <<>>, getpubkeyaddress |-> MustAll(<<"pubkey">>), gettemplateaddress |-> MustAll(<<"tid">>),
     decodetransaction |-> MustAll(<<"txdata">>)]

Methods == SystemMethods @@ WorldlineMethods @@ KeyMethods @@ TransactionMethods @@ UtilMethods
TemplateMethods == {"addnewtemplate", "maketemplate"}

TemplateParams ==
    [delegate |-> MustAll(<<"delegate", "owner">>), fork |-> MustAll(<<"redeem", "fork">>),
     mint |-> MustAll(<<"mint", "spent">>)] @@
    [t \in {"multisig", "weighted"} |-> <<Must("required", "number"), Must("pubkeys", "table")>>]
------------------------------------------------------------------------------
TypeOf(v) == IF v.lua \in {"integer", "float"} THEN "number" ELSE v.lua
Falsy(v) == v.lua = "nil" \/ (v.lua = "boolean" /\ ~ v.is)

\* An argument that is missing is nil; one that is not what its parameter takes raises an error.
Argument(args, i) == IF i \in DOMAIN args THEN args[i] ELSE Nil
Takes(p, v) == CASE p.rule = "must" -> TypeOf(v) = p.type
                 [] p.rule = "if" -> TRUE
                 [] p.rule \in {"may", "default"} -> Falsy(v) \/ TypeOf(v) = p.type
Sent(p, v) == CASE p.rule = "if" /\ TypeOf(v) # p.type -> Nil
                [] p.rule = "default" /\ v.lua = "nil" -> Lua("boolean", FALSE)
                [] OTHER -> v

\* { ["name"] = value, ... }: a value that is nil makes no entry.
Constructed(names, values) ==
    Lua("table", FoldLeftDomain(LAMBDA t, i : SetTable(t, Lua("string", <<names[i]>>), values[i]), <<>>, names))

Raised == Lua("error", <<>>)
Parameters(params, args) ==
    IF \E i \in DOMAIN params : ~ Takes(params[i], Argument(args, i)) THEN Raised
    ELSE Constructed([i \in DOMAIN params |-> params[i].name],
                     [i \in DOMAIN params |-> Sent(params[i], Argument(args, i))])

\* The keys of a template: strings by index; or weights by key, which become a list of pairs.
KeysTaken(type, keys) ==
    \A i \in DOMAIN keys : LET k == TypeOf(keys[i][1])
                               v == TypeOf(keys[i][2])
                           IN  CASE type = "multisig" -> k = "number" /\ v = "string"
                                 [] type = "weighted" -> k = "string" /\ v = "number"
                                 [] OTHER -> TRUE
Weighted(keys) ==
    Lua("table", [i \in DOMAIN keys |-> <<Lua("integer", LowBytes(i, 8)), Constructed(<<"key", "weight">>, keys[i])>>])

TemplateParam(type, args) ==
    LET keys == Argument(args, 2)
        given == [i \in 1..2 |-> IF i = 2 /\ type = "weighted" /\ keys.lua = "table" THEN Weighted(keys.is)
                                 ELSE Argument(args, i)]
        inner == Parameters(TemplateParams[type], given)
    IN  IF inner = Raised \/ (keys.lua = "table" /\ ~ KeysTaken(type, keys.is)) THEN Raised
        ELSE Constructed(<<"type", type>>, <<Lua("string", <<type>>), inner>>)

\* What a method passes to rpccall; which host and port is left out.
CallHost(method, args) ==
    IF method \notin TemplateMethods THEN Parameters(Methods[method], args)
    ELSE LET type == Argument(args, 1)
         IN  IF type.lua # "string" \/ type.is \notin {<<t>> : t \in DOMAIN TemplateParams} THEN Raised
             ELSE TemplateParam(type.is[1], SubSeq(args, 2, Len(args)))

\* L_RPCCall: "invalid parameter" unless the second argument is a table that is encoded as an object.
Accepted(param) == param.lua = "table" /\ L_JsonEncode(param.is).json = "obj"
------------------------------------------------------------------------------
VARIABLE input   \* what is coded: a coding, with a type and a value or with a map

\* Loading reads back what was saved, all of it and nothing else, and the size that was
\* announced is the size that was written (stream.cpp:37).
StreamInverts(c, t, v) ==
    LET s == Save(c, t, v)
    IN  /\ Load(c, t, s \o <<7>>) = Loaded(v, <<7>>)
        /\ c = "stream" => SerializeSize(t, v) = Len(s)

VarIntInverts(b) == /\ LoadVarInt(SaveVarInt(b) \o <<7>>) = Loaded(b, <<7>>)
                    /\ SizeVarInt(b) = Len(SaveVarInt(b))

\* Decoding gives each tag its type and the value that was pushed, however many follow it.
CompactInverts(m) ==
    LET d == Decode(Encode(m))
    IN  DOMAIN d = DOMAIN m /\ \A tag \in DOMAIN m : d[tag].type = m[tag].type /\ Got(d, tag) = Got(m, tag)

\* A value can be sent unless a table in it has keys of both kinds or a value of another type.
RECURSIVE Sendable(_)
Sendable(v) ==
    CASE v.lua = "table" ->
            /\ Cardinality({v.is[i][1].lua : i \in DOMAIN v.is}) <= 1
            /\ \A i \in DOMAIN v.is : Sendable(v.is[i][2])
      [] OTHER -> v.lua \notin {"nil", "function"}

\* What comes back of it: strings without what follows a NUL, integers of 32 bits, the values
\* with integer keys as a list, tables as functions of their keys.
RECURSIVE Returned(_)
Returned(v) ==
    CASE v.lua = "table" ->
            LET IsList == v.is # <<>> /\ v.is[1][1].lua = "integer"
                Key(i) == IF IsList THEN LowBytes(i, 8) ELSE CString(v.is[i][1].is)
            IN  [table |-> [k \in {Key(i) : i \in DOMAIN v.is} |->
                    Returned(v.is[CHOOSE i \in DOMAIN v.is :
                        Key(i) = k /\ \A j \in DOMAIN v.is : Key(j) = k => j <= i][2])]]
      [] v.lua = "string" -> [v EXCEPT !.is = CString(@)]
      [] v.lua = "integer" -> [v EXCEPT !.is = Int32(@)]
      [] OTHER -> v

\* A table is sent exactly if it can be, and a receiver that sends it back returns it.
JsonInverts(v) ==
    /\ Sendable(v) <=> EncodeValue(v).json # "refused"
    /\ Sendable(v) => Returned(L_JsonDecode(EncodeValue(v))) = Returned(v)

\* What a method of rpc.lua lets through, L_RPCCall accepts and sends whole: a script is told of
\* a wrong argument by the method (rpc.lua:10) and never by the call (interactive.cpp:253).
CallsAccepted(method, args) ==
    LET param == CallHost(method, args)
    IN  param # Raised =>
            Accepted(param) /\ Returned(L_JsonDecode(EncodeValue(param))) = Returned(param)

CodingInverts ==
    CASE input.coding \in {"stream", "data"} -> StreamInverts(input.coding, input.type, input.value)
      [] input.coding = "varint" -> VarIntInverts(input.value)
      [] input.coding = "compact" -> CompactInverts(input.value)
      [] input.coding = "json" -> JsonInverts(input.value)
      [] input.coding = "call" -> CallsAccepted(input.method, input.args)
      [] OTHER -> TRUE
==============================================================================
