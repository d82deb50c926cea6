---------------------------- MODULE MCRespReader ----------------------------
(* Streams for RespReader: values with their encoding, and the reply that   *)
(* stands for each, written from the protocol and not from the reader.      *)
EXTENDS RespReaderProperties, SequencesExt

Byte(type) == [u |-> "type", type |-> type, ok |-> TRUE, n |-> 0]
Line(n) == [u |-> "line", type |-> "none", ok |-> TRUE, n |-> n]
Body == [u |-> "body", type |-> "none", ok |-> TRUE, n |-> 0]
Broken(unit) == [unit EXCEPT !.ok = FALSE]

Leaf(units, type, n) == [units |-> units, type |-> type, n |-> n, bad |-> FALSE, kids |-> <<>>]
Bad(units) == [units |-> units, type |-> "none", n |-> 0, bad |-> TRUE, kids |-> <<>>]
Aggregate(type, kids) ==
    [units |-> <<Byte(type),
                 Line(IF type \in PairTypes THEN Len(kids) \div 2 ELSE Len(kids))>>,
     type |-> type, n |-> Len(kids), bad |-> FALSE, kids |-> kids]

Num == Leaf(<<Byte("integer"), Line(7)>>, "integer", 7)
Str == Leaf(<<Byte("string"), Line(3), Body>>, "string", 3)
EmptyStr == Leaf(<<Byte("verb"), Line(0), Body>>, "verb", 0)
NilStr == Leaf(<<Byte("string"), Line(-1)>>, "nil", 0)
NilArray == Leaf(<<Byte("array"), Line(-1)>>, "nil", 0)

BadLeaves == {Bad(<<Byte("other")>>), Bad(<<Byte("bool"), Broken(Line(0))>>),
              Bad(<<Byte("string"), Line(-2)>>), Bad(<<Byte("push"), Line(9)>>),
              Bad(<<Byte("verb"), Line(3), Broken(Body)>>)}

RECURSIVE Encode(_), IsBad(_), NodesOf(_, _), BadPaths(_, _)
Encode(value) == value.units \o FlattenSeq([i \in DOMAIN value.kids |-> Encode(value.kids[i])])
IsBad(value) == value.bad \/ \E i \in DOMAIN value.kids : IsBad(value.kids[i])
NodesOf(value, path) ==
    {[path |-> path, node |-> [type |-> value.type, n |-> value.n]]} \cup
        UNION {NodesOf(value.kids[i], Append(path, i - 1)) : i \in DOMAIN value.kids}
Reply(value) ==
    LET nodes == NodesOf(value, <<>>)
    IN  [path \in {x.path : x \in nodes} |-> (CHOOSE x \in nodes : x.path = path).node]

(* The first value that breaks the protocol, and where it does.             *)
BadPaths(value, path) ==
    (IF value.bad THEN {path} ELSE {}) \cup
        UNION {BadPaths(value.kids[i], Append(path, i - 1)) : i \in DOMAIN value.kids}
Breaks(values) ==
    LET value == SelectSeq(values, IsBad)[1]
    IN  IF SelectSeq(values, IsBad) = <<>> THEN [reply |-> <<>>, at |-> <<>>]
        ELSE [reply |-> Reply(value), at |-> CHOOSE path \in BadPaths(value, <<>>) : TRUE]

StreamOf(values) ==
    LET good == SelectSeq(values, LAMBDA value : ~IsBad(value))
    IN  [units |-> FlattenSeq([i \in DOMAIN values |-> Encode(values[i])]),
         replies |-> [i \in DOMAIN good |-> Reply(good[i])],
         ends |-> [i \in DOMAIN good |->
                      Len(FlattenSeq([j \in 1..i |-> Encode(good[j])]))],
         bad |-> Len(good) < Len(values),
         broken |-> Breaks(values)]

(* Two elements of any kind in any aggregate, and one of those in another.  *)
Leaves == {Num, Str, NilStr, NilArray, Aggregate("array", <<>>)}
Flat == {Aggregate(type, <<x, y>>) : type \in {"map", "push"}, x \in Leaves, y \in Leaves}
Nested == {Aggregate(type, <<x, y>>) : type \in {"array", "attr"},
                x \in {Str, Aggregate("set", <<Num>>), Aggregate("map", <<NilArray, EmptyStr>>)},
                y \in {Num, Aggregate("array", <<NilStr>>), Aggregate("map", <<>>)}}
Deep == {Aggregate("array", <<Aggregate("array", <<Aggregate("array", <<x, Num>>)>>), Str>>) :
            x \in {NilArray, Aggregate("array", <<Aggregate("array", <<Num>>)>>)}}
WithBad == {Aggregate("array", <<Num, x>>) : x \in BadLeaves} \cup BadLeaves

SomeStreams ==
    {StreamOf(<<x, Num>>) : x \in Flat \cup Nested \cup Deep} \cup
    {StreamOf(<<Str, x>>) : x \in WithBad} \cup
    {StreamOf(<<Num, Num, NilStr, Num>>)}
=============================================================================
