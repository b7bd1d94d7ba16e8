----------------------------- MODULE MCPipelines -----------------------------
(* Three datasets, the last of which shares field names with the others.   *)
EXTENDS Pipelines

F(name) == [name |-> <<name>>, key |-> name \in {"a", "b"}, datetime |-> name \in {"t", "s"},
            timestamp |-> FALSE]
MCDatasets == <<[fields |-> <<F("a"), F("x"), F("t")>>, tags |-> {"default"}],
                [fields |-> <<F("b"), F("y"), F("s")>>, tags |-> {"mock", "kafka"}],
                [fields |-> <<F("b"), F("x"), F("t")>>, tags |-> {"default"}]>>
MCSourceTags == 2 :> "mock"

Value(n) == [time |-> FALSE, n |-> n]
Dict(k, v, t, names) == <<<<<<names[1]>>, Value(k)>>, <<<<names[2]>>, Value(v)>>,
                          <<<<names[3]>>, [time |-> TRUE, n |-> t]>>>>
MCItems == <<<<Dict(1, 5, 3, <<"a", "x", "t">>), Dict(1, 7, 1, <<"a", "x", "t">>)>>,
             <<Dict(1, 6, 2, <<"b", "y", "s">>), Dict(1, 8, 4, <<"b", "y", "s">>)>>,
             <<Dict(1, 2, 2, <<"b", "x", "t">>), Dict(2, 1, 5, <<"b", "x", "t">>)>>>>

Agg(name, type, length) == [name |-> <<name>>, agg_type |-> type, on |-> <<"x">>, length |-> length]
MCAggregates == <<Agg("count", "count", 2), Agg("avg", "avg", 1), Agg("max", "max", 2),
                  Agg("min", "min", 2), Agg("sum", "sum", 0)>>

MCTargets == {[keys |-> {<<"a">>}, values |-> {MCAggregates[i].name : i \in DOMAIN MCAggregates},
               timestamp |-> <<"t">>]}
MCMaxNodes == <<3, 1>>
MCKeyFields == {<<"a">>, <<"b">>}
MCStorages == {{"hot"}}

(* A reduction by key after a flat_map or a map; its source has a sink of  *)
(* its own, or not.                                                        *)
MCStreamPrograms ==
    {<<Stream("source", <<>>, 1), Stream(kind, <<1>>, None), Stream("key_by", <<2>>, <<"a">>),
       Stream("reduce", <<3>>, None), Stream("sink", <<4>>, "print")>> \o more :
       kind \in {"flat_map", "map"}, more \in {<<>>, <<Stream("sink", <<1>>, "print")>>}}

Bumped(d) == [i \in DOMAIN d |-> IF d[i][1] = <<"x">> THEN <<d[i][1], Value(d[i][2].n + 1)>> ELSE d[i]]
MCMapFunc(d) == Bumped(d)
MCFlatMapFunc(d) == <<d, Bumped(d)>>
MCFilterFunc(d) == <<"x">> \in Fields(d) => Field(d, <<"x">>).n # 7
MCReduceFunc(old, new) == [old EXCEPT ![2][2].n = 10 * @ + new[2][2].n]

==============================================================================
