-------------------------- MODULE MC_SchemaDerive --------------------------
(* Structs of at most two fields, over the field types and attributes that *)
(* reach every branch of extract_struct_info.                              *)
EXTENDS SchemaDerive

KV == <<"K", "V">>
Seg(id, args) == [ident |-> id, angle |-> args # <<>>, args |-> args]
MCTypeShapes ==
    { [path |-> TRUE, segs |-> <<Seg("DBMap", KV)>>],           \* DBMap<K, V>
      [path |-> TRUE, segs |-> <<Seg("Store", KV)>>],           \* Store<K, V>
      [path |-> TRUE, segs |-> <<Seg("DBMap", <<>>)>>],       \* DBMap
      [path |-> TRUE, segs |-> <<Seg("Vec", <<"u8">>)>>],       \* Vec<u8>
      [path |-> TRUE, segs |-> <<Seg("rocks", <<>>), Seg("DBMap", KV)>>],
      [path |-> FALSE] }                                        \* &'a str

Attr(name, meta, lit, v) == [name |-> name, meta |-> meta, lit |-> lit, value |-> v]
Fn1 == Attr("default_options_override_fn", "name_value", "str", "custom_fn_1")
Fn2 == Attr("default_options_override_fn", "name_value", "str", "custom_fn_2")
BadLit == Attr("default_options_override_fn", "name_value", "int", "1")
Doc == Attr("doc", "name_value", "str", "comment")
MCAttrLists == {<<>>, <<Fn1>>, <<BadLit>>, <<Fn1, Fn2>>, <<Doc, Fn2>>}

MCGenericLists == {<<>>, <<"type">>, <<"lifetime">>}
=============================================================================
