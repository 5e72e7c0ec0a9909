----------------------------- MODULE SchemaCheck ------------------------------
(* The check of an emitted result against the schema that the issue expects    *)
(* (plan-runtime/schema-validate.ts).                                          *)
(*                                                                             *)
(* A value is a record whose `type` is its JSON type: a "string" has a len, a  *)
(* "number" is counted in halves, a "boolean" has a truth, an "array" its      *)
(* elems and an "object" its fields.  A schema is a record of the keywords it  *)
(* uses; the empty record stands for every schema that says nothing.           *)
EXTENDS Integers, Sequences

(* As MatchesType, for which 1.5 is an integer.                                *)
MatchesTypeLoosely(type, data) ==
  CASE type = "integer" -> data.type = "number"
    [] type \in {"string", "number", "boolean", "array", "object", "null"} ->
         data.type = type
    [] OTHER -> TRUE

MatchesType(type, data) ==
  CASE type = "integer" -> data.type = "number" /\ data.halves % 2 = 0
    [] type \in {"string", "number", "boolean", "array", "object", "null"} ->
         data.type = type
    [] OTHER -> TRUE

(* What may be looked up in a value: an array has the keys "0", "1", ...       *)
Index == <<"0", "1", "2">>

At(data) ==
  CASE data.type = "array" -> [key \in {Index[i] : i \in DOMAIN data.elems} |->
                                 data.elems[CHOOSE i \in DOMAIN data.elems :
                                              Index[i] = key]]
    [] data.type = "object" -> data.fields
    [] OTHER -> <<>>

RECURSIVE DeepEqual(_, _)
DeepEqual(a, b) ==
  IF {a.type, b.type} \subseteq {"array", "object"}
  THEN /\ DOMAIN At(a) = DOMAIN At(b)
       /\ \A key \in DOMAIN At(a) : DeepEqual(At(a)[key], At(b)[key])
  ELSE a.type = b.type /\ a = b

(* Each error tells where it is and which keyword is not met.  A wrong type    *)
(* ends the check of a value, and so does an enumeration, met or not.          *)
RECURSIVE ValidateNode(_, _, _)
ValidateNode(s, data, path) ==
  LET Has(keyword) == keyword \in DOMAIN s
      Unless(met, keyword) ==
        IF met THEN {} ELSE {[path |-> path, keyword |-> keyword]}
      typed == Has("type") => \E t \in s.type : MatchesType(t, data)
      text == data.type = "string"
      number == data.type = "number"
      array == data.type = "array" /\ Has("items")
      object == data.type = "object"
      Below(sub, keys) ==
        UNION {ValidateNode(sub[key], At(data)[key], Append(path, key)) :
                 key \in keys}
  IN  IF ~ typed THEN Unless(FALSE, "type")
      ELSE IF Has("enum")
        THEN Unless(\E v \in s.enum : DeepEqual(v, data), "enum")
      ELSE UNION
        {Unless(text /\ Has("minLength") => data.len >= s.minLength, "minLength"),
         Unless(text /\ Has("maxLength") => data.len <= s.maxLength, "maxLength"),
         Unless(number /\ Has("minimum") => data.halves >= s.minimum, "minimum"),
         Unless(number /\ Has("maximum") => data.halves <= s.maximum, "maximum"),
         Unless(array /\ Has("minItems") => Len(data.elems) >= s.minItems,
                "minItems"),
         Unless(array /\ Has("maxItems") => Len(data.elems) <= s.maxItems,
                "maxItems"),
         IF array
         THEN Below([key \in DOMAIN At(data) |-> s.items], DOMAIN At(data))
         ELSE {},
         Unless(object /\ Has("required") => s.required \subseteq DOMAIN data.fields,
                "required"),
         IF object /\ Has("properties")
         THEN Below(s.properties, DOMAIN s.properties \cap DOMAIN data.fields)
         ELSE {},
         Unless(object /\ Has("closed") /\ Has("properties")
                  => DOMAIN data.fields \subseteq DOMAIN s.properties,
                "closed")}

ValidateSchema(schema, data) == ValidateNode(schema, data, <<>>)
===============================================================================
