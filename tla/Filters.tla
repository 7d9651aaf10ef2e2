-------------------------------- MODULE Filters --------------------------------
(***************************************************************************)
(* pkg/filter: the parsers of the eight --filter flags and the predicates  *)
(* they make.                                                              *)
(*                                                                         *)
(* A text is a sequence of chunks: each operator character is a chunk, and *)
(* between them a chunk is any run of others.  What Go's libraries make of *)
(* a chunk is given by the constants; a regular expression is a literal    *)
(* text that may have the chunks "^" first, "$" last and ".*" once.        *)
(***************************************************************************)
EXTENDS Integers, Sequences, SequencesExt, TLC

CONSTANTS
  Numbers,     \* chunk -> [value, shows]: ParseFloat, in thousandths, and what
               \* "%v" prints of it
  Booleans,    \* chunk -> what "%v" prints of ParseBool of it
  Lower,       \* chunk -> strings.ToLower, where that is another chunk
  Dates        \* chunk -> the instant, in half days

ASSUME FiltersAssumption ==
  /\ \A n \in DOMAIN Numbers : Numbers[n].value \in Int
  /\ \A d \in DOMAIN Dates : Dates[d] \in Int

Error   == [flag |-> "error"]
Nil     == [type |-> "nil"]
NoLimit == [set |-> FALSE, at |-> 0]
Limit(n) == [set |-> TRUE, at |-> n]

-----------------------------------------------------------------------------
(* strings                                                                 *)

Occurs(sub, s)   == sub \in SubSeqs(s)
Before(s, sep)   == SubSeq(s, 1, IndexFirstSubSeq(sep, s) - 1)
After(s, sep)    == SubSeq(s, IndexFirstSubSeq(sep, s) + Len(sep), Len(s))
\* Split gives two parts.
InTwo(s, sep)    == Occurs(sep, s) /\ ~Occurs(sep, After(s, sep))
TrimSuffix(s, t) == IF IsSuffix(t, s) THEN SubSeq(s, 1, Len(s) - Len(t)) ELSE s
TrimPrefix(s, t) == IF IsPrefix(t, s) THEN SubSeq(s, Len(t) + 1, Len(s)) ELSE s
ToLower(s) == [i \in DOMAIN s |-> IF s[i] \in DOMAIN Lower THEN Lower[s[i]] ELSE s[i]]
Single(s, S) == Len(s) = 1 /\ s[1] \in S

\* Split: what is between one separator, or end, and the next.
Segments(s, sep) ==
  LET cuts == {0, Len(s) + 1} \cup {n \in DOMAIN s : s[n] = sep} IN
  {SubSeq(s, c[1] + 1, c[2] - 1) : c \in
     {d \in cuts \X cuts : d[1] < d[2] /\ \A n \in cuts : n <= d[1] \/ n >= d[2]}}
Space == " "
TrimSpace(s) ==
  LET others == {n \in DOMAIN s : s[n] # Space} IN
  IF others = {} THEN <<>> ELSE SubSeq(s, Min(others), Max(others))

\* Every segment is one chunk.
Alternates(s, sep) == Len(s) % 2 = 1 /\ \A n \in DOMAIN s : s[n] = sep <=> n % 2 = 0
Parts(s, sep) == SelectSeq(s, LAMBDA c : c # sep)      \* Split, where they are

\* regexp: "(" alone does not compile.
Compiles(re) == ~Occurs(<<"(">>, re)
MatchString(re, s) ==
  LET body  == TrimPrefix(TrimSuffix(re, <<"$">>), <<"^">>)
      first == IF Occurs(<<".*">>, body) THEN Before(body, <<".*">>) ELSE body
      last  == IF Occurs(<<".*">>, body) THEN After(body, <<".*">>) ELSE <<>>
  IN \E i \in 1..(Len(s) + 1), j \in 0..Len(s) :
       LET m == SubSeq(s, i, j) IN
       /\ IsPrefix(<<"^">>, re) => i = 1
       /\ IsSuffix(<<"$">>, re) => j = Len(s)
       /\ IF Occurs(<<".*">>, body)
          THEN IsPrefix(first, m) /\ IsSuffix(last, m) /\ Len(m) >= Len(first) + Len(last)
          ELSE m = first

-----------------------------------------------------------------------------
(* The parsers: a filter or Error.                                         *)

TagFilter(key, op, value) == [flag |-> "tag", key |-> key, op |-> op, value |-> value]

ParseTagFilter(e) ==
  LET regex == Occurs(<<"=", "/">>, e) /\ IsSuffix(<<"/">>, e)
      Cut(op, sep) == TagFilter(Before(e, sep), op, After(e, sep))
  IN
  CASE e = <<>> -> Error
    [] regex -> [Cut("matches", <<"=", "/">>) EXCEPT !.value = TrimSuffix(@, <<"/">>)]
    [] ~regex /\ Occurs(<<"!", "=">>, e) ->
         IF After(e, <<"!", "=">>) = <<>> THEN Cut("not-exists", <<"!", "=">>) ELSE Error
    [] OTHER -> IF Occurs(<<"~">>, e) THEN Cut("contains", <<"~">>)
                ELSE IF Occurs(<<"=">>, e) THEN Cut("equals", <<"=">>)
                ELSE TagFilter(e, "exists", <<>>)

NewRegexFilter(field, re) ==
  IF Compiles(re) THEN [flag |-> "regex", field |-> field, pattern |-> re] ELSE Error

ParseRegexFilter(e) ==
  IF ~Occurs(<<":">>, e) THEN Error
  ELSE LET p == After(e, <<":">>)
           slashed == IsPrefix(<<"/">>, p) /\ IsSuffix(<<"/">>, p)
       IN  NewRegexFilter(Before(e, <<":">>),
             IF slashed THEN TrimSuffix(TrimPrefix(p, <<"/">>), <<"/">>) ELSE p)

IsDate(s)    == Single(s, DOMAIN Dates)
parseDate(s) == Dates[s[1]]
DateRange(field, from, to) == [flag |-> "date", field |-> field, from |-> from, to |-> to]

\* A range ends with the first instant of its last day, a single date a day later.
ParseDateRangeFilter(e) ==
  LET field == Before(e, <<":">>)
      range == After(e, <<":">>)
      rest  == Tail(range)
      If(s, limits) == IF IsDate(s) THEN limits ELSE Error
  IN
  CASE ~Occurs(<<":">>, e) -> Error
    [] Occurs(<<":">>, e) /\ Occurs(<<"..">>, range) ->
         LET a == Before(range, <<"..">>)
             b == After(range, <<"..">>)
         IN  IF InTwo(range, <<"..">>) /\ IsDate(a) /\ IsDate(b)
             THEN DateRange(field, Limit(parseDate(a)), Limit(parseDate(b))) ELSE Error
    [] OTHER ->
         IF IsPrefix(<<">">>, range)
         THEN If(rest, DateRange(field, Limit(parseDate(rest)), NoLimit))
         ELSE IF IsPrefix(<<"<">>, range)
         THEN If(rest, DateRange(field, NoLimit, Limit(parseDate(rest))))
         ELSE If(range, DateRange(field, Limit(parseDate(range)), Limit(parseDate(range) + 2)))

ParseStateFilter(e) ==
  IF e = <<>> THEN Error
  ELSE [flag |-> "state", states |-> {TrimSpace(p) : p \in Segments(e, ",")}]

PropertyOperators_EqualsFirst ==         \* mutant: "=" is found inside ">="
  <<<<"=">>, <<">", "=">>, <<"<", "=">>, <<"!", "=">>, <<">">>, <<"<">>, <<"~">>,
    <<"^", "=">>, <<"$", "=">>>>
PropertyOperators ==
  <<<<">", "=">>, <<"<", "=">>, <<"!", "=">>, <<"=">>, <<">">>, <<"<">>, <<"~">>,
    <<"^", "=">>, <<"$", "=">>>>

\* A number or a boolean becomes what it denotes, and is printed so.
parseValue(s) ==
  CASE Single(s, DOMAIN Numbers) ->
         [text |-> Numbers[s[1]].shows, number |-> Limit(Numbers[s[1]].value)]
    [] Single(s, DOMAIN Booleans) /\ ~Single(s, DOMAIN Numbers) ->
         [text |-> Booleans[s[1]], number |-> NoLimit]
    [] OTHER -> [text |-> s, number |-> NoLimit]

\* The first operator of the list that occurs anywhere.
ParsePropertyFilter(e) ==
  LET found == {n \in DOMAIN PropertyOperators : Occurs(PropertyOperators[n], e)}
      op    == PropertyOperators[Min(found)]
  IN
  IF found = {} THEN Error
  ELSE [flag |-> "property", path |-> Before(e, op), op |-> op, value |-> parseValue(After(e, op))]

IsNumber(s)   == Single(s, DOMAIN Numbers)
parseFloat(s) == Numbers[s[1]].value
CostRange(min, max) == [flag |-> "cost", min |-> min, max |-> max]
ParseCostFilter(e) ==
  LET a == Before(e, <<"..">>)
      b == After(e, <<"..">>)
      n == Tail(e)
  IN
  IF Occurs(<<"..">>, e)
  THEN IF InTwo(e, <<"..">>) /\ IsNumber(a) /\ IsNumber(b)
       THEN CostRange(Limit(parseFloat(a)), Limit(parseFloat(b))) ELSE Error
  ELSE IF IsPrefix(<<">">>, e) /\ IsNumber(n) THEN CostRange(Limit(parseFloat(n)), NoLimit)
  ELSE IF IsPrefix(<<"<">>, e) /\ IsNumber(n) THEN CostRange(NoLimit, Limit(parseFloat(n)))
  ELSE Error

ParseTypeFilter(types)         == [flag |-> "type", types |-> ToSet(types)]
ParseProviderFilter(providers) == [flag |-> "provider", providers |-> ToSet(providers)]

Parse(flag, e) ==
  CASE flag = "tag"      -> ParseTagFilter(e)
    [] flag = "regex"    -> ParseRegexFilter(e)
    [] flag = "date"     -> ParseDateRangeFilter(e)
    [] flag = "state"    -> ParseStateFilter(e)
    [] flag = "property" -> ParsePropertyFilter(e)
    [] flag = "cost"     -> ParseCostFilter(e)
    [] flag = "type"     -> ParseTypeFilter(e)
    [] flag = "provider" -> ParseProviderFilter(e)

-----------------------------------------------------------------------------
(* The predicates.                                                         *)

\* A pattern that does not compile matches nothing.
ApplyTag(f, res) ==
  LET exists == Single(f.key, DOMAIN res.tags)
      value  == res.tags[f.key[1]]
  IN
  \/ f.op = "exists" /\ exists
  \/ f.op = "not-exists" /\ ~exists
  \/ exists /\ \/ f.op = "equals" /\ value = f.value
               \/ f.op = "contains" /\ Occurs(f.value, value)
               \/ f.op = "matches" /\ Compiles(f.value) /\ MatchString(f.value, value)

ApplyRegex(f, res) ==
  LET value ==
        CASE f.field = <<"name">> -> res.name
          [] f.field = <<"id">> -> res.id
          [] f.field = <<"type">> -> <<res.type>>
          [] f.field = <<"provider">> -> <<res.provider>>
          [] f.field = <<"region">> -> <<res.region>>
          [] f.field = <<"account">> -> <<res.account>>
          [] OTHER -> IF Single(f.field, DOMAIN res.props)
                      THEN res.props[f.field[1]].text ELSE <<>>
  IN  MatchString(f.pattern, value)

\* Bounds are inclusive; an unknown field or a date that is not set is no match.
ApplyDateRange(f, res) ==
  LET date == IF f.field = <<"created">> THEN res.created
              ELSE IF f.field = <<"updated">> THEN res.updated ELSE -1
  IN  /\ date >= 0
      /\ f.from.set => date >= f.from.at
      /\ f.to.set => date <= f.to.at

stateKeys == {"state", "status", "provisioning_state", "lifecycle_state"}
ApplyState(f, res) ==
  \/ f.states = {}
  \/ \E k \in stateKeys \cap DOMAIN res.props, state \in f.states :
       ToLower(state) = ToLower(res.props[k].text)

\* Only a map[string]interface{} has properties of its own, and a name of none
\* or more than one chunk is no key.
getPropertyValue(path, res) ==
  IF ~Alternates(path, ".") THEN Nil
  ELSE FoldLeft(LAMBDA v, p : IF v.type = "map" /\ p \in DOMAIN v.fields THEN v.fields[p] ELSE Nil,
                [type |-> "map", fields |-> res.props], Parts(path, "."))

Float64Types == {"float64", "float32", "int", "int64", "string"}
toFloat64(v) ==
  IF v.type \in Float64Types /\ IsNumber(v.text) THEN Limit(parseFloat(v.text)) ELSE NoLimit

compareNumeric(op, actual, expected) ==
  /\ actual.set /\ expected.set
  /\ \/ op = <<">">> /\ actual.at > expected.at
     \/ op = <<">", "=">> /\ actual.at >= expected.at
     \/ op = <<"<">> /\ actual.at < expected.at
     \/ op = <<"<", "=">> /\ actual.at <= expected.at

ApplyProperty(f, res) ==
  LET v == getPropertyValue(f.path, res)
      text == ToLower(v.text)
      want == ToLower(f.value.text)
  IN
  /\ v.type # "nil"
  /\ \/ f.op = <<"=">> /\ v.text = f.value.text
     \/ f.op = <<"!", "=">> /\ v.text # f.value.text
     \/ f.op = <<"~">> /\ Occurs(want, text)
     \/ f.op = <<"^", "=">> /\ IsPrefix(want, text)
     \/ f.op = <<"$", "=">> /\ IsSuffix(want, text)
     \/ compareNumeric(f.op, toFloat64(v), f.value.number)

\* The cost is looked for among the properties.
ApplyCost(f, res) ==
  \E k \in {"cost", "monthly_cost"} :
    /\ k \in DOMAIN res.props
    /\ k = "monthly_cost" => "cost" \notin DOMAIN res.props
    /\ toFloat64(res.props[k]).set
    /\ f.min.set => toFloat64(res.props[k]).at >= f.min.at
    /\ f.max.set => toFloat64(res.props[k]).at <= f.max.at

ApplyType(f, res)     == f.types = {} \/ res.type \in f.types
ApplyProvider(f, res) == f.providers = {} \/ res.provider \in f.providers

Apply(f, res) ==
  CASE f.flag = "tag"      -> ApplyTag(f, res)
    [] f.flag = "regex"    -> ApplyRegex(f, res)
    [] f.flag = "date"     -> ApplyDateRange(f, res)
    [] f.flag = "state"    -> ApplyState(f, res)
    [] f.flag = "property" -> ApplyProperty(f, res)
    [] f.flag = "cost"     -> ApplyCost(f, res)
    [] f.flag = "type"     -> ApplyType(f, res)
    [] f.flag = "provider" -> ApplyProvider(f, res)

\* CompositeFilter with AND.
ApplyAll(filters, res) == \A i \in DOMAIN filters : Apply(filters[i], res)
==============================================================================
