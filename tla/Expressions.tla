------------------------------ MODULE Expressions ------------------------------
(***************************************************************************)
(* The filter expressions that the README and the comments of pkg/filter   *)
(* document: how each is written, when it is valid and what it says of a   *)
(* resource.  What it says is taken from the documents, and differs from   *)
(* what the program does exactly where Misread says so.                    *)
(***************************************************************************)
EXTENDS Filters

CONSTANT
  Days         \* the chunks of Dates that name a whole day

\* An expression with texts over the chunks C in its parts.
Expression(C) ==
  [flag : {"tag", "regex", "date", "state", "property", "cost", "type", "provider"},
   form : STRING, name : Seq(C), op : Seq(C), value : Seq(C), to : Seq(C)]

Plain(s, S)   == \A n \in DOMAIN s : s[n] \notin S
Slashed(s)    == IsPrefix(<<"/">>, s) /\ IsSuffix(<<"/">>, s)
RangeSigns    == {"..", ">", "<"}
PropertySigns == {"=", "!", ">", "<", "~"}
Orders        == {<<">", "=">>, <<"<", "=">>, <<">">>, <<"<">>}
Equalities    == {<<"=">>, <<"!", "=">>}
EndOps        == {<<"^", "=">>, <<"$", "=">>}
PropertyOps   == Orders \cup Equalities \cup {<<"~">>} \cup EndOps

-----------------------------------------------------------------------------
(* How it is written, and what the parts may hold for it to read one way.  *)

TagText(x) ==
  CASE x.form = "exists"     -> x.name
    [] x.form = "not-exists" -> x.name \o <<"!", "=">>
    [] x.form = "not-equals" -> x.name \o <<"!", "=">> \o x.value
    [] x.form = "contains"   -> x.name \o <<"~">> \o x.value
    [] x.form = "equals"     -> x.name \o <<"=">> \o x.value
    [] x.form = "matches"    -> x.name \o <<"=", "/">> \o x.value \o <<"/">>
TagShaped(x) ==
  /\ Plain(x.name, {"=", "!", "~"})
  /\ \/ x.form \in {"exists", "not-exists", "matches"}
     \/ x.form = "contains" /\ Plain(x.value, {"="})
     \/ x.form = "equals" /\ Plain(x.value, {"=", "~"}) /\ ~Slashed(x.value)
     \/ x.form = "not-equals" /\ Plain(x.value, {"="}) /\ ~Slashed(x.value)
        /\ x.value # <<>>

RegexText(x) ==
  CASE x.form = "no field" -> x.value
    [] x.form = "bare"     -> x.name \o <<":">> \o x.value
    [] x.form = "slashed"  -> x.name \o <<":">> \o <<"/">> \o x.value \o <<"/">>
RegexShaped(x) ==
  \/ x.form = "no field" /\ Plain(x.value, {":"})
  \/ x.form = "bare" /\ Plain(x.name, {":"}) /\ ~Slashed(x.value)
  \/ x.form = "slashed" /\ Plain(x.name, {":"})

RangeText(x) ==
  CASE x.form = "between" -> x.value \o <<"..">> \o x.to
    [] x.form = "from"    -> <<">">> \o x.value
    [] x.form = "until"   -> <<"<">> \o x.value
    [] x.form = "on"      -> x.value
RangeShaped(x) ==
  /\ x.form \in {"between", "from", "until", "on"}
  /\ Plain(x.value, RangeSigns) /\ Plain(x.to, RangeSigns)

DateText(x) == IF x.form = "no field" THEN x.value ELSE x.name \o <<":">> \o RangeText(x)
DateShaped(x) ==
  \/ x.form = "no field" /\ Plain(x.value, {":"})
  \/ Plain(x.name, {":"}) /\ RangeShaped(x)

PropertyText(x) == x.name \o x.op \o x.value
PropertyShaped(x) ==
  /\ Plain(x.name, PropertySigns) /\ Plain(x.value, PropertySigns)
  /\ x.op \in PropertyOps \cup {<<>>}

Written(x) ==
  CASE x.flag = "tag"      -> TagText(x)
    [] x.flag = "regex"    -> RegexText(x)
    [] x.flag = "date"     -> DateText(x)
    [] x.flag = "property" -> PropertyText(x)
    [] x.flag = "cost"     -> RangeText(x)
    [] OTHER               -> x.value
Shaped(x) ==
  CASE x.flag = "tag"      -> TagShaped(x)
    [] x.flag = "regex"    -> RegexShaped(x)
    [] x.flag = "date"     -> DateShaped(x)
    [] x.flag = "property" -> PropertyShaped(x)
    [] x.flag = "cost"     -> RangeShaped(x)
    [] x.flag = "state"    -> x.value = <<>> \/ (Alternates(x.value, ",") /\ Plain(x.value, {Space}))
    [] OTHER               -> x.value # <<>>

-----------------------------------------------------------------------------
(* When it is valid.                                                       *)

Valid(x) ==
  CASE x.flag = "tag"      -> x.form # "not-equals" /\ (x.form = "exists" => x.name # <<>>)
    [] x.flag = "regex"    -> x.form # "no field" /\ Compiles(x.value)
    [] x.flag = "date"     -> /\ x.form # "no field" /\ IsDate(x.value)
                              /\ x.form = "between" => IsDate(x.to)
    [] x.flag = "state"    -> x.value # <<>>
    [] x.flag = "property" -> x.op # <<>>
    [] x.flag = "cost"     -> /\ x.form # "on" /\ IsNumber(x.value)
                              /\ x.form = "between" => IsNumber(x.to)
    [] OTHER               -> TRUE

-----------------------------------------------------------------------------
(* What it says of a resource.                                             *)

TagMeans(x, res) ==
  LET exists == Single(x.name, DOMAIN res.tags)
      value  == res.tags[x.name[1]]
  IN
  CASE x.form = "exists"     -> exists
    [] x.form = "not-exists" -> ~exists
    [] x.form = "contains"   -> exists /\ Occurs(x.value, value)
    [] x.form = "equals"     -> exists /\ value = x.value
    [] x.form = "matches"    -> exists /\ Compiles(x.value) /\ MatchString(x.value, value)

\* A field of the resource, or else a property; without it, the empty text.
RegexMeans(x, res) ==
  LET fields == [name |-> res.name, id |-> res.id, type |-> <<res.type>>,
                 provider |-> <<res.provider>>, region |-> <<res.region>>,
                 account |-> <<res.account>>]
      text == IF Single(x.name, DOMAIN fields) THEN fields[x.name[1]]
              ELSE IF Single(x.name, DOMAIN res.props) THEN res.props[x.name[1]].text
              ELSE <<>>
  IN  MatchString(x.value, text)

\* "Resources updated in January 2024" is 2024-01-01..2024-01-31, with the whole
\* of the last day; "created after" a date; "a single date means exactly that day".
DateMeans(x, res) ==
  LET date  == IF x.name = <<"created">> THEN res.created
               ELSE IF x.name = <<"updated">> THEN res.updated ELSE -1
      first == parseDate(x.value)
      last  == parseDate(x.to)
  IN
  /\ date >= 0
  /\ \/ /\ x.form = "between" /\ date >= first
        /\ IF Single(x.to, Days) THEN date < last + 2 ELSE date <= last
     \/ x.form = "from" /\ date > first
     \/ x.form = "until" /\ date < first
     \/ x.form = "on" /\ date >= first /\ date < first + 2

\* "Filter by resource states (comma-separated)", of either case.
StateMeans(x, res) ==
  \E k \in stateKeys \cap DOMAIN res.props, n \in DOMAIN x.value :
    x.value[n] # "," /\ ToLower(<<x.value[n]>>) = ToLower(res.props[k].text)

\* A number equals what is the same number, anything else what is written alike;
\* numbers are ordered, whatever Go type keeps them.
NumberTypes == {"int", "int32", "int64", "float32", "float64"}
Amount(v) == IF IsNumber(v.text) THEN Limit(parseFloat(v.text)) ELSE NoLimit
SameNumber(v, value) ==
  v.type \in NumberTypes /\ Amount(v).set /\ IsNumber(value) /\ Amount(v).at = parseFloat(value)
Ordered(v, op, value) ==
  /\ Amount(v).set /\ IsNumber(value)
  /\ \/ op = <<">">> /\ Amount(v).at > parseFloat(value)
     \/ op = <<">", "=">> /\ Amount(v).at >= parseFloat(value)
     \/ op = <<"<">> /\ Amount(v).at < parseFloat(value)
     \/ op = <<"<", "=">> /\ Amount(v).at <= parseFloat(value)

PropertyMeans(x, res) ==
  LET v     == getPropertyValue(x.name, res)
      equal == v.text = x.value \/ SameNumber(v, x.value)
      text  == ToLower(v.text)
      part  == ToLower(x.value)
  IN
  /\ v.type # "nil"
  /\ CASE x.op = <<"=">>      -> equal
       [] x.op = <<"!", "=">> -> ~equal
       [] x.op = <<"~">>      -> Occurs(part, text)
       [] x.op = <<"^", "=">> -> IsPrefix(part, text)
       [] x.op = <<"$", "=">> -> IsSuffix(part, text)
       [] x.op \in Orders     -> Ordered(v, x.op, x.value)

\* The cost of a resource is its estimate, if it has one, or a property.
CostOf(res, estimate) ==
  LET given == {"cost", "monthly_cost"} \cap DOMAIN res.props
      key   == IF "cost" \in given THEN "cost" ELSE "monthly_cost"
  IN  IF estimate.set THEN estimate ELSE IF given = {} THEN NoLimit ELSE toFloat64(res.props[key])

\* "100..500 -> between 100 and 500", ">100 -> greater than 100", "<500 -> less than 500".
CostMeans(x, res, estimate) ==
  LET cost == CostOf(res, estimate) IN
  /\ cost.set
  /\ \/ x.form = "between" /\ cost.at >= parseFloat(x.value) /\ cost.at <= parseFloat(x.to)
     \/ x.form = "from" /\ cost.at > parseFloat(x.value)
     \/ x.form = "until" /\ cost.at < parseFloat(x.value)

Means(x, res, estimate) ==
  CASE x.flag = "tag"      -> TagMeans(x, res)
    [] x.flag = "regex"    -> RegexMeans(x, res)
    [] x.flag = "date"     -> DateMeans(x, res)
    [] x.flag = "state"    -> StateMeans(x, res)
    [] x.flag = "property" -> PropertyMeans(x, res)
    [] x.flag = "cost"     -> CostMeans(x, res, estimate)
    [] x.flag = "type"     -> res.type \in ToSet(x.value)
    [] x.flag = "provider" -> res.provider \in ToSet(x.value)

-----------------------------------------------------------------------------
(* Where the program takes it otherwise: README.md, 5.                     *)

\* The last day of a range ends as it begins, and a bound that is to be passed
\* is included.
DateMisread(x, res) ==
  LET date  == IF x.name = <<"created">> THEN res.created
               ELSE IF x.name = <<"updated">> THEN res.updated ELSE -1
      first == parseDate(x.value)
      last  == parseDate(x.to)
  IN
  /\ date >= 0
  /\ \/ /\ x.form = "between" /\ Single(x.to, Days)
        /\ date >= first /\ date > last /\ date < last + 2
     \/ x.form \in {"from", "until"} /\ date = first
     \/ x.form = "on" /\ date = first + 2

\* Starts with and ends with are read as equalities; a value that is a number or
\* a boolean is compared as it is printed; an int32 is not ordered and a pointer
\* is compared as an address.
PropertyMisread(x, res) ==
  LET v == getPropertyValue(x.name, res) IN
  \/ x.op \in EndOps
  \/ x.op \in Equalities \cup {<<"~">>} /\ parseValue(x.value).text # x.value
  \/ x.op \in Equalities /\ v.type # "nil" /\ v.text # x.value /\ SameNumber(v, x.value)
  \/ x.op \in Orders /\ v.type \notin Float64Types \cup {"nil"} /\ Amount(v).set
  \/ v.type = "pointer"

\* Estimates are not looked at.
CostMisread(x, res, estimate) ==
  \/ estimate.set
  \/ x.form \in {"from", "until"} /\ CostOf(res, estimate) = Limit(parseFloat(x.value))

Misread(x, res, estimate) ==
  CASE x.flag = "date"     -> DateMisread(x, res)
    [] x.flag = "property" -> PropertyMisread(x, res)
    [] x.flag = "cost"     -> CostMisread(x, res, estimate)
    [] OTHER               -> FALSE
===============================================================================
