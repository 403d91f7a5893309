---------------------------- MODULE MessageFilter ----------------------------
(***************************************************************************)
(* The MessageFilter authenticator of x/smart-account: a message is        *)
(* accepted if the JSON pattern the account stored is contained in the     *)
(* JSON form of the message.                                               *)
(*                                                                         *)
(* A JSON value is a record with its kind: null, bool, str, float, arr or  *)
(* map.  A string is a model value; Decimal says which strings read as a   *)
(* decimal number, and which number that is.                               *)
(***************************************************************************)
EXTENDS Integers, Sequences, FiniteSets

CONSTANTS
  Patterns,   \* JSON values an account may store
  Messages,   \* JSON forms of messages
  Nesting,    \* [Values -> Nat]: a value is parsed from a text of finite length
  Decimal     \* [strings that read as a number -> the number]

VARIABLES
  pattern,    \* the stored pattern, or None
  message,    \* the message under authentication, or None
  accepted    \* what Authenticate answered

filterVars == <<pattern, message, accepted>>

\* The JSON values; the values inside one are among them.
Values == Patterns \cup Messages
Pairs == Values \X Values

IsJson(x) ==
  /\ x.k \in {"null", "bool", "str", "float", "arr", "map"}
  /\ x.k = "arr" => x.v \in Seq(Values)
  /\ x.k \in {"arr", "map"} => \A f \in DOMAIN x.v : x.v[f] \in Values /\ Nesting[x.v[f]] < Nesting[x]

ASSUME FilterAssumption == Nesting \in [Values -> Nat] /\ \A x \in Values : IsJson(x)

None == [k |-> "none"]

\* LegacyNewDecFromStr
IsNumber(s) == s \in DOMAIN Decimal

\* checkForFloats: some number is written as a number.
checkForFloats(value) ==
  LET floats[x \in Values] ==
        IF x.k \in {"map", "arr"} THEN \E f \in DOMAIN x.v : floats[x.v[f]] ELSE x.k = "float"
  IN  floats[value]

\* The pattern's list may not be longer.
ListFits(a, b) == Len(a) <= Len(b)

\* The string case: two numbers must be equal, and then so must the spelling.
SameString(a, b) ==
  /\ IsNumber(a) /\ IsNumber(b) => Decimal[a] = Decimal[b]
  /\ a = b

\* A list of the message may be shorter than that of the pattern.
isSupersetLoose(pat, msg) ==
  LET sup[p \in Pairs] ==
        LET a == p[1]
            b == p[2]
        IN  /\ a.k # "float"
            /\ a.k = b.k
            /\ a.k = "map" => \A f \in DOMAIN a.v : f \in DOMAIN b.v /\ sup[<<a.v[f], b.v[f]>>]
            /\ a.k = "arr" => \A i \in DOMAIN a.v : i \in DOMAIN b.v => sup[<<a.v[i], b.v[i]>>]
            /\ a.k = "str" => SameString(a.v, b.v)
            /\ a.k = "bool" => a.v = b.v
  IN  sup[<<pat, msg>>]

\* isSuperset(a, b): a map needs every key of a in b, a list is a prefix, and
\* the rest is equal; a number written as a number never matches.
isSuperset(pat, msg) ==
  LET sup[p \in Pairs] ==
        LET a == p[1]
            b == p[2]
        IN  /\ a.k # "float"
            /\ a.k = b.k
            /\ a.k = "map" => \A f \in DOMAIN a.v : f \in DOMAIN b.v /\ sup[<<a.v[f], b.v[f]>>]
            /\ a.k = "arr" => ListFits(a.v, b.v) /\ \A i \in DOMAIN a.v : sup[<<a.v[i], b.v[i]>>]
            /\ a.k = "str" => SameString(a.v, b.v)
            /\ a.k = "bool" => a.v = b.v
  IN  sup[<<pat, msg>>]

-----------------------------------------------------------------------------
FilterInit ==
  /\ pattern = None
  /\ message = None
  /\ accepted = FALSE

\* OnAuthenticatorAdded: a pattern without numbers is stored.
OnFilterAdded(p) ==
  /\ ~checkForFloats(p)
  /\ pattern' = p
  /\ UNCHANGED <<message, accepted>>

\* Authenticate: a filter initialized with the stored pattern looks at a message.
FilterAuthenticate(m) ==
  /\ message' = m
  /\ accepted' = isSuperset(pattern, m)
  /\ UNCHANGED pattern

\* The stored pattern never changes: another one is another authenticator.  Each
\* message is looked at by itself.
FilterNext ==
  \/ pattern = None /\ \E p \in Patterns : OnFilterAdded(p)
  \/ pattern # None /\ message = None /\ \E m \in Messages : FilterAuthenticate(m)

FilterSpec == FilterInit /\ [][FilterNext]_filterVars

-----------------------------------------------------------------------------
\* The places of a value: the path to each, and what stands there.  This is the
\* reference for the containment of patterns.
Content(x) == IF x.k \in {"str", "bool"} THEN <<x.k, x.v>> ELSE <<x.k>>
Step(x, f) == IF x.k = "map" THEN <<"key", f>> ELSE <<"at", f>>
Below(e, place) == <<<<e>> \o place[1], place[2]>>

Places(value) ==
  LET places[x \in Values] ==
        {<<<<>>, Content(x)>>} \cup
        IF x.k \in {"map", "arr"}
        THEN UNION {{Below(Step(x, f), q) : q \in places[x.v[f]]} : f \in DOMAIN x.v}
        ELSE {}
  IN  places[value]

\* A message passes the filter exactly if every place of the stored pattern is
\* a place of the message with the same thing in it: isSuperset compares
\* structure and content completely, at every depth, and lists by position.
AcceptsContained ==
  message # None => (accepted <=> Places(pattern) \subseteq Places(message))

\* Every pattern that OnAuthenticatorAdded lets through can be met: a message
\* that looks like the pattern passes, so no account stores a filter that
\* refuses everything.
StoredIsSatisfiable == pattern # None => isSuperset(pattern, pattern)

\* The filter does what its pattern says, and no stored pattern is in vain.
FilterExact == AcceptsContained /\ StoredIsSatisfiable
=============================================================================
