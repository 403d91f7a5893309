----------------------------- MODULE MCAccounts -----------------------------
(***************************************************************************)
(* SmartAccount and MessageFilter on small instances.  The transactions of *)
(* SmartAccount know a filter by the kinds of message it lets pass;        *)
(* MessageFilter looks into the JSON.  A behaviour is one of the component *)
(* that the first state picks.                                             *)
(***************************************************************************)
EXTENDS SmartAccount, MessageFilter

VARIABLE component

Sig(k) == [t |-> "Sig", key |-> k]
Filter(ks) == [t |-> "Filter", kinds |-> ks]
Cw(c) == [t |-> "Cw", c |-> c]
AllOf(p, s) == [t |-> "AllOf", part |-> p, subs |-> s]
AnyOf(p, s) == [t |-> "AnyOf", part |-> p, subs |-> s]
Key(k) == [key |-> k]
Parts(s) == [parts |-> s]

Mc_Signatures == {Key("ka"), Key("kb"), Key("k1"), Parts(<<Key("k1"), Key("ka")>>)}
Mc_Funds == [a |-> 2, b |-> 1]
Mc_Own == [a |-> "ka", b |-> "kb"]
\* Account a: a key and a contract, each with its part of the signature;
\* account b: a key, or a contract for sends.
TreeA == AllOf(TRUE, <<Sig("k1"), Cw("c")>>)
TreeB == AnyOf(FALSE, <<Sig("kb"), AllOf(FALSE, <<Filter({"send"}), Cw("c")>>)>>)
Short == AnyOf(TRUE, <<Sig("ka")>>)
Mc_Trees == {Sig("k1"), Sig("ka"), Sig("kb"), Cw("c"), Filter({"send"}), TreeA, TreeB, TreeB.subs[2], Short}
Mc_Depth == [x \in Mc_Trees |-> IF x = TreeB THEN 2 ELSE IF x \in {TreeA, TreeB.subs[2], Short} THEN 1 ELSE 0]
Mc_Genesis ==
  {[active |-> TRUE, failed |-> FALSE, sent |-> {}, next |-> 3,
    auths |-> [a |-> 1 :> TreeA, b |-> 2 :> TreeB]]}

Msg(a, k) == [from |-> a, kind |-> k, tree |-> Sig("ka"), id |-> 0]
AddMsg(a, x) == [from |-> a, kind |-> "add", tree |-> x, id |-> 0]
RemoveMsg(a, i) == [from |-> a, kind |-> "remove", tree |-> Sig("ka"), id |-> i]
Mc_MsgLists ==
  {<<Msg("a", "send")>>, <<AddMsg("b", Cw("c"))>>, <<RemoveMsg("a", 1)>>,
   <<AddMsg("a", Short)>>,
   <<Msg("b", "send"), Msg("a", "send")>>,
   <<Msg("a", "send"), Msg("a", "off")>>,
   <<AddMsg("b", Sig("kb")), RemoveMsg("b", 2)>>,
   <<Msg("b", "off")>>}
Mc_Sigs == [a |-> {Key("ka"), Parts(<<Key("k1"), Key("ka")>>)}, b |-> {Key("ka"), Key("kb")}]

\* All hooks answer well, or one of authenticate and confirm, or the two that
\* write before execution and on removal, do not.
Mc_Verdicts ==
  {[c \in Contracts |-> [h \in Hooks |-> h \notin bad]] :
     bad \in {{}, {"authenticate"}, {"confirm"}, {"track", "hook"}}}

-----------------------------------------------------------------------------
\* All JSON values of depth two over two keys.
Mc_Decimal == [one |-> 10, one_point_zero |-> 10, two |-> 20]
Strs == {"one", "one_point_zero", "two", "uthiol"}
Leafs == {[k |-> "str", v |-> s] : s \in Strs}
  \cup {[k |-> "bool", v |-> b] : b \in BOOLEAN}
  \cup {[k |-> "null"], [k |-> "float"]}
Small == {[k |-> "str", v |-> "one"], [k |-> "str", v |-> "uthiol"],
          [k |-> "bool", v |-> TRUE], [k |-> "null"], [k |-> "float"]}
Maps(V) == {[k |-> "map", v |-> f] : f \in UNION {[d -> V] : d \in SUBSET {"to", "amount"}}}
Lists(V) == {[k |-> "arr", v |-> f] : f \in UNION {[1 .. n -> V] : n \in 0 .. 2}}
Inner == Small \cup {[k |-> "arr", v |-> <<x>>] : x \in Small}
  \cup {[k |-> "map", v |-> [to |-> x]] : x \in Small}
  \cup {[k |-> "arr", v |-> <<>>]}
Mc_Values == Leafs \cup Maps(Inner) \cup Lists(Inner)

Leaf(x) == x.k \notin {"arr", "map"} \/ DOMAIN x.v = {}
Mc_Nesting == [x \in Mc_Values |->
                 IF Leaf(x) THEN 0 ELSE IF \A f \in DOMAIN x.v : Leaf(x.v[f]) THEN 1 ELSE 2]

-----------------------------------------------------------------------------
AccountsInit ==
  /\ component \in {"smart-account", "filter"}
  /\ Init
  /\ FilterInit

AccountsNext ==
  /\ \/ component = "smart-account" /\ Next /\ UNCHANGED filterVars
     \/ component = "filter" /\ FilterNext /\ UNCHANGED vars
  /\ UNCHANGED component

AccountsSpec == AccountsInit /\ [][AccountsNext]_<<vars, filterVars, component>>
=============================================================================
