---------------------------- MODULE SmartAccount ----------------------------
(***************************************************************************)
(* x/smart-account: accounts that choose how their messages are            *)
(* authenticated, and the life of a transaction through it:                *)
(*                                                                         *)
(*    circuit breaker -> ante handler -> messages -> post handler          *)
(*                                                                         *)
(* An authenticator is a tree.  Its leaves check a signature, filter the   *)
(* message, or ask a contract; its inner nodes are AllOf and AnyOf, which  *)
(* pass the whole signature on or split it among their children            *)
(* (partitioned).  A contract answers its hooks as it likes: the answers   *)
(* are the verdict of a delivery, one for each contract and hook.          *)
(*                                                                         *)
(* The application commits in layers: what the ante handler writes is kept *)
(* when it succeeds, what the messages and the post handler write is kept  *)
(* when both succeed, and the fee is written through on its own.           *)
(***************************************************************************)
EXTENDS Integers, Sequences, FiniteSets, SequencesExt, Bags

CONSTANTS
  Trees,         \* the authenticators, with the ones they are made of
  Depth,         \* [Trees -> Nat]: a tree is parsed from data of finite length
  Signatures,    \* the signatures, with their parts
  Accounts,      \* accounts that sign messages
  Own,           \* [Accounts -> keys]: the public key of the account itself
  Controllers,   \* accounts listed in CircuitBreakerControllers
  Contracts,     \* contracts that serve as authenticators
  Genesis,       \* the module's genesis states
  MsgLists,      \* lists of messages a transaction may carry
  Sigs,          \* for each account, the signatures a transaction may carry
  Verdicts,      \* answers of the contracts to the hooks of a delivery
  MaximumUnauthenticatedGas,
  Funds,         \* [Accounts -> Nat]: balances at first; a delivery costs 1
  MaxId          \* bound on the ids handed out

Hooks == {"authenticate", "track", "confirm", "hook"}

VARIABLES
  store,     \* the module's store: [active, next, auths, sent]
  seq,       \* sequence number of each account
  funds,     \* balance of each account
  tracked,   \* what the contracts were told by Track: a bag of authenticator ids
  last       \* what became of the last delivery (for the properties)

vars == <<store, seq, funds, tracked, last>>

(***************************************************************************)
(* Authenticator trees.                                                    *)
(***************************************************************************)

SignedTrees == Trees \X Signatures

Composite(x) == x.t \in {"AllOf", "AnyOf"}

IsTree(x) ==
  IF Composite(x)
  THEN /\ x.part \in BOOLEAN /\ x.subs \in Seq(Trees)
       /\ \A i \in DOMAIN x.subs : Depth[x.subs[i]] < Depth[x]
  ELSE x.t \in {"Sig", "Filter", "Cw"} /\ (x.t = "Cw" => x.c \in Contracts)

IsSignature(g) ==
  IF "parts" \in DOMAIN g THEN g = [parts |-> g.parts] /\ g.parts \in Seq(Signatures)
  ELSE g = [key |-> g.key]

IsMessage(m) == m.from \in Accounts /\ m.kind \in {"add", "remove", "off", "send"} /\ m.tree \in Trees

\* A genesis state as ExportGenesis writes it, with ids that the counter handed
\* out.  InitGenesis takes any other as well: it checks neither that the ids of
\* two accounts differ nor that the counter is past them.
IsGenesis(s) ==
  /\ s = [active |-> s.active, failed |-> FALSE, next |-> s.next, auths |-> s.auths, sent |-> s.sent]
  /\ s.active \in BOOLEAN /\ s.next \in Nat /\ s.sent \subseteq Accounts
  /\ s.auths = [a \in Accounts |-> [i \in DOMAIN s.auths[a] |-> s.auths[a][i]]]
  /\ \A a \in Accounts : \A i \in DOMAIN s.auths[a] :
       /\ i \in Nat /\ i < s.next /\ s.auths[a][i] \in Trees
       /\ \A b \in Accounts \ {a} : i \notin DOMAIN s.auths[b]

ASSUME SmartAccountAssumption ==
  /\ Depth \in [Trees -> Nat] /\ \A x \in Trees : IsTree(x)
  /\ \A g \in Signatures : IsSignature(g)
  /\ Controllers \subseteq Accounts
  /\ \A s \in Genesis : IsGenesis(s)
  /\ \A l \in MsgLists : l \in Seq(Range(l)) /\ l # <<>> /\ \A i \in DOMAIN l : IsMessage(l[i])
  /\ Sigs \in [Accounts -> SUBSET Signatures]
  /\ Verdicts \subseteq [Contracts -> [Hooks -> BOOLEAN]]
  /\ Funds \in [Accounts -> Nat] /\ MaxId \in Nat /\ MaximumUnauthenticatedGas \in Nat

\* splitSignatures: a partitioned node needs one signature for each child.
Splits(x, sig) ==
  x.part => "parts" \in DOMAIN sig /\ Len(sig.parts) = Len(x.subs)

SubSignature(x, sig, i) == IF x.part THEN sig.parts[i] ELSE sig

\* compositeId: the id of child i of the node with the given id.
compositeId(id, i) == Append(id, i - 1)

\* The loops of AllOf and AnyOf return at the first child with the result that
\* settles the matter: a failure for AllOf, a success for AnyOf.
Settling(x, ok) == {i \in DOMAIN ok : ok[i] = (x.t = "AnyOf")}
Visited(x, ok) ==
  LET s == Settling(x, ok) IN 1 .. (IF s = {} THEN Len(x.subs) ELSE Min(s))

\* The outcome of the loop.
Verdict(x, ok) == (Settling(x, ok) # {}) = (x.t = "AnyOf")

\* p is a tree and a signature.
Authenticate(tree, signature, msg, v) ==
  LET auth[p \in SignedTrees] ==
        LET x == p[1]
            sig == p[2]
            r == [i \in DOMAIN x.subs |-> auth[<<x.subs[i], SubSignature(x, sig, i)>>]]
            ok == [i \in DOMAIN x.subs |-> r[i].ok]
            gas == [i \in DOMAIN x.subs |-> r[i].gas]
        IN  CASE x.t = "Sig" -> [ok |-> "key" \in DOMAIN sig /\ sig.key = x.key, gas |-> 1]
              [] x.t = "Filter" -> [ok |-> msg.kind \in x.kinds, gas |-> 1]
              [] x.t = "Cw" -> [ok |-> v[x.c]["authenticate"], gas |-> 1]
              [] Composite(x) /\ ~Splits(x, sig) -> [ok |-> FALSE, gas |-> 0]
              [] OTHER -> [ok |-> Verdict(x, ok), gas |-> SumFunctionOnSet(gas, Visited(x, ok))]
  IN  auth[<<tree, signature>>]

\* Every leaf contract of the tree, by its id: subTrack visits them all.
Leaves(tree, top) ==
  LET leaves[p \in Trees \X Seq(Nat)] ==
        LET x == p[1]
            id == p[2]
        IN  IF Composite(x)
            THEN UNION {leaves[<<x.subs[i], compositeId(id, i)>>] : i \in DOMAIN x.subs}
            ELSE IF x.t = "Cw" THEN {[id |-> id, c |-> x.c]} ELSE {}
  IN  leaves[<<tree, top>>]

Track(x, id, v) ==
  [ok |-> \A l \in Leaves(x, id) : v[l.c]["track"],
   told |-> {l.id : l \in Leaves(x, id)}]

\* ConfirmExecution: only contracts have something to say.
ConfirmExecution(tree, signature, v) ==
  LET confirm[p \in SignedTrees] ==
        LET x == p[1]
            sig == p[2]
        IN  CASE x.t \in {"Sig", "Filter"} -> TRUE
              [] x.t = "Cw" -> v[x.c]["confirm"]
              [] OTHER -> Splits(x, sig)
                            /\ Verdict(x, [i \in DOMAIN x.subs |->
                                 confirm[<<x.subs[i], SubSignature(x, sig, i)>>]])
  IN  confirm[<<tree, signature>>]

\* OnAuthenticatorAdded: a node needs two children at least, and every
\* contract must agree.
OnAuthenticatorAdded(tree, v) ==
  LET agrees[x \in Trees] ==
        IF Composite(x)
        THEN Len(x.subs) > 1 /\ \A i \in DOMAIN x.subs : agrees[x.subs[i]]
        ELSE x.t = "Cw" => v[x.c]["hook"]
  IN  agrees[tree]

OnAuthenticatorRemoved(x, v) == \A l \in Leaves(x, <<0>>) : v[l.c]["hook"]

-----------------------------------------------------------------------------
(***************************************************************************)
(* The store and the messages.  A message maps a store to a store with a   *)
(* failure flag.                                                           *)
(***************************************************************************)

Add(s, a, id, x) ==
  [s EXCEPT !.auths[a] = [i \in DOMAIN @ \cup {id} |-> IF i = id THEN x ELSE @[i]]]

Delete(s, a, id) ==
  [s EXCEPT !.auths[a] = [i \in DOMAIN @ \ {id} |-> @[i]]]

Refused(s) == [s EXCEPT !.failed = TRUE]

\* The id is handed out again by the next message.
AddWithoutCount(s, m, v) ==
  IF s.active /\ OnAuthenticatorAdded(m.tree, v) THEN Add(s, m.from, s.next, m.tree)
  ELSE Refused(s)

AddAuthenticator(s, m, v) ==
  IF s.active /\ OnAuthenticatorAdded(m.tree, v)
  THEN [Add(s, m.from, s.next, m.tree) EXCEPT !.next = @ + 1]
  ELSE Refused(s)

RemoveAuthenticator(s, m, v) ==
  IF /\ s.active
     /\ m.id \in DOMAIN s.auths[m.from]
     /\ OnAuthenticatorRemoved(s.auths[m.from][m.id], v)
  THEN Delete(s, m.from, m.id)
  ELSE Refused(s)

\* SetActiveState(false), by a controller.  The governor, who sets it to true,
\* is the governance account and signs no transaction: see Reactivate.
SetActiveState(s, m, v) ==
  IF m.from \in Controllers THEN [s EXCEPT !.active = FALSE] ELSE Refused(s)

Execute(s, m, v) ==
  CASE s.failed -> s
    [] m.kind = "add" -> AddAuthenticator(s, m, v)
    [] m.kind = "remove" -> RemoveAuthenticator(s, m, v)
    [] m.kind = "off" -> SetActiveState(s, m, v)
    [] m.kind = "send" -> [s EXCEPT !.sent = @ \cup {m.from}]

-----------------------------------------------------------------------------
(***************************************************************************)
(* The life of a transaction: a list of messages, the selected             *)
(* authenticators (none: the classic flow), and for each signer a          *)
(* signature and the sequence number it signed.                            *)
(***************************************************************************)

Signers(tx) == {tx.msgs[i].from : i \in DOMAIN tx.msgs}
Payer(tx) == tx.msgs[1].from

\* IsCircuitBreakActive: the classic flow, if the module is off or the
\* transaction selects nothing.
IsCircuitBreakActive(s, tx) == ~s.active \/ tx.sel = <<>>

\* GetInitializedAuthenticatorForAccount for message i of the transaction.
Found(s, tx, i) == tx.sel[i] \in DOMAIN s.auths[tx.msgs[i].from]
Selected(s, tx, i) == s.auths[tx.msgs[i].from][tx.sel[i]]

\* Any sequence number is good.
SequenceIgnored(tx, i) == TRUE

SequenceMatch(tx, i) ==
  LET a == tx.msgs[i].from IN tx.seqs[a] = seq[a]

\* Deduct the fee, which needs the balance.
CanPay(tx) == funds[Payer(tx)] > 0

\* Authentication of message i in the ante handler.
Admit(tx, i, v) ==
  LET m == tx.msgs[i] IN
  IF Found(store, tx, i) /\ SequenceMatch(tx, i)
  THEN Authenticate(Selected(store, tx, i), tx.sigs[m.from], m, v)
  ELSE [ok |-> FALSE, gas |-> 0]

\* The tracks run as the messages pass, before the others are looked at.
AuthenticatorAnteEager(tx, v) ==
  LET n == Len(tx.msgs)
      r == [i \in 1 .. n |-> Admit(tx, i, v)]
      paid == Len(tx.sel) = n /\ r[1].ok /\ r[1].gas <= MaximumUnauthenticatedGas
              /\ CanPay(tx)
      t == [i \in 1 .. n |-> IF r[i].ok THEN Track(Selected(store, tx, i), <<tx.sel[i]>>, v)
                             ELSE [ok |-> FALSE, told |-> {}]]
      ok == paid /\ \A i \in 1 .. n : r[i].ok /\ t[i].ok
  IN  [ok |-> ok, paid |-> paid,
       told |-> IF paid THEN [i \in 1 .. n |-> t[i].told] ELSE <<>>]

\* The authenticator flow.  The fee payer is the signer of the first message,
\* so the fee is deducted, and written through, once the first message is
\* authenticated within the reduced gas limit.  Then the other messages are
\* looked at, then every Track runs.  "told" is kept only if all succeed.
AuthenticatorAnte(tx, v) ==
  LET n == Len(tx.msgs)
      r == [i \in 1 .. n |-> Admit(tx, i, v)]
      paid == /\ Len(tx.sel) = n
              /\ r[1].ok
              /\ r[1].gas <= MaximumUnauthenticatedGas
              /\ CanPay(tx)
      all == paid /\ \A i \in 2 .. n : r[i].ok
      t == [i \in 1 .. n |-> Track(Selected(store, tx, i), <<tx.sel[i]>>, v)]
      ok == all /\ \A i \in 1 .. n : t[i].ok
  IN  [ok |-> ok, paid |-> paid,
       told |-> IF ok THEN [i \in 1 .. n |-> t[i].told] ELSE <<>>]

\* The classic flow: the fee, then one signature of each signer's own key.
\* Nothing is written unless all succeed.
ClassicAnte(tx) ==
  LET ok == /\ CanPay(tx)
            /\ \A i \in DOMAIN tx.msgs :
                 /\ SequenceMatch(tx, i)
                 /\ tx.sigs[tx.msgs[i].from] = [key |-> Own[tx.msgs[i].from]]
  IN  [ok |-> ok, paid |-> ok, told |-> <<>>]

Ante(tx, v) ==
  IF IsCircuitBreakActive(store, tx) THEN ClassicAnte(tx) ELSE AuthenticatorAnte(tx, v)

\* The post handler forgives an authenticator that is gone.
PostMissingPasses(s, tx, v) ==
  IsCircuitBreakActive(s, tx) \/ \A i \in DOMAIN tx.msgs :
    Found(s, tx, i) => ConfirmExecution(Selected(s, tx, i), tx.sigs[tx.msgs[i].from], v)

\* The post handler, on the store s the messages leave: it looks at the
\* circuit breaker again and fetches each authenticator again.
PostHandle(s, tx, v) ==
  IsCircuitBreakActive(s, tx) \/ \A i \in DOMAIN tx.msgs :
    /\ Found(s, tx, i)
    /\ ConfirmExecution(Selected(s, tx, i), tx.sigs[tx.msgs[i].from], v)

\* What the message's signer means to allow: the plain reading of the tree.
Approves(tree, signature, m, v) ==
  LET approves[p \in SignedTrees] ==
        LET x == p[1]
            sig == p[2]
            Sub(i) == approves[<<x.subs[i], IF x.part THEN sig.parts[i] ELSE sig>>]
        IN  CASE x.t = "Sig" -> sig = [key |-> x.key]
              [] x.t = "Filter" -> m.kind \in x.kinds
              [] x.t = "Cw" -> v[x.c]["authenticate"]
              [] x.t = "AllOf" -> Splits(x, sig) /\ \A i \in DOMAIN x.subs : Sub(i)
              [] x.t = "AnyOf" -> Splits(x, sig) /\ \E i \in DOMAIN x.subs : Sub(i)
  IN  approves[<<tree, signature>>]

Consents(tx, i, v) ==
  LET m == tx.msgs[i] IN
  /\ tx.seqs[m.from] = seq[m.from]
  /\ IF store.active /\ tx.sel # <<>>
     THEN /\ i \in DOMAIN tx.sel
          /\ tx.sel[i] \in DOMAIN store.auths[m.from]
          /\ Approves(store.auths[m.from][tx.sel[i]], tx.sigs[m.from], m, v)
     ELSE tx.sigs[m.from] = [key |-> Own[m.from]]

Idle == [tx |-> FALSE, ante |-> FALSE, kept |-> TRUE, payer |-> FALSE, all |-> FALSE]

-----------------------------------------------------------------------------
Zero == [a \in Accounts |-> 0]

Init ==
  /\ store \in Genesis
  /\ seq = Zero
  /\ funds = Funds
  /\ tracked = EmptyBag
  /\ last = Idle

Told(told) == FoldSeq(LAMBDA t, b : SetToBag(t) (+) b, EmptyBag, told)

\* The store after the first n messages.
RunMessages(msgs, v) ==
  LET run[n \in 0 .. Len(msgs)] == IF n = 0 THEN store ELSE Execute(run[n - 1], msgs[n], v)
  IN  run[Len(msgs)]

\* Deliver a transaction: ante handler, messages, post handler.
Deliver(tx, v) ==
  LET ante == Ante(tx, v)
      auth == ~IsCircuitBreakActive(store, tx)
      run == RunMessages(tx.msgs, v)
      done == ante.ok /\ ~run.failed /\ PostHandle(run, tx, v)
      agreed == [i \in DOMAIN tx.msgs |-> Consents(tx, i, v)]
  IN  /\ run.next <= MaxId
      /\ store' = IF done THEN run ELSE store
      /\ funds' = IF ante.paid THEN [funds EXCEPT ![Payer(tx)] = @ - 1] ELSE funds
      /\ seq' = IF ante.ok
                THEN [a \in Accounts |-> IF a \in Signers(tx) THEN seq[a] + 1 ELSE seq[a]]
                ELSE seq
      /\ tracked' = IF ante.told = <<>> THEN tracked ELSE tracked (+) Told(ante.told)
      /\ last' = [tx |-> TRUE, ante |-> ante.ok,
                  kept |-> done /\ auth => \A i \in DOMAIN tx.msgs : Found(run, tx, i),
                  payer |-> agreed[1],
                  all |-> \A i \in DOMAIN tx.msgs : agreed[i]]

\* MsgSetActiveState(true), executed by governance.
Reactivate ==
  /\ ~store.active
  /\ store' = [store EXCEPT !.active = TRUE]
  /\ last' = Idle
  /\ UNCHANGED <<seq, funds, tracked>>

\* Export the genesis state and start a chain from it: InitGenesis takes the
\* parameters, the counter (0 counts as 1) and every authenticator with its
\* id.  It halts unless every contract agrees again, in a context that is
\* thrown away.
Restart ==
  /\ \E v \in Verdicts : \A a \in Accounts : \A i \in DOMAIN store.auths[a] :
       OnAuthenticatorAdded(store.auths[a][i], v)
  /\ store' = [store EXCEPT !.next = IF @ = 0 THEN 1 ELSE @]
  /\ last' = Idle
  /\ UNCHANGED <<seq, funds, tracked>>

Selections(n) == {<<>>} \cup [1 .. n -> 1 .. MaxId - 1] \cup (IF n > 1 THEN {<<1>>} ELSE {})

Next ==
  \/ \E msgs \in MsgLists :
       \E sel \in Selections(Len(msgs)),
          sigs \in {f \in [{msgs[i].from : i \in DOMAIN msgs} -> UNION Range(Sigs)] :
                      \A a \in DOMAIN f : f[a] \in Sigs[a]},
          old \in {FALSE} \cup {seq # Zero}, v \in Verdicts :
         Deliver([msgs |-> msgs, sel |-> sel, sigs |-> sigs,
                  seqs |-> [a \in DOMAIN sigs |-> IF old THEN 0 ELSE seq[a]]], v)
  \/ Reactivate
  \/ Restart

Spec == Init /\ [][Next]_vars

-----------------------------------------------------------------------------
(***************************************************************************)
(* Properties.                                                             *)
(***************************************************************************)

Ids(a) == DOMAIN store.auths[a]

\* An authenticator id belongs to one account and was handed out by the
\* counter, so no later AddAuthenticator overwrites or reuses it, whatever is
\* removed and however often the chain restarts from an exported state.
IdsUnique ==
  /\ \A a \in Accounts : \A i \in Ids(a) : i < store.next
  /\ \A a, b \in Accounts : a # b => Ids(a) \cap Ids(b) = {}

\* A transaction acts once, and only with consent.  A delivery takes the fee
\* only if its payer agreed to the first message.  It changes the store, or
\* tells the contracts, only if the signer of every message agreed to it, by
\* the plain reading of the selected authenticators as they were stored before
\* the transaction or by the account's own key, in a signature for the current
\* sequence number, which then moves on.
ConsentOnly ==
  [][last'.tx =>
       /\ funds' # funds => last'.payer
       /\ store' # store \/ tracked' # tracked => last'.all /\ seq' # seq]_vars

\* The contracts are told of a transaction by Track only if every message of
\* it was authenticated and the fee is paid, so a rejected one leaves no trace
\* with them.
TrackedArePaid ==
  [][tracked' # tracked => last'.ante /\ funds' # funds]_vars

\* A transaction of the authenticator flow that takes effect leaves every
\* authenticator it was authenticated by in the store, unless it switches the
\* module off: the post handler fetches them again, so none can be used to
\* remove itself.
SelectedSurvives == store.active => last.kept
=============================================================================
