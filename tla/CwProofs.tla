------------------------------ MODULE CwProofs ------------------------------
(***************************************************************************)
(* The Commonware driver and node, for every set of payloads, certificates *)
(* and members and every crash.  The driver: next follows the application, *)
(* what is served was executed and has no holes, the committed blocks      *)
(* implement the append-only log, and no committed transaction is proposed *)
(* again.  The node: it executes what the network decided, the catch-up    *)
(* loop pairs payloads with their certificates, at most one engine is      *)
(* prepared or running, and no engine is ahead of the chain.               *)
(***************************************************************************)
EXTENDS CwNode, TLAPS

DriverFields == {"next", "mempool", "committed", "lastCert", "lastVals", "lastDummy",
                 "verifyCert", "conflicts"}

(* The inductive invariant, on one node's state.  The properties need each *)
(* other: a block is filed under its own height, which is next, and next   *)
(* is the length of the log plus one.                                      *)
LogOK(a, d) ==
    /\ DOMAIN a = {"log", "vals", "votes"}
    /\ a.log \in Seq(Payloads)
    /\ \A h \in DOMAIN a.log : a.log[h].height = h
    /\ DOMAIN d = DriverFields
    /\ d.next = Len(a.log) + 1
    /\ DOMAIN d.committed \subseteq DOMAIN a.log
    /\ \A h \in DOMAIN d.committed : d.committed[h].payload = a.log[h]
    /\ \A h \in DOMAIN d.committed : \A g \in h .. Len(a.log) : g \in DOMAIN d.committed

LogInv == LogOK(app, drv)

(* A driver created on a committed application is in order (NewDriver).    *)
LEMMA NewDriverOK ==
    ASSUME NEW a, DOMAIN a = {"log", "vals", "votes"}, a.log \in Seq(Payloads),
           \A h \in DOMAIN a.log : a.log[h].height = h
    PROVE  LogOK(a, NewDriver(a))
<1> DEFINE d == NewDriver(a)
<1>1. d.next = Len(a.log) + 1
  BY DEF NewDriver
<1>2. DOMAIN d = DriverFields /\ d.committed = << >>
  BY DEF NewDriver, DriverFields
<1>3. DOMAIN d.committed = {}
  BY <1>2
<1> HIDE DEF d
<1>4. LogOK(a, d)
  BY <1>1, <1>2, <1>3 DEF LogOK
<1> QED
  BY <1>4 DEF d

(* Committing a payload the driver accepts keeps the log in order          *)
(* (finalize: FinalizeBlock, Commit, and the driver's own bookkeeping).    *)
LEMMA CommitOK ==
    ASSUME NEW a, NEW d, LogOK(a, d), NEW p \in Payloads, p.height = d.next,
           NEW c, NEW votes
    PROVE  LogOK(FinalizeBlock(a, p, votes), Committed(a, d, p, c))
<1> DEFINE b == FinalizeBlock(a, p, votes)
           e == Committed(a, d, p, c)
           n == Len(a.log)
<1>1. /\ a.log \in Seq(Payloads) /\ n \in Nat /\ d.next = n + 1 /\ p.height = n + 1
      /\ DOMAIN a.log = 1 .. n
  BY DEF LogOK
<1>2. DOMAIN b = {"log", "vals", "votes"} /\ b.log = Append(a.log, p)
  BY DEF FinalizeBlock
<1>3. /\ b.log \in Seq(Payloads) /\ Len(b.log) = n + 1 /\ DOMAIN b.log = 1 .. n + 1
      /\ b.log[n + 1] = p /\ \A h \in 1 .. n : b.log[h] = a.log[h]
  BY <1>1, <1>2
<1>4. DOMAIN e = DriverFields /\ e.next = n + 2
  BY <1>1 DEF Committed, LogOK, DriverFields
<1>5. e.committed = [h \in DOMAIN d.committed \cup {p.height} |->
                        IF h = p.height THEN [payload |-> p, cert |-> c] ELSE d.committed[h]]
  BY DEF Committed, LogOK, DriverFields
<1>6. DOMAIN e.committed = DOMAIN d.committed \cup {n + 1}
  BY <1>1, <1>5
<1>7. \A h \in DOMAIN d.committed : h \in 1 .. n /\ e.committed[h] = d.committed[h]
  BY <1>1, <1>5 DEF LogOK
<1>8. e.committed[n + 1].payload = p
  BY <1>1, <1>5
<1>9. DOMAIN e.committed \subseteq DOMAIN b.log
  BY <1>1, <1>3, <1>6, <1>7
<1>10. \A h \in DOMAIN e.committed : e.committed[h].payload = b.log[h]
  BY <1>3, <1>6, <1>7, <1>8 DEF LogOK
<1>11. \A h \in DOMAIN e.committed : \A g \in h .. Len(b.log) : g \in DOMAIN e.committed
  <2> SUFFICES ASSUME NEW h \in DOMAIN e.committed, NEW g \in h .. n + 1
               PROVE  g \in DOMAIN e.committed
    BY <1>3
  <2>1. CASE g = n + 1
    BY <2>1, <1>6
  <2>2. CASE g # n + 1
    <3>1. h \in Nat /\ h <= n + 1
      BY <1>1, <1>6, <1>7
    <3>2. h # n + 1 /\ g \in h .. n
      BY <2>2, <3>1, <1>1
    <3>3. h \in DOMAIN d.committed
      BY <3>2, <1>6
    <3> QED
      BY <3>2, <3>3, <1>6 DEF LogOK
  <2> QED
    BY <2>1, <2>2
<1>12. \A h \in DOMAIN b.log : b.log[h].height = h
  BY <1>1, <1>3 DEF LogOK
<1> HIDE DEF b, e
<1>13. LogOK(b, e)
  BY <1>2, <1>3, <1>4, <1>9, <1>10, <1>11, <1>12 DEF LogOK
<1> QED
  BY <1>13 DEF b, e

(* A step that only touches the other fields of the driver keeps the log   *)
(* in order (Propose, Verify, Report, CheckTx, SetVerifyCert).             *)
LEMMA OtherFieldsOK ==
    ASSUME NEW a, NEW d, LogOK(a, d), NEW e, DOMAIN e = DOMAIN d,
           e.next = d.next, e.committed = d.committed
    PROVE  LogOK(a, e)
BY DEF LogOK

(* Every step of the driver keeps the log in order.                        *)
LEMMA DriverStep ==
    ASSUME LogInv, [Next]_vars
    PROVE  LogInv'
<1> USE CwDriverAssumption
<1>0. DOMAIN drv = DriverFields
  BY DEF LogInv, LogOK
<1>1. CASE \E p \in Payloads : Propose(p) \/ Verify(p)
  <2>1. /\ app' = app /\ DOMAIN drv' = DOMAIN drv
        /\ drv'.next = drv.next /\ drv'.committed = drv.committed
    BY <1>0, <1>1 DEF Propose, Verify, DriverFields
  <2> QED
    BY <2>1, OtherFieldsOK DEF LogInv
<1>2. ASSUME NEW p \in Payloads \cup {NoPayload}, NEW c \in Certs \cup {NoCert},
             NEW ok \in BOOLEAN, Finalize(p, c, ok) \/ ApplyRemote(p, c, ok)
      PROVE  LogInv'
  <2>1. PICK remote \in BOOLEAN : finalize(p, c, remote, ok)
    BY Zenon, <1>2 DEF Finalize, ApplyRemote
  <2>2. CASE ok
    <3>1. p \in Payloads /\ p.height = drv.next
      BY <2>1 DEF finalize, Finalizes
    <3>2. PICK votes : app' = FinalizeBlock(app, p, votes)
      BY <2>1, <2>2 DEF finalize
    <3>3. drv' = Committed(app, drv, p, c)
      BY <2>1, <2>2 DEF finalize
    <3> QED
      BY <3>1, <3>2, <3>3, CommitOK DEF LogInv
  <2>3. CASE ~ ok
    BY <2>1, <2>3 DEF finalize, LogInv
  <2> QED
    BY <2>2, <2>3
<1>3. CASE \E t \in Txs : CheckTx(t)
  <2>1. /\ app' = app /\ DOMAIN drv' = DOMAIN drv
        /\ drv'.next = drv.next /\ drv'.committed = drv.committed
    BY <1>0, <1>3 DEF CheckTx, DriverFields
  <2> QED
    BY <2>1, OtherFieldsOK DEF LogInv
<1>4. CASE Report \/ SetVerifyCert
  <2>1. /\ app' = app /\ DOMAIN drv' = DOMAIN drv
        /\ drv'.next = drv.next /\ drv'.committed = drv.committed
    BY <1>0, <1>4 DEF Report, SetVerifyCert, DriverFields
  <2> QED
    BY <2>1, OtherFieldsOK DEF LogInv
<1>5. CASE Restart
  BY <1>5, NewDriverOK DEF Restart, LogInv, LogOK
<1>6. CASE UNCHANGED vars
  BY <1>6 DEF vars, LogInv
<1> QED
  BY <1>1, <1>2, <1>3, <1>4, <1>5, <1>6 DEF Next

(* The driver is in order from the first start on.                         *)
LEMMA DriverInit == Init => LogInv
<1> SUFFICES ASSUME Init PROVE LogInv
  OBVIOUS
<1>1. /\ DOMAIN InitChain = {"log", "vals", "votes"} /\ InitChain.log = << >>
  BY DEF InitChain
<1>2. InitChain.log \in Seq(Payloads) /\ \A h \in DOMAIN InitChain.log : FALSE
  BY <1>1
<1> QED
  BY Zenon, <1>1, <1>2, NewDriverOK DEF Init, LogInv

(* What the invariant says of the driver's answers.                        *)
LEMMA LogInvAgrees ==
    ASSUME LogInv
    PROVE  LogAgrees
<1>1. app.log \in Seq(Payloads) /\ DOMAIN drv.committed \subseteq DOMAIN app.log
  BY DEF LogInv, LogOK
<1>2. \A h \in DOMAIN drv.committed : PayloadAt(drv, h) = drv.committed[h]
  BY <1>1 DEF PayloadAt
<1> QED
  BY <1>1, <1>2 DEF LogInv, LogOK, LogAgrees, NextFollowsApp, ServedIsExecuted, ServedWithoutHoles

(* For every set of payloads, certificates and failures: the driver's next *)
(* height follows the application, what it serves to a node that catches   *)
(* up is what was executed there, and the blocks served have no holes      *)
(* (driver.go NewDriver, finalize, PayloadAt).                             *)
THEOREM DriverLog == Spec => []LogAgrees
<1>1. LogInv => LogAgrees
  BY LogInvAgrees
<1> QED
  BY <1>1, DriverInit, DriverStep, PTL DEF Spec

(* A step of the driver appends at most one block, of the next height.     *)
LEMMA LogStep ==
    ASSUME LogInv, [Next]_vars
    PROVE  [Log!Next]_(app.log)
<1> USE CwDriverAssumption
<1>1. ASSUME NEW p \in Payloads \cup {NoPayload}, NEW c \in Certs \cup {NoCert},
             NEW ok \in BOOLEAN, Finalize(p, c, ok) \/ ApplyRemote(p, c, ok)
      PROVE  [Log!Next]_(app.log)
  <2>1. PICK remote \in BOOLEAN : finalize(p, c, remote, ok)
    BY Zenon, <1>1 DEF Finalize, ApplyRemote
  <2>2. CASE ok
    <3>1. p \in Payloads /\ p.height = Len(app.log) + 1
      BY <2>1 DEF finalize, Finalizes, LogInv, LogOK
    <3>2. app'.log = Append(app.log, p)
      BY <2>1, <2>2 DEF finalize, FinalizeBlock
    <3> QED
      BY <3>1, <3>2 DEF Log!Next, Log!Execute
  <2>3. CASE ~ ok
    BY <2>1, <2>3 DEF finalize
  <2> QED
    BY <2>2, <2>3
<1> QED
  BY Zenon, <1>1 DEF Next, Propose, Verify, CheckTx, Report, SetVerifyCert, Restart, vars

(* The blocks the application behind the driver commits implement the      *)
(* append-only log of CwLog.                                               *)
THEOREM DriverImplementsLog == Spec => LogRefines
<1>1. Init => Log!Init
  BY DEF Init, InitChain, Log!Init
<1> QED
  BY <1>1, DriverInit, DriverStep, LogStep, PTL DEF Spec, LogRefines, Log!Spec

(* What is in the mempool was taken in after every block that holds it.    *)
PoolInv ==
    /\ drv.mempool \subseteq Txs
    /\ fresh \in [Txs -> Nat]
    /\ NeverReproposed

(* Every step of the driver keeps the mempool clear of executed            *)
(* transactions: finalize prunes it, a restart empties it, and what a      *)
(* client sends is newer than every block (driver.go finalize, CheckTx).   *)
LEMMA PoolStep ==
    ASSUME LogInv, PoolInv, [Next]_vars
    PROVE  PoolInv'
<1> USE CwDriverAssumption
<1>0. /\ DOMAIN drv = DriverFields /\ app.log \in Seq(Payloads)
      /\ Len(app.log) \in Nat /\ DOMAIN app.log = 1 .. Len(app.log)
  BY DEF LogInv, LogOK
<1>1. CASE (\E p \in Payloads : Propose(p) \/ Verify(p)) \/ Report \/ SetVerifyCert
  <2>1. app' = app /\ fresh' = fresh /\ drv'.mempool = drv.mempool
    BY <1>0, <1>1 DEF Propose, Verify, Report, SetVerifyCert, DriverFields
  <2> QED
    BY <2>1 DEF PoolInv, NeverReproposed
<1>2. ASSUME NEW p \in Payloads \cup {NoPayload}, NEW c \in Certs \cup {NoCert},
             NEW ok \in BOOLEAN, Finalize(p, c, ok) \/ ApplyRemote(p, c, ok)
      PROVE  PoolInv'
  <2>1. PICK remote \in BOOLEAN : finalize(p, c, remote, ok)
    BY Zenon, <1>2 DEF Finalize, ApplyRemote
  <2>2. CASE ok
    <3>1. p \in Payloads
      BY <2>1 DEF finalize, Finalizes
    <3>2. app'.log = Append(app.log, p) /\ drv'.mempool = drv.mempool \ p.txs /\ fresh' = fresh
      BY <1>0, <2>1, <2>2 DEF finalize, FinalizeBlock, Committed, DriverFields
    <3>3. \A h \in DOMAIN app'.log : IF h \in DOMAIN app.log THEN app'.log[h] = app.log[h]
                                                             ELSE app'.log[h] = p
      BY <1>0, <3>1, <3>2
    <3>4. NeverReproposed'
      BY Zenon, <3>2, <3>3 DEF PoolInv, NeverReproposed
    <3> QED
      BY <3>2, <3>4 DEF PoolInv
  <2>3. CASE ~ ok
    BY <2>1, <2>3 DEF finalize, PoolInv, NeverReproposed
  <2> QED
    BY <2>2, <2>3
<1>3. ASSUME NEW t \in Txs, CheckTx(t)
      PROVE  PoolInv'
  <2>1. /\ app' = app /\ drv'.mempool = drv.mempool \cup {t}
        /\ fresh' = [fresh EXCEPT ![t] = Len(app.log)]
    BY <1>0, <1>3 DEF CheckTx, DriverFields
  <2>2. fresh' \in [Txs -> Nat] /\ fresh'[t] = Len(app.log)
        /\ \A u \in Txs \ {t} : fresh'[u] = fresh[u]
    BY <1>0, <2>1 DEF PoolInv
  <2>3. NeverReproposed'
    BY SMTT(30), <1>0, <2>1, <2>2 DEF PoolInv, NeverReproposed
  <2> QED
    BY <2>1, <2>2, <2>3 DEF PoolInv
<1>4. CASE Restart
  <2>1. app' = app /\ fresh' = fresh /\ drv'.mempool = {}
    BY <1>4 DEF Restart, NewDriver
  <2> QED
    BY <2>1 DEF PoolInv, NeverReproposed
<1>5. CASE UNCHANGED vars
  BY <1>5 DEF vars, PoolInv, NeverReproposed
<1> QED
  BY <1>1, <1>2, <1>3, <1>4, <1>5 DEF Next

(* No transaction is proposed again after the block that included it,      *)
(* unless a client sent it again after that block, however the block       *)
(* reached the driver (driver.go Propose, finalize, CheckTx).              *)
THEOREM DriverNeverReproposes == Spec => []NeverReproposed
<1>1. Init => PoolInv
  BY DEF Init, NewDriver, InitChain, PoolInv, NeverReproposed
<1>2. PoolInv => NeverReproposed
  BY DEF PoolInv
<1> QED
  BY <1>1, <1>2, DriverInit, DriverStep, PoolStep, PTL DEF Spec

-----------------------------------------------------------------------------
Entry == [payload : Payloads, pks : SUBSET Keys, signers : SUBSET Int, epoch : Int]

(* The network's decisions are in order: one payload for every height.     *)
NetOK ==
    /\ net \in Seq(Entry) /\ Len(net) <= MaxHeight
    /\ \A h \in DOMAIN net : net[h].payload.height = h
    /\ netVals \subseteq Keys /\ netSet \subseteq Keys
    /\ srvFrom \in Nat \ {0}

(* While the loop is fetching it has no payload yet; once it has one, both *)
(* parts are of the same decided block.                                    *)
CatchUpOK ==
    /\ cu.pc = "fetch" => /\ DOMAIN cu = {"pc", "req", "want", "payload", "cert"}
                          /\ cu.payload = NoPayload
    /\ cu.pc = "apply" => /\ \E h \in DOMAIN net : cu.payload = net[h].payload
                          /\ cu.cert.of = cu.payload

(* The inductive invariant for the executed blocks.                        *)
FollowInv == NetOK /\ LogInv /\ FollowsNetwork /\ CatchUpOK

(* Executing a decided block of the next height follows the network.       *)
LEMMA ExecuteDecided ==
    ASSUME FollowInv, UNCHANGED netVars, NEW i \in DOMAIN net, NEW c, NEW remote \in BOOLEAN,
           finalize(net[i].payload, c, remote, TRUE)
    PROVE  LogInv' /\ FollowsNetwork'
<1> DEFINE p == net[i].payload
<1>0. net' = net
  BY DEF netVars
<1>1. p \in Payloads /\ p.height = drv.next /\ p.height = i
  <2>1. net[i] \in Entry /\ p.height = i
    BY DEF FollowInv, NetOK
  <2>2. p.height = drv.next
    BY DEF finalize, Finalizes
  <2> QED
    BY <2>1, <2>2 DEF Entry
<1>2. PICK votes : app' = FinalizeBlock(app, p, votes)
  BY DEF finalize
<1>3. drv' = Committed(app, drv, p, c)
  BY DEF finalize
<1>4. LogInv'
  BY Zenon, <1>1, <1>2, <1>3, CommitOK DEF LogInv, FollowInv
<1>5. app'.log = Append(app.log, p) /\ app.log \in Seq(Payloads) /\ i = Len(app.log) + 1
  BY <1>1, <1>2 DEF FinalizeBlock, FollowInv, LogInv, LogOK
<1>6. FollowsNetwork'
  <2>1. Len(app'.log) <= Len(net)
    BY <1>5 DEF FollowInv, NetOK
  <2>2. \A h \in DOMAIN app'.log : app'.log[h] = net[h].payload
    BY <1>5 DEF FollowInv, FollowsNetwork
  <2> QED
    BY <1>0, <2>1, <2>2 DEF FollowsNetwork
<1> QED
  BY <1>4, <1>6

(* A driver whose log fields are unchanged still follows the network.      *)
LEMMA SameLog ==
    ASSUME FollowInv, UNCHANGED << app, netVars >>, DOMAIN drv' = DOMAIN drv,
           drv'.next = drv.next, drv'.committed = drv.committed
    PROVE  NetOK' /\ LogInv' /\ FollowsNetwork'
<1>1. LogOK(app, drv')
  BY OtherFieldsOK DEF FollowInv, LogInv
<1>2. LogOK(app', drv')
  BY Zenon, <1>1
<1> QED
  BY <1>2 DEF FollowInv, LogInv, NetOK, FollowsNetwork, netVars

(* A node's step keeps it on the network's decisions.                      *)
LEMMA FollowStep ==
    ASSUME FollowInv, [NodeNext]_nodeVars
    PROVE  FollowInv'
<1> USE CwDriverAssumption, CwNodeAssumption
<1>0. NetOK /\ LogInv /\ FollowsNetwork /\ CatchUpOK
  BY DEF FollowInv
<1>1. ASSUME NEW f \in Flips, NEW s \in SignerSets(netSet), Decide(f, s)
      PROVE  FollowInv'
  <2> DEFINE h == Len(net) + 1
             p == [height |-> h, txs |-> {}, flip |-> f]
             e == [payload |-> p, pks |-> netSet, signers |-> s, epoch |-> PeriodFromHeight(h)]
  <2>1. net' = Append(net, e)
    BY Zenon, <1>1 DEF Decide
  <2>2. UNCHANGED << app, drv, cu, srvFrom >> /\ Len(net) < MaxHeight
    BY Zenon, <1>1 DEF Decide, vars, procVars
  <2>3. h \in 1 .. MaxHeight
    BY <1>0, <2>2 DEF NetOK
  <2>4. p \in Payloads /\ p.height = h /\ f \subseteq Keys
    <3>1. p \in Payloads
      BY Zenon, <2>3
    <3> QED
      BY Zenon, <3>1
  <2>5. netVals' \subseteq Keys /\ netSet' \subseteq Keys
    BY Zenon, <1>0, <1>1, <2>4 DEF Decide, NetOK
  <2>6. e \in Entry
    <3>1. PeriodFromHeight(h) \in Int
      BY <2>3 DEF PeriodFromHeight
    <3>2. s \subseteq Int
      BY <1>1 DEF SignerSets
    <3> QED
      BY Zenon, <1>0, <2>4, <3>1, <3>2 DEF Entry, NetOK
  <2> HIDE DEF e
  <2>7. /\ net' \in Seq(Entry) /\ Len(net') = h /\ DOMAIN net' = 1 .. h /\ net'[h] = e
        /\ \A g \in DOMAIN net : net'[g] = net[g]
    BY <1>0, <2>1, <2>6 DEF NetOK
  <2>8. e.payload = p
    BY Zenon DEF e
  <2>9. NetOK'
    BY <1>0, <2>2, <2>3, <2>4, <2>5, <2>7, <2>8 DEF NetOK
  <2>10. FollowsNetwork'
    BY <1>0, <2>2, <2>7 DEF FollowsNetwork, NetOK, LogInv, LogOK
  <2>11. CatchUpOK'
    BY <1>0, <2>2, <2>7 DEF CatchUpOK, NetOK
  <2> QED
    BY Zenon, <1>0, <2>2, <2>9, <2>10, <2>11 DEF FollowInv, LogInv
<1>2. CASE startCommonware
  <2>1. LogInv'
    BY Zenon, <1>0, <1>2, NewDriverOK DEF startCommonware, LogInv, LogOK
  <2>2. CatchUpOK'
    <3>1. net' = net /\ (cu' = cu \/ cu' = [pc |-> "top"])
      BY Zenon, <1>2 DEF startCommonware, netVars
    <3> QED
      BY <1>0, <3>1 DEF CatchUpOK
  <2> QED
    BY Zenon, <1>0, <1>2, <2>1, <2>2 DEF startCommonware, FollowInv, NetOK, FollowsNetwork, netVars
<1>3. CASE CallStart
  <2>1. UNCHANGED << app, netVars, cu >> /\ DOMAIN drv' = DOMAIN drv
        /\ drv'.next = drv.next /\ drv'.committed = drv.committed
    BY Zenon, <1>0, <1>3 DEF CallStart, LogInv, LogOK, DriverFields
  <2>2. NetOK' /\ LogInv' /\ FollowsNetwork'
    BY Zenon, <2>1, SameLog
  <2> QED
    BY <1>0, <2>1, <2>2 DEF FollowInv, CatchUpOK, netVars
<1>4. ASSUME NEW i \in DOMAIN net, NEW s, NEW lost \in BOOLEAN, ReportFinalization(i, s, lost)
      PROVE  FollowInv'
  <2>1. UNCHANGED << netVars, cu >>
    BY <1>4 DEF ReportFinalization
  <2>2. ~ lost
    BY <1>4 DEF ReportFinalization, Finalize, finalize, Finalizes
  <2>3. finalize(net[i].payload, CertOf(net[i], s), FALSE, TRUE)
    BY Zenon, <1>4, <2>2 DEF ReportFinalization, Finalize
  <2>4. LogInv' /\ FollowsNetwork'
    BY Zenon, <2>1, <2>3, ExecuteDecided
  <2> QED
    BY <1>0, <2>1, <2>4 DEF FollowInv, NetOK, CatchUpOK, netVars
<1>5. CASE catchupApplies
  <2>1. UNCHANGED netVars /\ cu.pc = "apply" /\ CatchUpOK'
    BY Zenon, <1>5 DEF catchupApplies, CatchUpOK
  <2>2. PICK i \in DOMAIN net : cu.payload = net[i].payload
    BY Zenon, <1>0, <2>1 DEF CatchUpOK
  <2>3. CASE Finalizes(app, drv, cu.payload, cu.cert, TRUE)
    <3>1. finalize(net[i].payload, cu.cert, TRUE, TRUE)
      BY Zenon, <1>5, <2>2, <2>3 DEF catchupApplies, ApplyRemote
    <3>2. LogInv' /\ FollowsNetwork'
      BY Zenon, <2>1, <3>1, ExecuteDecided
    <3> QED
      BY <1>0, <2>1, <3>2 DEF FollowInv, NetOK, netVars
  <2>4. CASE ~ Finalizes(app, drv, cu.payload, cu.cert, TRUE)
    BY Zenon, <1>0, <1>5, <2>1, <2>4 DEF catchupApplies, vars, netVars, FollowInv, NetOK, LogInv, FollowsNetwork
  <2> QED
    BY Zenon, <2>3, <2>4
<1>6. ASSUME NEW a \in BOOLEAN, fetchPayloadAndCert(a)
      PROVE  FollowInv'
  <2>1. UNCHANGED << app, drv, net, netVals, netSet, srvFrom >> /\ cu.pc = "fetch" /\ cu.payload = NoPayload
        /\ DOMAIN cu = {"pc", "req", "want", "payload", "cert"}
    BY <1>0, <1>6 DEF fetchPayloadAndCert, netVars, vars, CatchUpOK
  <2> DEFINE r == ServerPayloadAt(cu.want)
             q == IF a /\ cu.req > 1 /\ r.payload # NoPayload THEN r.payload ELSE cu.payload
             c == IF a /\ r.cert # NoCert THEN r.cert ELSE cu.cert
             both == q # NoPayload /\ c # NoCert
  <2>2. cu' = IF ~ both /\ cu.req = 3 THEN [pc |-> "top"]
              ELSE [cu EXCEPT !.payload = q, !.cert = c, !.req = @ + 1,
                              !.pc = IF both THEN "apply" ELSE "fetch"]
    BY Zenon, <1>6 DEF fetchPayloadAndCert
  <2>3. CASE q = NoPayload
    <3>1. cu' = [pc |-> "top"] \/ (cu'.pc = "fetch" /\ cu'.payload = NoPayload
                                     /\ DOMAIN cu' = DOMAIN cu)
      BY Zenon, <2>1, <2>2, <2>3
    <3> QED
      BY <1>0, <2>1, <3>1 DEF FollowInv, CatchUpOK, NetOK, LogInv, FollowsNetwork
  <2>4. CASE q # NoPayload
    <3>1. a /\ q = r.payload /\ r.payload # NoPayload
      BY Zenon, <2>1, <2>4
    <3>2. cu.want \in srvFrom .. Len(net)
      BY Zenon, <3>1 DEF ServerPayloadAt
    <3>3. r = [payload |-> net[cu.want].payload,
               cert |-> CertOf(net[cu.want], net[cu.want].signers)]
      BY Zenon, <3>2 DEF ServerPayloadAt
    <3> HIDE DEF r
    <3>4. r.payload = net[cu.want].payload /\ r.cert.of = net[cu.want].payload
      BY Zenon, <3>3 DEF CertOf
    <3>5. r.cert # NoCert
      BY Zenon, <3>3 DEF CertOf, NoCert
    <3>6. c = r.cert /\ both
      BY <2>4, <3>1, <3>5
    <3>7. cu'.pc = "apply" /\ cu'.payload = r.payload /\ cu'.cert = r.cert
      BY Zenon, <2>1, <2>2, <3>1, <3>6
    <3>8. cu.want \in DOMAIN net
      BY <1>0, <3>2 DEF NetOK
    <3> QED
      BY Zenon, <1>0, <2>1, <3>4, <3>7, <3>8 DEF FollowInv, CatchUpOK, NetOK, LogInv, FollowsNetwork
  <2> QED
    BY <2>3, <2>4
<1>7. CASE \/ ServerRestart \/ Crash \/ startEpochBegin \/ StopReturns \/ StartSucceeds
           \/ StartFails \/ ThreadEnters \/ (\E r \in BOOLEAN : ThreadStartsEngine(r))
           \/ EngineExits \/ Rotation \/ catchupLoop \/ UNCHANGED nodeVars
  <2>1. UNCHANGED << app, drv, net, netVals, netSet >>
    BY Zenon, <1>7 DEF ServerRestart, Crash, startEpochBegin, StopReturns, StartSucceeds, StartFails,
       ThreadEnters, ThreadStartsEngine, EngineExits, Rotation, rotate, rotateMember, onCommit,
       catchupLoop, nodeVars, vars, netVars
  <2>2. srvFrom' \in Nat \ {0}
    <3>1. srvFrom' = srvFrom \/ srvFrom' = Len(net) + 1
      BY Zenon, <1>7 DEF ServerRestart, Crash, startEpochBegin, StopReturns, StartSucceeds,
         StartFails, ThreadEnters, ThreadStartsEngine, EngineExits, Rotation, rotate,
         rotateMember, onCommit, catchupLoop, nodeVars, netVars
    <3>2. Len(net) \in Nat
      BY <1>0 DEF NetOK
    <3> QED
      BY <1>0, <3>1, <3>2 DEF NetOK
  <2>3. \/ cu' = cu \/ cu' = Off
        \/ cu' = [pc |-> "fetch", req |-> 1, want |-> Len(app.log) + 1,
                  payload |-> NoPayload, cert |-> NoCert]
    BY Zenon, <1>7 DEF ServerRestart, Crash, ProcessDown, startEpochBegin, StopReturns, StartSucceeds,
       StartFails, ThreadEnters, ThreadStartsEngine, EngineExits, Rotation, rotate, rotateMember,
       onCommit, catchupLoop, nodeVars, procVars
  <2>4. CatchUpOK'
    BY <1>0, <2>1, <2>3 DEF CatchUpOK, Off
  <2> QED
    BY <1>0, <2>1, <2>2, <2>4 DEF FollowInv, NetOK, LogInv, FollowsNetwork
<1> QED
  BY Zenon, <1>1, <1>2, <1>3, <1>4, <1>5, <1>6, <1>7
     DEF NodeNext, StartEngine, Finalizations, CatchUp

(* The initial states follow the (empty) network.                          *)
LEMMA FollowInit ==
    ASSUME NodeInit
    PROVE  FollowInv
<1> USE CwDriverAssumption, CwNodeAssumption
<1>1. LogInv
  BY Zenon, DriverInit DEF NodeInit
<1>2. app.log = << >> /\ net = << >>
  BY Zenon DEF NodeInit, Init, InitChain
<1>3. NetOK
  BY <1>2 DEF NodeInit, NetOK
<1>4. FollowsNetwork
  BY <1>2 DEF FollowsNetwork
<1>5. CatchUpOK
  BY DEF NodeInit, CatchUpOK, Off
<1> QED
  BY Zenon, <1>1, <1>3, <1>4, <1>5 DEF FollowInv

(* The node executes what the network decided, height by height, and the   *)
(* catch-up loop applies a payload with the certificate it was committed   *)
(* with, whatever is lost, repeated or reordered (driver.go finalize,      *)
(* commonware.go fetchPayloadAndCert).                                     *)
THEOREM NodeFollows == NodeSpec => []ExecutesDecided
<1>1. FollowInv => ExecutesDecided
  BY DEF FollowInv, CatchUpOK, CatchupPaired, ExecutesDecided
<1> QED
  BY <1>1, FollowInit, FollowStep, PTL DEF NodeSpec

(* In the node too, whatever its threads, the network and crashes do, the  *)
(* driver's next height follows the application and what it serves was     *)
(* executed, without holes (driver.go NewDriver, finalize, PayloadAt).     *)
THEOREM NodeLog == NodeSpec => []LogAgrees
<1>1. FollowInv => LogAgrees
  BY LogInvAgrees DEF FollowInv
<1> QED
  BY <1>1, FollowInit, FollowStep, PTL DEF NodeSpec

(* A step of the node appends at most one block, of the next height.       *)
LEMMA NodeLogStep ==
    ASSUME FollowInv, [NodeNext]_nodeVars
    PROVE  [Log!Next]_(app.log)
<1>1. ASSUME NEW i \in DOMAIN net, NEW c, NEW remote \in BOOLEAN, finalize(net[i].payload, c, remote, TRUE)
      PROVE  [Log!Next]_(app.log)
  <2> DEFINE p == net[i].payload
  <2>1. p \in Payloads
    <3>1. net[i] \in Entry
      BY DEF FollowInv, NetOK
    <3> QED
      BY <3>1 DEF Entry
  <2>2. p.height = drv.next /\ drv.next = Len(app.log) + 1
    BY Zenon, <1>1 DEF finalize, Finalizes, FollowInv, LogInv, LogOK
  <2>3. app'.log = Append(app.log, p)
    BY <1>1 DEF finalize, FinalizeBlock
  <2> QED
    BY Zenon, <2>1, <2>2, <2>3 DEF Log!Next, Log!Execute
<1>2. ASSUME NEW i \in DOMAIN net, NEW s, NEW lost \in BOOLEAN, ReportFinalization(i, s, lost)
      PROVE  [Log!Next]_(app.log)
  <2>1. ~ lost
    BY <1>2 DEF ReportFinalization, Finalize, finalize, Finalizes
  <2>2. finalize(net[i].payload, CertOf(net[i], s), FALSE, TRUE)
    BY Zenon, <1>2, <2>1 DEF ReportFinalization, Finalize
  <2> QED
    BY Zenon, <1>1, <2>2
<1>3. CASE catchupApplies
  <2>1. PICK i \in DOMAIN net : cu.payload = net[i].payload
    BY Zenon, <1>3 DEF catchupApplies, FollowInv, CatchUpOK
  <2>2. CASE Finalizes(app, drv, cu.payload, cu.cert, TRUE)
    <3>1. finalize(net[i].payload, cu.cert, TRUE, TRUE)
      BY Zenon, <1>3, <2>1, <2>2 DEF catchupApplies, ApplyRemote
    <3> QED
      BY Zenon, <1>1, <3>1
  <2>3. CASE ~ Finalizes(app, drv, cu.payload, cu.cert, TRUE)
    BY Zenon, <1>3, <2>3 DEF catchupApplies, vars
  <2> QED
    BY Zenon, <2>2, <2>3
<1>4. CASE \/ \E f \in Flips, s \in SignerSets(netSet) : Decide(f, s)
           \/ ServerRestart \/ Crash \/ startCommonware \/ CallStart \/ startEpochBegin
           \/ StopReturns \/ StartSucceeds \/ StartFails \/ ThreadEnters
           \/ (\E r \in BOOLEAN : ThreadStartsEngine(r)) \/ EngineExits \/ Rotation
           \/ catchupLoop \/ (\E a \in BOOLEAN : fetchPayloadAndCert(a)) \/ UNCHANGED nodeVars
  <2>1. app' = app
    BY Zenon, <1>4 DEF Decide, ServerRestart, Crash, startCommonware, CallStart, startEpochBegin,
       StopReturns, StartSucceeds, StartFails, ThreadEnters, ThreadStartsEngine, EngineExits,
       Rotation, rotate, rotateMember, onCommit, catchupLoop, fetchPayloadAndCert, nodeVars, vars,
       procVars
  <2> QED
    BY Zenon, <2>1
<1> QED
  BY Zenon, <1>2, <1>3, <1>4 DEF NodeNext, StartEngine, Finalizations, CatchUp

(* The blocks a node executes implement the append-only log of CwLog:      *)
(* neither a crash nor catching up rewrites one.                           *)
THEOREM NodeImplementsLog == NodeSpec => LogRefines
<1>1. NodeInit => Log!Init
  BY DEF NodeInit, Init, InitChain, Log!Init
<1> QED
  BY <1>1, FollowInit, FollowStep, NodeLogStep, PTL DEF NodeSpec, LogRefines, Log!Spec

-----------------------------------------------------------------------------
(* Every step keeps the flag with at most one holder (ffi.rs lean_cw_stop, *)
(* engine.rs run_blocking).                                                *)
LEMMA RunningStep ==
    ASSUME OneEngine, [NodeNext]_nodeVars
    PROVE  OneEngine'
<1>1. CASE startEpochBegin
  <2>1. UNCHANGED << running, thread >> /\ (engine = NoEngine => engine' = NoEngine)
    BY <1>1 DEF startEpochBegin, StopRequested
  <2> QED
    BY <2>1 DEF OneEngine
<1>2. CASE CallStart
  <2>1. UNCHANGED << running, engine >> /\ thread'.pc = "new"
    BY <1>2 DEF CallStart
  <2> QED
    BY <2>1 DEF OneEngine
<1>3. CASE ThreadEnters
  <2>1. engine' = engine
    BY Zenon, <1>3 DEF ThreadEnters
  <2>2. CASE UNCHANGED running /\ thread' = NoThread
    BY <2>1, <2>2 DEF OneEngine, NoThread
  <2>3. CASE ~ running /\ running'
    BY Zenon, <2>1, <2>3 DEF OneEngine
  <2> QED
    BY <1>3, <2>2, <2>3 DEF ThreadEnters
<1>4. ASSUME NEW r \in BOOLEAN, ThreadStartsEngine(r)
      PROVE  OneEngine'
  BY Zenon, <1>4 DEF ThreadStartsEngine, OneEngine, NoThread
<1>5. CASE EngineExits
  BY <1>5 DEF EngineExits, OneEngine
<1>6. CASE Crash \/ StartFails
  <2>1. \/ UNCHANGED << running, thread, engine >>
        \/ running' = FALSE /\ thread' = NoThread /\ engine' = NoEngine
    BY <1>6 DEF Crash, StartFails, ProcessDown
  <2> QED
    BY <2>1 DEF OneEngine, NoThread
<1>7. CASE \/ \E f \in Flips, s \in SignerSets(netSet) : Decide(f, s)
           \/ ServerRestart \/ startCommonware \/ StopReturns \/ StartSucceeds
           \/ Finalizations \/ Rotation \/ CatchUp \/ UNCHANGED nodeVars
  <2>1. UNCHANGED << running, thread, engine >>
    BY Zenon, <1>7 DEF Decide, ServerRestart, startCommonware, StopReturns, StartSucceeds,
       Finalizations, ReportFinalization, Rotation, rotate, rotateMember, onCommit, CatchUp,
       catchupLoop, fetchPayloadAndCert, catchupApplies, nodeVars, procVars
  <2> QED
    BY <2>1 DEF OneEngine
<1> QED
  BY Zenon, <1>1, <1>2, <1>3, <1>4, <1>5, <1>6, <1>7 DEF NodeNext, StartEngine

(* RUNNING has one holder, the engine that runs or the thread that         *)
(* prepares one (the swap of RUNNING in engine.rs run_blocking).  The      *)
(* property is inductive: a thread enters only when the flag is unset,     *)
(* which says that no engine runs.                                         *)
THEOREM NodeOneEngine == NodeSpec => []OneEngine
<1>1. NodeInit => OneEngine
  BY DEF NodeInit, OneEngine, NoThread
<1> QED
  BY <1>1, RunningStep, PTL DEF NodeSpec

-----------------------------------------------------------------------------
(* Periods do not decrease with the height (keeper PeriodFromHeight).      *)
LEMMA DivMono ==
    ASSUME NEW b \in Nat \ {0}, NEW m \in Nat, NEW n \in Nat, m <= n
    PROVE  m \div b <= n \div b /\ m \div b \in Nat
<1>1. m = b * (m \div b) + (m % b) /\ n = b * (n \div b) + (n % b)
  OBVIOUS
<1>2. m % b \in 0 .. b-1 /\ n % b \in 0 .. b-1
  OBVIOUS
<1> DEFINE p == m \div b
           q == n \div b
           r == m % b
           s == n % b
<1>3. p \in Int /\ q \in Int /\ r \in 0 .. b-1 /\ s \in 0 .. b-1 /\ m = b * p + r /\ n = b * q + s
  BY <1>1, <1>2
<1> HIDE DEF p, q, r, s
<1>4. p <= q
  <2> SUFFICES ASSUME p > q PROVE FALSE
    BY <1>3
  <2>1. p >= q + 1
    BY <1>3
  <2>2. b * p >= b * (q + 1)
    BY <1>3, <2>1
  <2>3. b * (q + 1) = b * q + b
    BY <1>3
  <2> QED
    BY <2>2, <2>3, <1>3
<1>5. p \in Nat
  <2> SUFFICES ASSUME p <= -1 PROVE FALSE
    BY <1>3
  <2>1. b * p <= b * (-1)
    BY <1>3
  <2> QED
    BY <2>1, <1>3
<1> QED
  BY <1>4, <1>5 DEF p, q

(* Every epoch on its way to an engine is one the chain has reached:       *)
(* commits still to be reported are below next, and the queue, the rotator *)
(* and the engine thread hold periods of heights up to next.               *)
Reached(e) == e \in Int /\ e <= PeriodFromHeight(drv.next)

ReachedEpoch(r) == "epoch" \in DOMAIN r /\ Reached(r.epoch)

SameEpoch(r, q) == "epoch" \in DOMAIN r => ("epoch" \in DOMAIN q /\ q.epoch = r.epoch)

CbOK == /\ cb \in [{"engine", "catchup"} -> Nat]
        /\ \A t \in {"engine", "catchup"} : cb[t] < drv.next
ChOK     == rotateCh \in Seq(Int) /\ \A i \in DOMAIN rotateCh : Reached(rotateCh[i])
RotOK    == rot = Idle \/ ReachedEpoch(rot)
ThreadOK == thread = NoThread \/ ReachedEpoch(thread)
EngineOK == engine = NoEngine \/ ReachedEpoch(engine)

EpochsReached == CbOK /\ ChOK /\ RotOK /\ ThreadOK /\ EngineOK

EpochInv == FollowInv /\ EpochsReached

(* The height the driver expects next does not go down, a restart          *)
(* included (NewDriver reads the application's height).                    *)
LEMMA NextGrows ==
    ASSUME FollowInv, [NodeNext]_nodeVars
    PROVE  drv.next \in Nat /\ drv'.next \in Nat /\ drv.next <= drv'.next
<1>1. LogInv /\ LogInv'
  BY FollowStep DEF FollowInv
<1>2. Len(app.log) <= Len(app'.log)
  <2>0. app.log \in Seq(Payloads)
    BY <1>1 DEF LogInv, LogOK
  <2>1. CASE \E p, c, remote, ok : finalize(p, c, remote, ok)
    <3>1. PICK p, c, remote, ok : finalize(p, c, remote, ok)
      BY Zenon, <2>1
    <3>2. app' = app \/ app'.log = Append(app.log, p)
      BY <3>1 DEF finalize, FinalizeBlock
    <3> QED
      BY <2>0, <3>2
  <2>2. CASE app' = app
    BY <2>0, <2>2
  <2>3. (\E p, c, remote, ok : finalize(p, c, remote, ok)) \/ app' = app
    BY Zenon DEF NodeNext, Decide, ServerRestart, Crash, startCommonware, StartEngine, startEpochBegin,
       StopReturns, CallStart, StartSucceeds, StartFails, ThreadEnters, ThreadStartsEngine,
       EngineExits, Finalizations, ReportFinalization, Finalize, Rotation, rotate, rotateMember,
       onCommit, CatchUp, catchupLoop, fetchPayloadAndCert, catchupApplies, ApplyRemote, vars,
       nodeVars
  <2> QED
    BY Zenon, <2>1, <2>2, <2>3
<1> QED
  BY <1>1, <1>2 DEF LogInv, LogOK

(* Every step keeps every epoch on its way to an engine within the chain.  *)
LEMMA EpochStep ==
    ASSUME EpochInv, [NodeNext]_nodeVars
    PROVE  EpochInv'
<1>1. FollowInv /\ FollowInv'
  BY FollowStep DEF EpochInv
<1>2. drv.next \in Nat /\ drv'.next \in Nat /\ drv.next <= drv'.next
  BY Zenon, <1>1, NextGrows
<1>3. PeriodFromHeight(drv.next) \in Nat /\ PeriodFromHeight(drv'.next) \in Nat
      /\ PeriodFromHeight(drv.next) <= PeriodFromHeight(drv'.next)
  BY <1>2, DivMono, CwNodeAssumption DEF PeriodFromHeight
<1>4. \A e : Reached(e) => Reached(e)'
  BY <1>3 DEF Reached
<1>5. EpochsReached
  BY Zenon DEF EpochInv
<1>6. /\ cb' = cb \/ cb' = [engine |-> 0, catchup |-> 0] => CbOK'
      /\ rotateCh' = rotateCh \/ rotateCh' = << >> => ChOK'
      /\ rot' = rot \/ rot' = Idle => RotOK'
      /\ thread' = thread \/ thread' = NoThread => ThreadOK'
      /\ engine' = engine \/ engine' = NoEngine => EngineOK'
  <2>1. 0 < drv'.next
    BY <1>1 DEF FollowInv, LogInv, LogOK
  <2>2. cb' = cb \/ cb' = [engine |-> 0, catchup |-> 0] => CbOK'
    <3>1. CASE cb' = cb
      BY <1>2, <1>5, <3>1 DEF EpochsReached, CbOK
    <3>2. CASE cb' = [engine |-> 0, catchup |-> 0]
      BY <1>2, <2>1, <3>2 DEF CbOK
    <3> QED
      BY Zenon, <3>1, <3>2
  <2>3. rotateCh' = rotateCh \/ rotateCh' = << >> => ChOK'
    <3>1. CASE rotateCh' = rotateCh
      BY <1>4, <1>5, <3>1 DEF EpochsReached, ChOK
    <3>2. CASE rotateCh' = << >>
      BY <3>2 DEF ChOK
    <3> QED
      BY <3>1, <3>2
  <2>4. /\ rot' = rot \/ rot' = Idle => RotOK'
        /\ thread' = thread \/ thread' = NoThread => ThreadOK'
        /\ engine' = engine \/ engine' = NoEngine => EngineOK'
    BY Zenon, <1>4, <1>5 DEF EpochsReached, RotOK, ThreadOK, EngineOK, ReachedEpoch
  <2> QED
    BY Zenon, <2>2, <2>3, <2>4
<1>7. /\ rot # Idle /\ SameEpoch(rot, rot') => RotOK'
      /\ rot # Idle /\ SameEpoch(rot, thread') => ThreadOK'
      /\ thread # NoThread /\ SameEpoch(thread, thread') => ThreadOK'
      /\ thread # NoThread /\ SameEpoch(thread, engine') => EngineOK'
      /\ engine # NoEngine /\ SameEpoch(engine, engine') => EngineOK'
  BY <1>4, <1>5 DEF EpochsReached, RotOK, ThreadOK, EngineOK, ReachedEpoch, SameEpoch
<1>8. SUFFICES EpochsReached'
  BY <1>1 DEF EpochInv
<1>9. CASE startCommonware
  <2>1. UNCHANGED << cb, rotateCh, thread, engine >>
        /\ (rot' = rot \/ \E pks : rot' = Starting(0, pks, TRUE))
    BY Zenon, <1>9 DEF startCommonware
  <2>2. CASE \E pks : rot' = Starting(0, pks, TRUE)
    <3>1. PICK pks : rot' = Starting(0, pks, TRUE)
      BY Zenon, <2>2
    <3>2. "epoch" \in DOMAIN rot' /\ rot'.epoch = 0
      BY Zenon, <3>1 DEF Starting
    <3>3. RotOK'
      BY <1>3, <3>2 DEF RotOK, ReachedEpoch, Reached
    <3> QED
      BY <1>6, <2>1, <3>3 DEF EpochsReached
  <2> QED
    BY Zenon, <1>6, <2>1, <2>2 DEF EpochsReached
<1>10. CASE startEpochBegin
  <2>1. UNCHANGED << cb, rotateCh, thread >>
    BY <1>10 DEF startEpochBegin
  <2>2. rot # Idle /\ SameEpoch(rot, rot')
    BY <1>10 DEF startEpochBegin, Idle, SameEpoch
  <2>3. engine' = engine \/ (engine # NoEngine /\ SameEpoch(engine, engine'))
    BY Zenon, <1>10 DEF startEpochBegin, StopRequested, SameEpoch
  <2> QED
    BY <1>6, <1>7, <2>1, <2>2, <2>3 DEF EpochsReached
<1>11. CASE StopReturns \/ CallStart
  <2>1. UNCHANGED << cb, rotateCh, engine >>
    BY <1>11 DEF StopReturns, CallStart
  <2>2. rot # Idle /\ SameEpoch(rot, rot')
    BY <1>11 DEF StopReturns, CallStart, Idle, SameEpoch
  <2>3. thread' = thread \/ SameEpoch(rot, thread')
    BY <1>11 DEF StopReturns, CallStart, SameEpoch
  <2> QED
    BY <1>6, <1>7, <2>1, <2>2, <2>3 DEF EpochsReached
<1>12. CASE StartFails
  <2>1. CASE ProcessDown
    BY Zenon, <1>6, <2>1 DEF ProcessDown, EpochsReached
  <2>2. CASE ~ ProcessDown
    <3>1. UNCHANGED << cb, rotateCh, thread, engine >> /\ rot # Idle
      BY <1>12, <2>2 DEF StartFails, Idle
    <3>2. rot' = Idle \/ SameEpoch(rot, rot')
      BY Zenon, <1>12, <2>2 DEF StartFails, SameEpoch
    <3> QED
      BY <1>6, <1>7, <3>1, <3>2 DEF EpochsReached
  <2> QED
    BY Zenon, <2>1, <2>2
<1>13. CASE ThreadEnters
  <2>1. UNCHANGED << cb, rotateCh, rot, engine >> /\ thread # NoThread
    BY <1>13 DEF ThreadEnters, NoThread
  <2>2. thread' = NoThread \/ SameEpoch(thread, thread')
    BY Zenon, <1>13 DEF ThreadEnters, SameEpoch
  <2> QED
    BY <1>6, <1>7, <2>1, <2>2 DEF EpochsReached
<1>14. ASSUME NEW r \in BOOLEAN, ThreadStartsEngine(r)
       PROVE  EpochsReached'
  <2>1. UNCHANGED << cb, rotateCh, rot >> /\ thread # NoThread /\ thread' = NoThread
    BY <1>14 DEF ThreadStartsEngine, NoThread
  <2>2. engine' = engine \/ SameEpoch(thread, engine')
    BY Zenon, <1>14 DEF ThreadStartsEngine, SameEpoch
  <2> QED
    BY Zenon, <1>6, <1>7, <2>1, <2>2 DEF EpochsReached
<1>15. CASE rotate
  <2>1. UNCHANGED << cb, thread, engine >> /\ rotateCh # << >> /\ rotateCh' = Tail(rotateCh)
        /\ (rot' = Idle \/ rot' = [pc |-> "member", epoch |-> Head(rotateCh)])
    BY Zenon, <1>15 DEF rotate
  <2>2. ChOK /\ Reached(Head(rotateCh))
    BY <1>5, <2>1 DEF EpochsReached, ChOK
  <2>3. ChOK'
    <3>1. rotateCh' \in Seq(Int) /\ \A i \in DOMAIN rotateCh' : Reached(rotateCh'[i])
      BY <2>1, <2>2 DEF ChOK
    <3> QED
      BY Zenon, <1>4, <3>1 DEF ChOK
  <2>4. RotOK'
    <3>1. CASE rot' = [pc |-> "member", epoch |-> Head(rotateCh)]
      <4>1. "epoch" \in DOMAIN rot' /\ rot'.epoch = Head(rotateCh)
        BY Zenon, <3>1
      <4> QED
        BY Zenon, <1>4, <2>2, <4>1 DEF RotOK, ReachedEpoch
    <3> QED
      BY <1>6, <2>1, <3>1
  <2> QED
    BY Zenon, <1>6, <2>1, <2>3, <2>4 DEF EpochsReached
<1>16. CASE rotateMember
  <2>1. UNCHANGED << cb, rotateCh, thread, engine >> /\ rot # Idle
    BY <1>16 DEF rotateMember, Idle
  <2>2. rot' = Idle \/ SameEpoch(rot, rot')
    BY Zenon, <1>16 DEF rotateMember, Starting, SameEpoch
  <2> QED
    BY <1>6, <1>7, <2>1, <2>2 DEF EpochsReached
<1>17. ASSUME NEW t \in {"engine", "catchup"}, onCommit(t)
       PROVE  EpochsReached'
  <2> DEFINE e == PeriodFromHeight(cb[t] + 1)
  <2>1. UNCHANGED << rot, thread, engine >> /\ cb' = [cb EXCEPT ![t] = 0]
        /\ (rotateCh' = rotateCh \/ rotateCh' = Append(rotateCh, e))
    BY <1>17 DEF onCommit
  <2>2. CbOK /\ ChOK
    BY Zenon, <1>5 DEF EpochsReached
  <2>3. Reached(e)
    <3>1. cb[t] + 1 \in Nat /\ cb[t] + 1 <= drv.next
      BY <1>2, <2>2 DEF CbOK
    <3> QED
      BY <1>2, <3>1, DivMono, CwNodeAssumption DEF Reached, PeriodFromHeight
  <2> HIDE DEF e
  <2>4. ChOK'
    <3>1. CASE rotateCh' = Append(rotateCh, e)
      <4>1. e \in Int /\ rotateCh \in Seq(Int)
        BY Zenon, <2>2, <2>3 DEF ChOK, Reached
      <4>2. /\ rotateCh' \in Seq(Int) /\ DOMAIN rotateCh' = 1 .. Len(rotateCh) + 1
            /\ rotateCh'[Len(rotateCh) + 1] = e
            /\ \A i \in DOMAIN rotateCh : rotateCh'[i] = rotateCh[i]
        BY <3>1, <4>1
      <4>3. \A i \in DOMAIN rotateCh' : i = Len(rotateCh) + 1 \/ i \in DOMAIN rotateCh
        BY <4>1, <4>2
      <4>4. \A i \in DOMAIN rotateCh' : Reached(rotateCh'[i])
        BY Zenon, <2>2, <2>3, <4>2, <4>3 DEF ChOK
      <4> QED
        BY Zenon, <1>4, <4>2, <4>4 DEF ChOK
    <3> QED
      BY Zenon, <1>6, <2>1, <3>1
  <2>5. CbOK'
    BY <1>2, <2>1, <2>2 DEF CbOK
  <2> QED
    BY Zenon, <1>6, <2>1, <2>4, <2>5 DEF EpochsReached
<1>18. CASE Finalizations \/ catchupApplies
  <2>1. UNCHANGED << rotateCh, rot, thread, engine >>
    BY Zenon, <1>18 DEF Finalizations, ReportFinalization, catchupApplies
  <2>2. \/ cb' = cb
        \/ \E t \in {"engine", "catchup"} : \E p, c, remote :
              finalize(p, c, remote, TRUE) /\ cb' = [cb EXCEPT ![t] = p.height]
    <3>1. CASE Finalizations
      <4>1. PICK i \in DOMAIN net : \E s : \E lost \in BOOLEAN : ReportFinalization(i, s, lost)
        BY Zenon, <3>1 DEF Finalizations
      <4>2. PICK s : \E lost \in BOOLEAN : ReportFinalization(i, s, lost)
        BY <4>1
      <4>3. finalize(net[i].payload, CertOf(net[i], s), FALSE, TRUE)
            /\ cb' = [cb EXCEPT !["engine"] = net[i].payload.height]
        BY Zenon, <4>2 DEF ReportFinalization, Finalize, finalize, Finalizes
      <4> QED
        BY Zenon, <4>3
    <3>2. CASE catchupApplies
      BY Zenon, <3>2 DEF catchupApplies, ApplyRemote
    <3> QED
      BY Zenon, <1>18, <3>1, <3>2
  <2>3. ASSUME NEW t \in {"engine", "catchup"}, NEW p, NEW c, NEW remote,
               finalize(p, c, remote, TRUE), cb' = [cb EXCEPT ![t] = p.height]
        PROVE  CbOK'
    <3>1. p.height = drv.next /\ drv' = Committed(app, drv, p, c)
      BY <2>3 DEF finalize, Finalizes
    <3>2. drv'.next = drv.next + 1
      BY Zenon, <1>1, <3>1 DEF Committed, FollowInv, LogInv, LogOK, DriverFields
    <3> QED
      BY <1>2, <1>5, <2>3, <3>1, <3>2 DEF EpochsReached, CbOK
  <2> QED
    BY Zenon, <1>6, <2>1, <2>2, <2>3 DEF EpochsReached
<1>19. CASE \/ \E f \in Flips, s \in SignerSets(netSet) : Decide(f, s)
            \/ ServerRestart \/ Crash \/ StartSucceeds \/ EngineExits
            \/ catchupLoop \/ (\E a \in BOOLEAN : fetchPayloadAndCert(a)) \/ UNCHANGED nodeVars
  <2>1. /\ cb' = cb \/ cb' = [engine |-> 0, catchup |-> 0]
        /\ rotateCh' = rotateCh \/ rotateCh' = << >>
        /\ rot' = rot \/ rot' = Idle
        /\ thread' = thread \/ thread' = NoThread
        /\ engine' = engine \/ engine' = NoEngine
    BY Zenon, <1>19 DEF Decide, ServerRestart, Crash, ProcessDown, StartSucceeds, EngineExits,
       catchupLoop, fetchPayloadAndCert, nodeVars, procVars
  <2> QED
    BY <1>6, <2>1 DEF EpochsReached
<1> QED
  BY Zenon, <1>9, <1>10, <1>11, <1>12, <1>13, <1>14, <1>15, <1>16, <1>17, <1>18, <1>19
     DEF NodeNext, StartEngine, Rotation, CatchUp

(* No engine runs in an epoch the chain has not reached, whatever was      *)
(* queued, retried or lost on the way (commonware.go onCommit, rotate,     *)
(* startEpoch).                                                            *)
THEOREM NodeEpochs == NodeSpec => []EpochNotAhead
<1>1. NodeInit => EpochInv
  <2> SUFFICES ASSUME NodeInit PROVE EpochInv
    OBVIOUS
  <2>1. FollowInv /\ 0 < drv.next
    BY FollowInit DEF FollowInv, LogInv, LogOK
  <2>2. CbOK /\ ChOK
    BY <2>1 DEF NodeInit, CbOK, ChOK
  <2> QED
    BY Zenon, <2>1, <2>2 DEF NodeInit, EpochInv, EpochsReached, RotOK, ThreadOK, EngineOK
<1>2. EpochInv => EpochNotAhead
  BY DEF EpochInv, EpochsReached, EngineOK, ReachedEpoch, Reached, EpochNotAhead
<1> QED
  BY <1>1, <1>2, EpochStep, PTL DEF NodeSpec
=============================================================================
