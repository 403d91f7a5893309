-------------------------------- MODULE CwNode --------------------------------
(***************************************************************************)
(* One Commonware node: the driver of CwDriver together with everything    *)
(* that runs around it in the process (server/commonware.go and the engine *)
(* thread of crates/lean-cw-ffi): the start of the engine, the rotator     *)
(* that restarts it at a period boundary, the onCommit callback that feeds *)
(* the rotator through a bounded channel, and the catch-up loop of a node  *)
(* that was not a participant when its process started.                    *)
(*                                                                         *)
(* Simplex itself is external.  The rest of the network decides one        *)
(* payload for every height, in the epoch of the height's period, with the *)
(* participants frozen at the last boundary; a local engine of the same    *)
(* epoch and participants reports those decisions, in any order and any    *)
(* number of times, with or without the payload bytes.                     *)
(***************************************************************************)
EXTENDS CwDriver

CONSTANTS Self,            \* the node's own key
          BlocksPerPeriod,
          RotateCap,       \* capacity of rotateCh (4 in the code)
          StartAttempts,   \* calls of cwffi.Start in one startEpoch (15 in the code)
          Namespace,       \* the namespace engines sign in
          Flips,           \* the membership changes a block may carry
          MaxHeight,       \* bound: the last height the network decides
          MaxCrashes,      \* bound: crashes of this node
          MaxServerRestarts, \* bound: restarts of the catch-up server
          Lossy,           \* payload bytes may be missing when a finalization is reported
          SlowStop,        \* the engine may take longer to stop than lean_cw_stop waits
          FlakyDNS         \* resolving a bootstrapper's address may fail

ASSUME CwNodeAssumption ==
    /\ Self \in Keys
    /\ BlocksPerPeriod \in Nat \ {0}
    /\ RotateCap \in Nat \ {0}
    /\ StartAttempts \in Nat \ {0}
    /\ MaxHeight \in Nat
    /\ \A f \in Flips, h \in 1 .. MaxHeight : [height |-> h, txs |-> {}, flip |-> f] \in Payloads
    /\ << Lossy, SlowStop, FlakyDNS >> \in BOOLEAN \X BOOLEAN \X BOOLEAN

VARIABLES
    net,      \* decided: payload, participants, signers by height
    netVals,  \* membership bits after the last decided block
    netSet,   \* participants of the engines of the current epoch
    srvFrom,  \* first height the catch-up server has in memory
    restarts, \* restarts of the server so far
    crashes,
    up,       \* the process runs
    running,  \* RUNNING, the flag of the engine crate
    thread,   \* an engine thread that has not started its engine yet
    engine,   \* the engine that runs
    epoch,    \* cwEngine.epoch
    rotateCh,
    rot,      \* the goroutine that starts engines
    cb,       \* heights committed whose onCommit call is still to come
    cu        \* the catch-up loop

procVars == << running, thread, engine, epoch, rotateCh, rot, cb, cu >>
netVars  == << net, netVals, netSet, srvFrom, restarts >>
nodeVars == << vars, netVars, procVars, crashes, up >>

NoEngine == [epoch |-> -1]
NoThread == [pc |-> "none"]
Idle     == [pc |-> "idle"]
Off      == [pc |-> "off"]

PeriodFromHeight(h) == h \div BlocksPerPeriod

-----------------------------------------------------------------------------
(* The network *)

N3f1Quorum(n) == n - (n - 1) \div 3

SignerSets(pks) == {s \in SUBSET (0 .. Cardinality(pks) - 1) :
                        Cardinality(s) >= N3f1Quorum(Cardinality(pks))}

CertOf(e, s) == [form |-> "lcert", ns |-> Namespace, pks |-> e.pks, signers |-> s,
                 of |-> e.payload]

\* The raw finalization inside a certificate: what lastCertRaw keeps.
Raw(c) == [c EXCEPT !.form = "raw"]

\* The other nodes execute the block, so its certificate passes their weight check.
Decide(f, s) ==
    /\ Len(net) < MaxHeight
    /\ LET h    == Len(net) + 1
           e    == [payload |-> [height |-> h, txs |-> {}, flip |-> f],
                    pks |-> netSet, signers |-> s, epoch |-> PeriodFromHeight(h)]
           vals == (netVals \ f) \cup (f \ netVals)
       IN  /\ s \in SignerSets(netSet)
           /\ MeetsWeight(signedWeight(e, netVals), totalWeight(netVals))
           /\ vals # {}
           /\ net' = Append(net, e)
           /\ netVals' = vals
           /\ netSet' = IF PeriodFromHeight(h + 1) # PeriodFromHeight(h) THEN vals ELSE netSet
    /\ UNCHANGED << vars, procVars, srvFrom, restarts, crashes, up >>

ServerRestart ==
    /\ restarts < MaxServerRestarts
    /\ restarts' = restarts + 1
    /\ srvFrom' = Len(net) + 1
    /\ UNCHANGED << vars, procVars, net, netVals, netSet, crashes, up >>

-----------------------------------------------------------------------------
(* The process *)

ProcessDown ==
    /\ up' = FALSE
    /\ running' = FALSE /\ thread' = NoThread /\ engine' = NoEngine
    /\ epoch' = 0 /\ rotateCh' = << >> /\ rot' = Idle /\ cu' = Off
    /\ cb' = [engine |-> 0, catchup |-> 0]

Crash ==
    /\ up /\ crashes < MaxCrashes
    /\ crashes' = crashes + 1
    /\ ProcessDown
    /\ UNCHANGED << vars, netVars >>

Starting(ep, pks, boot) == [pc |-> "begin", epoch |-> ep, pks |-> pks, n |-> 0, boot |-> boot]

\* startCommonware: participants from the store, or from the genesis file.
startCommonware ==
    /\ ~ up
    /\ up' = TRUE
    /\ drv' = NewDriver(app)
    /\ LET pks == IF app.vals = {} THEN Genesis ELSE app.vals
       IN  IF Self \in pks
           THEN rot' = Starting(0, pks, TRUE) /\ UNCHANGED cu
           ELSE cu' = [pc |-> "top"] /\ UNCHANGED rot
    /\ UNCHANGED << app, fresh, netVars, crashes,
                    running, thread, engine, epoch, rotateCh, cb >>

-----------------------------------------------------------------------------
(* startEpoch and the engine thread *)

\* request_stop reaches an engine only once it waits on the stop channel.
StopRequested == IF engine = NoEngine THEN engine ELSE [engine EXCEPT !.stop = TRUE]

startEpochBegin ==
    /\ rot.pc = "begin"
    /\ engine' = IF running THEN StopRequested ELSE engine
    /\ rot' = [rot EXCEPT !.pc = IF running THEN "stop" ELSE "try"]
    /\ UNCHANGED << vars, netVars, crashes, up, running, thread, epoch, rotateCh, cb, cu >>

\* lean_cw_stop returns once the engine has stopped, or after four seconds.
StopReturns ==
    /\ rot.pc = "stop"
    /\ ~ running \/ SlowStop \/ engine = NoEngine
    /\ rot' = [rot EXCEPT !.pc = "try"]
    /\ UNCHANGED << vars, netVars, crashes, up, running, thread, engine, epoch, rotateCh, cb, cu >>

\* cwffi.Start: install the certificate check, spawn the engine thread.
CallStart ==
    /\ rot.pc = "try" /\ thread = NoThread
    /\ drv' = [drv EXCEPT !.verifyCert = TRUE]
    /\ thread' = [pc |-> "new", epoch |-> rot.epoch, pks |-> rot.pks]
    /\ rot' = [rot EXCEPT !.pc = "poll"]
    /\ UNCHANGED << app, fresh, netVars, crashes, up,
                    running, engine, epoch, rotateCh, cb, cu >>

\* lean_cw_start reports success as soon as it sees RUNNING.
StartSucceeds ==
    /\ rot.pc = "poll" /\ running
    /\ epoch' = rot.epoch
    /\ rot' = Idle
    /\ UNCHANGED << vars, netVars, crashes, up, running, thread, engine, rotateCh, cb, cu >>

\* It gives up when RUNNING stays unset; the last failure of the first start
\* ends the process, one of the rotator is only logged.
StartFails ==
    /\ rot.pc = "poll" /\ ~ running /\ thread = NoThread
    /\ IF rot.n + 1 < StartAttempts
       THEN /\ rot' = [rot EXCEPT !.pc = "try", !.n = @ + 1]
            /\ UNCHANGED << up, running, thread, engine, epoch, rotateCh, cb, cu >>
       ELSE IF rot.boot THEN ProcessDown
       ELSE rot' = Idle /\ UNCHANGED << up, running, thread, engine, epoch, rotateCh, cb, cu >>
    /\ UNCHANGED << vars, netVars, crashes >>

\* Mutant: RUNNING is set without looking at its old value.
ThreadEntersUnchecked ==
    /\ thread.pc = "new"
    /\ LET pks == IF app.vals = {} THEN thread.pks ELSE app.vals
       IN  IF Self \notin pks
           THEN thread' = NoThread /\ UNCHANGED running
           ELSE running' = TRUE /\ thread' = [thread EXCEPT !.pc = "prep", !.pks = pks]
    /\ UNCHANGED << vars, netVars, crashes, up, engine, epoch, rotateCh, rot, cb, cu >>

\* run_blocking: the participants are read again from the store.
ThreadEnters ==
    /\ thread.pc = "new"
    /\ LET pks == IF app.vals = {} THEN thread.pks ELSE app.vals
       IN  IF Self \notin pks \/ running
           THEN thread' = NoThread /\ UNCHANGED running
           ELSE running' = TRUE /\ thread' = [thread EXCEPT !.pc = "prep", !.pks = pks]
    /\ UNCHANGED << vars, netVars, crashes, up, engine, epoch, rotateCh, rot, cb, cu >>

\* A bootstrapper that does not resolve ends the thread and leaves RUNNING set.
ThreadStartsEngine(resolved) ==
    /\ thread.pc = "prep"
    /\ resolved \/ FlakyDNS
    /\ thread' = NoThread
    /\ engine' = IF resolved
                 THEN [epoch |-> thread.epoch, pks |-> thread.pks, stop |-> FALSE]
                 ELSE engine
    /\ UNCHANGED << vars, netVars, crashes, up, running, epoch, rotateCh, rot, cb, cu >>

EngineExits ==
    /\ engine # NoEngine /\ engine.stop /\ cb.engine = 0
    /\ engine' = NoEngine
    /\ running' = FALSE
    /\ UNCHANGED << vars, netVars, crashes, up, thread, epoch, rotateCh, rot, cb, cu >>

-----------------------------------------------------------------------------
(* Finalizations, onCommit, and the rotator *)

\* The reporter hands the driver the payload stored under the digest, or nothing.
ReportFinalization(i, s, lost) ==
    /\ engine # NoEngine /\ cb.engine = 0
    /\ net[i].epoch = engine.epoch /\ net[i].pks = engine.pks
    /\ s \in SignerSets(engine.pks)
    /\ lost => Lossy
    /\ Finalize(IF lost THEN NoPayload ELSE net[i].payload, CertOf(net[i], s), TRUE)
    /\ cb' = [cb EXCEPT !.engine = net[i].payload.height]
    /\ UNCHANGED << netVars, crashes, up, running, thread, engine, epoch, rotateCh, rot, cu >>

\* Mutants of the boundary test: one block early, one block late.
onCommitOff(t, off) ==
    /\ cb[t] # 0
    /\ LET h    == cb[t] + off
           next == PeriodFromHeight(h + 1)
       IN  rotateCh' = IF next # PeriodFromHeight(h) /\ Len(rotateCh) < RotateCap
                       THEN Append(rotateCh, next)
                       ELSE rotateCh
    /\ cb' = [cb EXCEPT ![t] = 0]
    /\ UNCHANGED << vars, netVars, crashes, up, running, thread, engine, epoch, rot, cu >>

onCommitEarly(t) == onCommitOff(t, 1)
onCommitLate(t)  == onCommitOff(t, -1)

onCommit(t) ==
    /\ cb[t] # 0
    /\ LET next == PeriodFromHeight(cb[t] + 1)
       IN  rotateCh' = IF next # PeriodFromHeight(cb[t]) /\ Len(rotateCh) < RotateCap
                       THEN Append(rotateCh, next)
                       ELSE rotateCh
    /\ cb' = [cb EXCEPT ![t] = 0]
    /\ UNCHANGED << vars, netVars, crashes, up, running, thread, engine, epoch, rot, cu >>

\* Mutant: an epoch one above the running one is taken for current.
rotateLax ==
    /\ up /\ rot.pc = "idle" /\ rotateCh # << >>
    /\ rotateCh' = Tail(rotateCh)
    /\ rot' = IF Head(rotateCh) <= epoch + 1 /\ running THEN Idle
              ELSE [pc |-> "member", epoch |-> Head(rotateCh)]
    /\ UNCHANGED << vars, netVars, crashes, up, running, thread, engine, epoch, cb, cu >>

rotate ==
    /\ up /\ rot.pc = "idle" /\ rotateCh # << >>
    /\ rotateCh' = Tail(rotateCh)
    /\ rot' = IF Head(rotateCh) <= epoch /\ running THEN Idle
              ELSE [pc |-> "member", epoch |-> Head(rotateCh)]
    /\ UNCHANGED << vars, netVars, crashes, up, running, thread, engine, epoch, cb, cu >>

\* A node that is no longer a participant keeps the engine it has.
rotateMember ==
    /\ rot.pc = "member"
    /\ rot' = IF Self \in app.vals THEN Starting(rot.epoch, app.vals, FALSE) ELSE Idle
    /\ UNCHANGED << vars, netVars, crashes, up, running, thread, engine, epoch, rotateCh, cb, cu >>

-----------------------------------------------------------------------------
(* The catch-up loop *)

\* What the server's PayloadAt gives for a height: its blocks are the network's.
ServerPayloadAt(h) ==
    IF h \in srvFrom .. Len(net)
    THEN [payload |-> net[h].payload, cert |-> CertOf(net[h], net[h].signers)]
    ELSE [payload |-> NoPayload,
          cert |-> IF Len(net) < srvFrom THEN NoCert
                   ELSE Raw(CertOf(net[Len(net)], net[Len(net)].signers))]

catchupLoop ==
    /\ cu.pc = "top" /\ ~ running /\ cb.catchup = 0
    /\ cu' = [pc |-> "fetch", req |-> 1, want |-> Len(app.log) + 1,
              payload |-> NoPayload, cert |-> NoCert]
    /\ UNCHANGED << vars, netVars, crashes, up, running, thread, engine, epoch, rotateCh, rot, cb >>

\* Mutant: the first certificate that arrives is kept.
fetchKeepsFirstCert(answered) ==
    /\ cu.pc = "fetch"
    /\ LET r == ServerPayloadAt(cu.want)
           p == IF answered /\ cu.req > 1 /\ r.payload # NoPayload THEN r.payload ELSE cu.payload
           c == IF answered /\ cu.cert = NoCert THEN r.cert ELSE cu.cert
           both == p # NoPayload /\ c # NoCert
       IN  cu' = IF ~ both /\ cu.req = 3 THEN [pc |-> "top"]
                 ELSE [cu EXCEPT !.payload = p, !.cert = c, !.req = @ + 1,
                                 !.pc = IF both THEN "apply" ELSE "fetch"]
    /\ UNCHANGED << vars, netVars, crashes, up, running, thread, engine, epoch, rotateCh, rot, cb >>

\* Three requests: /lean/certificate has no payload, /payload and /block have
\* both.  A part that is present replaces what an earlier answer gave.
fetchPayloadAndCert(answered) ==
    /\ cu.pc = "fetch"
    /\ LET r == ServerPayloadAt(cu.want)
           p == IF answered /\ cu.req > 1 /\ r.payload # NoPayload THEN r.payload ELSE cu.payload
           c == IF answered /\ r.cert # NoCert THEN r.cert ELSE cu.cert
           both == p # NoPayload /\ c # NoCert
       IN  cu' = IF ~ both /\ cu.req = 3 THEN [pc |-> "top"]
                 ELSE [cu EXCEPT !.payload = p, !.cert = c, !.req = @ + 1,
                                 !.pc = IF both THEN "apply" ELSE "fetch"]
    /\ UNCHANGED << vars, netVars, crashes, up, running, thread, engine, epoch, rotateCh, rot, cb >>

catchupApplies ==
    /\ cu.pc = "apply"
    /\ cu' = [pc |-> "top"]
    /\ IF Finalizes(app, drv, cu.payload, cu.cert, TRUE)
       THEN ApplyRemote(cu.payload, cu.cert, TRUE) /\ cb' = [cb EXCEPT !.catchup = cu.payload.height]
       ELSE UNCHANGED << vars, cb >>
    /\ UNCHANGED << netVars, crashes, up, running, thread, engine, epoch, rotateCh, rot >>

-----------------------------------------------------------------------------
NodeInit ==
    /\ Init
    /\ net = << >> /\ netVals = Genesis /\ netSet = Genesis
    /\ srvFrom = 1 /\ restarts = 0 /\ crashes = 0
    /\ up = FALSE
    /\ running = FALSE /\ thread = NoThread /\ engine = NoEngine
    /\ epoch = 0 /\ rotateCh = << >> /\ rot = Idle /\ cu = Off
    /\ cb = [engine |-> 0, catchup |-> 0]

StartEngine ==
    \/ startEpochBegin \/ StopReturns \/ CallStart \/ StartSucceeds \/ StartFails
    \/ ThreadEnters
    \/ \E r \in BOOLEAN : ThreadStartsEngine(r)
    \/ EngineExits

Finalizations ==
    \E i \in DOMAIN net : \E s \in SignerSets(net[i].pks), lost \in BOOLEAN :
        ReportFinalization(i, s, lost)

Rotation == rotate \/ rotateMember \/ \E t \in {"engine", "catchup"} : onCommit(t)

CatchUp == catchupLoop \/ (\E a \in BOOLEAN : fetchPayloadAndCert(a)) \/ catchupApplies

NodeNext ==
    \/ \E f \in Flips, s \in SignerSets(netSet) : Decide(f, s)
    \/ ServerRestart
    \/ Crash
    \/ startCommonware
    \/ StartEngine
    \/ Finalizations
    \/ Rotation
    \/ CatchUp

NodeSpec == NodeInit /\ [][NodeNext]_nodeVars

\* The process is started, its goroutines and threads run on, the network
\* keeps reporting what it decided.  A request may fail any number of times,
\* but the one for the payload is answered again and again.
NodeFairness ==
    /\ WF_nodeVars(startCommonware)
    /\ WF_nodeVars(StartEngine)
    /\ WF_nodeVars(Finalizations)
    /\ WF_nodeVars(Rotation)
    /\ WF_nodeVars(catchupLoop)
    /\ WF_nodeVars(\E a \in BOOLEAN : fetchPayloadAndCert(a))
    /\ SF_nodeVars(fetchPayloadAndCert(TRUE) /\ cu.req = 2)
    /\ WF_nodeVars(catchupApplies)

NodeLiveSpec == NodeSpec /\ NodeFairness

-----------------------------------------------------------------------------
(* Properties *)

\* The node executes what the network decided, height by height, however
\* finalizations are repeated, reordered or lost, and however the engine,
\* the catch-up loop and crashes interleave (driver.go finalize).
FollowsNetwork ==
    /\ Len(app.log) <= Len(net)
    /\ \A h \in DOMAIN app.log : app.log[h] = net[h].payload

\* The engine never runs in an epoch the chain has not reached: rotation is
\* triggered by the commit of the last block of a period (commonware.go
\* onCommit, rotate).
EpochNotAhead == engine # NoEngine => engine.epoch <= PeriodFromHeight(drv.next)

\* A payload fetched by the catch-up loop is applied with the certificate it
\* was committed with, although the parts come from separate requests and
\* the server moves on in between (commonware.go fetchPayloadAndCert).
CatchupPaired == cu.pc = "apply" => cu.cert.of = cu.payload

\* What the node executes is decided: height by height what the network
\* decided, and by catch-up only with the certificate of that very block.
ExecutesDecided == FollowsNetwork /\ CatchupPaired

\* RUNNING is set while an engine runs and while a thread prepares one, and
\* never for both, whichever of stop, start, polling and failed name
\* resolution come in between (engine.rs run_blocking, ffi.rs lean_cw_stop).
OneEngine ==
    /\ engine # NoEngine => running
    /\ thread.pc = "prep" => running
    /\ ~ (engine # NoEngine /\ thread.pc = "prep")

\* Every decided block is executed: by a member through the engines of one
\* epoch after the other, by a node outside the set through catch-up
\* (driver.go finalize, commonware.go rotate, catchupLoop).
Progress == \A h \in 1 .. MaxHeight : (Len(net) >= h) ~> (Len(app.log) >= h)

\* A node whose key stays in the set ends up running the engine of the
\* period that the chain has reached.
Rotates ==
    \A e \in 1 .. PeriodFromHeight(MaxHeight + 1) :
        (PeriodFromHeight(drv.next) >= e /\ Self \in app.vals) ~> (engine.epoch >= e)
=============================================================================
