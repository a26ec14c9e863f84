--------------------------- MODULE RegistryProofs ----------------------------
(***************************************************************************)
(* The registry keeps its types whoever runs the CLI; used by one process  *)
(* at a time, it keeps its promises whatever fails or is killed.           *)
(***************************************************************************)
EXTENDS Registry, TLAPS

LEMMA NoTokenType == NoToken \in Token
BY HostAssumption DEF NoToken, Token

LEMMA NoPeerType == NoPeer \in Peer
BY HostAssumption DEF NoPeer, Peer

LEMMA NoJobType == NoJob \in Job
BY NoTokenType, NoPeerType, HostAssumption DEF NoJob, Job

LEMMA MintType == \A m \in Mints : m \in 0..MaxMints /\ m # 0
BY HostAssumption DEF Mints

LEMMA HostType == \A h \in Hosts : h \in 0..LastHost
BY HostAssumption DEF Hosts

(* The copies a process saves are files of the right type.                 *)
LEMMA IssuedType ==
  ASSUME NEW p \in Procs, job[p] \in Job, job[p].device \in Devices, job[p].mint \in Mints
  PROVE  Issued(p) \in [Devices -> Token]
<1>1. [bearer |-> job[p].mint, revoked |-> FALSE] \in Token
  BY MintType DEF Token
<1>2. job[p].toks \in [Devices -> Token]
  BY DEF Job
<1> QED
  BY <1>1, <1>2 DEF Issued

LEMMA RevokedType ==
  ASSUME NEW p \in Procs, job[p] \in Job, job[p].device \in Devices
  PROVE  Revoked(p) \in [Devices -> Token]
<1>2. job[p].toks \in [Devices -> Token]
  BY DEF Job
<1>3. [job[p].toks[job[p].device] EXCEPT !.revoked = TRUE] \in Token
  BY <1>2 DEF Token
<1> QED
  BY <1>2, <1>3 DEF Revoked

LEMMA NewPeerType ==
  ASSUME NEW p \in Procs, job[p] \in Job, job[p].device \in Devices,
         job[p].mint \in Mints, job[p].address \in Hosts
  PROVE  [job[p].prs EXCEPT ![job[p].device] =
            [key |-> job[p].mint, address |-> job[p].address]] \in [Devices -> Peer]
<1>1. [key |-> job[p].mint, address |-> job[p].address] \in Peer
  BY MintType, HostType DEF Peer
<1>2. job[p].prs \in [Devices -> Peer]
  BY DEF Job
<1> QED
  BY <1>1, <1>2

(* The part of TypeOK about one process.                                   *)
ProcTyped(p) ==
  /\ pc[p] \in AddPlaces \cup {"idle", "revoke"}
  /\ job[p] \in Job
  /\ pc[p] # "idle" => job[p].device \in Devices
  /\ pc[p] \in AddPlaces => job[p].mint \in Mints /\ job[p].address \in Hosts

ProcsTyped ==
  /\ pc \in [Procs -> AddPlaces \cup {"idle", "revoke"}]
  /\ job \in [Procs -> Job]
  /\ \A p \in Procs : ProcTyped(p)

(* A step of process p leaves the others alone, so only p is to be typed.  *)
LEMMA ProcStep ==
  ASSUME ProcsTyped, NEW p \in Procs,
         NEW place \in AddPlaces \cup {"idle", "revoke"}, NEW j \in Job,
         pc' = [pc EXCEPT ![p] = place], job' = [job EXCEPT ![p] = j],
         place # "idle" => j.device \in Devices,
         place \in AddPlaces => j.mint \in Mints /\ j.address \in Hosts
  PROVE  ProcsTyped'
BY DEF ProcsTyped, ProcTyped

LEMMA ExitTyped ==
  ASSUME ProcsTyped, NEW p \in Procs, Exit(p)
  PROVE  ProcsTyped'
BY ProcStep, NoJobType DEF Exit, Goto, AddPlaces

(* Moving on with the same job, or with other copies in it.                *)
LEMMA GotoTyped ==
  ASSUME ProcsTyped, NEW p \in Procs, pc[p] \in AddPlaces,
         NEW place \in AddPlaces, Goto(p, place), UNCHANGED job
  PROVE  ProcsTyped'
BY DEF ProcsTyped, ProcTyped, Goto, AddPlaces

LEMMA CopyTyped ==
  ASSUME ProcsTyped, NEW p \in Procs, pc[p] \in AddPlaces,
         NEW place \in AddPlaces, Goto(p, place),
         NEW toks \in [Devices -> Token], job' = [job EXCEPT ![p].toks = toks]
  PROVE  ProcsTyped'
<1>1. job[p] \in Job /\ job[p].device \in Devices /\ job[p].mint \in Mints /\ job[p].address \in Hosts
  BY DEF ProcsTyped, ProcTyped, AddPlaces
<1> DEFINE j == [job[p] EXCEPT !.toks = toks]
<1>2. /\ j \in Job /\ j.device = job[p].device
      /\ j.mint = job[p].mint /\ j.address = job[p].address
  BY <1>1 DEF Job
<1>3. job' = [job EXCEPT ![p] = j]
  OBVIOUS
<1> QED
  BY <1>1, <1>2, <1>3, ProcStep DEF Goto

----------------------------------------------------------------------------

DataTyped ==
  /\ tokens \in [Devices -> Token] /\ peers \in [Devices -> Peer]
  /\ mode \in {"shared", "private"}
  /\ minted \in 0..MaxMints
  /\ bundles \subseteq Bundle /\ told \subseteq 0..MaxMints
  /\ server \in {"up", "down"} /\ cache \in [Devices -> Token]

LEMMA TypeSplit == TypeOK <=> DataTyped /\ ProcsTyped
BY DEF TypeOK, DataTyped, ProcsTyped, ProcTyped

LEMMA TypeJoin == DataTyped' /\ ProcsTyped' => TypeOK'
BY DEF TypeOK, DataTyped, ProcsTyped, ProcTyped

LEMMA JobFacts ==
  ASSUME ProcsTyped, NEW p \in Procs
  PROVE  /\ job[p] \in Job
         /\ pc[p] # "idle" => job[p].device \in Devices
         /\ pc[p] \in AddPlaces => job[p].mint \in Mints /\ job[p].address \in Hosts
BY DEF ProcsTyped, ProcTyped

LEMMA BeginTypes ==
  ASSUME TypeOK, NEW p \in Procs, NEW d \in Devices, AddBegin(p, d)
  PROVE  TypeOK'
<1> USE TypeSplit
<1>1. PICK h \in Allocate(peers) :
        job' = [job EXCEPT ![p] = [device |-> d, mint |-> minted + 1, address |-> h,
                                   toks |-> NoJob.toks, prs |-> peers]]
  BY DEF AddBegin
<1>2. h \in Hosts
  BY DEF Allocate, Free
<1>3. minted + 1 \in Mints /\ minted + 1 \in 0..MaxMints
  BY HostAssumption DEF AddBegin, DataTyped, Mints
<1> DEFINE j == [device |-> d, mint |-> minted + 1, address |-> h,
                 toks |-> NoJob.toks, prs |-> peers]
<1>4. NoJob.toks \in [Devices -> Token] /\ peers \in [Devices -> Peer]
  BY NoJobType DEF Job, DataTyped
<1>5. /\ j \in Job
      /\ j.device \in Devices /\ j.mint \in Mints /\ j.address \in Hosts
  BY <1>2, <1>3, <1>4, HostType DEF Job
<1>6. ProcsTyped'
  <2> HIDE DEF j
  <2>1. job' = [job EXCEPT ![p] = j] /\ pc' = [pc EXCEPT ![p] = "load"]
    BY <1>1 DEF AddBegin, Goto, j
  <2> QED
    BY <1>5, <2>1, ProcStep DEF AddPlaces
<1>7. DataTyped'
  BY <1>3 DEF AddBegin, DataTyped, files, serverVars
<1> QED
  BY <1>6, <1>7, TypeJoin

LEMMA RevokeBeginTypes ==
  ASSUME TypeOK, NEW p \in Procs, NEW d \in Devices, RevokeBegin(p, d)
  PROVE  TypeOK'
<1> USE TypeSplit
<1> DEFINE j == [NoJob EXCEPT !.device = d, !.toks = tokens]
<1>1. j \in Job /\ j.device = d
  BY NoJobType DEF Job, DataTyped
<1>2. ProcsTyped'
  <2> HIDE DEF j
  <2>1. job' = [job EXCEPT ![p] = j] /\ pc' = [pc EXCEPT ![p] = "revoke"]
    BY DEF RevokeBegin, Goto, j
  <2> QED
    BY <1>1, <2>1, ProcStep DEF AddPlaces
<1>3. DataTyped'
  BY DEF RevokeBegin, DataTyped, files, serverVars
<1> QED
  BY <1>2, <1>3, TypeJoin

LEMMA AddTypes ==
  ASSUME TypeOK, NEW p \in Procs,
         AddLoad(p) \/ AddToken(p) \/ AddPeer(p) \/ AddRollback(p) \/ AddBundle(p)
  PROVE  TypeOK'
<1>a. DataTyped /\ ProcsTyped
  BY TypeSplit
<1>b. /\ job[p] \in Job
      /\ pc[p] # "idle" => job[p].device \in Devices
      /\ pc[p] \in AddPlaces => job[p].mint \in Mints /\ job[p].address \in Hosts
  BY <1>a, JobFacts
<1>1. CASE AddLoad(p)
  <2>1. ProcsTyped'
    BY <1>1, <1>a, ExitTyped, CopyTyped DEF AddLoad, AddPlaces, DataTyped
  <2>2. DataTyped'
    BY <1>1, <1>a DEF AddLoad, DataTyped, files, serverVars
  <2> QED
    BY <2>1, <2>2, TypeJoin
<1>2. CASE AddToken(p)
  <2>1. Issued(p) \in [Devices -> Token]
    BY <1>2, <1>b, IssuedType DEF AddToken, AddPlaces
  <2>2. ProcsTyped'
    BY <1>2, <1>a, <2>1, ExitTyped, CopyTyped DEF AddToken, AddPlaces
  <2>3. DataTyped'
    BY <1>2, <1>a, <2>1 DEF AddToken, SaveTokens, DataTyped, serverVars
  <2> QED
    BY <2>2, <2>3, TypeJoin
<1>3. CASE AddPeer(p)
  <2>1. [job[p].prs EXCEPT ![job[p].device] =
            [key |-> job[p].mint, address |-> job[p].address]] \in [Devices -> Peer]
    BY <1>3, <1>b, NewPeerType DEF AddPeer, AddPlaces
  <2>2. ProcsTyped'
    BY <1>3, <1>a, GotoTyped, ExitTyped DEF AddPeer, AddPlaces
  <2>3. DataTyped'
    BY <1>3, <1>a, <2>1 DEF AddPeer, DataTyped, serverVars
  <2> QED
    BY <2>2, <2>3, TypeJoin
<1>4. CASE AddRollback(p)
  <2>1. Revoked(p) \in [Devices -> Token]
    BY <1>4, <1>b, RevokedType DEF AddRollback
  <2>2. ProcsTyped'
    BY <1>4, <1>a, ExitTyped DEF AddRollback
  <2>3. DataTyped'
    BY <1>4, <1>a, <2>1 DEF AddRollback, SaveTokens, DataTyped, serverVars
  <2> QED
    BY <2>2, <2>3, TypeJoin
<1>5. CASE AddBundle(p)
  <2>1. [device |-> job[p].device, bearer |-> job[p].mint, address |-> job[p].address] \in Bundle
    BY <1>5, <1>b DEF AddBundle, AddPlaces, Bundle
  <2>2. ProcsTyped'
    BY <1>5, <1>a, ExitTyped DEF AddBundle
  <2>3. DataTyped'
    BY <1>5, <1>a, <2>1 DEF AddBundle, DataTyped, files, serverVars
  <2> QED
    BY <2>2, <2>3, TypeJoin
<1> QED
  BY <1>1, <1>2, <1>3, <1>4, <1>5

LEMMA RevokeSaveTypes ==
  ASSUME TypeOK, NEW p \in Procs, RevokeSave(p)
  PROVE  TypeOK'
<1>a. DataTyped /\ ProcsTyped
  BY TypeSplit
<1>b. job[p] \in Job /\ job[p].device \in Devices
  BY <1>a, JobFacts DEF RevokeSave
<1>1. Revoked(p) \in [Devices -> Token]
  BY <1>b, RevokedType
<1>2. job[p].toks[job[p].device].bearer \in 0..MaxMints
  BY <1>b DEF Job, Token
<1>3. ProcsTyped'
  BY <1>a, ExitTyped DEF RevokeSave
<1>4. DataTyped'
  <2>1. told' \subseteq 0..MaxMints
    BY <1>a, <1>2 DEF RevokeSave, Tell, DataTyped
  <2>2. tokens' \in [Devices -> Token] /\ mode' \in {"shared", "private"}
    BY <1>a, <1>1 DEF RevokeSave, SaveTokens, DataTyped
  <2> QED
    BY <1>a, <2>1, <2>2 DEF RevokeSave, DataTyped, serverVars
<1> QED
  BY <1>3, <1>4, TypeJoin

LEMMA OtherTypes ==
  ASSUME TypeOK, (\E p \in Procs : Crash(p)) \/ Restart \/ Chmod \/ UNCHANGED vars
  PROVE  TypeOK'
<1>a. DataTyped /\ ProcsTyped
  BY TypeSplit
<1>1. CASE \E p \in Procs : Crash(p)
  <2>1. ProcsTyped'
    BY <1>1, <1>a, ExitTyped DEF Crash
  <2>2. DataTyped'
    BY <1>1, <1>a DEF Crash, DataTyped, files, serverVars
  <2> QED
    BY <2>1, <2>2, TypeJoin
<1>2. CASE Restart \/ Chmod \/ UNCHANGED vars
  <2>1. UNCHANGED cliVars
    BY <1>2 DEF Restart, Chmod, vars
  <2>2. ProcsTyped'
    BY <1>a, <2>1 DEF ProcsTyped, ProcTyped, cliVars
  <2>3. DataTyped'
    BY <1>2, <1>a DEF Restart, Chmod, vars, DataTyped, files, serverVars
  <2> QED
    BY <2>2, <2>3, TypeJoin
<1> QED
  BY <1>1, <1>2

LEMMA TypeInit == Init => TypeOK
BY NoTokenType, NoPeerType, NoJobType, HostAssumption DEF Init, TypeOK, AddPlaces

LEMMA TypeStep == TypeOK /\ [Next]_vars => TypeOK'
<1> SUFFICES ASSUME TypeOK, [Next]_vars PROVE TypeOK'
  OBVIOUS
<1>1. ASSUME NEW p \in Procs, Add(p) \/ RevokeCmd(p) PROVE TypeOK'
  BY <1>1, BeginTypes, AddTypes, RevokeBeginTypes, RevokeSaveTypes DEF Add, RevokeCmd
<1> QED
  BY <1>1, OtherTypes DEF Next

(* Every variable of the registry keeps its type (tokens.py, peers.py,     *)
(* cli.py), with any number of processes at once.                          *)
THEOREM RegistryTypeCorrect == Spec => []TypeOK
<1>1. Init => TypeOK
  BY TypeInit
<1>2. TypeOK /\ [Next]_vars => TypeOK'
  BY TypeStep
<1> QED
  BY <1>1, <1>2, PTL DEF Spec

----------------------------------------------------------------------------
(* The CLI used by one process at a time.                                  *)

Solo == \A p, q \in Procs : p = q

Copy(p) == job[p].device

\* What a process knows of the files while it is the only one.
Working(p) ==
  /\ pc[p] \in {"load", "token", "peer", "rollback"} =>
       /\ job[p].prs = peers /\ peers[Copy(p)] = NoPeer
       /\ job[p].address # 1
       /\ \A e \in Devices : peers[e].address # job[p].address
  /\ pc[p] \in {"load", "token"} =>
       /\ job[p].mint \notin told
       /\ \A e \in Devices : tokens[e].bearer # job[p].mint
  /\ pc[p] \in AddPlaces => job[p].mint <= minted
  /\ pc[p] = "token" => job[p].toks = tokens /\ tokens[Copy(p)] = NoToken
  /\ pc[p] \in {"peer", "rollback"} =>
       /\ job[p].toks = tokens
       /\ tokens[Copy(p)] = [bearer |-> job[p].mint, revoked |-> FALSE]
  /\ pc[p] = "bundle" =>
       /\ tokens[Copy(p)].bearer = job[p].mint
       /\ peers[Copy(p)] = [key |-> job[p].mint, address |-> job[p].address]
  /\ pc[p] = "revoke" =>
       /\ job[p].toks = tokens
       /\ tokens[Copy(p)] # NoToken /\ ~tokens[Copy(p)].revoked

\* The bearers in use were minted, each for one device.
BearersSound ==
  /\ \A b \in told : b # 0 /\ b <= minted
  /\ \A d \in Devices : tokens[d] # NoToken => tokens[d].bearer # 0
  /\ \A d \in Devices : tokens[d].bearer <= minted
  /\ \A d, e \in Devices : d # e /\ tokens[d] # NoToken => tokens[d].bearer # tokens[e].bearer

PeersSound ==
  /\ \A d \in Devices : peers[d] # NoPeer => peers[d].address # 1 /\ peers[d].address # 0 /\ peers[d].key # 0
  /\ \A d, e \in Devices : d # e /\ peers[d] # NoPeer => peers[d].address # peers[e].address

SoloInv ==
  /\ \A p \in Procs : Working(p)
  /\ BearersSound /\ PeersSound
  /\ PeerHasToken /\ BundleKnown /\ CacheIsPast /\ RevokeMarks

\* The only ways a step changes the files.
TokenShape ==
  \/ UNCHANGED tokens
  \/ \E d \in Devices, m \in Mints :
       /\ tokens[d] = NoToken /\ m \notin told /\ m <= minted
       /\ \A e \in Devices : tokens[e].bearer # m
       /\ tokens' = [tokens EXCEPT ![d] = [bearer |-> m, revoked |-> FALSE]]
  \/ \E d \in Devices :
       /\ tokens[d] # NoToken /\ ~tokens[d].revoked
       /\ tokens' = [tokens EXCEPT ![d].revoked = TRUE]

ToldShape ==
  \/ UNCHANGED told
  \/ \E d \in Devices :
       /\ tokens[d] # NoToken /\ tokens' = [tokens EXCEPT ![d].revoked = TRUE]
       /\ told' = told \cup {tokens[d].bearer}

PeerShape ==
  \/ UNCHANGED peers
  \/ \E d \in Devices, m \in Mints, h \in Hosts :
       /\ peers[d] = NoPeer /\ tokens[d].bearer = m /\ h # 1
       /\ \A e \in Devices : peers[e].address # h
       /\ peers' = [peers EXCEPT ![d] = [key |-> m, address |-> h]]

BundleShape ==
  \/ UNCHANGED bundles
  \/ \E b \in Bundle :
       /\ tokens[b.device].bearer = b.bearer
       /\ peers[b.device] = [key |-> b.bearer, address |-> b.address]
       /\ bundles' = bundles \cup {b}

CacheShape == UNCHANGED cache \/ cache' = tokens

Shapes == TokenShape /\ ToldShape /\ PeerShape /\ BundleShape /\ CacheShape

LEMMA WorkerFacts ==
  ASSUME TypeOK, NEW p \in Procs
  PROVE  /\ job[p] \in Job
         /\ pc[p] # "idle" => Copy(p) \in Devices
         /\ pc[p] \in AddPlaces => job[p].mint \in Mints /\ job[p].address \in Hosts
         /\ pc[p] = "idle" \/ pc[p] = "revoke" \/ pc[p] \in AddPlaces
BY DEF TypeOK, Copy

LEMMA AddShapes ==
  ASSUME TypeOK, SoloInv, NEW p \in Procs, Add(p)
  PROVE  Shapes
<1>a. Working(p)
  BY DEF SoloInv
<1>b. /\ pc[p] # "idle" => Copy(p) \in Devices
      /\ pc[p] \in AddPlaces => job[p].mint \in Mints /\ job[p].address \in Hosts
  BY WorkerFacts
<1>c. tokens \in [Devices -> Token]
  BY DEF TypeOK
<1>1. CASE (\E d \in Devices : AddBegin(p, d)) \/ AddLoad(p)
  BY <1>1 DEF AddBegin, AddLoad, files, serverVars, Shapes, TokenShape, ToldShape,
     PeerShape, BundleShape, CacheShape
<1>2. CASE AddToken(p)
  <2>1. /\ Copy(p) \in Devices /\ job[p].mint \in Mints
        /\ tokens[Copy(p)] = NoToken /\ job[p].mint \notin told /\ job[p].mint <= minted
        /\ \A e \in Devices : tokens[e].bearer # job[p].mint
        /\ Issued(p) = [tokens EXCEPT ![Copy(p)] = [bearer |-> job[p].mint, revoked |-> FALSE]]
    BY <1>2, <1>a, <1>b DEF AddToken, AddPlaces, Working, Issued, Copy
  <2>2. tokens' = Issued(p) \/ UNCHANGED tokens
    BY <1>2 DEF AddToken, SaveTokens
  <2>3. TokenShape
    BY <2>1, <2>2 DEF TokenShape
  <2>4. UNCHANGED <<told, peers, bundles, cache>>
    BY <1>2 DEF AddToken, serverVars
  <2> QED
    BY <2>3, <2>4 DEF Shapes, ToldShape, PeerShape, BundleShape, CacheShape
<1>3. CASE AddPeer(p)
  <2>1. /\ Copy(p) \in Devices /\ job[p].mint \in Mints /\ job[p].address \in Hosts
        /\ peers[Copy(p)] = NoPeer /\ job[p].address # 1
        /\ tokens[Copy(p)].bearer = job[p].mint
        /\ \A e \in Devices : peers[e].address # job[p].address
        /\ job[p].prs = peers
    BY <1>3, <1>a, <1>b DEF AddPeer, AddPlaces, Working
  <2>2. \/ UNCHANGED peers
        \/ peers' = [peers EXCEPT ![Copy(p)] = [key |-> job[p].mint, address |-> job[p].address]]
    BY <1>3, <2>1 DEF AddPeer, Copy
  <2>3. PeerShape
    BY <2>1, <2>2 DEF PeerShape
  <2>4. UNCHANGED <<told, tokens, bundles, cache>>
    BY <1>3 DEF AddPeer, serverVars
  <2> QED
    BY <2>3, <2>4 DEF Shapes, ToldShape, TokenShape, BundleShape, CacheShape
<1>4. CASE AddRollback(p)
  <2>1. /\ Copy(p) \in Devices /\ job[p].mint \in Mints
        /\ tokens[Copy(p)] = [bearer |-> job[p].mint, revoked |-> FALSE]
        /\ Revoked(p) = [tokens EXCEPT ![Copy(p)].revoked = TRUE]
    BY <1>4, <1>a, <1>b DEF AddRollback, AddPlaces, Working, Revoked, Copy
  <2>2. tokens[Copy(p)] # NoToken /\ ~tokens[Copy(p)].revoked
    BY <2>1, MintType DEF NoToken
  <2>3. tokens' = Revoked(p) \/ UNCHANGED tokens
    BY <1>4 DEF AddRollback, SaveTokens
  <2>4. TokenShape
    BY <2>1, <2>2, <2>3 DEF TokenShape
  <2>5. UNCHANGED <<told, peers, bundles, cache>>
    BY <1>4 DEF AddRollback, serverVars
  <2> QED
    BY <2>4, <2>5 DEF Shapes, ToldShape, PeerShape, BundleShape, CacheShape
<1>5. CASE AddBundle(p)
  <2> DEFINE b == [device |-> job[p].device, bearer |-> job[p].mint, address |-> job[p].address]
  <2>1. /\ b \in Bundle
        /\ tokens[b.device].bearer = b.bearer
        /\ peers[b.device] = [key |-> b.bearer, address |-> b.address]
    BY <1>5, <1>a, <1>b DEF AddBundle, AddPlaces, Working, Bundle, Copy
  <2>2. bundles' = bundles \cup {b} \/ UNCHANGED bundles
    BY <1>5 DEF AddBundle
  <2>3. BundleShape
    BY <2>1, <2>2 DEF BundleShape
  <2>4. UNCHANGED <<told, peers, tokens, cache>>
    BY <1>5 DEF AddBundle, serverVars, files
  <2> QED
    BY <2>3, <2>4 DEF Shapes, ToldShape, PeerShape, TokenShape, CacheShape
<1> QED
  BY <1>1, <1>2, <1>3, <1>4, <1>5 DEF Add

LEMMA RevokeShapes ==
  ASSUME TypeOK, SoloInv, NEW p \in Procs, RevokeCmd(p)
  PROVE  Shapes
<1>1. CASE \E d \in Devices : RevokeBegin(p, d)
  BY <1>1 DEF RevokeBegin, files, serverVars, Shapes, TokenShape, ToldShape,
     PeerShape, BundleShape, CacheShape
<1>2. CASE RevokeSave(p)
  <2>1. Working(p) /\ Copy(p) \in Devices /\ pc[p] = "revoke"
    BY <1>2, WorkerFacts DEF SoloInv, RevokeSave
  <2>2. /\ tokens[Copy(p)] # NoToken /\ ~tokens[Copy(p)].revoked
        /\ job[p].toks = tokens
        /\ Revoked(p) = [tokens EXCEPT ![Copy(p)].revoked = TRUE]
    BY <2>1 DEF Working, Revoked, Copy
  <2>3. \/ tokens' = Revoked(p) /\ told' = told \cup {tokens[Copy(p)].bearer}
        \/ UNCHANGED <<tokens, told>>
    BY <1>2, <2>2 DEF RevokeSave, SaveTokens, Tell, Copy
  <2>4. TokenShape
    BY <2>1, <2>2, <2>3 DEF TokenShape
  <2>5. ToldShape
    BY <2>1, <2>2, <2>3 DEF ToldShape
  <2>6. UNCHANGED <<peers, bundles, cache>>
    BY <1>2 DEF RevokeSave, serverVars
  <2> QED
    BY <2>4, <2>5, <2>6 DEF Shapes, PeerShape, BundleShape, CacheShape
<1> QED
  BY <1>1, <1>2 DEF RevokeCmd

LEMMA ShapesStep == TypeOK /\ SoloInv /\ [Next]_vars => Shapes
<1> SUFFICES ASSUME TypeOK, SoloInv, [Next]_vars PROVE Shapes
  OBVIOUS
<1>1. CASE (\E p \in Procs : Crash(p)) \/ Restart \/ Chmod \/ UNCHANGED vars
  BY <1>1 DEF Crash, Restart, Chmod, vars, files, serverVars, Shapes, TokenShape, ToldShape,
     PeerShape, BundleShape, CacheShape
<1> QED
  BY <1>1, AddShapes, RevokeShapes DEF Next

----------------------------------------------------------------------------
(* The shapes preserve what the files and the server know.                 *)

LEMMA TokensPersist ==
  ASSUME TypeOK, BearersSound, TokenShape, NEW d \in Devices, tokens[d] # NoToken
  PROVE  /\ tokens'[d] # NoToken /\ tokens'[d].bearer = tokens[d].bearer
         /\ tokens[d].revoked => tokens'[d].revoked
<1>1. tokens \in [Devices -> Token] /\ tokens[d].bearer # 0
  BY DEF TypeOK, BearersSound
<1>2. CASE UNCHANGED tokens
  BY <1>2
<1>3. CASE \E e \in Devices, m \in Mints :
             /\ tokens[e] = NoToken
             /\ tokens' = [tokens EXCEPT ![e] = [bearer |-> m, revoked |-> FALSE]]
  BY <1>1, <1>3
<1>4. CASE \E e \in Devices : tokens' = [tokens EXCEPT ![e].revoked = TRUE]
  <2>1. PICK e \in Devices : tokens' = [tokens EXCEPT ![e].revoked = TRUE]
    BY <1>4
  <2>2. tokens'[d] = tokens[d] \/ tokens'[d] = [tokens[d] EXCEPT !.revoked = TRUE]
    BY <1>1, <2>1
  <2>3. tokens'[d].bearer = tokens[d].bearer /\ (tokens[d].revoked => tokens'[d].revoked)
    BY <1>1, <2>2 DEF Token
  <2> QED
    BY <1>1, <2>3 DEF NoToken
<1> QED
  BY <1>2, <1>3, <1>4 DEF TokenShape

LEMMA NewBearers ==
  ASSUME TypeOK, BearersSound, TokenShape, minted' >= minted, minted' \in Nat
  PROVE  /\ \A d \in Devices : tokens'[d] # NoToken => tokens'[d].bearer # 0
         /\ \A d \in Devices : tokens'[d].bearer <= minted'
         /\ \A d, e \in Devices : d # e /\ tokens'[d] # NoToken
              => tokens'[d].bearer # tokens'[e].bearer
<1>1. tokens \in [Devices -> Token] /\ minted \in Nat
  BY HostAssumption DEF TypeOK
<1>2. \A d \in Devices : tokens[d].bearer \in Nat
  BY <1>1, HostAssumption DEF Token
<1>3. \A k \in Nat : k <= minted => k <= minted'
  BY <1>1
<1>4. CASE UNCHANGED tokens
  BY <1>2, <1>3, <1>4 DEF BearersSound
<1>5. CASE \E d \in Devices, m \in Mints :
             /\ tokens[d] = NoToken /\ m \notin told /\ m <= minted
             /\ \A e \in Devices : tokens[e].bearer # m
             /\ tokens' = [tokens EXCEPT ![d] = [bearer |-> m, revoked |-> FALSE]]
  <2>1. PICK d \in Devices, m \in Mints :
             /\ m <= minted
             /\ \A e \in Devices : tokens[e].bearer # m
             /\ tokens' = [tokens EXCEPT ![d] = [bearer |-> m, revoked |-> FALSE]]
    BY <1>5
  <2>2. m # 0 /\ m \in Nat
    BY HostAssumption DEF Mints
  <2>3. tokens'[d].bearer = m /\ \A e \in Devices \ {d} : tokens'[e] = tokens[e]
    BY <1>1, <2>1
  <2> QED
    BY <1>2, <1>3, <2>1, <2>2, <2>3 DEF BearersSound
<1>6. CASE \E d \in Devices :
             /\ tokens[d] # NoToken /\ ~tokens[d].revoked
             /\ tokens' = [tokens EXCEPT ![d].revoked = TRUE]
  <2>1. PICK d \in Devices : tokens[d] # NoToken /\ tokens' = [tokens EXCEPT ![d].revoked = TRUE]
    BY <1>6
  <2>2. \A e \in Devices : tokens'[e].bearer = tokens[e].bearer
    BY <1>1, <2>1 DEF Token
  <2>3. \A e \in Devices : tokens'[e] # NoToken => tokens[e] # NoToken
    BY <1>1, <2>1
  <2> QED
    BY <1>2, <1>3, <2>2, <2>3 DEF BearersSound
<1> QED
  BY <1>4, <1>5, <1>6 DEF TokenShape

LEMMA BearersStep ==
  ASSUME TypeOK, BearersSound, TokenShape, ToldShape, minted' >= minted, minted' \in Nat
  PROVE  BearersSound'
<1>1. \A b \in told' : b # 0 /\ b <= minted'
  <2>1. minted \in Nat /\ \A b \in told : b \in Nat
    BY HostAssumption DEF TypeOK
  <2>2. \A b \in told : b # 0 /\ b <= minted'
    BY <2>1 DEF BearersSound
  <2>3. \A d \in Devices : tokens[d] # NoToken =>
          (tokens[d].bearer # 0 /\ tokens[d].bearer <= minted')
    <3>1. \A d \in Devices : tokens[d].bearer \in Nat
      BY HostAssumption DEF TypeOK, Token
    <3> QED
      BY <2>1, <3>1 DEF BearersSound
  <2> QED
    BY <2>2, <2>3 DEF ToldShape
<1> QED
  BY <1>1, NewBearers DEF BearersSound

LEMMA MarksStep ==
  ASSUME TypeOK, BearersSound, RevokeMarks, TokenShape, ToldShape
  PROVE  RevokeMarks'
<1>1. tokens \in [Devices -> Token]
  BY DEF TypeOK
<1>2. ASSUME NEW b \in told, NEW d \in Devices, tokens'[d].bearer = b PROVE tokens'[d].revoked
  <2>1. tokens[d].bearer = b
    <3>1. CASE UNCHANGED tokens
      BY <1>2, <3>1
    <3>2. CASE \E e \in Devices, m \in Mints :
                 /\ m \notin told
                 /\ tokens' = [tokens EXCEPT ![e] = [bearer |-> m, revoked |-> FALSE]]
      BY <1>1, <1>2, <3>2
    <3>3. CASE \E e \in Devices : tokens' = [tokens EXCEPT ![e].revoked = TRUE]
      BY <1>1, <1>2, <3>3 DEF Token
    <3> QED
      BY <3>1, <3>2, <3>3 DEF TokenShape
  <2>2. tokens[d].revoked
    BY <2>1 DEF RevokeMarks
  <2>3. tokens[d] # NoToken
    BY <2>2 DEF NoToken
  <2> QED
    BY <2>2, <2>3, TokensPersist
<1>3. CASE UNCHANGED told
  BY <1>2, <1>3 DEF RevokeMarks
<1>4. CASE \E d \in Devices :
             /\ tokens[d] # NoToken /\ tokens' = [tokens EXCEPT ![d].revoked = TRUE]
             /\ told' = told \cup {tokens[d].bearer}
  <2>1. PICK d \in Devices :
             /\ tokens[d] # NoToken /\ tokens' = [tokens EXCEPT ![d].revoked = TRUE]
             /\ told' = told \cup {tokens[d].bearer}
    BY <1>4
  <2>2. tokens'[d].revoked
    BY <1>1, <2>1 DEF Token
  <2>3. \A e \in Devices : tokens'[e].bearer = tokens[e].bearer
    BY <1>1, <2>1 DEF Token
  <2>4. \A e \in Devices : tokens'[e].bearer = tokens[d].bearer => e = d
    BY <2>1, <2>3 DEF BearersSound
  <2> QED
    BY <1>2, <2>1, <2>2, <2>4 DEF RevokeMarks
<1> QED
  BY <1>3, <1>4 DEF ToldShape

LEMMA PeersStep ==
  ASSUME TypeOK, BearersSound, PeersSound, PeerHasToken, TokenShape, PeerShape
  PROVE  PeersSound' /\ PeerHasToken'
<1>1. peers \in [Devices -> Peer] /\ tokens \in [Devices -> Token]
  BY DEF TypeOK
<1>2. \A d \in Devices : tokens[d].bearer # 0 => tokens'[d].bearer = tokens[d].bearer
  BY TokensPersist DEF NoToken
<1>3. \A d \in Devices : peers[d] # NoPeer => tokens'[d].bearer = peers[d].key
  BY <1>2 DEF PeersSound, PeerHasToken
<1>4. CASE UNCHANGED peers
  BY <1>3, <1>4 DEF PeersSound, PeerHasToken
<1>5. CASE \E d \in Devices, m \in Mints, h \in Hosts :
             /\ peers[d] = NoPeer /\ tokens[d].bearer = m /\ h # 1
             /\ \A e \in Devices : peers[e].address # h
             /\ peers' = [peers EXCEPT ![d] = [key |-> m, address |-> h]]
  <2>1. PICK d \in Devices, m \in Mints, h \in Hosts :
             /\ peers[d] = NoPeer /\ tokens[d].bearer = m /\ h # 1
             /\ \A e \in Devices : peers[e].address # h
             /\ peers' = [peers EXCEPT ![d] = [key |-> m, address |-> h]]
    BY <1>5
  <2>2. m # 0 /\ h # 0
    BY HostAssumption DEF Mints, Hosts
  <2>3. /\ peers'[d] = [key |-> m, address |-> h]
        /\ \A e \in Devices \ {d} : peers'[e] = peers[e]
    BY <1>1, <2>1
  <2>4. tokens'[d].bearer = m
    BY <1>2, <2>1, <2>2
  <2>5. PeersSound'
    BY <2>1, <2>2, <2>3 DEF PeersSound
  <2>6. PeerHasToken'
    BY <1>3, <2>3, <2>4 DEF PeerHasToken
  <2> QED
    BY <2>5, <2>6
<1> QED
  BY <1>4, <1>5 DEF PeerShape

LEMMA BundlesStep ==
  ASSUME TypeOK, BearersSound, PeersSound, BundleKnown, TokenShape, PeerShape, BundleShape
  PROVE  BundleKnown'
<1>1. peers \in [Devices -> Peer]
  BY DEF TypeOK
<1>2. \A d \in Devices : tokens[d].bearer # 0 => tokens'[d].bearer = tokens[d].bearer
  BY TokensPersist DEF NoToken
<1>3. \A d \in Devices : peers[d] # NoPeer => peers'[d] = peers[d]
  BY <1>1 DEF PeerShape
<1>4. ASSUME NEW b \in Bundle, tokens[b.device].bearer = b.bearer,
             peers[b.device] = [key |-> b.bearer, address |-> b.address]
      PROVE  /\ tokens'[b.device].bearer = b.bearer
             /\ peers'[b.device] = [key |-> b.bearer, address |-> b.address]
  <2>1. b.device \in Devices /\ b.bearer # 0
    BY MintType DEF Bundle
  <2>2. peers[b.device] # NoPeer
    BY <1>4, <2>1 DEF NoPeer
  <2> QED
    BY <1>2, <1>3, <1>4, <2>1, <2>2
<1> DEFINE Known(b) == b \in Bundle /\ tokens[b.device].bearer = b.bearer
                     /\ peers[b.device] = [key |-> b.bearer, address |-> b.address]
<1>5. \A b \in bundles : Known(b)
  BY DEF BundleKnown, TypeOK
<1>6. \A b \in bundles' : Known(b)
  <2>1. CASE UNCHANGED bundles
    BY <1>5, <2>1
  <2>2. CASE \E b \in Bundle :
               /\ tokens[b.device].bearer = b.bearer
               /\ peers[b.device] = [key |-> b.bearer, address |-> b.address]
               /\ bundles' = bundles \cup {b}
    <3>1. PICK b \in Bundle :
               /\ tokens[b.device].bearer = b.bearer
               /\ peers[b.device] = [key |-> b.bearer, address |-> b.address]
               /\ bundles' = bundles \cup {b}
      BY <2>2
    <3>2. Known(b)
      BY <3>1
    <3> HIDE DEF Known
    <3> QED
      BY <1>5, <3>1, <3>2
  <2> QED
    BY <2>1, <2>2 DEF BundleShape
<1> QED
  BY <1>4, <1>6 DEF BundleKnown

LEMMA CacheStep ==
  ASSUME TypeOK, BearersSound, CacheIsPast, TokenShape, CacheShape
  PROVE  CacheIsPast'
<1>1. CASE UNCHANGED cache
  <2>1. ASSUME NEW d \in Devices, cache[d] # NoToken
        PROVE  /\ cache[d].bearer = tokens'[d].bearer
               /\ cache[d].revoked => tokens'[d].revoked
    <3>1. cache[d].bearer = tokens[d].bearer /\ (cache[d].revoked => tokens[d].revoked)
      BY <2>1 DEF CacheIsPast
    <3>2. tokens[d] # NoToken
      <4>1. cache[d] \in Token
        BY DEF TypeOK
      <4>2. cache[d].bearer # 0 \/ cache[d].revoked
        BY <2>1, <4>1 DEF Token, NoToken
      <4> QED
        BY <3>1, <4>2 DEF NoToken
    <3> QED
      BY <3>1, <3>2, TokensPersist
  <2> QED
    BY <1>1, <2>1 DEF CacheIsPast
<1>2. CASE cache' = tokens
  BY <1>2, TokensPersist DEF CacheIsPast
<1> QED
  BY <1>1, <1>2 DEF CacheShape

----------------------------------------------------------------------------
(* The one process keeps knowing what it knows.                            *)

LEMMA IdleWorks == ASSUME NEW p \in Procs, pc'[p] = "idle" PROVE Working(p)'
BY DEF Working, AddPlaces

LEMMA ExitWorks ==
  ASSUME TypeOK, NEW p \in Procs, Exit(p)
  PROVE  Working(p)'
<1>1. pc'[p] = "idle"
  BY DEF TypeOK, Exit, Goto
<1> QED
  BY <1>1, IdleWorks

LEMMA BeginWorks ==
  ASSUME TypeOK, SoloInv, NEW p \in Procs, NEW d \in Devices, AddBegin(p, d)
  PROVE  Working(p)'
<1>1. PICK h \in Allocate(peers) :
        job' = [job EXCEPT ![p] = [device |-> d, mint |-> minted + 1, address |-> h,
                                   toks |-> NoJob.toks, prs |-> peers]]
  BY DEF AddBegin
<1>2. /\ pc'[p] = "load" /\ Copy(p)' = d /\ job'[p].mint = minted + 1
      /\ job'[p].address = h /\ job'[p].prs = peers /\ minted' = minted + 1
      /\ UNCHANGED <<tokens, peers, told>>
  BY <1>1 DEF AddBegin, TypeOK, Goto, Copy, files
<1>3. h # 1 /\ \A e \in Devices : peers[e].address # h
  BY DEF Allocate, Free
<1>4. minted \in Nat /\ minted + 1 \in Nat
  BY HostAssumption DEF TypeOK
<1>5. minted + 1 \notin told
  BY <1>4 DEF SoloInv, BearersSound
<1>6. \A e \in Devices : tokens[e].bearer # minted + 1
  BY <1>4 DEF SoloInv, BearersSound
<1>7. peers[d] = NoPeer
  BY DEF AddBegin
<1> QED
  BY <1>2, <1>3, <1>4, <1>5, <1>6, <1>7 DEF Working, AddPlaces

LEMMA LoadWorks ==
  ASSUME TypeOK, SoloInv, NEW p \in Procs, AddLoad(p)
  PROVE  Working(p)'
<1>1. CASE Exit(p)
  BY <1>1, ExitWorks
<1>2. CASE tokens[Copy(p)] = NoToken /\ Goto(p, "token") /\ job' = [job EXCEPT ![p].toks = tokens]
  <2>1. job[p] \in Job
    BY DEF TypeOK
  <2>2. /\ pc'[p] = "token" /\ Copy(p)' = Copy(p) /\ job'[p].mint = job[p].mint
        /\ job'[p].address = job[p].address /\ job'[p].prs = job[p].prs
        /\ job'[p].toks = tokens
    BY <1>2, <2>1 DEF TypeOK, Goto, Copy, Job
  <2>3. UNCHANGED <<tokens, peers, told, minted>>
    BY DEF AddLoad, files
  <2>4. Working(p) /\ pc[p] = "load"
    BY DEF SoloInv, AddLoad
  <2> QED
    BY <1>2, <2>2, <2>3, <2>4 DEF Working, AddPlaces
<1> QED
  BY <1>1, <1>2 DEF AddLoad, Copy

LEMMA TokenWorks ==
  ASSUME TypeOK, SoloInv, NEW p \in Procs, AddToken(p)
  PROVE  Working(p)'
<1>1. CASE Exit(p)
  BY <1>1, ExitWorks
<1>2. CASE SaveTokens(Issued(p)) /\ Goto(p, "peer") /\ job' = [job EXCEPT ![p].toks = Issued(p)]
  <2>1. job[p] \in Job /\ Copy(p) \in Devices
    BY WorkerFacts DEF AddToken, AddPlaces
  <2>2. /\ pc'[p] = "peer" /\ Copy(p)' = Copy(p) /\ job'[p].mint = job[p].mint
        /\ job'[p].address = job[p].address /\ job'[p].prs = job[p].prs
        /\ job'[p].toks = Issued(p) /\ tokens' = Issued(p)
    BY <1>2, <2>1 DEF TypeOK, Goto, Copy, Job, SaveTokens
  <2>3. UNCHANGED <<peers, told, minted>>
    BY DEF AddToken
  <2>4. Working(p) /\ pc[p] = "token"
    BY DEF SoloInv, AddToken
  <2>5. Issued(p)[Copy(p)] = [bearer |-> job[p].mint, revoked |-> FALSE]
    BY <2>1 DEF Issued, Copy, Job
  <2> QED
    BY <2>2, <2>3, <2>4, <2>5 DEF Working, AddPlaces
<1> QED
  BY <1>1, <1>2 DEF AddToken

LEMMA PeerWorks ==
  ASSUME TypeOK, SoloInv, NEW p \in Procs, AddPeer(p)
  PROVE  Working(p)'
<1>1. job[p] \in Job /\ Copy(p) \in Devices
  BY WorkerFacts DEF AddPeer, AddPlaces
<1>2. UNCHANGED <<tokens, told, minted>>
  BY DEF AddPeer
<1>3. Working(p) /\ pc[p] = "peer"
  BY DEF SoloInv, AddPeer
<1>4. CASE UNCHANGED <<peers, job>> /\ Goto(p, "rollback")
  <2>1. pc'[p] = "rollback"
    BY <1>4 DEF Goto, TypeOK
  <2> QED
    BY <1>2, <1>3, <1>4, <2>1 DEF Working, AddPlaces, Copy
<1>5. CASE /\ peers' = [job[p].prs EXCEPT ![job[p].device] =
                          [key |-> job[p].mint, address |-> job[p].address]]
           /\ Goto(p, "bundle") /\ UNCHANGED job
  <2>1. pc'[p] = "bundle"
    BY <1>5 DEF Goto, TypeOK
  <2>2. peers'[Copy(p)] = [key |-> job[p].mint, address |-> job[p].address]
    BY <1>1, <1>5 DEF Copy, Job
  <2> QED
    BY <1>2, <1>3, <1>5, <2>1, <2>2 DEF Working, AddPlaces, Copy
<1>6. CASE Exit(p)
  BY <1>6, ExitWorks
<1> QED
  BY <1>4, <1>5, <1>6 DEF AddPeer

LEMMA RevokeWorks ==
  ASSUME TypeOK, SoloInv, NEW p \in Procs, NEW d \in Devices, RevokeBegin(p, d)
  PROVE  Working(p)'
<1>1. /\ pc'[p] = "revoke" /\ Copy(p)' = d /\ job'[p].toks = tokens
      /\ UNCHANGED tokens
  BY NoJobType DEF RevokeBegin, TypeOK, Goto, Copy, files, Job
<1>2. tokens[d] # NoToken /\ ~tokens[d].revoked
  BY DEF RevokeBegin
<1> QED
  BY <1>1, <1>2 DEF Working, AddPlaces

LEMMA WorkingStep ==
  ASSUME Solo, TypeOK, SoloInv, [Next]_vars, NEW p \in Procs
  PROVE  Working(p)'
<1>1. CASE Restart \/ Chmod \/ UNCHANGED vars
  <2>1. UNCHANGED <<tokens, peers, told, minted, pc, job>>
    BY <1>1 DEF Restart, Chmod, vars, files, cliVars
  <2> QED
    BY <2>1 DEF SoloInv, Working, Copy
<1>2. CASE AddRollback(p) \/ AddBundle(p) \/ RevokeSave(p) \/ Crash(p)
  BY <1>2, ExitWorks DEF AddRollback, AddBundle, RevokeSave, Crash
<1>3. Add(p) \/ RevokeCmd(p) \/ Crash(p) \/ Restart \/ Chmod \/ UNCHANGED vars
  BY DEF Next, Solo
<1> QED
  BY <1>1, <1>2, <1>3, BeginWorks, LoadWorks, TokenWorks, PeerWorks, RevokeWorks
     DEF Add, RevokeCmd

----------------------------------------------------------------------------
(* SoloInv is inductive.                                                   *)

LEMMA SoloInit == Init => SoloInv
<1> SUFFICES ASSUME Init PROVE SoloInv
  OBVIOUS
<1>1. /\ tokens = [d \in Devices |-> NoToken] /\ peers = [d \in Devices |-> NoPeer]
      /\ \A p \in Procs : pc[p] = "idle"
      /\ minted = 0 /\ bundles = {} /\ told = {} /\ cache = [d \in Devices |-> NoToken]
  BY DEF Init
<1>2. \A p \in Procs : Working(p)
  BY <1>1 DEF Working, AddPlaces
<1>3. BearersSound /\ PeersSound
  BY <1>1 DEF BearersSound, PeersSound, NoToken
<1>4. PeerHasToken /\ BundleKnown /\ CacheIsPast /\ RevokeMarks
  BY <1>1 DEF PeerHasToken, BundleKnown, CacheIsPast, RevokeMarks
<1> QED
  BY <1>2, <1>3, <1>4 DEF SoloInv

LEMMA MintsGrow == TypeOK /\ [Next]_vars => minted' >= minted /\ minted' \in Nat
<1> SUFFICES ASSUME TypeOK, [Next]_vars PROVE minted' = minted \/ minted' = minted + 1
  BY HostAssumption DEF TypeOK
<1>1. ASSUME NEW p \in Procs, Add(p) PROVE minted' = minted \/ minted' = minted + 1
  BY <1>1 DEF Add, AddBegin, AddLoad, AddToken, AddPeer, AddRollback, AddBundle
<1>2. ASSUME NEW p \in Procs, RevokeCmd(p) PROVE minted' = minted
  BY <1>2 DEF RevokeCmd, RevokeBegin, RevokeSave
<1>3. CASE (\E p \in Procs : Crash(p)) \/ Restart \/ Chmod \/ UNCHANGED vars
  BY <1>3 DEF Crash, Restart, Chmod, vars
<1> QED
  BY <1>1, <1>2, <1>3 DEF Next

LEMMA SoloStep == ASSUME Solo PROVE TypeOK /\ SoloInv /\ [Next]_vars => SoloInv'
<1> SUFFICES ASSUME TypeOK, SoloInv, [Next]_vars PROVE SoloInv'
  OBVIOUS
<1>1. Shapes
  BY ShapesStep
<1>2. minted' >= minted /\ minted' \in Nat
  BY MintsGrow
<1>3. BearersSound'
  BY <1>1, <1>2, BearersStep DEF SoloInv, Shapes
<1>4. PeersSound' /\ PeerHasToken'
  BY <1>1, PeersStep DEF SoloInv, Shapes
<1>5. BundleKnown'
  BY <1>1, BundlesStep DEF SoloInv, Shapes
<1>6. CacheIsPast'
  BY <1>1, CacheStep DEF SoloInv, Shapes
<1>7. RevokeMarks'
  BY <1>1, MarksStep DEF SoloInv, Shapes
<1>8. \A p \in Procs : Working(p)'
  BY WorkingStep
<1> QED
  BY <1>3, <1>4, <1>5, <1>6, <1>7, <1>8 DEF SoloInv

LEMMA SoloAlways == ASSUME Solo PROVE Spec => []SoloInv
<1>1. Init => SoloInv
  BY SoloInit
<1>2. TypeOK /\ SoloInv /\ [Next]_vars => SoloInv'
  BY SoloStep
<1> QED
  BY <1>1, <1>2, RegistryTypeCorrect, PTL DEF Spec

(* Tokens come first (cmd_peer_add): used by one process at a time, the    *)
(* CLI never leaves a device with an address and without its token,        *)
(* wherever a write fails or the process is killed.                        *)
THEOREM PeersHaveTokens == ASSUME Solo PROVE Spec => []PeerHasToken
<1>1. SoloInv => PeerHasToken
  BY DEF SoloInv
<1> QED
  BY <1>1, SoloAlways, PTL

(* Used by one process at a time, the CLI never changes the token or the   *)
(* peer of a device whose bundle the operator holds, but for revoking it   *)
(* (cmd_peer_add, and the copies of _load and _save in both stores).       *)
THEOREM BundlesKnown == ASSUME Solo PROVE Spec => []BundleKnown
<1>1. SoloInv => BundleKnown
  BY DEF SoloInv
<1> QED
  BY <1>1, SoloAlways, PTL

(* Used by one process at a time, the CLI leaves the server with a copy of *)
(* tokens.json that is late but never wrong: every bearer in it is the     *)
(* same device's in the file, and a revoked one is revoked there           *)
(* (TokenStore._load, add and revoke).                                     *)
THEOREM CachesArePast == ASSUME Solo PROVE Spec => []CacheIsPast
<1>1. SoloInv => CacheIsPast
  BY DEF SoloInv
<1> QED
  BY <1>1, SoloAlways, PTL

(* Used by one process at a time, the CLI never forgets a revocation it    *)
(* told the operator of (cmd_peer_revoke).                                 *)
THEOREM RevocationsStay == ASSUME Solo PROVE Spec => []RevokeMarks
<1>1. SoloInv => RevokeMarks
  BY DEF SoloInv
<1> QED
  BY <1>1, SoloAlways, PTL

(* Used by one process at a time, the CLI never gives an address that is   *)
(* in a bundle to another device, nor the server's (allocate_address).     *)
THEOREM AddressesUnique == ASSUME Solo PROVE Spec => []AddressesDistinct
<1>1. TypeOK /\ SoloInv => AddressesDistinct
  <2> SUFFICES ASSUME TypeOK, SoloInv PROVE AddressesDistinct
    OBVIOUS
  <2>1. ASSUME NEW b \in bundles
        PROVE  /\ b.device \in Devices /\ b.address # 1
               /\ peers[b.device].address = b.address
               /\ \A d \in Devices \ {b.device} : peers[d].address # b.address
    <3>1. b \in Bundle /\ b.device \in Devices /\ b.bearer # 0
      BY <2>1, MintType DEF TypeOK, Bundle
    <3>2. peers[b.device] = [key |-> b.bearer, address |-> b.address]
      BY <2>1 DEF SoloInv, BundleKnown
    <3>3. peers[b.device] # NoPeer
      BY <3>1, <3>2 DEF NoPeer
    <3> QED
      BY <3>1, <3>2, <3>3 DEF SoloInv, PeersSound
  <2> QED
    BY <2>1 DEF AddressesDistinct
<1> QED
  BY <1>1, SoloAlways, RegistryTypeCorrect, PTL

LEMMA RestartKnows ==
  ASSUME TypeOK, SoloInv, Restart, server' = "up"
  PROVE  /\ \A b \in bundles : Accepts(b.bearer)' <=> ~tokens[b.device].revoked
         /\ \A r \in told : ~Accepts(r)'
<1>1. cache' = tokens
  BY DEF Restart
<1>2. ASSUME NEW b \in bundles
      PROVE  Accepts(b.bearer)' <=> ~tokens[b.device].revoked
  <2>1. b \in Bundle /\ b.device \in Devices /\ b.bearer # 0
    BY <1>2, MintType DEF TypeOK, Bundle
  <2>2. tokens[b.device].bearer = b.bearer /\ tokens[b.device] # NoToken
    <3>1. tokens[b.device].bearer = b.bearer
      BY <1>2 DEF SoloInv, BundleKnown
    <3> QED
      BY <2>1, <3>1 DEF NoToken
  <2>3. \A d \in Devices : tokens[d].bearer = b.bearer => d = b.device
    BY <2>1, <2>2 DEF SoloInv, BearersSound
  <2>4. Accepts(b.bearer)' <=> \E d \in Devices : tokens[d].bearer = b.bearer /\ ~tokens[d].revoked
    <3>1. UNCHANGED bundles
      BY DEF Restart
    <3> QED
      BY <1>1, <3>1 DEF Accepts
  <2> QED
    BY <2>1, <2>2, <2>3, <2>4
<1>3. ASSUME NEW r \in told
      PROVE  ~Accepts(r)'
  BY <1>1, <1>3 DEF Accepts, SoloInv, RevokeMarks
<1> QED
  BY <1>2, <1>3

(* Used by one process at a time, the CLI hands out bundles that the       *)
(* server accepts from its next start until they are revoked, and a        *)
(* revocation has its effect at the next start (load_settings).            *)
THEOREM StartsKnow == ASSUME Solo PROVE Spec => StartKnows
<1>1. TypeOK /\ SoloInv /\ [Next]_vars
        => [Restart /\ server' = "up" =>
              /\ \A b \in bundles : Accepts(b.bearer)' <=> ~tokens[b.device].revoked
              /\ \A r \in told : ~Accepts(r)']_vars
  BY RestartKnows
<1> QED
  BY <1>1, SoloAlways, RegistryTypeCorrect, PTL DEF Spec, StartKnows

----------------------------------------------------------------------------
(* The registry implements the life of a token.                            *)

Bearer == [d \in Devices |-> tokens[d].bearer]
State  == [d \in Devices |-> Status(d)]

LifeStep == Life!LifeNext \/ UNCHANGED <<Bearer, State>>

LEMMA LifeSteps ==
  ASSUME TypeOK, TokenShape
  PROVE  LifeStep
<1>1. tokens \in [Devices -> Token]
  BY DEF TypeOK
<1>2. CASE UNCHANGED tokens
  BY <1>2 DEF LifeStep, Bearer, State, Status
<1>3. CASE \E d \in Devices, m \in Mints :
             /\ tokens[d] = NoToken
             /\ tokens' = [tokens EXCEPT ![d] = [bearer |-> m, revoked |-> FALSE]]
  <2>1. PICK d \in Devices, m \in Mints :
             /\ tokens[d] = NoToken
             /\ tokens' = [tokens EXCEPT ![d] = [bearer |-> m, revoked |-> FALSE]]
    BY <1>3
  <2>2. tokens'[d] = [bearer |-> m, revoked |-> FALSE] /\ m # 0
    BY <1>1, <2>1, MintType
  <2>3. \A e \in Devices \ {d} : tokens'[e] = tokens[e]
    BY <1>1, <2>1
  <2>4. Status(d) = "unknown" /\ Status(d)' = "active"
    BY <2>1, <2>2 DEF Status, NoToken
  <2>5. \A e \in Devices \ {d} : Status(e)' = Status(e)
    BY <2>3 DEF Status
  <2>6. State[d] = "unknown" /\ State' = [State EXCEPT ![d] = "active"]
    BY <2>4, <2>5 DEF State
  <2>7. \A e \in Devices \ {d} : Bearer'[e] = Bearer[e]
    BY <2>3 DEF Bearer
  <2>8. Life!Issue(d)
    BY <2>6, <2>7 DEF Life!Issue, State, Bearer
  <2> QED
    BY <2>8 DEF LifeStep, Life!LifeNext
<1>4. CASE \E d \in Devices :
             /\ tokens[d] # NoToken /\ ~tokens[d].revoked
             /\ tokens' = [tokens EXCEPT ![d].revoked = TRUE]
  <2>1. PICK d \in Devices :
             /\ tokens[d] # NoToken /\ ~tokens[d].revoked
             /\ tokens' = [tokens EXCEPT ![d].revoked = TRUE]
    BY <1>4
  <2>2. tokens'[d].revoked /\ tokens'[d].bearer = tokens[d].bearer
    BY <1>1, <2>1 DEF Token
  <2>3. \A e \in Devices \ {d} : tokens'[e] = tokens[e]
    BY <1>1, <2>1
  <2>4. Status(d) = "active" /\ Status(d)' = "revoked"
    BY <2>1, <2>2 DEF Status, NoToken
  <2>5. \A e \in Devices \ {d} : Status(e)' = Status(e)
    BY <2>3 DEF Status
  <2>6. State[d] = "active" /\ State' = [State EXCEPT ![d] = "revoked"]
    BY <2>4, <2>5 DEF State
  <2>7. UNCHANGED Bearer
    BY <2>2, <2>3 DEF Bearer
  <2>8. Life!Revoke(d)
    BY <2>6, <2>7 DEF Life!Revoke, State, Bearer
  <2> QED
    BY <2>8 DEF LifeStep, Life!LifeNext
<1> QED
  BY <1>2, <1>3, <1>4 DEF TokenShape

(* Used by one process at a time, the CLI issues a device's bearer once,   *)
(* may revoke it, and never brings it back (TokenStore.add and revoke).    *)
THEOREM RegistryImplements == ASSUME Solo PROVE Spec => ImplementsTokenLife
<1>1. LifeStep <=> [Life!LifeNext]_(Life!lifeVars)
  BY DEF LifeStep, Bearer, State, Life!lifeVars
<1>2. TypeOK /\ SoloInv /\ [Next]_vars => [Life!LifeNext]_(Life!lifeVars)
  BY <1>1, ShapesStep, LifeSteps DEF Shapes
<1>3. Init => Life!LifeInit
  BY DEF Init, Life!LifeInit, Status
<1> QED
  BY <1>2, <1>3, SoloAlways, RegistryTypeCorrect, PTL
     DEF Spec, ImplementsTokenLife, Life!LifeSpec
=============================================================================
