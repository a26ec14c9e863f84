------------------------------ MODULE Registry -------------------------------
(***************************************************************************)
(* The device registry: tokens.json and peers.json, the CLI processes that *)
(* change them (peer add, peer revoke), and the proxy server, which reads  *)
(* tokens.json when it starts.  A CLI process loads a whole file, changes  *)
(* its copy and replaces the file (tempfile, then os.replace): nothing     *)
(* keeps two of them apart.                                                *)
(*                                                                         *)
(* A mint is what one "peer add" draws: a key pair and a bearer, named by  *)
(* the same number.  0 stands for no entry.                                *)
(***************************************************************************)
EXTENDS Integers

CONSTANTS
  Devices,    \* device ids
  NoDevice,   \* not one of them
  Procs,      \* CLI processes that may run at the same time
  LastHost,   \* hosts of network_cidr are 1..LastHost; 1 is the server
  MaxMints,   \* bound: "peer add" invocations that get as far as minting
  Failures    \* what may fail: "tokens", "peers", "bundle" (writes), "crash"

Hosts == 1..LastHost
Mints == 1..MaxMints

ASSUME DeviceAssumption == NoDevice \notin Devices
ASSUME HostAssumption == LastHost \in Nat /\ MaxMints \in Nat
ASSUME FailureAssumption == Failures \subseteq {"tokens", "peers", "bundle", "crash"}

Token == [bearer : 0..MaxMints, revoked : BOOLEAN]
Peer  == [key : 0..MaxMints, address : 0..LastHost]

NoToken == [bearer |-> 0, revoked |-> FALSE]
NoPeer  == [key |-> 0, address |-> 0]

VARIABLES
  tokens,   \* tokens.json
  peers,    \* peers.json
  mode,     \* tokens.json: "shared" 0640 root:cardputer-proxy, "private" 0600 root
  pc,       \* pc[p]: where a CLI process is
  job,      \* job[p]: its device, its mint and address, its copies of the files
  minted,   \* mints so far
  bundles,  \* whole bundles on disk: [device, bearer, address]
  told,     \* bearers whose revocation the operator was told of
  server,   \* "up" or "down"
  cache     \* the running server's tokens

files      == <<tokens, peers, mode>>
cliVars    == <<pc, job>>
serverVars == <<server, cache>>
vars       == <<files, cliVars, minted, bundles, told, serverVars>>

Bundle == [device : Devices, bearer : Mints, address : Hosts]

Job == [device : Devices \cup {NoDevice}, mint : 0..MaxMints, address : 0..LastHost,
        toks : [Devices -> Token], prs : [Devices -> Peer]]

NoJob == [device |-> NoDevice, mint |-> 0, address |-> 0,
          toks |-> [d \in Devices |-> NoToken], prs |-> [d \in Devices |-> NoPeer]]

AddPlaces == {"load", "token", "peer", "rollback", "bundle"}

TypeOK ==
  /\ tokens \in [Devices -> Token] /\ peers \in [Devices -> Peer]
  /\ mode \in {"shared", "private"}
  /\ pc \in [Procs -> AddPlaces \cup {"idle", "revoke"}]
  /\ job \in [Procs -> Job]
  /\ \A p \in Procs :
       /\ pc[p] # "idle" => job[p].device \in Devices
       /\ pc[p] \in AddPlaces => job[p].mint \in Mints /\ job[p].address \in Hosts
  /\ minted \in 0..MaxMints
  /\ bundles \subseteq Bundle /\ told \subseteq 0..MaxMints
  /\ server \in {"up", "down"} /\ cache \in [Devices -> Token]

Init ==
  /\ tokens = [d \in Devices |-> NoToken] /\ peers = [d \in Devices |-> NoPeer]
  /\ mode = "shared"
  /\ pc = [p \in Procs |-> "idle"] /\ job = [p \in Procs |-> NoJob]
  /\ minted = 0 /\ bundles = {} /\ told = {}
  /\ server = "up" /\ cache = [d \in Devices |-> NoToken]

\* The process goes on at another place, or is over.
Goto(p, place) == pc' = [pc EXCEPT ![p] = place]
Exit(p) == Goto(p, "idle") /\ job' = [job EXCEPT ![p] = NoJob]

----------------------------------------------------------------------------
(* peer add.  Early returns that change nothing are steps of no process.   *)

\* Mutant: the network address is counted among the hosts.
FreeFromZero(prs) == {h \in (0..LastHost) \ {1} : \A d \in Devices : prs[d] = NoPeer \/ prs[d].address # h}

Free(prs) == {h \in Hosts \ {1} : \A d \in Devices : prs[d].address # h}

\* Mutant: the addresses in use are forgotten.
AllocateFirst(prs) == {h \in Hosts \ {1} : \A g \in Hosts \ {1} : h <= g}

\* allocate_address: the lowest free host; none if the pool is empty.
Allocate(prs) == {h \in Free(prs) : \A g \in Free(prs) : h <= g}

\* Load peers.json, refuse a known device, draw the keys and the address.
AddBegin(p, d) ==
  /\ pc[p] = "idle" /\ minted < MaxMints
  /\ peers[d] = NoPeer
  /\ Goto(p, "load")
  /\ \E h \in Allocate(peers) :
       job' = [job EXCEPT ![p] = [device |-> d, mint |-> minted + 1, address |-> h,
                                  toks |-> NoJob.toks, prs |-> peers]]
  /\ minted' = minted + 1
  /\ UNCHANGED <<files, bundles, told, serverVars>>

\* Load tokens.json; a device that is already there ends the command.
AddLoad(p) ==
  /\ pc[p] = "load"
  /\ IF tokens[job[p].device] = NoToken
       THEN Goto(p, "token") /\ job' = [job EXCEPT ![p].toks = tokens]
       ELSE Exit(p)
  /\ UNCHANGED <<files, minted, bundles, told, serverVars>>

\* os.replace by root leaves a file of mode 0600 that root owns.
SaveTokens(toks) == tokens' = toks /\ mode' = "private"

\* Mutant: the tokens of the other devices are not written back.
IssuedAlone(p) ==
  [NoJob.toks EXCEPT ![job[p].device] = [bearer |-> job[p].mint, revoked |-> FALSE]]

Issued(p) == [job[p].toks EXCEPT ![job[p].device] = [bearer |-> job[p].mint, revoked |-> FALSE]]

\* Mutant: the command goes on when the token could not be written.
AddTokenGoesOn(p) ==
  /\ pc[p] = "token"
  /\ Goto(p, "peer") /\ job' = [job EXCEPT ![p].toks = Issued(p)]
  /\ SaveTokens(Issued(p)) \/ UNCHANGED <<tokens, mode>>
  /\ UNCHANGED <<peers, minted, bundles, told, serverVars>>

AddToken(p) ==
  /\ pc[p] = "token"
  /\ \/ /\ SaveTokens(Issued(p))
        /\ Goto(p, "peer") /\ job' = [job EXCEPT ![p].toks = Issued(p)]
     \/ "tokens" \in Failures /\ Exit(p) /\ UNCHANGED <<tokens, mode>>
  /\ UNCHANGED <<peers, minted, bundles, told, serverVars>>

\* Mutant: the command goes on when the peer could not be written.
AddPeerGoesOn(p) ==
  /\ pc[p] = "peer"
  /\ \/ peers' = [job[p].prs EXCEPT ![job[p].device] =
                    [key |-> job[p].mint, address |-> job[p].address]]
     \/ UNCHANGED peers
  /\ Goto(p, "bundle")
  /\ UNCHANGED <<tokens, mode, job, minted, bundles, told, serverVars>>

(***************************************************************************)
(* Only a PeerStoreError is rolled back: the directory that cannot be made *)
(* is an OSError, which ends the command as it is.                         *)
(***************************************************************************)
AddPeer(p) ==
  /\ pc[p] = "peer"
  /\ \/ /\ peers' = [job[p].prs EXCEPT ![job[p].device] =
                       [key |-> job[p].mint, address |-> job[p].address]]
        /\ Goto(p, "bundle") /\ UNCHANGED job
     \/ "peers" \in Failures /\ Goto(p, "rollback") /\ UNCHANGED <<peers, job>>
     \/ "peers" \in Failures /\ Exit(p) /\ UNCHANGED peers
  /\ UNCHANGED <<tokens, mode, minted, bundles, told, serverVars>>

Revoked(p) == [job[p].toks EXCEPT ![job[p].device].revoked = TRUE]

\* token_store.revoke, on the copy this process has: the entry stays.
AddRollback(p) ==
  /\ pc[p] = "rollback"
  /\ \/ SaveTokens(Revoked(p))
     \/ "tokens" \in Failures /\ UNCHANGED <<tokens, mode>>
  /\ Exit(p)
  /\ UNCHANGED <<peers, minted, bundles, told, serverVars>>

\* wg.conf and proxy.json; if either cannot be written there is no bundle.
AddBundle(p) ==
  /\ pc[p] = "bundle"
  /\ \/ bundles' = bundles \cup {[device |-> job[p].device, bearer |-> job[p].mint,
                                  address |-> job[p].address]}
     \/ "bundle" \in Failures /\ UNCHANGED bundles
  /\ Exit(p)
  /\ UNCHANGED <<files, minted, told, serverVars>>

----------------------------------------------------------------------------
(* peer revoke                                                             *)

RevokeBegin(p, d) ==
  /\ pc[p] = "idle"
  /\ tokens[d] # NoToken /\ ~tokens[d].revoked
  /\ Goto(p, "revoke")
  /\ job' = [job EXCEPT ![p] = [NoJob EXCEPT !.device = d, !.toks = tokens]]
  /\ UNCHANGED <<files, minted, bundles, told, serverVars>>

Tell(p) == told' = told \cup {job[p].toks[job[p].device].bearer}

\* Mutant: the entry is dropped instead of being marked.
RevokeDrops(p) ==
  /\ pc[p] = "revoke"
  /\ SaveTokens([job[p].toks EXCEPT ![job[p].device] = NoToken]) /\ Tell(p)
  /\ Exit(p)
  /\ UNCHANGED <<peers, minted, bundles, serverVars>>

\* Mutant: the operator is told before the file is written.
RevokeTellsFirst(p) ==
  /\ pc[p] = "revoke"
  /\ SaveTokens(Revoked(p)) \/ UNCHANGED <<tokens, mode>>
  /\ Tell(p) /\ Exit(p)
  /\ UNCHANGED <<peers, minted, bundles, serverVars>>

RevokeSave(p) ==
  /\ pc[p] = "revoke"
  /\ \/ SaveTokens(Revoked(p)) /\ Tell(p)
     \/ "tokens" \in Failures /\ UNCHANGED <<tokens, mode, told>>
  /\ Exit(p)
  /\ UNCHANGED <<peers, minted, bundles, serverVars>>

----------------------------------------------------------------------------
(* A process is killed between two of its steps.                           *)

Crash(p) ==
  /\ "crash" \in Failures /\ pc[p] # "idle"
  /\ Exit(p)
  /\ UNCHANGED <<files, minted, bundles, told, serverVars>>

----------------------------------------------------------------------------
(* The server: load_settings at its start, require_bearer afterwards.      *)

\* The service user cannot read what root left private: startup fails.
Restart ==
  /\ IF mode = "shared" THEN server' = "up" /\ cache' = tokens
                        ELSE server' = "down" /\ UNCHANGED cache
  /\ UNCHANGED <<files, cliVars, minted, bundles, told>>

Accepts(b) ==
  server = "up" /\ \E d \in Devices : cache[d].bearer = b /\ ~cache[d].revoked

\* An operator gives the service its file back.
Chmod ==
  /\ mode = "private" /\ mode' = "shared"
  /\ UNCHANGED <<tokens, peers, cliVars, minted, bundles, told, serverVars>>

----------------------------------------------------------------------------

Add(p)    == (\E d \in Devices : AddBegin(p, d)) \/ AddLoad(p) \/ AddToken(p)
               \/ AddPeer(p) \/ AddRollback(p) \/ AddBundle(p)
RevokeCmd(p) == (\E d \in Devices : RevokeBegin(p, d)) \/ RevokeSave(p)

Next == (\E p \in Procs : Add(p) \/ RevokeCmd(p) \/ Crash(p)) \/ Restart \/ Chmod

Spec == Init /\ [][Next]_vars

\* systemd restarts a service that failed.
FairSpec == Spec /\ WF_vars(Restart)

----------------------------------------------------------------------------
(* Tokens come first (the comment in cmd_peer_add): a device with an       *)
(* address in peers.json has its token, of the same mint, in tokens.json,  *)
(* wherever a command failed or was killed.                                *)
PeerHasToken == \A d \in Devices : peers[d] # NoPeer => tokens[d].bearer = peers[d].key

(* allocate_address picks an unused host: no two devices were handed the   *)
(* same address, and none the server's.                                    *)
AddressesDistinct ==
  /\ \A b, c \in bundles : b.address = c.address => b.device = c.device
  /\ \A b \in bundles : b.address # 1 /\ \A d \in Devices \ {b.device} : peers[d].address # b.address

(* A bundle handed out works: its bearer is the device's in tokens.json,   *)
(* and its key and address the device's in peers.json.                     *)
BundleKnown ==
  \A b \in bundles :
    /\ tokens[b.device].bearer = b.bearer
    /\ peers[b.device] = [key |-> b.bearer, address |-> b.address]

(* The server knows no bearer that the file does not know, and none as     *)
(* revoked that the file has as active, however stale its copy is.         *)
CacheIsPast ==
  \A d \in Devices : cache[d] # NoToken =>
    /\ cache[d].bearer = tokens[d].bearer
    /\ cache[d].revoked => tokens[d].revoked

(* A server that starts knows what the commands have done: it accepts the  *)
(* bearer of a bundle handed out unless that has been revoked, and refuses *)
(* every bearer whose revocation the operator was told of.                 *)
StartKnows ==
  [][Restart /\ server' = "up" =>
       /\ \A b \in bundles : Accepts(b.bearer)' <=> ~tokens[b.device].revoked
       /\ \A r \in told : ~Accepts(r)']_vars

(* peer revoke marks the token revoked in tokens.json (M5 plan): once the  *)
(* operator was told so, the file never has that bearer as active.         *)
RevokeMarks ==
  \A b \in told : \A d \in Devices : tokens[d].bearer = b => tokens[d].revoked

(* A bearer is issued once, may be revoked, and never comes back.  The M5  *)
(* plan would have peer add with a known id rotate the bearer; the code    *)
(* refuses it, and so does its test.                                       *)
Status(d) == IF tokens[d] = NoToken THEN "unknown"
             ELSE IF tokens[d].revoked THEN "revoked" ELSE "active"

Life == INSTANCE TokenLife WITH
          Ids    <- Devices,
          holder <- [d \in Devices |-> tokens[d].bearer],
          status <- [d \in Devices |-> Status(d)]

ImplementsTokenLife == Life!LifeSpec

(* tokens.json stays readable for the service (M5 plan): a server that     *)
(* is down comes back.                                                     *)
ServerComesBack == (server = "down") ~> (server = "up")
=============================================================================
