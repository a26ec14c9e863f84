------------------------------- MODULE ChatTurn ------------------------------
(***************************************************************************)
(* The whole chat path: the device, the network and the proxy with its     *)
(* upstream, interleaved.                                                  *)
(***************************************************************************)
EXTENDS DeviceChat, ProxyChat

vars == <<wireVars, deviceVars, proxyVars>>

Init == WireInit /\ DeviceInit /\ ProxyInit

Device  == DeviceNext /\ UNCHANGED proxyVars
Proxy   == ProxyNext /\ UNCHANGED deviceVars
Network == (\E t \in Turns : Reset(t)) /\ UNCHANGED <<deviceVars, proxyVars>>

Next == Device \/ Proxy \/ Network

Spec == Init /\ [][Next]_vars

(***************************************************************************)
(* The loop task always runs on, and time does not stand still: a tick     *)
(* that is possible again and again happens, even between lines that keep  *)
(* coming.  Nothing is assumed of the proxy, the upstream or the user.     *)
(***************************************************************************)
Fairness == WF_vars(TurnStep /\ UNCHANGED proxyVars) /\ SF_vars(Tick /\ UNCHANGED proxyVars)

FairSpec == Spec /\ Fairness

----------------------------------------------------------------------------
(* Every variable has the type its declaration gives it.                   *)
TypeOK == WireTypeOK /\ DeviceTypeOK /\ ProxyTypeOK

(* The conversation alternates user and assistant, and a user message is   *)
(* last exactly while its turn is running: whatever fails in post_sse,     *)
(* send() leaves no half turn behind (chat_client.cpp, pop_back).          *)
Alternates(messages) ==
  \A i \in 1..Len(messages) :
    messages[i].role = IF i % 2 = 1 THEN "user" ELSE "assistant"

HistoryAlternates ==
  /\ Alternates(history)
  /\ Len(history) % 2 = IF pc = "idle" THEN 0 ELSE 1

(* Every request the proxy can be handling carries a well-formed           *)
(* conversation that ends with the question of its own turn and in which   *)
(* every question is older than the ones after it: Anthropic rejects a     *)
(* request whose roles do not alternate.                                   *)
RequestWellFormed ==
  \A t \in Turns : asked[t] # << >> =>
    /\ Alternates(asked[t])
    /\ asked[t][Len(asked[t])] = UserMessage(t)
    /\ \A i \in 1..(Len(asked[t]) - 1) : \A u \in 1..Len(asked[t][i].content) :
         asked[t][i].content[u][1] < t

(* A turn the device reports as failed has shown nothing of a reply: text  *)
(* is painted only after a 2xx status, and then post_sse succeeds.         *)
FailureShowsNothing == status = "error" => reply = << >>

(* When every event fits the device's line buffer, the reply on the screen *)
(* is what the upstream generated from its beginning, without a hole:      *)
(* send() accumulates the streamed reply (chat_client.h).                  *)
ReplyIsPrefix == \A i \in 1..Len(reply) : reply[i] = <<turn, i>>

(* A turn that ended with [DONE] lost nothing on the way: the reply is all *)
(* the text the upstream generated for that turn.                          *)
DoneMeansAllText == ended => Len(reply) = gen[turn]

(* Every turn ends: post_sse's timeouts return control to the loop task    *)
(* whatever the proxy, the upstream or the network do.                     *)
TurnEnds == (pc # "idle") ~> (pc = "idle")

----------------------------------------------------------------------------
(* The chat path implements the conversation its user sees.                *)

Completed(messages) ==
  [k \in 1..(Len(messages) \div 2) |->
     [question |-> messages[2 * k - 1].content[1][1],
      reply    |-> messages[2 * k].content]]

Conv == INSTANCE Conversation WITH
          turns  <- Completed(history),
          asking <- IF pc = "idle" THEN 0 ELSE turn

(* A failed, late, cut or repeated answer never changes the turns already  *)
(* recorded and never leaves text of one turn in another.                  *)
ImplementsConversation == Conv!ConvSpec
=============================================================================
